--------------------------- MODULE IncidentAnalysis ---------------------------
(***************************************************************************)
(* Diagnosing an incident from a pinned repository snapshot, and previewing*)
(* a patch for a saved diagnosis: the routes diagnose_github_incident and  *)
(* create_github_patch_preview (src/github_integration/router.py) with the *)
(* analysis store, the source context, the diagnosis contract, the model   *)
(* adapter and the patch binding behind them (analysis_store.py,           *)
(* source_context.py, diagnosis.py, ollama_provider.py, workflow.py).      *)
(*                                                                         *)
(* Each route binds in a read of the store, reads source from GitHub,      *)
(* checks the binding again and asks a model, all without the lock, so     *)
(* that a webhook may be handled between any two of these.                 *)
(* The model is external and may answer anything.  A blob is immutable, so *)
(* the excerpts are a function of the snapshot and the policy.  The text   *)
(* of a result and its redaction are left out; its citations are kept.     *)
(***************************************************************************)
EXTENDS GitHubConnection

CONSTANTS
    Size,               \* blob -> bytes
    Text,               \* blob -> "text", "blank" or "binary"
    SafePaths,          \* the paths _is_safe_path accepts
    PathOrder,          \* path -> its place in the order of paths
    Relevance,          \* path -> words it shares with the incident
    DiagnosisPolicy,    \* [max_files, max_file_bytes, max_total_bytes]
    PatchPolicy,
    Answers,            \* external: results a model may give, see Result
    Proposals,          \* external: sets of paths a model may propose to change
    WorkspacePaths,     \* the paths LocalPatchWorkspace._validate_path accepts
    ChatBytes,          \* blob -> bytes its source takes in a request to the local model
    MaxChatBytes,       \* max_request_bytes, less what the rest of a request takes
    MaxChanges,         \* GITHUB_PATCH_MAX_CHANGES
    \* A bound of the instance, not in the code:
    MaxAnalyses

\* The deployment's defaults: what fits a diagnosis fits a patch.
ASSUME PolicyAssumption ==
    \A f \in {"max_files", "max_file_bytes", "max_total_bytes"} :
        DiagnosisPolicy[f] \in Nat /\ PatchPolicy[f] \in Nat /\ PatchPolicy[f] >= DiagnosisPolicy[f]

\* github_snapshot_files has one row per path of a snapshot (its primary key);
\* sizes and shared words are counted; paths have an order without ties.
ASSUME FilesAssumption ==
    /\ \A c \in Commits :
          /\ IsFiniteSet(FilesAt[c].files)
          /\ \A f, g \in FilesAt[c].files : f.path = g.path => f = g
          /\ \A f \in FilesAt[c].files : Size[f.blob] \in Nat
          /\ \A f \in FilesAt[c].files : ChatBytes[f.blob] \in Nat
    /\ MaxChatBytes \in Nat
    /\ SafePaths \subseteq DOMAIN Relevance
    /\ \A p \in SafePaths : Relevance[p] \in Nat /\ PathOrder[p] \in Nat
    /\ \A p, q \in SafePaths : PathOrder[p] = PathOrder[q] => p = q

VARIABLES
    analyses,   \* github_incident_analyses, oldest first
    preview,    \* what the patch preview route answers, in the step it does
    current     \* history: the clients whose binding has held since their source was read,
                \* in one state at least

analysisVars == <<analyses, preview, current>>
allVars == <<vars, analysisVars>>

NoPreview == [outcome |-> "none", analysis |-> None, changed |-> {}]
Silent == preview' = NoPreview

-----------------------------------------------------------------------------
(* source_context.py *)

Before(words, f, g) ==
    LET m(x) == words[x.path]
    IN  \/ m(f) > m(g)
        \/ m(f) = m(g) /\ Size[f.blob] < Size[g.blob]
        \/ m(f) = m(g) /\ Size[f.blob] = Size[g.blob] /\ PathOrder[f.path] < PathOrder[g.path]

\* The safe files of at most the policy's size, the most relevant first.
select_source_files(files, words, policy) ==
    LET safe   == {f \in files : f.path \in SafePaths /\ Size[f.blob] <= policy.max_file_bytes}
        Rank(f) == Cardinality({g \in safe : Before(words, g, f)})
    IN  [k \in 1..Min({Cardinality(safe), policy.max_files}) |-> CHOOSE f \in safe : Rank(f) = k - 1]

\* Binary files are passed over, and those that no longer fit the total.
Take(acc, f, policy) ==
    IF acc.bytes + Size[f.blob] > policy.max_total_bytes \/ Text[f.blob] = "binary"
    THEN acc
    ELSE [bytes |-> acc.bytes + Size[f.blob], excerpts |-> acc.excerpts \cup {f}]

build_source_context(files, words, policy) ==
    LET Fit(acc, f) == Take(acc, f, policy)
        ranked      == select_source_files(files, words, policy)
    IN  IF ranked = <<>> THEN {}
        ELSE FoldLeft(Fit, [bytes |-> 0, excerpts |-> {}], ranked).excerpts

\* build_diagnosis_request: a blank file grounds nothing.
Excerpts(context) == {f \in context : Text[f.blob] # "blank"}

PathsOf(S) == {f.path : f \in S}
Bytes(S) == FoldSet(LAMBDA f, n : n + Size[f.blob], 0, S)

-----------------------------------------------------------------------------
(* diagnosis.py *)

\* A citation names a file, a blob and lines that are inside the excerpt or not.
Cites(claim, excerpts) ==
    claim.inside /\ [path |-> claim.path, blob |-> claim.blob] \in excerpts

\* Mutant: the paths of the fix are not checked.
GroundedEvidence(excerpts, answer) ==
    /\ answer.evidence # {}
    /\ \A claim \in answer.evidence : Cites(claim, excerpts)

\* _validate_grounding, by the adapter and again by DiagnosisService.
Grounded(excerpts, answer) ==
    /\ answer.evidence # {}
    /\ \A claim \in answer.evidence : Cites(claim, excerpts)
    /\ answer.fix \subseteq PathsOf(excerpts)

\* DiagnosisService.diagnose: anything else becomes a fallback without claims.
Result(excerpts, answer) ==
    IF excerpts # {} /\ Grounded(excerpts, answer)
    THEN [status |-> "diagnosed", evidence |-> PathsOf(answer.evidence), fix |-> answer.fix]
    ELSE [status |-> "fallback", evidence |-> {}, fix |-> {}]

-----------------------------------------------------------------------------
(* analysis_store.py *)

\* _load_active_service_snapshot for one snapshot.
Bound(s, k) ==
    LET r == mapping[s]
    IN  /\ r # None /\ k \in DOMAIN snapshots /\ snapshots[k].repo = r
        /\ ActiveSelected(r)

\* Without one, the newest that is bound.
Newest(s) ==
    LET K == {k \in DOMAIN snapshots : Bound(s, k)}
    IN  IF K = {} THEN None ELSE Max(K)

\* Mutant: the transaction trusts the check made before the model was asked.
StillBoundAssumed(q) == TRUE

\* persist_diagnosis_result makes the check in its transaction.
StillBound(q) == Bound(q.service, q.snapshot)

Begin(c, kind, s, k, a) ==
    /\ Idle(c)
    /\ req' = [req EXCEPT ![c] = [NoRequest EXCEPT
                  !.kind = kind, !.phase = "reading", !.service = s, !.snapshot = k, !.analysis = a,
                  !.repo = mapping[s], !.inst = repo[mapping[s]].inst]]

\* The service an incident belongs to never changes: it is in its fingerprint.
DiagnosisBegin(c, s) ==
    /\ Len(analyses) < MaxAnalyses
    /\ Newest(s) # None
    /\ Begin(c, "diagnosis", s, Newest(s), None)
    /\ UNCHANGED <<provider, delivered, inst, repo, mapping, snapshots, history, analyses>>
    /\ Silent

\* _build_source_context_for_binding, over its last request to GitHub.
SourceRead(c) ==
    LET q == req[c]
    IN  /\ q.kind \in {"diagnosis", "preview"} /\ q.phase = "reading"
        /\ Readable(q.inst, q.repo)
        /\ req' = [req EXCEPT ![c].phase = "read"]
        /\ UNCHANGED <<provider, delivered, inst, repo, mapping, snapshots, history, analyses>>
        /\ Silent

\* Mutant: the binding is not checked again.
RecheckSkipped(q) == TRUE

Recheck(q) ==
    /\ Bound(q.service, q.snapshot)
    /\ mapping[q.service] = q.repo /\ repo[q.repo].inst = q.inst

\* _recheck_active_analysis_binding, on a connection of its own.
BindingRecheck(c) ==
    /\ req[c].kind \in {"diagnosis", "preview"} /\ req[c].phase = "read"
    /\ IF Recheck(req[c]) THEN req' = [req EXCEPT ![c].phase = "checked"] ELSE Answered(c)
    /\ UNCHANGED <<provider, delivered, inst, repo, mapping, snapshots, history, analyses>>
    /\ Silent

\* The source goes to the model.  A request over the local model's limit is not
\* sent, which makes a fallback as an answer without grounds does.
DiagnosisAsk(c) ==
    /\ In(c, "diagnosis", "checked")
    /\ req' = [req EXCEPT ![c].phase = "asked"]
    /\ UNCHANGED <<provider, delivered, inst, repo, mapping, snapshots, history, analyses>>
    /\ Silent

ExcerptsFor(k) ==
    Excerpts(build_source_context(snapshots[k].files, Relevance, DiagnosisPolicy))

\* The row of github_incident_analyses.
Analysis(q, result) ==
    [service |-> q.service, repo |-> mapping[q.service], snapshot |-> q.snapshot,
     status |-> result.status, evidence |-> result.evidence, fix |-> result.fix]

\* The model answers and the result is stored, or the binding is gone.
DiagnosisPersist(c) ==
    LET q == req[c]
    IN  /\ In(c, "diagnosis", "asked")
        /\ Answered(c)
        /\ IF StillBound(q)
           THEN \E answer \in Answers :
                   analyses' = Append(analyses, Analysis(q, Result(ExcerptsFor(q.snapshot), answer)))
           ELSE UNCHANGED analyses
        /\ UNCHANGED <<provider, delivered, inst, repo, mapping, snapshots, history>>
        /\ Silent

-----------------------------------------------------------------------------
(* create_github_patch_preview *)

SourcePaths(a) == analyses[a].evidence \cup analyses[a].fix

\* Pinned to the snapshot the analysis cites, however many came after it.
PreviewBegin(c, a) ==
    LET s == analyses[a].service
    IN  /\ analyses[a].status = "diagnosed" /\ analyses[a].fix # {}
        /\ Bound(s, analyses[a].snapshot) /\ mapping[s] = analyses[a].repo
        /\ Begin(c, "preview", s, analyses[a].snapshot, a)
        /\ UNCHANGED <<provider, delivered, inst, repo, mapping, snapshots, history, analyses>>
        /\ Silent

\* get_snapshot_files_by_paths
Rows(a) == {f \in snapshots[analyses[a].snapshot].files : f.path \in SourcePaths(a)}

\* The paths of the request are its signals: each shares its own words.
Equal == [p \in DOMAIN Relevance |-> 1]

PatchContext(a) == build_source_context(Rows(a), Equal, PatchPolicy)

\* What the route demands before it takes a saved diagnosis up again: all the
\* files it cites, within the limits of the diagnosis, from the pinned snapshot.
Rehydrates(a) ==
    LET paths == SourcePaths(a)
    IN  /\ Cardinality(paths) <= PatchPolicy.max_files
        /\ Cardinality(paths) <= DiagnosisPolicy.max_files
        /\ PathsOf(Rows(a)) = paths
        /\ PathsOf(PatchContext(a)) = paths
        /\ Bytes(Excerpts(PatchContext(a))) <= DiagnosisPolicy.max_total_bytes

\* propose_patch grounds the saved diagnosis anew in the excerpts it is given,
\* without the blank files, and ties every editable file to one of them.
Regrounded(a) == SourcePaths(a) \subseteq PathsOf(Excerpts(PatchContext(a)))

PatchSources(a) ==
    LET editable == {f \in PatchContext(a) : f.path \in analyses[a].fix}
    IN  /\ editable # {} /\ editable \subseteq Excerpts(PatchContext(a))
        /\ Cardinality(editable) <= PatchPolicy.max_files
        /\ Bytes(editable) <= PatchPolicy.max_total_bytes

\* _chat: the request holds the editable files whole, escaped as JSON twice.
ChatSize(S) == FoldSet(LAMBDA f, n : n + ChatBytes[f.blob], 0, S)
FitsChat(a) == ChatSize({f \in Rows(a) : f.path \in analyses[a].fix}) <= MaxChatBytes

DeadEnd(a) == [outcome |-> "dead_end", analysis |-> a, changed |-> {}]

\* The checks between the recheck and the model; the source goes to the model.
PreviewAsk(c) ==
    LET a == req[c].analysis
    IN  /\ In(c, "preview", "checked")
        /\ IF Rehydrates(a) /\ Regrounded(a) /\ PatchSources(a) /\ FitsChat(a)
           THEN req' = [req EXCEPT ![c].phase = "asked"] /\ Silent
           ELSE Answered(c) /\ preview' = DeadEnd(a)
        /\ UNCHANGED <<provider, delivered, inst, repo, mapping, snapshots, history, analyses>>

\* Mutant: a change of any file the model was shown is let through.
PermittedAnywhere(a, changed) ==
    changed # {} /\ changed \subseteq SourcePaths(a) /\ Cardinality(changed) <= MaxChanges

\* _build_workspace_changes, bind_patch_to_snapshot and _plan_changes: updates
\* and deletions of the files the diagnosis wants changed, each once.
Permitted(a, changed) ==
    changed # {} /\ changed \subseteq analyses[a].fix /\ Cardinality(changed) <= MaxChanges

\* The model fails, or proposes changes of any paths.  Those that are permitted
\* are tried in a LocalPatchWorkspace, which checks the path of every editable
\* file, changed or not.  The binding is not checked again.
PreviewAnswer(c) ==
    LET a == req[c].analysis
    IN  /\ In(c, "preview", "asked")
        /\ \E changed \in Proposals :
              preview' = IF ~Permitted(a, changed)
                         THEN [outcome |-> "refused", analysis |-> a, changed |-> {}]
                         ELSE IF ~(analyses[a].fix \subseteq WorkspacePaths)
                         THEN DeadEnd(a)
                         ELSE [outcome |-> "shown", analysis |-> a, changed |-> changed]
        /\ Answered(c)
        /\ UNCHANGED <<provider, delivered, inst, repo, mapping, snapshots, history, analyses>>

AnalysisInit == Init /\ analyses = <<>> /\ preview = NoPreview /\ current = {}

HasSource(c) == req[c].kind \in {"diagnosis", "preview"} /\ req[c].phase \in {"read", "checked"}

\* The history variable, as of the state a step leads to.
Witnessed ==
    current' = {c \in Clients :
                  HasSource(c)' /\ (c \in current \/ Bound(req[c].service, req[c].snapshot)')}

AnalysisAction ==
    \/ Next /\ UNCHANGED analyses /\ Silent
    \/ \E c \in Clients :
          \/ \E s \in Services : DiagnosisBegin(c, s)
          \/ SourceRead(c)
          \/ BindingRecheck(c)
          \/ DiagnosisAsk(c)
          \/ DiagnosisPersist(c)
          \/ PreviewAsk(c)
          \/ \E a \in DOMAIN analyses : PreviewBegin(c, a)
          \/ PreviewAnswer(c)

AnalysisNext == AnalysisAction /\ Witnessed

AnalysisSpec == AnalysisInit /\ [][AnalysisNext]_allVars

-----------------------------------------------------------------------------
(* Properties *)

\* Source goes to a model only if, after the last of it was read, there was a
\* state in which the incident's service was mapped to the snapshot's repository
\* and that was selected and in an active installation: a revocation or a
\* remapping that is handled while GitHub is being waited for, and stays, stops
\* the request ("fail closed if a signed lifecycle event changed scope during
\* source I/O").  One that is handled between the recheck and the model call, or
\* later, stops only the storing: an analysis is stored in a state in which the
\* binding holds, under the repository its source was read from.
SourceUsedOnlyWhileBound ==
    [][/\ \A c \in Clients : req[c].phase # "asked" /\ req'[c].phase = "asked" => c \in current
       /\ analyses' # analyses
          => LET a == Last(analyses')
             IN  /\ Bound(a.service, a.snapshot)
                 /\ \E c \in Clients : In(c, "diagnosis", "asked") /\ a.repo = req[c].repo]_allVars

\* A saved diagnosis with a fix can be taken up again while it is bound: every
\* file it cites is in the pinned snapshot, is read under the patch policy
\* although files are ranked and budgeted anew, and fits the diagnosis limits
\* and those of propose_patch.  Two checks that the diagnosis did not pass are
\* the exceptions: the workspace refuses paths that the source context accepts,
\* and the escaped source may be more than a request to the local model takes.
OnlyKnownDeadEnds ==
    preview.outcome = "dead_end" =>
        LET a == preview.analysis
        IN  ~(analyses[a].fix \subseteq WorkspacePaths) \/ ~FitsChat(a)

\* A preview that is shown changes only files that the model diagnosed from and
\* that the saved fix names, in the snapshot the analysis cites and of its
\* repository, whatever the model proposed.
PreviewGrounded ==
    preview.outcome = "shown" =>
        LET a == analyses[preview.analysis]
        IN  /\ snapshots[a.snapshot].repo = a.repo
            /\ preview.changed # {} /\ preview.changed \subseteq a.fix
            /\ preview.changed \subseteq PathsOf(ExcerptsFor(a.snapshot))
==============================================================================
