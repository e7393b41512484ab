---------------------------- MODULE PatchWorkspace ----------------------------
(***************************************************************************)
(* The temporary workspace a proposed patch is applied in:                 *)
(* LocalPatchWorkspace (src/github_integration/workspace.py).              *)
(*                                                                         *)
(* A proposal is planned against what is on disk and refused as a whole,   *)
(* or applied by a sequence of unlinks, writes and rmdirs, each a step     *)
(* that may fail or be the last one before the process dies.  A write      *)
(* goes to a temporary file that replaces its target, so it is one step    *)
(* after the directories are made.  A path is the sequence of its names;   *)
(* contents are told apart by name and size.  Links and special files,     *)
(* which only an outsider could put there, the text of the review and its  *)
(* metadata are left out.                                                  *)
(***************************************************************************)
EXTENDS Integers, SequencesExt

CONSTANTS
    Names,          \* names of files and directories
    ValidPaths,     \* paths that _validate_path accepts
    PathOrder,      \* path -> its place in the order of path strings
    Size,           \* content -> bytes
    Bases,          \* base_files that are offered: functions from paths to contents
    Proposals,      \* sequences of [path, action, content, expected]
    MaxChanges, MaxFileCount, MaxFileBytes, MaxPatchBytes, MaxTotalBytes,
    \* Bounds of the instance, not in the code:
    MaxApplies,     \* proposals offered to one workspace
    MaxFailures     \* operations that the operating system refuses

ASSUME WorkspaceAssumption ==
    /\ ValidPaths \subseteq DOMAIN PathOrder
    /\ \A p \in ValidPaths : p \in Seq(Names) /\ p # <<>>
    /\ \A base \in Bases : base = [p \in DOMAIN base |-> base[p]]
    /\ \A p, q \in DOMAIN PathOrder : PathOrder[p] = PathOrder[q] => p = q
    /\ {MaxChanges, MaxFileCount, MaxFileBytes, MaxPatchBytes, MaxTotalBytes,
        MaxApplies, MaxFailures} \subseteq Nat

VARIABLES
    files,      \* regular files under the root: path -> content
    dirs,       \* directories under the root
    stage,      \* where _write_result_files is, or what the workspace waits for
    from,       \* current_files and
    to,         \* resulting_files of the call under way, or of the last one
    last,       \* how the last call ended
    budget

vars == <<files, dirs, stage, from, to, last, budget>>

NoContent == "none"
NoFiles == [p \in {} |-> NoContent]

Without(f, S) == [p \in DOMAIN f \ S |-> f[p]]
With(f, p, content) == [q \in DOMAIN f \cup {p} |-> IF q = p THEN content ELSE f[q]]

Ancestors(p) == {SubSeq(p, 1, n) : n \in 1..(Len(p) - 1)}
DirectoriesOf(f) == UNION {Ancestors(p) : p \in DOMAIN f}
Total(f) == FoldSet(LAMBDA p, n : n + Size[f[p]], 0, DOMAIN f)

-----------------------------------------------------------------------------
(* Planning *)

\* _ensure_no_file_directory_collision
Collides(p, f) ==
    Ancestors(p) \cap DOMAIN f # {} \/ \E q \in DOMAIN f : IsStrictPrefix(p, q)

\* _validate_file_set, with _validate_no_file_directory_collisions
ValidFileSet(f) ==
    /\ Cardinality(DOMAIN f) <= MaxFileCount
    /\ \A p \in DOMAIN f : p \in ValidPaths /\ Size[f[p]] <= MaxFileBytes
    /\ Total(f) <= MaxTotalBytes
    /\ DirectoriesOf(f) \cap DOMAIN f = {}

\* One change in the state the changes before it have led to.  A digest that
\* is given must be that of the file.
Acceptable(f, c) ==
    LET present  == c.path \in DOMAIN f
        expected == c.expected = NoContent \/ c.expected = f[c.path]
        writes   == c.content # NoContent /\ Size[c.content] <= MaxFileBytes
    IN  /\ c.path \in ValidPaths
        /\ CASE c.action = "create" -> /\ ~present /\ c.expected = NoContent
                                       /\ ~Collides(c.path, f) /\ writes
             [] c.action = "update" -> present /\ expected /\ writes /\ c.content # f[c.path]
             [] OTHER               -> present /\ expected /\ c.content = NoContent

\* The files after the first n changes.  No path is changed twice: a file is
\* what its change has left, or what it was.
FilesAfter(n, changes, current) ==
    LET touched == {changes[k].path : k \in 1..n}
        written == {changes[k].path : k \in {j \in 1..n : changes[j].action # "delete"}}
        Change(p) == CHOOSE k \in 1..n : changes[k].path = p
    IN  [p \in (DOMAIN current \ touched) \cup written |->
            IF p \in touched THEN changes[Change(p)].content ELSE current[p]]

PatchBytes(changes) ==
    MapThenSumSet(LAMBDA k : IF changes[k].action = "delete" THEN 0 ELSE Size[changes[k].content],
                  DOMAIN changes)

\* _plan_changes
Planned(changes, current) ==
    /\ Len(changes) \in 1..MaxChanges
    /\ \A k, m \in DOMAIN changes : changes[k].path = changes[m].path => k = m
    /\ \A k \in DOMAIN changes : Acceptable(FilesAfter(k - 1, changes, current), changes[k])
    /\ PatchBytes(changes) <= MaxPatchBytes
    /\ ValidFileSet(FilesAfter(Len(changes), changes, current))

-----------------------------------------------------------------------------
(* _write_result_files *)

Obsolete == DOMAIN from \ DOMAIN to

\* Mutant: a directory that becomes a file is not cleared first.
BlockersAbove == Obsolete \cap DirectoriesOf(to)

\* Mutant: whatever changes is cleared first.
BlockersAll == {p \in DOMAIN from : p \in Obsolete \/ to[p] # from[p]}

\* shape_blockers: files where directories go, and files below where files go.
Blockers ==
    {p \in Obsolete : p \in DirectoriesOf(to) \/ \E q \in DOMAIN to : IsStrictPrefix(q, p)}

\* What is left to do of each stage, as the disk shows.
ToUnlink == Blockers \cap DOMAIN files
ToWrite ==
    {p \in DOMAIN to : /\ ~(p \in DOMAIN from /\ from[p] = to[p])
                       /\ ~(p \in DOMAIN files /\ files[p] = to[p])}
ToDelete == (Obsolete \ Blockers) \cap DOMAIN files

\* The deepest first, and of equally deep ones the last.
DeepestFirst(p, q) == Len(p) > Len(q) \/ (Len(p) = Len(q) /\ PathOrder[p] >= PathOrder[q])

\* Mutant: a directory goes when no file is directly in it.
EmptyOfFiles(f, D) == {d \in D : ~\E p \in DOMAIN f : IsStrictPrefix(d, p) /\ Len(p) = Len(d) + 1}

\* _prune_empty_directories, bottom up: what has no file below it goes.
Empty(f, D) == {d \in D : ~\E p \in DOMAIN f : IsStrictPrefix(d, p)}

Prune == dirs' = dirs \ Empty(files, dirs)

\* _materialize_target: every ancestor is a directory or can be made one, and
\* the target is no directory.
Blocked(p) == Ancestors(p) \cap DOMAIN files # {} \/ p \in dirs

Goto(s) == stage' = s

\* The exception ends the call; __init__ cleans up after itself.
Abort(how) ==
    /\ last' = how
    /\ IF last = "opening" THEN stage' = "closed" ELSE stage' = "open"

UnlinkBlocker ==
    /\ stage = "unlink"
    /\ \E p \in ToUnlink :
          /\ \A q \in ToUnlink : DeepestFirst(p, q)
          /\ files' = Without(files, {p})
    /\ UNCHANGED <<dirs, stage, from, to, last, budget>>

PruneBlockers ==
    /\ stage = "unlink" /\ ToUnlink = {}
    /\ IF Blockers # {} THEN Prune ELSE UNCHANGED dirs
    /\ Goto("write")
    /\ UNCHANGED <<files, from, to, last, budget>>

WriteNext ==
    /\ stage = "write"
    /\ \E p \in ToWrite :
          /\ \A q \in ToWrite : PathOrder[p] <= PathOrder[q]
          /\ IF Blocked(p)
             THEN /\ Abort("blocked")
                  /\ IF stage' = "closed" THEN files' = NoFiles /\ dirs' = {}
                     ELSE UNCHANGED <<files, dirs>>
             ELSE /\ dirs' = dirs \cup Ancestors(p)
                  /\ files' = With(files, p, to[p])
                  /\ UNCHANGED <<stage, last>>
    /\ UNCHANGED <<from, to, budget>>

WritesDone ==
    /\ stage = "write" /\ ToWrite = {}
    /\ Goto("delete")
    /\ UNCHANGED <<files, dirs, from, to, last, budget>>

DeleteNext ==
    /\ stage = "delete"
    /\ \E p \in ToDelete :
          /\ \A q \in ToDelete : PathOrder[p] >= PathOrder[q]
          /\ files' = Without(files, {p})
    /\ UNCHANGED <<dirs, stage, from, to, last, budget>>

\* The last prune, and the end of the call.
Finish ==
    /\ stage = "delete" /\ ToDelete = {}
    /\ Prune
    /\ Goto("open")
    /\ last' = "applied"
    /\ UNCHANGED <<files, from, to, budget>>

\* The operating system refuses an unlink or a write; of the directories of
\* the file some may have been made.
OperationFails ==
    /\ budget.failures > 0
    /\ \/ stage = "unlink" /\ ToUnlink # {} /\ UNCHANGED dirs
       \/ stage = "delete" /\ ToDelete # {} /\ UNCHANGED dirs
       \/ /\ stage = "write"
          /\ \E p \in ToWrite :
                /\ \A q \in ToWrite : PathOrder[p] <= PathOrder[q]
                /\ ~Blocked(p)
                /\ \E n \in 0..(Len(p) - 1) : dirs' = dirs \cup {SubSeq(p, 1, k) : k \in 1..n}
    /\ last # "opening"
    /\ Abort("failed")
    /\ budget' = [budget EXCEPT !.failures = @ - 1]
    /\ UNCHANGED <<files, from, to>>

\* The same while the base files are written: __init__ removes everything.
OpenFails ==
    /\ budget.failures > 0
    /\ last = "opening" /\ stage = "write" /\ ToWrite # {}
    /\ Abort("failed")
    /\ files' = NoFiles /\ dirs' = {}
    /\ budget' = [budget EXCEPT !.failures = @ - 1]
    /\ UNCHANGED <<from, to>>

-----------------------------------------------------------------------------

Init ==
    /\ files = NoFiles /\ dirs = {}
    /\ stage = "new"
    /\ from = NoFiles /\ to = NoFiles
    /\ last = "none"
    /\ budget = [applies |-> MaxApplies, failures |-> MaxFailures]

\* __init__: the base files are checked before the first is written.
Open(base) ==
    /\ stage = "new"
    /\ IF ValidFileSet(base)
       THEN Goto("unlink") /\ to' = base /\ last' = "opening"
       ELSE Goto("closed") /\ last' = "rejected" /\ UNCHANGED to
    /\ UNCHANGED <<files, dirs, from, budget>>

\* apply: what is on disk is read and the proposal planned against it.  A
\* unified diff that is too long refuses it as well.
Apply(changes) ==
    /\ stage = "open"
    /\ budget.applies > 0
    /\ budget' = [budget EXCEPT !.applies = @ - 1]
    /\ \/ /\ ValidFileSet(files) /\ Planned(changes, files)
          /\ Goto("unlink")
          /\ from' = files /\ last' = "applying"
          /\ to' = FilesAfter(Len(changes), changes, files)
       \/ last' = "rejected" /\ UNCHANGED <<stage, from, to>>
    /\ UNCHANGED <<files, dirs>>

\* cleanup, on leaving the context; rmtree may fail, which is reported.
Cleanup ==
    /\ stage = "open"
    /\ Goto("closed")
    /\ \/ files' = NoFiles /\ dirs' = {} /\ UNCHANGED <<last, budget>>
       \/ /\ budget.failures > 0
          /\ last' = "left behind"
          /\ budget' = [budget EXCEPT !.failures = @ - 1]
          /\ UNCHANGED <<files, dirs>>
    /\ UNCHANGED <<from, to>>

Next ==
    \/ \E base \in Bases : Open(base)
    \/ \E changes \in Proposals : Apply(changes)
    \/ UnlinkBlocker \/ PruneBlockers \/ WriteNext \/ WritesDone \/ DeleteNext \/ Finish
    \/ OperationFails \/ OpenFails
    \/ Cleanup

Spec == Init /\ [][Next]_vars

-----------------------------------------------------------------------------
(* Properties *)

\* The disk is a tree of valid files: whatever is written, unlinked and pruned,
\* and wherever a call stops, every file and directory is in directories that
\* exist, and no path is both.
TypeOK ==
    /\ DOMAIN files \subseteq ValidPaths
    /\ \A p \in DOMAIN files \cup dirs : Ancestors(p) \subseteq dirs
    /\ dirs \cap DOMAIN files = {}
    /\ stage \in {"new", "unlink", "write", "delete", "open", "closed"}
    /\ last \in {"none", "opening", "applying", "applied", "rejected", "blocked", "failed", "left behind"}
    /\ budget \in [applies : Nat, failures : Nat]

Untroubled == budget.failures = MaxFailures

\* A proposal that passed the plan is applied exactly: afterwards the workspace
\* holds the planned files and no directory more than they need, also when a
\* file becomes a directory or a directory a file; and nothing but an earlier
\* failure of the operating system gets in its way.
AppliedExactly ==
    /\ last = "applied" /\ stage = "open" => files = to /\ dirs = DirectoriesOf(to)
    /\ last = "blocked" => ~Untroubled

\* A file that a proposal keeps is there at every moment of its application,
\* with its old or its new content, whichever step is the last
\* (_write_result_files writes before it deletes and replaces in place).
NothingLost ==
    stage \in {"unlink", "write", "delete", "open"} =>
        \A p \in DOMAIN from \cap DOMAIN to :
            p \in DOMAIN files /\ files[p] \in {from[p], to[p]}
==============================================================================
