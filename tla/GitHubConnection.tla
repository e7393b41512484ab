--------------------------- MODULE GitHubConnection ---------------------------
(***************************************************************************)
(* The GitHub App connection: installation and repository state            *)
(* (src/github_integration/store.py) and the routes that change it         *)
(* (src/github_integration/router.py): signed webhooks, the repository     *)
(* sync, the service mapping and the repository snapshot.                  *)
(*                                                                         *)
(* A webhook is one transaction under Database.write_lock.  A sync and a   *)
(* snapshot read the store, then GitHub without the lock, then write in    *)
(* one transaction, so webhooks land between their steps.  GitHub delivers *)
(* a webhook any number of times and in any order, or never.  GitHub       *)
(* itself is external: truth is what it grants, events the webhooks it has *)
(* made, each with the installation as it was then.  Its clock has the     *)
(* granularity of updated_at, so consecutive events may share a time.      *)
(*                                                                         *)
(* Left out: request validation (a bad webhook is rolled back whole), the  *)
(* account and display fields of a row, last_seen_commit_sha, and          *)
(* is_archived: a webhook's compact repository does not have it and        *)
(* _metadata_payload always says False, so no row is ever archived.        *)
(***************************************************************************)
EXTENDS Integers, FiniteSets, SequencesExt

CONSTANTS
    Installations,
    Home,           \* the installation that is connected at first,
    HomeRepos,      \* and the repositories it is granted
    Repos,          \* repository ids; a listing is in their order
    Services,
    Commits,        \* commits of a default branch,
    FirstCommit,    \* and the one every branch is at when the model starts
    FilesAt,        \* commit -> [whole, files]: what get_complete_tree makes of it
    PageSize,       \* repositories to a page of a listing
    Clients,        \* those who call the routes, one request at a time each
    \* A bound of the instance, not in the code:
    MaxRecords      \* webhooks GitHub makes and snapshots that are begun after them

ASSUME ConnectionAssumption ==
    /\ Repos \subseteq Nat \ {0} /\ IsFiniteSet(Repos) /\ HomeRepos \subseteq Repos
    /\ Home \in Installations /\ 0 \notin Installations /\ FirstCommit \in Commits
    /\ PageSize \in Nat \ {0} /\ MaxRecords \in Nat
    /\ \A c \in Commits : FilesAt[c].whole \in BOOLEAN

VARIABLES
    truth,      \* external: what GitHub grants to each installation
    events,     \* external: the webhooks GitHub has made, in the order it made them
    head,       \* external: the head of each default branch
    delivered,  \* github_webhook_deliveries
    inst,       \* github_installations with github_installation_state_versions
    repo,       \* github_repositories
    mapping,    \* github_service_mappings
    snapshots,  \* github_snapshots with github_snapshot_files, oldest first
    req,        \* the request each client has under way
    asOf,       \* history: the event up to which GitHub had granted a selected repository
    revoked     \* history: the newest applied event that took a repository from an installation

provider == <<truth, events, head>>
history == <<asOf, revoked>>
vars == <<truth, events, head, delivered, inst, repo, mapping, snapshots, req, history>>

None == 0
NoService == "none"
Statuses == {"none", "active", "suspended", "deleted",
             "repository_selection_required", "permission_misconfigured"}

-----------------------------------------------------------------------------
(* GitHub *)

\* A token of the whole installation, which has to be limited to a selection; it
\* asks for reading contents only, whatever else the installation allows.
Live(i) == truth[i].state = "live" /\ ~truth[i].all

Room == Len(events) + Len(snapshots) < MaxRecords

\* The webhook carries the installation as it is after the change.
Emit(i, action, change, added, removed) ==
    /\ Room
    /\ truth' = [truth EXCEPT ![i] = change]
    /\ \E later \in {0, 1} :
          events' = Append(events,
              [inst |-> i, action |-> action, added |-> added, removed |-> removed,
               suspended |-> change.state = "suspended", all |-> change.all,
               readOnly |-> change.readOnly,
               at |-> later + (IF events = <<>> THEN 0 ELSE Last(events).at)])
    /\ UNCHANGED <<head, delivered, inst, repo, mapping, snapshots, req, history>>

Granted(i) == truth[i].repos
Elsewhere(i) == UNION {Granted(j) : j \in Installations \ {i}}

GitHubInstalls(i) ==
    /\ truth[i].state = "absent"
    /\ \E S \in SUBSET (Repos \ Elsewhere(i)) :
          Emit(i, "created", [truth[i] EXCEPT !.state = "live", !.repos = S], S, {})

GitHubSuspends(i) ==
    /\ truth[i].state = "live"
    /\ Emit(i, "suspend", [truth[i] EXCEPT !.state = "suspended"], {}, {})

GitHubUnsuspends(i) ==
    /\ truth[i].state = "suspended"
    /\ Emit(i, "unsuspend", [truth[i] EXCEPT !.state = "live"], Granted(i), {})

GitHubUninstalls(i) ==
    /\ truth[i].state \in {"live", "suspended"}
    /\ Emit(i, "deleted", [truth[i] EXCEPT !.state = "deleted", !.repos = {}], {}, {})

GitHubChangesPermissions(i) ==
    /\ truth[i].state = "live"
    /\ Emit(i, "new_permissions_accepted", [truth[i] EXCEPT !.readOnly = ~@], Granted(i), {})

GitHubAdds(i, r) ==
    /\ truth[i].state = "live" /\ r \notin Granted(i) \cup Elsewhere(i)
    /\ \E all \in BOOLEAN :
          Emit(i, "added", [truth[i] EXCEPT !.repos = @ \cup {r}, !.all = all], {r}, {})

GitHubRemoves(i, r) ==
    /\ truth[i].state = "live" /\ r \in Granted(i)
    /\ Emit(i, "removed", [truth[i] EXCEPT !.repos = @ \ {r}, !.all = FALSE], {}, {r})

\* The head of a repository nobody is granted may as well move later.
GitHubMovesHead(r) ==
    /\ \E i \in Installations : r \in Granted(i)
    /\ \E c \in Commits \ {head[r]} : head' = [head EXCEPT ![r] = c]
    /\ UNCHANGED <<truth, events, delivered, inst, repo, mapping, snapshots, req, history>>

-----------------------------------------------------------------------------
(* store.py *)

_event_priority(e) ==
    CASE e.action = "deleted" -> 100
      [] e.action = "suspend" -> 90
      [] e.action \notin {"deleted", "suspend"} /\ e.all -> 80
      [] e.action = "removed" /\ ~e.all -> 70
      [] OTHER -> 10

_installation_status(e) ==
    CASE e.action = "deleted" -> "deleted"
      [] e.action # "deleted" /\ e.suspended -> "suspended"
      [] e.action # "deleted" /\ ~e.suspended /\ e.all -> "repository_selection_required"
      [] e.action # "deleted" /\ ~e.suspended /\ ~e.all /\ ~e.readOnly -> "permission_misconfigured"
      [] OTHER -> "active"

\* _observe_installation_event: a newer time wins, at the same time the higher priority.
Supersedes(v, e) ==
    \/ e.at > v.at
    \/ e.at = v.at /\ _event_priority(e) > v.priority

Observed(v, e) ==
    [status |-> _installation_status(e), at |-> e.at, priority |-> _event_priority(e),
     revision |-> v.revision + 1]

\* upsert_installation_from_webhook: the events that are not turned away.  A
\* suspended installation does not even note the time of what it turns away.
Applies(e) ==
    LET v == inst[e.inst]
    IN  \/ v.status = "none"
        \/ /\ v.status = "deleted" => e.action = "deleted"
           /\ v.status = "suspended" => e.action \in {"suspend", "unsuspend", "deleted"}
           /\ Supersedes(v, e)

upsert_repository(rows, i, S) ==
    [r \in Repos |-> IF r \in S THEN [inst |-> i, selected |-> TRUE] ELSE rows[r]]

Deselected(rows, i, S) ==
    [r \in Repos |-> IF r \in S /\ rows[r].inst = i
                     THEN [rows[r] EXCEPT !.selected = FALSE] ELSE rows[r]]

\* The rows after an applied event: of an installation that is not active none
\* is selected, otherwise what it lists or adds is, and what it removes is not.
RowsAfter(e) ==
    IF _installation_status(e) # "active"
    THEN Deselected(repo, e.inst, Repos)
    ELSE Deselected(upsert_repository(repo, e.inst, e.added), e.inst, e.removed)

Taken(e) == IF _installation_status(e) # "active" THEN Repos ELSE e.removed
Given(e) == IF _installation_status(e) # "active" THEN {} ELSE e.added

ActiveSelected(r) ==
    repo[r].inst # None /\ repo[r].selected /\ inst[repo[r].inst].status = "active"

-----------------------------------------------------------------------------

NoRequest ==
    [kind |-> "none", phase |-> "idle", inst |-> None, repo |-> None,
     revision |-> 0, page |-> 0, expected |-> 0, listing |-> <<>>, since |-> 0,
     commit |-> None, service |-> NoService, snapshot |-> None, analysis |-> None]

Idle(c) == req[c].kind = "none"
In(c, kind, phase) == req[c].kind = kind /\ req[c].phase = phase
Answered(c) == req' = [req EXCEPT ![c] = NoRequest]

\* Connected once: the created webhook of Home has been handled, with time 0.
Init ==
    /\ truth = [i \in Installations |->
                  [state |-> IF i = Home THEN "live" ELSE "absent", all |-> FALSE, readOnly |-> TRUE,
                   repos |-> IF i = Home THEN HomeRepos ELSE {}]]
    /\ events = <<>>
    /\ head = [r \in Repos |-> FirstCommit]
    /\ delivered = {}
    /\ inst = [i \in Installations |->
                 IF i = Home THEN [status |-> "active", at |-> 0, priority |-> 10, revision |-> 1]
                             ELSE [status |-> "none", at |-> 0, priority |-> 0, revision |-> 0]]
    /\ repo = [r \in Repos |-> IF r \in HomeRepos THEN [inst |-> Home, selected |-> TRUE]
                                              ELSE [inst |-> None, selected |-> FALSE]]
    /\ mapping = [s \in Services |-> None]
    /\ snapshots = <<>>
    /\ req = [c \in Clients |-> NoRequest]
    /\ asOf = [r \in Repos |-> 0]
    /\ revoked = [i \in Installations |-> [r \in Repos |-> 0]]

\* receive_github_webhook; a delivery that is already recorded changes nothing.
Webhook(n) ==
    LET e == events[n]
    IN  /\ n \notin delivered
        /\ delivered' = delivered \cup {n}
        /\ IF Applies(e)
           THEN /\ inst' = [inst EXCEPT ![e.inst] = Observed(@, e)]
                /\ repo' = RowsAfter(e)
                /\ asOf' = [r \in Repos |-> IF r \in Given(e) THEN n ELSE asOf[r]]
                /\ revoked' = [revoked EXCEPT ![e.inst] =
                                 [r \in Repos |-> IF r \in Taken(e) THEN n ELSE @[r]]]
           ELSE UNCHANGED <<inst, repo, history>>
        /\ UNCHANGED <<provider, mapping, snapshots, req>>

\* sync_github_installation up to its first request to GitHub.
SyncBegin(c, i) ==
    /\ Idle(c)
    /\ inst[i].status = "active"
    /\ req' = [req EXCEPT ![c] = [NoRequest EXCEPT
                  !.kind = "sync", !.phase = "reading", !.inst = i,
                  !.revision = inst[i].revision, !.since = Len(events)]]
    /\ UNCHANGED <<provider, delivered, inst, repo, mapping, snapshots, history>>

\* What is granted, in the order of a listing.
InListing(S) ==
    [k \in 1..Cardinality(S) |-> CHOOSE r \in S : Cardinality({x \in S : x < r}) = k - 1]

Page(i, n) ==
    LET all == InListing(Granted(i))
    IN  SubSeq(all, n * PageSize + 1, Min({Len(all), (n + 1) * PageSize}))

\* list_installation_repositories, one request: the total is the first page's,
\* and the pages are added up until it is reached.
SyncPage(c) ==
    LET q        == req[c]
        page     == Page(q.inst, q.page)
        expected == IF q.page = 0 THEN Cardinality(Granted(q.inst)) ELSE q.expected
        listing  == q.listing \o page
    IN  /\ In(c, "sync", "reading")
        /\ Live(q.inst)
        /\ \/ /\ Len(listing) >= expected
              /\ req' = [req EXCEPT ![c] = [q EXCEPT
                            !.phase = "read", !.listing = SubSeq(listing, 1, expected),
                            !.page = 0, !.expected = 0]]
           \/ /\ Len(listing) < expected /\ page # <<>>
              /\ req' = [req EXCEPT ![c] = [q EXCEPT
                            !.page = @ + 1, !.expected = expected, !.listing = listing]]
           \/ /\ Len(listing) < expected /\ page = <<>>
              /\ Answered(c)
        /\ UNCHANGED <<provider, delivered, inst, repo, mapping, snapshots, history>>

\* A request to GitHub, or to a model, fails, times out or is answered with nonsense.
RequestFails(c) ==
    /\ req[c].phase = "reading"
    /\ Answered(c)
    /\ UNCHANGED <<provider, delivered, inst, repo, mapping, snapshots, history>>

\* Mutant: the selection is not compared with the one the request started from.
SyncAcceptedIfActive(q) == inst[q.inst].status = "active"

SyncAccepted(q) ==
    inst[q.inst].status = "active" /\ inst[q.inst].revision = q.revision

\* Mutant: what GitHub no longer lists keeps its selection.
ListedOnTop(i, S) == upsert_repository(repo, i, S)

\* The listing replaces the selection.
Listed(i, S) == upsert_repository(Deselected(repo, i, Repos), i, S)

\* replace_installation_repositories, or the answer that the installation has changed.
SyncPersist(c) ==
    LET q == req[c]
        S == ToSet(q.listing)
    IN  /\ In(c, "sync", "read")
        /\ IF SyncAccepted(q)
           THEN /\ repo' = Listed(q.inst, S)
                /\ asOf' = [r \in Repos |-> IF r \in S THEN q.since ELSE asOf[r]]
           ELSE UNCHANGED <<repo, asOf>>
        /\ Answered(c)
        /\ UNCHANGED <<provider, delivered, inst, mapping, snapshots, revoked>>

\* set_service_mapping
MapService(s, r) ==
    /\ ActiveSelected(r)
    /\ mapping' = [mapping EXCEPT ![s] = r]
    /\ UNCHANGED <<provider, delivered, inst, repo, snapshots, req, history>>

\* create_github_snapshot: the repository as it is bound before GitHub is read.
SnapshotBegin(c, r) ==
    /\ Idle(c)
    /\ Room
    /\ ActiveSelected(r)
    /\ req' = [req EXCEPT ![c] = [NoRequest EXCEPT
                  !.kind = "snapshot", !.phase = "reading", !.repo = r,
                  !.inst = repo[r].inst, !.since = asOf[r]]]
    /\ UNCHANGED <<provider, delivered, inst, repo, mapping, snapshots, history>>

\* A token that asks for one repository is limited to it by that alone.
Readable(i, r) == truth[i].state = "live" /\ r \in Granted(i)

\* Token, metadata, branch and tree: the branch read names the commit, and the
\* tree is read from it whatever becomes of the branch.
SnapshotRead(c) ==
    LET q == req[c]
    IN  /\ In(c, "snapshot", "reading")
        /\ Readable(q.inst, q.repo)
        /\ IF FilesAt[head[q.repo]].whole
           THEN req' = [req EXCEPT ![c] = [q EXCEPT !.phase = "read", !.commit = head[q.repo]]]
           ELSE Answered(c)
        /\ UNCHANGED <<provider, delivered, inst, repo, mapping, snapshots, history>>

\* Mutant: create_snapshot trusts the check its caller has made.
StillSelectedUnchecked(rows, r) == TRUE

\* require_active_selected_repository, as create_snapshot makes it of the row
\* that was just refreshed.
StillSelected(rows, r) ==
    rows[r].selected /\ inst[rows[r].inst].status = "active"

Snapshot(r, commit) == [repo |-> r, commit |-> commit, files |-> FilesAt[commit].files]

\* Mutant: the row is inserted without a look for the one that is there.
InsertedAgain(r, commit) == Append(snapshots, Snapshot(r, commit))

\* create_snapshot: one row per commit of a repository.
Inserted(r, commit) ==
    IF \E k \in DOMAIN snapshots : snapshots[k].repo = r /\ snapshots[k].commit = commit
    THEN snapshots ELSE Append(snapshots, Snapshot(r, commit))

\* persist: the binding is checked, refreshed with the installation that was
\* read at the beginning, and checked again; a failed check rolls all of it back.
SnapshotPersist(c) ==
    LET q    == req[c]
        r    == q.repo
        rows == upsert_repository(repo, q.inst, {r})
    IN  /\ In(c, "snapshot", "read")
        /\ IF ActiveSelected(r) /\ StillSelected(rows, r)
           THEN /\ repo' = rows
                /\ snapshots' = Inserted(r, q.commit)
                /\ asOf' = IF repo[r].inst = q.inst THEN asOf ELSE [asOf EXCEPT ![r] = q.since]
           ELSE UNCHANGED <<repo, snapshots, asOf>>
        /\ Answered(c)
        /\ UNCHANGED <<provider, delivered, inst, mapping, revoked>>

GitHub ==
    \/ \E i \in Installations :
          \/ GitHubInstalls(i)
          \/ GitHubSuspends(i)
          \/ GitHubUnsuspends(i)
          \/ GitHubUninstalls(i)
          \/ GitHubChangesPermissions(i)
          \/ \E r \in Repos : GitHubAdds(i, r) \/ GitHubRemoves(i, r)
    \/ \E r \in Repos : GitHubMovesHead(r)

Next ==
    \/ GitHub
    \/ \E n \in DOMAIN events : Webhook(n)
    \/ \E s \in Services, r \in Repos : MapService(s, r)
    \/ \E c \in Clients :
          \/ \E i \in Installations : SyncBegin(c, i)
          \/ SyncPage(c)
          \/ SyncPersist(c)
          \/ \E r \in Repos : SnapshotBegin(c, r)
          \/ SnapshotRead(c)
          \/ SnapshotPersist(c)
          \/ RequestFails(c)

Spec == Init /\ [][Next]_vars

-----------------------------------------------------------------------------
(* Properties *)

Requests ==
    [kind : {"none", "sync", "snapshot", "diagnosis", "preview"},
     phase : {"idle", "reading", "read", "checked", "asked"},
     inst : Installations \cup {None}, repo : Repos \cup {None},
     revision : Nat, page : Nat, expected : Nat, listing : Seq(Repos), since : Nat,
     commit : Commits \cup {None}, service : Services \cup {NoService}, snapshot : Nat, analysis : Nat]

Events ==
    [inst : Installations, added : SUBSET Repos, removed : SUBSET Repos,
     action : {"created", "deleted", "suspend", "unsuspend", "new_permissions_accepted",
               "added", "removed"},
     suspended : BOOLEAN, all : BOOLEAN, readOnly : BOOLEAN, at : Nat]

\* A snapshot is stored once for a commit, a repository with a selection has an
\* installation, and every column has its type.
TypeOK ==
    /\ truth \in [Installations -> [state : {"absent", "live", "suspended", "deleted"},
                                    all : BOOLEAN, readOnly : BOOLEAN, repos : SUBSET Repos]]
    /\ events \in Seq(Events)
    /\ head \in [Repos -> Commits]
    /\ delivered \subseteq DOMAIN events
    /\ inst \in [Installations -> [status : Statuses, at : Nat, priority : Nat, revision : Nat]]
    /\ repo \in [Repos -> [inst : Installations \cup {None}, selected : BOOLEAN]]
    /\ \A r \in Repos : repo[r].selected => repo[r].inst # None
    /\ mapping \in [Services -> Repos \cup {None}]
    /\ \A j, k \in DOMAIN snapshots :
          snapshots[j].repo = snapshots[k].repo /\ snapshots[j].commit = snapshots[k].commit => j = k
    /\ req \in [Clients -> Requests]
    /\ asOf \in [Repos -> Nat]
    /\ revoked \in [Installations -> [Repos -> Nat]]

\* A selected repository belongs to an installation that is active: whatever a
\* snapshot or a sync read before a suspension or a deletion, it never leaves a
\* selection behind under an installation that has lost all its rights (the
\* checks inside the writing transactions).  That the installation still has
\* this repository is another matter, see NoStaleReselection.
SelectedMeansActive ==
    \A r \in Repos : repo[r].selected => inst[repo[r].inst].status = "active"

SelectedFor(rows, r, i) == rows[r].selected /\ rows[r].inst = i

\* An installation comes to have a repository selected only on evidence newer
\* than the newest handled webhook that took it away: redelivered, reordered and
\* simultaneous webhooks and a sync that was under way when the removal arrived
\* never bring it back (_observe_installation_event and the revision
\* replace_installation_repositories compares).  One thing does, and nothing
\* else: a snapshot that was under way, and that finds the repository selected
\* again, for another installation.  Its first check passes and its upsert gives
\* the repository back to the one that lost it, although the comment there says
\* the check is made so that no removal is undone.
NoStaleReselection ==
    [][\A r \in Repos, i \in Installations :
          ~SelectedFor(repo, r, i) /\ SelectedFor(repo', r, i)
          => \/ asOf'[r] >= revoked'[i][r]
             \/ /\ repo[r].selected
                /\ \E c \in Clients : /\ In(c, "snapshot", "read") /\ req'[c] = NoRequest
                                      /\ req[c].repo = r /\ req[c].inst = i]_vars

\* A sync that GitHub's list did not change under leaves exactly the
\* repositories selected that GitHub grants, whatever webhooks were lost,
\* refused or reordered before (replace_installation_repositories).
SyncIsExact ==
    [][\A c \in Clients :
          (/\ In(c, "sync", "read") /\ req'[c] = NoRequest
           /\ req[c].since = Len(events)
           /\ inst[req[c].inst].status = "active" /\ inst[req[c].inst].revision = req[c].revision)
          => {r \in Repos : repo'[r].selected /\ repo'[r].inst = req[c].inst} = Granted(req[c].inst)]_vars
==============================================================================
