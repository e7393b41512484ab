----------------------- MODULE GitHubConnection_proofs -----------------------
(***************************************************************************)
(* What the connection, the diagnosis and the preview promise, for any     *)
(* number of installations, repositories, clients and webhooks, whatever   *)
(* the order they arrive in and whatever GitHub and the model answer: a    *)
(* selected repository belongs to an active installation, none is newly    *)
(* selected on evidence older than its removal (a snapshot moving back a   *)
(* repository that stays selected apart), and a sync GitHub stood still    *)
(* for is exact; source is used only while it is bound, a preview stays    *)
(* within the files its diagnosis was made from, a saved diagnosis can be  *)
(* taken up again but for the paths and the requests the preview refuses,  *)
(* and a stored snapshot has every file of its commit's tree.              *)
(*                                                                         *)
(* Of a page of a listing, a tree or an answer only the request it belongs *)
(* to matters, except to the exactness of a sync, which rests on the       *)
(* listing being a fixed order of what is granted, and to taking up a      *)
(* diagnosis, which rests on how files are ranked and budgeted.  The walk  *)
(* through a tree is a function of the root; what holds after any number   *)
(* of its turns is shown by taking the least number for which it fails.    *)
(***************************************************************************)
EXTENDS SourceSnapshots, FiniteSetTheorems, SequenceTheorems, WellFoundedInduction, TLAPS

USE ConnectionAssumption DEF None

\* GitHub's webhooks are in the order of its clock, and one that lists
\* repositories to select is of the lowest priority or selects nothing.
EventsOK ==
    /\ events \in Seq(Events)
    /\ \A j, k \in DOMAIN events : j <= k => events[j].at <= events[k].at
    /\ \A k \in DOMAIN events :
          events[k].added # {} => events[k].action \notin {"deleted", "suspend", "removed"}

Grant == [state : {"absent", "live", "suspended", "deleted"}, all : BOOLEAN, readOnly : BOOLEAN,
          repos : SUBSET Repos]

TruthOK == truth \in [Installations -> Grant]

\* The repository rows.
Table(rows) ==
    /\ DOMAIN rows = Repos
    /\ \A r \in Repos : DOMAIN rows[r] = {"inst", "selected"}
                         /\ rows[r].inst \in Installations \cup {None}

RowsOK ==
    /\ inst \in [Installations -> [status : Statuses, at : Nat, priority : Nat, revision : Nat]]
    /\ Table(repo)

\* A selected repository has an installation, and that is active.
Bindings ==
    \A r \in Repos : repo[r].selected =>
        repo[r].inst \in Installations /\ inst[repo[r].inst].status = "active"

\* The version of an installation is at least as new as any event that took a
\* repository from it.
RevokedOK ==
    /\ revoked \in [Installations -> [Repos -> Nat]]
    /\ asOf \in [Repos -> Nat]
    /\ \A i \in Installations : inst[i].status # "none" => inst[i].priority >= 10
    /\ \A i \in Installations, r \in Repos : revoked[i][r] # 0 =>
          /\ revoked[i][r] \in DOMAIN events
          /\ inst[i].status # "none"
          /\ events[revoked[i][r]].at <= inst[i].at

\* What GitHub does leaves the tables and the requests alone.
LEMMA EmitWritesItsOwn ==
    ASSUME NEW i, NEW action, NEW change, NEW added, NEW removed,
           Emit(i, action, change, added, removed)
    PROVE  UNCHANGED <<delivered, inst, repo, mapping, snapshots, req, history>>
BY DEF Emit

LEMMA GitHubWritesItsOwn ==
    GitHub => UNCHANGED <<delivered, inst, repo, mapping, snapshots, req, history>>
<1> SUFFICES ASSUME GitHub PROVE UNCHANGED <<delivered, inst, repo, mapping, snapshots, req, history>>
  OBVIOUS
<1>1. ASSUME NEW i \in Installations, GitHubInstalls(i)
      PROVE  UNCHANGED <<delivered, inst, repo, mapping, snapshots, req, history>>
  BY <1>1, EmitWritesItsOwn DEF GitHubInstalls
<1>2. ASSUME NEW i \in Installations,
             \/ GitHubSuspends(i) \/ GitHubUnsuspends(i)
             \/ GitHubUninstalls(i) \/ GitHubChangesPermissions(i)
      PROVE  UNCHANGED <<delivered, inst, repo, mapping, snapshots, req, history>>
  BY <1>2, EmitWritesItsOwn
     DEF GitHubSuspends, GitHubUnsuspends, GitHubUninstalls, GitHubChangesPermissions
<1>3. ASSUME NEW i \in Installations, NEW r \in Repos, GitHubAdds(i, r) \/ GitHubRemoves(i, r)
      PROVE  UNCHANGED <<delivered, inst, repo, mapping, snapshots, req, history>>
  BY <1>3, EmitWritesItsOwn DEF GitHubAdds, GitHubRemoves
<1>4. ASSUME NEW r \in Repos, GitHubMovesHead(r)
      PROVE  UNCHANGED <<delivered, inst, repo, mapping, snapshots, req, history>>
  BY <1>4 DEF GitHubMovesHead
<1> QED BY <1>1, <1>2, <1>3, <1>4, Zenon DEF GitHub

Fields == {"kind", "phase", "inst", "repo", "revision", "page", "expected", "listing", "since",
           "commit", "service", "snapshot", "analysis"}

\* A sync whose revision is still the installation's has seen every event that
\* took a repository from it.
SyncOK(q) ==
    /\ q.inst \in Installations /\ q.revision \in Nat /\ q.since \in Nat
    /\ q.revision <= inst[q.inst].revision
    /\ q.revision = inst[q.inst].revision => \A r \in Repos : revoked[q.inst][r] <= q.since

SnapshotOK(q) == q.inst \in Installations /\ q.repo \in Repos /\ q.since \in Nat

RequestOK(q) ==
    /\ DOMAIN q = Fields
    /\ q.kind = "sync" => SyncOK(q)
    /\ q.kind = "snapshot" => SnapshotOK(q)

RequestsOK == DOMAIN req = Clients /\ \A c \in Clients : RequestOK(req[c])

\* The inductive invariant.
IInv == TruthOK /\ EventsOK /\ RowsOK /\ Bindings /\ RevokedOK /\ RequestsOK

\* What NoStaleReselection says of one step.
Earned ==
    \A r \in Repos, i \in Installations :
        ~SelectedFor(repo, r, i) /\ SelectedFor(repo', r, i)
        => \/ asOf'[r] >= revoked'[i][r]
           \/ /\ repo[r].selected
              /\ \E c \in Clients : /\ In(c, "snapshot", "read") /\ req'[c] = NoRequest
                                    /\ req[c].repo = r /\ req[c].inst = i

\* A selection that is new for its installation.
Newly(r) == repo'[r].selected /\ ~(repo[r].selected /\ repo'[r].inst = repo[r].inst)

LEMMA NewlyEarned ==
    ASSUME \A r \in Repos : Newly(r) => asOf'[r] >= revoked'[repo'[r].inst][r]
    PROVE  Earned
BY DEF Newly, Earned, SelectedFor

-----------------------------------------------------------------------------

LEMMA NoRequestOK == DOMAIN NoRequest = Fields /\ NoRequest.kind = "none"
BY DEF NoRequest, Fields

LEMMA ConnectionInit == AnalysisInit => IInv
<1> SUFFICES ASSUME Init PROVE IInv
  BY DEF AnalysisInit
<1>1. EventsOK
  BY DEF Init, EventsOK
<1>2. RowsOK
  <2>1. inst \in [Installations -> [status : Statuses, at : Nat, priority : Nat, revision : Nat]]
    BY DEF Init, Statuses
  <2>2. Table(repo)
    BY DEF Init, Table
  <2> QED BY <2>1, <2>2 DEF RowsOK
<1>3. Bindings
  BY DEF Init, Bindings
<1>4. RevokedOK
  BY DEF Init, RevokedOK
<1>5. RequestsOK
  <2>1. req = [c \in Clients |-> NoRequest]
    BY DEF Init
  <2> QED BY <2>1, NoRequestOK DEF RequestsOK, RequestOK
<1>6. TruthOK
  BY DEF Init, TruthOK, Grant
<1> QED BY <1>1, <1>2, <1>3, <1>4, <1>5, <1>6 DEF IInv

\* A request that leaves the tables alone and is begun or carried on properly.
LEMMA RequestStep ==
    ASSUME IInv, UNCHANGED <<truth, events, inst, repo, history>>, NEW c \in Clients, NEW q,
           req' = [req EXCEPT ![c] = q], RequestOK(q)
    PROVE  IInv' /\ Earned
<1>1. TruthOK' /\ EventsOK' /\ RowsOK' /\ Bindings' /\ RevokedOK'
  BY DEF IInv, TruthOK, EventsOK, RowsOK, Bindings, RevokedOK, history
<1>2. RequestsOK'
  BY DEF IInv, RequestsOK, RequestOK, SyncOK, SnapshotOK, history
<1>3. Earned
  BY DEF Earned
<1> QED BY <1>1, <1>2, <1>3 DEF IInv

\* One that touches nothing the invariant speaks of.
LEMMA OtherStep ==
    ASSUME IInv, UNCHANGED <<truth, events, inst, repo, history, req>>
    PROVE  IInv' /\ Earned
<1>1. TruthOK' /\ EventsOK' /\ RowsOK' /\ Bindings' /\ RevokedOK'
  BY DEF IInv, TruthOK, EventsOK, RowsOK, Bindings, RevokedOK, history
<1>2. RequestsOK'
  BY DEF IInv, RequestsOK, RequestOK, SyncOK, SnapshotOK, history
<1>3. Earned
  BY DEF Earned
<1> QED BY <1>1, <1>2, <1>3 DEF IInv

\* A webhook GitHub makes is appended with a time no earlier than the last.
LEMMA EmitStep ==
    ASSUME IInv, NEW i \in Installations, NEW action, NEW change, NEW added, NEW removed,
           action \in {"created", "deleted", "suspend", "unsuspend", "new_permissions_accepted",
                       "added", "removed"},
           added \in SUBSET Repos, removed \in SUBSET Repos,
           change \in Grant,
           added # {} => action \notin {"deleted", "suspend", "removed"},
           Emit(i, action, change, added, removed)
    PROVE  IInv' /\ Earned
<1> DEFINE latest == IF events = <<>> THEN 0 ELSE Last(events).at
           e(later) == [inst |-> i, action |-> action, added |-> added, removed |-> removed,
                        suspended |-> change.state = "suspended", all |-> change.all,
                        readOnly |-> change.readOnly, at |-> later + latest]
<1>1. PICK later \in {0, 1} : events' = Append(events, e(later))
  BY DEF Emit
<1>2. UNCHANGED <<inst, repo, req, history>>
  BY DEF Emit
<1>3. events \in Seq(Events) /\ \A k \in DOMAIN events : events[k] \in Events
  BY DEF IInv, EventsOK
<1>4. latest \in Nat /\ \A k \in DOMAIN events : events[k].at \in Nat /\ events[k].at <= latest
  <2>1. \A k \in DOMAIN events : events[k].at \in Nat
    BY <1>3 DEF Events
  <2>2. CASE events = <<>>
    BY <2>2
  <2>3. CASE events # <<>>
    <3>1. Len(events) \in DOMAIN events /\ \A k \in DOMAIN events : k <= Len(events)
      BY <1>3, <2>3
    <3>2. latest = events[Len(events)].at
      BY <2>3 DEF Last
    <3> QED BY <2>1, <3>1, <3>2 DEF IInv, EventsOK
  <2> QED BY <2>2, <2>3
<1> HIDE DEF latest
<1>5. e(later) \in Events
  <2>1. later + latest \in Nat
    BY <1>4
  <2> QED BY <2>1 DEF Events, Grant
<1>6. /\ events' \in Seq(Events) /\ DOMAIN events' = DOMAIN events \cup {Len(events) + 1}
      /\ Len(events) + 1 \notin DOMAIN events
      /\ \A k \in DOMAIN events : events'[k] = events[k] /\ k < Len(events) + 1
      /\ events'[Len(events) + 1] = e(later)
  <2> HIDE DEF e
  <2> QED BY <1>1, <1>3, <1>5
<1>7. EventsOK'
  <2>1. e(later).at >= latest /\ e(later).added = added /\ e(later).action = action
    BY <1>4
  <2> HIDE DEF e
  <2>2. \A j, k \in DOMAIN events' : j <= k => events'[j].at <= events'[k].at
    <3> SUFFICES ASSUME NEW j \in DOMAIN events', NEW k \in DOMAIN events', j <= k
                 PROVE  events'[j].at <= events'[k].at
      OBVIOUS
    <3>1. j \in Nat /\ k \in Nat /\ Len(events) \in Nat
      BY <1>3, <1>6
    <3>2. e(later).at \in Nat
      BY <1>5 DEF Events
    <3>3. CASE k \in DOMAIN events
      <4>1. j \in DOMAIN events
        BY <1>6, <3>1, <3>3
      <4> QED BY <1>6, <3>3, <4>1 DEF IInv, EventsOK
    <3>4. CASE k = Len(events) + 1 /\ j \in DOMAIN events
      BY <1>4, <1>6, <2>1, <3>2, <3>4
    <3>5. CASE k = Len(events) + 1 /\ j = k
      BY <1>6, <3>2, <3>5
    <3> QED BY <1>6, <3>3, <3>4, <3>5
  <2>3. \A k \in DOMAIN events' :
          events'[k].added # {} => events'[k].action \notin {"deleted", "suspend", "removed"}
    BY <1>6, <2>1 DEF IInv, EventsOK
  <2> QED BY <1>6, <2>2, <2>3 DEF EventsOK
<1>8. RowsOK' /\ Bindings'
  BY <1>2 DEF IInv, RowsOK, Bindings
<1>9. RevokedOK'
  BY <1>2, <1>6 DEF IInv, RevokedOK, history
<1>10. RequestsOK'
  BY <1>2 DEF IInv, RequestsOK, RequestOK, SyncOK, SnapshotOK, history
<1>11. Earned
  BY <1>2 DEF Earned
<1>12. TruthOK'
  BY DEF Emit, IInv, TruthOK
<1> QED BY <1>7, <1>8, <1>9, <1>10, <1>11, <1>12 DEF IInv

LEMMA GitHubStep ==
    ASSUME IInv, GitHub
    PROVE  IInv' /\ Earned
<1>1. truth \in [Installations -> Grant]
  BY DEF IInv, TruthOK
<1>2. ASSUME NEW i \in Installations, GitHubInstalls(i) PROVE IInv' /\ Earned
  <2>1. PICK S \in SUBSET Repos :
          Emit(i, "created", [truth[i] EXCEPT !.state = "live", !.repos = S], S, {})
    BY <1>2 DEF GitHubInstalls
  <2>2. [truth[i] EXCEPT !.state = "live", !.repos = S] \in Grant
    BY <1>1 DEF Grant
  <2> QED BY <2>1, <2>2, EmitStep
<1>3. ASSUME NEW i \in Installations, GitHubSuspends(i) PROVE IInv' /\ Earned
  <2>1. [truth[i] EXCEPT !.state = "suspended"] \in Grant
    BY <1>1 DEF Grant
  <2> QED BY <1>3, <2>1, EmitStep DEF GitHubSuspends
<1>4. ASSUME NEW i \in Installations, GitHubUnsuspends(i) PROVE IInv' /\ Earned
  <2>1. [truth[i] EXCEPT !.state = "live"] \in Grant /\ Granted(i) \in SUBSET Repos
    BY <1>1 DEF Grant, Granted
  <2> QED BY <1>4, <2>1, EmitStep DEF GitHubUnsuspends
<1>5. ASSUME NEW i \in Installations, GitHubUninstalls(i) PROVE IInv' /\ Earned
  <2>1. [truth[i] EXCEPT !.state = "deleted", !.repos = {}] \in Grant
    BY <1>1 DEF Grant
  <2> QED BY <1>5, <2>1, EmitStep DEF GitHubUninstalls
<1>6. ASSUME NEW i \in Installations, GitHubChangesPermissions(i) PROVE IInv' /\ Earned
  <2>1. [truth[i] EXCEPT !.readOnly = ~@] \in Grant /\ Granted(i) \in SUBSET Repos
    BY <1>1 DEF Grant, Granted
  <2> QED BY <1>6, <2>1, EmitStep DEF GitHubChangesPermissions
<1>7. ASSUME NEW i \in Installations, NEW r \in Repos, GitHubAdds(i, r) PROVE IInv' /\ Earned
  <2>1. PICK all \in BOOLEAN :
          Emit(i, "added", [truth[i] EXCEPT !.repos = @ \cup {r}, !.all = all], {r}, {})
    BY <1>7 DEF GitHubAdds
  <2>2. [truth[i] EXCEPT !.repos = @ \cup {r}, !.all = all] \in Grant /\ {r} \in SUBSET Repos
    BY <1>1 DEF Grant
  <2> QED BY <2>1, <2>2, EmitStep
<1>8. ASSUME NEW i \in Installations, NEW r \in Repos, GitHubRemoves(i, r) PROVE IInv' /\ Earned
  <2>1. [truth[i] EXCEPT !.repos = @ \ {r}, !.all = FALSE] \in Grant /\ {r} \in SUBSET Repos
    BY <1>1 DEF Grant
  <2> QED BY <1>8, <2>1, EmitStep DEF GitHubRemoves
<1>9. ASSUME NEW r \in Repos, GitHubMovesHead(r) PROVE IInv' /\ Earned
  BY <1>9, OtherStep DEF GitHubMovesHead
<1> QED BY <1>2, <1>3, <1>4, <1>5, <1>6, <1>7, <1>8, <1>9 DEF GitHub

-----------------------------------------------------------------------------

LEMMA PriorityType ==
    ASSUME NEW e \in Events
    PROVE  /\ _event_priority(e) \in Nat /\ _event_priority(e) >= 10
           /\ _installation_status(e) \in Statuses \ {"none"}
           /\ (_installation_status(e) = "active" /\ e.action \notin {"deleted", "suspend", "removed"})
                => _event_priority(e) = 10
<1>1. e.suspended \in BOOLEAN /\ e.all \in BOOLEAN /\ e.readOnly \in BOOLEAN
  BY DEF Events
<1>2. _event_priority(e) \in {100, 90, 80, 70, 10}
  BY <1>1 DEF _event_priority
<1>3. _installation_status(e) \in Statuses \ {"none"}
  BY <1>1 DEF _installation_status, Statuses
<1>4. (_installation_status(e) = "active" /\ e.action \notin {"deleted", "suspend", "removed"})
         => _event_priority(e) = 10
  BY <1>1 DEF _installation_status, _event_priority
<1> QED BY <1>2, <1>3, <1>4

\* What an applied event does to the rows, one by one.
LEMMA RowsAfterEvent ==
    ASSUME RowsOK, NEW e \in Events
    PROVE  LET rows == RowsAfter(e)
               active == _installation_status(e) = "active"
           IN  /\ Table(rows)
               /\ \A r \in Repos : rows[r].selected =>
                     \/ active /\ r \in e.added /\ r \notin e.removed /\ rows[r].inst = e.inst
                     \/ /\ repo[r].selected /\ rows[r].inst = repo[r].inst
                        /\ repo[r].inst = e.inst => active /\ r \notin e.removed
<1>1. /\ e.inst \in Installations /\ e.added \in SUBSET Repos /\ e.removed \in SUBSET Repos
  BY DEF Events
<1>2. Table(repo)
  BY DEF RowsOK
<1>3. CASE _installation_status(e) # "active"
  <2>1. RowsAfter(e) = Deselected(repo, e.inst, Repos)
    BY <1>3 DEF RowsAfter
  <2> QED BY <1>1, <1>2, <1>3, <2>1 DEF Deselected, Table
<1>4. CASE _installation_status(e) = "active"
  <2> DEFINE up == upsert_repository(repo, e.inst, e.added)
  <2>1. RowsAfter(e) = Deselected(up, e.inst, e.removed)
    BY <1>4 DEF RowsAfter
  <2>2. /\ Table(up)
        /\ \A r \in Repos : r \in e.added => up[r].inst = e.inst
        /\ \A r \in Repos : r \notin e.added => up[r] = repo[r]
    BY <1>1, <1>2 DEF upsert_repository, Table
  <2> HIDE DEF up
  <2>3. Table(RowsAfter(e))
    BY <2>1, <2>2 DEF Deselected, Table
  <2>4. \A r \in Repos : RowsAfter(e)[r].selected =>
          /\ RowsAfter(e)[r] = up[r]
          /\ ~(r \in e.removed /\ up[r].inst = e.inst)
    BY <2>1, <2>2 DEF Deselected, Table
  <2> QED BY <1>1, <1>2, <1>4, <2>2, <2>3, <2>4
<1> QED BY <1>3, <1>4

LEMMA WebhookStep ==
    ASSUME IInv, NEW n \in DOMAIN events, Webhook(n)
    PROVE  IInv' /\ Earned
<1> DEFINE e == events[n]
           i == e.inst
<1>1. e \in Events /\ i \in Installations /\ e.at \in Nat /\ n \in Nat \ {0}
      /\ e.added \in SUBSET Repos /\ e.removed \in SUBSET Repos
  <2>1. events \in Seq(Events)
    BY DEF IInv, EventsOK
  <2>2. e \in Events /\ n \in Nat \ {0}
    BY <2>1
  <2> QED BY <2>2 DEF Events
<1>2. CASE ~Applies(e)
  <2>1. UNCHANGED <<truth, events, inst, repo, history, req>>
    BY <1>2 DEF Webhook, provider
  <2> QED BY <2>1, OtherStep
<1>3. CASE Applies(e)
  <2>1. /\ inst' = [inst EXCEPT ![i] = Observed(@, e)]
        /\ repo' = RowsAfter(e)
        /\ asOf' = [r \in Repos |-> IF r \in Given(e) THEN n ELSE asOf[r]]
        /\ revoked' = [revoked EXCEPT ![i] = [r \in Repos |-> IF r \in Taken(e) THEN n ELSE @[r]]]
        /\ truth' = truth /\ events' = events /\ req' = req
    BY <1>3 DEF Webhook, provider
  <2>2. /\ _event_priority(e) \in Nat /\ _event_priority(e) >= 10
        /\ _installation_status(e) \in Statuses \ {"none"}
    BY <1>1, PriorityType
  <2>3. RowsOK /\ inst \in [Installations -> [status : Statuses, at : Nat, priority : Nat, revision : Nat]]
    BY DEF IInv, RowsOK
  <2>4. /\ inst' \in [Installations -> [status : Statuses, at : Nat, priority : Nat, revision : Nat]]
        /\ inst'[i].status = _installation_status(e) /\ inst'[i].at = e.at
        /\ inst'[i].priority = _event_priority(e) /\ inst'[i].revision = inst[i].revision + 1
        /\ \A j \in Installations \ {i} : inst'[j] = inst[j]
    BY <1>1, <2>1, <2>2, <2>3 DEF Observed
  <2>5. /\ Table(repo')
        /\ \A r \in Repos : repo'[r].selected =>
              \/ /\ _installation_status(e) = "active" /\ r \in e.added /\ r \notin e.removed
                 /\ repo'[r].inst = i
              \/ /\ repo[r].selected /\ repo'[r].inst = repo[r].inst
                 /\ repo[r].inst = i => _installation_status(e) = "active" /\ r \notin e.removed
    BY <1>1, <2>1, <2>3, RowsAfterEvent
  <2> HIDE DEF e, i
  <2>6. RowsOK'
    BY <2>4, <2>5 DEF RowsOK
  <2>7. Bindings'
    BY <1>1, <2>4, <2>5 DEF IInv, Bindings
  <2>8. /\ revoked' \in [Installations -> [Repos -> Nat]]
        /\ \A j \in Installations \ {i} : revoked'[j] = revoked[j]
        /\ \A r \in Repos : revoked'[i][r] = IF r \in Taken(e) THEN n ELSE revoked[i][r]
    BY <1>1, <2>1 DEF IInv, RevokedOK
  <2>9. \A r \in Repos : revoked[i][r] # 0 =>
          /\ revoked[i][r] \in DOMAIN events /\ events[revoked[i][r]].at <= e.at
          /\ e.at > inst[i].at \/ _event_priority(e) > inst[i].priority
          /\ inst[i].priority >= 10 /\ inst[i].at <= e.at /\ events[revoked[i][r]].at <= inst[i].at
    <3> SUFFICES ASSUME NEW r \in Repos, revoked[i][r] # 0
                 PROVE  /\ revoked[i][r] \in DOMAIN events /\ events[revoked[i][r]].at <= e.at
                        /\ e.at > inst[i].at \/ _event_priority(e) > inst[i].priority
                        /\ inst[i].priority >= 10 /\ inst[i].at <= e.at
                        /\ events[revoked[i][r]].at <= inst[i].at
      OBVIOUS
    <3>1. /\ revoked[i][r] \in DOMAIN events /\ inst[i].status # "none"
          /\ events[revoked[i][r]].at <= inst[i].at /\ inst[i].priority >= 10
      BY <1>1 DEF IInv, RevokedOK
    <3>2. e.at > inst[i].at \/ (e.at = inst[i].at /\ _event_priority(e) > inst[i].priority)
      BY <1>3, <3>1 DEF Applies, Supersedes, i
    <3>3. events[revoked[i][r]].at \in Nat /\ inst[i].at \in Nat
      <4>1. events[revoked[i][r]] \in Events
        BY <3>1 DEF IInv, EventsOK
      <4> QED BY <1>1, <2>3, <4>1 DEF Events
    <3> QED BY <1>1, <3>1, <3>2, <3>3
  <2>10. RevokedOK'
    <3>1. asOf' \in [Repos -> Nat]
      BY <1>1, <2>1 DEF IInv, RevokedOK
    <3>2. \A j \in Installations : inst'[j].status # "none" => inst'[j].priority >= 10
      BY <2>2, <2>4 DEF IInv, RevokedOK
    <3>3. ASSUME NEW j \in Installations, NEW r \in Repos, revoked'[j][r] # 0
          PROVE  /\ revoked'[j][r] \in DOMAIN events /\ inst'[j].status # "none"
                 /\ events[revoked'[j][r]].at <= inst'[j].at
      <4>1. CASE j # i
        BY <2>4, <2>8, <3>3, <4>1 DEF IInv, RevokedOK
      <4>2. CASE j = i
        <5>1. inst'[j].status # "none" /\ inst'[j].at = e.at
          BY <2>2, <2>4, <4>2
        <5>2. CASE r \in Taken(e)
          <6>1. revoked'[j][r] = n /\ events[n].at = e.at
            BY <2>8, <4>2, <5>2 DEF e
          <6> QED BY <1>1, <5>1, <6>1
        <5>3. CASE r \notin Taken(e)
          <6>1. revoked'[j][r] = revoked[i][r]
            BY <2>8, <4>2, <5>3
          <6> QED BY <2>9, <3>3, <5>1, <6>1
        <5> QED BY <5>2, <5>3
      <4> QED BY <4>1, <4>2
    <3> QED BY <2>1, <2>8, <3>1, <3>2, <3>3 DEF RevokedOK
  <2>11. RequestsOK'
    <3> SUFFICES ASSUME NEW c \in Clients, req[c].kind = "sync" PROVE SyncOK(req[c])'
      BY <2>1 DEF IInv, RequestsOK, RequestOK, SnapshotOK
    <3>1. SyncOK(req[c])
      BY DEF IInv, RequestsOK, RequestOK
    <3>2. CASE req[c].inst # i
      BY <2>1, <2>4, <2>8, <3>1, <3>2 DEF SyncOK
    <3>3. CASE req[c].inst = i
      <4>1. inst[i].revision \in Nat
        BY <1>1, <2>3
      <4> QED BY <2>1, <2>4, <3>1, <3>3, <4>1 DEF SyncOK
    <3> QED BY <3>2, <3>3
  <2>12. Earned
    <3> SUFFICES ASSUME NEW r \in Repos, Newly(r)
                 PROVE  asOf'[r] >= revoked'[repo'[r].inst][r]
      BY NewlyEarned
    <3>1. _installation_status(e) = "active" /\ r \in e.added /\ r \notin e.removed /\ repo'[r].inst = i
      BY <2>5 DEF Newly
    <3>2. asOf'[r] = n /\ revoked'[i][r] = revoked[i][r]
      BY <2>1, <2>8, <3>1 DEF Given, Taken
    <3>3. e.action \notin {"deleted", "suspend", "removed"}
      BY <3>1 DEF IInv, EventsOK, e
    <3>4. _event_priority(e) = 10
      BY <1>1, <3>1, <3>3, PriorityType
    <3>5. revoked[i][r] \in Nat
      <4>1. revoked \in [Installations -> [Repos -> Nat]]
        BY DEF IInv, RevokedOK
      <4> QED BY <1>1, <4>1
    <3>6. CASE revoked[i][r] = 0
      BY <1>1, <3>1, <3>2, <3>6
    <3>7. CASE revoked[i][r] # 0
      <4>1. /\ revoked[i][r] \in DOMAIN events /\ e.at > inst[i].at
            /\ events[revoked[i][r]].at <= inst[i].at
        <5>1. inst[i].priority \in Nat
          BY <1>1, <2>3
        <5> QED BY <2>9, <3>4, <3>7, <5>1
      <4>2. ~(n <= revoked[i][r])
        <5>1. events[revoked[i][r]].at \in Nat /\ inst[i].at \in Nat
          <6>1. events[revoked[i][r]] \in Events
            BY <4>1 DEF IInv, EventsOK
          <6> QED BY <1>1, <2>3, <6>1 DEF Events
        <5>2. n <= revoked[i][r] => e.at <= events[revoked[i][r]].at
          BY <4>1 DEF IInv, EventsOK, e
        <5> QED BY <1>1, <4>1, <5>1, <5>2
      <4> QED BY <1>1, <3>1, <3>2, <3>5, <4>2
    <3> QED BY <3>6, <3>7
  <2>13. TruthOK' /\ EventsOK'
    BY <2>1 DEF IInv, TruthOK, EventsOK
  <2> QED BY <2>6, <2>7, <2>10, <2>11, <2>12, <2>13 DEF IInv
<1> QED BY <1>2, <1>3

-----------------------------------------------------------------------------

LEMMA AnswerStep ==
    ASSUME IInv, UNCHANGED <<truth, events, inst, repo, history>>, NEW c \in Clients, Answered(c)
    PROVE  IInv' /\ Earned
<1>1. RequestOK(NoRequest)
  BY NoRequestOK DEF RequestOK
<1> QED BY <1>1, RequestStep DEF Answered

\* A request of another kind, or a step of it.
LEMMA AnalysisRequestStep ==
    ASSUME IInv, UNCHANGED <<truth, events, inst, repo, history>>, NEW c \in Clients, NEW q,
           req' = [req EXCEPT ![c] = q], DOMAIN q = Fields, q.kind \in {"diagnosis", "preview"}
    PROVE  IInv' /\ Earned
<1>1. RequestOK(q)
  BY DEF RequestOK
<1> QED BY <1>1, RequestStep

\* A step of a request that keeps what it has read from the store.
LEMMA CarryOn ==
    ASSUME IInv, UNCHANGED <<truth, events, inst, repo, history>>, NEW c \in Clients, NEW q,
           req' = [req EXCEPT ![c] = q], DOMAIN q = Fields,
           \A f \in {"kind", "inst", "repo", "revision", "since"} : q[f] = req[c][f]
    PROVE  IInv' /\ Earned
<1>1. RequestOK(req[c])
  BY DEF IInv, RequestsOK
<1>2. q.kind = req[c].kind /\ q.inst = req[c].inst /\ q.repo = req[c].repo
      /\ q.revision = req[c].revision /\ q.since = req[c].since
  OBVIOUS
<1>3. RequestOK(q)
  BY <1>1, <1>2 DEF RequestOK, SyncOK, SnapshotOK
<1> QED BY <1>3, RequestStep

LEMMA SyncBeginStep ==
    ASSUME IInv, NEW c \in Clients, NEW i \in Installations, SyncBegin(c, i)
    PROVE  IInv' /\ Earned
<1> DEFINE q == [NoRequest EXCEPT !.kind = "sync", !.phase = "reading", !.inst = i,
                                  !.revision = inst[i].revision, !.since = Len(events)]
<1>1. DOMAIN q = Fields /\ q.kind = "sync" /\ q.inst = i /\ q.revision = inst[i].revision
      /\ q.since = Len(events)
  BY DEF NoRequest, Fields
<1>2. req' = [req EXCEPT ![c] = q] /\ UNCHANGED <<truth, events, inst, repo, history>>
  BY DEF SyncBegin, provider
<1> HIDE DEF q
<1>3. SyncOK(q)
  <2>1. inst[i].revision \in Nat /\ Len(events) \in Nat
    BY DEF IInv, RowsOK, EventsOK
  <2>2. \A r \in Repos : revoked[i][r] \in Nat /\ (revoked[i][r] # 0 => revoked[i][r] \in DOMAIN events)
    BY DEF IInv, RevokedOK
  <2>3. DOMAIN events = 1..Len(events)
    BY DEF IInv, EventsOK
  <2> QED BY <1>1, <2>1, <2>2, <2>3 DEF SyncOK
<1> QED BY <1>1, <1>2, <1>3, RequestStep DEF RequestOK

\* What a request has read with the page it is at, and what it waits for.
ReadSoFar(q) == q.listing \o Page(q.inst, q.page)
Expected(q) == IF q.page = 0 THEN Cardinality(Granted(q.inst)) ELSE q.expected

LastPage(q) == [q EXCEPT !.phase = "read", !.listing = SubSeq(ReadSoFar(q), 1, Expected(q)),
                         !.page = 0, !.expected = 0]
OnePage(q) == [q EXCEPT !.page = @ + 1, !.expected = Expected(q), !.listing = ReadSoFar(q)]

LEMMA SyncPageCases ==
    ASSUME NEW c, SyncPage(c)
    PROVE  /\ In(c, "sync", "reading")
           /\ UNCHANGED <<provider, delivered, inst, repo, mapping, snapshots, history>>
           /\ \/ Answered(c)
              \/ /\ Len(ReadSoFar(req[c])) >= Expected(req[c])
                 /\ req' = [req EXCEPT ![c] = LastPage(req[c])]
              \/ /\ Len(ReadSoFar(req[c])) < Expected(req[c])
                 /\ Page(req[c].inst, req[c].page) # <<>>
                 /\ req' = [req EXCEPT ![c] = OnePage(req[c])]
BY Zenon DEF SyncPage, ReadSoFar, Expected, LastPage, OnePage

LEMMA SyncPageStep ==
    ASSUME IInv, NEW c \in Clients, SyncPage(c)
    PROVE  IInv' /\ Earned
<1>1. UNCHANGED <<truth, events, inst, repo, history>>
  BY DEF SyncPage, provider
<1>2. DOMAIN req[c] = Fields
  BY DEF IInv, RequestsOK, RequestOK
<1>3. CASE Answered(c)
  BY <1>1, <1>3, AnswerStep
<1>4. CASE req' = [req EXCEPT ![c] = LastPage(req[c])]
  <2>1. /\ DOMAIN LastPage(req[c]) = Fields
        /\ \A f \in {"kind", "inst", "repo", "revision", "since"} : LastPage(req[c])[f] = req[c][f]
    BY <1>2 DEF LastPage, Fields
  <2> QED BY <1>1, <1>4, <2>1, CarryOn
<1>5. CASE req' = [req EXCEPT ![c] = OnePage(req[c])]
  <2>1. /\ DOMAIN OnePage(req[c]) = Fields
        /\ \A f \in {"kind", "inst", "repo", "revision", "since"} : OnePage(req[c])[f] = req[c][f]
    BY <1>2 DEF OnePage, Fields
  <2> QED BY <1>1, <1>5, <2>1, CarryOn
<1> QED BY <1>3, <1>4, <1>5, SyncPageCases

LEMMA SyncPersistStep ==
    ASSUME IInv, NEW c \in Clients, SyncPersist(c)
    PROVE  IInv' /\ Earned
<1> DEFINE q == req[c]
           S == ToSet(q.listing)
<1>1. CASE ~SyncAccepted(q)
  <2>1. UNCHANGED <<truth, events, inst, repo, history>> /\ Answered(c)
    BY <1>1 DEF SyncPersist, provider, history
  <2> QED BY <2>1, AnswerStep
<1>2. CASE SyncAccepted(q)
  <2>1. /\ repo' = Listed(q.inst, S)
        /\ asOf' = [r \in Repos |-> IF r \in S THEN q.since ELSE asOf[r]]
        /\ UNCHANGED <<truth, events, inst, revoked>> /\ Answered(c) /\ q.kind = "sync"
    BY <1>2 DEF SyncPersist, provider, In
  <2>2. SyncOK(q)
    BY <2>1 DEF IInv, RequestsOK, RequestOK
  <2>3. /\ q.inst \in Installations /\ inst[q.inst].status = "active" /\ q.since \in Nat
        /\ \A r \in Repos : revoked[q.inst][r] <= q.since
    BY <1>2, <2>2 DEF SyncAccepted, SyncOK
  <2> HIDE DEF q, S
  <2> DEFINE rows == Deselected(repo, q.inst, Repos)
  <2>4. /\ Table(rows)
        /\ \A r \in Repos : rows[r].selected => repo[r].selected /\ rows[r] = repo[r]
    BY DEF IInv, RowsOK, Deselected, Table
  <2>6. /\ Table(repo')
        /\ \A r \in Repos : repo'[r].selected =>
              \/ r \in S /\ repo'[r].inst = q.inst
              \/ r \notin S /\ repo[r].selected /\ repo'[r] = repo[r]
    <3> HIDE DEF rows
    <3> QED BY <2>1, <2>3, <2>4 DEF Listed, upsert_repository, rows, Table
  <2>7. RowsOK'
    BY <2>1, <2>6 DEF IInv, RowsOK
  <2>8. Bindings'
    BY <2>1, <2>3, <2>6 DEF IInv, Bindings
  <2>9. RevokedOK'
    BY <2>1, <2>3 DEF IInv, RevokedOK
  <2>10. Earned
    <3> SUFFICES ASSUME NEW r \in Repos, Newly(r)
                 PROVE  asOf'[r] >= revoked'[repo'[r].inst][r]
      BY NewlyEarned
    <3>1. r \in S /\ repo'[r].inst = q.inst
      BY <2>6 DEF Newly
    <3>2. asOf'[r] = q.since /\ revoked'[repo'[r].inst][r] = revoked[q.inst][r]
      BY <2>1, <3>1
    <3>3. revoked[q.inst][r] \in Nat
      BY <2>3 DEF IInv, RevokedOK
    <3> QED BY <2>3, <3>2, <3>3
  <2>11. TruthOK' /\ EventsOK'
    BY <2>1 DEF IInv, TruthOK, EventsOK
  <2>12. RequestsOK'
    BY <2>1, NoRequestOK DEF IInv, RequestsOK, RequestOK, SyncOK, SnapshotOK, Answered
  <2> QED BY <2>7, <2>8, <2>9, <2>10, <2>11, <2>12 DEF IInv
<1> QED BY <1>1, <1>2

LEMMA SnapshotBeginStep ==
    ASSUME IInv, NEW c \in Clients, NEW r \in Repos, SnapshotBegin(c, r)
    PROVE  IInv' /\ Earned
<1> DEFINE q == [NoRequest EXCEPT !.kind = "snapshot", !.phase = "reading", !.repo = r,
                                  !.inst = repo[r].inst, !.since = asOf[r]]
<1>1. DOMAIN q = Fields /\ q.kind = "snapshot" /\ q.inst = repo[r].inst /\ q.repo = r
      /\ q.since = asOf[r]
  BY DEF NoRequest, Fields
<1>2. req' = [req EXCEPT ![c] = q] /\ UNCHANGED <<truth, events, inst, repo, history>>
  BY DEF SnapshotBegin, provider
<1>3. repo[r].inst \in Installations
  <2>1. repo[r].selected
    BY DEF SnapshotBegin, ActiveSelected
  <2> QED BY <2>1 DEF IInv, Bindings
<1>4. asOf[r] \in Nat
  BY DEF IInv, RevokedOK
<1> HIDE DEF q
<1> QED BY <1>1, <1>2, <1>3, <1>4, RequestStep DEF RequestOK, SnapshotOK

LEMMA SnapshotReadStep ==
    ASSUME IInv, NEW c \in Clients, SnapshotRead(c)
    PROVE  IInv' /\ Earned
<1>1. UNCHANGED <<truth, events, inst, repo, history>>
  BY DEF SnapshotRead, provider
<1>2. DOMAIN req[c] = Fields
  BY DEF IInv, RequestsOK, RequestOK
<1>3. CASE Answered(c)
  BY <1>1, <1>3, AnswerStep
<1>4. ASSUME NEW commit, req' = [req EXCEPT ![c] = [req[c] EXCEPT !.phase = "read", !.commit = commit]]
      PROVE  IInv' /\ Earned
  BY <1>1, <1>2, <1>4, CarryOn DEF Fields
<1> QED BY <1>3, <1>4 DEF SnapshotRead

LEMMA SnapshotPersistStep ==
    ASSUME IInv, NEW c \in Clients, SnapshotPersist(c)
    PROVE  IInv' /\ Earned
<1> DEFINE q == req[c]
           r == q.repo
           rows == upsert_repository(repo, q.inst, {r})
<1>1. CASE ~(ActiveSelected(r) /\ StillSelected(rows, r))
  <2>1. UNCHANGED <<truth, events, inst, repo, history>> /\ Answered(c)
    BY <1>1 DEF SnapshotPersist, provider, history
  <2> QED BY <2>1, AnswerStep
<1>2. CASE ActiveSelected(r) /\ StillSelected(rows, r)
  <2>1. /\ repo' = rows
        /\ asOf' = IF repo[r].inst = q.inst THEN asOf ELSE [asOf EXCEPT ![r] = q.since]
        /\ UNCHANGED <<truth, events, inst, revoked>> /\ Answered(c) /\ q.kind = "snapshot"
    BY <1>2 DEF SnapshotPersist, provider, In
  <2>2. q.inst \in Installations /\ r \in Repos /\ q.since \in Nat
    BY <2>1 DEF IInv, RequestsOK, RequestOK, SnapshotOK
  <2>3. repo[r].selected /\ inst[rows[r].inst].status = "active"
    BY <1>2 DEF ActiveSelected, StillSelected
  <2> HIDE DEF q, r
  <2>4. rows[r].inst = q.inst /\ rows[r].selected /\ \A x \in Repos \ {r} : rows[x] = repo[x]
    BY <2>2 DEF upsert_repository
  <2>5. RowsOK'
    BY <2>1, <2>2 DEF IInv, RowsOK, Table, upsert_repository
  <2>6. Bindings'
    <3>1. \A x \in Repos \ {r} : rows[x].selected =>
             rows[x].inst \in Installations /\ inst[rows[x].inst].status = "active"
      BY <2>4 DEF IInv, Bindings
    <3>2. rows[r].inst \in Installations /\ inst[rows[r].inst].status = "active"
      BY <2>2, <2>3, <2>4
    <3> HIDE DEF rows
    <3> QED BY <2>1, <3>1, <3>2 DEF Bindings
  <2>7. RevokedOK'
    BY <2>1, <2>2 DEF IInv, RevokedOK
  <2>8. Earned
    <3> SUFFICES ASSUME NEW x \in Repos, NEW i \in Installations,
                        ~SelectedFor(repo, x, i), SelectedFor(repo', x, i)
                 PROVE  /\ repo[x].selected
                        /\ \E d \in Clients : /\ In(d, "snapshot", "read") /\ req'[d] = NoRequest
                                              /\ req[d].repo = x /\ req[d].inst = i
      BY DEF Earned
    <3>1. x = r /\ i = q.inst
      BY <2>1, <2>4 DEF SelectedFor
    <3>2. In(c, "snapshot", "read") /\ req'[c] = NoRequest
      BY <2>1 DEF SnapshotPersist, IInv, RequestsOK, Answered
    <3> QED BY <2>3, <3>1, <3>2 DEF q, r
  <2>9. TruthOK' /\ EventsOK'
    BY <2>1 DEF IInv, TruthOK, EventsOK
  <2>10. RequestsOK'
    BY <2>1, NoRequestOK DEF IInv, RequestsOK, RequestOK, SyncOK, SnapshotOK, Answered
  <2> QED BY <2>5, <2>6, <2>7, <2>8, <2>9, <2>10 DEF IInv
<1> QED BY <1>1, <1>2

-----------------------------------------------------------------------------

LEMMA ConnectionStep ==
    ASSUME IInv, Next
    PROVE  IInv' /\ Earned
<1>1. CASE GitHub
  BY <1>1, GitHubStep
<1>2. ASSUME NEW n \in DOMAIN events, Webhook(n) PROVE IInv' /\ Earned
  BY <1>2, WebhookStep
<1>3. ASSUME NEW s \in Services, NEW r \in Repos, MapService(s, r) PROVE IInv' /\ Earned
  BY <1>3, OtherStep DEF MapService, provider
<1>4. ASSUME NEW c \in Clients, NEW i \in Installations, SyncBegin(c, i) PROVE IInv' /\ Earned
  BY <1>4, SyncBeginStep
<1>5. ASSUME NEW c \in Clients, SyncPage(c) PROVE IInv' /\ Earned
  BY <1>5, SyncPageStep
<1>6. ASSUME NEW c \in Clients, SyncPersist(c) PROVE IInv' /\ Earned
  BY <1>6, SyncPersistStep
<1>7. ASSUME NEW c \in Clients, NEW r \in Repos, SnapshotBegin(c, r) PROVE IInv' /\ Earned
  BY <1>7, SnapshotBeginStep
<1>8. ASSUME NEW c \in Clients, SnapshotRead(c) PROVE IInv' /\ Earned
  BY <1>8, SnapshotReadStep
<1>9. ASSUME NEW c \in Clients, SnapshotPersist(c) PROVE IInv' /\ Earned
  BY <1>9, SnapshotPersistStep
<1>10. ASSUME NEW c \in Clients, RequestFails(c) PROVE IInv' /\ Earned
  BY <1>10, AnswerStep DEF RequestFails, provider
<1> QED BY <1>1, <1>2, <1>3, <1>4, <1>5, <1>6, <1>7, <1>8, <1>9, <1>10 DEF Next

\* The diagnosis and preview routes only move their own requests along.
LEMMA BeginStep ==
    ASSUME IInv, UNCHANGED <<truth, events, inst, repo, history>>, NEW c \in Clients,
           NEW kind \in {"diagnosis", "preview"}, NEW s, NEW k, NEW a, Begin(c, kind, s, k, a)
    PROVE  IInv' /\ Earned
<1> DEFINE q == [NoRequest EXCEPT
                  !.kind = kind, !.phase = "reading", !.service = s, !.snapshot = k, !.analysis = a,
                  !.repo = mapping[s], !.inst = repo[mapping[s]].inst]
<1>1. DOMAIN q = Fields /\ q.kind = kind
  BY DEF NoRequest, Fields
<1>2. req' = [req EXCEPT ![c] = q]
  BY DEF Begin
<1> HIDE DEF q
<1> QED BY <1>1, <1>2, AnalysisRequestStep

LEMMA PhaseStep ==
    ASSUME IInv, UNCHANGED <<truth, events, inst, repo, history>>, NEW c \in Clients, NEW phase,
           req' = [req EXCEPT ![c].phase = phase]
    PROVE  IInv' /\ Earned
<1> DEFINE q == [req[c] EXCEPT !.phase = phase]
<1>1. DOMAIN req[c] = Fields
  BY DEF IInv, RequestsOK, RequestOK
<1>2. DOMAIN q = Fields /\ \A f \in {"kind", "inst", "repo", "revision", "since"} : q[f] = req[c][f]
  BY <1>1 DEF Fields
<1>3. req' = [req EXCEPT ![c] = q]
  OBVIOUS
<1> HIDE DEF q
<1> QED BY <1>2, <1>3, CarryOn

LEMMA AnalysisStep ==
    IInv /\ [AnalysisNext]_allVars => IInv' /\ Earned
<1> SUFFICES ASSUME IInv, [AnalysisNext]_allVars PROVE IInv' /\ Earned
  OBVIOUS
<1>1. CASE Next
  BY <1>1, ConnectionStep
<1>2. ASSUME NEW c \in Clients, NEW s \in Services, DiagnosisBegin(c, s) PROVE IInv' /\ Earned
  BY <1>2, BeginStep DEF DiagnosisBegin, provider
<1>3. ASSUME NEW c \in Clients, SourceRead(c) PROVE IInv' /\ Earned
  BY <1>3, PhaseStep DEF SourceRead, provider
<1>10. ASSUME NEW c \in Clients, BindingRecheck(c) PROVE IInv' /\ Earned
  BY <1>10, PhaseStep, AnswerStep DEF BindingRecheck, provider
<1>4. ASSUME NEW c \in Clients, DiagnosisAsk(c) PROVE IInv' /\ Earned
  BY <1>4, PhaseStep DEF DiagnosisAsk, provider
<1>5. ASSUME NEW c \in Clients, DiagnosisPersist(c) PROVE IInv' /\ Earned
  BY <1>5, AnswerStep DEF DiagnosisPersist, provider
<1>6. ASSUME NEW c \in Clients, PreviewAsk(c) PROVE IInv' /\ Earned
  BY <1>6, PhaseStep, AnswerStep DEF PreviewAsk, provider
<1>7. ASSUME NEW c \in Clients, NEW a \in DOMAIN analyses, PreviewBegin(c, a) PROVE IInv' /\ Earned
  BY <1>7, BeginStep DEF PreviewBegin, provider
<1>8. ASSUME NEW c \in Clients, PreviewAnswer(c) PROVE IInv' /\ Earned
  BY <1>8, AnswerStep DEF PreviewAnswer, provider
<1>9. CASE UNCHANGED allVars
  BY <1>9, OtherStep DEF allVars, vars
<1> QED BY <1>1, <1>2, <1>3, <1>4, <1>5, <1>6, <1>7, <1>8, <1>9, <1>10 DEF AnalysisNext, AnalysisAction

\* No webhook, sync or snapshot, however late it writes, leaves a repository
\* selected under an installation that is not active.
THEOREM SelectionsAreActive == AnalysisSpec => []SelectedMeansActive
<1>1. IInv => SelectedMeansActive
  BY DEF IInv, Bindings, SelectedMeansActive
<1> QED BY <1>1, ConnectionInit, AnalysisStep, PTL DEF AnalysisSpec

\* An installation comes to have a repository selected only on evidence at
\* least as new as the last handled webhook that took it away, or by a snapshot
\* that finds it selected for another one and moves it back (persist).
THEOREM RemovalsAreNotUndone == AnalysisSpec => NoStaleReselection
<1>1. Earned =>
        [\A r \in Repos, i \in Installations :
          ~SelectedFor(repo, r, i) /\ SelectedFor(repo', r, i)
          => \/ asOf'[r] >= revoked'[i][r]
             \/ /\ repo[r].selected
                /\ \E c \in Clients : /\ In(c, "snapshot", "read") /\ req'[c] = NoRequest
                                      /\ req[c].repo = r /\ req[c].inst = i]_vars
  BY DEF Earned
<1> QED BY <1>1, ConnectionInit, AnalysisStep, PTL DEF AnalysisSpec, NoStaleReselection

-----------------------------------------------------------------------------
(* What a step does to a request *)

\* A request that has come no nearer to a model.
Quiet(c) == req'[c] = req[c] \/ req'[c].phase \notin {"checked", "asked"}

\* Nor is it one of the two routes.
Passive(c) ==
    \/ req'[c] = req[c]
    \/ req'[c].phase \notin {"checked", "asked"} /\ req'[c].kind \notin {"diagnosis", "preview"}

\* A sequence of anything.
Items(s) == {s[k] : k \in DOMAIN s}
Listing(s) == s \in Seq(Items(s))

LEMMA SequencesAreListings ==
    ASSUME NEW T, NEW s \in Seq(T)
    PROVE  Listing(s)
<1>1. Len(s) \in Nat /\ DOMAIN s = 1..Len(s) /\ s = [k \in 1..Len(s) |-> s[k]]
  OBVIOUS
<1>2. \A k \in 1..Len(s) : s[k] \in Items(s)
  BY <1>1 DEF Items
<1>3. s \in [1..Len(s) -> Items(s)]
  BY <1>1, <1>2
<1> QED BY <1>1, <1>3 DEF Listing

LEMMA AppendGrows ==
    ASSUME NEW s, Listing(s), NEW x
    PROVE  /\ Listing(Append(s, x)) /\ DOMAIN Append(s, x) = DOMAIN s \cup {Len(s) + 1}
           /\ Len(s) + 1 \notin DOMAIN s
           /\ \A k \in DOMAIN s : Append(s, x)[k] = s[k]
           /\ Append(s, x)[Len(s) + 1] = x /\ Last(Append(s, x)) = x
<1> DEFINE T == {s[k] : k \in DOMAIN s} \cup {x}
           t == Append(s, x)
<1>1. s \in Seq(T) /\ x \in T
  BY DEF Listing
<1> HIDE DEF T
<1>2. /\ t \in Seq(T) /\ Len(t) = Len(s) + 1 /\ \A k \in 1..Len(s) : t[k] = s[k]
      /\ t[Len(s) + 1] = x
  BY <1>1
<1>3. DOMAIN s = 1..Len(s) /\ DOMAIN t = 1..Len(t) /\ Len(s) \in Nat
  BY <1>1, <1>2
<1>4. Last(t) = x
  BY <1>2 DEF Last
<1>5. Listing(t)
  BY <1>2, SequencesAreListings
<1> QED BY <1>2, <1>3, <1>4, <1>5

\* A sync or a snapshot that waits for GitHub, or has what it waited for.
Fetching(q) == q.phase \in {"reading", "read"} /\ q.kind \in {"sync", "snapshot"}

LEMMA ConnectionIsPassive ==
    ASSUME IInv, Next
    PROVE  \A c \in Clients : Passive(c)
<1>1. DOMAIN req = Clients /\ \A c \in Clients : DOMAIN req[c] = Fields
  BY DEF IInv, RequestsOK, RequestOK
<1>2. NoRequest.phase \notin {"checked", "asked"} /\ NoRequest.kind \notin {"diagnosis", "preview"}
  BY DEF NoRequest
<1>3. ASSUME NEW c \in Clients, Answered(c) PROVE \A d \in Clients : Passive(d)
  BY <1>1, <1>2, <1>3 DEF Answered, Passive
<1>4. ASSUME NEW c \in Clients, NEW q, Fetching(q), req' = [req EXCEPT ![c] = q]
      PROVE  \A d \in Clients : Passive(d)
  BY <1>1, <1>4 DEF Passive, Fetching
<1>5. CASE req' = req
  BY <1>5 DEF Passive
<1>6. CASE GitHub
  <2>1. req' = req
    BY <1>6, GitHubWritesItsOwn
  <2> QED BY <1>5, <2>1
<1>7. ASSUME NEW n \in DOMAIN events, Webhook(n) PROVE req' = req
  BY <1>7 DEF Webhook
<1>8. ASSUME NEW s \in Services, NEW r \in Repos, MapService(s, r) PROVE req' = req
  BY <1>8 DEF MapService
<1>9. ASSUME NEW c \in Clients, NEW i \in Installations, SyncBegin(c, i)
      PROVE  \A d \in Clients : Passive(d)
  <2> DEFINE q == [NoRequest EXCEPT !.kind = "sync", !.phase = "reading", !.inst = i,
                                    !.revision = inst[i].revision, !.since = Len(events)]
  <2>1. req' = [req EXCEPT ![c] = q]
    BY <1>9 DEF SyncBegin
  <2>2. Fetching(q)
    BY DEF NoRequest, Fetching
  <2> HIDE DEF q
  <2> QED BY <1>4, <2>1, <2>2
<1>10. ASSUME NEW c \in Clients, SyncPage(c) PROVE \A d \in Clients : Passive(d)
  <2>1. req[c].phase = "reading" /\ req[c].kind = "sync"
    BY <1>10 DEF SyncPage, In
  <2>2. CASE req' = [req EXCEPT ![c] = LastPage(req[c])]
    <3>1. Fetching(LastPage(req[c]))
      BY <1>1, <2>1 DEF LastPage, Fields, Fetching
    <3> QED BY <1>4, <2>2, <3>1
  <2>3. CASE req' = [req EXCEPT ![c] = OnePage(req[c])]
    <3>1. Fetching(OnePage(req[c]))
      BY <1>1, <2>1 DEF OnePage, Fields, Fetching
    <3> QED BY <1>4, <2>3, <3>1
  <2> QED BY <1>3, <1>10, <2>2, <2>3, SyncPageCases
<1>11. ASSUME NEW c \in Clients, SyncPersist(c) PROVE \A d \in Clients : Passive(d)
  BY <1>3, <1>11 DEF SyncPersist
<1>12. ASSUME NEW c \in Clients, NEW r \in Repos, SnapshotBegin(c, r)
       PROVE  \A d \in Clients : Passive(d)
  <2> DEFINE q == [NoRequest EXCEPT !.kind = "snapshot", !.phase = "reading", !.repo = r,
                                    !.inst = repo[r].inst, !.since = asOf[r]]
  <2>1. req' = [req EXCEPT ![c] = q]
    BY <1>12 DEF SnapshotBegin
  <2>2. Fetching(q)
    BY DEF NoRequest, Fetching
  <2> HIDE DEF q
  <2> QED BY <1>4, <2>1, <2>2
<1>13. ASSUME NEW c \in Clients, SnapshotRead(c) PROVE \A d \in Clients : Passive(d)
  <2> DEFINE q == [req[c] EXCEPT !.phase = "read", !.commit = head[req[c].repo]]
  <2>1. Answered(c) \/ req' = [req EXCEPT ![c] = q]
    BY <1>13 DEF SnapshotRead
  <2>2. Fetching(q)
    BY <1>1, <1>13 DEF Fields, SnapshotRead, In, Fetching
  <2> HIDE DEF q
  <2> QED BY <1>3, <1>4, <2>1, <2>2
<1>14. ASSUME NEW c \in Clients, SnapshotPersist(c) PROVE \A d \in Clients : Passive(d)
  BY <1>3, <1>14 DEF SnapshotPersist
<1>15. ASSUME NEW c \in Clients, RequestFails(c) PROVE \A d \in Clients : Passive(d)
  BY <1>3, <1>15 DEF RequestFails
<1> QED BY <1>5, <1>6, <1>7, <1>8, <1>9, <1>10, <1>11, <1>12, <1>13, <1>14, <1>15 DEF Next

\* The phase of a request moves, everything else of it stays.
LEMMA PhaseMoves ==
    ASSUME DOMAIN req = Clients, NEW c \in Clients, DOMAIN req[c] = Fields, NEW phase,
           req' = [req EXCEPT ![c].phase = phase]
    PROVE  /\ \A d \in Clients \ {c} : req'[d] = req[d]
           /\ req'[c].phase = phase
           /\ \A f \in Fields \ {"phase"} : req'[c][f] = req[c][f]
BY DEF Fields

-----------------------------------------------------------------------------
(* What a saved diagnosis rests on *)

ExcerptsOf(row) == Excerpts(build_source_context(row.files, Relevance, DiagnosisPolicy))

\* A saved analysis is of a snapshot of its repository, and what it cites and
\* wants to change are files of the excerpts taken from that snapshot.
AnalysisOK(a, rows) ==
    /\ a.snapshot \in DOMAIN rows /\ rows[a.snapshot].repo = a.repo
    /\ a.evidence \cup a.fix \subseteq PathsOf(ExcerptsOf(rows[a.snapshot]))

AnalysesOK(saved, rows) == \A k \in DOMAIN saved : AnalysisOK(saved[k], rows)

\* A preview that is shown is of a saved analysis and keeps to its fix.
ShownOK(p, saved) ==
    p.outcome = "shown" =>
        p.analysis \in DOMAIN saved /\ p.changed # {} /\ p.changed \subseteq saved[p.analysis].fix

PreviewsOK(requests, saved) ==
    \A c \in Clients : requests[c].kind = "preview" =>
        requests[c].analysis \in DOMAIN saved /\ saved[requests[c].analysis].fix # {}

\* The inductive invariant of the two routes, over that of the connection.
GInv ==
    /\ Listing(snapshots) /\ Listing(analyses)
    /\ AnalysesOK(analyses, snapshots)
    /\ PreviewsOK(req, analyses)
    /\ ShownOK(preview, analyses)

\* Rows are only ever added.
Grows(s, t) == t = s \/ \E x : t = Append(s, x)

LEMMA GrownListing ==
    ASSUME NEW s, NEW t, Listing(s), Grows(s, t)
    PROVE  Listing(t) /\ DOMAIN s \subseteq DOMAIN t /\ \A k \in DOMAIN s : t[k] = s[k]
<1>1. CASE t = s
  BY <1>1
<1>2. ASSUME NEW x, t = Append(s, x)
      PROVE  Listing(t) /\ DOMAIN s \subseteq DOMAIN t /\ \A k \in DOMAIN s : t[k] = s[k]
  BY <1>2, AppendGrows
<1> QED BY <1>1, <1>2 DEF Grows

LEMMA SnapshotsGrow ==
    ASSUME Next
    PROVE  Grows(snapshots, snapshots')
<1>1. CASE UNCHANGED snapshots
  BY <1>1 DEF Grows
<1>2. ASSUME NEW c \in Clients, SnapshotPersist(c) PROVE Grows(snapshots, snapshots')
  BY <1>2 DEF SnapshotPersist, Inserted, Grows
<1>3. GitHub => UNCHANGED snapshots
  BY GitHubWritesItsOwn
<1> QED BY <1>1, <1>2, <1>3 DEF Next, Webhook, MapService, SyncBegin, SyncPage, SyncPersist,
                            SnapshotBegin, SnapshotRead, RequestFails

LEMMA AnalysesStayOK ==
    ASSUME NEW saved, NEW s, NEW t, Listing(s), Grows(s, t), AnalysesOK(saved, s)
    PROVE  AnalysesOK(saved, t)
BY GrownListing DEF AnalysesOK, AnalysisOK

LEMMA SilentShowsNothing ==
    ASSUME NEW saved
    PROVE  ShownOK(NoPreview, saved)
BY DEF ShownOK, NoPreview

\* A request of the two routes keeps what it was made for.
KeepsAnalysis(c) ==
    req'[c].kind \in {"diagnosis", "preview"} =>
        /\ req'[c].kind = req[c].kind /\ req'[c].analysis = req[c].analysis
        /\ req'[c].snapshot = req[c].snapshot /\ req'[c].repo = req[c].repo

LEMMA AnswerKeeps ==
    ASSUME DOMAIN req = Clients, NEW c \in Clients, Answered(c)
    PROVE  \A d \in Clients : KeepsAnalysis(d)
BY DEF Answered, NoRequest, KeepsAnalysis

LEMMA PhaseKeeps ==
    ASSUME DOMAIN req = Clients, NEW c \in Clients, DOMAIN req[c] = Fields, NEW phase,
           req' = [req EXCEPT ![c].phase = phase]
    PROVE  \A d \in Clients : KeepsAnalysis(d)
<1>1. /\ \A d \in Clients \ {c} : req'[d] = req[d]
      /\ req'[c].kind = req[c].kind /\ req'[c].analysis = req[c].analysis
      /\ req'[c].snapshot = req[c].snapshot /\ req'[c].repo = req[c].repo
  BY PhaseMoves DEF Fields
<1> QED BY <1>1 DEF KeepsAnalysis

\* Whatever the model answers, what is cited are files of the excerpts.
LEMMA ResultIsGrounded ==
    ASSUME NEW excerpts, NEW answer
    PROVE  Result(excerpts, answer).evidence \cup Result(excerpts, answer).fix \subseteq PathsOf(excerpts)
<1>1. ASSUME NEW claim, Cites(claim, excerpts) PROVE claim.path \in PathsOf(excerpts)
  <2> DEFINE f == [path |-> claim.path, blob |-> claim.blob]
  <2>1. f \in excerpts /\ f.path = claim.path
    BY <1>1 DEF Cites
  <2> HIDE DEF f
  <2> QED BY <2>1 DEF PathsOf
<1>2. Grounded(excerpts, answer) => PathsOf(answer.evidence) \subseteq PathsOf(excerpts)
  <2> SUFFICES ASSUME Grounded(excerpts, answer), NEW claim \in answer.evidence
               PROVE  claim.path \in PathsOf(excerpts)
    BY DEF PathsOf
  <2> QED BY <1>1 DEF Grounded
<1> QED BY <1>2 DEF Result, Grounded

LEMMA GroundedStep ==
    IInv /\ GInv /\ [AnalysisNext]_allVars => GInv'
<1> SUFFICES ASSUME IInv, GInv, [AnalysisNext]_allVars PROVE GInv'
  OBVIOUS
<1>1. DOMAIN req = Clients /\ \A c \in Clients : DOMAIN req[c] = Fields
  BY DEF IInv, RequestsOK, RequestOK
<1>2. /\ Listing(snapshots) /\ Listing(analyses) /\ AnalysesOK(analyses, snapshots)
      /\ PreviewsOK(req, analyses) /\ ShownOK(preview, analyses)
  BY DEF GInv
<1>3. ASSUME Grows(snapshots, snapshots'), analyses' = analyses,
             \A c \in Clients : KeepsAnalysis(c), ShownOK(preview', analyses)
      PROVE  GInv'
  <2>1. Listing(snapshots') /\ AnalysesOK(analyses, snapshots')
    BY <1>2, <1>3, GrownListing, AnalysesStayOK
  <2>2. PreviewsOK(req', analyses)
    BY <1>2, <1>3 DEF PreviewsOK, KeepsAnalysis
  <2> QED BY <1>2, <1>3, <2>1, <2>2 DEF GInv
<1>4. ASSUME UNCHANGED <<snapshots, analyses>>, Silent, \A c \in Clients : KeepsAnalysis(c)
      PROVE  GInv'
  <2>1. Grows(snapshots, snapshots')
    BY <1>4 DEF Grows
  <2> QED BY <1>3, <1>4, <2>1, SilentShowsNothing DEF Silent
<1>5. CASE Next /\ UNCHANGED analyses /\ Silent
  <2>1. \A c \in Clients : KeepsAnalysis(c)
    BY <1>5, ConnectionIsPassive DEF Passive, KeepsAnalysis
  <2> QED BY <1>3, <1>5, <2>1, SnapshotsGrow, SilentShowsNothing DEF Silent
<1>6. ASSUME NEW c \in Clients, NEW s \in Services, DiagnosisBegin(c, s) PROVE GInv'
  <2> DEFINE q == [NoRequest EXCEPT
                  !.kind = "diagnosis", !.phase = "reading", !.service = s,
                  !.snapshot = Newest(s), !.analysis = None,
                  !.repo = mapping[s], !.inst = repo[mapping[s]].inst]
  <2>1. req' = [req EXCEPT ![c] = q]
    BY <1>6 DEF DiagnosisBegin, Begin
  <2>2. q.kind = "diagnosis"
    BY DEF NoRequest
  <2> HIDE DEF q
  <2>3. PreviewsOK(req', analyses)
    BY <1>1, <1>2, <2>1, <2>2 DEF PreviewsOK
  <2>4. UNCHANGED <<snapshots, analyses>> /\ Silent
    BY <1>6 DEF DiagnosisBegin
  <2> QED BY <1>2, <2>3, <2>4, SilentShowsNothing DEF GInv, Silent
<1>7. ASSUME NEW c \in Clients, SourceRead(c) PROVE GInv'
  BY <1>1, <1>4, <1>7, PhaseKeeps DEF SourceRead
<1>14. ASSUME NEW c \in Clients, BindingRecheck(c) PROVE GInv'
  BY <1>1, <1>4, <1>14, PhaseKeeps, AnswerKeeps DEF BindingRecheck
<1>8. ASSUME NEW c \in Clients, DiagnosisAsk(c) PROVE GInv'
  BY <1>1, <1>4, <1>8, PhaseKeeps DEF DiagnosisAsk
<1>9. ASSUME NEW c \in Clients, DiagnosisPersist(c) PROVE GInv'
  <2> DEFINE q == req[c]
  <2>1. /\ UNCHANGED snapshots /\ Silent /\ \A d \in Clients : KeepsAnalysis(d)
    BY <1>1, <1>9, AnswerKeeps DEF DiagnosisPersist
  <2>2. CASE ~StillBound(q)
    BY <1>4, <1>9, <2>1, <2>2 DEF DiagnosisPersist
  <2>3. CASE StillBound(q)
    <3> DEFINE result(answer) == Result(ExcerptsFor(q.snapshot), answer)
               row(answer) == Analysis(q, result(answer))
    <3>1. PICK answer \in Answers : analyses' = Append(analyses, row(answer))
      BY <1>9, <2>3 DEF DiagnosisPersist
    <3>2. /\ row(answer).repo = mapping[q.service] /\ row(answer).snapshot = q.snapshot
          /\ row(answer).fix = result(answer).fix
          /\ row(answer).evidence = result(answer).evidence
      BY DEF Analysis
    <3>3. result(answer).evidence \cup result(answer).fix \subseteq PathsOf(ExcerptsFor(q.snapshot))
      BY ResultIsGrounded
    <3>4. q.snapshot \in DOMAIN snapshots /\ snapshots[q.snapshot].repo = mapping[q.service]
      BY <2>3 DEF StillBound, Bound
    <3>5. ExcerptsFor(q.snapshot) = ExcerptsOf(snapshots[q.snapshot])
      BY DEF ExcerptsFor, ExcerptsOf
    <3> HIDE DEF result, row
    <3>6. AnalysisOK(row(answer), snapshots)
      BY <3>2, <3>3, <3>4, <3>5 DEF AnalysisOK
    <3>7. /\ Listing(analyses') /\ DOMAIN analyses' = DOMAIN analyses \cup {Len(analyses) + 1}
          /\ \A k \in DOMAIN analyses : analyses'[k] = analyses[k]
          /\ analyses'[Len(analyses) + 1] = row(answer)
      BY <1>2, <3>1, AppendGrows
    <3>8. AnalysesOK(analyses', snapshots)
      BY <1>2, <3>6, <3>7 DEF AnalysesOK
    <3>9. PreviewsOK(req', analyses')
      BY <1>2, <2>1, <3>7 DEF PreviewsOK, KeepsAnalysis
    <3> QED BY <1>2, <2>1, <3>7, <3>8, <3>9, SilentShowsNothing DEF GInv, Silent
  <2> QED BY <2>2, <2>3
<1>10. ASSUME NEW c \in Clients, PreviewAsk(c) PROVE GInv'
  <2>1. \A d \in Clients : KeepsAnalysis(d)
    BY <1>1, <1>10, PhaseKeeps, AnswerKeeps DEF PreviewAsk
  <2>2. Silent \/ preview'.outcome = "dead_end"
    BY <1>10 DEF PreviewAsk, DeadEnd
  <2>3. ShownOK(preview', analyses)
    BY <2>2, SilentShowsNothing DEF ShownOK, Silent
  <2>4. analyses' = analyses /\ Grows(snapshots, snapshots')
    BY <1>10 DEF PreviewAsk, Grows
  <2> QED BY <1>3, <2>1, <2>3, <2>4
<1>11. ASSUME NEW c \in Clients, NEW a \in DOMAIN analyses, PreviewBegin(c, a) PROVE GInv'
  <2> DEFINE s == analyses[a].service
             q == [NoRequest EXCEPT
                  !.kind = "preview", !.phase = "reading", !.service = s,
                  !.snapshot = analyses[a].snapshot, !.analysis = a,
                  !.repo = mapping[s], !.inst = repo[mapping[s]].inst]
  <2>1. req' = [req EXCEPT ![c] = q] /\ UNCHANGED <<snapshots, analyses>> /\ Silent
    BY <1>11 DEF PreviewBegin, Begin
  <2>2. q.analysis = a /\ analyses[a].fix # {}
    BY <1>11 DEF NoRequest, PreviewBegin
  <2> HIDE DEF q
  <2>3. PreviewsOK(req', analyses)
    BY <1>1, <1>2, <2>1, <2>2 DEF PreviewsOK
  <2> QED BY <1>2, <2>1, <2>3, SilentShowsNothing DEF GInv, Silent
<1>12. ASSUME NEW c \in Clients, PreviewAnswer(c) PROVE GInv'
  <2> DEFINE a == req[c].analysis
  <2>1. /\ \A d \in Clients : KeepsAnalysis(d)
        /\ analyses' = analyses /\ Grows(snapshots, snapshots')
    BY <1>1, <1>12, AnswerKeeps DEF PreviewAnswer, Grows
  <2>2. a \in DOMAIN analyses
    BY <1>2, <1>12 DEF PreviewAnswer, In, PreviewsOK
  <2>3. PICK changed \in Proposals :
          preview' = IF ~Permitted(a, changed)
                     THEN [outcome |-> "refused", analysis |-> a, changed |-> {}]
                     ELSE IF ~(analyses[a].fix \subseteq WorkspacePaths)
                     THEN DeadEnd(a)
                     ELSE [outcome |-> "shown", analysis |-> a, changed |-> changed]
    BY <1>12 DEF PreviewAnswer
  <2> HIDE DEF a
  <2>4. ShownOK(preview', analyses)
    BY <2>2, <2>3 DEF ShownOK, Permitted, DeadEnd
  <2> QED BY <1>3, <2>1, <2>4
<1>13. CASE UNCHANGED allVars
  <2>1. UNCHANGED <<snapshots, analyses, preview, req>>
    BY <1>13 DEF allVars, vars, analysisVars
  <2> QED BY <2>1 DEF GInv, PreviewsOK
<1> QED BY <1>5, <1>6, <1>7, <1>8, <1>9, <1>10, <1>11, <1>12, <1>13, <1>14
        DEF AnalysisNext, AnalysisAction

LEMMA GroundedInit == AnalysisInit => GInv
<1> SUFFICES ASSUME AnalysisInit PROVE GInv
  OBVIOUS
<1>1. snapshots = <<>> /\ analyses = <<>> /\ preview = NoPreview
  BY DEF AnalysisInit, Init
<1>2. \A c \in Clients : req[c] = NoRequest
  BY DEF AnalysisInit, Init
<1>3. Listing(<<>>)
  <2>1. << >> \in Seq({})
    OBVIOUS
  <2> QED BY <2>1, SequencesAreListings
<1> QED BY <1>1, <1>2, <1>3, NoRequestOK, SilentShowsNothing DEF GInv, AnalysesOK, PreviewsOK

\* What a preview shows is a change of files that the saved fix names and the
\* model saw, in the snapshot the analysis cites, whatever the model proposes
\* and however the repository moved since.
THEOREM PreviewsAreGrounded == AnalysisSpec => []PreviewGrounded
<1>1. GInv => PreviewGrounded
  <2> SUFFICES ASSUME GInv, preview.outcome = "shown" PROVE PreviewGrounded
    BY DEF PreviewGrounded
  <2> DEFINE a == analyses[preview.analysis]
  <2>1. preview.changed # {} /\ preview.changed \subseteq a.fix /\ AnalysisOK(a, snapshots)
    BY DEF GInv, ShownOK, AnalysesOK
  <2>2. ExcerptsFor(a.snapshot) = ExcerptsOf(snapshots[a.snapshot])
    BY DEF ExcerptsFor, ExcerptsOf
  <2> QED BY <2>1, <2>2 DEF PreviewGrounded, AnalysisOK
<1> QED BY <1>1, ConnectionInit, AnalysisStep, GroundedInit, GroundedStep, PTL DEF AnalysisSpec

-----------------------------------------------------------------------------
(* The order of a listing *)

Below(S, r) == {x \in S : x < r}

\* Every place of the order is taken, and no two share one.
LEMMA RanksAreTaken ==
    ASSUME NEW S \in SUBSET Nat, IsFiniteSet(S)
    PROVE  /\ Cardinality(S) \in Nat
           /\ \A r \in S : IsFiniteSet(Below(S, r))
                           /\ Cardinality(Below(S, r)) \in 0..(Cardinality(S) - 1)
           /\ \A r, s \in S : r # s => Cardinality(Below(S, r)) # Cardinality(Below(S, s))
           /\ \A k \in 1..Cardinality(S) : \E r \in S : Cardinality(Below(S, r)) = k - 1
<1> DEFINE n == Cardinality(S)
           rank == [r \in S |-> Cardinality(Below(S, r))]
<1>1. n \in Nat
  BY FS_CardinalityType
<1>2. \A r \in S : Below(S, r) \in SUBSET S /\ r \notin Below(S, r)
  BY DEF Below
<1>3. \A r \in S : IsFiniteSet(Below(S, r)) /\ rank[r] \in 0..(n - 1)
  <2> SUFFICES ASSUME NEW r \in S PROVE IsFiniteSet(Below(S, r)) /\ rank[r] \in 0..(n - 1)
    OBVIOUS
  <2>1. IsFiniteSet(Below(S, r)) /\ rank[r] <= n /\ rank[r] # n
    BY <1>2, FS_Subset
  <2>2. rank[r] \in Nat
    BY <2>1, FS_CardinalityType
  <2> HIDE DEF rank, n
  <2> QED BY <1>1, <2>1, <2>2
<1>4. \A r, s \in S : r < s => rank[r] < rank[s]
  <2> SUFFICES ASSUME NEW r \in S, NEW s \in S, r < s PROVE rank[r] < rank[s]
    OBVIOUS
  <2>1. Below(S, r) \in SUBSET Below(S, s) /\ r \in Below(S, s) /\ r \notin Below(S, r)
    <3>1. \A x \in S : x \in Int /\ (x < r => x < s)
      <4> SUFFICES ASSUME NEW x \in S PROVE x \in Int /\ (x < r => x < s)
        OBVIOUS
      <4>1. x \in Nat /\ r \in Nat /\ s \in Nat
        OBVIOUS
      <4> QED BY <4>1
    <3>2. r \in Below(S, s) /\ r \notin Below(S, r)
      <4>1. r \in Nat
        OBVIOUS
      <4>2. r < s /\ ~(r < r)
        BY <4>1
      <4> QED BY <4>2 DEF Below
    <3>3. \A x \in Below(S, r) : x \in Below(S, s)
      BY <3>1 DEF Below
    <3> QED BY <3>2, <3>3
  <2>2. rank[r] <= rank[s] /\ rank[r] # rank[s]
    BY <1>3, <2>1, FS_Subset
  <2>3. rank[r] \in Int /\ rank[s] \in Int
    BY <1>3
  <2> HIDE DEF rank
  <2> QED BY <2>2, <2>3
<1>5. \A r, s \in S : r # s => rank[r] # rank[s]
  <2>1. \A r, s \in S : r # s => r < s \/ s < r
    OBVIOUS
  <2>2. \A r \in S : rank[r] \in Int
    BY <1>3
  <2> HIDE DEF rank
  <2> QED BY <1>4, <2>1, <2>2
<1>6. rank \in Injection(S, 0..(n - 1))
  BY <1>3, <1>5 DEF Injection, IsInjective
<1>7. IsFiniteSet(0..(n - 1)) /\ Cardinality(0..(n - 1)) = n
  <2> HIDE DEF n
  <2>1. 0 \in Int /\ n - 1 \in Int
    BY <1>1
  <2>2. /\ IsFiniteSet(0..(n - 1))
        /\ Cardinality(0..(n - 1)) = IF 0 > n - 1 THEN 0 ELSE (n - 1) - 0 + 1
    BY <2>1, FS_Interval
  <2> QED BY <1>1, <2>2
<1>8. rank \in Surjection(S, 0..(n - 1))
  <2> HIDE DEF rank
  <2> QED BY <1>6, <1>7, FS_Injection DEF n
<1>9. \A k \in 1..n : \E r \in S : Cardinality(Below(S, r)) = k - 1
  <2> SUFFICES ASSUME NEW k \in 1..n PROVE \E r \in S : Cardinality(Below(S, r)) = k - 1
    OBVIOUS
  <2>1. k - 1 \in 0..(n - 1)
    BY <1>1
  <2>2. \A m \in 0..(n - 1) : \E r \in S : rank[r] = m
    BY <1>8 DEF Surjection
  <2> QED BY <2>1, <2>2
<1> QED BY <1>1, <1>3, <1>5, <1>9

\* A set of ids is listed whole, each id once.
LEMMA ListingIsWhole ==
    ASSUME NEW S \in SUBSET Nat, IsFiniteSet(S)
    PROVE  /\ InListing(S) \in Seq(S) /\ Len(InListing(S)) = Cardinality(S)
           /\ Cardinality(S) \in Nat
           /\ ToSet(InListing(S)) = S
<1> DEFINE n == Cardinality(S)
           rank == [r \in S |-> Cardinality(Below(S, r))]
<1>1. n \in Nat
  BY RanksAreTaken
<1>3. \A r \in S : rank[r] \in 0..(n - 1)
  BY RanksAreTaken
<1>5. \A r, s \in S : r # s => rank[r] # rank[s]
  BY RanksAreTaken
<1>9. \A k \in 1..n : \E r \in S : Cardinality(Below(S, r)) = k - 1
  BY RanksAreTaken
<1> DEFINE place == [k \in 1..n |-> CHOOSE r \in S : Cardinality(Below(S, r)) = k - 1]
<1>10. InListing(S) = place
  BY DEF InListing, Below
<1>11. \A k \in 1..n : place[k] \in S /\ rank[place[k]] = k - 1
  BY <1>9
<1>12. \A r \in S : rank[r] + 1 \in 1..n /\ place[rank[r] + 1] = r
  <2> SUFFICES ASSUME NEW r \in S PROVE rank[r] + 1 \in 1..n /\ place[rank[r] + 1] = r
    OBVIOUS
  <2>1. rank[r] + 1 \in 1..n /\ (rank[r] + 1) - 1 = rank[r]
    <3>1. rank[r] \in 0..(n - 1)
      BY <1>3
    <3> HIDE DEF rank, n
    <3> QED BY <1>1, <3>1
  <2>2. place[rank[r] + 1] \in S /\ rank[place[rank[r] + 1]] = rank[r]
    <3> HIDE DEF rank, n, place
    <3> QED BY <1>11, <2>1
  <2> HIDE DEF rank, place
  <2> QED BY <1>5, <2>1, <2>2
<1>13. place \in Seq(S) /\ Len(place) = n
  <2>1. place \in [1..n -> S]
    BY <1>11
  <2> HIDE DEF place
  <2> QED BY <1>1, <2>1
<1>14. ToSet(place) = S
  <2>1. DOMAIN place = 1..n
    OBVIOUS
  <2> HIDE DEF place, rank
  <2> QED BY <1>11, <1>12, <2>1 DEF ToSet
<1> QED BY <1>1, <1>10, <1>13, <1>14

LEMMA MinOfTwo ==
    ASSUME NEW a \in Int, NEW b \in Int
    PROVE  Min({a, b}) = IF a <= b THEN a ELSE b
BY DEF Min

\* A finite set of numbers has a greatest one.
LEMMA Greatest ==
    ASSUME NEW K \in SUBSET Nat, IsFiniteSet(K), K # {}
    PROVE  Max(K) \in K
<1> DEFINE n == Cardinality(K)
<1>1. n \in Nat /\ n # 0
  BY RanksAreTaken, FS_EmptySet
<1>2. PICK r \in K : Cardinality(Below(K, r)) = n - 1
  <2>1. n \in 1..n
    BY <1>1
  <2> QED BY <2>1, RanksAreTaken
<1>3. IsFiniteSet(K \ {r}) /\ Cardinality(K \ {r}) = n - 1
  BY FS_RemoveElement
<1>4. Below(K, r) \in SUBSET (K \ {r})
  BY DEF Below
<1>5. Below(K, r) = K \ {r}
  BY <1>2, <1>3, <1>4, FS_Subset
<1>6. \A x \in K : r >= x
  BY <1>5 DEF Below
<1> QED BY <1>6 DEF Max

-----------------------------------------------------------------------------
(* A sync that nothing changed under *)

\* What has been read of a listing of S, by the number of pages.
Part(S, pages) == SubSeq(InListing(S), 1, Min({Len(InListing(S)), pages * PageSize}))

ReadOK(q, S) ==
    /\ q.phase = "reading" => q.page \in Nat /\ q.listing = Part(S, q.page)
                              /\ (q.page # 0 => q.expected = Cardinality(S))
    /\ q.phase = "read" => q.listing = InListing(S)

\* A sync since whose beginning GitHub has made no webhook is reading what is granted.
ExactOK(q, grants, n) ==
    /\ q.phase \in {"reading", "read"} /\ q.since <= n
    /\ q.since = n => ReadOK(q, grants[q.inst].repos)

\* The next page of a listing goes on where the last one ended.
LEMMA PartGrows ==
    ASSUME NEW S \in SUBSET Nat, IsFiniteSet(S), NEW p \in Nat
    PROVE  LET all  == InListing(S)
               page == SubSeq(all, p * PageSize + 1, Min({Len(all), (p + 1) * PageSize}))
           IN  /\ Part(S, p) \o page = Part(S, p + 1)
               /\ Len(Part(S, p + 1)) >= Len(all) => Part(S, p + 1) = all
               /\ SubSeq(all, 1, Len(all)) = all
<1> DEFINE all == InListing(S)
           n == Len(all)
           a == p * PageSize
           b == (p + 1) * PageSize
<1>1. all \in Seq(S) /\ n \in Nat
  BY ListingIsWhole
<1>2. a \in Nat /\ b \in Nat /\ b = a + PageSize
  OBVIOUS
<1> HIDE DEF a, b, all, n
<1>3. SubSeq(all, 1, n) = all
  BY <1>1, SubSeqFull DEF n
<1>4. Min({n, a}) = (IF n <= a THEN n ELSE a) /\ Min({n, b}) = (IF n <= b THEN n ELSE b)
  BY <1>1, <1>2, MinOfTwo
<1>5. SubSeq(all, 1, Min({n, a})) \o SubSeq(all, a + 1, Min({n, b})) = SubSeq(all, 1, Min({n, b}))
  <2>1. CASE a <= n
    <3>1. Min({n, a}) = a /\ a \in 0..n /\ Min({n, b}) \in a..n
      BY <1>1, <1>2, <1>4, <2>1
    <3>2. 1 \in 1..(n + 1) /\ a \in 1-1..n
      BY <1>1, <3>1
    <3>3. \A j \in a..n : SubSeq(all, 1, a) \o SubSeq(all, a + 1, j) = SubSeq(all, 1, j)
      BY <1>1, <3>2, ConcatAdjacentSubSeq DEF n
    <3> QED BY <3>1, <3>3
  <2>2. CASE n < a
    <3>1. Min({n, a}) = n /\ Min({n, b}) = n
      BY <1>1, <1>2, <1>4, <2>2
    <3>2. SubSeq(all, a + 1, n) = <<>>
      BY <1>1, <1>2, <2>2, SubSeqEmpty
    <3>3. all \o <<>> = all
      BY <1>1, ConcatEmptySeq
    <3> QED BY <1>3, <3>1, <3>2, <3>3
  <2>3. a <= n \/ n < a
    BY <1>1, <1>2
  <2> QED BY <2>1, <2>2, <2>3, Zenon
<1>6. Len(SubSeq(all, 1, Min({n, b}))) >= n => SubSeq(all, 1, Min({n, b})) = all
  <2>1. Min({n, b}) \in 0..n
    BY <1>1, <1>2, <1>4
  <2>2. \A m \in 0..n : Len(SubSeq(all, 1, m)) = m
    BY <1>1 DEF n
  <2>3. Len(SubSeq(all, 1, Min({n, b}))) >= n => Min({n, b}) = n
    BY <1>1, <2>1, <2>2
  <2> QED BY <1>3, <2>3
<1> QED BY <1>3, <1>5, <1>6 DEF Part, all, n, a, b

\* The first page is preceded by nothing.
LEMMA PartBegins ==
    ASSUME NEW S \in SUBSET Nat, IsFiniteSet(S)
    PROVE  Part(S, 0) = <<>>
<1> DEFINE n == Len(InListing(S))
<1>1. n \in Nat /\ 0 * PageSize = 0
  BY ListingIsWhole
<1> HIDE DEF n
<1>2. Min({n, 0}) = 0
  BY <1>1, MinOfTwo
<1>3. SubSeq(InListing(S), 1, 0) = <<>>
  BY SubSeqEmpty
<1> QED BY <1>1, <1>2, <1>3 DEF Part, n

PageOf(S, p) ==
    SubSeq(InListing(S), p * PageSize + 1, Min({Len(InListing(S)), (p + 1) * PageSize}))

LEMMA PartGoesOn ==
    ASSUME NEW S \in SUBSET Nat, IsFiniteSet(S), NEW p \in Nat
    PROVE  Part(S, p) \o PageOf(S, p) = Part(S, p + 1)
BY PartGrows DEF PageOf

LEMMA PartIsWhole ==
    ASSUME NEW S \in SUBSET Nat, IsFiniteSet(S), NEW p \in Nat
    PROVE  /\ Len(Part(S, p + 1)) >= Len(InListing(S)) => Part(S, p + 1) = InListing(S)
           /\ SubSeq(InListing(S), 1, Len(InListing(S))) = InListing(S)
BY PartGrows

LEMMA GrantedOK ==
    ASSUME IInv, NEW i \in Installations
    PROVE  Granted(i) \in SUBSET Repos /\ Granted(i) \in SUBSET Nat /\ IsFiniteSet(Granted(i))
<1>1. Granted(i) \in SUBSET Repos
  BY DEF IInv, TruthOK, Grant, Granted
<1> QED BY <1>1, FS_Subset

LEMMA PagesAreExact ==
    ASSUME IInv, NEW c \in Clients, In(c, "sync", "reading"),
           ExactOK(req[c], truth, Len(events))
    PROVE  /\ Len(ReadSoFar(req[c])) >= Expected(req[c])
                => ExactOK(LastPage(req[c]), truth, Len(events))
           /\ ExactOK(OnePage(req[c]), truth, Len(events))
<1> DEFINE q == req[c]
           S == Granted(q.inst)
<1>1. q.kind = "sync" /\ q.phase = "reading"
  BY DEF In
<1>2. DOMAIN req = Clients /\ DOMAIN q = Fields /\ q.inst \in Installations
  BY <1>1 DEF IInv, RequestsOK, RequestOK, SyncOK
<1>3. ExactOK(q, truth, Len(events))
  OBVIOUS
<1>4. S \in SUBSET Nat /\ IsFiniteSet(S) /\ S = truth[q.inst].repos
  BY <1>2, GrantedOK DEF Granted
<1>5. Len(InListing(S)) = Cardinality(S)
  BY <1>4, ListingIsWhole
<1>6. ASSUME q.since = Len(events)
      PROVE  /\ q.page \in Nat /\ q.listing = Part(S, q.page) /\ Expected(q) = Cardinality(S)
             /\ ReadSoFar(q) = Part(S, q.page + 1)
             /\ Len(Part(S, q.page + 1)) >= Cardinality(S) => Part(S, q.page + 1) = InListing(S)
             /\ SubSeq(InListing(S), 1, Cardinality(S)) = InListing(S)
  <2>1. q.page \in Nat /\ q.listing = Part(S, q.page) /\ (q.page # 0 => q.expected = Cardinality(S))
    BY <1>1, <1>3, <1>4, <1>6 DEF ExactOK, ReadOK
  <2>2. Expected(q) = Cardinality(S)
    BY <2>1 DEF Expected
  <2>3. Page(q.inst, q.page) = PageOf(S, q.page)
    BY DEF Page, PageOf
  <2> HIDE DEF S, q
  <2>4. Part(S, q.page) \o Page(q.inst, q.page) = Part(S, q.page + 1)
    <3>1. Part(S, q.page) \o PageOf(S, q.page) = Part(S, q.page + 1)
      BY <1>4, <2>1, PartGoesOn
    <3> QED BY <2>3, <3>1, Zenon
  <2>5. /\ Len(Part(S, q.page + 1)) >= Cardinality(S) => Part(S, q.page + 1) = InListing(S)
        /\ SubSeq(InListing(S), 1, Cardinality(S)) = InListing(S)
    <3>1. /\ Len(Part(S, q.page + 1)) >= Len(InListing(S)) => Part(S, q.page + 1) = InListing(S)
          /\ SubSeq(InListing(S), 1, Len(InListing(S))) = InListing(S)
      BY <1>4, <2>1, PartIsWhole
    <3> QED BY <1>5, <3>1
  <2> QED BY <2>1, <2>2, <2>4, <2>5 DEF ReadSoFar
<1>7. ASSUME Len(ReadSoFar(q)) >= Expected(q) PROVE ExactOK(LastPage(q), truth, Len(events))
  <2>1. /\ LastPage(q).phase = "read" /\ LastPage(q).since = q.since
        /\ LastPage(q).inst = q.inst
        /\ LastPage(q).listing = SubSeq(ReadSoFar(q), 1, Expected(q))
    BY <1>2 DEF LastPage, Fields
  <2>2. q.since = Len(events) => LastPage(q).listing = InListing(S)
    BY <1>6, <1>7, <2>1
  <2> QED BY <1>3, <1>4, <2>1, <2>2 DEF ExactOK, ReadOK
<1>8. ExactOK(OnePage(q), truth, Len(events))
  <2>1. /\ OnePage(q).phase = "reading" /\ OnePage(q).since = q.since
        /\ OnePage(q).inst = q.inst /\ OnePage(q).page = q.page + 1
        /\ OnePage(q).listing = ReadSoFar(q) /\ OnePage(q).expected = Expected(q)
    BY <1>1, <1>2 DEF OnePage, Fields
  <2>2. q.since = Len(events) =>
          /\ OnePage(q).page \in Nat /\ OnePage(q).listing = Part(S, OnePage(q).page)
          /\ OnePage(q).expected = Cardinality(S)
    BY <1>6, <2>1
  <2> QED BY <1>3, <1>4, <2>1, <2>2 DEF ExactOK, ReadOK
<1> QED BY <1>7, <1>8

-----------------------------------------------------------------------------
(* Types *)

\* A request with the type of every field, a sync as far as GitHub let it, and
\* a snapshot that was read with its commit.
Proper(q, grants, n) ==
    /\ q \in Requests
    /\ q.kind = "sync" => ExactOK(q, grants, n)
    /\ q.kind = "snapshot" /\ q.phase = "read" => q.commit \in Commits /\ FilesAt[q.commit].whole
    /\ q.kind = "diagnosis" => q.service \in Services

RequestsProper == req \in [Clients -> Requests] /\ \A c \in Clients : Proper(req[c], truth, Len(events))

RowTable(rows) ==
    rows \in [Repos -> [inst : Installations \cup {None}, selected : BOOLEAN]]

OncePerCommit(rows) ==
    \A j, k \in DOMAIN rows :
        rows[j].repo = rows[k].repo /\ rows[j].commit = rows[k].commit => j = k

\* An analysis is of an incident of a service.
ServicesOK(saved) == \A k \in DOMAIN saved : saved[k].service \in Services

\* The invariant that adds the types of the tables and of the requests.
TInv ==
    /\ head \in [Repos -> Commits]
    /\ delivered \subseteq DOMAIN events
    /\ RowTable(repo)
    /\ mapping \in [Services -> Repos \cup {None}]
    /\ OncePerCommit(snapshots)
    /\ ServicesOK(analyses)
    /\ RequestsProper

LEMMA NoRequestProper == ASSUME NEW grants, NEW n PROVE Proper(NoRequest, grants, n)
<1>1. NoRequest \in Requests
  BY DEF NoRequest, Requests
<1> QED BY <1>1, NoRequestOK DEF Proper

\* One request is begun, carried on or answered while GitHub stands still.
LEMMA RequestMoves ==
    ASSUME RequestsProper, UNCHANGED <<truth, events>>, NEW c \in Clients, NEW q,
           req' = [req EXCEPT ![c] = q], Proper(q, truth, Len(events))
    PROVE  RequestsProper'
<1>1. req' \in [Clients -> Requests] /\ \A d \in Clients : req'[d] = IF d = c THEN q ELSE req[d]
  BY DEF RequestsProper, Proper
<1> QED BY <1>1 DEF RequestsProper

LEMMA RequestAnswered ==
    ASSUME RequestsProper, UNCHANGED <<truth, events>>, NEW c \in Clients, Answered(c)
    PROVE  RequestsProper'
BY NoRequestProper, RequestMoves DEF Answered

\* GitHub moves on: no sync is since the newest webhook.
LEMMA RequestsOverEmit ==
    ASSUME IInv, RequestsProper, req' = req, Len(events') = Len(events) + 1
    PROVE  RequestsProper'
<1>1. Len(events) \in Nat
  BY DEF IInv, EventsOK
<1>2. ASSUME NEW c \in Clients PROVE Proper(req[c], truth', Len(events'))
  <2>1. Proper(req[c], truth, Len(events))
    BY DEF RequestsProper
  <2>2. req[c].kind = "sync" => req[c].since \in Nat
    BY DEF IInv, RequestsOK, RequestOK, SyncOK
  <2>3. req[c].kind = "sync" => ExactOK(req[c], truth', Len(events'))
    BY <1>1, <2>1, <2>2 DEF Proper, ExactOK
  <2> QED BY <2>1, <2>3 DEF Proper
<1> QED BY <1>2 DEF RequestsProper

LEMMA RequestsStand ==
    ASSUME RequestsProper, UNCHANGED <<truth, events, req>>
    PROVE  RequestsProper'
BY DEF RequestsProper

\* The repository rows.
LEMMA RowTypes ==
    ASSUME NEW rows, RowTable(rows), NEW i \in Installations, NEW S
    PROVE  /\ RowTable(upsert_repository(rows, i, S))
           /\ RowTable(Deselected(rows, i, S))
<1>1. \A r \in Repos : [inst |-> i, selected |-> TRUE]
                       \in [inst : Installations \cup {None}, selected : BOOLEAN]
  OBVIOUS
<1>2. RowTable(upsert_repository(rows, i, S))
  BY <1>1 DEF RowTable, upsert_repository
<1>3. \A r \in Repos : [rows[r] EXCEPT !.selected = FALSE]
                       \in [inst : Installations \cup {None}, selected : BOOLEAN]
  BY DEF RowTable
<1>4. RowTable(Deselected(rows, i, S))
  BY <1>3 DEF RowTable, Deselected
<1> QED BY <1>2, <1>4

LEMMA TypesInit == AnalysisInit => TInv
<1> SUFFICES ASSUME AnalysisInit, Init PROVE TInv
  BY DEF AnalysisInit
<1>1. head \in [Repos -> Commits] /\ delivered \subseteq DOMAIN events
  BY DEF Init
<1>2. RowTable(repo)
  BY DEF Init, RowTable
<1>3. mapping \in [Services -> Repos \cup {None}] /\ OncePerCommit(snapshots)
  BY DEF Init, OncePerCommit
<1>7. ServicesOK(analyses)
  BY DEF AnalysisInit, ServicesOK
<1>4. req = [c \in Clients |-> NoRequest]
  BY DEF Init
<1>5. Proper(NoRequest, truth, Len(events)) /\ NoRequest \in Requests
  BY NoRequestProper DEF Proper
<1>6. RequestsProper
  BY <1>4, <1>5 DEF RequestsProper
<1> QED BY <1>1, <1>2, <1>3, <1>6, <1>7 DEF TInv

LEMMA EmitTypes ==
    ASSUME IInv, TInv, UNCHANGED analyses, NEW i, NEW action, NEW change, NEW added, NEW removed,
           Emit(i, action, change, added, removed)
    PROVE  TInv'
<1>1. \E e : events' = Append(events, e)
  BY DEF Emit
<1>2. UNCHANGED <<head, delivered, repo, mapping, snapshots, req>>
  BY DEF Emit
<1>3. Len(events') = Len(events) + 1 /\ DOMAIN events \subseteq DOMAIN events'
  <2>1. Listing(events)
    BY SequencesAreListings DEF IInv, EventsOK
  <2>2. Grows(events, events')
    BY <1>1 DEF Grows
  <2>3. DOMAIN events \subseteq DOMAIN events'
    BY <2>1, <2>2, GrownListing
  <2>4. Len(events') = Len(events) + 1
    <3>1. PICK e : events' = Append(events, e)
      BY <1>1
    <3>2. events \in Seq(Items(events) \cup {e})
      BY <2>1 DEF Listing
    <3> QED BY <3>1, <3>2
  <2> QED BY <2>3, <2>4
<1>4. RequestsProper'
  BY <1>2, <1>3, RequestsOverEmit DEF TInv
<1> QED BY <1>2, <1>3, <1>4 DEF TInv

LEMMA GitHubTypes ==
    ASSUME IInv, TInv, UNCHANGED analyses, GitHub
    PROVE  TInv'
<1>1. ASSUME NEW r \in Repos, GitHubMovesHead(r) PROVE TInv'
  <2>1. head' \in [Repos -> Commits] /\ UNCHANGED <<truth, events, delivered, repo, mapping, snapshots, req>>
    BY <1>1 DEF GitHubMovesHead, TInv
  <2>2. RequestsProper'
    BY <2>1, RequestsStand DEF TInv
  <2> QED BY <2>1, <2>2 DEF TInv
<1> QED BY <1>1, EmitTypes DEF GitHub, GitHubInstalls, GitHubSuspends, GitHubUnsuspends,
           GitHubUninstalls, GitHubChangesPermissions, GitHubAdds, GitHubRemoves

LEMMA WebhookTypes ==
    ASSUME IInv, TInv, UNCHANGED analyses, NEW n \in DOMAIN events, Webhook(n)
    PROVE  TInv'
<1> DEFINE e == events[n]
<1>1. /\ UNCHANGED <<truth, events, head, mapping, snapshots, req>>
      /\ delivered' = delivered \cup {n}
      /\ repo' = repo \/ repo' = RowsAfter(e)
  BY DEF Webhook, provider
<1>2. e.inst \in Installations
  <2>1. e \in Events
    BY DEF IInv, EventsOK
  <2> QED BY <2>1 DEF Events
<1> HIDE DEF e
<1>3. RowTable(repo)
  BY DEF TInv
<1>4. RowTable(RowsAfter(e))
  BY <1>2, <1>3, RowTypes DEF RowsAfter
<1>5. RowTable(repo')
  BY <1>1, <1>3, <1>4
<1>6. RequestsProper'
  BY <1>1, RequestsStand DEF TInv
<1> QED BY <1>1, <1>5, <1>6 DEF TInv

LEMMA SyncRequest ==
    ASSUME NEW q \in Requests, NEW i \in Installations, NEW revision \in Nat, NEW since \in Nat
    PROVE  [q EXCEPT !.kind = "sync", !.phase = "reading", !.inst = i,
                     !.revision = revision, !.since = since] \in Requests
BY DEF Requests

LEMMA SnapshotRequest ==
    ASSUME NEW q \in Requests, NEW r \in Repos, NEW i \in Installations \cup {None},
           NEW since \in Nat
    PROVE  [q EXCEPT !.kind = "snapshot", !.phase = "reading", !.repo = r,
                     !.inst = i, !.since = since] \in Requests
BY DEF Requests

LEMMA SyncBeginTypes ==
    ASSUME IInv, TInv, UNCHANGED analyses, NEW c \in Clients, NEW i \in Installations, SyncBegin(c, i)
    PROVE  TInv'
<1> DEFINE q == [NoRequest EXCEPT !.kind = "sync", !.phase = "reading", !.inst = i,
                                  !.revision = inst[i].revision, !.since = Len(events)]
<1>1. req' = [req EXCEPT ![c] = q] /\ UNCHANGED <<truth, events, head, delivered, repo, mapping, snapshots>>
  BY DEF SyncBegin, provider
<1>2. inst[i].revision \in Nat /\ Len(events) \in Nat
  BY DEF IInv, RowsOK, EventsOK
<1>3. /\ q.kind = "sync" /\ q.phase = "reading" /\ q.since = Len(events) /\ q.inst = i
      /\ q.page = 0 /\ q.listing = <<>>
  BY DEF NoRequest
<1>4. q \in Requests
  BY <1>2, NoRequestProper, SyncRequest DEF Proper
<1> HIDE DEF q
<1>5. Part(truth[i].repos, 0) = <<>>
  <2>1. Granted(i) \in SUBSET Nat /\ IsFiniteSet(Granted(i))
    BY GrantedOK
  <2> QED BY <2>1, PartBegins DEF Granted
<1>6. ExactOK(q, truth, Len(events))
  BY <1>2, <1>3, <1>5 DEF ExactOK, ReadOK
<1>7. Proper(q, truth, Len(events))
  BY <1>3, <1>4, <1>6 DEF Proper
<1>8. RequestsProper'
  BY <1>1, <1>7, RequestMoves DEF TInv
<1> QED BY <1>1, <1>8 DEF TInv

LEMMA PageType ==
    ASSUME IInv, NEW i \in Installations, NEW p \in Nat
    PROVE  Page(i, p) \in Seq(Repos)
<1> DEFINE all == InListing(Granted(i))
           to == Min({Len(all), (p + 1) * PageSize})
<1>1. all \in Seq(Granted(i)) /\ Len(all) \in Nat
  BY GrantedOK, ListingIsWhole
<1>2. p * PageSize \in Nat /\ (p + 1) * PageSize \in Nat
  OBVIOUS
<1>3. all \in Seq(Repos)
  <2>1. Granted(i) \in SUBSET Repos
    BY GrantedOK
  <2> HIDE DEF all
  <2> QED BY <1>1, <2>1
<1> HIDE DEF all
<1>4. to \in Int /\ to <= Len(all)
  BY <1>1, <1>2, MinOfTwo
<1> HIDE DEF to
<1>5. p * PageSize + 1 \in Int /\ \A k \in (p * PageSize + 1)..to : k \in 1..Len(all)
  BY <1>1, <1>2, <1>4
<1>6. \A k \in (p * PageSize + 1)..to : all[k] \in Repos
  BY <1>3, <1>5
<1>7. SubSeq(all, p * PageSize + 1, to) \in Seq(Repos)
  BY <1>4, <1>5, <1>6, SubSeqProperties
<1> QED BY <1>7 DEF Page, all, to

LEMMA SyncPageTypes ==
    ASSUME IInv, TInv, UNCHANGED analyses, NEW c \in Clients, SyncPage(c)
    PROVE  TInv'
<1> DEFINE q == req[c]
<1>1. /\ In(c, "sync", "reading")
      /\ UNCHANGED <<truth, events, head, delivered, repo, mapping, snapshots>>
      /\ \/ Answered(c)
         \/ Len(ReadSoFar(q)) >= Expected(q) /\ req' = [req EXCEPT ![c] = LastPage(q)]
         \/ Len(ReadSoFar(q)) < Expected(q) /\ req' = [req EXCEPT ![c] = OnePage(q)]
  BY SyncPageCases DEF provider
<1>2. q \in Requests /\ Proper(q, truth, Len(events)) /\ q.kind = "sync" /\ q.inst \in Installations
  BY <1>1 DEF TInv, RequestsProper, In, IInv, RequestsOK, RequestOK, SyncOK
<1>3. ExactOK(q, truth, Len(events))
  BY <1>2 DEF Proper
<1>4. ReadSoFar(q) \in Seq(Repos) /\ Expected(q) \in Nat /\ Len(ReadSoFar(q)) \in Nat
  <2>1. q.page \in Nat /\ q.listing \in Seq(Repos) /\ q.expected \in Nat
    BY <1>2 DEF Requests
  <2>2. Page(q.inst, q.page) \in Seq(Repos)
    BY <1>2, <2>1, PageType
  <2>3. Cardinality(Granted(q.inst)) \in Nat
    BY <1>2, GrantedOK, FS_CardinalityType
  <2> HIDE DEF q
  <2>4. q.listing \o Page(q.inst, q.page) \in Seq(Repos)
    BY <2>1, <2>2
  <2>5. ReadSoFar(q) \in Seq(Repos)
    BY <2>4 DEF ReadSoFar
  <2>6. Len(ReadSoFar(q)) \in Nat
    BY <2>5
  <2> QED BY <2>1, <2>3, <2>5, <2>6 DEF Expected
<1>5. CASE Answered(c)
  BY <1>1, <1>5, RequestAnswered DEF TInv
<1>6. CASE Len(ReadSoFar(q)) >= Expected(q) /\ req' = [req EXCEPT ![c] = LastPage(q)]
  <2>1. SubSeq(ReadSoFar(q), 1, Expected(q)) \in Seq(Repos)
    <3> HIDE DEF q
    <3> QED BY <1>4, <1>6
  <2>2. LastPage(q) \in Requests
    <3> HIDE DEF q
    <3> QED BY <1>2, <2>1 DEF LastPage, Requests
  <2>3. LastPage(q).kind = "sync"
    <3> HIDE DEF q
    <3> QED BY <1>2 DEF LastPage, Requests
  <2>4. Proper(LastPage(q), truth, Len(events))
    BY <1>1, <1>3, <1>6, <2>2, <2>3, PagesAreExact DEF Proper
  <2>5. RequestsProper'
    BY <1>1, <1>6, <2>4, RequestMoves DEF TInv
  <2> QED BY <1>1, <2>5 DEF TInv
<1>7. CASE req' = [req EXCEPT ![c] = OnePage(q)]
  <2>1. OnePage(q) \in Requests /\ OnePage(q).kind = "sync"
    <3>1. q.page + 1 \in Nat
      BY <1>2 DEF Requests
    <3> HIDE DEF q
    <3> QED BY <1>2, <1>4, <3>1 DEF OnePage, Requests
  <2>2. Proper(OnePage(q), truth, Len(events))
    BY <1>1, <1>3, <2>1, PagesAreExact DEF Proper
  <2>3. RequestsProper'
    BY <1>1, <1>7, <2>2, RequestMoves DEF TInv
  <2> QED BY <1>1, <2>3 DEF TInv
<1> QED BY <1>1, <1>5, <1>6, <1>7

LEMMA SyncPersistTypes ==
    ASSUME IInv, TInv, UNCHANGED analyses, NEW c \in Clients, SyncPersist(c)
    PROVE  TInv'
<1> DEFINE q == req[c]
<1>1. /\ UNCHANGED <<truth, events, head, delivered, mapping, snapshots>> /\ Answered(c)
      /\ q.kind = "sync"
      /\ repo' = repo \/ repo' = Listed(q.inst, ToSet(q.listing))
  BY DEF SyncPersist, provider, In
<1>2. q.inst \in Installations
  BY <1>1 DEF IInv, RequestsOK, RequestOK, SyncOK
<1>3. RowTable(repo)
  BY DEF TInv
<1>4. RowTable(Deselected(repo, q.inst, Repos))
  BY <1>2, <1>3, RowTypes
<1>5. RowTable(Listed(q.inst, ToSet(q.listing)))
  BY <1>2, <1>3, <1>4, RowTypes DEF Listed
<1>6. RequestsProper'
  BY <1>1, RequestAnswered DEF TInv
<1> QED BY <1>1, <1>3, <1>5, <1>6 DEF TInv

LEMMA SnapshotTypes ==
    ASSUME IInv, TInv, UNCHANGED analyses, Listing(snapshots), NEW c \in Clients,
           \/ \E r \in Repos : SnapshotBegin(c, r)
           \/ SnapshotRead(c)
           \/ SnapshotPersist(c)
    PROVE  TInv'
<1>1. ASSUME NEW r \in Repos, SnapshotBegin(c, r) PROVE TInv'
  <2> DEFINE q == [NoRequest EXCEPT !.kind = "snapshot", !.phase = "reading", !.repo = r,
                                    !.inst = repo[r].inst, !.since = asOf[r]]
  <2>1. req' = [req EXCEPT ![c] = q] /\ UNCHANGED <<truth, events, head, delivered, repo, mapping, snapshots>>
    BY <1>1 DEF SnapshotBegin, provider
  <2>2. repo[r].inst \in Installations \cup {None} /\ asOf[r] \in Nat
    BY DEF IInv, RowsOK, Table, RevokedOK
  <2>3. q \in Requests
    BY <2>2, NoRequestProper, SnapshotRequest DEF Proper
  <2>4. q.kind = "snapshot" /\ q.phase = "reading"
    BY DEF NoRequest
  <2> HIDE DEF q
  <2>5. RequestsProper'
    BY <2>1, <2>3, <2>4, RequestMoves DEF TInv, Proper
  <2> QED BY <2>1, <2>5 DEF TInv
<1>2. ASSUME SnapshotRead(c) PROVE TInv'
  <2> DEFINE q == [req[c] EXCEPT !.phase = "read", !.commit = head[req[c].repo]]
  <2>1. /\ UNCHANGED <<truth, events, head, delivered, repo, mapping, snapshots>>
        /\ req[c].kind = "snapshot"
        /\ Answered(c) \/ (FilesAt[head[req[c].repo]].whole /\ req' = [req EXCEPT ![c] = q])
    BY <1>2 DEF SnapshotRead, provider, In
  <2>2. req[c] \in Requests /\ head[req[c].repo] \in Commits
    BY <2>1 DEF TInv, RequestsProper, IInv, RequestsOK, RequestOK, SnapshotOK
  <2>3. q \in Requests /\ q.kind = "snapshot" /\ q.commit = head[req[c].repo]
    BY <2>1, <2>2 DEF Requests
  <2> HIDE DEF q
  <2>4. CASE Answered(c)
    <3>1. RequestsProper'
      BY <2>1, <2>4, RequestAnswered DEF TInv
    <3> QED BY <2>1, <3>1 DEF TInv
  <2>5. CASE FilesAt[head[req[c].repo]].whole /\ req' = [req EXCEPT ![c] = q]
    <3>1. Proper(q, truth, Len(events))
      BY <2>2, <2>3, <2>5 DEF Proper
    <3>2. RequestsProper'
      BY <2>1, <2>5, <3>1, RequestMoves DEF TInv
    <3> QED BY <2>1, <3>2 DEF TInv
  <2> QED BY <2>1, <2>4, <2>5
<1>3. ASSUME SnapshotPersist(c) PROVE TInv'
  <2> DEFINE q == req[c]
             rows == upsert_repository(repo, q.inst, {q.repo})
  <2>1. /\ UNCHANGED <<truth, events, head, delivered, mapping>> /\ Answered(c)
        /\ q.kind = "snapshot" /\ q.phase = "read"
        /\ \/ UNCHANGED <<repo, snapshots>>
           \/ repo' = rows /\ snapshots' = Inserted(q.repo, q.commit)
    BY <1>3 DEF SnapshotPersist, provider, In
  <2>2. q.inst \in Installations /\ q.commit \in Commits
    BY <2>1 DEF TInv, RequestsProper, Proper, IInv, RequestsOK, RequestOK, SnapshotOK
  <2>3. RowTable(repo)
    BY DEF TInv
  <2>4. RowTable(rows)
    <3> HIDE DEF q
    <3> QED BY <2>2, <2>3, RowTypes
  <2> HIDE DEF rows, q
  <2>5. OncePerCommit(Inserted(q.repo, q.commit))
    <3>1. CASE \E k \in DOMAIN snapshots : snapshots[k].repo = q.repo /\ snapshots[k].commit = q.commit
      BY <3>1 DEF Inserted, TInv
    <3>2. CASE ~\E k \in DOMAIN snapshots : snapshots[k].repo = q.repo /\ snapshots[k].commit = q.commit
      <4> DEFINE new == Snapshot(q.repo, q.commit)
                 t == Append(snapshots, new)
      <4>1. Inserted(q.repo, q.commit) = t
        BY <3>2 DEF Inserted
      <4>2. new.repo = q.repo /\ new.commit = q.commit
        BY DEF Snapshot
      <4> HIDE DEF new
      <4>3. /\ DOMAIN t = DOMAIN snapshots \cup {Len(snapshots) + 1}
            /\ \A k \in DOMAIN snapshots : t[k] = snapshots[k]
            /\ t[Len(snapshots) + 1] = new
        BY AppendGrows
      <4> HIDE DEF t
      <4>4. OncePerCommit(t)
        BY <3>2, <4>2, <4>3 DEF TInv, OncePerCommit
      <4> QED BY <4>1, <4>4
    <3> QED BY <3>1, <3>2
  <2>6. RequestsProper'
    BY <2>1, RequestAnswered DEF TInv
  <2> QED BY <2>1, <2>3, <2>4, <2>5, <2>6 DEF TInv
<1> QED BY <1>1, <1>2, <1>3

LEMMA MapServiceTypes ==
    ASSUME IInv, TInv, UNCHANGED analyses, NEW s \in Services, NEW r \in Repos, MapService(s, r)
    PROVE  TInv'
<1>1. /\ UNCHANGED <<truth, events, head, delivered, repo, snapshots, req>>
      /\ mapping' = [mapping EXCEPT ![s] = r]
  BY DEF MapService, provider
<1>2. RequestsProper'
  BY <1>1, RequestsStand DEF TInv
<1> QED BY <1>1, <1>2 DEF TInv

LEMMA ConnectionTypes ==
    ASSUME IInv, TInv, Listing(snapshots), UNCHANGED analyses, Next
    PROVE  TInv'
<1>1. ASSUME NEW c \in Clients, RequestFails(c) PROVE TInv'
  <2>1. UNCHANGED <<truth, events, head, delivered, repo, mapping, snapshots>> /\ Answered(c)
    BY <1>1 DEF RequestFails, provider
  <2>2. RequestsProper'
    BY <2>1, RequestAnswered DEF TInv
  <2> QED BY <2>1, <2>2 DEF TInv
<1>2. GitHub => TInv'
  BY GitHubTypes
<1>3. ASSUME NEW n \in DOMAIN events, Webhook(n) PROVE TInv'
  BY <1>3, WebhookTypes
<1>4. ASSUME NEW s \in Services, NEW r \in Repos, MapService(s, r) PROVE TInv'
  BY <1>4, MapServiceTypes
<1>5. ASSUME NEW c \in Clients, NEW i \in Installations, SyncBegin(c, i) PROVE TInv'
  BY <1>5, SyncBeginTypes
<1>6. ASSUME NEW c \in Clients, SyncPage(c) PROVE TInv'
  BY <1>6, SyncPageTypes
<1>7. ASSUME NEW c \in Clients, SyncPersist(c) PROVE TInv'
  BY <1>7, SyncPersistTypes
<1>8. ASSUME NEW c \in Clients, NEW r \in Repos, SnapshotBegin(c, r) PROVE TInv'
  BY <1>8, SnapshotTypes
<1>9. ASSUME NEW c \in Clients, SnapshotRead(c) PROVE TInv'
  BY <1>9, SnapshotTypes
<1>10. ASSUME NEW c \in Clients, SnapshotPersist(c) PROVE TInv'
  BY <1>10, SnapshotTypes
<1> QED BY <1>1, <1>2, <1>3, <1>4, <1>5, <1>6, <1>7, <1>8, <1>9, <1>10 DEF Next

\* The newest snapshot a service is bound to, when there is one.
LEMMA NewestIsBound ==
    ASSUME Listing(snapshots), NEW s, Newest(s) # None
    PROVE  Newest(s) \in DOMAIN snapshots /\ Newest(s) \in Nat /\ Bound(s, Newest(s))
<1> DEFINE K == {k \in DOMAIN snapshots : Bound(s, k)}
<1>1. DOMAIN snapshots = 1..Len(snapshots) /\ Len(snapshots) \in Nat
  BY DEF Listing
<1>2. IsFiniteSet(1..Len(snapshots))
  BY <1>1, FS_Interval
<1>3. K \in SUBSET (1..Len(snapshots)) /\ K \in SUBSET Nat
  BY <1>1
<1>4. K # {} /\ Newest(s) = Max(K)
  BY DEF Newest
<1>5. \A k \in K : k \in DOMAIN snapshots /\ k \in Nat /\ Bound(s, k)
  BY <1>1
<1> HIDE DEF K
<1>6. IsFiniteSet(K)
  BY <1>2, <1>3, FS_Subset
<1>7. Max(K) \in K
  BY <1>3, <1>4, <1>6, Greatest
<1> QED BY <1>4, <1>5, <1>7

LEMMA AnalysisRequest ==
    ASSUME NEW q \in Requests, NEW kind \in {"diagnosis", "preview"}, NEW s \in Services,
           NEW k \in Nat, NEW a \in Nat, NEW r \in Repos, NEW i \in Installations \cup {None}
    PROVE  [q EXCEPT !.kind = kind, !.phase = "reading", !.service = s, !.snapshot = k,
                     !.analysis = a, !.repo = r, !.inst = i] \in Requests
BY DEF Requests

LEMMA BeginTypes ==
    ASSUME IInv, TInv, UNCHANGED <<truth, events, head, delivered, repo, mapping, snapshots, analyses>>,
           NEW c \in Clients, NEW kind \in {"diagnosis", "preview"}, NEW s \in Services,
           NEW k \in Nat, NEW a \in Nat, mapping[s] # None, Begin(c, kind, s, k, a)
    PROVE  TInv'
<1> DEFINE q == [NoRequest EXCEPT
                  !.kind = kind, !.phase = "reading", !.service = s, !.snapshot = k, !.analysis = a,
                  !.repo = mapping[s], !.inst = repo[mapping[s]].inst]
<1>1. req' = [req EXCEPT ![c] = q]
  BY DEF Begin
<1>2. mapping[s] \in Repos
  BY DEF TInv
<1>3. repo[mapping[s]].inst \in Installations \cup {None}
  BY <1>2 DEF IInv, RowsOK, Table
<1>4. q \in Requests
  BY <1>2, <1>3, NoRequestProper, AnalysisRequest DEF Proper
<1>5. q.kind = kind /\ q.service = s
  BY DEF NoRequest
<1> HIDE DEF q
<1>6. Proper(q, truth, Len(events))
  BY <1>4, <1>5 DEF Proper
<1>7. RequestsProper'
  BY <1>1, <1>6, RequestMoves DEF TInv
<1> QED BY <1>7 DEF TInv

LEMMA PhaseTypes ==
    ASSUME IInv, TInv, UNCHANGED <<truth, events, head, delivered, repo, mapping, snapshots, analyses>>,
           NEW c \in Clients, req[c].kind \in {"diagnosis", "preview"},
           NEW phase \in {"read", "checked", "asked"}, req' = [req EXCEPT ![c].phase = phase]
    PROVE  TInv'
<1> DEFINE q == [req[c] EXCEPT !.phase = phase]
<1>1. req' = [req EXCEPT ![c] = q]
  OBVIOUS
<1>2. req[c] \in Requests /\ Proper(req[c], truth, Len(events))
  BY DEF TInv, RequestsProper
<1>3. q \in Requests /\ q.kind = req[c].kind /\ q.service = req[c].service
  BY <1>2 DEF Requests
<1> HIDE DEF q
<1>4. Proper(q, truth, Len(events))
  BY <1>2, <1>3 DEF Proper
<1>5. RequestsProper'
  BY <1>1, <1>4, RequestMoves DEF TInv
<1> QED BY <1>5 DEF TInv

LEMMA AnswerTypes ==
    ASSUME IInv, TInv, UNCHANGED <<truth, events, head, delivered, repo, mapping, snapshots, analyses>>,
           NEW c \in Clients, Answered(c)
    PROVE  TInv'
<1>1. RequestsProper'
  BY RequestAnswered DEF TInv
<1> QED BY <1>1 DEF TInv

LEMMA TypesStep ==
    IInv /\ GInv /\ TInv /\ [AnalysisNext]_allVars => TInv'
<1> SUFFICES ASSUME IInv, GInv, TInv, [AnalysisNext]_allVars PROVE TInv'
  OBVIOUS
<1>1. Listing(snapshots) /\ Listing(analyses) /\ AnalysesOK(analyses, snapshots)
  BY DEF GInv
<1>2. CASE Next /\ UNCHANGED analyses
  BY <1>1, <1>2, ConnectionTypes
<1>3. ASSUME NEW c \in Clients, NEW s \in Services, DiagnosisBegin(c, s) PROVE TInv'
  <2>1. Newest(s) \in Nat /\ mapping[s] # None
    BY <1>1, <1>3, NewestIsBound DEF DiagnosisBegin, Bound
  <2>2. /\ UNCHANGED <<truth, events, head, delivered, repo, mapping, snapshots, analyses>>
        /\ Begin(c, "diagnosis", s, Newest(s), None) /\ None \in Nat
    BY <1>3 DEF DiagnosisBegin, provider
  <2> QED BY <2>1, <2>2, BeginTypes
<1>4. ASSUME NEW c \in Clients, SourceRead(c) PROVE TInv'
  BY <1>4, PhaseTypes DEF SourceRead, provider
<1>11. ASSUME NEW c \in Clients, BindingRecheck(c) PROVE TInv'
  BY <1>11, PhaseTypes, AnswerTypes DEF BindingRecheck, provider
<1>5. ASSUME NEW c \in Clients, DiagnosisAsk(c) PROVE TInv'
  BY <1>5, PhaseTypes DEF DiagnosisAsk, provider, In
<1>6. ASSUME NEW c \in Clients, DiagnosisPersist(c) PROVE TInv'
  <2> DEFINE q == req[c]
  <2>1. /\ UNCHANGED <<truth, events, head, delivered, repo, mapping, snapshots>>
        /\ Answered(c) /\ q.kind = "diagnosis"
    BY <1>6 DEF DiagnosisPersist, provider, In
  <2>2. q.service \in Services
    BY <2>1 DEF TInv, RequestsProper, Proper
  <2>3. RequestsProper'
    BY <2>1, RequestAnswered DEF TInv
  <2>4. ServicesOK(analyses')
    <3>1. CASE UNCHANGED analyses
      BY <3>1 DEF TInv
    <3>2. CASE \E result : analyses' = Append(analyses, Analysis(q, result))
      <4>1. PICK result : analyses' = Append(analyses, Analysis(q, result))
        BY <3>2
      <4>2. Analysis(q, result).service = q.service
        BY DEF Analysis
      <4> HIDE DEF q
      <4>3. /\ DOMAIN analyses' = DOMAIN analyses \cup {Len(analyses) + 1}
            /\ \A k \in DOMAIN analyses : analyses'[k] = analyses[k]
            /\ analyses'[Len(analyses) + 1] = Analysis(q, result)
        BY <1>1, <4>1, AppendGrows
      <4> QED BY <2>2, <4>2, <4>3 DEF TInv, ServicesOK
    <3> QED BY <1>6, <3>1, <3>2 DEF DiagnosisPersist
  <2> QED BY <2>1, <2>3, <2>4 DEF TInv
<1>7. ASSUME NEW c \in Clients, PreviewAsk(c) PROVE TInv'
  BY <1>7, PhaseTypes, AnswerTypes DEF PreviewAsk, provider, In
<1>8. ASSUME NEW c \in Clients, NEW a \in DOMAIN analyses, PreviewBegin(c, a) PROVE TInv'
  <2> DEFINE s == analyses[a].service
             k == analyses[a].snapshot
  <2>1. s \in Services /\ k \in DOMAIN snapshots
    BY <1>1 DEF TInv, ServicesOK, AnalysesOK, AnalysisOK
  <2>2. k \in Nat /\ a \in Nat
    BY <1>1, <2>1 DEF Listing
  <2>3. /\ UNCHANGED <<truth, events, head, delivered, repo, mapping, snapshots, analyses>>
        /\ Begin(c, "preview", s, k, a) /\ mapping[s] # None
    BY <1>8 DEF PreviewBegin, provider, Bound
  <2> HIDE DEF s, k
  <2> QED BY <2>1, <2>2, <2>3, BeginTypes
<1>9. ASSUME NEW c \in Clients, PreviewAnswer(c) PROVE TInv'
  BY <1>9, AnswerTypes DEF PreviewAnswer, provider
<1>10. CASE UNCHANGED allVars
  BY <1>10 DEF allVars, vars, analysisVars, TInv, RequestsProper
<1> QED BY <1>2, <1>3, <1>4, <1>5, <1>6, <1>7, <1>8, <1>9, <1>10, <1>11
        DEF AnalysisNext, AnalysisAction

\* Every column, request and webhook has its type, a commit of a repository is
\* snapshotted once, and what is selected has an installation.
THEOREM TypesAreKept == AnalysisSpec => []TypeOK
<1>1. IInv /\ TInv => TypeOK
  <2> SUFFICES ASSUME IInv, TInv PROVE TypeOK
    OBVIOUS
  <2>1. \A r \in Repos : repo[r].selected => repo[r].inst # None
    BY DEF IInv, Bindings
  <2>2. req \in [Clients -> Requests]
    BY DEF TInv, RequestsProper
  <2> QED BY <2>1, <2>2 DEF TypeOK, IInv, TInv, TruthOK, Grant, EventsOK, RowsOK, RevokedOK,
                            RowTable, OncePerCommit
<1> QED BY <1>1, ConnectionInit, AnalysisStep, GroundedInit, GroundedStep, TypesInit, TypesStep, PTL
        DEF AnalysisSpec

-----------------------------------------------------------------------------
(* Source is used only while the service is bound *)

\* The repository a diagnosis or a preview reads is that of its snapshot.
PinnedOK ==
    \A c \in Clients : req[c].kind \in {"diagnosis", "preview"} =>
        req[c].snapshot \in DOMAIN snapshots /\ snapshots[req[c].snapshot].repo = req[c].repo

\* A request that has passed the recheck was bound at some moment since its
\* source was read, and so is one that is bound now.
Witnesses ==
    \A c \in Clients :
        HasSource(c) /\ (req[c].phase = "checked" \/ Bound(req[c].service, req[c].snapshot))
        => c \in current

\* What a step does to a request on its way to a model.
Advances(c) ==
    \/ Quiet(c)
    \/ HasSource(c) /\ Bound(req[c].service, req[c].snapshot) /\ req'[c].phase = "checked"
    \/ HasSource(c) /\ req[c].phase = "checked" /\ req'[c].phase = "asked"

\* What a step stores, if anything.
StoresBound ==
    analyses' # analyses
    => LET a == Last(analyses')
       IN  /\ Bound(a.service, a.snapshot)
           /\ \E c \in Clients : In(c, "diagnosis", "asked") /\ a.repo = req[c].repo

\* What SourceUsedOnlyWhileBound says of one step.
UsedWhileBound ==
    /\ \A c \in Clients : req[c].phase # "asked" /\ req'[c].phase = "asked" => c \in current
    /\ StoresBound

LEMMA PinnedInit == AnalysisInit => PinnedOK /\ Witnesses
<1> SUFFICES ASSUME AnalysisInit PROVE PinnedOK /\ Witnesses
  OBVIOUS
<1>1. \A c \in Clients : req[c] = NoRequest
  BY DEF AnalysisInit, Init
<1> QED BY <1>1, NoRequestOK DEF PinnedOK, Witnesses, HasSource

LEMMA PinnedStep ==
    IInv /\ GInv /\ PinnedOK /\ [AnalysisNext]_allVars => PinnedOK'
<1> SUFFICES ASSUME IInv, GInv, PinnedOK, [AnalysisNext]_allVars PROVE PinnedOK'
  OBVIOUS
<1>1. DOMAIN req = Clients /\ \A c \in Clients : DOMAIN req[c] = Fields
  BY DEF IInv, RequestsOK, RequestOK
<1>2. ASSUME Grows(snapshots, snapshots'), \A c \in Clients : KeepsAnalysis(c) PROVE PinnedOK'
  <2>1. /\ DOMAIN snapshots \subseteq DOMAIN snapshots'
        /\ \A k \in DOMAIN snapshots : snapshots'[k] = snapshots[k]
    BY <1>2, GrownListing DEF GInv
  <2> QED BY <1>2, <2>1 DEF PinnedOK, KeepsAnalysis
<1>3. ASSUME UNCHANGED snapshots, \A c \in Clients : KeepsAnalysis(c) PROVE PinnedOK'
  BY <1>2, <1>3 DEF Grows
<1>4. ASSUME NEW c \in Clients, NEW kind, NEW s, NEW k, NEW a, Begin(c, kind, s, k, a), Bound(s, k),
             UNCHANGED snapshots
      PROVE  PinnedOK'
  <2> DEFINE q == [NoRequest EXCEPT
                  !.kind = kind, !.phase = "reading", !.service = s, !.snapshot = k, !.analysis = a,
                  !.repo = mapping[s], !.inst = repo[mapping[s]].inst]
  <2>1. req' = [req EXCEPT ![c] = q]
    BY <1>4 DEF Begin
  <2>2. q.snapshot = k /\ q.repo = mapping[s]
    BY DEF NoRequest
  <2>3. k \in DOMAIN snapshots /\ snapshots[k].repo = mapping[s]
    BY <1>4 DEF Bound
  <2> HIDE DEF q
  <2> QED BY <1>1, <1>4, <2>1, <2>2, <2>3 DEF PinnedOK
<1>5. CASE Next
  <2>1. \A c \in Clients : KeepsAnalysis(c)
    BY <1>5, ConnectionIsPassive DEF Passive, KeepsAnalysis
  <2> QED BY <1>2, <1>5, <2>1, SnapshotsGrow
<1>6. ASSUME NEW c \in Clients, NEW s \in Services, DiagnosisBegin(c, s) PROVE PinnedOK'
  <2>1. Bound(s, Newest(s))
    BY <1>6, NewestIsBound DEF DiagnosisBegin, GInv
  <2> QED BY <1>4, <1>6, <2>1 DEF DiagnosisBegin
<1>7. ASSUME NEW c \in Clients, SourceRead(c) PROVE PinnedOK'
  BY <1>1, <1>3, <1>7, PhaseKeeps DEF SourceRead
<1>8. ASSUME NEW c \in Clients, BindingRecheck(c) PROVE PinnedOK'
  BY <1>1, <1>3, <1>8, PhaseKeeps, AnswerKeeps DEF BindingRecheck
<1>9. ASSUME NEW c \in Clients, DiagnosisAsk(c) PROVE PinnedOK'
  BY <1>1, <1>3, <1>9, PhaseKeeps DEF DiagnosisAsk
<1>10. ASSUME NEW c \in Clients, DiagnosisPersist(c) PROVE PinnedOK'
  BY <1>1, <1>3, <1>10, AnswerKeeps DEF DiagnosisPersist
<1>11. ASSUME NEW c \in Clients, PreviewAsk(c) PROVE PinnedOK'
  BY <1>1, <1>3, <1>11, PhaseKeeps, AnswerKeeps DEF PreviewAsk
<1>12. ASSUME NEW c \in Clients, NEW a \in DOMAIN analyses, PreviewBegin(c, a) PROVE PinnedOK'
  BY <1>4, <1>12 DEF PreviewBegin
<1>13. ASSUME NEW c \in Clients, PreviewAnswer(c) PROVE PinnedOK'
  BY <1>1, <1>3, <1>13, AnswerKeeps DEF PreviewAnswer
<1>14. CASE UNCHANGED allVars
  BY <1>14 DEF allVars, vars, PinnedOK
<1> QED BY <1>5, <1>6, <1>7, <1>8, <1>9, <1>10, <1>11, <1>12, <1>13, <1>14
        DEF AnalysisNext, AnalysisAction

\* A request comes to a model in two steps, and the first is the recheck.
LEMMA RequestsAdvance ==
    ASSUME IInv, [AnalysisNext]_allVars
    PROVE  \A c \in Clients : Advances(c)
<1>1. DOMAIN req = Clients /\ \A c \in Clients : DOMAIN req[c] = Fields
  BY DEF IInv, RequestsOK, RequestOK
<1>2. ASSUME \A c \in Clients : Quiet(c) PROVE \A c \in Clients : Advances(c)
  BY <1>2 DEF Advances
<1>3. ASSUME NEW c \in Clients, Answered(c) PROVE \A d \in Clients : Quiet(d)
  BY <1>1, <1>3 DEF Answered, Quiet, NoRequest
<1>4. ASSUME NEW c \in Clients, NEW kind, NEW s, NEW k, NEW a, Begin(c, kind, s, k, a)
      PROVE  \A d \in Clients : Quiet(d)
  <2> DEFINE q == [NoRequest EXCEPT
                  !.kind = kind, !.phase = "reading", !.service = s, !.snapshot = k, !.analysis = a,
                  !.repo = mapping[s], !.inst = repo[mapping[s]].inst]
  <2>1. req' = [req EXCEPT ![c] = q]
    BY <1>4 DEF Begin
  <2>2. q.phase = "reading"
    BY DEF NoRequest
  <2> HIDE DEF q
  <2> QED BY <1>1, <2>1, <2>2 DEF Quiet
<1>5. ASSUME NEW c \in Clients, HasSource(c), NEW phase, req' = [req EXCEPT ![c].phase = phase],
             \/ phase = "checked" /\ Bound(req[c].service, req[c].snapshot)
             \/ phase = "asked" /\ req[c].phase = "checked"
      PROVE  \A d \in Clients : Advances(d)
  <2>1. (\A d \in Clients \ {c} : req'[d] = req[d]) /\ req'[c].phase = phase
    BY <1>1, <1>5, PhaseMoves
  <2> QED BY <1>5, <2>1 DEF Advances, Quiet
<1>6. CASE Next
  BY <1>2, <1>6, ConnectionIsPassive DEF Passive, Quiet
<1>7. ASSUME NEW c \in Clients, SourceRead(c) PROVE \A d \in Clients : Quiet(d)
  <2>1. req' = [req EXCEPT ![c].phase = "read"]
    BY <1>7 DEF SourceRead
  <2> QED BY <1>1, <2>1, PhaseMoves DEF Quiet
<1>8. ASSUME NEW c \in Clients, BindingRecheck(c) PROVE \A d \in Clients : Advances(d)
  <2>1. HasSource(c)
    BY <1>8 DEF BindingRecheck, HasSource
  <2>2. Answered(c) \/ (req' = [req EXCEPT ![c].phase = "checked"] /\ Bound(req[c].service, req[c].snapshot))
    BY <1>8 DEF BindingRecheck, Recheck
  <2> QED BY <1>2, <1>3, <1>5, <2>1, <2>2
<1>9. ASSUME NEW c \in Clients, DiagnosisAsk(c) \/ PreviewAsk(c) PROVE \A d \in Clients : Advances(d)
  <2>1. HasSource(c) /\ req[c].phase = "checked"
    BY <1>9 DEF DiagnosisAsk, PreviewAsk, HasSource, In
  <2>2. Answered(c) \/ req' = [req EXCEPT ![c].phase = "asked"]
    BY <1>9 DEF DiagnosisAsk, PreviewAsk
  <2> QED BY <1>2, <1>3, <1>5, <2>1, <2>2
<1>10. ASSUME NEW c \in Clients, DiagnosisPersist(c) \/ PreviewAnswer(c)
       PROVE  \A d \in Clients : Quiet(d)
  BY <1>3, <1>10 DEF DiagnosisPersist, PreviewAnswer
<1>11. ASSUME NEW c \in Clients, NEW s \in Services, DiagnosisBegin(c, s)
       PROVE  \A d \in Clients : Quiet(d)
  BY <1>4, <1>11 DEF DiagnosisBegin
<1>12. ASSUME NEW c \in Clients, NEW a \in DOMAIN analyses, PreviewBegin(c, a)
       PROVE  \A d \in Clients : Quiet(d)
  BY <1>4, <1>12 DEF PreviewBegin
<1>13. CASE UNCHANGED allVars
  BY <1>2, <1>13 DEF allVars, vars, Quiet
<1> QED BY <1>2, <1>6, <1>7, <1>8, <1>9, <1>10, <1>11, <1>12, <1>13 DEF AnalysisNext, AnalysisAction

LEMMA WitnessesStep ==
    IInv /\ Witnesses /\ [AnalysisNext]_allVars => Witnesses'
<1> SUFFICES ASSUME IInv, Witnesses, [AnalysisNext]_allVars, NEW c \in Clients, HasSource(c)',
                    (req[c].phase = "checked" \/ Bound(req[c].service, req[c].snapshot))'
             PROVE  c \in current'
  BY DEF Witnesses
<1>1. CASE UNCHANGED allVars
  BY <1>1 DEF allVars, vars, analysisVars, Witnesses, HasSource, Bound, ActiveSelected
<1>2. CASE AnalysisNext
  <2>1. current' = {d \in Clients :
                      HasSource(d)' /\ (d \in current \/ Bound(req[d].service, req[d].snapshot)')}
    BY <1>2 DEF AnalysisNext, Witnessed
  <2>2. CASE Bound(req[c].service, req[c].snapshot)'
    BY <2>1, <2>2
  <2>3. CASE req'[c].phase = "checked"
    <3>1. Advances(c)
      BY RequestsAdvance
    <3>2. HasSource(c) /\ (req[c].phase = "checked" \/ Bound(req[c].service, req[c].snapshot))
      BY <2>3, <3>1 DEF Advances, Quiet, HasSource
    <3>3. c \in current
      BY <3>2 DEF Witnesses
    <3> QED BY <2>1, <3>3
  <2> QED BY <2>2, <2>3
<1> QED BY <1>1, <1>2

LEMMA OnlyBoundIsStored ==
    ASSUME GInv, PinnedOK, [AnalysisNext]_allVars
    PROVE  StoresBound
<1>1. CASE UNCHANGED analyses
  BY <1>1 DEF StoresBound
<1>2. ASSUME NEW c \in Clients, DiagnosisPersist(c) PROVE StoresBound
  <2> DEFINE q == req[c]
             row(answer) == Analysis(q, Result(ExcerptsFor(q.snapshot), answer))
  <2>1. CASE ~StillBound(q)
    BY <1>1, <1>2, <2>1 DEF DiagnosisPersist
  <2>2. CASE StillBound(q)
    <3>1. PICK answer \in Answers : analyses' = Append(analyses, row(answer))
      BY <1>2, <2>2 DEF DiagnosisPersist
    <3>2. /\ row(answer).service = q.service /\ row(answer).snapshot = q.snapshot
          /\ row(answer).repo = mapping[q.service]
      BY DEF Analysis
    <3> HIDE DEF row
    <3>3. Last(analyses') = row(answer)
      BY <3>1, AppendGrows DEF GInv
    <3>4. Bound(q.service, q.snapshot) /\ snapshots[q.snapshot].repo = mapping[q.service]
      BY <2>2 DEF StillBound, Bound
    <3>5. In(c, "diagnosis", "asked") /\ snapshots[q.snapshot].repo = q.repo
      BY <1>2 DEF DiagnosisPersist, In, PinnedOK
    <3> QED BY <3>2, <3>3, <3>4, <3>5 DEF StoresBound
  <2> QED BY <2>1, <2>2
<1> QED BY <1>1, <1>2 DEF AnalysisNext, AnalysisAction, DiagnosisBegin, SourceRead, BindingRecheck,
                          DiagnosisAsk, PreviewAsk, PreviewBegin, PreviewAnswer, allVars, analysisVars

LEMMA AnalysisUsesWhileBound ==
    IInv /\ GInv /\ PinnedOK /\ Witnesses /\ [AnalysisNext]_allVars => UsedWhileBound
<1> SUFFICES ASSUME IInv, GInv, PinnedOK, Witnesses, [AnalysisNext]_allVars PROVE UsedWhileBound
  OBVIOUS
<1>1. ASSUME NEW c \in Clients, req[c].phase # "asked", req'[c].phase = "asked" PROVE c \in current
  <2>1. Advances(c)
    BY RequestsAdvance
  <2>2. HasSource(c) /\ req[c].phase = "checked"
    BY <1>1, <2>1 DEF Advances, Quiet
  <2> QED BY <2>2 DEF Witnesses
<1> QED BY <1>1, OnlyBoundIsStored DEF UsedWhileBound

\* Source goes to a model only if the service was bound to the snapshot at some
\* moment after the last of it was read, and an analysis is stored only while
\* it is, under the repository its source was read from: whatever webhooks and
\* mappings are handled between the steps of a request (the two rechecks).
THEOREM SourceGoesOutWhileBound == AnalysisSpec => SourceUsedOnlyWhileBound
<1>1. UsedWhileBound =>
        [/\ \A c \in Clients : req[c].phase # "asked" /\ req'[c].phase = "asked" => c \in current
         /\ analyses' # analyses
            => LET a == Last(analyses')
               IN  /\ Bound(a.service, a.snapshot)
                   /\ \E c \in Clients : In(c, "diagnosis", "asked") /\ a.repo = req[c].repo]_allVars
  BY DEF UsedWhileBound, StoresBound
<1> QED BY <1>1, AnalysisUsesWhileBound, ConnectionInit, AnalysisStep, GroundedInit, GroundedStep,
           PinnedInit, PinnedStep, WitnessesStep, PTL DEF AnalysisSpec, SourceUsedOnlyWhileBound

-----------------------------------------------------------------------------
(* The end of a sync *)

LEMMA OnlyPersistEnds ==
    ASSUME IInv, [AnalysisNext]_allVars, NEW c \in Clients, In(c, "sync", "read"),
           req'[c] = NoRequest
    PROVE  SyncPersist(c)
<1>1. DOMAIN req = Clients
  BY DEF IInv, RequestsOK
<1>2. req'[c] # req[c]
  BY NoRequestOK DEF In
<1>3. ASSUME NEW d \in Clients, NEW q, req' = [req EXCEPT ![d] = q] PROVE d = c
  BY <1>1, <1>2, <1>3
<1>4. ASSUME NEW d \in Clients, Answered(d) PROVE d = c
  BY <1>3, <1>4 DEF Answered
<1>5. ASSUME NEW d \in Clients, NEW phase, req' = [req EXCEPT ![d].phase = phase] PROVE d = c
  BY <1>1, <1>2, <1>5
<1>6. ASSUME Next PROVE SyncPersist(c)
  <2>1. GitHub => req' = req
    BY GitHubWritesItsOwn
  <2>2. \A n \in DOMAIN events : Webhook(n) => req' = req
    BY DEF Webhook
  <2>3. \A s \in Services, r \in Repos : MapService(s, r) => req' = req
    BY DEF MapService
  <2>4. ASSUME NEW d \in Clients, NEW i \in Installations, SyncBegin(d, i) PROVE FALSE
    BY <1>3, <2>4 DEF SyncBegin, Idle, In
  <2>5. ASSUME NEW d \in Clients, SyncPage(d) PROVE FALSE
    BY <1>3, <1>4, <2>5, SyncPageCases DEF In
  <2>6. ASSUME NEW d \in Clients, SyncPersist(d) PROVE d = c
    BY <1>4, <2>6 DEF SyncPersist
  <2>7. ASSUME NEW d \in Clients, NEW r \in Repos, SnapshotBegin(d, r) PROVE FALSE
    BY <1>3, <2>7 DEF SnapshotBegin, Idle, In
  <2>8. ASSUME NEW d \in Clients, SnapshotRead(d) PROVE FALSE
    BY <1>3, <1>4, <2>8 DEF SnapshotRead, In
  <2>9. ASSUME NEW d \in Clients, SnapshotPersist(d) PROVE FALSE
    BY <1>4, <2>9 DEF SnapshotPersist, In
  <2>10. ASSUME NEW d \in Clients, RequestFails(d) PROVE FALSE
    BY <1>4, <2>10 DEF RequestFails, In
  <2> QED BY <1>2, <1>6, <2>1, <2>2, <2>3, <2>4, <2>5, <2>6, <2>7, <2>8, <2>9, <2>10 DEF Next
<1>7. ASSUME NEW d \in Clients, NEW s \in Services, DiagnosisBegin(d, s) PROVE FALSE
  BY <1>3, <1>7 DEF DiagnosisBegin, Begin, Idle, In
<1>8. ASSUME NEW d \in Clients, SourceRead(d) PROVE FALSE
  BY <1>5, <1>8 DEF SourceRead, In
<1>15. ASSUME NEW d \in Clients, BindingRecheck(d) PROVE FALSE
  BY <1>4, <1>5, <1>15 DEF BindingRecheck, In
<1>9. ASSUME NEW d \in Clients, DiagnosisAsk(d) PROVE FALSE
  BY <1>5, <1>9 DEF DiagnosisAsk, In
<1>10. ASSUME NEW d \in Clients, DiagnosisPersist(d) PROVE FALSE
  BY <1>4, <1>10 DEF DiagnosisPersist, In
<1>11. ASSUME NEW d \in Clients, PreviewAsk(d) PROVE FALSE
  BY <1>4, <1>5, <1>11 DEF PreviewAsk, In
<1>12. ASSUME NEW d \in Clients, NEW a \in DOMAIN analyses, PreviewBegin(d, a) PROVE FALSE
  BY <1>3, <1>12 DEF PreviewBegin, Begin, Idle, In
<1>13. ASSUME NEW d \in Clients, PreviewAnswer(d) PROVE FALSE
  BY <1>4, <1>13 DEF PreviewAnswer, In
<1>14. CASE UNCHANGED allVars
  BY <1>2, <1>14 DEF allVars, vars
<1> QED BY <1>6, <1>7, <1>8, <1>9, <1>10, <1>11, <1>12, <1>13, <1>14, <1>15
        DEF AnalysisNext, AnalysisAction

\* What SyncIsExact says of one step.
EndsExact ==
    \A c \in Clients :
        (/\ In(c, "sync", "read") /\ req'[c] = NoRequest
         /\ req[c].since = Len(events)
         /\ inst[req[c].inst].status = "active" /\ inst[req[c].inst].revision = req[c].revision)
        => {r \in Repos : repo'[r].selected /\ repo'[r].inst = req[c].inst} = Granted(req[c].inst)

LEMMA SyncEndsExact == IInv /\ TInv /\ [AnalysisNext]_allVars => EndsExact
<1> SUFFICES ASSUME IInv, TInv, [AnalysisNext]_allVars, NEW c \in Clients,
                    In(c, "sync", "read"), req'[c] = NoRequest, req[c].since = Len(events),
                    inst[req[c].inst].status = "active",
                    inst[req[c].inst].revision = req[c].revision
             PROVE  {r \in Repos : repo'[r].selected /\ repo'[r].inst = req[c].inst}
                      = Granted(req[c].inst)
  BY DEF EndsExact
<1> DEFINE q == req[c]
           S == Granted(q.inst)
<1>1. SyncPersist(c)
  BY OnlyPersistEnds
<1>2. repo' = Listed(q.inst, ToSet(q.listing))
  BY <1>1 DEF SyncPersist, SyncAccepted
<1>3. q.inst \in Installations /\ ExactOK(q, truth, Len(events))
  BY DEF In, IInv, RequestsOK, RequestOK, SyncOK, TInv, RequestsProper, Proper
<1>4. S \in SUBSET Repos /\ S \in SUBSET Nat /\ IsFiniteSet(S)
  BY <1>3, GrantedOK
<1>5. q.listing = InListing(S)
  BY <1>3 DEF In, ExactOK, ReadOK, Granted
<1>6. ToSet(q.listing) = S
  BY <1>4, <1>5, ListingIsWhole
<1> HIDE DEF q, S
<1> DEFINE rows == Deselected(repo, q.inst, Repos)
<1>7. /\ DOMAIN repo = Repos
      /\ \A r \in Repos : DOMAIN repo[r] = {"inst", "selected"}
  BY DEF IInv, RowsOK, Table
<1>8. \A r \in Repos : rows[r].selected => rows[r].inst # q.inst
  BY <1>7 DEF Deselected
<1> HIDE DEF rows
<1>9. \A r \in Repos : repo'[r] = IF r \in S
                                  THEN [inst |-> q.inst, selected |-> TRUE]
                                  ELSE rows[r]
  BY <1>2, <1>6 DEF Listed, upsert_repository, rows
<1>10. {r \in Repos : repo'[r].selected /\ repo'[r].inst = q.inst} = S
  <2>1. \A r \in S : repo'[r].selected /\ repo'[r].inst = q.inst
    <3> SUFFICES ASSUME NEW r \in S PROVE repo'[r].selected /\ repo'[r].inst = q.inst
      OBVIOUS
    <3>1. repo'[r] = [inst |-> q.inst, selected |-> TRUE]
      BY <1>4, <1>9
    <3> QED BY <3>1
  <2>2. \A r \in Repos \ S : ~(repo'[r].selected /\ repo'[r].inst = q.inst)
    <3> SUFFICES ASSUME NEW r \in Repos \ S PROVE ~(repo'[r].selected /\ repo'[r].inst = q.inst)
      OBVIOUS
    <3>1. repo'[r] = rows[r]
      BY <1>9
    <3> QED BY <1>8, <3>1, Zenon
  <2> QED BY <1>4, <2>1, <2>2
<1> QED BY <1>10 DEF q, S

\* A sync under which GitHub's grants did not move leaves exactly what GitHub
\* grants selected, however many pages it read and whatever was lost before.
THEOREM SyncsAreExact == AnalysisSpec => SyncIsExact
<1>1. EndsExact =>
        [\A c \in Clients :
          (/\ In(c, "sync", "read") /\ req'[c] = NoRequest
           /\ req[c].since = Len(events)
           /\ inst[req[c].inst].status = "active" /\ inst[req[c].inst].revision = req[c].revision)
          => {r \in Repos : repo'[r].selected /\ repo'[r].inst = req[c].inst} = Granted(req[c].inst)]_vars
  BY DEF EndsExact
<1> QED BY <1>1, SyncEndsExact, ConnectionInit, AnalysisStep, GroundedInit, GroundedStep,
           TypesInit, TypesStep, PTL DEF AnalysisSpec, SyncIsExact

-----------------------------------------------------------------------------
(* Smallest counterexamples *)

FirstOf(S) == CHOOSE x \in S : TRUE

LEMMA FirstNat ==
    ASSUME NEW Bounds \in SUBSET Nat, Bounds # {}
    PROVE  \E n \in Bounds : \A m \in Bounds : n <= m
<1> DEFINE Less == OpToRel(<, Nat)
<1>1. IsWellFoundedOn(Less, Nat)
  BY NatLessThanWellFounded
<1>2. \E n \in Bounds : \A m \in Bounds : ~(<<m, n>> \in Less)
  BY <1>1, WFMin
<1>3. PICK n \in Bounds : \A m \in Bounds : ~(m < n)
  BY <1>2 DEF OpToRel
<1>4. ASSUME NEW m \in Bounds PROVE n <= m
  <2>1. m \in Nat /\ n \in Nat /\ ~(m < n)
    BY <1>3
  <2> QED BY <2>1
<1> QED BY <1>4

\* A non-empty set of finite sets has a smallest one.
LEMMA SmallestSet ==
    ASSUME NEW A, IsFiniteSet(A), NEW Bad \in SUBSET (SUBSET A), Bad # {}
    PROVE  \E S \in Bad : \A x \in S : S \ {x} \notin Bad
<1> DEFINE sizes == {Cardinality(S) : S \in Bad}
<1>1. \A S \in SUBSET A : IsFiniteSet(S) /\ Cardinality(S) \in Nat
  BY FS_Subset, FS_CardinalityType
<1>2. sizes \in SUBSET Nat /\ sizes # {}
  BY <1>1
<1>3. PICK n \in sizes : \A m \in sizes : n <= m
  BY <1>2, FirstNat
<1>4. PICK S \in Bad : Cardinality(S) = n
  BY <1>3
<1>5. ASSUME NEW x \in S, S \ {x} \in Bad PROVE FALSE
  <2>1. Cardinality(S \ {x}) = n - 1 /\ n \in Nat
    BY <1>1, <1>4, FS_RemoveElement
  <2>2. n <= Cardinality(S \ {x})
    BY <1>3, <1>5
  <2> QED BY <2>1, <2>2
<1> QED BY <1>5

\* T goes through the finite sets in D one element at a time, starting at base
\* and taking the steps of a function.
Goes(T, D, base, pick, step) ==
    T = [S \in D |-> IF S = {} THEN base ELSE step[<<pick[S], T[S \ {pick[S]}]>>]]

Upto(A, n) == {S \in SUBSET A : Cardinality(S) <= n}

LEMMA IterationExists ==
    ASSUME NEW A, IsFiniteSet(A), NEW R, NEW base \in R,
           NEW pick, \A S \in SUBSET A : S # {} => pick[S] \in S,
           NEW step, \A x \in A, r \in R : step[<<x, r>>] \in R
    PROVE  \E T \in [SUBSET A -> R] : Goes(T, SUBSET A, base, pick, step)
<1> DEFINE Good(n) == \E T \in [Upto(A, n) -> R] : Goes(T, Upto(A, n), base, pick, step)
           Bad == {n \in Nat : ~Good(n)}
<1>0. \A S \in SUBSET A : /\ IsFiniteSet(S) /\ Cardinality(S) \in Nat
                          /\ S # {} => /\ pick[S] \in A /\ S \ {pick[S]} \in SUBSET A
                                       /\ Cardinality(S \ {pick[S]}) = Cardinality(S) - 1
  <2> TAKE S \in SUBSET A
  <2>1. IsFiniteSet(S)
    BY FS_Subset
  <2>2. Cardinality(S) \in Nat
    BY <2>1, FS_CardinalityType
  <2>4. S # {} => Cardinality(S \ {pick[S]}) = Cardinality(S) - 1
    BY <2>1, FS_RemoveElement
  <2> QED BY <2>1, <2>2, <2>4
<1>1. Bad = {}
  <2> SUFFICES ASSUME Bad # {} PROVE FALSE
    OBVIOUS
  <2>1. PICK n \in Bad : \A m \in Bad : n <= m
    BY FirstNat, Bad \in SUBSET Nat
  <2>2. n # 0
    <3>1. Upto(A, 0) = {{}}
      <4>1. ASSUME NEW S \in SUBSET A PROVE Cardinality(S) <= 0 <=> S = {}
        <5>1. IsFiniteSet(S) /\ Cardinality(S) \in Nat
          BY <1>0
        <5>2. Cardinality(S) = 0 <=> S = {}
          BY <5>1, FS_EmptySet
        <5> QED BY <5>1, <5>2
      <4> QED BY <4>1 DEF Upto
    <3> DEFINE T == [S \in {{}} |-> base]
    <3>2. T \in [Upto(A, 0) -> R] /\ Goes(T, Upto(A, 0), base, pick, step)
      BY <3>1 DEF Goes
    <3>3. Good(0)
      BY <3>2
    <3> QED BY <2>1, <3>3
  <2>3. n \in Nat /\ n - 1 \in Nat /\ n - 1 < n
    BY <2>1, <2>2
  <2>4. Good(n - 1) /\ ~Good(n)
    BY <2>1, <2>3
  <2> HIDE DEF Good, Bad
  <2>5. PICK T \in [Upto(A, n - 1) -> R] : Goes(T, Upto(A, n - 1), base, pick, step)
    BY <2>4 DEF Good
  <2> DEFINE U == [S \in Upto(A, n) |-> IF S = {} THEN base ELSE step[<<pick[S], T[S \ {pick[S]}]>>]]
  <2>6. \A S \in Upto(A, n - 1) : S \in Upto(A, n) /\ U[S] = T[S]
    <3> TAKE S \in Upto(A, n - 1)
    <3>1. S \in Upto(A, n)
      <4>1. S \in SUBSET A /\ Cardinality(S) <= n - 1
        BY DEF Upto
      <4>2. Cardinality(S) \in Nat
        BY <1>0, <4>1
      <4> QED BY <2>3, <4>1, <4>2 DEF Upto
    <3>2. T[S] = IF S = {} THEN base ELSE step[<<pick[S], T[S \ {pick[S]}]>>]
      BY <2>5 DEF Goes
    <3> QED BY <3>1, <3>2
  <2>7. \A S \in Upto(A, n) : S # {} => pick[S] \in A /\ S \ {pick[S]} \in Upto(A, n - 1)
    <3> SUFFICES ASSUME NEW S \in Upto(A, n), S # {}
                 PROVE  pick[S] \in A /\ S \ {pick[S]} \in Upto(A, n - 1)
      OBVIOUS
    <3>1. S \in SUBSET A /\ Cardinality(S) <= n
      BY DEF Upto
    <3>2. /\ Cardinality(S) \in Nat /\ pick[S] \in A /\ S \ {pick[S]} \in SUBSET A
          /\ Cardinality(S \ {pick[S]}) = Cardinality(S) - 1
      BY <1>0, <3>1
    <3>3. Cardinality(S \ {pick[S]}) <= n - 1
      BY <2>3, <3>1, <3>2
    <3> QED BY <3>2, <3>3 DEF Upto
  <2> DEFINE V == [S \in Upto(A, n) |-> IF S = {} THEN base ELSE step[<<pick[S], U[S \ {pick[S]}]>>]]
  <2>8. \A S \in Upto(A, n) : U[S] = V[S]
    BY <2>6, <2>7
  <2>9. U = V
    BY <2>8
  <2>10. U \in [Upto(A, n) -> R]
    <3>1. \A S \in Upto(A, n) : S # {} => T[S \ {pick[S]}] \in R
      BY <2>5, <2>7
    <3> QED BY <2>7, <3>1
  <2>11. Good(n)
    BY <2>9, <2>10 DEF Good, Goes
  <2> QED BY <2>4, <2>11
<1>2. Upto(A, Cardinality(A)) = SUBSET A
  BY FS_Subset DEF Upto
<1>3. Good(Cardinality(A))
  BY <1>0, <1>1
<1> QED BY <1>2, <1>3

-----------------------------------------------------------------------------
(* The bytes of a set of files *)

\* T adds up the sizes of the sets of files in A, as Bytes does.
Adds(T, A) ==
    T = [S \in SUBSET A |-> IF S = {} THEN 0 ELSE T[S \ {FirstOf(S)}] + Size[FirstOf(S).blob]]

Sized(A) == IsFiniteSet(A) /\ \A f \in A : Size[f.blob] \in Nat

LEMMA SumExists ==
    ASSUME NEW A, Sized(A)
    PROVE  \E T \in [SUBSET A -> Nat] : Adds(T, A)
<1> DEFINE pick == [S \in SUBSET A |-> FirstOf(S)]
           step == [p \in A \X Nat |-> p[2] + Size[p[1].blob]]
<1>1. \A S \in SUBSET A : S # {} => pick[S] \in S /\ pick[S] = FirstOf(S)
  BY DEF FirstOf
<1>2. \A x \in A, r \in Nat : step[<<x, r>>] = r + Size[x.blob] /\ step[<<x, r>>] \in Nat
  BY DEF Sized
<1> HIDE DEF pick, step
<1>3. PICK T \in [SUBSET A -> Nat] : Goes(T, SUBSET A, 0, pick, step)
  BY <1>1, <1>2, IterationExists DEF Sized
<1> DEFINE U == [S \in SUBSET A |-> IF S = {} THEN 0 ELSE T[S \ {FirstOf(S)}] + Size[FirstOf(S).blob]]
<1>4. \A S \in SUBSET A : T[S] = U[S]
  <2> TAKE S \in SUBSET A
  <2>1. T[S] = IF S = {} THEN 0 ELSE step[<<pick[S], T[S \ {pick[S]}]>>]
    BY <1>3 DEF Goes
  <2>2. CASE S = {}
    BY <2>1, <2>2
  <2>3. CASE S # {}
    <3>1. pick[S] \in A /\ T[S \ {pick[S]}] \in Nat /\ pick[S] = FirstOf(S)
      BY <1>1, <1>3, <2>3
    <3> QED BY <1>2, <2>1, <2>3, <3>1
  <2> QED BY <2>2, <2>3
<1>5. T = U
  BY <1>3, <1>4
<1> QED BY <1>5 DEF Adds

\* The smallest set that two sums differ on does not exist.
SameOn(T, U, A) == \A S \in SUBSET A : T[S] = U[S]

LEMMA SumsAgree ==
    ASSUME NEW A, NEW B, IsFiniteSet(A), A \subseteq B, NEW T, NEW U, Adds(T, A), Adds(U, B)
    PROVE  SameOn(T, U, A)
<1> DEFINE Bad == {S \in SUBSET A : T[S] # U[S]}
<1> SUFFICES ASSUME Bad # {} PROVE FALSE
  BY DEF SameOn
<1>1. PICK S \in Bad : \A x \in S : S \ {x} \notin Bad
  BY SmallestSet, Bad \in SUBSET (SUBSET A)
<1>2. /\ T[S] = IF S = {} THEN 0 ELSE T[S \ {FirstOf(S)}] + Size[FirstOf(S).blob]
      /\ U[S] = IF S = {} THEN 0 ELSE U[S \ {FirstOf(S)}] + Size[FirstOf(S).blob]
  BY DEF Adds
<1>3. S # {}
  BY <1>2
<1>4. FirstOf(S) \in S
  BY <1>3 DEF FirstOf
<1>5. S \ {FirstOf(S)} \notin Bad
  BY <1>1, <1>4
<1>6. T[S \ {FirstOf(S)}] = U[S \ {FirstOf(S)}]
  BY <1>5
<1> QED BY <1>2, <1>3, <1>6

\* One function adds up all subsets of a set.
LEMMA BytesAdd ==
    ASSUME NEW A, Sized(A)
    PROVE  \E T \in [SUBSET A -> Nat] : Adds(T, A) /\ \A S \in SUBSET A : Bytes(S) = T[S]
<1>1. PICK T \in [SUBSET A -> Nat] : Adds(T, A)
  BY SumExists
<1>2. ASSUME NEW S \in SUBSET A PROVE Bytes(S) = T[S]
  <2> DEFINE U == CHOOSE U : Adds(U, S)
  <2>1. Bytes(S) = U[S]
    BY Zenon DEF Bytes, FoldSet, MapThenFoldSet, Adds, FirstOf
  <2>2. Sized(S)
    BY FS_Subset DEF Sized
  <2>3. Adds(U, S)
    BY <2>2, SumExists
  <2> HIDE DEF U
  <2>4. IsFiniteSet(S) /\ S \subseteq A /\ S \in SUBSET S
    BY <2>2 DEF Sized
  <2>5. U[S] = T[S]
    <3>1. SameOn(U, T, S)
      BY <1>1, <2>3, <2>4, SumsAgree
    <3> QED BY <2>4, <3>1 DEF SameOn
  <2> QED BY <2>1, <2>5
<1> QED BY <1>1, <1>2

\* Whatever file is counted last.
CountsLast(T, A) == \A S \in SUBSET A : \A x \in S : T[S] = T[S \ {x}] + Size[x.blob]

LEMMA AnyLast ==
    ASSUME NEW A, Sized(A), NEW T \in [SUBSET A -> Nat], Adds(T, A)
    PROVE  CountsLast(T, A)
<1> DEFINE Bad == {S \in SUBSET A : \E x \in S : T[S] # T[S \ {x}] + Size[x.blob]}
<1> SUFFICES ASSUME Bad # {} PROVE FALSE
  BY DEF CountsLast
<1>0. Bad \in SUBSET (SUBSET A) /\ IsFiniteSet(A)
  BY DEF Sized
<1>1. PICK S \in Bad : \A x \in S : S \ {x} \notin Bad
  <2> HIDE DEF Bad
  <2> QED BY <1>0, SmallestSet
<1>2. PICK x \in S : T[S] # T[S \ {x}] + Size[x.blob]
  BY <1>1
<1> DEFINE y == FirstOf(S)
<1>3. y \in S /\ T[S] = T[S \ {y}] + Size[y.blob]
  BY <1>2 DEF FirstOf, Adds
<1>4. x # y
  BY <1>2, <1>3
<1> DEFINE R == (S \ {y}) \ {x}
<1> HIDE DEF y
<1>5. T[S \ {y}] = T[R] + Size[x.blob]
  <2>1. S \ {y} \notin Bad /\ x \in S \ {y}
    BY <1>1, <1>3, <1>4
  <2> QED BY <2>1
<1>6. T[S \ {x}] = T[R] + Size[y.blob]
  <2>1. S \ {x} \notin Bad /\ y \in S \ {x}
    BY <1>1, <1>3, <1>4
  <2>2. (S \ {x}) \ {y} = R
    OBVIOUS
  <2>3. T[S \ {x}] = T[(S \ {x}) \ {y}] + Size[y.blob]
    BY <2>1
  <2> QED BY <2>2, <2>3
<1>7. T[R] \in Nat /\ Size[x.blob] \in Nat /\ Size[y.blob] \in Nat
  BY <1>3 DEF Sized
<1> QED BY <1>2, <1>3, <1>5, <1>6, <1>7

LEMMA BytesOfNone == Bytes({}) = 0
<1>1. Sized({})
  BY FS_EmptySet DEF Sized
<1>2. PICK T \in [SUBSET {} -> Nat] : Adds(T, {}) /\ \A S \in SUBSET {} : Bytes(S) = T[S]
  BY <1>1, BytesAdd
<1> QED BY <1>2 DEF Adds

\* The bytes of one more file.
LEMMA BytesOfOneMore ==
    ASSUME NEW S, Sized(S), NEW f, f \notin S, Size[f.blob] \in Nat
    PROVE  Bytes(S) \in Nat /\ Bytes(S \cup {f}) = Bytes(S) + Size[f.blob]
<1> DEFINE A == S \cup {f}
<1>1. Sized(A)
  BY FS_AddElement DEF Sized
<1> HIDE DEF A
<1>2. PICK T \in [SUBSET A -> Nat] : Adds(T, A) /\ \A U \in SUBSET A : Bytes(U) = T[U]
  BY <1>1, BytesAdd
<1>3. CountsLast(T, A)
  BY <1>1, <1>2, AnyLast
<1>4. A \ {f} = S /\ S \in SUBSET A /\ A \in SUBSET A /\ f \in A
  BY DEF A
<1>5. T[A] = T[S] + Size[f.blob]
  BY <1>3, <1>4 DEF CountsLast
<1>6. Bytes(S) = T[S] /\ Bytes(A) = T[A] /\ T[S] \in Nat
  BY <1>2, <1>4
<1> QED BY <1>5, <1>6 DEF A

\* A larger set has at least the bytes of a smaller one.
LEMMA BytesOfMore ==
    ASSUME NEW A, Sized(A), NEW S \in SUBSET A
    PROVE  Bytes(S) \in Nat /\ Bytes(A) \in Nat /\ Bytes(S) <= Bytes(A)
<1>1. PICK T \in [SUBSET A -> Nat] : Adds(T, A) /\ \A U \in SUBSET A : Bytes(U) = T[U]
  BY BytesAdd
<1> DEFINE Bad == {U \in SUBSET A : S \subseteq U /\ ~(T[S] <= T[U])}
<1>2. Bad = {}
  <2> SUFFICES ASSUME Bad # {} PROVE FALSE
    OBVIOUS
  <2>0. Bad \in SUBSET (SUBSET A) /\ IsFiniteSet(A)
    BY DEF Sized
  <2>1. PICK U \in Bad : \A x \in U : U \ {x} \notin Bad
    <3> HIDE DEF Bad
    <3> QED BY <2>0, SmallestSet
  <2>2. T[S] \in Nat /\ T[U] \in Nat /\ S # U
    BY <2>1
  <2>3. PICK x \in U : x \notin S
    BY <2>1, <2>2
  <2>4. T[S] <= T[U \ {x}]
    BY <2>1, <2>3
  <2>5. T[U] = T[U \ {x}] + Size[x.blob]
    <3>1. CountsLast(T, A)
      BY <1>1, AnyLast
    <3> QED BY <2>1, <3>1 DEF CountsLast
  <2>6. T[U \ {x}] \in Nat /\ Size[x.blob] \in Nat
    BY <2>1 DEF Sized
  <2> QED BY <2>1, <2>2, <2>4, <2>5, <2>6
<1>3. T[S] \in Nat /\ T[A] \in Nat /\ Bytes(S) = T[S] /\ Bytes(A) = T[A]
  BY <1>1
<1> QED BY <1>2, <1>3
-----------------------------------------------------------------------------
(* The order of the files *)

Ahead(S, words, f) == {g \in S : Before(words, g, f)}
Rank(S, words, f) == Cardinality(Ahead(S, words, f))

\* Files that the order has no ties among.
Ordered(S, words) ==
    /\ Sized(S)
    /\ \A f \in S : words[f.path] \in Nat /\ PathOrder[f.path] \in Nat
    /\ \A f, g \in S : PathOrder[f.path] = PathOrder[g.path] => f = g

LEMMA BeforeIsStrict ==
    ASSUME NEW S, NEW words, Ordered(S, words), NEW f \in S, NEW g \in S
    PROVE  /\ ~Before(words, f, f)
           /\ f # g => Before(words, f, g) \/ Before(words, g, f)
           /\ \A h \in S : Before(words, h, f) /\ Before(words, f, g) => Before(words, h, g)
<1>1. \A x \in S : words[x.path] \in Nat /\ Size[x.blob] \in Nat /\ PathOrder[x.path] \in Nat
  BY DEF Ordered, Sized
<1>2. f # g => PathOrder[f.path] # PathOrder[g.path]
  BY DEF Ordered
<1>3. ~Before(words, f, f)
  BY <1>1 DEF Before
<1>4. f # g => Before(words, f, g) \/ Before(words, g, f)
  BY <1>1, <1>2 DEF Before
<1>5. \A h \in S : Before(words, h, f) /\ Before(words, f, g) => Before(words, h, g)
  BY <1>1 DEF Before
<1> QED BY <1>3, <1>4, <1>5

\* Every place of the order is taken, and no two files share one.
LEMMA PlacesAreTaken ==
    ASSUME NEW S, NEW words, Ordered(S, words)
    PROVE  /\ Cardinality(S) \in Nat
           /\ \A f \in S : Rank(S, words, f) \in 0..(Cardinality(S) - 1)
           /\ \A f, g \in S : f # g => Rank(S, words, f) # Rank(S, words, g)
           /\ \A k \in 1..Cardinality(S) : \E f \in S : Rank(S, words, f) = k - 1
<1> DEFINE n == Cardinality(S)
           rank == [f \in S |-> Rank(S, words, f)]
<1>0. IsFiniteSet(S)
  BY DEF Ordered, Sized
<1>1. n \in Nat
  BY <1>0, FS_CardinalityType
<1>2. \A f \in S : Ahead(S, words, f) \in SUBSET S /\ f \notin Ahead(S, words, f)
  BY BeforeIsStrict DEF Ahead
<1>3. \A f \in S : IsFiniteSet(Ahead(S, words, f)) /\ rank[f] \in 0..(n - 1)
  <2> SUFFICES ASSUME NEW f \in S PROVE IsFiniteSet(Ahead(S, words, f)) /\ rank[f] \in 0..(n - 1)
    OBVIOUS
  <2>1. IsFiniteSet(Ahead(S, words, f)) /\ rank[f] <= n /\ rank[f] # n
    BY <1>0, <1>2, FS_Subset DEF Rank
  <2>2. rank[f] \in Nat
    BY <2>1, FS_CardinalityType DEF Rank
  <2> HIDE DEF rank, n
  <2> QED BY <1>1, <2>1, <2>2
<1>4. \A f, g \in S : Before(words, f, g) => rank[f] < rank[g]
  <2> SUFFICES ASSUME NEW f \in S, NEW g \in S, Before(words, f, g) PROVE rank[f] < rank[g]
    OBVIOUS
  <2>1. /\ Ahead(S, words, f) \in SUBSET Ahead(S, words, g)
        /\ f \in Ahead(S, words, g) /\ f \notin Ahead(S, words, f)
    BY BeforeIsStrict DEF Ahead
  <2>2. rank[f] <= rank[g] /\ rank[f] # rank[g]
    BY <1>3, <2>1, FS_Subset DEF Rank
  <2>3. rank[f] \in Int /\ rank[g] \in Int
    BY <1>3
  <2> HIDE DEF rank
  <2> QED BY <2>2, <2>3
<1>5. \A f, g \in S : f # g => rank[f] # rank[g]
  <2>1. \A f, g \in S : f # g => Before(words, f, g) \/ Before(words, g, f)
    BY BeforeIsStrict
  <2>2. \A f \in S : rank[f] \in Int
    BY <1>3
  <2> HIDE DEF rank
  <2> QED BY <1>4, <2>1, <2>2
<1>6. rank \in Injection(S, 0..(n - 1))
  BY <1>3, <1>5 DEF Injection, IsInjective
<1>7. IsFiniteSet(0..(n - 1)) /\ Cardinality(0..(n - 1)) = n
  <2> HIDE DEF n
  <2>1. 0 \in Int /\ n - 1 \in Int
    BY <1>1
  <2>2. /\ IsFiniteSet(0..(n - 1))
        /\ Cardinality(0..(n - 1)) = IF 0 > n - 1 THEN 0 ELSE (n - 1) - 0 + 1
    BY <2>1, FS_Interval
  <2> QED BY <1>1, <2>2
<1>8. rank \in Surjection(S, 0..(n - 1))
  <2> HIDE DEF rank
  <2> QED BY <1>0, <1>6, <1>7, FS_Injection DEF n
<1>9. \A k \in 1..n : \E f \in S : rank[f] = k - 1
  <2> SUFFICES ASSUME NEW k \in 1..n PROVE \E f \in S : rank[f] = k - 1
    OBVIOUS
  <2>1. k - 1 \in 0..(n - 1)
    BY <1>1
  <2> HIDE DEF rank
  <2> QED BY <1>8, <2>1 DEF Surjection
<1> QED BY <1>1, <1>3, <1>5, <1>9

\* The files of at most the policy's size.
Selectable(files, policy) ==
    {f \in files : f.path \in SafePaths /\ Size[f.blob] <= policy.max_file_bytes}

\* What is selected: files in the order of their ranks, as many as the policy takes.
LEMMA SelectionIsRanked ==
    ASSUME NEW files, NEW words, NEW policy, policy.max_files \in Nat,
           Ordered(Selectable(files, policy), words)
    PROVE  LET S == Selectable(files, policy)
               ranked == select_source_files(files, words, policy)
               n == IF Cardinality(S) <= policy.max_files THEN Cardinality(S) ELSE policy.max_files
           IN  /\ n \in Nat
               /\ DOMAIN ranked = 1..n
               /\ \A k \in 1..n : ranked[k] \in S /\ Rank(S, words, ranked[k]) = k - 1
<1> DEFINE S == Selectable(files, policy)
           ranked == select_source_files(files, words, policy)
           n == IF Cardinality(S) <= policy.max_files THEN Cardinality(S) ELSE policy.max_files
           low == Min({Cardinality(S), policy.max_files})
<1>1. /\ Cardinality(S) \in Nat
      /\ \A k \in 1..Cardinality(S) : \E f \in S : Rank(S, words, f) = k - 1
  BY PlacesAreTaken
<1>2. n \in Nat /\ n <= Cardinality(S)
  <2> HIDE DEF S
  <2> QED BY <1>1
<1>3. low = n
  <2> HIDE DEF S
  <2> QED BY <1>1, MinOfTwo
<1>4. ranked = [k \in 1..n |-> CHOOSE f \in S : Rank(S, words, f) = k - 1]
  <2>1. ranked = [k \in 1..low |-> CHOOSE f \in S : Rank(S, words, f) = k - 1]
    BY Zenon DEF select_source_files, Selectable, Rank, Ahead
  <2> HIDE DEF low, n, S, ranked
  <2> QED BY <1>3, <2>1, Zenon
<1> HIDE DEF ranked, n, S
<1>5. \A k \in 1..n : \E f \in S : Rank(S, words, f) = k - 1
  <2> SUFFICES ASSUME NEW k \in 1..n PROVE k \in 1..Cardinality(S)
    BY <1>1, Zenon
  <2> QED BY <1>1, <1>2
<1>6. DOMAIN ranked = 1..n
  BY <1>4
<1>7. \A k \in 1..n : ranked[k] \in S /\ Rank(S, words, ranked[k]) = k - 1
  BY <1>4, <1>5
<1> QED BY <1>2, <1>6, <1>7 DEF S, n, ranked

-----------------------------------------------------------------------------
(* Going through the selected files *)

Budget(A) == [bytes : Nat, excerpts : SUBSET A]
NoExcerpts == [bytes |-> 0, excerpts |-> {}]

LEMMA TakeTyped ==
    ASSUME NEW A, NEW acc \in Budget(A), NEW f \in A, Size[f.blob] \in Nat, NEW policy
    PROVE  Take(acc, f, policy) \in Budget(A)
BY DEF Take, Budget

LEMMA UptoMax ==
    ASSUME NEW n \in Nat, NEW k \in 1..n
    PROVE  /\ 1..k \in SUBSET (1..n) /\ 1..k # {} /\ (1..k) \ {k} = 1..(k - 1)
           /\ Max(1..k) = k
<1>1. k \in Nat /\ k >= 1 /\ k \in 1..k /\ \A y \in 1..k : k >= y
  OBVIOUS
<1>2. \A x \in 1..k : (\A y \in 1..k : x >= y) => x = k
  BY <1>1
<1>3. Max(1..k) = k
  BY <1>1, <1>2 DEF Max
<1>4. 1..k \in SUBSET (1..n) /\ 1..k # {}
  BY <1>1
<1>5. (1..k) \ {k} = 1..(k - 1)
  OBVIOUS
<1> QED BY <1>3, <1>4, <1>5

\* What build_source_context has taken after each file.
Runs(run, ranked, n, policy) ==
    /\ run[0] = NoExcerpts
    /\ \A k \in 1..n : run[k] = Take(run[k - 1], ranked[k], policy)

Lists(ranked, n, A) ==
    DOMAIN ranked = 1..n /\ \A k \in 1..n : ranked[k] \in A /\ Size[ranked[k].blob] \in Nat

IsWhatRuns(context, ranked, n, A, policy) ==
    \E run \in [0..n -> Budget(A)] : Runs(run, ranked, n, policy) /\ context = run[n].excerpts

LEMMA ContextRuns ==
    ASSUME NEW files, NEW words, NEW policy, NEW A, NEW n \in Nat,
           Lists(select_source_files(files, words, policy), n, A)
    PROVE  IsWhatRuns(build_source_context(files, words, policy),
                      select_source_files(files, words, policy), n, A, policy)
<1> DEFINE ranked == select_source_files(files, words, policy)
           D == 1..n
           R == Budget(A)
           pick == [S \in SUBSET D |-> Max(S)]
           step == [p \in D \X R |-> Take(p[2], ranked[p[1]], policy)]
<1>0. /\ DOMAIN ranked = 1..n
      /\ \A k \in 1..n : ranked[k] \in A /\ Size[ranked[k].blob] \in Nat
  BY DEF Lists
<1>1. IsFiniteSet(D) /\ D \subseteq Nat
  <2>1. IsFiniteSet(D)
    <3>1. 1 \in Int /\ n \in Int
      OBVIOUS
    <3> QED BY <3>1, FS_Interval
  <2>2. D \subseteq Nat
    OBVIOUS
  <2> QED BY <2>1, <2>2
<1>2. \A S \in SUBSET D : S # {} => pick[S] \in S /\ pick[S] = Max(S)
  <2> SUFFICES ASSUME NEW S \in SUBSET D, S # {} PROVE Max(S) \in S
    OBVIOUS
  <2>1. IsFiniteSet(S) /\ S \in SUBSET Nat
    BY <1>1, FS_Subset
  <2> HIDE DEF D
  <2> QED BY <2>1, Greatest
<1>3. \A k \in D, r \in R : step[<<k, r>>] = Take(r, ranked[k], policy) /\ step[<<k, r>>] \in R
  <2> HIDE DEF ranked
  <2> QED BY <1>0, TakeTyped
<1>4. NoExcerpts \in R
  BY DEF Budget, NoExcerpts
<1> HIDE DEF pick, step, R, ranked
<1>5. PICK T \in [SUBSET D -> R] : Goes(T, SUBSET D, NoExcerpts, pick, step)
  <2> HIDE DEF D
  <2> QED BY <1>1, <1>2, <1>3, <1>4, IterationExists
<1> DEFINE Fills(U) == U = [S \in SUBSET D |-> IF S = {} THEN NoExcerpts
                                               ELSE Take(U[S \ {Max(S)}], ranked[Max(S)], policy)]
<1>6. \A S \in SUBSET D : T[S] = IF S = {} THEN NoExcerpts
                                 ELSE Take(T[S \ {Max(S)}], ranked[Max(S)], policy)
  <2> HIDE DEF D
  <2> TAKE S \in SUBSET D
  <2>1. T[S] = IF S = {} THEN NoExcerpts ELSE step[<<pick[S], T[S \ {pick[S]}]>>]
    BY <1>5 DEF Goes
  <2>2. CASE S = {}
    BY <2>1, <2>2
  <2>3. CASE S # {}
    <3>1. pick[S] \in D /\ T[S \ {pick[S]}] \in R /\ pick[S] = Max(S)
      BY <1>2, <1>5, <2>3
    <3> QED BY <1>3, <2>1, <2>3, <3>1
  <2> QED BY <2>2, <2>3
<1>7. Fills(T)
  <2> DEFINE V == [S \in SUBSET D |-> IF S = {} THEN NoExcerpts
                                      ELSE Take(T[S \ {Max(S)}], ranked[Max(S)], policy)]
  <2>1. \A S \in SUBSET D : T[S] = V[S]
    BY <1>6
  <2>2. T = V
    BY <1>5, <2>1
  <2> QED BY <2>2
<1>8. ASSUME ranked # <<>> PROVE build_source_context(files, words, policy) = T[D].excerpts
  <2> DEFINE U == CHOOSE U : Fills(U)
  <2>1. build_source_context(files, words, policy) = U[D].excerpts
    BY <1>0, <1>8, Zenon DEF build_source_context, FoldLeft, MapThenFoldSet, NoExcerpts, ranked
  <2>2. Fills(U)
    BY <1>7
  <2> HIDE DEF U
  <2> DEFINE Bad == {S \in SUBSET D : T[S] # U[S]}
  <2>3. Bad = {}
    <3> SUFFICES ASSUME Bad # {} PROVE FALSE
      OBVIOUS
    <3>1. PICK S \in Bad : \A x \in S : S \ {x} \notin Bad
      <4>1. Bad \in SUBSET (SUBSET D)
        OBVIOUS
      <4> HIDE DEF Bad, D
      <4> QED BY <1>1, <4>1, SmallestSet
    <3>2. U[S] = IF S = {} THEN NoExcerpts ELSE Take(U[S \ {Max(S)}], ranked[Max(S)], policy)
      BY <2>2
    <3>3. S # {} => Max(S) \in S
      BY <1>2
    <3>4. S # {} => T[S \ {Max(S)}] = U[S \ {Max(S)}]
      BY <3>1, <3>3
    <3> QED BY <1>6, <3>1, <3>2, <3>4
  <2> QED BY <2>1, <2>3
<1> DEFINE run == [k \in 0..n |-> T[1..k]]
<1>9. run \in [0..n -> R]
  BY <1>5
<1>10. run[0] = NoExcerpts
  <2>1. 1..0 = {} /\ 0 \in 0..n
    OBVIOUS
  <2> QED BY <1>6, <2>1
<1>11. \A k \in 1..n : run[k] = Take(run[k - 1], ranked[k], policy)
  <2> TAKE k \in 1..n
  <2>1. /\ 1..k \in SUBSET D /\ 1..k # {} /\ (1..k) \ {k} = 1..(k - 1) /\ Max(1..k) = k
    BY UptoMax
  <2>2. k \in 0..n /\ k - 1 \in 0..n
    OBVIOUS
  <2>3. T[1..k] = Take(T[1..(k - 1)], ranked[k], policy)
    <3> HIDE DEF D
    <3> QED BY <1>6, <2>1
  <2> QED BY <2>2, <2>3
<1>12. build_source_context(files, words, policy) = run[n].excerpts
  <2>1. n \in 0..n /\ run[n] = T[D]
    OBVIOUS
  <2>2. CASE ranked # <<>>
    BY <1>8, <2>1, <2>2
  <2>3. CASE ranked = <<>>
    <3>1. n = 0
      <4>1. 1..n = {}
        BY <1>0, <2>3
      <4> QED BY <4>1
    <3>2. build_source_context(files, words, policy) = {}
      BY <2>3, Zenon DEF build_source_context, ranked
    <3> QED BY <1>10, <3>1, <3>2 DEF NoExcerpts
  <2> QED BY <2>2, <2>3
<1> QED BY <1>9, <1>10, <1>11, <1>12, Zenon DEF IsWhatRuns, Runs, R, ranked

\* What every excerpt list is: safe text files, within the policy.
Within(E, S, most, bytes) ==
    /\ E \subseteq S /\ IsFiniteSet(E) /\ Cardinality(E) <= most
    /\ \A f \in E : Text[f.blob] # "binary"
    /\ Bytes(E) <= bytes

LEMMA OneMoreFits ==
    ASSUME NEW S, Sized(S), NEW E, NEW most \in Nat, NEW bytes \in Nat, Within(E, S, most, bytes),
           NEW f \in S, Text[f.blob] # "binary"
    PROVE  Within(E \cup {f}, S, most + 1, bytes + Size[f.blob])
<1>1. Sized(E) /\ Size[f.blob] \in Nat
  BY DEF Sized, Within
<1>2. Cardinality(E) \in Nat /\ Bytes(E) \in Nat
  BY <1>1, FS_CardinalityType, BytesOfMore DEF Sized
<1>3. CASE f \in E
  <2>1. E \cup {f} = E
    BY <1>3
  <2>2. /\ E \subseteq S /\ IsFiniteSet(E) /\ Cardinality(E) <= most
        /\ \A g \in E : Text[g.blob] # "binary"
        /\ Bytes(E) <= bytes
    BY DEF Within
  <2>3. Cardinality(E) <= most + 1 /\ Bytes(E) <= bytes + Size[f.blob]
    BY <1>1, <1>2, <2>2
  <2> QED BY <2>1, <2>2, <2>3, Zenon DEF Within
<1>4. CASE f \notin E
  <2>1. Bytes(E \cup {f}) = Bytes(E) + Size[f.blob]
    BY <1>1, <1>4, BytesOfOneMore
  <2>2. IsFiniteSet(E \cup {f}) /\ Cardinality(E \cup {f}) = Cardinality(E) + 1
    BY <1>1, <1>4, FS_AddElement DEF Sized
  <2> QED BY <1>1, <1>2, <2>1, <2>2 DEF Within
<1> QED BY <1>3, <1>4

\* The context of a diagnosis is within the limits of its policy.
LEMMA ContextFits ==
    ASSUME NEW files, NEW words, NEW policy,
           policy.max_files \in Nat, policy.max_total_bytes \in Nat,
           Ordered(Selectable(files, policy), words)
    PROVE  Within(build_source_context(files, words, policy), Selectable(files, policy),
                  policy.max_files, policy.max_total_bytes)
<1> DEFINE S == Selectable(files, policy)
           ranked == select_source_files(files, words, policy)
           n == IF Cardinality(S) <= policy.max_files THEN Cardinality(S) ELSE policy.max_files
<1>1. /\ n \in Nat /\ DOMAIN ranked = 1..n
      /\ \A k \in 1..n : ranked[k] \in S
  BY SelectionIsRanked
<1>2. n <= policy.max_files
  <2>1. Cardinality(S) \in Nat
    BY PlacesAreTaken
  <2> HIDE DEF S
  <2> QED BY <2>1
<1>3. Sized(S)
  BY DEF Ordered
<1> HIDE DEF S, n, ranked
<1>4. \A k \in 1..n : ranked[k] \in S /\ Size[ranked[k].blob] \in Nat
  BY <1>1, <1>3 DEF Sized
<1>5. PICK run \in [0..n -> Budget(S)] :
        /\ Runs(run, ranked, n, policy)
        /\ build_source_context(files, words, policy) = run[n].excerpts
  <2>1. Lists(ranked, n, S)
    BY <1>1, <1>4 DEF Lists
  <2> QED BY <1>1, <2>1, ContextRuns DEF IsWhatRuns, ranked
<1> DEFINE Good(k) == /\ Within(run[k].excerpts, S, k, run[k].bytes)
                      /\ run[k].bytes <= policy.max_total_bytes
           Bad == {k \in 0..n : ~Good(k)}
<1>6. Bad = {}
  <2> SUFFICES ASSUME Bad # {} PROVE FALSE
    OBVIOUS
  <2>1. PICK k \in Bad : \A m \in Bad : k <= m
    <3>1. Bad \in SUBSET Nat
      OBVIOUS
    <3> HIDE DEF Bad
    <3> QED BY <3>1, FirstNat
  <2>2. Good(0)
    <3>1. run[0].bytes = 0 /\ run[0].excerpts = {}
      BY <1>5 DEF Runs, NoExcerpts
    <3>2. IsFiniteSet({}) /\ Cardinality({}) = 0
      BY FS_EmptySet
    <3> QED BY <3>1, <3>2, BytesOfNone DEF Within
  <2>3. k \in 1..n /\ k - 1 \in 0..n /\ k - 1 \in Nat /\ (k - 1) + 1 = k /\ ~(k <= k - 1)
    <3>1. k \in 0..n /\ k # 0
      BY <2>1, <2>2
    <3> QED BY <1>1, <3>1
  <2>4. Good(k - 1) /\ ~Good(k)
    BY <2>1, <2>3
  <2> DEFINE acc == run[k - 1]
             f == ranked[k]
  <2>5. run[k] = Take(acc, f, policy)
    BY <1>5, <2>3 DEF Runs
  <2>6. acc.bytes \in Nat /\ f \in S /\ Size[f.blob] \in Nat
    BY <1>4, <1>5, <2>3 DEF Budget
  <2> HIDE DEF Bad
  <2>7. CASE acc.bytes + Size[f.blob] > policy.max_total_bytes \/ Text[f.blob] = "binary"
    <3>1. run[k] = acc
      BY <2>5, <2>7 DEF Take
    <3>2. Within(acc.excerpts, S, k, acc.bytes)
      <4>1. Within(acc.excerpts, S, k - 1, acc.bytes)
        BY <2>4
      <4>2. Cardinality(acc.excerpts) \in Nat
        BY <4>1, FS_CardinalityType DEF Within
      <4> HIDE DEF acc
      <4> QED BY <2>3, <4>1, <4>2 DEF Within
    <3> QED BY <2>4, <3>1, <3>2
  <2>8. CASE ~(acc.bytes + Size[f.blob] > policy.max_total_bytes \/ Text[f.blob] = "binary")
    <3>1. run[k] = [bytes |-> acc.bytes + Size[f.blob], excerpts |-> acc.excerpts \cup {f}]
      BY <2>5, <2>8 DEF Take
    <3>2. Within(acc.excerpts \cup {f}, S, (k - 1) + 1, acc.bytes + Size[f.blob])
      <4>1. Within(acc.excerpts, S, k - 1, acc.bytes)
        BY <2>4
      <4> HIDE DEF acc, f
      <4> QED BY <1>3, <2>3, <2>6, <2>8, <4>1, OneMoreFits
    <3>3. acc.bytes + Size[f.blob] <= policy.max_total_bytes
      <4> HIDE DEF acc, f
      <4> QED BY <2>6, <2>8
    <3>4. Good(k)
      BY <2>3, <3>1, <3>2, <3>3
    <3> QED BY <2>4, <3>4
  <2> QED BY <2>7, <2>8
<1>7. Good(n)
  BY <1>1, <1>6
<1>8. /\ Cardinality(run[n].excerpts) \in Nat /\ Bytes(run[n].excerpts) \in Nat
      /\ run[n].bytes \in Nat
  <2>1. Sized(run[n].excerpts)
    BY <1>3, <1>7 DEF Within, Sized
  <2>2. run[n].bytes \in Nat
    BY <1>1, <1>5 DEF Budget
  <2> QED BY <2>1, <2>2, BytesOfMore, FS_CardinalityType DEF Sized
<1> QED BY <1>1, <1>2, <1>5, <1>7, <1>8 DEF Within, S

\* Files that fit a policy all together are all taken.
LEMMA ContextIsAll ==
    ASSUME NEW S, NEW words, NEW policy, Ordered(S, words), Selectable(S, policy) = S,
           policy.max_files \in Nat, policy.max_total_bytes \in Nat,
           Within(S, S, policy.max_files, policy.max_total_bytes)
    PROVE  build_source_context(S, words, policy) = S
<1> DEFINE ranked == select_source_files(S, words, policy)
           n == Cardinality(S)
<1>1. /\ n \in Nat /\ DOMAIN ranked = 1..n
      /\ \A k \in 1..n : ranked[k] \in S /\ Rank(S, words, ranked[k]) = k - 1
  BY SelectionIsRanked DEF Within
<1>2. Sized(S)
  BY DEF Ordered
<1>3. \A f \in S : Rank(S, words, f) \in 0..(n - 1)
  BY PlacesAreTaken
<1>4. \A f, g \in S : f # g => Rank(S, words, f) # Rank(S, words, g)
  BY PlacesAreTaken
<1> HIDE DEF n, ranked
<1>5. \A k \in 1..n : ranked[k] \in S /\ Size[ranked[k].blob] \in Nat
  BY <1>1, <1>2 DEF Sized
<1>6. PICK run \in [0..n -> Budget(S)] :
        /\ Runs(run, ranked, n, policy)
        /\ build_source_context(S, words, policy) = run[n].excerpts
  <2>1. Lists(ranked, n, S)
    BY <1>1, <1>5 DEF Lists
  <2> QED BY <1>1, <2>1, ContextRuns DEF IsWhatRuns, ranked
<1> DEFINE Good(k) == /\ run[k].excerpts = {ranked[j] : j \in 1..k}
                      /\ run[k].bytes = Bytes(run[k].excerpts)
           Bad == {k \in 0..n : ~Good(k)}
<1>7. Bad = {}
  <2> SUFFICES ASSUME Bad # {} PROVE FALSE
    OBVIOUS
  <2>1. PICK k \in Bad : \A m \in Bad : k <= m
    <3>1. Bad \in SUBSET Nat
      OBVIOUS
    <3> HIDE DEF Bad
    <3> QED BY <3>1, FirstNat
  <2>2. Good(0)
    <3>1. run[0].bytes = 0 /\ run[0].excerpts = {}
      BY <1>6 DEF Runs, NoExcerpts
    <3>2. {ranked[j] : j \in 1..0} = {}
      OBVIOUS
    <3> QED BY <3>1, <3>2, BytesOfNone
  <2>3. k \in 1..n /\ k - 1 \in 0..n /\ ~(k <= k - 1)
    <3>1. k \in 0..n /\ k # 0
      BY <2>1, <2>2
    <3> QED BY <1>1, <3>1
  <2>4. Good(k - 1) /\ ~Good(k)
    BY <2>1, <2>3
  <2> DEFINE acc == run[k - 1]
             f == ranked[k]
  <2>5. run[k] = Take(acc, f, policy)
    BY <1>6, <2>3 DEF Runs
  <2>6. f \in S /\ Size[f.blob] \in Nat /\ acc.excerpts \in SUBSET S
    BY <1>5, <1>6, <2>3 DEF Budget
  <2>7. f \notin acc.excerpts
    <3> SUFFICES ASSUME NEW j \in 1..(k - 1), ranked[j] = ranked[k] PROVE FALSE
      BY <2>4
    <3>1. j \in 1..n /\ j - 1 # k - 1
      BY <1>1, <2>3
    <3> QED BY <1>1, <2>3, <3>1
  <2>8. acc.excerpts \cup {f} = {ranked[j] : j \in 1..k}
    <3>1. 1..k = (1..(k - 1)) \cup {k}
      BY <1>1, <2>3
    <3>2. acc.excerpts = {ranked[j] : j \in 1..(k - 1)}
      BY <2>4
    <3> HIDE DEF acc
    <3> QED BY <3>1, <3>2
  <2> HIDE DEF Bad
  <2>9. acc.bytes = Bytes(acc.excerpts)
    BY <2>4
  <2> HIDE DEF acc, f
  <2>10. Sized(acc.excerpts)
    BY <1>2, <2>6, FS_Subset DEF Sized
  <2>11. Bytes(acc.excerpts \cup {f}) = acc.bytes + Size[f.blob]
    BY <2>6, <2>7, <2>9, <2>10, BytesOfOneMore
  <2>12. ~(acc.bytes + Size[f.blob] > policy.max_total_bytes) /\ Text[f.blob] # "binary"
    <3>1. acc.excerpts \cup {f} \in SUBSET S
      BY <2>6
    <3>2. /\ Bytes(acc.excerpts \cup {f}) \in Nat /\ Bytes(S) \in Nat
          /\ Bytes(acc.excerpts \cup {f}) <= Bytes(S)
      BY <1>2, <3>1, BytesOfMore
    <3> QED BY <2>6, <2>11, <3>2 DEF Within
  <2>13. run[k] = [bytes |-> acc.bytes + Size[f.blob], excerpts |-> acc.excerpts \cup {f}]
    BY <2>5, <2>12, Zenon DEF Take
  <2>14. Good(k)
    <3>1. run[k].excerpts = acc.excerpts \cup {f} /\ run[k].bytes = acc.bytes + Size[f.blob]
      BY <2>13
    <3> QED BY <2>8, <2>11, <3>1, Zenon
  <2> QED BY <2>4, <2>14
<1>8. run[n].excerpts = {ranked[j] : j \in 1..n}
  BY <1>1, <1>7
<1>9. \A f \in S : \E j \in 1..n : f = ranked[j]
  <2> TAKE f \in S
  <2>1. Rank(S, words, f) + 1 \in 1..n /\ (Rank(S, words, f) + 1) - 1 = Rank(S, words, f)
    BY <1>1, <1>3
  <2>2. /\ ranked[Rank(S, words, f) + 1] \in S
        /\ Rank(S, words, ranked[Rank(S, words, f) + 1]) = Rank(S, words, f)
    BY <1>1, <2>1
  <2>3. ranked[Rank(S, words, f) + 1] = f
    BY <1>4, <2>2
  <2> QED BY <2>1, <2>3
<1> QED BY <1>1, <1>6, <1>8, <1>9

-----------------------------------------------------------------------------
(* Taking up a saved diagnosis again *)

FilesStored == {FilesAt[commit].files : commit \in Commits}

\* A snapshot holds the files of some commit.
FilesKnown == \A k \in DOMAIN snapshots : snapshots[k].files \in FilesStored

LEMMA FilesKnownInit == AnalysisInit => FilesKnown
BY DEF AnalysisInit, Init, FilesKnown

LEMMA SnapshotsComeFromPersist ==
    ASSUME [AnalysisNext]_allVars
    PROVE  UNCHANGED snapshots \/ \E c \in Clients : SnapshotPersist(c)
<1>1. GitHub => UNCHANGED snapshots
  BY GitHubWritesItsOwn
<1>2. Next => UNCHANGED snapshots \/ \E c \in Clients : SnapshotPersist(c)
  BY <1>1 DEF Next, Webhook, MapService, SyncBegin, SyncPage, SyncPersist,
              SnapshotBegin, SnapshotRead, RequestFails
<1> QED BY <1>2 DEF AnalysisNext, AnalysisAction, DiagnosisBegin, SourceRead, BindingRecheck,
                   DiagnosisAsk, DiagnosisPersist, PreviewAsk, PreviewBegin, PreviewAnswer, allVars, vars

LEMMA FilesKnownStep ==
    IInv /\ GInv /\ TInv /\ FilesKnown /\ [AnalysisNext]_allVars => FilesKnown'
<1> SUFFICES ASSUME IInv, GInv, TInv, FilesKnown, [AnalysisNext]_allVars PROVE FilesKnown'
  OBVIOUS
<1>1. CASE UNCHANGED snapshots
  BY <1>1 DEF FilesKnown
<1>2. ASSUME NEW c \in Clients, SnapshotPersist(c) PROVE FilesKnown'
  <2> DEFINE q == req[c]
             new == Snapshot(q.repo, q.commit)
  <2>1. q.commit \in Commits
    BY <1>2 DEF SnapshotPersist, In, TInv, RequestsProper, Proper
  <2>2. new.files \in FilesStored
    BY <2>1 DEF Snapshot, FilesStored
  <2>3. snapshots' = snapshots \/ snapshots' = Append(snapshots, new)
    BY <1>2 DEF SnapshotPersist, Inserted
  <2> HIDE DEF new
  <2>4. CASE snapshots' = Append(snapshots, new)
    <3>1. /\ DOMAIN snapshots' = DOMAIN snapshots \cup {Len(snapshots) + 1}
          /\ \A k \in DOMAIN snapshots : snapshots'[k] = snapshots[k]
          /\ snapshots'[Len(snapshots) + 1] = new
      BY <2>4, AppendGrows DEF GInv
    <3> QED BY <2>2, <3>1 DEF FilesKnown
  <2> QED BY <1>1, <2>3, <2>4
<1> QED BY <1>1, <1>2, SnapshotsComeFromPersist

LEMMA FilesOfACommit ==
    ASSUME NEW files \in FilesStored
    PROVE  /\ Sized(files)
           /\ \A f, g \in files : f.path = g.path => f = g
BY FilesAssumption DEF FilesStored, Sized

LEMMA Policies ==
    /\ DiagnosisPolicy.max_files \in Nat /\ DiagnosisPolicy.max_file_bytes \in Nat
    /\ DiagnosisPolicy.max_total_bytes \in Nat
    /\ PatchPolicy.max_files \in Nat /\ PatchPolicy.max_file_bytes \in Nat
    /\ PatchPolicy.max_total_bytes \in Nat
    /\ PatchPolicy.max_files >= DiagnosisPolicy.max_files
    /\ PatchPolicy.max_file_bytes >= DiagnosisPolicy.max_file_bytes
    /\ PatchPolicy.max_total_bytes >= DiagnosisPolicy.max_total_bytes
BY PolicyAssumption

\* What a diagnosis is shown is ranked without ties, and is within its limits.
LEMMA DiagnosisContextFits ==
    ASSUME NEW files \in FilesStored
    PROVE  Within(build_source_context(files, Relevance, DiagnosisPolicy),
                  Selectable(files, DiagnosisPolicy),
                  DiagnosisPolicy.max_files, DiagnosisPolicy.max_total_bytes)
<1> DEFINE S == Selectable(files, DiagnosisPolicy)
<1>1. S \subseteq files /\ \A f \in S : f.path \in SafePaths
  BY DEF Selectable
<1>2. Sized(S)
  BY <1>1, FilesOfACommit, FS_Subset DEF Sized
<1>3. Ordered(S, Relevance)
  BY <1>1, <1>2, FilesOfACommit, FilesAssumption DEF Ordered
<1> QED BY <1>3, Policies, ContextFits

\* Files that were all shown to a diagnosis are all read again for a patch.
LEMMA PatchContextIsAll ==
    ASSUME NEW files \in FilesStored, NEW R,
           R \subseteq build_source_context(files, Relevance, DiagnosisPolicy)
    PROVE  /\ build_source_context(R, Equal, PatchPolicy) = R
           /\ Within(R, R, DiagnosisPolicy.max_files, DiagnosisPolicy.max_total_bytes)
<1> DEFINE S == Selectable(files, DiagnosisPolicy)
           C == build_source_context(files, Relevance, DiagnosisPolicy)
<1>1. Within(C, S, DiagnosisPolicy.max_files, DiagnosisPolicy.max_total_bytes)
  BY DiagnosisContextFits
<1>2. /\ R \subseteq S
      /\ \A f \in S : /\ f \in files /\ f.path \in SafePaths
                      /\ Size[f.blob] <= DiagnosisPolicy.max_file_bytes /\ Size[f.blob] \in Nat
  <2>1. R \subseteq S
    BY <1>1 DEF Within
  <2> QED BY <2>1, FilesOfACommit DEF Selectable, Sized
<1> HIDE DEF C, S
<1>3. Sized(C) /\ R \in SUBSET C
  BY <1>1, <1>2 DEF Within, Sized, C
<1>4. /\ IsFiniteSet(R) /\ Cardinality(R) \in Nat /\ Cardinality(C) \in Nat
      /\ Cardinality(R) <= Cardinality(C)
  BY <1>3, FS_Subset, FS_CardinalityType DEF Sized
<1>5. Bytes(R) \in Nat /\ Bytes(C) \in Nat /\ Bytes(R) <= Bytes(C)
  BY <1>3, BytesOfMore
<1>6. \A f \in R : Text[f.blob] # "binary"
  BY <1>1, <1>3 DEF Within
<1>7. Cardinality(R) <= DiagnosisPolicy.max_files /\ Bytes(R) <= DiagnosisPolicy.max_total_bytes
  BY <1>1, <1>4, <1>5, Policies DEF Within
<1>8. Within(R, R, PatchPolicy.max_files, PatchPolicy.max_total_bytes)
  BY <1>4, <1>5, <1>6, <1>7, Policies DEF Within
<1>9. Selectable(R, PatchPolicy) = R
  <2>1. \A f \in R : f.path \in SafePaths /\ Size[f.blob] <= PatchPolicy.max_file_bytes
    BY <1>2, Policies
  <2> QED BY <2>1 DEF Selectable
<1>10. Ordered(R, Equal)
  <2>1. \A f \in R : /\ f.path \in SafePaths /\ f \in files /\ Size[f.blob] \in Nat
    BY <1>2
  <2>2. \A f \in R : Equal[f.path] = 1 /\ PathOrder[f.path] \in Nat
    BY <2>1, FilesAssumption DEF Equal
  <2>3. \A f, g \in R : PathOrder[f.path] = PathOrder[g.path] => f = g
    BY <2>1, FilesOfACommit, FilesAssumption
  <2> QED BY <1>4, <2>1, <2>2, <2>3 DEF Ordered, Sized
<1>11. build_source_context(R, Equal, PatchPolicy) = R
  BY <1>8, <1>9, <1>10, Policies, ContextIsAll
<1> QED BY <1>4, <1>6, <1>7, <1>11 DEF Within

LEMMA NoMorePathsThanFiles ==
    ASSUME NEW S, IsFiniteSet(S)
    PROVE  /\ Cardinality(PathsOf(S)) \in Nat /\ Cardinality(S) \in Nat
           /\ Cardinality(PathsOf(S)) <= Cardinality(S)
<1> DEFINE p == [f \in S |-> f.path]
<1>1. p \in Surjection(S, PathsOf(S))
  BY DEF Surjection, PathsOf
<1>2. IsFiniteSet(PathsOf(S)) /\ Cardinality(PathsOf(S)) <= Cardinality(S)
  BY <1>1, FS_Surjection
<1> QED BY <1>2, FS_CardinalityType

\* The checks of the preview route pass for every saved diagnosis with a fix.
LEMMA CanBeTakenUp ==
    ASSUME FilesKnown, NEW a \in DOMAIN analyses, AnalysisOK(analyses[a], snapshots),
           analyses[a].fix # {}
    PROVE  Rehydrates(a) /\ Regrounded(a) /\ PatchSources(a)
<1> DEFINE files == snapshots[analyses[a].snapshot].files
           paths == SourcePaths(a)
           C == build_source_context(files, Relevance, DiagnosisPolicy)
           R == Rows(a)
<1>1. files \in FilesStored
  BY DEF AnalysisOK, FilesKnown
<1>2. paths \subseteq PathsOf(Excerpts(C))
  BY DEF AnalysisOK, SourcePaths, ExcerptsOf
<1>3. R = {f \in files : f.path \in paths}
  BY DEF Rows
<1>4. analyses[a].fix \subseteq paths
  BY DEF SourcePaths
<1>5. PatchContext(a) = build_source_context(R, Equal, PatchPolicy)
  BY DEF PatchContext
<1> HIDE DEF files, paths, R
<1>6. C \subseteq files
  BY <1>1, DiagnosisContextFits DEF Within, Selectable
<1>7. \A f, g \in files : f.path = g.path => f = g
  BY <1>1, FilesOfACommit
<1> HIDE DEF C
<1>8. R \subseteq Excerpts(C)
  <2> SUFFICES ASSUME NEW f \in R PROVE f \in Excerpts(C)
    OBVIOUS
  <2>1. f \in files /\ f.path \in PathsOf(Excerpts(C))
    BY <1>2, <1>3
  <2>2. PICK e \in Excerpts(C) : e.path = f.path
    BY <2>1 DEF PathsOf
  <2>3. e \in files
    BY <1>6 DEF Excerpts
  <2> QED BY <1>7, <2>1, <2>2, <2>3
<1>9. PathsOf(R) = paths
  <2>1. PathsOf(R) \subseteq paths
    BY <1>3 DEF PathsOf
  <2>2. ASSUME NEW p \in paths PROVE p \in PathsOf(R)
    <3>1. PICK e \in Excerpts(C) : e.path = p
      BY <1>2 DEF PathsOf
    <3>2. e \in R
      BY <1>3, <1>6, <3>1 DEF Excerpts
    <3> QED BY <3>1, <3>2 DEF PathsOf
  <2> QED BY <2>1, <2>2
<1>10. R \subseteq C /\ Excerpts(R) = R
  BY <1>8 DEF Excerpts
<1>11. /\ PatchContext(a) = R
       /\ Within(R, R, DiagnosisPolicy.max_files, DiagnosisPolicy.max_total_bytes)
  BY <1>1, <1>5, <1>10, PatchContextIsAll DEF C
<1>12. Sized(R)
  BY <1>1, <1>6, <1>10, <1>11, FilesOfACommit DEF Sized, Within
<1>13. Rehydrates(a)
  <2>1. /\ Cardinality(paths) \in Nat /\ Cardinality(R) \in Nat
        /\ Cardinality(paths) <= Cardinality(R)
    BY <1>9, <1>12, NoMorePathsThanFiles DEF Sized
  <2>2. Cardinality(paths) <= DiagnosisPolicy.max_files /\ Cardinality(paths) <= PatchPolicy.max_files
    BY <1>11, <2>1, Policies DEF Within
  <2>3. Bytes(Excerpts(PatchContext(a))) <= DiagnosisPolicy.max_total_bytes
    BY <1>10, <1>11 DEF Within
  <2> QED BY <1>9, <1>11, <2>2, <2>3 DEF Rehydrates, R, paths
<1>14. Regrounded(a)
  BY <1>9, <1>10, <1>11 DEF Regrounded, paths
<1>15. PatchSources(a)
  <2> DEFINE editable == {f \in PatchContext(a) : f.path \in analyses[a].fix}
  <2>1. editable \in SUBSET R
    BY <1>11
  <2>2. editable # {}
    <3>1. PICK p \in analyses[a].fix : TRUE
      OBVIOUS
    <3>2. p \in PathsOf(R)
      BY <1>4, <1>9
    <3> QED BY <1>11, <3>2 DEF PathsOf
  <2>3. editable \subseteq Excerpts(PatchContext(a))
    BY <1>10, <1>11, <2>1
  <2> HIDE DEF editable
  <2>4. /\ IsFiniteSet(editable) /\ Cardinality(editable) \in Nat /\ Cardinality(R) \in Nat
        /\ Cardinality(editable) <= Cardinality(R)
    BY <1>12, <2>1, FS_Subset, FS_CardinalityType DEF Sized
  <2>5. Bytes(editable) \in Nat /\ Bytes(R) \in Nat /\ Bytes(editable) <= Bytes(R)
    BY <1>12, <2>1, BytesOfMore
  <2>6. Cardinality(editable) <= PatchPolicy.max_files /\ Bytes(editable) <= PatchPolicy.max_total_bytes
    BY <1>11, <2>4, <2>5, Policies DEF Within
  <2> QED BY <2>2, <2>3, <2>6 DEF PatchSources, editable
<1> QED BY <1>13, <1>14, <1>15

LEMMA DeadEndsStayKnown ==
    IInv /\ GInv /\ FilesKnown /\ OnlyKnownDeadEnds /\ [AnalysisNext]_allVars => OnlyKnownDeadEnds'
<1> SUFFICES ASSUME IInv, GInv, FilesKnown, OnlyKnownDeadEnds, [AnalysisNext]_allVars
             PROVE  OnlyKnownDeadEnds'
  OBVIOUS
<1>1. Silent => OnlyKnownDeadEnds'
  BY DEF Silent, NoPreview, OnlyKnownDeadEnds
<1>2. ASSUME NEW a, preview' = DeadEnd(a), UNCHANGED <<snapshots, analyses>>,
             ~(analyses[a].fix \subseteq WorkspacePaths) \/ ~FitsChat(a)
      PROVE  OnlyKnownDeadEnds'
  <2>1. preview'.analysis = a
    BY <1>2 DEF DeadEnd
  <2> QED BY <1>2, <2>1 DEF OnlyKnownDeadEnds, FitsChat, Rows, SourcePaths
<1>3. ASSUME NEW c \in Clients, PreviewAsk(c) PROVE OnlyKnownDeadEnds'
  <2> DEFINE a == req[c].analysis
  <2>1. a \in DOMAIN analyses /\ analyses[a].fix # {}
    BY <1>3 DEF PreviewAsk, In, GInv, PreviewsOK
  <2>2. AnalysisOK(analyses[a], snapshots)
    BY <2>1 DEF GInv, AnalysesOK
  <2>3. /\ UNCHANGED <<snapshots, analyses>>
        /\ Silent \/ (preview' = DeadEnd(a) /\ ~(Rehydrates(a) /\ Regrounded(a) /\ PatchSources(a) /\ FitsChat(a)))
    BY <1>3 DEF PreviewAsk
  <2> HIDE DEF a
  <2>4. Rehydrates(a) /\ Regrounded(a) /\ PatchSources(a)
    BY <2>1, <2>2, CanBeTakenUp
  <2> QED BY <1>1, <1>2, <2>3, <2>4
<1>4. ASSUME NEW c \in Clients, PreviewAnswer(c) PROVE OnlyKnownDeadEnds'
  <2> DEFINE a == req[c].analysis
  <2>1. /\ UNCHANGED <<snapshots, analyses>>
        /\ \/ preview'.outcome # "dead_end"
           \/ preview' = DeadEnd(a) /\ ~(analyses[a].fix \subseteq WorkspacePaths)
    BY <1>4 DEF PreviewAnswer
  <2> HIDE DEF a
  <2> QED BY <1>2, <2>1 DEF OnlyKnownDeadEnds
<1>5. CASE UNCHANGED allVars
  BY <1>5 DEF allVars, vars, analysisVars, OnlyKnownDeadEnds, FitsChat, Rows, SourcePaths
<1> QED BY <1>1, <1>3, <1>4, <1>5 DEF AnalysisNext, AnalysisAction, DiagnosisBegin, SourceRead,
                                     BindingRecheck, DiagnosisAsk, DiagnosisPersist, PreviewBegin

\* A saved diagnosis with a fix is taken up again while it is bound: the files it
\* cites are read whole under the patch policy, although they are ranked and
\* budgeted anew, and pass every check but the two the diagnosis did not pass,
\* the workspace's on paths and the local model's on the size of a request
\* (create_github_patch_preview, propose_patch).
THEOREM DeadEndsAreKnown == AnalysisSpec => []OnlyKnownDeadEnds
<1>1. AnalysisInit => OnlyKnownDeadEnds
  BY DEF AnalysisInit, NoPreview, OnlyKnownDeadEnds
<1> QED BY <1>1, ConnectionInit, AnalysisStep, GroundedInit, GroundedStep, TypesInit, TypesStep,
           FilesKnownInit, FilesKnownStep, DeadEndsStayKnown, PTL DEF AnalysisSpec

-----------------------------------------------------------------------------
(* The walk through a tree *)

\* The walk after each number of turns, up to m.
Turns(f, root, m) ==
    f = [n \in 0..m |-> IF n = 0 THEN Enter(Untouched, root, <<>>, {}) ELSE Turn(f[n - 1])]

LEMMA TurnsExist ==
    ASSUME NEW root, NEW m \in Nat
    PROVE  \E f : Turns(f, root, m)
<1> DEFINE Bad == {k \in Nat : ~\E f : Turns(f, root, k)}
           start == Enter(Untouched, root, <<>>, {})
<1> SUFFICES ASSUME Bad # {} PROVE FALSE
  OBVIOUS
<1>1. PICK n \in Bad : \A k \in Bad : n <= k
  BY FirstNat, Bad \in SUBSET Nat
<1>2. n # 0
  <2> DEFINE f == [k \in 0..0 |-> start]
  <2>1. \A k \in 0..0 : f[k] = IF k = 0 THEN start ELSE Turn(f[k - 1])
    OBVIOUS
  <2>2. Turns(f, root, 0)
    <3> HIDE DEF start
    <3> QED BY <2>1 DEF Turns, start
  <2> QED BY <1>1, <2>2
<1>3. n \in Nat /\ n - 1 \in Nat /\ ~(n <= n - 1)
  BY <1>1, <1>2
<1>4. PICK f : Turns(f, root, n - 1)
  BY <1>1, <1>3
<1> DEFINE g == [k \in 0..n |-> IF k = n THEN Turn(f[n - 1]) ELSE f[k]]
<1>5. \A k \in 0..n : g[k] = IF k = 0 THEN start ELSE Turn(g[k - 1])
  <2> HIDE DEF start
  <2> TAKE k \in 0..n
  <2>1. \A j \in 0..(n - 1) : f[j] = IF j = 0 THEN start ELSE Turn(f[j - 1])
    BY <1>4 DEF Turns, start
  <2>2. CASE k = n
    <3>1. k - 1 \in 0..n /\ k - 1 # n /\ k # 0
      BY <1>2, <1>3, <2>2
    <3> QED BY <2>2, <3>1
  <2>3. CASE k # n /\ k # 0
    <3>1. k \in 0..(n - 1) /\ k - 1 \in 0..n /\ k - 1 # n
      BY <1>3, <2>3
    <3> QED BY <2>1, <2>3, <3>1
  <2>4. CASE k # n /\ k = 0
    <3>1. k \in 0..(n - 1)
      BY <1>3, <2>4
    <3> QED BY <2>1, <2>4, <3>1
  <2> QED BY <2>2, <2>3, <2>4
<1>6. Turns(g, root, n)
  <2> DEFINE h == [k \in 0..n |-> IF k = 0 THEN start ELSE Turn(g[k - 1])]
  <2>1. g = h
    BY <1>5
  <2> HIDE DEF g
  <2> QED BY <2>1 DEF Turns
<1> QED BY <1>1, <1>6

LEMMA WalkTurns ==
    ASSUME NEW root
    PROVE  \E f : Turns(f, root, MaxEntries + 1) /\ Walk(root) = f[MaxEntries + 1]
<1>1. MaxEntries + 1 \in Nat
  BY TreeAssumption
<1> DEFINE walk == CHOOSE f : Turns(f, root, MaxEntries + 1)
<1>2. Turns(walk, root, MaxEntries + 1)
  BY <1>1, TurnsExist
<1>3. Walk(root) = walk[MaxEntries + 1]
  BY DEF Walk, Turns
<1> HIDE DEF walk
<1> QED BY <1>2, <1>3

\* The routes of any length from a tree, and where one is after k entries.
Leading(t) == {r \in Seq(AllEntries) : r # <<>> /\ LeadsFrom(t, r)}
Spot(r, k) == [path |-> [j \in 1..k |-> r[j].name], type |-> r[k].type, sha |-> r[k].sha]
Spots(t) == {Spot(r, Len(r)) : r \in Leading(t)}

\* The directories an entry is in are those on its path, each once.
Waiting(t) == [entry : Spots(t), above : SUBSET TreeObjects]
Deep(x) == Cardinality(x.above) = Len(x.entry.path)

Walks(t) == [entries : Seq(Spots(t)), todo : Seq(Waiting(t)), requests : Nat,
             error : {Fine, LimitExceeded, Cyclic}]

\* A route has been gone to its end, or one of its entries is still to come.
GoneThrough(w, r) ==
    \/ \E j \in DOMAIN w.entries : w.entries[j] = Spot(r, Len(r))
    \/ \E k \in 1..Len(r) : \E j \in DOMAIN w.todo : w.todo[j].entry = Spot(r, k)

\* What holds of the walk through root after n turns.
WalkOK(w, root, n) ==
    /\ w \in Walks(root)
    /\ \A j \in DOMAIN w.todo : Deep(w.todo[j])
    /\ \A j \in DOMAIN w.entries : Len(w.entries[j].path) <= Cardinality(TreeObjects)
    /\ w.error = Fine =>
          /\ Len(w.entries) <= MaxEntries
          /\ w.todo # <<>> => Len(w.entries) = n
          /\ \A r \in Leading(root) : GoneThrough(w, r)

LEMMA Directories ==
    ASSUME NEW S \in SUBSET TreeObjects
    PROVE  /\ IsFiniteSet(S) /\ Cardinality(S) \in Nat /\ Cardinality(TreeObjects) \in Nat
           /\ Cardinality(S) <= Cardinality(TreeObjects)
           /\ \A t \in TreeObjects \ S : Cardinality(S \cup {t}) = Cardinality(S) + 1
<1>1. IsFiniteSet(TreeObjects)
  BY TreeAssumption
<1>2. IsFiniteSet(S) /\ Cardinality(S) <= Cardinality(TreeObjects)
  BY <1>1, FS_Subset
<1> QED BY <1>1, <1>2, FS_CardinalityType, FS_AddElement

LEMMA RouteTypes ==
    ASSUME NEW root \in TreeObjects, NEW r \in Leading(root)
    PROVE  /\ r \in Seq(AllEntries) /\ Len(r) \in Nat \ {0}
           /\ \A k \in 1..Len(r) : r[k] \in AllEntries
           /\ \A k \in 1..Len(r) : k # Len(r) => r[k].type = "tree" /\ r[k + 1] \in Children(r[k].sha)
           /\ r[1] \in Children(root)
<1>1. r \in Seq(AllEntries) /\ r # <<>> /\ LeadsFrom(root, r)
  BY DEF Leading
<1>2. Len(r) \in Nat \ {0} /\ \A k \in 1..Len(r) : r[k] \in AllEntries
  BY <1>1
<1>3. \A k \in 1..Len(r) : k # Len(r) => k \in 1..(Len(r) - 1)
  BY <1>2
<1> QED BY <1>1, <1>2, <1>3 DEF LeadsFrom

\* One entry further, the path is longer by a name.
LEMMA SpotMoves ==
    ASSUME NEW root \in TreeObjects, NEW r \in Leading(root), NEW k \in 1..Len(r), k # Len(r)
    PROVE  Spot(r, k + 1) = Located(Spot(r, k).path, r[k + 1])
<1> DEFINE p == [j \in 1..k |-> r[j].name]
           all == {r[j].name : j \in 1..(k + 1)}
           longer == Append(p, r[k + 1].name)
<1>1. k \in Nat
  BY RouteTypes
<1>2. p \in Seq(all) /\ Len(p) = k /\ r[k + 1].name \in all
  BY <1>1
<1>3. \A j \in 1..k : p[j] = r[j].name
  OBVIOUS
<1> HIDE DEF p, all
<1>4. /\ DOMAIN longer = 1..(k + 1) /\ longer[k + 1] = r[k + 1].name
      /\ longer = [j \in 1..(k + 1) |-> longer[j]]
      /\ \A j \in 1..k : longer[j] = p[j]
  BY <1>1, <1>2
<1>5. \A j \in 1..(k + 1) : longer[j] = r[j].name
  <2>1. \A j \in 1..(k + 1) : j = k + 1 \/ j \in 1..k
    BY <1>1
  <2> HIDE DEF longer
  <2> QED BY <1>3, <1>4, <2>1
<1>6. longer = [j \in 1..(k + 1) |-> r[j].name]
  <2> HIDE DEF longer
  <2> QED BY <1>4, <1>5
<1> QED BY <1>6 DEF Spot, Located, p

\* A route goes on into the directory it leads to.
LEMMA RouteGoesOn ==
    ASSUME NEW root \in TreeObjects, NEW r \in Leading(root), r[Len(r)].type = "tree",
           NEW e \in Children(r[Len(r)].sha), e \in AllEntries
    PROVE  /\ Append(r, e) \in Leading(root) /\ Len(Append(r, e)) = Len(r) + 1
           /\ Spot(Append(r, e), Len(Append(r, e))) = Located(Spot(r, Len(r)).path, e)
<1> DEFINE q == Append(r, e)
           n == Len(r)
<1>1. /\ r \in Seq(AllEntries) /\ n \in Nat \ {0} /\ r[1] \in Children(root)
      /\ \A k \in 1..n : k # n => r[k].type = "tree" /\ r[k + 1] \in Children(r[k].sha)
  BY RouteTypes
<1>2. /\ q \in Seq(AllEntries) /\ Len(q) = n + 1 /\ q[n + 1] = e
      /\ \A k \in 1..n : q[k] = r[k]
  BY <1>1
<1> HIDE DEF q
<1>3. q \in Leading(root)
  <2>1. q[1] = r[1]
    BY <1>1, <1>2
  <2>2. ASSUME NEW k \in 1..(Len(q) - 1) PROVE q[k].type = "tree" /\ q[k + 1] \in Children(q[k].sha)
    <3>1. k \in 1..n /\ q[k] = r[k]
      BY <1>1, <1>2
    <3>2. CASE k = n
      BY <1>2, <3>1, <3>2
    <3>3. CASE k # n
      <4>1. k + 1 \in 1..n
        BY <1>1, <3>1, <3>3
      <4> QED BY <1>1, <1>2, <3>1, <3>3, <4>1
    <3> QED BY <3>2, <3>3
  <2>3. q # <<>>
    BY <1>1, <1>2
  <2> QED BY <1>1, <1>2, <2>1, <2>2, <2>3 DEF LeadsFrom, Leading
<1>4. Spot(q, n).path = Spot(r, n).path
  BY <1>2 DEF Spot
<1>5. Spot(q, n + 1) = Located(Spot(q, n).path, e)
  <2>1. n \in 1..Len(q) /\ n # Len(q)
    BY <1>1, <1>2
  <2> QED BY <1>2, <1>3, <2>1, SpotMoves
<1> QED BY <1>2, <1>3, <1>4, <1>5 DEF q

LEMMA RouteStarts ==
    ASSUME NEW root \in TreeObjects, NEW e \in Children(root)
    PROVE  /\ <<e>> \in Leading(root)
           /\ Spot(<<e>>, Len(<<e>>)) = Located(<<>>, e)
<1>1. e \in AllEntries
  BY DEF AllEntries
<1>2. <<e>> \in Leading(root)
  BY <1>1 DEF Leading, LeadsFrom
<1>3. [j \in 1..1 |-> <<e>>[j].name] = <<e.name>>
  OBVIOUS
<1> QED BY <1>2, <1>3 DEF Spot, Located

LEMMA SpotLength ==
    ASSUME NEW root \in TreeObjects, NEW r \in Leading(root), NEW k \in 1..Len(r)
    PROVE  Len(Spot(r, k).path) = k
<1>1. k \in Nat
  BY RouteTypes
<1> DEFINE p == [j \in 1..k |-> r[j].name]
<1>2. p \in Seq({r[j].name : j \in 1..k}) /\ Len(p) = k
  BY <1>1
<1> QED BY <1>2 DEF Spot

LEMMA Joins ==
    ASSUME NEW T, NEW s \in Seq(T), NEW t \in Seq(T)
    PROVE  /\ s \o t \in Seq(T) /\ Len(s \o t) = Len(s) + Len(t)
           /\ \A j \in DOMAIN s : j \in DOMAIN (s \o t) /\ (s \o t)[j] = s[j]
           /\ \A j \in DOMAIN t : Len(s) + j \in DOMAIN (s \o t) /\ (s \o t)[Len(s) + j] = t[j]
           /\ \A j \in DOMAIN (s \o t) : \/ j \in DOMAIN s /\ (s \o t)[j] = s[j]
                                         \/ j - Len(s) \in DOMAIN t /\ (s \o t)[j] = t[j - Len(s)]
OBVIOUS

\* What a call of walk adds to what is still to come.
Added(t, prefix, above) ==
    [k \in DOMAIN Entries[t] |-> [entry |-> Located(prefix, Entries[t][k]), above |-> above \cup {t}]]

\* The path of a directory has an entry of the path for each directory above it.
Fits(root, t, prefix, above) ==
    /\ above \in SUBSET TreeObjects /\ Cardinality(above) = Len(prefix)
    /\ \A e \in Children(t) : /\ Located(prefix, e) \in Spots(root)
                              /\ Len(Located(prefix, e).path) = Len(prefix) + 1

LEMMA AddedFits ==
    ASSUME NEW root \in TreeObjects, NEW t \in TreeObjects, NEW prefix, NEW above,
           Fits(root, t, prefix, above), t \notin above
    PROVE  /\ Added(t, prefix, above) \in Seq(Waiting(root))
           /\ \A j \in DOMAIN Added(t, prefix, above) : Deep(Added(t, prefix, above)[j])
           /\ \A e \in Children(t) : \E j \in DOMAIN Added(t, prefix, above) :
                 Added(t, prefix, above)[j].entry = Located(prefix, e)
<1> DEFINE new == Added(t, prefix, above)
           at == Entries[t]
<1>1. Len(at) \in Nat /\ DOMAIN at = 1..Len(at) /\ Children(t) = {at[j] : j \in 1..Len(at)}
  <2>1. at \in Seq(AllEntries)
    BY TreeAssumption
  <2> HIDE DEF at
  <2>2. ToSet(at) = {at[j] : j \in DOMAIN at}
    BY DEF ToSet
  <2> QED BY <2>1, <2>2 DEF Children, at
<1>2. above \cup {t} \in SUBSET TreeObjects /\ Cardinality(above \cup {t}) = Len(prefix) + 1
  BY Directories DEF Fits
<1>3. /\ new = [j \in 1..Len(at) |-> new[j]]
      /\ \A j \in 1..Len(at) : new[j] = [entry |-> Located(prefix, at[j]), above |-> above \cup {t}]
  BY <1>1 DEF Added
<1> HIDE DEF new, at
<1>4. \A j \in 1..Len(at) : new[j] \in Waiting(root) /\ Deep(new[j])
  <2> TAKE j \in 1..Len(at)
  <2>1. /\ Located(prefix, at[j]) \in Spots(root)
        /\ Len(Located(prefix, at[j]).path) = Len(prefix) + 1
    BY <1>1 DEF Fits
  <2>2. new[j].entry = Located(prefix, at[j]) /\ new[j].above = above \cup {t}
    BY <1>3
  <2>3. Deep(new[j])
    BY <1>2, <2>1, <2>2 DEF Deep
  <2>4. new[j] \in Waiting(root)
    BY <1>2, <1>3, <2>1 DEF Waiting
  <2> QED BY <2>3, <2>4
<1>5. new \in Seq(Waiting(root)) /\ DOMAIN new = 1..Len(at)
  BY <1>1, <1>3, <1>4
<1>6. \A e \in Children(t) : \E j \in DOMAIN new : new[j].entry = Located(prefix, e)
  BY <1>1, <1>3, <1>5
<1> QED BY <1>4, <1>5, <1>6 DEF new

\* A call of walk keeps what was there, and adds everything in the directory.
LEMMA EnterKeeps ==
    ASSUME NEW root \in TreeObjects, NEW w \in Walks(root), w.error = Fine,
           \A j \in DOMAIN w.todo : Deep(w.todo[j]),
           NEW t \in TreeObjects, NEW prefix, NEW above, Fits(root, t, prefix, above)
    PROVE  LET v == Enter(w, t, prefix, above)
           IN  /\ v \in Walks(root) /\ v.entries = w.entries
               /\ \A j \in DOMAIN v.todo : Deep(v.todo[j])
               /\ v.error = Fine =>
                     /\ \A j \in DOMAIN w.todo : \E i \in DOMAIN v.todo : v.todo[i] = w.todo[j]
                     /\ \A e \in Children(t) : \E i \in DOMAIN v.todo : v.todo[i].entry = Located(prefix, e)
<1> DEFINE v == Enter(w, t, prefix, above)
           new == Added(t, prefix, above)
<1>1. /\ DOMAIN w = {"entries", "todo", "requests", "error"}
      /\ w.entries \in Seq(Spots(root)) /\ w.todo \in Seq(Waiting(root)) /\ w.requests \in Nat
  BY DEF Walks
<1>2. \A error \in {LimitExceeded, Cyclic} :
         /\ Stopped(w, error) \in Walks(root) /\ Stopped(w, error).error # Fine
         /\ Stopped(w, error).entries = w.entries /\ Stopped(w, error).todo = w.todo
  BY DEF Walks, Stopped, Fine, LimitExceeded, Cyclic
<1>3. CASE v \in {Stopped(w, LimitExceeded), Stopped(w, Cyclic)}
  <2> HIDE DEF v
  <2> QED BY <1>2, <1>3 DEF v
<1>4. CASE v \notin {Stopped(w, LimitExceeded), Stopped(w, Cyclic)}
  <2>1. t \notin above /\ v = [w EXCEPT !.requests = @ + 1, !.todo = new \o @]
    BY <1>4 DEF Enter, Added
  <2>2. /\ new \in Seq(Waiting(root)) /\ \A j \in DOMAIN new : Deep(new[j])
        /\ \A e \in Children(t) : \E j \in DOMAIN new : new[j].entry = Located(prefix, e)
    BY <2>1, AddedFits
  <2> DEFINE all == new \o w.todo
  <2>3. v.entries = w.entries /\ v.todo = all /\ v.requests = w.requests + 1 /\ v.error = w.error
        /\ v = [entries |-> w.entries, todo |-> all, requests |-> w.requests + 1, error |-> w.error]
    <3> HIDE DEF v, all
    <3>1. v = [w EXCEPT !.requests = w.requests + 1, !.todo = all]
      BY <2>1 DEF all
    <3> QED BY <1>1, <3>1 DEF Walks
  <2> HIDE DEF v, new
  <2>4. /\ all \in Seq(Waiting(root))
        /\ \A j \in DOMAIN new : j \in DOMAIN all /\ all[j] = new[j]
        /\ \A j \in DOMAIN w.todo : Len(new) + j \in DOMAIN all /\ all[Len(new) + j] = w.todo[j]
        /\ \A j \in DOMAIN all : \/ j \in DOMAIN new /\ all[j] = new[j]
                                 \/ j - Len(new) \in DOMAIN w.todo /\ all[j] = w.todo[j - Len(new)]
    BY <1>1, <2>2, Joins
  <2> HIDE DEF all
  <2>5. v \in Walks(root)
    <3>1. w.requests + 1 \in Nat
      BY <1>1
    <3> QED BY <1>1, <2>3, <2>4, <3>1 DEF Walks
  <2>6. \A j \in DOMAIN all : Deep(all[j])
    BY <2>2, <2>4
  <2>7. \A j \in DOMAIN w.todo : \E i \in DOMAIN all : all[i] = w.todo[j]
    BY <2>4
  <2>8. \A e \in Children(t) : \E i \in DOMAIN all : all[i].entry = Located(prefix, e)
    <3> TAKE e \in Children(t)
    <3>1. PICK j \in DOMAIN new : new[j].entry = Located(prefix, e)
      BY <2>2
    <3> QED BY <2>4, <3>1
  <2> QED BY <2>3, <2>5, <2>6, <2>7, <2>8 DEF v
<1> QED BY <1>3, <1>4

LEMMA WalkStarts ==
    ASSUME NEW root \in TreeObjects
    PROVE  WalkOK(Enter(Untouched, root, <<>>, {}), root, 0)
<1> DEFINE v == Enter(Untouched, root, <<>>, {})
<1>1. /\ Untouched \in Walks(root) /\ Untouched.error = Fine
      /\ Untouched.todo = <<>> /\ Untouched.entries = <<>>
  BY DEF Untouched, Walks
<1>2. \A e \in Children(root) : /\ Located(<<>>, e) \in Spots(root)
                                /\ Len(Located(<<>>, e).path) = 1
  <2> TAKE e \in Children(root)
  <2>1. <<e>> \in Leading(root) /\ Spot(<<e>>, Len(<<e>>)) = Located(<<>>, e)
    BY RouteStarts
  <2>2. Len(<<e>>) = 1 /\ 1 \in 1..Len(<<e>>)
    OBVIOUS
  <2>3. Len(Spot(<<e>>, 1).path) = 1
    BY <2>1, <2>2, SpotLength
  <2> QED BY <2>1, <2>2, <2>3 DEF Spots
<1>3. Fits(root, root, <<>>, {})
  <2>1. Cardinality({}) = 0 /\ Len(<<>>) = 0
    BY FS_EmptySet
  <2> QED BY <1>2, <2>1 DEF Fits
<1>4. /\ v \in Walks(root) /\ v.entries = <<>>
      /\ \A j \in DOMAIN v.todo : Deep(v.todo[j])
      /\ v.error = Fine =>
            \A e \in Children(root) : \E i \in DOMAIN v.todo : v.todo[i].entry = Located(<<>>, e)
  <2>1. \A j \in DOMAIN Untouched.todo : Deep(Untouched.todo[j])
    BY <1>1
  <2> QED BY <1>1, <1>3, <2>1, EnterKeeps
<1> HIDE DEF v
<1>5. ASSUME v.error = Fine, NEW r \in Leading(root) PROVE GoneThrough(v, r)
  <2>1. r[1] \in Children(root) /\ 1 \in 1..Len(r)
    BY RouteTypes
  <2>2. Spot(r, 1) = Located(<<>>, r[1])
    <3>1. [j \in 1..1 |-> r[j].name] = <<r[1].name>>
      OBVIOUS
    <3> QED BY <3>1 DEF Spot, Located
  <2> QED BY <1>4, <1>5, <2>1, <2>2 DEF GoneThrough
<1>6. Len(v.entries) = 0 /\ 0 <= MaxEntries /\ DOMAIN v.entries = {}
  BY <1>4, TreeAssumption
<1> QED BY <1>4, <1>5, <1>6 DEF WalkOK, v

\* An entry of the tree, and what a call of walk finds in it when it is one.
LEMMA SpotFits ==
    ASSUME NEW root \in TreeObjects, NEW x \in Waiting(root), Deep(x)
    PROVE  /\ Len(x.entry.path) <= Cardinality(TreeObjects)
           /\ x.entry.type = "tree" =>
                 x.entry.sha \in TreeObjects /\ Fits(root, x.entry.sha, x.entry.path, x.above)
<1> DEFINE e == x.entry
<1>1. e \in Spots(root) /\ x.above \in SUBSET TreeObjects /\ Cardinality(x.above) = Len(e.path)
  BY DEF Waiting, Deep
<1>2. PICK r \in Leading(root) : e = Spot(r, Len(r))
  BY <1>1 DEF Spots
<1>3. Len(r) \in Nat \ {0} /\ Len(r) \in 1..Len(r) /\ r[Len(r)] \in AllEntries
  BY RouteTypes
<1>4. e.type = r[Len(r)].type /\ e.sha = r[Len(r)].sha /\ Len(e.path) = Len(r)
  <2>1. Len(e.path) = Len(r)
    BY <1>2, <1>3, SpotLength
  <2> QED BY <1>2, <2>1 DEF Spot
<1> HIDE DEF e
<1>5. ASSUME e.type = "tree"
      PROVE  e.sha \in TreeObjects /\ Fits(root, e.sha, e.path, x.above)
  <2>1. e.sha \in TreeObjects
    BY <1>3, <1>4, <1>5, TreeAssumption
  <2>2. ASSUME NEW f \in Children(e.sha)
        PROVE  /\ Located(e.path, f) \in Spots(root)
               /\ Len(Located(e.path, f).path) = Len(e.path) + 1
    <3> DEFINE q == Append(r, f)
    <3>1. f \in AllEntries
      BY <2>1, <2>2 DEF AllEntries
    <3>2. q \in Leading(root) /\ Spot(q, Len(q)) = Located(e.path, f) /\ Len(q) = Len(r) + 1
      BY <1>2, <1>4, <1>5, <2>2, <3>1, RouteGoesOn
    <3> HIDE DEF q
    <3>3. Len(q) \in 1..Len(q)
      BY <1>3, <3>2
    <3>4. Len(Spot(q, Len(q)).path) = Len(q)
      BY <3>2, <3>3, SpotLength
    <3> QED BY <1>4, <3>2, <3>4 DEF Spots
  <2> QED BY <1>1, <2>1, <2>2 DEF Fits
<1>6. Len(e.path) <= Cardinality(TreeObjects)
  BY <1>1, Directories
<1> QED BY <1>5, <1>6 DEF e

\* The loop's turn before it goes into a subtree.
Collected(w) == [w EXCEPT !.entries = Append(@, Head(w.todo).entry), !.todo = Tail(@)]

LEMMA CollectedOK ==
    ASSUME NEW root \in TreeObjects, NEW n \in Nat, NEW w, WalkOK(w, root, n),
           w.error = Fine, w.todo # <<>>
    PROVE  LET x == Head(w.todo)
               v == Collected(w)
           IN  /\ x \in Waiting(root) /\ Deep(x) /\ v \in Walks(root) /\ v.error = Fine
               /\ \A j \in DOMAIN v.todo : Deep(v.todo[j])
               /\ \A j \in DOMAIN v.entries : Len(v.entries[j].path) <= Cardinality(TreeObjects)
               /\ Len(v.entries) = n + 1
               /\ \A r \in Leading(root) :
                     GoneThrough(v, r) \/ \E k \in 1..Len(r) : k # Len(r) /\ x.entry = Spot(r, k)
<1> DEFINE x == Head(w.todo)
           v == Collected(w)
           had == w.entries
           list == w.todo
<1>1. /\ w = [entries |-> had, todo |-> list, requests |-> w.requests, error |-> w.error]
      /\ had \in Seq(Spots(root)) /\ list \in Seq(Waiting(root)) /\ list # <<>>
      /\ w.requests \in Nat /\ w.error \in {Fine, LimitExceeded, Cyclic}
  BY DEF WalkOK, Walks
<1>2. v = [entries |-> Append(had, x.entry), todo |-> Tail(list), requests |-> w.requests, error |-> Fine]
  <2>1. v = [w EXCEPT !.entries = Append(had, x.entry), !.todo = Tail(list)]
    BY DEF Collected
  <2> HIDE DEF had, list, x, v
  <2> QED BY <1>1, <2>1
<1> HIDE DEF v, had, list
<1>3. /\ list[1] = Head(list) /\ list[1] \in Waiting(root) /\ 1 \in DOMAIN list
      /\ Tail(list) \in Seq(Waiting(root))
      /\ \A j \in DOMAIN Tail(list) : j + 1 \in DOMAIN list /\ Tail(list)[j] = list[j + 1]
      /\ \A j \in DOMAIN list : j # 1 => j - 1 \in DOMAIN Tail(list) /\ Tail(list)[j - 1] = list[j]
  BY <1>1
<1>4. x = list[1] /\ x \in Waiting(root) /\ Deep(x) /\ x.entry \in Spots(root)
  BY <1>3 DEF list, WalkOK, Waiting
<1>5. Len(x.entry.path) <= Cardinality(TreeObjects)
  BY <1>4, SpotFits
<1> HIDE DEF x
<1>6. /\ Append(had, x.entry) \in Seq(Spots(root)) /\ Len(Append(had, x.entry)) = Len(had) + 1
      /\ Len(had) + 1 \in DOMAIN Append(had, x.entry)
      /\ Append(had, x.entry)[Len(had) + 1] = x.entry
      /\ \A j \in DOMAIN had : j \in DOMAIN Append(had, x.entry) /\ Append(had, x.entry)[j] = had[j]
      /\ \A j \in DOMAIN Append(had, x.entry) : j = Len(had) + 1 \/ j \in DOMAIN had
  BY <1>1, <1>4
<1>7. v \in Walks(root) /\ v.error = Fine /\ v.todo = Tail(list) /\ v.entries = Append(had, x.entry)
  BY <1>1, <1>2, <1>3, <1>6 DEF Walks
<1>8. \A j \in DOMAIN v.todo : Deep(v.todo[j])
  BY <1>3, <1>7 DEF WalkOK, list
<1>9. \A j \in DOMAIN v.entries : Len(v.entries[j].path) <= Cardinality(TreeObjects)
  <2>1. \A j \in DOMAIN had : Len(had[j].path) <= Cardinality(TreeObjects)
    BY DEF WalkOK, had
  <2> QED BY <1>5, <1>6, <1>7, <2>1
<1>10. Len(v.entries) = n + 1
  BY <1>6, <1>7 DEF WalkOK, had
<1>11. ASSUME NEW r \in Leading(root)
       PROVE  GoneThrough(v, r) \/ \E k \in 1..Len(r) : k # Len(r) /\ x.entry = Spot(r, k)
  <2>1. GoneThrough(w, r)
    BY DEF WalkOK
  <2>2. CASE \E j \in DOMAIN had : had[j] = Spot(r, Len(r))
    BY <1>6, <1>7, <2>2 DEF GoneThrough
  <2>3. ASSUME NEW k \in 1..Len(r), NEW j \in DOMAIN list, list[j].entry = Spot(r, k)
        PROVE  GoneThrough(v, r) \/ (k # Len(r) /\ x.entry = Spot(r, k))
    <3>1. CASE j # 1
      <4>1. j - 1 \in DOMAIN v.todo /\ v.todo[j - 1].entry = Spot(r, k)
        BY <1>3, <1>7, <2>3, <3>1
      <4> QED BY <4>1 DEF GoneThrough
    <3>2. CASE j = 1 /\ k = Len(r)
      BY <1>4, <1>6, <1>7, <2>3, <3>2 DEF GoneThrough
    <3>3. CASE j = 1 /\ k # Len(r)
      BY <1>4, <2>3, <3>3
    <3> QED BY <3>1, <3>2, <3>3
  <2> QED BY <2>1, <2>2, <2>3 DEF GoneThrough, had, list
<1> QED BY <1>4, <1>7, <1>8, <1>9, <1>10, <1>11 DEF x, v

\* A turn that stops the walk, or that leaves no less of it to be done.
LEMMA WalkTurnsOn ==
    ASSUME NEW root \in TreeObjects, NEW n \in Nat, NEW w, WalkOK(w, root, n)
    PROVE  WalkOK(Turn(w), root, n + 1)
<1> DEFINE x == Head(w.todo)
           v == Collected(w)
           u == Turn(w)
<1>1. CASE w.error # Fine \/ w.todo = <<>>
  <2>1. u = w
    BY <1>1 DEF Turn
  <2> HIDE DEF u
  <2> QED BY <1>1, <2>1 DEF WalkOK, u
<1>2. CASE w.error = Fine /\ w.todo # <<>>
  <2>1. /\ x \in Waiting(root) /\ Deep(x) /\ v \in Walks(root) /\ v.error = Fine
        /\ \A j \in DOMAIN v.todo : Deep(v.todo[j])
        /\ \A j \in DOMAIN v.entries : Len(v.entries[j].path) <= Cardinality(TreeObjects)
        /\ Len(v.entries) = n + 1
        /\ \A r \in Leading(root) :
              GoneThrough(v, r) \/ \E k \in 1..Len(r) : k # Len(r) /\ x.entry = Spot(r, k)
    BY <1>2, CollectedOK
  <2>2. u = IF Len(v.entries) > MaxEntries THEN Stopped(v, LimitExceeded)
            ELSE IF x.entry.type = "tree" THEN Enter(v, x.entry.sha, x.entry.path, x.above)
            ELSE v
    BY <1>2 DEF Turn, Collected
  <2> SUFFICES WalkOK(u, root, n + 1)
    OBVIOUS
  <2> HIDE DEF u, v, x
  <2>3. Len(v.entries) <= MaxEntries \/ Len(v.entries) > MaxEntries
    BY <2>1, TreeAssumption
  <2>4. CASE Len(v.entries) > MaxEntries
    <3>1. u = Stopped(v, LimitExceeded)
      BY <2>2, <2>4
    <3>2. /\ u \in Walks(root) /\ u.error # Fine /\ u.entries = v.entries /\ u.todo = v.todo
      BY <2>1, <3>1 DEF Walks, Stopped, Fine, LimitExceeded
    <3> QED BY <2>1, <3>2 DEF WalkOK
  <2>5. CASE Len(v.entries) <= MaxEntries /\ x.entry.type # "tree"
    <3>1. ~(Len(v.entries) > MaxEntries)
      BY <2>1, <2>5, TreeAssumption
    <3>2. u = v
      BY <2>2, <2>5, <3>1
    <3>3. ASSUME NEW r \in Leading(root) PROVE GoneThrough(v, r)
      <4>1. ASSUME NEW k \in 1..Len(r), k # Len(r), x.entry = Spot(r, k) PROVE FALSE
        <5>1. r[k].type = "tree"
          BY <4>1, RouteTypes
        <5> QED BY <2>5, <4>1, <5>1 DEF Spot
      <4> QED BY <2>1, <4>1
    <3> QED BY <2>1, <2>5, <3>2, <3>3 DEF WalkOK
  <2>6. CASE Len(v.entries) <= MaxEntries /\ x.entry.type = "tree"
    <3> DEFINE t == x.entry.sha
               prefix == x.entry.path
    <3>1. ~(Len(v.entries) > MaxEntries)
      BY <2>1, <2>6, TreeAssumption
    <3>2. u = Enter(v, t, prefix, x.above)
      BY <2>2, <2>6, <3>1
    <3>3. t \in TreeObjects /\ Fits(root, t, prefix, x.above)
      BY <2>1, <2>6, SpotFits
    <3> HIDE DEF t, prefix
    <3>4. /\ u \in Walks(root) /\ u.entries = v.entries
          /\ \A j \in DOMAIN u.todo : Deep(u.todo[j])
          /\ u.error = Fine =>
                /\ \A j \in DOMAIN v.todo : \E i \in DOMAIN u.todo : u.todo[i] = v.todo[j]
                /\ \A e \in Children(t) : \E i \in DOMAIN u.todo : u.todo[i].entry = Located(prefix, e)
      BY <2>1, <3>2, <3>3, EnterKeeps
    <3>5. ASSUME u.error = Fine, NEW r \in Leading(root) PROVE GoneThrough(u, r)
      <4>1. CASE GoneThrough(v, r)
        <5>1. CASE \E j \in DOMAIN v.entries : v.entries[j] = Spot(r, Len(r))
          BY <3>4, <5>1 DEF GoneThrough
        <5>2. ASSUME NEW k \in 1..Len(r), NEW j \in DOMAIN v.todo, v.todo[j].entry = Spot(r, k)
              PROVE  GoneThrough(u, r)
          <6>1. PICK i \in DOMAIN u.todo : u.todo[i] = v.todo[j]
            BY <3>4, <3>5
          <6> QED BY <5>2, <6>1 DEF GoneThrough
        <5> QED BY <4>1, <5>1, <5>2 DEF GoneThrough
      <4>2. ASSUME NEW k \in 1..Len(r), k # Len(r), x.entry = Spot(r, k) PROVE GoneThrough(u, r)
        <5>1. Len(r) \in Nat /\ r[k + 1] \in Children(r[k].sha)
          BY <4>2, RouteTypes
        <5>2. t = r[k].sha /\ prefix = Spot(r, k).path
          BY <4>2 DEF Spot, t, prefix
        <5>3. Spot(r, k + 1) = Located(prefix, r[k + 1])
          BY <4>2, <5>2, SpotMoves
        <5>4. PICK i \in DOMAIN u.todo : u.todo[i].entry = Spot(r, k + 1)
          BY <3>4, <3>5, <5>1, <5>2, <5>3
        <5>5. k + 1 \in 1..Len(r)
          BY <4>2, <5>1
        <5> QED BY <5>4, <5>5 DEF GoneThrough
      <4> QED BY <2>1, <4>1, <4>2
    <3> QED BY <2>1, <2>6, <3>4, <3>5 DEF WalkOK
  <2> QED BY <2>3, <2>4, <2>5, <2>6
<1> QED BY <1>1, <1>2

\* A walk that is not stopped has collected the whole tree, each entry under
\* the names of the directories it is in.
LEMMA WalkIsWhole ==
    ASSUME NEW root \in TreeObjects, Walk(root).error = Fine
    PROVE  ToSet(Walk(root).entries) = EntriesOf(root)
<1> DEFINE N == MaxEntries + 1
<1>0. N \in Nat /\ MaxEntries \in Nat
  BY TreeAssumption
<1> HIDE DEF N
<1>1. PICK f : Turns(f, root, N) /\ Walk(root) = f[N]
  BY WalkTurns DEF N
<1>2. /\ f[0] = Enter(Untouched, root, <<>>, {})
      /\ \A n \in 0..N : n # 0 => f[n] = Turn(f[n - 1])
  <2>1. 0 \in 0..N
    BY <1>0
  <2> QED BY <1>1, <2>1, Zenon DEF Turns
<1> DEFINE Bad == {n \in 0..N : ~WalkOK(f[n], root, n)}
<1>3. Bad = {}
  <2> SUFFICES ASSUME Bad # {} PROVE FALSE
    OBVIOUS
  <2>1. PICK n \in Bad : \A m \in Bad : n <= m
    BY <1>0, FirstNat, Bad \in SUBSET Nat
  <2>2. n # 0
    BY <1>2, <2>1, WalkStarts
  <2>3. n - 1 \in 0..N /\ n - 1 \in Nat /\ (n - 1) + 1 = n /\ ~(n <= n - 1) /\ n \in 0..N
    BY <1>0, <2>1, <2>2
  <2>4. WalkOK(f[n - 1], root, n - 1)
    BY <2>1, <2>3
  <2>5. WalkOK(Turn(f[n - 1]), root, (n - 1) + 1)
    BY <2>3, <2>4, WalkTurnsOn
  <2>6. f[n] = Turn(f[n - 1])
    BY <1>2, <2>2, <2>3
  <2> QED BY <2>1, <2>3, <2>5, <2>6
<1> DEFINE w == Walk(root)
<1>4. WalkOK(w, root, N)
  BY <1>0, <1>1, <1>3
<1> HIDE DEF Bad, w
<1>5. /\ w \in Walks(root) /\ w.entries \in Seq(Spots(root)) /\ w.todo = <<>>
      /\ \A j \in DOMAIN w.entries : Len(w.entries[j].path) <= Cardinality(TreeObjects)
      /\ \A r \in Leading(root) : GoneThrough(w, r)
  <2>1. w.error = Fine
    BY DEF w
  <2>2. w.todo # <<>> => Len(w.entries) = N /\ Len(w.entries) <= MaxEntries
    BY <1>4, <2>1 DEF WalkOK
  <2>3. w.todo = <<>>
    BY <1>0, <2>2 DEF N
  <2> QED BY <1>4, <2>1, <2>3 DEF WalkOK, Walks
<1>6. ASSUME NEW e \in ToSet(w.entries) PROVE e \in EntriesOf(root)
  <2>1. PICK j \in DOMAIN w.entries : e = w.entries[j]
    BY <1>6 DEF ToSet
  <2>2. e \in Spots(root) /\ Len(e.path) <= Cardinality(TreeObjects)
    BY <1>5, <2>1
  <2>3. PICK r \in Leading(root) : e = Spot(r, Len(r))
    BY <2>2 DEF Spots
  <2>4. /\ r \in Seq(AllEntries) /\ Len(r) \in Nat \ {0} /\ Len(r) \in 1..Len(r)
        /\ r \in [1..Len(r) -> AllEntries]
    BY <2>3, RouteTypes
  <2>5. Len(r) <= Cardinality(TreeObjects) /\ Cardinality(TreeObjects) \in Nat
    BY <2>2, <2>3, <2>4, SpotLength, Directories
  <2>6. Len(r) \in 1..Cardinality(TreeObjects) /\ LeadsFrom(root, r)
    BY <2>3, <2>4, <2>5 DEF Leading
  <2>7. r \in Routes(root)
    BY <2>4, <2>6 DEF Routes
  <2>8. e = Whole(r)
    BY <2>3 DEF Spot, Whole
  <2> QED BY <2>7, <2>8 DEF EntriesOf
<1>7. ASSUME NEW e \in EntriesOf(root) PROVE e \in ToSet(w.entries)
  <2>1. PICK r \in Routes(root) : e = Whole(r)
    BY <1>7 DEF EntriesOf
  <2>2. PICK n \in 1..Cardinality(TreeObjects) : r \in [1..n -> AllEntries] /\ LeadsFrom(root, r)
    BY <2>1 DEF Routes
  <2>3. n \in Nat \ {0}
    BY <2>2, Directories
  <2>4. r \in Seq(AllEntries) /\ Len(r) = n /\ r # <<>>
    BY <2>2, <2>3
  <2>5. r \in Leading(root)
    BY <2>2, <2>4 DEF Leading
  <2>6. PICK j \in DOMAIN w.entries : w.entries[j] = Spot(r, Len(r))
    BY <1>5, <2>5 DEF GoneThrough
  <2>7. e = w.entries[j]
    BY <2>1, <2>6 DEF Spot, Whole
  <2> QED BY <2>7 DEF ToSet
<1> QED BY <1>6, <1>7 DEF w

\* What is stored of a tree that could be read whole is every file of it.
LEMMA InventoryIsWhole ==
    ASSUME NEW root \in TreeObjects, Inventory(root).whole
    PROVE  Inventory(root).files = FilesOf(root)
<1> DEFINE tree == get_complete_tree(root)
<1>1. tree.error = Fine /\ Inventory(root).files = Blobs(ToSet(tree.entries))
  <2> HIDE DEF tree
  <2> QED BY DEF Inventory, tree
<1>2. CASE root \in Truncates
  <2>1. tree = Walk(root)
    BY <1>2 DEF get_complete_tree
  <2> HIDE DEF tree
  <2>2. ToSet(tree.entries) = EntriesOf(root)
    BY <1>1, <2>1, WalkIsWhole
  <2> QED BY <1>1, <2>2 DEF FilesOf
<1>3. CASE root \notin Truncates
  <2>1. tree.entries = WholeListing[root]
    BY <1>3 DEF get_complete_tree, Untouched
  <2> HIDE DEF tree
  <2>2. ToSet(tree.entries) = EntriesOf(root)
    BY <1>3, <2>1, TreeAssumption
  <2> QED BY <1>1, <2>2 DEF FilesOf
<1> QED BY <1>2, <1>3

-----------------------------------------------------------------------------
(* The snapshots that are stored *)

\* A stored snapshot is of a commit whose tree could be read whole.
SnapshotsWhole ==
    \A k \in DOMAIN snapshots :
        LET commit == snapshots[k].commit
        IN  commit \in Commits /\ FilesAt[commit].whole /\ snapshots[k].files = FilesAt[commit].files

LEMMA SnapshotsWholeStep ==
    IInv /\ GInv /\ TInv /\ SnapshotsWhole /\ [AnalysisNext]_allVars => SnapshotsWhole'
<1> SUFFICES ASSUME IInv, GInv, TInv, SnapshotsWhole, [AnalysisNext]_allVars PROVE SnapshotsWhole'
  OBVIOUS
<1>1. CASE UNCHANGED snapshots
  BY <1>1 DEF SnapshotsWhole
<1>2. ASSUME NEW c \in Clients, SnapshotPersist(c) PROVE SnapshotsWhole'
  <2> DEFINE q == req[c]
             new == Snapshot(q.repo, q.commit)
  <2>1. q.commit \in Commits /\ FilesAt[q.commit].whole
    BY <1>2 DEF SnapshotPersist, In, TInv, RequestsProper, Proper
  <2>2. new.commit \in Commits /\ FilesAt[new.commit].whole /\ new.files = FilesAt[new.commit].files
    BY <2>1 DEF Snapshot
  <2>3. snapshots' = snapshots \/ snapshots' = Append(snapshots, new)
    BY <1>2 DEF SnapshotPersist, Inserted
  <2> HIDE DEF new
  <2>4. CASE snapshots' = Append(snapshots, new)
    <3>1. /\ DOMAIN snapshots' = DOMAIN snapshots \cup {Len(snapshots) + 1}
          /\ \A k \in DOMAIN snapshots : snapshots'[k] = snapshots[k]
          /\ snapshots'[Len(snapshots) + 1] = new
      BY <2>4, AppendGrows DEF GInv
    <3> QED BY <2>2, <3>1 DEF SnapshotsWhole
  <2> QED BY <1>1, <2>3, <2>4
<1> QED BY <1>1, <1>2, SnapshotsComeFromPersist

LEMMA WholeIsComplete == SnapshotsWhole => SnapshotComplete
<1> SUFFICES ASSUME SnapshotsWhole, NEW k \in DOMAIN snapshots
             PROVE  snapshots[k].files = Reference[snapshots[k].commit]
  BY DEF SnapshotComplete
<1> DEFINE commit == snapshots[k].commit
           root == RootOf[commit]
<1>1. commit \in Commits /\ FilesAt[commit].whole /\ snapshots[k].files = FilesAt[commit].files
  BY DEF SnapshotsWhole
<1> HIDE DEF commit
<1>2. root \in TreeObjects /\ FilesAt[commit] = Inventory(root)
  BY <1>1, SnapshotAssumption
<1>3. Inventory(root).files = FilesOf(root)
  BY <1>1, <1>2, InventoryIsWhole
<1>4. Reference[commit] = FilesOf(root)
  BY <1>1 DEF Reference
<1> QED BY <1>1, <1>2, <1>3, <1>4 DEF commit

\* The inventory of a stored snapshot is the whole tree of its commit, every
\* file of it under its whole path, whether GitHub listed it or the client
\* walked it (get_complete_tree, create_snapshot).
THEOREM SnapshotsAreComplete == AnalysisSpec => []SnapshotComplete
<1>1. AnalysisInit => SnapshotsWhole
  BY DEF AnalysisInit, Init, SnapshotsWhole
<1> QED BY <1>1, ConnectionInit, AnalysisStep, GroundedInit, GroundedStep, TypesInit, TypesStep,
           SnapshotsWholeStep, WholeIsComplete, PTL DEF AnalysisSpec

=============================================================================
