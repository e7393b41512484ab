----------------------------- MODULE StormGroups -----------------------------
(***************************************************************************)
(* Correlation and storm grouping: the part of persist_and_observe         *)
(* (src/engine/process_event.py) that follows the persisted decision, the  *)
(* co-occurrence edges (src/graph/observe_incident.py, edge_decay.py) and  *)
(* the groups made of them (src/graph/storm_grouping.py).                  *)
(*                                                                         *)
(* Every action is one transaction under Database.write_lock.  What the    *)
(* engine decides about an incident is in IncidentEngine; here an incident *)
(* is active (OPEN, ACKNOWLEDGED or QUIESCENT) or RESOLVED.  Incidents are *)
(* numbered by first_alert_at, then incident_id, the order the queries of  *)
(* storm_grouping use; alerts arrive late, so they are created in any      *)
(* order.  Groups are numbered by created_at.  A weight is a number of     *)
(* halves and decay rounds down.                                           *)
(***************************************************************************)
EXTENDS Integers, FiniteSetsExt, SequencesExt

CONSTANTS
    Ids,            \* incident_id, numbered by first_alert_at
    Scope,          \* scope_key of each incident
    Fingerprint,          \* stable_fingerprint: it does not contain the scope
    Severities,     \* severity_final as a rank, 0 the most urgent
    Rounds,         \* a round, by the monitors' clocks: the incidents whose last alert is
                    \* ahead of this one, and half-lives since each was seen with it
    Threshold,      \* GROUP_EDGE_THRESHOLD, in halves
    MaxNeighbours,  \* storm_grouping.MAX_NEIGHBOURS
    MaxRecent,      \* CORRELATION_MAX_NEIGHBOURS
    \* Bounds of the instance, none of them in the code:
    MaxWeight,      \* where a weight stops growing
    MaxAlerts,
    MaxCloses,
    MaxLulls        \* lulls longer than the correlation window

ASSUME StormAssumption ==
    /\ Ids \subseteq Nat /\ IsFiniteSet(Ids)
    /\ DOMAIN Scope = Ids /\ DOMAIN Fingerprint = Ids
    /\ Severities \subseteq Nat
    /\ Rounds \subseteq [ahead : SUBSET Ids, age : [Ids -> Nat]]
    /\ {Threshold, MaxNeighbours, MaxRecent} \subseteq Nat \ {0}
    /\ {MaxWeight, MaxAlerts, MaxCloses, MaxLulls} \subseteq Nat

\* What an age divides a weight by.
ASSUME DecayAssumption ==
    \A round \in Rounds, i \in Ids : 2^round.age[i] \in Nat \ {0}

VARIABLES
    status,     \* incidents.status
    severity,   \* incidents.severity
    window,     \* incidents whose last_ingested_at is inside the correlation window
    edge,       \* edges.weight of each ordered pair, 0 for no edge
    member,     \* incidents.correlation_group_id
    groups,     \* the incident_groups table
    budget

vars == <<status, severity, window, edge, member, groups, budget>>

NoGroup == 0

Exists(i) == status[i] # "none"

\* persist_decision stamps last_ingested_at with the time of the transaction.
Touched(i) == window \cup {i}

-----------------------------------------------------------------------------
(* observe_incident *)

\* The active incidents of the scope inside the window.  When there are more
\* than MaxRecent the ones seen last are taken, which the alert's own incident
\* is among; the model takes any.
Recents(i, st) ==
    LET all == {j \in Touched(i) : Scope[j] = Scope[i] /\ st[j] = "ACTIVE"}
    IN  {near \in SUBSET all :
            /\ Cardinality(near) = Min({MaxRecent, Cardinality(all)})
            /\ i \in all => i \in near}

\* Every active incident that shares a fingerprint with one of them: the
\* second query of the code does not ask for the scope.
Participants(near, st) ==
    {j \in Ids : st[j] = "ACTIVE" /\ \E r \in near : Fingerprint[j] = Fingerprint[r]}

\* increment_weights: what is left of the earlier evidence, and one more round.
Increment(w, age) ==
    LET grown == IF w = 0 THEN 2 ELSE (w \div 2^age) + 2
    IN  IF grown > MaxWeight THEN MaxWeight ELSE grown

\* A round gives every participant an edge with the current incident, from
\* the one whose alert is older by the monitors' clocks to the younger.
Observe(i, party, round) ==
    LET others == party \ {i}
        leads  == others \ round.ahead
        lags   == others \cap round.ahead
    IN  IF i \in party
        THEN [p \in Ids \X Ids |->
                CASE p \in leads \X {i} -> Increment(edge[p], round.age[p[1]])
                  [] p \in {i} \X lags  -> Increment(edge[p], round.age[p[2]])
                  [] OTHER              -> edge[p]]
        ELSE edge

-----------------------------------------------------------------------------
(* storm_grouping *)

MembersOf(g, mem) == {i \in Ids : mem[i] = g}

Link(i, j, e) == IF e[<<i, j>>] > e[<<j, i>>] THEN e[<<i, j>>] ELSE e[<<j, i>>]

\* _strong_neighbours, before its LIMIT.
Correlated(i, st, e) ==
    {j \in Ids \ {i} : st[j] = "ACTIVE" /\ Scope[j] = Scope[i] /\ Link(i, j, e) >= Threshold}

\* ORDER BY weight DESC LIMIT MAX_NEIGHBOURS: equal weights come in any order.
StrongNeighbours(i, st, e) ==
    LET all == Correlated(i, st, e)
    IN  {top \in SUBSET all :
            /\ Cardinality(top) = Min({MaxNeighbours, Cardinality(all)})
            /\ \A j \in top, k \in all \ top : Link(i, j, e) >= Link(i, k, e)}

\* _rank_group_root: the member with the most outbound weight inside the
\* group; without edges, the first member.
Outbound(i, inner) == MapThenSumSet(LAMBDA p : inner[p], {p \in DOMAIN inner : p[1] = i})

GroupRoot(members, inner) ==
    LET leads == {i \in members : Outbound(i, inner) > 0}
        Before(i, j) == \/ Outbound(i, inner) > Outbound(j, inner)
                        \/ Outbound(i, inner) = Outbound(j, inner) /\ i <= j
    IN  IF leads = {} THEN Min(members)
        ELSE CHOOSE i \in leads : \A j \in leads : Before(i, j)

\* What _refresh_group derives from the members: severity of the most urgent,
\* OPEN while one is active, the root, and how many there are.
Facts(members, st, sev, e) ==
    [root     |-> GroupRoot(members, [p \in members \X members |-> e[p]]),
     severity |-> Min({sev[i] : i \in members}),
     status   |-> IF \E i \in members : st[i] = "ACTIVE" THEN "OPEN" ELSE "RESOLVED",
     count    |-> Cardinality(members)]

\* The table after _refresh_group(g), given the rows before it.
Refresh(g, rows, mem, st, sev, e) ==
    LET members == MembersOf(g, mem)
    IN  IF members = {}
        THEN [h \in DOMAIN rows \ {g} |-> rows[h]]
        ELSE [rows EXCEPT ![g] = [anchor |-> @.anchor, facts |-> Facts(members, st, sev, e)]]

\* Mutant: a storm is recomputed by new alerts only.
RefreshForNever(i, st, sev, e) == UNCHANGED <<groups, member>>

\* refresh_group_for_member: nothing for an incident outside every storm.
RefreshFor(i, st, sev, e) ==
    /\ groups' = IF member[i] \in DOMAIN groups
                 THEN Refresh(member[i], groups, member, st, sev, e) ELSE groups
    /\ UNCHANGED member

\* Mutant: the rows of the absorbed groups go, their members stay.
MergeRowsOnly(survivor, absorbed) == member

\* _merge_groups: all members of the absorbed groups move, and their rows go.
Merge(survivor, absorbed) ==
    [i \in Ids |-> IF member[i] \in absorbed THEN survivor ELSE member[i]]

\* Mutant: the number of the youngest group is given again.
NewGroupAgain == Max({NoGroup} \cup DOMAIN groups)

NewGroup == Max({NoGroup} \cup DOMAIN groups) + 1

NewRow(anchor) ==
    [anchor |-> anchor, facts |-> [root |-> anchor, severity |-> 0, status |-> "OPEN", count |-> 1]]

\* assign_group once there are neighbours: the group with number g takes the
\* incident and its neighbours, and the members of the absorbed groups.
JoinGroup(g, rows, party, absorbed, st, sev, e) ==
    /\ member' = [i \in Ids |-> IF i \in party THEN g ELSE Merge(g, absorbed)[i]]
    /\ groups' = Refresh(g, rows, member', st, sev, e)

GroupsOf(party) == {member[i] : i \in party} \ {NoGroup}

\* Mutant: the youngest group survives.
JoinYoungest(party, st, sev, e) ==
    \E g \in GroupsOf(party) :
        /\ \A h \in GroupsOf(party) : g >= h
        /\ LET absorbed == GroupsOf(party) \ {g}
           IN  JoinGroup(g, [h \in DOMAIN groups \ absorbed |-> groups[h]], party, absorbed, st, sev, e)

JoinOldest(party, st, sev, e) ==
    \E g \in GroupsOf(party) :
        /\ \A h \in GroupsOf(party) : g <= h
        /\ LET absorbed == GroupsOf(party) \ {g}
           IN  JoinGroup(g, [h \in DOMAIN groups \ absorbed |-> groups[h]], party, absorbed, st, sev, e)

StartGroup(party, st, sev, e) ==
    /\ GroupsOf(party) = {}
    /\ \E anchor \in party :
        /\ \A i \in party : anchor <= i
        /\ JoinGroup(NewGroup,
                     [h \in DOMAIN groups \cup {NewGroup} |->
                         IF h = NewGroup THEN NewRow(anchor) ELSE groups[h]],
                     party, {}, st, sev, e)

\* assign_group, and the refresh of persist_and_observe when it has no answer.
AssignGroup(i, st, sev, e) ==
    IF Correlated(i, st, e) = {}
    THEN RefreshFor(i, st, sev, e)
    ELSE \E near \in StrongNeighbours(i, st, e) :
            JoinOldest({i} \cup near, st, sev, e) \/ StartGroup({i} \cup near, st, sev, e)

-----------------------------------------------------------------------------

Init ==
    /\ status = [i \in Ids |-> "none"]
    /\ severity = [i \in Ids |-> 0]
    /\ window = {}
    /\ edge = [p \in Ids \X Ids |-> 0]
    /\ member = [i \in Ids |-> NoGroup]
    /\ groups = [g \in {} |-> NewRow(0)]
    /\ budget = [alerts |-> MaxAlerts, closes |-> MaxCloses, lulls |-> MaxLulls]

\* One alert that is not a protected critical: the incident of its identity is
\* created, updated, reopened or, by an event that says so, resolved; then the
\* round is observed and the incident grouped, in the same transaction.
SameIdentity(i, j) == Scope[i] = Scope[j] /\ Fingerprint[i] = Fingerprint[j]

Alert(i, to, sev, round) ==
    /\ budget.alerts > 0
    /\ \/ Exists(i)
       \/ to = "ACTIVE" /\ ~\E j \in Ids : Exists(j) /\ SameIdentity(i, j)
    /\ budget' = [budget EXCEPT !.alerts = @ - 1]
    /\ status' = [status EXCEPT ![i] = to]
    /\ severity' = [severity EXCEPT ![i] = sev]
    /\ window' = Touched(i)
    /\ \E near \in Recents(i, status') :
        edge' = Observe(i, Participants(near, status'), round)
    /\ AssignGroup(i, status', severity', edge')

\* A protected critical opens an incident of its own, neither observed nor
\* grouped: persist_and_observe returns after the persist.
Bypass(i) ==
    /\ budget.alerts > 0
    /\ ~Exists(i)
    /\ budget' = [budget EXCEPT !.alerts = @ - 1]
    /\ status' = [status EXCEPT ![i] = "ACTIVE"]
    /\ severity' = [severity EXCEPT ![i] = 0]
    /\ window' = Touched(i)
    /\ UNCHANGED <<edge, member, groups>>

\* apply_external_action with a resolve, from a callback or the sweeper.
Close(i) ==
    /\ budget.closes > 0
    /\ status[i] = "ACTIVE"
    /\ budget' = [budget EXCEPT !.closes = @ - 1]
    /\ status' = [status EXCEPT ![i] = "RESOLVED"]
    /\ window' = Touched(i)
    /\ RefreshFor(i, status', severity, edge)
    /\ UNCHANGED <<severity, edge>>

\* The timer worker makes an incident QUIESCENT, which is still active, and
\* its transaction stamps last_ingested_at like any other.
Quiesce(i) ==
    /\ status[i] = "ACTIVE" /\ i \notin window
    /\ window' = Touched(i)
    /\ UNCHANGED <<status, severity, edge, member, groups, budget>>

\* A lull longer than the correlation window.
Lull ==
    /\ budget.lulls > 0 /\ window # {}
    /\ budget' = [budget EXCEPT !.lulls = @ - 1]
    /\ window' = {}
    /\ UNCHANGED <<status, severity, edge, member, groups>>

Next ==
    \/ \E i \in Ids, to \in {"ACTIVE", "RESOLVED"}, sev \in Severities, round \in Rounds :
        Alert(i, to, sev, round)
    \/ \E i \in Ids : Bypass(i) \/ Close(i) \/ Quiesce(i)
    \/ Lull

Spec == Init /\ [][Next]_vars

-----------------------------------------------------------------------------
(* Properties *)

GroupFacts ==
    [root : Ids, severity : Nat, status : {"OPEN", "RESOLVED"}, count : Nat]

\* The tables hold what their columns may hold.
TypeOK ==
    /\ status \in [Ids -> {"none", "ACTIVE", "RESOLVED"}]
    /\ severity \in [Ids -> Nat]
    /\ window \subseteq Ids
    /\ edge \in [Ids \X Ids -> Nat]
    /\ member \in [Ids -> Nat]
    /\ DOMAIN groups \subseteq Nat \ {NoGroup}
    /\ \A g \in DOMAIN groups : groups[g] \in [anchor : Ids, facts : GroupFacts]
    /\ budget \in [alerts : Nat, closes : Nat, lulls : Nat]

\* A storm hangs together whatever merges it went through: no incident points at
\* a group that was merged away, the incident that owns the storm's card is one
\* of its members, and its members are of one scope, although edges are not: two
\* scopes may share a fingerprint, and observe_incident links across them.
StormIntact ==
    /\ \A i \in Ids : member[i] # NoGroup => member[i] \in DOMAIN groups
    /\ \A g \in DOMAIN groups : member[groups[g].anchor] = g
    /\ \A i, j \in Ids : member[i] = member[j] /\ member[i] # NoGroup => Scope[i] = Scope[j]

\* Severity, size, root and whether the storm is over are always what its
\* members and edges say now: alerts, merges, callbacks and sweeps all leave
\* the incident_groups row in step with tables it does not own.
GroupFactsFresh ==
    \A g \in DOMAIN groups :
        groups[g].facts = Facts(MembersOf(g, member), status, severity, edge)

\* Storms only grow: incidents of one storm stay together through every merge,
\* and the storm they end up in is theirs or an older one, whose anchor already
\* owns a card.
StormsOnlyGrow ==
    [][\A i \in Ids : member[i] # NoGroup =>
          /\ member'[i] # NoGroup /\ member'[i] <= member[i]
          /\ \A j \in Ids : member[j] = member[i] => member'[j] = member'[i]
          /\ groups'[member'[i]].anchor = groups[member'[i]].anchor]_vars

==============================================================================
