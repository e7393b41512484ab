-------------------------- MODULE StormGroups_proofs --------------------------
(***************************************************************************)
(* Storm groups hang together, only grow, and are in step with their       *)
(* members, for any number of incidents, scopes, rounds and merges.        *)
(*                                                                         *)
(* How many neighbours a query returns, which ones, and how weights grow   *)
(* and decay play no part in that: all that is used of a round is that it  *)
(* changes edges of the alert's own incident only.  The types at the end   *)
(* do need the weights: the root of a group is where their sum is highest, *)
(* and is a member because sums of numbers over a finite set are numbers.  *)
(***************************************************************************)
EXTENDS StormGroups, FiniteSetTheorems, WellFoundedInduction, TLAPS

USE StormAssumption DEF NoGroup

\* Group numbers are positive and bounded, so the next one is new; an incident
\* that was never seen is in no group.
Structure ==
    /\ member \in [Ids -> Nat]
    /\ DOMAIN groups \subseteq Nat \ {NoGroup}
    /\ \A g \in DOMAIN groups : groups[g].anchor \in Ids
    /\ \E b \in Nat : \A g \in DOMAIN groups : g <= b
    /\ StormIntact

\* What StormsOnlyGrow says of one step.
Grown ==
    \A i \in Ids : member[i] # NoGroup =>
        /\ member'[i] # NoGroup /\ member'[i] <= member[i]
        /\ \A j \in Ids : member[j] = member[i] => member'[j] = member'[i]
        /\ groups'[member'[i]].anchor = groups[member'[i]].anchor

\* What a call of assign_group leaves: one group holds the party and is
\* refreshed, the others are as they were.
Joined(party, st, sev, e) ==
    \E g \in DOMAIN groups' :
        /\ \A i \in party : member'[i] = g
        /\ \A i \in Ids \ party : member'[i] # NoGroup => member[i] # NoGroup
        /\ groups'[g].facts = Facts(MembersOf(g, member'), st, sev, e)
        /\ \A h \in DOMAIN groups' \ {g} :
              /\ h \in DOMAIN groups /\ groups'[h] = groups[h]
              /\ MembersOf(h, member') = MembersOf(h, member)

-----------------------------------------------------------------------------

LEMMA BoundedHasMax ==
    ASSUME NEW S \in SUBSET Nat, S # {}, NEW b \in Nat, \A x \in S : x <= b
    PROVE  Max(S) \in S /\ \A x \in S : Max(S) >= x
<1> DEFINE Bounds == {n \in Nat : \A x \in S : x <= n}
           Less   == OpToRel(<, Nat)
<1>1. \E n \in Bounds : \A m \in Bounds : ~(<<m, n>> \in Less)
  <2>1. IsWellFoundedOn(Less, Nat)
    BY NatLessThanWellFounded
  <2> QED BY <2>1, WFMin, Bounds # {}, Bounds \subseteq Nat
<1>2. PICK n \in Bounds : \A m \in Bounds : ~(m < n)
  BY <1>1 DEF OpToRel
<1>3. n \in S
  <2> SUFFICES ASSUME n \notin S PROVE FALSE
    OBVIOUS
  <2>1. \A x \in S : x <= n - 1 /\ n - 1 \in Nat
    OBVIOUS
  <2>2. n - 1 \in Bounds
    BY <2>1
  <2> QED BY <1>2, <2>2
<1>4. \E x \in S : \A y \in S : x >= y
  BY <1>3
<1> QED BY <1>4 DEF Max

\* The number of a new group is not in use.
LEMMA NewGroupIsNew ==
    ASSUME Structure
    PROVE  /\ NewGroup \in Nat \ {NoGroup}
           /\ \A g \in DOMAIN groups : g < NewGroup
<1> DEFINE S == {NoGroup} \cup DOMAIN groups
<1>1. PICK b \in Nat : \A g \in DOMAIN groups : g <= b
  BY DEF Structure
<1>2. S \in SUBSET Nat /\ S # {} /\ \A x \in S : x <= b
  BY <1>1 DEF Structure
<1> HIDE DEF S
<1>3. Max(S) \in S /\ \A x \in S : Max(S) >= x
  BY <1>2, BoundedHasMax
<1>4. Max(S) \in Nat
  BY <1>2, <1>3
<1>5. NewGroup = Max(S) + 1
  BY Zenon DEF NewGroup, S
<1>6. \A g \in DOMAIN groups : g \in S /\ g \in Nat
  BY DEF S, Structure
<1> QED BY <1>3, <1>4, <1>5, <1>6

\* A refresh of a group with members rewrites its facts and nothing else.
LEMMA RefreshOfMembers ==
    ASSUME NEW g, NEW rows, NEW mem, NEW st, NEW sev, NEW e,
           MembersOf(g, mem) # {}, g \in DOMAIN rows
    PROVE  LET new == Refresh(g, rows, mem, st, sev, e)
           IN  /\ DOMAIN new = DOMAIN rows
               /\ \A h \in DOMAIN rows \ {g} : new[h] = rows[h]
               /\ new[g].anchor = rows[g].anchor
               /\ new[g].facts = Facts(MembersOf(g, mem), st, sev, e)
BY DEF Refresh

\* The oldest group of a party takes it and the members of the other groups.
LEMMA OldestTakesAll ==
    ASSUME Structure, NEW st, NEW sev, NEW e, NEW party \in SUBSET Ids, party # {},
           \A i, j \in party : Scope[i] = Scope[j],
           JoinOldest(party, st, sev, e)
    PROVE  Structure' /\ Grown /\ Joined(party, st, sev, e)
<1>1. PICK g \in GroupsOf(party) :
        /\ \A h \in GroupsOf(party) : g <= h
        /\ JoinGroup(g, [h \in DOMAIN groups \ (GroupsOf(party) \ {g}) |-> groups[h]], party,
                     GroupsOf(party) \ {g}, st, sev, e)
  BY DEF JoinOldest
<1> DEFINE absorbed == GroupsOf(party) \ {g}
           rows == [h \in DOMAIN groups \ absorbed |-> groups[h]]
<1>2. \A h \in GroupsOf(party) : h \in DOMAIN groups /\ \E i \in party : member[i] = h
  BY DEF GroupsOf, Structure, StormIntact
<1>3. g \in DOMAIN groups /\ g \notin absorbed /\ g # NoGroup /\ g \in Nat
  BY <1>1, <1>2 DEF Structure
<1>4. /\ member' \in [Ids -> Nat]
      /\ \A i \in Ids : member'[i] = IF i \in party \/ member[i] \in absorbed THEN g ELSE member[i]
  BY <1>1, <1>3 DEF JoinGroup, Merge, Structure
<1>5. MembersOf(g, member') # {}
  BY <1>4 DEF MembersOf
<1>6. /\ DOMAIN groups' = DOMAIN groups \ absorbed
      /\ \A h \in DOMAIN groups' \ {g} : groups'[h] = groups[h]
      /\ groups'[g].anchor = groups[g].anchor
      /\ groups'[g].facts = Facts(MembersOf(g, member'), st, sev, e)
  <2>1. groups' = Refresh(g, rows, member', st, sev, e)
    BY <1>1 DEF JoinGroup
  <2>2. g \in DOMAIN rows /\ DOMAIN rows = DOMAIN groups \ absorbed
        /\ \A h \in DOMAIN rows : rows[h] = groups[h]
    BY <1>3
  <2> HIDE DEF rows
  <2> QED BY <1>5, <2>1, <2>2, RefreshOfMembers
<1>7. \A i \in Ids : i \in party /\ member[i] # NoGroup => member[i] \in absorbed \cup {g}
  BY DEF GroupsOf
<1> HIDE DEF absorbed, rows
<1>8. \A i \in Ids : member'[i] = g => \E j \in party : Scope[i] = Scope[j]
  <2> SUFFICES ASSUME NEW i \in Ids, member'[i] = g PROVE \E j \in party : Scope[i] = Scope[j]
    OBVIOUS
  <2>1. CASE i \in party
    BY <2>1
  <2>2. CASE i \notin party
    <3>1. member[i] \in GroupsOf(party)
      BY <1>1, <1>4, <2>2 DEF absorbed
    <3>2. PICK j \in party : member[j] = member[i]
      BY <1>2, <3>1
    <3> QED BY <1>2, <3>1, <3>2 DEF Structure, StormIntact
  <2> QED BY <2>1, <2>2
<1>9. StormIntact'
  <2>1. \A i \in Ids : member'[i] # NoGroup => member'[i] \in DOMAIN groups'
    BY <1>3, <1>4, <1>6 DEF Structure, StormIntact
  <2>2. \A h \in DOMAIN groups' : member'[groups'[h].anchor] = h
    <3> SUFFICES ASSUME NEW h \in DOMAIN groups' PROVE member'[groups'[h].anchor] = h
      OBVIOUS
    <3>1. /\ groups'[h].anchor = groups[h].anchor /\ groups[h].anchor \in Ids
          /\ member[groups[h].anchor] = h /\ h \notin absorbed /\ h # NoGroup
      BY <1>6 DEF Structure, StormIntact
    <3> QED BY <1>4, <1>7, <3>1
  <2>3. \A i, j \in Ids : member'[i] = member'[j] /\ member'[i] # NoGroup => Scope[i] = Scope[j]
    <3> SUFFICES ASSUME NEW i \in Ids, NEW j \in Ids, member'[i] = member'[j], member'[i] # NoGroup
                 PROVE  Scope[i] = Scope[j]
      OBVIOUS
    <3>1. CASE member'[i] = g
      BY <1>8, <3>1
    <3>2. CASE member'[i] # g
      BY <1>4, <3>2 DEF Structure, StormIntact
    <3> QED BY <3>1, <3>2
  <2> QED BY <2>1, <2>2, <2>3 DEF StormIntact
<1>10. Structure'
  <2>1. \E b \in Nat : \A h \in DOMAIN groups' : h <= b
    BY <1>6 DEF Structure
  <2>2. \A h \in DOMAIN groups' : groups'[h].anchor \in Ids
    BY <1>6 DEF Structure
  <2> QED BY <1>4, <1>6, <1>9, <2>1, <2>2 DEF Structure
<1>11. Grown
  <2> SUFFICES ASSUME NEW i \in Ids, member[i] # NoGroup
               PROVE  /\ member'[i] # NoGroup /\ member'[i] <= member[i]
                      /\ \A j \in Ids : member[j] = member[i] => member'[j] = member'[i]
                      /\ groups'[member'[i]].anchor = groups[member'[i]].anchor
    BY DEF Grown
  <2>1. member[i] \in Nat /\ member[i] \in DOMAIN groups
    BY DEF Structure, StormIntact
  <2>2. i \in party \/ member[i] \in absorbed => g <= member[i]
    BY <1>1, <1>7 DEF absorbed
  <2>3. member'[i] # NoGroup /\ member'[i] <= member[i]
    BY <1>3, <1>4, <2>1, <2>2
  <2>4. \A j \in Ids : member[j] = member[i] => member'[j] = member'[i]
    BY <1>4, <1>7
  <2>5. groups'[member'[i]].anchor = groups[member'[i]].anchor
    BY <1>4, <1>6, <2>1
  <2> QED BY <2>3, <2>4, <2>5
<1>12. Joined(party, st, sev, e)
  <2>1. \A h \in DOMAIN groups' \ {g} : MembersOf(h, member') = MembersOf(h, member)
    <3> SUFFICES ASSUME NEW h \in DOMAIN groups', h # g, NEW i \in Ids
                 PROVE  member'[i] = h <=> member[i] = h
      BY DEF MembersOf
    <3>1. h \notin absorbed /\ h # NoGroup
      BY <1>6 DEF Structure
    <3> QED BY <1>4, <1>7, <3>1
  <2>2. \A i \in Ids \ party : member'[i] # NoGroup => member[i] # NoGroup
    BY <1>4 DEF absorbed, GroupsOf
  <2> QED BY <1>3, <1>4, <1>6, <2>1, <2>2 DEF Joined
<1> QED BY <1>10, <1>11, <1>12

\* A party outside every group gets a group of its own.
LEMMA StartIsFresh ==
    ASSUME Structure, NEW st, NEW sev, NEW e, NEW party \in SUBSET Ids, party # {},
           \A i, j \in party : Scope[i] = Scope[j],
           StartGroup(party, st, sev, e)
    PROVE  Structure' /\ Grown /\ Joined(party, st, sev, e)
<1> DEFINE g == NewGroup
           rows(a) == [h \in DOMAIN groups \cup {g} |-> IF h = g THEN NewRow(a) ELSE groups[h]]
<1>1. PICK anchor \in party : JoinGroup(g, rows(anchor), party, {}, st, sev, e)
  BY DEF StartGroup
<1>2. g \in Nat \ {NoGroup} /\ \A h \in DOMAIN groups : h < g
  BY NewGroupIsNew
<1> HIDE DEF g
<1>3. /\ DOMAIN rows(anchor) = DOMAIN groups \cup {g} /\ g \notin DOMAIN groups
      /\ rows(anchor)[g].anchor = anchor
      /\ \A h \in DOMAIN groups : rows(anchor)[h] = groups[h]
  <2>1. g \notin DOMAIN groups
    BY <1>2 DEF Structure
  <2> QED BY <2>1 DEF NewRow
<1>4. /\ member' \in [Ids -> Nat]
      /\ \A i \in Ids : member'[i] = IF i \in party THEN g ELSE member[i]
  BY <1>1, <1>2 DEF JoinGroup, Merge, Structure
<1>5. \A i \in party : member[i] = NoGroup
  BY DEF StartGroup, GroupsOf
<1>6. /\ DOMAIN groups' = DOMAIN groups \cup {g}
      /\ \A h \in DOMAIN groups : groups'[h] = groups[h]
      /\ groups'[g].anchor = anchor
      /\ groups'[g].facts = Facts(MembersOf(g, member'), st, sev, e)
  <2>1. groups' = Refresh(g, rows(anchor), member', st, sev, e)
    BY <1>1 DEF JoinGroup
  <2>2. MembersOf(g, member') # {}
    BY <1>4 DEF MembersOf
  <2> HIDE DEF rows
  <2> QED BY <1>3, <2>1, <2>2, RefreshOfMembers
<1>7. \A i \in Ids : member[i] # g
  BY <1>2, <1>3 DEF Structure, StormIntact
<1>8. StormIntact'
  <2>1. \A i \in Ids : member'[i] # NoGroup => member'[i] \in DOMAIN groups'
    BY <1>4, <1>6 DEF Structure, StormIntact
  <2>2. \A h \in DOMAIN groups' : member'[groups'[h].anchor] = h
    <3> SUFFICES ASSUME NEW h \in DOMAIN groups, h # g PROVE member'[groups'[h].anchor] = h
      BY <1>3, <1>4, <1>6
    <3>1. /\ groups'[h].anchor = groups[h].anchor /\ groups[h].anchor \in Ids
          /\ member[groups[h].anchor] = h /\ h # NoGroup
      BY <1>6 DEF Structure, StormIntact
    <3> QED BY <1>4, <1>5, <3>1
  <2>3. \A i, j \in Ids : member'[i] = member'[j] /\ member'[i] # NoGroup => Scope[i] = Scope[j]
    BY <1>4, <1>7 DEF Structure, StormIntact
  <2> QED BY <2>1, <2>2, <2>3 DEF StormIntact
<1>9. Structure'
  <2>1. \A h \in DOMAIN groups' : h <= g
    BY <1>2, <1>6 DEF Structure
  <2>2. \A h \in DOMAIN groups' : groups'[h].anchor \in Ids
    BY <1>6 DEF Structure
  <2> QED BY <1>2, <1>4, <1>6, <1>8, <2>1, <2>2 DEF Structure
<1>10. Grown
  BY <1>4, <1>5, <1>6 DEF Grown, Structure, StormIntact
<1>11. Joined(party, st, sev, e)
  <2>1. \A h \in DOMAIN groups : MembersOf(h, member') = MembersOf(h, member)
    <3> SUFFICES ASSUME NEW h \in DOMAIN groups, NEW i \in Ids
                 PROVE  member'[i] = h <=> member[i] = h
      BY DEF MembersOf
    <3>1. h # g /\ h # NoGroup
      BY <1>3 DEF Structure
    <3> QED BY <1>4, <1>5, <3>1
  <2> QED BY <1>3, <1>4, <1>6, <2>1 DEF Joined
<1> QED BY <1>9, <1>10, <1>11

LEMMA UnchangedKeeps ==
    ASSUME Structure, member' = member, groups' = groups
    PROVE  Structure' /\ Grown
<1>1. StormIntact'
  BY DEF Structure, StormIntact
<1>2. Structure'
  BY <1>1 DEF Structure
<1>3. Grown
  BY DEF Grown, Structure, StormIntact
<1> QED BY <1>2, <1>3

\* refresh_group_for_member touches the facts of one group.
LEMMA RefreshKeeps ==
    ASSUME Structure, NEW st, NEW sev, NEW e, NEW i \in Ids, RefreshFor(i, st, sev, e)
    PROVE  /\ Structure' /\ Grown
           /\ \/ Joined({i}, st, sev, e)
              \/ member[i] = NoGroup /\ UNCHANGED <<member, groups>>
<1>1. CASE member[i] \in DOMAIN groups
  <2>1. groups' = Refresh(member[i], groups, member, st, sev, e) /\ member' = member
    BY <1>1 DEF RefreshFor
  <2>2. MembersOf(member[i], member) # {}
    BY DEF MembersOf
  <2>3. /\ DOMAIN groups' = DOMAIN groups
        /\ \A h \in DOMAIN groups \ {member[i]} : groups'[h] = groups[h]
        /\ groups'[member[i]].anchor = groups[member[i]].anchor
        /\ groups'[member[i]].facts = Facts(MembersOf(member[i], member), st, sev, e)
    BY <1>1, <2>1, <2>2, RefreshOfMembers
  <2>4. \A h \in DOMAIN groups : groups'[h].anchor = groups[h].anchor
    BY <2>3
  <2>5. Structure'
    BY <2>1, <2>3, <2>4 DEF Structure, StormIntact
  <2>6. Grown
    BY <2>1, <2>4 DEF Grown, Structure, StormIntact
  <2>7. Joined({i}, st, sev, e)
    BY <1>1, <2>1, <2>3 DEF Joined
  <2> QED BY <2>5, <2>6, <2>7
<1>2. CASE member[i] \notin DOMAIN groups
  <2>1. member[i] = NoGroup /\ member' = member /\ groups' = groups
    BY <1>2 DEF RefreshFor, Structure, StormIntact
  <2>2. Structure' /\ Grown
    BY <2>1, UnchangedKeeps
  <2> QED BY <2>1, <2>2
<1> QED BY <1>1, <1>2

\* assign_group, whichever of its ways it takes.
LEMMA AssignKeeps ==
    ASSUME Structure, NEW st, NEW sev, NEW e, NEW i \in Ids, AssignGroup(i, st, sev, e)
    PROVE  /\ Structure' /\ Grown
           /\ \/ \E party \in SUBSET Ids :
                    /\ i \in party /\ \A j \in party \ {i} : st[j] = "ACTIVE"
                    /\ Joined(party, st, sev, e)
              \/ member[i] = NoGroup /\ UNCHANGED <<member, groups>>
<1>1. CASE RefreshFor(i, st, sev, e)
  BY <1>1, RefreshKeeps
<1>2. CASE \E near \in StrongNeighbours(i, st, e) :
              JoinOldest({i} \cup near, st, sev, e) \/ StartGroup({i} \cup near, st, sev, e)
  <2>1. PICK near \in StrongNeighbours(i, st, e) :
              JoinOldest({i} \cup near, st, sev, e) \/ StartGroup({i} \cup near, st, sev, e)
    BY <1>2
  <2>2. near \subseteq Correlated(i, st, e)
    BY <2>1 DEF StrongNeighbours
  <2> DEFINE party == {i} \cup near
  <2>3. /\ party \in SUBSET Ids /\ i \in party
        /\ \A j \in party \ {i} : st[j] = "ACTIVE"
        /\ \A j, k \in party : Scope[j] = Scope[k]
    BY <2>2 DEF Correlated
  <2> HIDE DEF party
  <2>4. Structure' /\ Grown /\ Joined(party, st, sev, e)
    BY <2>1, <2>3, OldestTakesAll, StartIsFresh DEF party
  <2> QED BY <2>3, <2>4
<1> QED BY <1>1, <1>2 DEF AssignGroup

-----------------------------------------------------------------------------

\* The facts of a group depend on its own members and the edges between them.
LEMMA FactsOfMembers ==
    ASSUME NEW members, NEW st, NEW sev, NEW e, NEW st2, NEW sev2, NEW e2,
           \A i \in members : st[i] = st2[i] /\ sev[i] = sev2[i],
           \A p \in members \X members : e[p] = e2[p]
    PROVE  Facts(members, st, sev, e) = Facts(members, st2, sev2, e2)
<1>1. [p \in members \X members |-> e[p]] = [p \in members \X members |-> e2[p]]
  OBVIOUS
<1>2. {sev[i] : i \in members} = {sev2[i] : i \in members}
  OBVIOUS
<1>3. (\E i \in members : st[i] = "ACTIVE") <=> (\E i \in members : st2[i] = "ACTIVE")
  OBVIOUS
<1> QED BY <1>1, <1>2, <1>3, Zenon DEF Facts

\* A step that touches one incident and its edges, and refreshes the group it
\* is in afterwards, leaves every group fresh.
LEMMA FreshStep ==
    ASSUME GroupFactsFresh, NEW i \in Ids,
           \A j \in Ids \ {i} : status'[j] = status[j] /\ severity'[j] = severity[j],
           \A p \in (Ids \ {i}) \X (Ids \ {i}) : edge'[p] = edge[p],
           NEW party, i \in party,
           \/ Joined(party, status', severity', edge')
           \/ member[i] = NoGroup /\ member' = member /\ groups' = groups
              /\ DOMAIN groups \subseteq Nat \ {NoGroup}
    PROVE  GroupFactsFresh'
<1>1. ASSUME NEW h \in DOMAIN groups, groups'[h] = groups[h], i \notin MembersOf(h, member),
             MembersOf(h, member') = MembersOf(h, member)
      PROVE  groups'[h].facts = Facts(MembersOf(h, member'), status', severity', edge')
  <2> DEFINE members == MembersOf(h, member)
  <2>1. members \subseteq Ids \ {i}
    BY <1>1 DEF MembersOf
  <2>2. groups[h].facts = Facts(members, status, severity, edge)
    BY DEF GroupFactsFresh
  <2> HIDE DEF members
  <2>3. \A j \in members : status[j] = status'[j] /\ severity[j] = severity'[j]
    BY <2>1
  <2>4. \A p \in members \X members : edge[p] = edge'[p]
    BY <2>1
  <2>5. Facts(members, status, severity, edge) = Facts(members, status', severity', edge')
    BY <2>3, <2>4, FactsOfMembers
  <2> QED BY <1>1, <2>2, <2>5 DEF members
<1>2. CASE Joined(party, status', severity', edge')
  <2>1. PICK g \in DOMAIN groups' :
          /\ member'[i] = g
          /\ groups'[g].facts = Facts(MembersOf(g, member'), status', severity', edge')
          /\ \A h \in DOMAIN groups' \ {g} :
                /\ h \in DOMAIN groups /\ groups'[h] = groups[h]
                /\ MembersOf(h, member') = MembersOf(h, member)
    BY <1>2 DEF Joined
  <2>2. \A h \in DOMAIN groups' \ {g} : i \notin MembersOf(h, member)
    <3> SUFFICES ASSUME NEW h \in DOMAIN groups' \ {g} PROVE i \notin MembersOf(h, member')
      BY <2>1
    <3> QED BY <2>1 DEF MembersOf
  <2>3. \A h \in DOMAIN groups' \ {g} :
          groups'[h].facts = Facts(MembersOf(h, member'), status', severity', edge')
    BY <1>1, <2>1, <2>2
  <2> QED BY <2>1, <2>3 DEF GroupFactsFresh
<1>3. CASE member[i] = NoGroup /\ member' = member /\ groups' = groups
           /\ DOMAIN groups \subseteq Nat \ {NoGroup}
  <2>1. \A h \in DOMAIN groups : i \notin MembersOf(h, member)
    BY <1>3 DEF MembersOf
  <2>2. \A h \in DOMAIN groups : groups'[h] = groups[h] /\ MembersOf(h, member') = MembersOf(h, member)
    BY <1>3
  <2>3. \A h \in DOMAIN groups :
          groups'[h].facts = Facts(MembersOf(h, member'), status', severity', edge')
    BY <1>1, <2>1, <2>2
  <2> QED BY <1>3, <2>3 DEF GroupFactsFresh
<1> QED BY <1>2, <1>3

\* The inductive invariant.  An incident that was never seen is in no storm,
\* which is why a protected critical may leave the groups alone.
IInv ==
    /\ Structure
    /\ GroupFactsFresh
    /\ status \in [Ids -> {"none", "ACTIVE", "RESOLVED"}]
    /\ severity \in [Ids -> Nat]
    /\ DOMAIN edge = Ids \X Ids
    /\ \A i \in Ids : member[i] # NoGroup => Exists(i)

LEMMA StormInit == Init => IInv
<1> SUFFICES ASSUME Init PROVE IInv
  OBVIOUS
<1>1. DOMAIN groups = {} /\ member \in [Ids -> Nat] /\ \A i \in Ids : member[i] = NoGroup
  BY DEF Init
<1>2. StormIntact
  BY <1>1 DEF StormIntact
<1>3. Structure
  <2>1. 0 \in Nat /\ \A g \in DOMAIN groups : g <= 0
    BY <1>1
  <2> QED BY <1>1, <1>2, <2>1 DEF Structure
<1>4. GroupFactsFresh
  BY <1>1 DEF GroupFactsFresh
<1>5. /\ status \in [Ids -> {"none", "ACTIVE", "RESOLVED"}]
      /\ severity \in [Ids -> Nat]
      /\ DOMAIN edge = Ids \X Ids
  BY DEF Init
<1> QED BY <1>1, <1>3, <1>4, <1>5 DEF IInv

\* A round of observations changes edges of the alert's incident only.
OwnEdges(after, i) ==
    /\ DOMAIN after = Ids \X Ids
    /\ \A p \in (Ids \ {i}) \X (Ids \ {i}) : after[p] = edge[p]

LEMMA ObserveOwnEdges ==
    ASSUME DOMAIN edge = Ids \X Ids, NEW i \in Ids, NEW party, NEW round
    PROVE  OwnEdges(Observe(i, party, round), i)
<1> DEFINE others == party \ {i}
           leads  == others \ round.ahead
           lags   == others \cap round.ahead
           grown  == [p \in Ids \X Ids |->
                        CASE p \in leads \X {i} -> Increment(edge[p], round.age[p[1]])
                          [] p \in {i} \X lags  -> Increment(edge[p], round.age[p[2]])
                          [] OTHER              -> edge[p]]
<1>1. \A p \in (Ids \ {i}) \X (Ids \ {i}) :
        p \in Ids \X Ids /\ p \notin leads \X {i} /\ p \notin {i} \X lags
  OBVIOUS
<1>2. Observe(i, party, round) = IF i \in party THEN grown ELSE edge
  BY DEF Observe
<1> HIDE DEF leads, lags
<1>3. DOMAIN grown = Ids \X Ids
  OBVIOUS
<1>4. \A p \in (Ids \ {i}) \X (Ids \ {i}) : grown[p] = edge[p]
  BY <1>1
<1> QED BY <1>2, <1>3, <1>4 DEF OwnEdges

LEMMA AlertStep ==
    ASSUME IInv, NEW i \in Ids, NEW to \in {"ACTIVE", "RESOLVED"}, NEW sev \in Severities,
           NEW round \in Rounds, Alert(i, to, sev, round)
    PROVE  IInv' /\ Grown
<1>1. /\ status' = [status EXCEPT ![i] = to]
      /\ severity' = [severity EXCEPT ![i] = sev]
      /\ AssignGroup(i, status', severity', edge')
  BY DEF Alert
<1>2. PICK near : edge' = Observe(i, Participants(near, status'), round)
  BY DEF Alert
<1>3. /\ DOMAIN edge' = Ids \X Ids
      /\ \A p \in (Ids \ {i}) \X (Ids \ {i}) : edge'[p] = edge[p]
  <2>1. DOMAIN edge = Ids \X Ids
    BY DEF IInv
  <2>2. \A party, seen : OwnEdges(Observe(i, party, seen), i)
    BY <2>1, ObserveOwnEdges
  <2>3. OwnEdges(edge', i)
    BY <1>2, <2>2, Zenon
  <2> QED BY <2>3 DEF OwnEdges
<1>4. /\ status' \in [Ids -> {"none", "ACTIVE", "RESOLVED"}] /\ severity' \in [Ids -> Nat]
      /\ \A j \in Ids \ {i} : status'[j] = status[j] /\ severity'[j] = severity[j]
      /\ status'[i] # "none"
  BY <1>1 DEF IInv
<1>5. /\ Structure' /\ Grown
      /\ \/ \E party \in SUBSET Ids :
               /\ i \in party /\ \A j \in party \ {i} : status'[j] = "ACTIVE"
               /\ Joined(party, status', severity', edge')
         \/ member[i] = NoGroup /\ UNCHANGED <<member, groups>>
  <2>1. Structure
    BY DEF IInv
  <2> QED BY <1>1, <2>1, AssignKeeps, Zenon
<1>6. CASE \E party \in SUBSET Ids :
               /\ i \in party /\ \A j \in party \ {i} : status'[j] = "ACTIVE"
               /\ Joined(party, status', severity', edge')
  <2>1. PICK party \in SUBSET Ids :
               /\ i \in party /\ \A j \in party \ {i} : status'[j] = "ACTIVE"
               /\ Joined(party, status', severity', edge')
    BY <1>6
  <2>2. GroupFactsFresh'
    BY <1>3, <1>4, <2>1, FreshStep DEF IInv
  <2>3. \A j \in Ids \ party : member'[j] # NoGroup => member[j] # NoGroup
    BY <2>1 DEF Joined
  <2>4. \A j \in Ids : member'[j] # NoGroup => Exists(j)'
    BY <1>4, <2>1, <2>3 DEF IInv, Exists
  <2> QED BY <1>3, <1>4, <1>5, <2>2, <2>4 DEF IInv
<1>7. CASE member[i] = NoGroup /\ UNCHANGED <<member, groups>>
  <2>1. GroupFactsFresh'
    <3>1. DOMAIN groups \subseteq Nat \ {NoGroup}
      BY DEF IInv, Structure
    <3> QED BY <1>3, <1>4, <1>7, <3>1, i \in {i}, FreshStep DEF IInv
  <2>2. \A j \in Ids : member'[j] # NoGroup => Exists(j)'
    BY <1>4, <1>7 DEF IInv, Exists
  <2> QED BY <1>3, <1>4, <1>5, <2>1, <2>2 DEF IInv
<1> QED BY <1>5, <1>6, <1>7

LEMMA BypassStep ==
    ASSUME IInv, NEW i \in Ids, Bypass(i)
    PROVE  IInv' /\ Grown
<1>1. /\ status' = [status EXCEPT ![i] = "ACTIVE"] /\ severity' = [severity EXCEPT ![i] = 0]
      /\ edge' = edge /\ member' = member /\ groups' = groups /\ ~Exists(i)
  BY DEF Bypass
<1>2. member[i] = NoGroup /\ DOMAIN groups \subseteq Nat \ {NoGroup}
  BY <1>1 DEF IInv, Structure
<1>3. /\ status' \in [Ids -> {"none", "ACTIVE", "RESOLVED"}] /\ severity' \in [Ids -> Nat]
      /\ \A j \in Ids \ {i} : status'[j] = status[j] /\ severity'[j] = severity[j]
      /\ status'[i] # "none"
  BY <1>1 DEF IInv
<1>4. Structure' /\ Grown
  BY <1>1, UnchangedKeeps DEF IInv
<1>5. GroupFactsFresh'
  BY <1>1, <1>2, <1>3, i \in {i}, FreshStep DEF IInv
<1>6. \A j \in Ids : member'[j] # NoGroup => Exists(j)'
  BY <1>1, <1>3 DEF IInv, Exists
<1> QED BY <1>1, <1>3, <1>4, <1>5, <1>6 DEF IInv

LEMMA CloseStep ==
    ASSUME IInv, NEW i \in Ids, Close(i)
    PROVE  IInv' /\ Grown
<1>1. /\ status' = [status EXCEPT ![i] = "RESOLVED"] /\ severity' = severity /\ edge' = edge
      /\ RefreshFor(i, status', severity', edge')
  BY DEF Close
<1>2. /\ status' \in [Ids -> {"none", "ACTIVE", "RESOLVED"}] /\ severity' \in [Ids -> Nat]
      /\ \A j \in Ids \ {i} : status'[j] = status[j] /\ severity'[j] = severity[j]
      /\ status'[i] # "none"
  BY <1>1 DEF IInv
<1>3. /\ Structure' /\ Grown
      /\ \/ Joined({i}, status', severity', edge')
         \/ member[i] = NoGroup /\ UNCHANGED <<member, groups>>
  BY <1>1, RefreshKeeps DEF IInv
<1>4. GroupFactsFresh'
  <2>1. DOMAIN groups \subseteq Nat \ {NoGroup}
    BY DEF IInv, Structure
  <2> QED BY <1>1, <1>2, <1>3, <2>1, i \in {i}, FreshStep DEF IInv
<1>5. member' = member
  BY <1>1 DEF RefreshFor
<1>6. \A j \in Ids : member'[j] # NoGroup => Exists(j)'
  BY <1>2, <1>5 DEF IInv, Exists
<1> QED BY <1>1, <1>2, <1>3, <1>4, <1>6 DEF IInv

\* Quiescence, a lull and stuttering leave all of it alone.
LEMMA IdleStep ==
    ASSUME IInv, UNCHANGED <<status, severity, edge, member, groups>>
    PROVE  IInv' /\ Grown
<1>1. Structure' /\ Grown
  BY UnchangedKeeps DEF IInv
<1>2. GroupFactsFresh'
  BY DEF IInv, GroupFactsFresh
<1> QED BY <1>1, <1>2 DEF IInv, Exists

LEMMA StormStep == IInv /\ [Next]_vars => IInv' /\ Grown
<1> SUFFICES ASSUME IInv, [Next]_vars PROVE IInv' /\ Grown
  OBVIOUS
<1>1. ASSUME NEW i \in Ids, NEW to \in {"ACTIVE", "RESOLVED"}, NEW sev \in Severities,
             NEW round \in Rounds, Alert(i, to, sev, round)
      PROVE  IInv' /\ Grown
  BY <1>1, AlertStep
<1>2. ASSUME NEW i \in Ids, Bypass(i) PROVE IInv' /\ Grown
  BY <1>2, BypassStep
<1>3. ASSUME NEW i \in Ids, Close(i) PROVE IInv' /\ Grown
  BY <1>3, CloseStep
<1>4. ASSUME NEW i \in Ids, Quiesce(i) PROVE IInv' /\ Grown
  BY <1>4, IdleStep DEF Quiesce
<1>5. CASE Lull
  BY <1>5, IdleStep DEF Lull
<1>6. CASE UNCHANGED vars
  BY <1>6, IdleStep DEF vars
<1> QED BY <1>1, <1>2, <1>3, <1>4, <1>5, <1>6 DEF Next

\* Whatever merges a storm goes through, its members point at a live group of
\* their own scope and the owner of its card is one of them.
THEOREM StormsHangTogether == Spec => []StormIntact
<1>1. IInv => StormIntact
  BY DEF IInv, Structure
<1> QED BY <1>1, StormInit, StormStep, PTL DEF Spec

\* The incident_groups row always says what the members and their edges say.
THEOREM StormsAreFresh == Spec => []GroupFactsFresh
<1>1. IInv => GroupFactsFresh
  BY DEF IInv
<1> QED BY <1>1, StormInit, StormStep, PTL DEF Spec

\* No step takes an incident out of its storm, splits a storm, or moves one to
\* a younger group or a new card.
THEOREM StormsGrow == Spec => StormsOnlyGrow
<1>1. Grown =>
        [\A i \in Ids : member[i] # NoGroup =>
          /\ member'[i] # NoGroup /\ member'[i] <= member[i]
          /\ \A j \in Ids : member[j] = member[i] => member'[j] = member'[i]
          /\ groups'[member'[i]].anchor = groups[member'[i]].anchor]_vars
  BY DEF Grown
<1> QED BY <1>1, StormInit, StormStep, PTL DEF Spec, StormsOnlyGrow

-----------------------------------------------------------------------------
(***************************************************************************)
(* The facts of a group are of their types.  _rank_group_root adds up      *)
(* weights, so that there is a member with the most is a fact about sums:  *)
(* it is proved by taking the smallest number of terms it fails for.       *)
(***************************************************************************)
AnyOf(S) == CHOOSE x \in S : TRUE

\* A sum over the finite sets in D, taken one element at a time.
SumOver(D, f, T) == [S \in D |-> IF S = {} THEN 0 ELSE f[AnyOf(S)] + T[S \ {AnyOf(S)}]]

Upto(A, n) == {S \in SUBSET A : Cardinality(S) <= n}

LEMMA FirstNat ==
    ASSUME NEW Bounds \in SUBSET Nat, Bounds # {}
    PROVE  \E n \in Bounds : \A m \in Bounds : n <= m
<1> DEFINE Less == OpToRel(<, Nat)
<1>1. IsWellFoundedOn(Less, Nat)
  BY NatLessThanWellFounded
<1>2. \E n \in Bounds : \A m \in Bounds : ~(<<m, n>> \in Less)
  BY <1>1, WFMin
<1>3. PICK n \in Bounds : \A m \in Bounds : ~(m < n)
  BY <1>2 DEF OpToRel
<1> QED BY <1>3

\* Every smaller set of one level sits in the level below.
LEMMA SumExists ==
    ASSUME NEW A, IsFiniteSet(A), NEW f
    PROVE  \E T : T = SumOver(SUBSET A, f, T)
<1> DEFINE Good(n) == \E T : T = SumOver(Upto(A, n), f, T)
           Bad == {n \in Nat : ~Good(n)}
<1>0. \A S \in SUBSET A : /\ IsFiniteSet(S) /\ Cardinality(S) \in Nat
                          /\ S # {} => /\ AnyOf(S) \in S /\ S \ {AnyOf(S)} \in SUBSET A
                                       /\ Cardinality(S \ {AnyOf(S)}) = Cardinality(S) - 1
  <2> TAKE S \in SUBSET A
  <2>1. IsFiniteSet(S)
    BY FS_Subset
  <2>2. Cardinality(S) \in Nat
    BY <2>1, FS_CardinalityType
  <2>3. S # {} => AnyOf(S) \in S
    BY DEF AnyOf
  <2>4. S # {} => Cardinality(S \ {AnyOf(S)}) = Cardinality(S) - 1
    BY <2>1, <2>3, FS_RemoveElement
  <2> QED BY <2>1, <2>2, <2>3, <2>4
<1>1. Bad = {}
  <2> SUFFICES ASSUME Bad # {} PROVE FALSE
    OBVIOUS
  <2>1. PICK n \in Bad : \A m \in Bad : n <= m
    BY FirstNat, Bad \in SUBSET Nat
  <2>2. n # 0
    <3>1. Upto(A, 0) = {{}}
      <4>1. ASSUME NEW S \in SUBSET A PROVE Cardinality(S) <= 0 <=> S = {}
        <5>1. IsFiniteSet(S) /\ Cardinality(S) \in Nat
          BY <1>0
        <5>2. Cardinality(S) = 0 <=> S = {}
          BY <5>1, FS_EmptySet
        <5> QED BY <5>1, <5>2
      <4> QED BY <4>1 DEF Upto
    <3> DEFINE T == [S \in {{}} |-> 0]
    <3>2. T = SumOver(Upto(A, 0), f, T)
      BY <3>1 DEF SumOver
    <3>3. Good(0)
      BY <3>2
    <3> QED BY <2>1, <3>3
  <2>3. n - 1 \in Nat /\ n - 1 < n
    BY <2>2
  <2>4. Good(n - 1)
    BY <2>1, <2>3
  <2> HIDE DEF Good, Bad
  <2>5. PICK T : T = SumOver(Upto(A, n - 1), f, T)
    BY <2>4 DEF Good
  <2> DEFINE U == [S \in Upto(A, n) |-> IF S = {} THEN 0 ELSE f[AnyOf(S)] + T[S \ {AnyOf(S)}]]
  <2>6. \A S \in Upto(A, n - 1) : S \in Upto(A, n) /\ U[S] = T[S]
    <3> TAKE S \in Upto(A, n - 1)
    <3>1. S \in Upto(A, n)
      <4>1. n \in Nat /\ S \in SUBSET A /\ Cardinality(S) <= n - 1
        BY <2>1 DEF Upto, Bad
      <4>2. Cardinality(S) \in Nat
        BY <1>0, <4>1
      <4> QED BY <4>1, <4>2 DEF Upto
    <3>2. T[S] = IF S = {} THEN 0 ELSE f[AnyOf(S)] + T[S \ {AnyOf(S)}]
      BY <2>5 DEF SumOver
    <3> QED BY <3>1, <3>2
  <2>7. \A S \in Upto(A, n) : S # {} => S \ {AnyOf(S)} \in Upto(A, n - 1)
    BY <1>0, <2>1 DEF Upto, Bad
  <2> DEFINE V == SumOver(Upto(A, n), f, U)
  <2>8. \A S \in Upto(A, n) : U[S] = V[S]
    BY <2>6, <2>7 DEF SumOver
  <2>9. U = V
    BY <2>8 DEF SumOver
  <2>10. Good(n)
    BY <2>9 DEF Good
  <2> QED BY <2>1, <2>10 DEF Bad
<1>2. Upto(A, Cardinality(A)) = SUBSET A
  BY FS_Subset DEF Upto
<1>3. Good(Cardinality(A))
  BY <1>0, <1>1
<1> QED BY <1>2, <1>3

LEMMA SumIsNat ==
    ASSUME NEW A, IsFiniteSet(A), NEW f, \A x \in A : f[x] \in Nat,
           NEW T, T = SumOver(SUBSET A, f, T)
    PROVE  T[A] \in Nat
<1> DEFINE Bad == {n \in Nat : \E S \in SUBSET A : Cardinality(S) = n /\ T[S] \notin Nat}
<1>1. Bad = {}
  <2> SUFFICES ASSUME Bad # {} PROVE FALSE
    OBVIOUS
  <2>1. PICK n \in Bad : \A m \in Bad : n <= m
    BY FirstNat, Bad \in SUBSET Nat
  <2>2. PICK S \in SUBSET A : Cardinality(S) = n /\ T[S] \notin Nat
    BY <2>1
  <2>3. T[S] = IF S = {} THEN 0 ELSE f[AnyOf(S)] + T[S \ {AnyOf(S)}]
    BY DEF SumOver
  <2>4. S # {}
    BY <2>2, <2>3
  <2>5. AnyOf(S) \in S
    BY <2>4 DEF AnyOf
  <2> DEFINE R == S \ {AnyOf(S)}
  <2>6. R \in SUBSET A /\ IsFiniteSet(S) /\ Cardinality(R) = Cardinality(S) - 1
    BY <2>5, FS_Subset, FS_RemoveElement
  <2>7. Cardinality(R) \in Nat /\ Cardinality(R) < n
    BY <2>2, <2>6, FS_CardinalityType, FS_Subset
  <2>8. T[R] \in Nat
    BY <2>1, <2>6, <2>7
  <2> QED BY <2>2, <2>3, <2>4, <2>5, <2>8
<1> QED BY <1>1, FS_CardinalityType

LEMMA OutboundIsNat ==
    ASSUME NEW i, NEW inner, IsFiniteSet(DOMAIN inner), \A p \in DOMAIN inner : inner[p] \in Nat
    PROVE  Outbound(i, inner) \in Nat
<1> DEFINE A == {p \in DOMAIN inner : p[1] = i}
           T == CHOOSE T : T = SumOver(SUBSET A, inner, T)
<1>1. Outbound(i, inner) = T[A]
  BY Zenon DEF Outbound, MapThenSumSet, MapThenFoldSet, SumOver, AnyOf
<1>2. IsFiniteSet(A) /\ \A p \in A : inner[p] \in Nat
  BY FS_Subset
<1> HIDE DEF A
<1>3. T = SumOver(SUBSET A, inner, T)
  BY <1>2, SumExists
<1> HIDE DEF T
<1> QED BY <1>1, <1>2, <1>3, SumIsNat

Leads(v, x, y) == v[x] > v[y] \/ (v[x] = v[y] /\ x <= y)

\* The smallest set without a leader has no element to take away.
LEMMA HasLeader ==
    ASSUME NEW A \in SUBSET Nat, IsFiniteSet(A), A # {}, NEW v, \A x \in A : v[x] \in Nat
    PROVE  \E x \in A : \A y \in A : Leads(v, x, y)
<1> DEFINE Led(S) == \E x \in S : \A y \in S : Leads(v, x, y)
           Bad == {n \in Nat : \E S \in SUBSET A : Cardinality(S) = n /\ S # {} /\ ~Led(S)}
<1>1. Bad = {}
  <2> SUFFICES ASSUME Bad # {} PROVE FALSE
    OBVIOUS
  <2>1. PICK n \in Bad : \A m \in Bad : n <= m
    BY FirstNat, Bad \in SUBSET Nat
  <2>2. PICK S \in SUBSET A : Cardinality(S) = n /\ S # {} /\ ~Led(S)
    BY <2>1
  <2>3. PICK x \in S : TRUE
    BY <2>2
  <2> DEFINE R == S \ {x}
  <2>4. R \in SUBSET A /\ IsFiniteSet(S) /\ Cardinality(R) = Cardinality(S) - 1
    BY FS_Subset, FS_RemoveElement
  <2>5. Cardinality(R) \in Nat
    BY <2>4, FS_CardinalityType, FS_Subset
  <2>6. n \in Nat /\ Cardinality(R) < n
    BY <2>1, <2>2, <2>4, <2>5
  <2> HIDE DEF Led
  <2>7. R = {} \/ Led(R)
    <3> SUFFICES ASSUME R # {}, ~Led(R) PROVE Cardinality(R) \in Bad
      BY <2>1, <2>5, <2>6
    <3> QED BY <2>4, <2>5
  <2> USE DEF Led
  <2> HIDE DEF Bad
  <2>8. Leads(v, x, x) /\ v[x] \in Nat /\ x \in Nat
    BY DEF Leads
  <2>9. CASE R = {}
    BY <2>2, <2>3, <2>8, <2>9
  <2>10. CASE Led(R)
    <3>1. PICK y \in R : \A z \in R : Leads(v, y, z)
      BY <2>10
    <3>2. v[y] \in Nat /\ y \in Nat
      BY <2>4, <3>1
    <3>3. CASE Leads(v, x, y)
      <4>1. \A z \in R : v[z] \in Nat /\ z \in Nat
        BY <2>4
      <4>2. \A z \in R : Leads(v, x, z)
        BY <2>8, <3>1, <3>2, <3>3, <4>1 DEF Leads
      <4> QED BY <2>2, <2>3, <2>8, <4>2
    <3>4. CASE ~Leads(v, x, y)
      <4>1. Leads(v, y, x)
        BY <2>8, <3>2, <3>4 DEF Leads
      <4> QED BY <2>2, <3>1, <4>1
    <3> QED BY <3>3, <3>4
  <2> QED BY <2>7, <2>9, <2>10
<1> QED BY <1>1, FS_CardinalityType

\* The root of a group is a member of it.
LEMMA RootIsMember ==
    ASSUME NEW members \in SUBSET Ids, members # {},
           NEW inner, DOMAIN inner = members \X members, \A p \in members \X members : inner[p] \in Nat
    PROVE  GroupRoot(members, inner) \in members
<1> DEFINE leads == {i \in members : Outbound(i, inner) > 0}
           v == [i \in leads |-> Outbound(i, inner)]
<1>1. \A i \in members : Outbound(i, inner) \in Nat
  <2>1. IsFiniteSet(members)
    BY FS_Subset
  <2>2. IsFiniteSet(DOMAIN inner)
    BY <2>1, FS_Product
  <2> QED BY <2>2, OutboundIsNat
<1>2. CASE leads = {}
  <2>1. \E i \in members : \A j \in members : i <= j
    BY FirstNat
  <2>2. Min(members) \in members
    BY <2>1 DEF Min
  <2> QED BY <1>2, <2>2 DEF GroupRoot
<1>3. CASE leads # {}
  <2>1. leads \in SUBSET Nat /\ IsFiniteSet(leads) /\ \A i \in leads : v[i] \in Nat
    BY <1>1, FS_Subset
  <2>2. \E i \in leads : \A j \in leads : Leads(v, i, j)
    BY <1>3, <2>1, HasLeader
  <2>3. \E i \in leads : \A j \in leads :
          \/ Outbound(i, inner) > Outbound(j, inner)
          \/ Outbound(i, inner) = Outbound(j, inner) /\ i <= j
    BY <2>2 DEF Leads
  <2>4. (CHOOSE i \in leads : \A j \in leads :
          \/ Outbound(i, inner) > Outbound(j, inner)
          \/ Outbound(i, inner) = Outbound(j, inner) /\ i <= j) \in leads
    BY <2>3
  <2> QED BY <1>3, <2>4 DEF GroupRoot
<1> QED BY <1>2, <1>3

LEMMA FactsTyped ==
    ASSUME NEW members \in SUBSET Ids, members # {}, NEW st,
           NEW sev \in [Ids -> Nat], NEW e \in [Ids \X Ids -> Nat]
    PROVE  Facts(members, st, sev, e) \in GroupFacts
<1> DEFINE inner == [p \in members \X members |-> e[p]]
           ranks == {sev[i] : i \in members}
<1>1. GroupRoot(members, inner) \in Ids
  <2>1. DOMAIN inner = members \X members /\ \A p \in members \X members : inner[p] \in Nat
    OBVIOUS
  <2> HIDE DEF inner
  <2> QED BY <2>1, RootIsMember
<1>2. Min(ranks) \in Nat
  <2>1. ranks \in SUBSET Nat /\ ranks # {}
    <3>1. \A i \in members : sev[i] \in Nat
      OBVIOUS
    <3>2. ranks \in SUBSET Nat
      BY <3>1
    <3>3. PICK i \in members : TRUE
      OBVIOUS
    <3>4. sev[i] \in ranks
      BY <3>3
    <3> HIDE DEF ranks
    <3> QED BY <3>2, <3>4
  <2> HIDE DEF ranks
  <2>2. \E n \in ranks : \A m \in ranks : n <= m
    BY <2>1, FirstNat
  <2>3. Min(ranks) \in ranks
    BY <2>2 DEF Min
  <2> QED BY <2>1, <2>3
<1>3. Cardinality(members) \in Nat
  BY FS_Subset, FS_CardinalityType
<1> HIDE DEF inner, ranks
<1>4. Facts(members, st, sev, e) =
        [root |-> GroupRoot(members, inner), severity |-> Min(ranks),
         status |-> IF \E i \in members : st[i] = "ACTIVE" THEN "OPEN" ELSE "RESOLVED",
         count |-> Cardinality(members)]
  BY Zenon DEF Facts, inner, ranks
<1>5. (IF \E i \in members : st[i] = "ACTIVE" THEN "OPEN" ELSE "RESOLVED") \in {"OPEN", "RESOLVED"}
  OBVIOUS
<1> QED BY <1>1, <1>2, <1>3, <1>4, <1>5 DEF GroupFacts

\* A row of incident_groups has its two columns and no other.
IsRow(row) == row = [anchor |-> row.anchor, facts |-> row.facts]

\* What completes the types, on top of IInv.
TInv ==
    /\ window \subseteq Ids
    /\ edge \in [Ids \X Ids -> Nat]
    /\ \A g \in DOMAIN groups : IsRow(groups[g])
    /\ budget \in [alerts : Nat, closes : Nat, lulls : Nat]

LEMMA TypesFollow == IInv /\ TInv => TypeOK
<1> SUFFICES ASSUME IInv, TInv PROVE TypeOK
  OBVIOUS
<1>1. \A g \in DOMAIN groups : groups[g] \in [anchor : Ids, facts : GroupFacts]
  <2> TAKE g \in DOMAIN groups
  <2> DEFINE members == MembersOf(g, member)
  <2>1. groups[g].anchor \in Ids /\ members \in SUBSET Ids /\ members # {}
    BY DEF IInv, Structure, StormIntact, MembersOf
  <2>2. groups[g].facts = Facts(members, status, severity, edge)
    BY DEF IInv, GroupFactsFresh
  <2> HIDE DEF members
  <2>3. severity \in [Ids -> Nat] /\ edge \in [Ids \X Ids -> Nat]
    BY DEF IInv, TInv
  <2>4. Facts(members, status, severity, edge) \in GroupFacts
    BY <2>1, <2>3, FactsTyped, Zenon
  <2> QED BY <2>1, <2>2, <2>4 DEF TInv, IsRow
<1> QED BY <1>1 DEF IInv, TInv, Structure, TypeOK

LEMMA RefreshRows ==
    ASSUME NEW g, NEW rows, NEW mem, NEW st, NEW sev, NEW e, \A h \in DOMAIN rows : IsRow(rows[h])
    PROVE  LET new == Refresh(g, rows, mem, st, sev, e) IN \A h \in DOMAIN new : IsRow(new[h])
<1>1. \A a, f : IsRow([anchor |-> a, facts |-> f])
  BY DEF IsRow
<1>2. CASE MembersOf(g, mem) = {}
  BY <1>2 DEF Refresh
<1>3. CASE MembersOf(g, mem) # {}
  <2> DEFINE row == [anchor |-> rows[g].anchor, facts |-> Facts(MembersOf(g, mem), st, sev, e)]
  <2>1. Refresh(g, rows, mem, st, sev, e) = [rows EXCEPT ![g] = row]
    BY <1>3 DEF Refresh
  <2>2. IsRow(row)
    BY <1>1
  <2> HIDE DEF row
  <2> QED BY <2>1, <2>2
<1> QED BY <1>2, <1>3

LEMMA AssignRows ==
    ASSUME \A g \in DOMAIN groups : IsRow(groups[g]),
           NEW st, NEW sev, NEW e, NEW i \in Ids, AssignGroup(i, st, sev, e) \/ RefreshFor(i, st, sev, e)
    PROVE  \A g \in DOMAIN groups' : IsRow(groups'[g])
<1>1. CASE RefreshFor(i, st, sev, e)
  BY <1>1, RefreshRows DEF RefreshFor
<1>2. ASSUME NEW party, JoinOldest(party, st, sev, e)
      PROVE  \A g \in DOMAIN groups' : IsRow(groups'[g])
  <2>1. PICK g, absorbed :
          groups' = Refresh(g, [h \in DOMAIN groups \ absorbed |-> groups[h]], member', st, sev, e)
    BY <1>2 DEF JoinOldest, JoinGroup
  <2> DEFINE rows == [h \in DOMAIN groups \ absorbed |-> groups[h]]
  <2>2. \A h \in DOMAIN rows : IsRow(rows[h])
    OBVIOUS
  <2>3. groups' = Refresh(g, rows, member', st, sev, e)
    BY <2>1
  <2> HIDE DEF rows
  <2> QED BY <2>2, <2>3, RefreshRows
<1>3. ASSUME NEW party, StartGroup(party, st, sev, e)
      PROVE  \A g \in DOMAIN groups' : IsRow(groups'[g])
  <2>1. PICK anchor : groups' =
          Refresh(NewGroup, [h \in DOMAIN groups \cup {NewGroup} |->
                               IF h = NewGroup THEN NewRow(anchor) ELSE groups[h]], member', st, sev, e)
    BY <1>3 DEF StartGroup, JoinGroup
  <2> DEFINE rows == [h \in DOMAIN groups \cup {NewGroup} |->
                         IF h = NewGroup THEN NewRow(anchor) ELSE groups[h]]
  <2>2. IsRow(NewRow(anchor))
    BY DEF NewRow, IsRow
  <2>3. \A h \in DOMAIN rows : IsRow(rows[h])
    BY <2>2
  <2>4. groups' = Refresh(NewGroup, rows, member', st, sev, e)
    BY <2>1
  <2> HIDE DEF rows
  <2> QED BY <2>3, <2>4, RefreshRows
<1> QED BY <1>1, <1>2, <1>3 DEF AssignGroup

\* What is left of a weight, and one more round.
LEMMA IncrementTyped ==
    ASSUME NEW w \in Nat, NEW round \in Rounds, NEW i \in Ids
    PROVE  Increment(w, round.age[i]) \in Nat
<1>1. 2^round.age[i] \in Nat \ {0}
  BY DecayAssumption
<1> DEFINE d == 2^round.age[i]
<1> HIDE DEF d
<1>2. d \in Nat \ {0}
  BY <1>1 DEF d
<1>3. w \div d \in Nat
  BY <1>2
<1>4. (IF w = 0 THEN 2 ELSE (w \div d) + 2) \in Nat
  BY <1>3
<1> QED BY <1>4 DEF Increment, d

LEMMA ObserveTyped ==
    ASSUME edge \in [Ids \X Ids -> Nat], NEW i \in Ids, NEW party, NEW round \in Rounds
    PROVE  Observe(i, party, round) \in [Ids \X Ids -> Nat]
<1> DEFINE others == party \ {i}
           leads  == others \ round.ahead
           lags   == others \cap round.ahead
<1>1. \A p \in Ids \X Ids : /\ edge[p] \in Nat /\ p[1] \in Ids /\ p[2] \in Ids
                            /\ Increment(edge[p], round.age[p[1]]) \in Nat
                            /\ Increment(edge[p], round.age[p[2]]) \in Nat
  BY IncrementTyped
<1> HIDE DEF leads, lags
<1>2. [p \in Ids \X Ids |->
          CASE p \in leads \X {i} -> Increment(edge[p], round.age[p[1]])
            [] p \in {i} \X lags  -> Increment(edge[p], round.age[p[2]])
            [] OTHER              -> edge[p]] \in [Ids \X Ids -> Nat]
  BY <1>1
<1> QED BY <1>2 DEF Observe, leads, lags

LEMMA TypeStep == TInv /\ [Next]_vars => TInv'
<1> SUFFICES ASSUME TInv, [Next]_vars PROVE TInv'
  OBVIOUS
<1>0. (\A g \in DOMAIN groups : IsRow(groups[g])) /\ edge \in [Ids \X Ids -> Nat] /\ window \subseteq Ids
  BY DEF TInv
<1>1. ASSUME NEW i \in Ids, NEW to \in {"ACTIVE", "RESOLVED"}, NEW sev \in Severities,
             NEW round \in Rounds, Alert(i, to, sev, round)
      PROVE  TInv'
  <2>1. \A g \in DOMAIN groups' : IsRow(groups'[g])
    BY <1>0, <1>1, AssignRows, Zenon DEF Alert
  <2>2. PICK near : edge' = Observe(i, Participants(near, status'), round)
    BY <1>1 DEF Alert
  <2>3. edge' \in [Ids \X Ids -> Nat]
    BY <1>0, <2>2, ObserveTyped, Zenon
  <2>4. window' = Touched(i) /\ budget.alerts > 0 /\ budget' = [budget EXCEPT !.alerts = @ - 1]
    BY <1>1 DEF Alert
  <2> QED BY <1>0, <2>1, <2>3, <2>4 DEF TInv, Touched
<1>2. ASSUME NEW i \in Ids, Bypass(i) PROVE TInv'
  BY <1>2 DEF Bypass, TInv, Touched
<1>3. ASSUME NEW i \in Ids, Close(i) PROVE TInv'
  <2>1. \A g \in DOMAIN groups' : IsRow(groups'[g])
    BY <1>0, <1>3, AssignRows, Zenon DEF Close
  <2>2. /\ window' = Touched(i) /\ edge' = edge
        /\ budget.closes > 0 /\ budget' = [budget EXCEPT !.closes = @ - 1]
    BY <1>3 DEF Close
  <2> QED BY <1>0, <2>1, <2>2 DEF TInv, Touched
<1>4. ASSUME NEW i \in Ids, Quiesce(i) PROVE TInv'
  BY <1>4 DEF Quiesce, TInv, Touched
<1>5. CASE Lull
  BY <1>5 DEF Lull, TInv
<1>6. CASE UNCHANGED vars
  BY <1>6 DEF vars, TInv
<1> QED BY <1>1, <1>2, <1>3, <1>4, <1>5, <1>6 DEF Next

\* Every table holds what its columns may hold; above all, the root cause that
\* is stored for a storm is one of its incidents.
THEOREM TypesAreKept == Spec => []TypeOK
<1>1. Init => TInv
  BY DEF Init, TInv, NewRow
<1> QED BY <1>1, StormInit, StormStep, TypeStep, TypesFollow, PTL DEF Spec

==============================================================================
