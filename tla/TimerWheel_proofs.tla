-------------------------- MODULE TimerWheel_proofs --------------------------
(***************************************************************************)
(* The timer wheel is a deadline table, for any incidents, any deadlines   *)
(* and any number of calls.                                                *)
(***************************************************************************)
EXTENDS TimerWheel, TLAPS

USE DeadlinesAssumption

\* An index entry of an active incident is a deadline with a generation; an
\* inactive one is NotActive, which no heap entry can equal.
LEMMA ActiveShape ==
    ASSUME TypeOK, NEW id \in Ids
    PROVE  /\ active[id] # NotActive => /\ active[id] \in [at : Deadlines, generation : Nat]
                                        /\ active[id].at # NoDeadline
           /\ active[id] = NotActive => active[id].at = NoDeadline
BY DEF TypeOK, ActiveEntry, NotActive

\* The heap, the index and the popped triggers keep their types in every step
\* of the wheel's methods.
LEMMA NextType == TypeOK /\ [Next]_vars => TypeOK'
<1> SUFFICES ASSUME TypeOK, [Next]_vars PROVE TypeOK'
  OBVIOUS
<1>1. ASSUME NEW id \in Ids, NEW at \in Deadlines, schedule(id, at) PROVE TypeOK'
  <2>1. active[id].generation \in Nat
    BY DEF TypeOK, ActiveEntry, NotActive
  <2>2. [at |-> at, generation |-> NextGeneration(id)] \in [at : Deadlines, generation : Nat]
    BY <2>1 DEF NextGeneration
  <2>3. heap' \in SUBSET Entry
    BY <1>1, <2>1 DEF schedule, Push, TypeOK, Entry, NextGeneration
  <2> QED BY <1>1, <2>2, <2>3 DEF schedule, TypeOK, ActiveEntry
<1>2. ASSUME NEW id \in Ids, cancel(id) PROVE TypeOK'
  BY <1>2 DEF cancel, TypeOK, ActiveEntry
<1>3. ASSUME NEW now \in Deadlines, pop_due(now) PROVE TypeOK'
  <2>1. \A id \in Ids : active[id].at \in Deadlines \cup {NoDeadline}
    BY DEF TypeOK, ActiveEntry, NotActive
  <2> QED BY <1>3, <2>1 DEF pop_due, TypeOK, ActiveEntry, Taken
<1>4. CASE next_deadline_ms
  BY <1>4 DEF next_deadline_ms, TypeOK
<1>5. CASE UNCHANGED vars
  BY <1>5 DEF vars, TypeOK
<1> QED BY <1>1, <1>2, <1>3, <1>4, <1>5 DEF Next

\* Every variable of the wheel has its type in every reachable state.
THEOREM TypeCorrect == Spec => []TypeOK
<1>1. Init => TypeOK
  BY DEF Init, TypeOK, ActiveEntry
<1> QED BY <1>1, NextType, PTL DEF Spec

\* No method of the wheel drops the heap entry of a current deadline: not a
\* reschedule, not the discarding of stale entries.
LEMMA NextQueued == TypeOK /\ ActiveIsQueued /\ [Next]_vars => ActiveIsQueued'
<1> SUFFICES ASSUME TypeOK, ActiveIsQueued, [Next]_vars PROVE ActiveIsQueued'
  OBVIOUS
<1>1. ASSUME NEW id \in Ids, NEW at \in Deadlines, schedule(id, at)
      PROVE  ActiveIsQueued'
  <2> SUFFICES ASSUME NEW i \in Ids, active'[i] # NotActive
               PROVE  \E e \in heap' : /\ e.id = i /\ e.at = active'[i].at
                                       /\ e.generation = active'[i].generation
    BY DEF ActiveIsQueued
  <2>1. CASE i = id
    <3> DEFINE new == [at |-> at, sequence |-> sequence, id |-> id,
                       generation |-> NextGeneration(id)]
    <3>1. new \in heap'
      BY <1>1 DEF schedule, Push
    <3>2. active'[i] = [at |-> at, generation |-> NextGeneration(id)]
      BY <1>1, <2>1 DEF schedule, TypeOK
    <3>3. /\ new.id = i /\ new.at = active'[i].at
          /\ new.generation = active'[i].generation
      BY <2>1, <3>2
    <3> HIDE DEF new
    <3> QED BY <3>1, <3>3
  <2>2. CASE i # id
    BY <1>1, <2>2 DEF schedule, Push, TypeOK, ActiveIsQueued
  <2> QED BY <2>1, <2>2
<1>2. ASSUME NEW id \in Ids, cancel(id) PROVE ActiveIsQueued'
  BY <1>2 DEF cancel, TypeOK, ActiveIsQueued
<1>3. ASSUME NEW now \in Deadlines, pop_due(now) PROVE ActiveIsQueued'
  <2> SUFFICES ASSUME NEW i \in Ids, active'[i] # NotActive
               PROVE  \E e \in heap' : /\ e.id = i /\ e.at = active'[i].at
                                       /\ e.generation = active'[i].generation
    BY DEF ActiveIsQueued
  <2>1. i \notin Returned(now) /\ active'[i] = active[i]
    BY <1>3 DEF pop_due
  <2>2. PICK e \in heap : /\ e.id = i /\ e.at = active[i].at
                          /\ e.generation = active[i].generation
    BY <2>1 DEF ActiveIsQueued
  <2>3. active[i] \in [at : Deadlines, generation : Nat]
    BY <2>1, ActiveShape
  <2>4. Valid(e)
    BY <2>2, <2>3 DEF Valid
  <2>5. e \notin Taken(now)
    BY <2>1, <2>2, <2>4 DEF Returned
  <2> QED BY <1>3, <2>1, <2>2, <2>5 DEF pop_due
<1>4. CASE next_deadline_ms
  <2> SUFFICES ASSUME NEW i \in Ids, active'[i] # NotActive
               PROVE  \E e \in heap' : /\ e.id = i /\ e.at = active'[i].at
                                       /\ e.generation = active'[i].generation
    BY DEF ActiveIsQueued
  <2>1. active' = active
    BY <1>4 DEF next_deadline_ms
  <2>2. PICK e \in heap : /\ e.id = i /\ e.at = active[i].at
                          /\ e.generation = active[i].generation
    BY <2>1 DEF ActiveIsQueued
  <2>3. Valid(e)
    BY <2>1, <2>2, ActiveShape DEF Valid
  <2> QED BY <1>4, <2>1, <2>2, <2>3 DEF next_deadline_ms
<1>5. CASE UNCHANGED vars
  BY <1>5 DEF vars, ActiveIsQueued
<1> QED BY <1>1, <1>2, <1>3, <1>4, <1>5 DEF Next

\* Lazy deletion never deletes too much: the current deadline of an incident is
\* in the heap in every reachable state.
THEOREM QueuedCorrect == Spec => []ActiveIsQueued
<1>1. Init => ActiveIsQueued
  BY DEF Init, ActiveIsQueued
<1> QED BY <1>1, TypeCorrect, NextQueued, PTL DEF Spec

\* What pop_due returns is what is due in the table: a stale entry is never
\* valid and a current one is always queued.
LEMMA ReturnedIsDue ==
    ASSUME TypeOK, ActiveIsQueued, NEW now \in Deadlines
    PROVE  Returned(now) = Table!Due(now)
<1>1. ASSUME NEW id \in Returned(now) PROVE id \in Table!Due(now)
  <2>1. PICK e \in Taken(now) : id \in Ids /\ e.id = id /\ Valid(e)
    BY <1>1 DEF Returned
  <2>2. e \in Entry /\ e.at <= now
    BY <2>1 DEF Taken, TypeOK
  <2>3. active[id].at = e.at
    BY <2>1 DEF Valid
  <2> QED BY <2>1, <2>2, <2>3 DEF Table!Due, Entry
<1>2. ASSUME NEW id \in Table!Due(now) PROVE id \in Returned(now)
  <2>1. id \in Ids /\ active[id].at # NoDeadline /\ active[id].at <= now
    BY <1>2 DEF Table!Due
  <2>2. active[id] # NotActive
    BY <2>1, ActiveShape
  <2>3. PICK e \in heap : /\ e.id = id /\ e.at = active[id].at
                          /\ e.generation = active[id].generation
    BY <2>1, <2>2 DEF ActiveIsQueued
  <2>4. Valid(e)
    BY <2>1, <2>2, <2>3, ActiveShape DEF Valid
  <2> QED BY <2>1, <2>3, <2>4 DEF Returned, Taken
<1> QED BY <1>1, <1>2

\* Every step of the wheel is a step of the table, or leaves it alone.
LEMMA StepSimulation ==
    TypeOK /\ ActiveIsQueued /\ [Next]_vars
        => [Table!Next]_<<[id \in Ids |-> active[id].at], popped>>
<1> SUFFICES ASSUME TypeOK, ActiveIsQueued, [Next]_vars
             PROVE  [Table!Next]_<<[id \in Ids |-> active[id].at], popped>>
  OBVIOUS
<1>1. ASSUME NEW id \in Ids, NEW at \in Deadlines, schedule(id, at)
      PROVE  Table!Schedule(id, at)
  <2>1. \A i \in Ids : active'[i].at = IF i = id THEN at ELSE active[i].at
    BY <1>1 DEF schedule, TypeOK
  <2> QED BY <1>1, <2>1 DEF schedule, Table!Schedule
<1>2. ASSUME NEW id \in Ids, cancel(id) PROVE Table!Cancel(id)
  <2>1. \A i \in Ids : active'[i].at = IF i = id THEN NoDeadline ELSE active[i].at
    BY <1>2 DEF cancel, TypeOK, NotActive
  <2> QED BY <1>2, <2>1 DEF cancel, Table!Cancel
<1>3. ASSUME NEW now \in Deadlines, pop_due(now) PROVE Table!PopDue(now)
  <2>1. \A i \in Ids : active'[i].at = IF i \in Returned(now) THEN NoDeadline
                                                              ELSE active[i].at
    BY <1>3 DEF pop_due, NotActive
  <2> QED BY <1>3, <2>1, ReturnedIsDue DEF pop_due, Table!PopDue
<1>4. CASE next_deadline_ms
  BY <1>4 DEF next_deadline_ms
<1>5. CASE UNCHANGED vars
  BY <1>5 DEF vars
<1> QED BY <1>1, <1>2, <1>3, <1>4, <1>5 DEF Next, Table!Next

\* The wheel implements the deadline table: it returns exactly the incidents
\* whose current deadline has come, whatever stale entries its heap still holds.
THEOREM Refinement == Spec => ImplementsTable
<1>1. Init => Table!Init
  BY DEF Init, Table!Init, NotActive
<1> QED BY <1>1, StepSimulation, TypeCorrect, QueuedCorrect, PTL
        DEF Spec, ImplementsTable, Table!Spec
==============================================================================
