------------------------------ MODULE TimerWheel ------------------------------
(***************************************************************************)
(* src/engine/timer_wheel.py: a heap of deadlines with lazy invalidation.  *)
(* Rescheduling leaves the old heap entry in place; an entry is valid only *)
(* while it equals the incident's entry in _active, deadline and           *)
(* generation both.  The generation restarts at 1 when an incident that    *)
(* was popped or cancelled is scheduled again, so generations repeat.      *)
(* Every method holds the wheel's RLock, so a method is one action.        *)
(***************************************************************************)
EXTENDS Naturals

CONSTANTS
    Ids,           \* incident ids
    Deadlines,     \* values of quiet_at_ms and of pop_due's now_ms
    NoDeadline,    \* Python's None
    MaxSequence    \* bound: calls of schedule in one behaviour

ASSUME DeadlinesAssumption == Deadlines \subseteq Nat /\ NoDeadline \notin Deadlines

VARIABLES
    heap,      \* _heap: entries (quiet_at_ms, sequence, incident_id, generation)
    active,    \* _active: incident_id -> (quiet_at_ms, generation)
    sequence,  \* _sequence: the next value of count()
    popped     \* the triggers the latest pop_due returned, per incident

vars == <<heap, active, sequence, popped>>

NotActive == [at |-> NoDeadline, generation |-> 0]

ValidByGeneration(entry) == active[entry.id].generation = entry.generation

\* self._active.get(incident_id) == (quiet_at_ms, generation)
Valid(entry) ==
    active[entry.id] = [at |-> entry.at, generation |-> entry.generation]

Before(e, f) == e.at < f.at \/ (e.at = f.at /\ e.sequence < f.sequence)

Init == /\ heap = {}
        /\ active = [id \in Ids |-> NotActive]
        /\ sequence = 0
        /\ popped = [id \in Ids |-> NoDeadline]

\* `1 if previous is None else previous[1] + 1`; NotActive has generation 0.
NextGeneration(id) == active[id].generation + 1

PushUnlessActive(id, at) ==
    IF active[id] # NotActive THEN heap
    ELSE heap \cup {[at |-> at, sequence |-> sequence, id |-> id,
                     generation |-> NextGeneration(id)]}

Push(id, at) ==
    heap \cup {[at |-> at, sequence |-> sequence, id |-> id,
                generation |-> NextGeneration(id)]}

schedule(id, at) ==
    /\ sequence < MaxSequence
    /\ active' = [active EXCEPT ![id] = [at |-> at, generation |-> NextGeneration(id)]]
    /\ heap' = Push(id, at)
    /\ sequence' = sequence + 1
    /\ UNCHANGED popped

cancelKeepsGeneration(id) ==
    /\ active' = [active EXCEPT ![id].at = NoDeadline]
    /\ UNCHANGED <<heap, sequence, popped>>

cancel(id) ==
    /\ active' = [active EXCEPT ![id] = NotActive]
    /\ UNCHANGED <<heap, sequence, popped>>

\* The loop takes every entry up to now off the heap in deadline order and
\* returns the valid ones; the first valid entry of an incident deactivates it.
Taken(now) == {e \in heap : e.at <= now}
Returned(now) == {id \in Ids : \E e \in Taken(now) : e.id = id /\ Valid(e)}

pop_due(now) ==
    /\ heap' = heap \ Taken(now)
    /\ popped' = [id \in Ids |-> IF id \in Returned(now) THEN active[id].at
                                                         ELSE NoDeadline]
    /\ active' = [id \in Ids |-> IF id \in Returned(now) THEN NotActive
                                                         ELSE active[id]]
    /\ UNCHANGED sequence

\* next_deadline_ms discards the stale entries in front of the first valid one.
next_deadline_ms ==
    /\ heap' = {e \in heap : \E f \in heap : Valid(f) /\ (f = e \/ Before(f, e))}
    /\ UNCHANGED <<active, sequence, popped>>

Next == \/ \E id \in Ids, at \in Deadlines : schedule(id, at)
        \/ \E id \in Ids : cancel(id)
        \/ \E now \in Deadlines : pop_due(now)
        \/ next_deadline_ms

Spec == Init /\ [][Next]_vars

-------------------------------------------------------------------------------
Entry == [at : Deadlines, sequence : Nat, id : Ids, generation : Nat]
ActiveEntry == [at : Deadlines, generation : Nat] \cup {NotActive}

\* The type of the heap, the index and the result of the last pop.
TypeOK == /\ heap \in SUBSET Entry
          /\ active \in [Ids -> ActiveEntry]
          /\ sequence \in Nat
          /\ popped \in [Ids -> Deadlines \cup {NoDeadline}]

\* Lazy deletion never deletes too much: whatever was rescheduled, cancelled,
\* popped or discarded, the current deadline of an incident is in the heap.
ActiveIsQueued ==
    \A id \in Ids : active[id] # NotActive =>
        \E e \in heap : /\ e.id = id
                        /\ e.at = active[id].at
                        /\ e.generation = active[id].generation

\* The wheel is a deadline table: no stale entry ever fires, although
\* generations repeat, and no current deadline is missed.
Table == INSTANCE DeadlineTable
            WITH table <- [id \in Ids |-> active[id].at]
ImplementsTable == Table!Spec
==============================================================================
