---------------------------- MODULE DeadlineTable ----------------------------
(***************************************************************************)
(* What the timer wheel promises its users: one deadline per incident.     *)
(* Scheduling replaces it, cancelling removes it, and popping at a time    *)
(* returns exactly the incidents whose current deadline has come, with     *)
(* that deadline, and forgets them.                                        *)
(***************************************************************************)
EXTENDS Naturals

CONSTANTS Ids, Deadlines, NoDeadline

VARIABLES
    table,    \* the deadline of each incident, or NoDeadline
    popped    \* what the latest pop returned: a deadline or NoDeadline each

Init == /\ table = [id \in Ids |-> NoDeadline]
        /\ popped = [id \in Ids |-> NoDeadline]

Schedule(id, at) == /\ table' = [table EXCEPT ![id] = at]
                    /\ UNCHANGED popped

Cancel(id) == /\ table' = [table EXCEPT ![id] = NoDeadline]
              /\ UNCHANGED popped

Due(now) == {id \in Ids : table[id] # NoDeadline /\ table[id] <= now}

PopDue(now) ==
    /\ popped' = [id \in Ids |-> IF id \in Due(now) THEN table[id] ELSE NoDeadline]
    /\ table' = [id \in Ids |-> IF id \in Due(now) THEN NoDeadline ELSE table[id]]

Next == \/ \E id \in Ids : Cancel(id) \/ \E at \in Deadlines : Schedule(id, at)
        \/ \E now \in Deadlines : PopDue(now)

Spec == Init /\ [][Next]_<<table, popped>>
==============================================================================
