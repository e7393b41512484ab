-------------------------- MODULE IncidentLifecycle --------------------------
(***************************************************************************)
(* What the engine promises about the life of an incident, whatever part   *)
(* of the program acts on it (ingest, the timer worker, the sweeper, a     *)
(* provider callback, a restart): an incident is created acknowledged or   *)
(* already resolved, goes quiet once, closes, and comes back only by being *)
(* reopened.  It is never deleted, never waits in OPEN, and never leaves   *)
(* QUIESCENT other than by closing.                                        *)
(***************************************************************************)
CONSTANT Ids

VARIABLE status

\* NONE is an incident id that has no row yet.
Edges == { <<"NONE", "ACKNOWLEDGED">>,      <<"NONE", "RESOLVED">>,
           <<"ACKNOWLEDGED", "QUIESCENT">>, <<"ACKNOWLEDGED", "RESOLVED">>,
           <<"QUIESCENT", "RESOLVED">>,     <<"RESOLVED", "ACKNOWLEDGED">> }

Init == status = [id \in Ids |-> "NONE"]

\* A sweep closes several incidents in one transaction, so several may move.
Next == /\ status' \in [Ids -> {"NONE", "ACKNOWLEDGED", "QUIESCENT", "RESOLVED"}]
        /\ \A id \in Ids :
              status'[id] = status[id] \/ <<status[id], status'[id]>> \in Edges

Spec == Init /\ [][Next]_status
==============================================================================
