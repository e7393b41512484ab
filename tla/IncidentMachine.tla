--------------------------- MODULE IncidentMachine ---------------------------
(***************************************************************************)
(* The incident lifecycle table of src/engine/incident_machine.py: which   *)
(* trigger moves an incident from which state to which.  transition_state  *)
(* returns None for every pair that is not in the table; None is NoState.  *)
(***************************************************************************)

IncidentState == {"OPEN", "ACKNOWLEDGED", "QUIESCENT", "RESOLVED"}

\* _ACTIVE_STATES of the engine, the sweeper and the grouping code.
ActiveStates == {"OPEN", "ACKNOWLEDGED", "QUIESCENT"}

NoState == "NONE"

\* transition_state(current_state, trigger)
TransitionState(state, trigger) ==
    CASE state = "OPEN" /\ trigger = "ACKNOWLEDGE"            -> "ACKNOWLEDGED"
      [] state = "ACKNOWLEDGED"
           /\ trigger \in {"QUIET_TIMEOUT", "QUIET_DEADLINE"} -> "QUIESCENT"
      [] state \in ActiveStates /\ trigger = "RESOLVE"        -> "RESOLVED"
      [] state = "RESOLVED" /\ trigger = "REOPEN"             -> "OPEN"
      [] OTHER                                                -> NoState

\* The idiom `transition_state(s, t) or s`.
TransitionOrStay(state, trigger) ==
    LET next == TransitionState(state, trigger)
    IN  IF next = NoState THEN state ELSE next
==============================================================================
