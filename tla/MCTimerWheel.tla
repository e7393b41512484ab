----------------------------- MODULE MCTimerWheel -----------------------------
(***************************************************************************)
(* TimerWheel on a small instance.                                         *)
(***************************************************************************)
EXTENDS TimerWheel, TLC

CONSTANTS i1, i2

Symmetry == Permutations({i1, i2})
==============================================================================
