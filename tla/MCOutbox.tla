------------------------------- MODULE MCOutbox -------------------------------
(***************************************************************************)
(* Outbox on small instances.                                              *)
(***************************************************************************)
EXTENDS Outbox

CONSTANTS w1, w2, i1, i2
==============================================================================
