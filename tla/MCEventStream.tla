----------------------------- MODULE MCEventStream ----------------------------
(***************************************************************************)
(* EventStream with two incidents and one client.  The monitor of i1       *)
(* reports whole milliseconds in UTC, that of i2 half of one more, in      *)
(* another zone.                                                           *)
(***************************************************************************)
EXTENDS EventStream

CONSTANTS i1, i2

Utc(at) == [at |-> at, zone |-> "utc"]
Local(at) == [at |-> at, zone |-> "other"]

MCFiredAt == i1 :> {Utc(2)} @@ i2 :> {Local(1)}
==============================================================================
