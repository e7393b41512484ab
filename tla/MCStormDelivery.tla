---------------------------- MODULE MCStormDelivery ---------------------------
(***************************************************************************)
(* StormDelivery with two incidents of one scope.                          *)
(***************************************************************************)
EXTENDS StormDelivery

MCScope == <<"s", "s">>
MCFingerprint == <<"p", "q">>
MCRounds == {[ahead |-> {}, age |-> [i \in Ids |-> 0]]}
==============================================================================
