------------------------------- MODULE MCStorm -------------------------------
(***************************************************************************)
(* StormGroups with four incidents of one scope and a fifth of another     *)
(* scope that has the fingerprint of the first.                            *)
(*                                                                         *)
(* Two storms that merge take eight alerts.  MCInit therefore also starts  *)
(* where the first four of them lead (1 and 2 alert; the window moves on;  *)
(* 3 and 4 alert): two pairs that have co-occurred once and are not yet    *)
(* grouped.                                                                *)
(***************************************************************************)
EXTENDS StormGroups

MCScope == <<"s", "s", "s", "s", "u">>
MCFingerprint == <<"p", "q", "r", "t", "p">>
Recent == [i \in Ids |-> 0]
MCRounds == {[ahead |-> {}, age |-> Recent], [ahead |-> {1, 3}, age |-> Recent],
             [ahead |-> {}, age |-> [Recent EXCEPT ![1] = 2]]}

TwoPairs ==
    /\ status = [i \in Ids |-> IF i = 5 THEN "none" ELSE "ACTIVE"]
    /\ severity = [i \in Ids |-> 1]
    /\ window = {3, 4}
    /\ edge = [p \in Ids \X Ids |-> IF p \in {<<1, 2>>, <<3, 4>>} THEN 2 ELSE 0]
    /\ member = [i \in Ids |-> NoGroup]
    /\ groups = [g \in {} |-> NewRow(0)]
    /\ budget = [alerts |-> MaxAlerts + 1, closes |-> MaxCloses, lulls |-> 0]

MCSpec == (Init \/ TwoPairs) /\ [][Next]_vars
==============================================================================
