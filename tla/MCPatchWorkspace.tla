--------------------------- MODULE MCPatchWorkspace ---------------------------
(***************************************************************************)
(* PatchWorkspace over the paths a, a/b, a/b/c and a/d, any two of which   *)
(* may be in each other's way, and an unsafe one; every base of them, and  *)
(* every proposal of up to three changes.                                  *)
(***************************************************************************)
EXTENDS PatchWorkspace

A == <<"a">>
AB == <<"a", "b">>
ABC == <<"a", "b", "c">>
AD == <<"a", "d">>
Unsafe == <<"..", "a">>

MCNames == {"a", "b", "c", "d"}

MCValidPaths == {A, AB, ABC, AD}
MCPathOrder == Unsafe :> 0 @@ A :> 1 @@ AB :> 2 @@ ABC :> 3 @@ AD :> 4

MCSize == "none" :> 0 @@ "x" :> 1 @@ "y" :> 2

MCBases == UNION {[S -> {"x"}] : S \in SUBSET MCValidPaths} \cup {Unsafe :> "x"}

Change(path, action, content, expected) ==
    [path |-> path, action |-> action, content |-> content, expected |-> expected]

Changes ==
    {Change(p, "create", c, "none") : p \in MCValidPaths, c \in {"x", "y"}}
    \cup {Change(p, "update", "y", e) : p \in MCValidPaths, e \in {"none", "x"}}
    \cup {Change(p, "delete", "none", "none") : p \in MCValidPaths}
    \cup {Change(Unsafe, "create", "x", "none")}

MCProposals == {<<>>} \cup {<<c>> : c \in Changes} \cup (Changes \X Changes)
                 \cup (Changes \X Changes \X Changes)
==============================================================================
