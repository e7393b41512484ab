------------------------------ MODULE SourceTree ------------------------------
(***************************************************************************)
(* Reading a repository's file inventory through GitHub's tree API:        *)
(* GitHubReadOnlyClient.get_complete_tree                                  *)
(* (src/github_integration/client.py).                                     *)
(*                                                                         *)
(* Git objects are immutable and named by their content, so the requests   *)
(* of one walk read the same tree whatever is pushed between them, and the *)
(* walk is a function of the root.  A path is the sequence of its names.   *)
(* The calls of walk that are under way are one list of the entries still  *)
(* to come, each with the trees it is inside of.                           *)
(***************************************************************************)
EXTENDS Integers, FiniteSets, SequencesExt

CONSTANTS
    Entries,        \* external: tree object -> sequence of [name, type, sha]
    WholeListing,   \* external: tree object -> GitHub's recursive listing of it
    Truncates,      \* external: tree objects the recursive listing of which is truncated,
    TruncatesPage,  \* and those even the plain listing of which is
    MaxEntries, MaxTreeRequests, MaxTreeDepth

TreeObjects == DOMAIN Entries

-----------------------------------------------------------------------------
(* What is below a tree, from the objects alone *)

Children(t) == ToSet(Entries[t])
AllEntries == UNION {Children(t) : t \in TreeObjects}

\* The entries one goes through from t down to the last of them.
LeadsFrom(t, r) ==
    /\ r[1] \in Children(t)
    /\ \A k \in 1..(Len(r) - 1) : r[k].type = "tree" /\ r[k + 1] \in Children(r[k].sha)

\* A route through more directories than there are would be in one twice.
Routes(t) ==
    UNION {{r \in [1..n -> AllEntries] : LeadsFrom(t, r)} : n \in 1..Cardinality(TreeObjects)}

Whole(r) == [path |-> [k \in 1..Len(r) |-> r[k].name], type |-> r[Len(r)].type, sha |-> r[Len(r)].sha]

EntriesOf(root) == {Whole(r) : r \in Routes(root)}

Blobs(S) == {[path |-> e.path, blob |-> e.sha] : e \in {d \in S : d.type = "blob"}}

FilesOf(root) == Blobs(EntriesOf(root))

\* There are finitely many objects, a directory names one of them, and a listing
\* GitHub does not call truncated has every entry under its whole path.
ASSUME TreeAssumption ==
    /\ IsFiniteSet(TreeObjects)
    /\ \A t \in TreeObjects : Entries[t] \in Seq(AllEntries)
    /\ \A e \in AllEntries : e.type = "tree" => e.sha \in TreeObjects
    /\ \A t \in TreeObjects \ Truncates : ToSet(WholeListing[t]) = EntriesOf(t)
    /\ {MaxEntries, MaxTreeRequests, MaxTreeDepth} \subseteq Nat \ {0}

-----------------------------------------------------------------------------
(* client.py *)

Fine == "fine"
LimitExceeded == "limit"
Cyclic == "cyclic"

Untouched == [entries |-> <<>>, todo |-> <<>>, requests |-> 0, error |-> Fine]

Stopped(w, error) == [w EXCEPT !.error = error]

\* Mutant: the entries of a nested tree keep the names they have in it.
LocatedInPlace(prefix, e) == [path |-> <<e.name>>, type |-> e.type, sha |-> e.sha]

\* One entry of a listing, under the directory it was found in.
Located(prefix, e) == [path |-> Append(prefix, e.name), type |-> e.type, sha |-> e.sha]

\* A call of walk, up to its loop: what it lists comes before what is left of
\* the loops it was called from.  A tree that is on the path down to itself is
\* a cycle; the same tree twice side by side is not.
Enter(w, t, prefix, above) ==
    IF Len(prefix) > MaxTreeDepth THEN Stopped(w, LimitExceeded)
    ELSE IF t \in above THEN Stopped(w, Cyclic)
    ELSE IF w.requests + 1 > MaxTreeRequests \/ t \in TruncatesPage THEN Stopped(w, LimitExceeded)
    ELSE [w EXCEPT !.requests = @ + 1,
                   !.todo = [k \in DOMAIN Entries[t] |-> [entry |-> Located(prefix, Entries[t][k]),
                                                          above |-> above \cup {t}]] \o @]

\* One turn of the innermost loop: an entry is collected before its subtree.
Turn(w) ==
    IF w.error # Fine \/ w.todo = <<>> THEN w
    ELSE LET e    == Head(w.todo).entry
             with == [w EXCEPT !.entries = Append(@, e), !.todo = Tail(@)]
         IN  IF Len(with.entries) > MaxEntries THEN Stopped(with, LimitExceeded)
             ELSE IF e.type = "tree" THEN Enter(with, e.sha, e.path, Head(w.todo).above)
             ELSE with

\* Each turn collects an entry, so one turn more than there may be is enough.
Walk(root) ==
    LET walk[n \in 0..(MaxEntries + 1)] ==
            IF n = 0 THEN Enter(Untouched, root, <<>>, {}) ELSE Turn(walk[n - 1])
    IN  walk[MaxEntries + 1]

\* The walk is only made for a tree too large for one recursive listing.
get_complete_tree(root) ==
    IF root \notin Truncates
    THEN [Untouched EXCEPT !.entries = WholeListing[root],
                           !.error = IF Len(WholeListing[root]) > MaxEntries THEN LimitExceeded ELSE Fine]
    ELSE Walk(root)

\* create_snapshot stores the blobs of a tree that could be read whole.
Inventory(root) ==
    LET tree == get_complete_tree(root)
    IN  IF tree.error = Fine
        THEN [whole |-> TRUE, files |-> Blobs(ToSet(tree.entries))]
        ELSE [whole |-> FALSE, files |-> {}]
==============================================================================
