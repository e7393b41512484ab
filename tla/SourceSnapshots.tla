---------------------------- MODULE SourceSnapshots ----------------------------
(***************************************************************************)
(* IncidentAnalysis over the trees of GitHub: what the store is given of a *)
(* commit is what get_complete_tree makes of the commit's root tree.       *)
(***************************************************************************)
EXTENDS IncidentAnalysis, SourceTree

CONSTANT RootOf     \* external: commit -> its root tree

ASSUME SnapshotAssumption ==
    /\ RootOf \in [Commits -> TreeObjects]
    /\ \A c \in Commits : FilesAt[c] = Inventory(RootOf[c])

Reference == [c \in Commits |-> FilesOf(RootOf[c])]

\* The inventory of a stored snapshot is the tree of its commit, every file of
\* it under its whole path, also when GitHub truncates the recursive listing
\* and the client walks the tree itself (get_complete_tree: "without silently
\* accepting truncation").
SnapshotComplete ==
    \A k \in DOMAIN snapshots : snapshots[k].files = Reference[snapshots[k].commit]
==============================================================================
