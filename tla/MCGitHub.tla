------------------------------- MODULE MCGitHub -------------------------------
(***************************************************************************)
(* SourceSnapshots: the connection and the analysis over a few trees.      *)
(* The tree of commit 1 comes in one listing.  That of commit 2 is         *)
(* truncated and walked; a directory occurs in it twice.  That of commit 3 *)
(* is deeper than the walk goes.                                           *)
(***************************************************************************)
EXTENDS SourceSnapshots

CONSTANT client

File(name, blob) == [name |-> name, type |-> "blob", sha |-> blob]
Dir(name, tree) == [name |-> name, type |-> "tree", sha |-> tree]

Trees ==
    "root1" :> <<File("a", "small"), Dir("lib", "libs")>> @@
    "root2" :> <<Dir("lib", "libs"), Dir("old", "libs"), File("a", "large")>> @@
    "root3" :> <<Dir("d", "root4")>> @@
    "root4" :> <<Dir("d", "libs")>> @@
    "libs"  :> <<File("b", "middle"), File("c", "blank"), File("d", "image")>>

Large == {"root2", "root3"}

\* The contents of libs, in a listing of a tree that has it at dir.
Libs(dir) ==
    LET Found(name, blob) == [path |-> Append(dir, name), type |-> "blob", sha |-> blob]
    IN  <<Found("b", "middle"), Found("c", "blank"), Found("d", "image")>>

Sub(path, tree) == [path |-> path, type |-> "tree", sha |-> tree]

MCWholeListing ==
    "root1" :> <<[path |-> <<"a">>, type |-> "blob", sha |-> "small"], Sub(<<"lib">>, "libs")>>
               \o Libs(<<"lib">>) @@
    "root4" :> <<Sub(<<"d">>, "libs")>> \o Libs(<<"d">>) @@
    "libs"  :> Libs(<<>>)

MCRootOf == <<"root1", "root2", "root3">>
MCFilesAt == <<Inventory("root1"), Inventory("root2"), Inventory("root3")>>

MCSize == "small" :> 1 @@ "middle" :> 2 @@ "large" :> 3 @@ "blank" :> 0 @@ "image" :> 1
MCText == "small" :> "text" @@ "middle" :> "text" @@ "large" :> "text" @@
          "blank" :> "blank" @@ "image" :> "binary"

\* Escaping makes the large file too large for a request.
MCChatBytes == "small" :> 1 @@ "middle" :> 3 @@ "large" :> 6 @@ "blank" :> 0 @@ "image" :> 0

Sorted == <<<<"a">>, <<"lib", "b">>, <<"lib", "c">>, <<"lib", "d">>,
            <<"old", "b">>, <<"old", "c">>, <<"old", "d">>>>
MCPathOrder == [p \in ToSet(Sorted) |-> CHOOSE k \in DOMAIN Sorted : Sorted[k] = p]
MCSafePaths == ToSet(Sorted)
MCWorkspacePaths == MCSafePaths \ {<<"lib", "b">>}
MCRelevance == [p \in ToSet(Sorted) |-> IF p[1] = "a" THEN 1 ELSE IF p[1] = "lib" THEN 2 ELSE 0]

Policy(files, size, total) ==
    [max_files |-> files, max_file_bytes |-> size, max_total_bytes |-> total]
MCDiagnosisPolicy == Policy(7, 3, 5)
MCPatchPolicy == Policy(7, 3, 5)

Claim(path, blob, inside) == [path |-> path, blob |-> blob, inside |-> inside]

MCAnswers ==
    {[evidence |-> {Claim(<<"lib", "b">>, "middle", TRUE)}, fix |-> {<<"a">>}],
     [evidence |-> {Claim(<<"lib", "b">>, "middle", TRUE)}, fix |-> {<<"lib", "b">>}],
     [evidence |-> {Claim(<<"lib", "b">>, "middle", TRUE)}, fix |-> {<<"old", "b">>}],
     [evidence |-> {Claim(<<"lib", "b">>, "middle", FALSE)}, fix |-> {}]}

MCProposals == {{}, {<<"a">>}, {<<"lib", "b">>}, {<<"a">>, <<"lib", "b">>}}
==============================================================================
