------------------------ MODULE PatchWorkspace_proofs -------------------------
(***************************************************************************)
(* Safety of the patch workspace, for any set of paths, base files and     *)
(* proposals, every limit, and any number of calls and failures: the disk  *)
(* is a tree of valid files, no file that is kept is ever missing, and a   *)
(* proposal that is applied leaves exactly the planned files.              *)
(***************************************************************************)
EXTENDS PatchWorkspace, SequenceTheorems, TLAPS

USE WorkspaceAssumption

Paths == {p \in Seq(Names) : p # <<>>}

IsFunction(f) == f = [p \in DOMAIN f |-> f[p]]

-----------------------------------------------------------------------------
(* Paths *)

LEMMA ValidPathsArePaths == ValidPaths \subseteq Paths
  BY DEF Paths

\* The ancestors of a path are the paths that are strict prefixes of it.
LEMMA AncestorsArePrefixes ==
    ASSUME NEW d \in Paths, NEW p \in Paths
    PROVE  d \in Ancestors(p) <=> IsStrictPrefix(d, p)
  <1>0. /\ d \in Seq(Names) /\ p \in Seq(Names)
        /\ Len(d) \in Nat \ {0} /\ Len(p) \in Nat \ {0}
    BY DEF Paths
  <1>1. ASSUME d \in Ancestors(p) PROVE IsStrictPrefix(d, p)
    <2>1. PICK n \in 1 .. (Len(p) - 1) : d = SubSeq(p, 1, n)
      BY <1>1 DEF Ancestors
    <2>2. Len(d) = n
      BY <1>0, <2>1
    <2>3. SubSeq(d, 1, Len(d)) = d
      BY <1>0
    <2> QED BY <1>0, <2>1, <2>2, <2>3 DEF IsStrictPrefix, IsPrefix
  <1>2. ASSUME IsStrictPrefix(d, p) PROVE d \in Ancestors(p)
    <2>1. /\ Len(d) <= Len(p) /\ SubSeq(d, 1, Len(d)) = SubSeq(p, 1, Len(d)) /\ d # p
      BY <1>2 DEF IsStrictPrefix, IsPrefix
    <2>2. SubSeq(d, 1, Len(d)) = d /\ SubSeq(p, 1, Len(p)) = p
      BY <1>0
    <2>3. Len(d) # Len(p)
      BY <2>1, <2>2
    <2>4. Len(d) \in 1 .. (Len(p) - 1)
      BY <1>0, <2>1, <2>3
    <2> QED BY <2>1, <2>2, <2>4 DEF Ancestors
  <1> QED BY <1>1, <1>2

LEMMA PrefixOf ==
    ASSUME NEW p \in Paths, NEW n \in 1 .. Len(p)
    PROVE  /\ SubSeq(p, 1, n) \in Paths
           /\ Len(SubSeq(p, 1, n)) = n
           /\ \A k \in 1 .. n : SubSeq(SubSeq(p, 1, n), 1, k) = SubSeq(p, 1, k)
  <1>0. p \in Seq(Names) /\ Len(p) \in Nat \ {0} /\ n \in Nat /\ n <= Len(p)
    BY DEF Paths
  <1>1. /\ SubSeq(p, 1, n) \in Seq(Names) /\ Len(SubSeq(p, 1, n)) = n
        /\ \A i \in 1 .. n : SubSeq(p, 1, n)[i] = p[i]
    BY <1>0
  <1>2. SubSeq(p, 1, n) # <<>>
    BY <1>0, <1>1
  <1> DEFINE q == SubSeq(p, 1, n)
  <1>3. q \in Seq(Names) /\ Len(q) = n /\ \A i \in 1 .. n : q[i] = p[i]
    BY <1>1
  <1> HIDE DEF q
  <1>4. ASSUME NEW k \in 1 .. n PROVE SubSeq(q, 1, k) = SubSeq(p, 1, k)
    <2>1. SubSeq(q, 1, k) \in Seq(Names) /\ SubSeq(p, 1, k) \in Seq(Names)
      BY <1>0, <1>3
    <2>2. Len(SubSeq(q, 1, k)) = k /\ Len(SubSeq(p, 1, k)) = k
      BY <1>0, <1>3
    <2>3. \A i \in 1 .. k : SubSeq(q, 1, k)[i] = SubSeq(p, 1, k)[i]
      BY <1>0, <1>3
    <2> QED BY <2>1, <2>2, <2>3, SeqEqual
  <1> QED BY <1>1, <1>2, <1>4 DEF q, Paths

LEMMA AncestorsFacts ==
    ASSUME NEW p \in Paths
    PROVE  /\ Ancestors(p) \subseteq Paths
           /\ p \notin Ancestors(p)
           /\ \A d \in Ancestors(p) : Ancestors(d) \subseteq Ancestors(p)
  <1>0. p \in Seq(Names) /\ Len(p) \in Nat \ {0}
    BY DEF Paths
  <1>1. ASSUME NEW d \in Ancestors(p)
        PROVE  d \in Paths /\ d # p /\ Ancestors(d) \subseteq Ancestors(p)
    <2>1. PICK n \in 1 .. (Len(p) - 1) : d = SubSeq(p, 1, n)
      BY DEF Ancestors
    <2>2. n \in 1 .. Len(p)
      BY <1>0
    <2>3. d \in Paths /\ Len(d) = n /\ \A k \in 1 .. n : SubSeq(d, 1, k) = SubSeq(p, 1, k)
      BY <2>1, <2>2, PrefixOf
    <2>4. d # p
      BY <1>0, <2>3
    <2>5. Ancestors(d) \subseteq Ancestors(p)
      <3>1. SUFFICES ASSUME NEW a \in Ancestors(d) PROVE a \in Ancestors(p)
        OBVIOUS
      <3>2. PICK k \in 1 .. (n - 1) : a = SubSeq(d, 1, k)
        BY <2>3 DEF Ancestors
      <3>3. k \in 1 .. n /\ k \in 1 .. (Len(p) - 1)
        BY <1>0
      <3>4. a = SubSeq(p, 1, k)
        BY <2>3, <3>2, <3>3
      <3> QED BY <3>3, <3>4 DEF Ancestors
    <2> QED BY <2>3, <2>4, <2>5
  <1> QED BY <1>1
-----------------------------------------------------------------------------
(* The tree on disk *)

Tree(f, D) ==
    /\ IsFunction(f) /\ DOMAIN f \subseteq ValidPaths
    /\ D \subseteq Paths
    /\ \A p \in DOMAIN f \cup D : Ancestors(p) \subseteq D
    /\ D \cap DOMAIN f = {}

LEMMA NoFilesTree == Tree(NoFiles, {}) /\ DOMAIN NoFiles = {} /\ Empty(NoFiles, {}) = {}
  BY DEF Tree, NoFiles, IsFunction, Empty

LEMMA WithoutFunction ==
    ASSUME NEW f, NEW S
    PROVE  /\ IsFunction(Without(f, S)) /\ DOMAIN Without(f, S) = DOMAIN f \ S
           /\ \A p \in DOMAIN f \ S : Without(f, S)[p] = f[p]
  BY DEF Without, IsFunction

LEMMA WithFunction ==
    ASSUME NEW f, NEW p, NEW content
    PROVE  /\ IsFunction(With(f, p, content)) /\ DOMAIN With(f, p, content) = DOMAIN f \cup {p}
           /\ With(f, p, content)[p] = content
           /\ \A q \in DOMAIN f : q # p => With(f, p, content)[q] = f[q]
  BY DEF With, IsFunction

\* A file may go at any time.
LEMMA UnlinkKeepsTree ==
    ASSUME NEW f, NEW D, NEW S, Tree(f, D)
    PROVE  Tree(Without(f, S), D)
  <1> DEFINE g == Without(f, S)
  <1>1. IsFunction(g) /\ DOMAIN g = DOMAIN f \ S
    BY WithoutFunction
  <1> HIDE DEF g
  <1>2. Tree(g, D)
    BY <1>1 DEF Tree
  <1> QED BY <1>2 DEF g

\* A prune leaves the directories that the files need.
LEMMA PruneKeepsTree ==
    ASSUME NEW f, NEW D, Tree(f, D)
    PROVE  /\ Tree(f, D \ Empty(f, D))
           /\ Empty(f, D \ Empty(f, D)) = {}
           /\ D \ Empty(f, D) = DirectoriesOf(f)
  <1> DEFINE E == D \ Empty(f, D)
  <1>1. D \subseteq Paths /\ DOMAIN f \subseteq Paths
    BY ValidPathsArePaths DEF Tree
  <1>2. \A d \in D, p \in DOMAIN f : IsStrictPrefix(d, p) <=> d \in Ancestors(p)
    BY <1>1, AncestorsArePrefixes
  <1>3. \A d \in D : d \in E <=> \E p \in DOMAIN f : d \in Ancestors(p)
    BY <1>2 DEF Empty
  <1>4. \A p \in DOMAIN f : Ancestors(p) \subseteq D
    BY DEF Tree
  <1>5. E = DirectoriesOf(f)
    BY <1>3, <1>4 DEF DirectoriesOf
  <1>6. \A d \in E : Ancestors(d) \subseteq E
    <2>1. SUFFICES ASSUME NEW d \in E, NEW p \in DOMAIN f, d \in Ancestors(p)
                   PROVE  Ancestors(d) \subseteq E
      BY <1>3
    <2>2. Ancestors(d) \subseteq Ancestors(p)
      BY <1>1, <2>1, AncestorsFacts
    <2>3. Ancestors(p) \subseteq E
      BY <1>3, <1>4
    <2> QED BY <2>2, <2>3
  <1>7. \A p \in DOMAIN f : Ancestors(p) \subseteq E
    BY <1>3, <1>4
  <1>8. Tree(f, E)
    BY <1>6, <1>7 DEF Tree
  <1>9. Empty(f, E) = {}
    BY DEF Empty
  <1> QED BY <1>5, <1>8, <1>9

\* A file is written where no file and no directory is in its way.
LEMMA WriteKeepsTree ==
    ASSUME NEW f, NEW D, NEW p \in ValidPaths, NEW content, Tree(f, D),
           Ancestors(p) \cap DOMAIN f = {}, p \notin D
    PROVE  /\ Tree(With(f, p, content), D \cup Ancestors(p))
           /\ Empty(f, D) = {} => Empty(With(f, p, content), D \cup Ancestors(p)) = {}
  <1> DEFINE g == With(f, p, content)
             E == D \cup Ancestors(p)
  <1>1. p \in Paths
    BY ValidPathsArePaths
  <1>2. /\ Ancestors(p) \subseteq Paths /\ p \notin Ancestors(p)
        /\ \A d \in Ancestors(p) : Ancestors(d) \subseteq Ancestors(p)
    BY <1>1, AncestorsFacts
  <1>3. IsFunction(g) /\ DOMAIN g = DOMAIN f \cup {p}
    BY WithFunction
  <1> HIDE DEF g
  <1>4. Tree(g, E)
    BY <1>2, <1>3 DEF Tree
  <1>5. ASSUME Empty(f, D) = {} PROVE Empty(g, E) = {}
    <2>1. \A d \in D : \E q \in DOMAIN g : IsStrictPrefix(d, q)
      BY <1>3, <1>5 DEF Empty
    <2>2. \A d \in Ancestors(p) : IsStrictPrefix(d, p)
      BY <1>1, <1>2, AncestorsArePrefixes
    <2> QED BY <1>3, <2>1, <2>2 DEF Empty
  <1> QED BY <1>4, <1>5 DEF g

FirstDirs(p, n) == {SubSeq(p, 1, k) : k \in 1 .. n}

\* A write that fails may have made the first directories of the path.
LEMMA FailedWriteKeepsTree ==
    ASSUME NEW f, NEW D, NEW p \in ValidPaths, Tree(f, D),
           Ancestors(p) \cap DOMAIN f = {}, NEW n \in 0 .. (Len(p) - 1)
    PROVE  Tree(f, D \cup FirstDirs(p, n))
  <1> DEFINE M == {SubSeq(p, 1, k) : k \in 1 .. n}
  <1>1. p \in Paths /\ Len(p) \in Nat
    BY ValidPathsArePaths DEF Paths
  <1>2. M \subseteq Ancestors(p)
    <2>1. \A k \in 1 .. n : k \in 1 .. (Len(p) - 1)
      BY <1>1
    <2> QED BY <2>1 DEF Ancestors
  <1>3. M \subseteq Paths
    BY <1>1, <1>2, AncestorsFacts
  <1>4. ASSUME NEW d \in M PROVE Ancestors(d) \subseteq M
    <2>1. PICK m \in 1 .. n : d = SubSeq(p, 1, m)
      OBVIOUS
    <2>2. m \in 1 .. Len(p)
      BY <1>1
    <2>3. Len(d) = m /\ \A k \in 1 .. m : SubSeq(d, 1, k) = SubSeq(p, 1, k)
      BY <1>1, <2>1, <2>2, PrefixOf
    <2>4. \A k \in 1 .. (m - 1) : k \in 1 .. m /\ k \in 1 .. n
      BY <1>1
    <2> QED BY <2>3, <2>4 DEF Ancestors
  <1>5. M \cap DOMAIN f = {}
    BY <1>2
  <1>6. Tree(f, D \cup M)
    BY <1>3, <1>4, <1>5 DEF Tree
  <1> QED BY <1>6 DEF FirstDirs

-----------------------------------------------------------------------------
(* Invariants *)

\* A file has what it had when the call began, or what the call leaves it.
Old(p) == p \in DOMAIN from /\ files[p] = from[p]
New(p) == p \in DOMAIN to /\ files[p] = to[p]

Types ==
    /\ Tree(files, dirs)
    /\ IsFunction(to) /\ DOMAIN to \subseteq ValidPaths
    /\ DirectoriesOf(to) \cap DOMAIN to = {}
    /\ stage \in {"new", "unlink", "write", "delete", "open", "closed"}
    /\ last \in {"none", "opening", "applying", "applied", "rejected", "blocked", "failed",
                 "left behind"}
    /\ budget \in [applies : Nat, failures : Nat] /\ budget.failures <= MaxFailures
    /\ stage = "new" => /\ files = NoFiles /\ dirs = {} /\ from = NoFiles
                        /\ last = "none"

\* How far the call has come.
Progress ==
    /\ \A p \in DOMAIN files : Old(p) \/ New(p)
    /\ stage # "closed" => DOMAIN from \cap DOMAIN to \subseteq DOMAIN files
    /\ stage \in {"write", "delete"} => Blockers \cap DOMAIN files = {}
    /\ stage = "delete" => \A p \in DOMAIN to : p \in DOMAIN files /\ New(p)
    /\ last = "applied" /\ stage = "open" => files = to /\ dirs = DirectoriesOf(to)

\* A call waits, or writes, or is about to write without unlinking first.
Settled == stage \in {"open", "write"} \/ (stage = "unlink" /\ Blockers = {})

\* No directory is empty then, unless an operation has failed: a directory in
\* the way of a file holds files that are in its way.
Tidy ==
    /\ Untroubled /\ Settled => Empty(files, dirs) = {}
    /\ last = "blocked" => ~Untroubled

WInv == Types /\ Progress /\ Tidy
-----------------------------------------------------------------------------
(* The steps *)

LEMMA InitInv == Init => WInv
  <1> SUFFICES ASSUME Init PROVE WInv
    OBVIOUS
  <1> USE DEF Init
  <1>1. IsFunction(NoFiles) /\ DOMAIN NoFiles = {}
    BY DEF NoFiles, IsFunction
  <1>2. Tree(files, dirs)
    BY NoFilesTree
  <1>3. budget \in [applies : Nat, failures : Nat] /\ budget.failures <= MaxFailures
    OBVIOUS
  <1>4. DirectoriesOf(to) \cap DOMAIN to = {}
    BY <1>1
  <1>5. Types
    BY <1>1, <1>2, <1>3, <1>4 DEF Types
  <1>6. Progress
    BY <1>1 DEF Progress
  <1>7. Tidy
    BY NoFilesTree DEF Tidy
  <1> QED BY <1>5, <1>6, <1>7 DEF WInv

LEMMA ValidFileSetFacts ==
    ASSUME NEW f, ValidFileSet(f)
    PROVE  DOMAIN f \subseteq ValidPaths /\ DirectoriesOf(f) \cap DOMAIN f = {}
  BY DEF ValidFileSet

LEMMA OpenInv ==
    ASSUME WInv, NEW base \in Bases, Open(base)
    PROVE  WInv'
  <1> USE DEF WInv
  <1>1. /\ stage = "new" /\ files = NoFiles /\ dirs = {} /\ from = NoFiles /\ last = "none"
        /\ files' = files /\ dirs' = dirs /\ from' = from /\ budget' = budget
    BY DEF Open, Types
  <1>2. DOMAIN files = {} /\ DOMAIN from = {} /\ Empty(files, dirs) = {}
    BY <1>1, NoFilesTree
  <1>3. CASE ValidFileSet(base)
    <2>1. stage' = "unlink" /\ to' = base /\ last' = "opening"
      BY <1>3 DEF Open, Goto
    <2>2. IsFunction(base) /\ DOMAIN base \subseteq ValidPaths /\ DirectoriesOf(base) \cap DOMAIN base = {}
      BY <1>3, ValidFileSetFacts DEF IsFunction
    <2>3. Types'
      BY <1>1, <2>1, <2>2 DEF Types
    <2>4. Progress' /\ Tidy'
      BY <1>1, <1>2, <2>1 DEF Progress, Tidy
    <2> QED BY <2>3, <2>4
  <1>4. CASE ~ValidFileSet(base)
    <2>1. stage' = "closed" /\ last' = "rejected" /\ to' = to
      BY <1>4 DEF Open, Goto
    <2>2. Types'
      BY <1>1, <2>1 DEF Types
    <2>3. Progress' /\ Tidy'
      BY <1>1, <1>2, <2>1 DEF Progress, Tidy, Settled
    <2> QED BY <2>2, <2>3
  <1> QED BY <1>3, <1>4

LEMMA ApplyInv ==
    ASSUME WInv, NEW changes \in Proposals, Apply(changes)
    PROVE  WInv'
  <1> USE DEF WInv
  <1>1. /\ stage = "open" /\ files' = files /\ dirs' = dirs
        /\ budget' = [budget EXCEPT !.applies = @ - 1] /\ budget.applies > 0
    BY DEF Apply
  <1>2. /\ budget' \in [applies : Nat, failures : Nat] /\ budget'.failures = budget.failures
    <2>0. budget.applies \in Nat
      BY DEF Types
    <2>1. budget.applies - 1 \in Nat
      BY <1>1, <2>0
    <2> QED BY <1>1, <2>1 DEF Types
  <1>3. CASE /\ ValidFileSet(files) /\ Planned(changes, files)
             /\ Goto("unlink")
             /\ from' = files /\ last' = "applying"
             /\ to' = FilesAfter(Len(changes), changes, files)
    <2> DEFINE plan == FilesAfter(Len(changes), changes, files)
    <2>1. IsFunction(plan)
      BY DEF IsFunction, FilesAfter
    <2>2. DOMAIN plan \subseteq ValidPaths /\ DirectoriesOf(plan) \cap DOMAIN plan = {}
      BY <1>3, ValidFileSetFacts DEF Planned
    <2>3. to' = plan /\ from' = files /\ last' = "applying" /\ stage' = "unlink"
      BY <1>3 DEF Goto
    <2> HIDE DEF plan
    <2>4. Types'
      BY <1>1, <1>2, <2>1, <2>2, <2>3 DEF Types
    <2>5. Progress'
      BY <1>1, <2>3 DEF Progress, Old
    <2>6. Tidy'
      BY <1>1, <1>2, <2>3 DEF Tidy, Settled, Untroubled
    <2> QED BY <2>4, <2>5, <2>6
  <1>4. CASE last' = "rejected" /\ UNCHANGED <<stage, from, to>>
    <2>1. Types'
      BY <1>1, <1>2, <1>4 DEF Types
    <2>2. Progress'
      BY <1>1, <1>4 DEF Progress, Old, New
    <2>3. Tidy'
      BY <1>1, <1>2, <1>4 DEF Tidy, Settled, Untroubled
    <2> QED BY <2>1, <2>2, <2>3
  <1> QED BY <1>3, <1>4 DEF Apply

LEMMA UnlinkBlockerInv ==
    ASSUME WInv, UnlinkBlocker
    PROVE  WInv'
  <1> USE DEF WInv
  <1>1. PICK p \in ToUnlink : files' = Without(files, {p})
    BY DEF UnlinkBlocker
  <1>2. stage = "unlink" /\ UNCHANGED <<dirs, stage, from, to, last, budget>>
    BY DEF UnlinkBlocker
  <1>3. p \in Blockers /\ p \notin DOMAIN to
    BY DEF ToUnlink, Blockers, Obsolete
  <1>4. /\ DOMAIN files' = DOMAIN files \ {p}
        /\ \A q \in DOMAIN files' : files'[q] = files[q]
    <2>1. /\ DOMAIN Without(files, {p}) = DOMAIN files \ {p}
          /\ \A q \in DOMAIN files \ {p} : Without(files, {p})[q] = files[q]
      BY WithoutFunction
    <2> QED BY <1>1, <2>1
  <1>5. Tree(files', dirs')
    BY <1>1, <1>2, UnlinkKeepsTree DEF Types
  <1>6. Types'
    BY <1>2, <1>5 DEF Types
  <1>7. Progress'
    BY <1>2, <1>3, <1>4 DEF Progress, Old, New
  <1>8. Blockers' = Blockers
    BY <1>2 DEF Blockers, Obsolete
  <1>9. Tidy'
    BY <1>2, <1>3, <1>8 DEF Tidy, Settled, Untroubled
  <1> QED BY <1>6, <1>7, <1>9

LEMMA PruneBlockersInv ==
    ASSUME WInv, PruneBlockers
    PROVE  WInv'
  <1> USE DEF WInv
  <1>1. /\ stage = "unlink" /\ ToUnlink = {} /\ stage' = "write"
        /\ UNCHANGED <<files, from, to, last, budget>>
        /\ IF Blockers # {} THEN dirs' = dirs \ Empty(files, dirs) ELSE dirs' = dirs
    BY DEF PruneBlockers, Prune, Goto
  <1>2. Tree(files, dirs)
    BY DEF Types
  <1>3. Tree(files', dirs') /\ (Blockers # {} => Empty(files', dirs') = {})
    <2>1. /\ Tree(files, dirs \ Empty(files, dirs))
          /\ Empty(files, dirs \ Empty(files, dirs)) = {}
      BY <1>2, PruneKeepsTree
    <2>2. CASE Blockers # {}
      <3>1. dirs' = dirs \ Empty(files, dirs) /\ files' = files
        BY <1>1, <2>2
      <3> QED BY <2>1, <3>1
    <2>3. CASE Blockers = {}
      BY <1>1, <1>2, <2>3
    <2> QED BY <2>2, <2>3
  <1>4. Types'
    BY <1>1, <1>3 DEF Types
  <1>5. Blockers' = Blockers /\ Blockers \cap DOMAIN files = {}
    BY <1>1 DEF Blockers, Obsolete, ToUnlink
  <1>6. Progress'
    BY <1>1, <1>5 DEF Progress, Old, New
  <1>7. Tidy'
    BY <1>1, <1>3 DEF Tidy, Settled, Untroubled
  <1> QED BY <1>4, <1>6, <1>7

\* Between the unlinks and the deletions no file is where a directory goes,
LEMMA NoFileAbove ==
    ASSUME WInv, stage = "write", NEW p \in DOMAIN to
    PROVE  Ancestors(p) \cap DOMAIN files = {}
  <1> SUFFICES ASSUME NEW d \in Ancestors(p), d \in DOMAIN files PROVE FALSE
    OBVIOUS
  <1>1. d \in DirectoriesOf(to) /\ d \notin DOMAIN to
    BY DEF WInv, Types, DirectoriesOf
  <1>2. d \in DOMAIN from
    BY <1>1 DEF WInv, Progress, Old, New
  <1>3. d \in Blockers
    BY <1>1, <1>2 DEF Blockers, Obsolete
  <1> QED BY <1>3 DEF WInv, Progress

\* and a directory where a file goes is one that a failure has left empty.
LEMMA BlockedMeansTrouble ==
    ASSUME WInv, stage = "write", NEW p \in ToWrite, Blocked(p)
    PROVE  ~Untroubled
  <1> SUFFICES ASSUME Untroubled PROVE FALSE
    OBVIOUS
  <1>1. p \in DOMAIN to /\ p \in Paths /\ DOMAIN files \subseteq Paths
    BY ValidPathsArePaths DEF ToWrite, WInv, Types, Tree
  <1>2. p \in dirs
    BY <1>1, NoFileAbove DEF Blocked
  <1>3. Empty(files, dirs) = {}
    BY DEF WInv, Tidy, Settled
  <1>4. PICK q \in DOMAIN files : IsStrictPrefix(p, q)
    BY <1>2, <1>3 DEF Empty
  <1>5. CASE q \in DOMAIN to
    <2>1. p \in Ancestors(q)
      BY <1>1, <1>4, AncestorsArePrefixes
    <2>2. p \in DirectoriesOf(to)
      BY <1>5, <2>1 DEF DirectoriesOf
    <2> QED BY <1>1, <2>2 DEF WInv, Types
  <1>6. CASE q \notin DOMAIN to
    <2>1. q \in DOMAIN from
      BY <1>6 DEF WInv, Progress, Old, New
    <2>2. q \in Blockers
      BY <1>1, <1>4, <1>6, <2>1 DEF Blockers, Obsolete
    <2> QED BY <2>2 DEF WInv, Progress
  <1> QED BY <1>5, <1>6

\* __init__ gives up and removes everything, or apply gives up.
LEMMA AbortInv ==
    ASSUME WInv, NEW how \in {"blocked", "failed"}, Abort(how), UNCHANGED <<from, to>>,
           stage \notin {"new", "closed"},
           budget' \in [applies : Nat, failures : Nat], budget'.failures <= MaxFailures,
           ~Untroubled',
           \/ stage' = "closed" /\ files' = NoFiles /\ dirs' = {}
           \/ stage' = "open" /\ files' = files /\ Tree(files, dirs')
    PROVE  WInv'
  <1> USE DEF WInv
  <1>1. last' = how /\ stage' \in {"closed", "open"}
    BY DEF Abort
  <1>2. Tree(files', dirs')
    BY NoFilesTree
  <1>3. Types'
    BY <1>1, <1>2 DEF Types
  <1>4. Progress'
    <2>1. CASE stage' = "closed"
      BY <1>1, <2>1, NoFilesTree DEF Progress
    <2>2. CASE stage' = "open" /\ files' = files
      BY <1>1, <2>2 DEF Progress, Old, New
    <2> QED BY <2>1, <2>2
  <1>5. Tidy'
    BY DEF Tidy
  <1> QED BY <1>3, <1>4, <1>5

LEMMA WriteNextInv ==
    ASSUME WInv, WriteNext
    PROVE  WInv'
  <1>1. stage = "write" /\ UNCHANGED <<from, to, budget>>
    BY DEF WriteNext
  <1>2. PICK p \in ToWrite :
            IF Blocked(p)
            THEN /\ Abort("blocked")
                 /\ IF stage' = "closed" THEN files' = NoFiles /\ dirs' = {}
                    ELSE UNCHANGED <<files, dirs>>
            ELSE /\ dirs' = dirs \cup Ancestors(p)
                 /\ files' = With(files, p, to[p])
                 /\ UNCHANGED <<stage, last>>
    BY DEF WriteNext
  <1>3. CASE Blocked(p)
    <2>1. ~Untroubled'
      BY <1>1, <1>3, BlockedMeansTrouble DEF Untroubled
    <2>2. \/ stage' = "closed" /\ files' = NoFiles /\ dirs' = {}
          \/ stage' = "open" /\ files' = files /\ Tree(files, dirs')
      BY <1>2, <1>3 DEF Abort, WInv, Types
    <2>3. Abort("blocked")
      BY <1>2, <1>3
    <2>4. budget' \in [applies : Nat, failures : Nat] /\ budget'.failures <= MaxFailures
      BY <1>1 DEF WInv, Types
    <2> QED BY <1>1, <2>1, <2>2, <2>3, <2>4, AbortInv
  <1>4. CASE ~Blocked(p)
    <2>1. /\ dirs' = dirs \cup Ancestors(p) /\ files' = With(files, p, to[p])
          /\ stage' = stage /\ last' = last
      BY <1>2, <1>4
    <2>2. p \in DOMAIN to /\ p \in ValidPaths
      BY DEF ToWrite, WInv, Types
    <2>3. Ancestors(p) \cap DOMAIN files = {} /\ p \notin dirs
      BY <1>4 DEF Blocked
    <2>4. Tree(files', dirs') /\ (Empty(files, dirs) = {} => Empty(files', dirs') = {})
      BY <2>1, <2>2, <2>3, WriteKeepsTree DEF WInv, Types
    <2>5. /\ DOMAIN files' = DOMAIN files \cup {p} /\ files'[p] = to[p]
          /\ \A q \in DOMAIN files : q # p => files'[q] = files[q]
      <3>1. /\ DOMAIN With(files, p, to[p]) = DOMAIN files \cup {p}
            /\ With(files, p, to[p])[p] = to[p]
            /\ \A q \in DOMAIN files : q # p => With(files, p, to[p])[q] = files[q]
        BY DEF With
      <3> QED BY <2>1, <3>1
    <2>6. Types'
      BY <1>1, <2>1, <2>4 DEF WInv, Types
    <2>7. Blockers' = Blockers /\ p \notin Blockers
      BY <1>1, <2>2 DEF Blockers, Obsolete
    <2>8. Progress'
      <3>1. \A q \in DOMAIN files' : Old(q)' \/ New(q)'
        BY <1>1, <2>2, <2>5 DEF WInv, Progress, Old, New
      <3>2. DOMAIN from' \cap DOMAIN to' \subseteq DOMAIN files'
        BY <1>1, <2>5 DEF WInv, Progress
      <3>3. Blockers' \cap DOMAIN files' = {}
        BY <1>1, <2>5, <2>7 DEF WInv, Progress
      <3> QED BY <1>1, <2>1, <3>1, <3>2, <3>3 DEF Progress
    <2>9. Tidy'
      BY <1>1, <2>1, <2>4 DEF WInv, Tidy, Settled, Untroubled
    <2> QED BY <2>6, <2>8, <2>9 DEF WInv
  <1> QED BY <1>3, <1>4

LEMMA WritesDoneInv ==
    ASSUME WInv, WritesDone
    PROVE  WInv'
  <1> USE DEF WInv
  <1>1. /\ stage = "write" /\ ToWrite = {} /\ stage' = "delete"
        /\ UNCHANGED <<files, dirs, from, to, last, budget>>
    BY DEF WritesDone, Goto
  <1>2. ASSUME NEW p \in DOMAIN to PROVE p \in DOMAIN files /\ New(p)
    BY <1>1 DEF ToWrite, Progress, Old, New
  <1>3. Types'
    BY <1>1 DEF Types
  <1>4. Blockers' = Blockers
    BY <1>1 DEF Blockers, Obsolete
  <1>5. Progress'
    BY <1>1, <1>2, <1>4 DEF Progress, Old, New
  <1>6. Tidy'
    BY <1>1 DEF Tidy, Settled, Untroubled
  <1> QED BY <1>3, <1>5, <1>6

LEMMA DeleteNextInv ==
    ASSUME WInv, DeleteNext
    PROVE  WInv'
  <1> USE DEF WInv
  <1>1. PICK p \in ToDelete : files' = Without(files, {p})
    BY DEF DeleteNext
  <1>2. stage = "delete" /\ UNCHANGED <<dirs, stage, from, to, last, budget>>
    BY DEF DeleteNext
  <1>3. p \notin DOMAIN to
    BY DEF ToDelete, Obsolete
  <1>4. /\ DOMAIN files' = DOMAIN files \ {p}
        /\ \A q \in DOMAIN files' : files'[q] = files[q]
    <2>1. /\ DOMAIN Without(files, {p}) = DOMAIN files \ {p}
          /\ \A q \in DOMAIN files \ {p} : Without(files, {p})[q] = files[q]
      BY WithoutFunction
    <2> QED BY <1>1, <2>1
  <1>5. Tree(files', dirs')
    BY <1>1, <1>2, UnlinkKeepsTree DEF Types
  <1>6. Types'
    BY <1>2, <1>5 DEF Types
  <1>7. Blockers' = Blockers
    BY <1>2 DEF Blockers, Obsolete
  <1>8. Progress'
    BY <1>2, <1>3, <1>4, <1>7 DEF Progress, Old, New
  <1>9. Tidy'
    BY <1>2 DEF Tidy, Settled, Untroubled
  <1> QED BY <1>6, <1>8, <1>9

LEMMA FinishInv ==
    ASSUME WInv, Finish
    PROVE  WInv'
  <1> USE DEF WInv
  <1>1. /\ stage = "delete" /\ ToDelete = {} /\ stage' = "open" /\ last' = "applied"
        /\ dirs' = dirs \ Empty(files, dirs)
        /\ UNCHANGED <<files, from, to, budget>>
    BY DEF Finish, Prune, Goto
  <1>2. /\ Tree(files, dirs') /\ Empty(files, dirs') = {}
        /\ dirs' = DirectoriesOf(files)
    BY <1>1, PruneKeepsTree DEF Types
  <1>3. DOMAIN files = DOMAIN to
    <2>1. \A p \in DOMAIN files : p \notin Obsolete
      BY <1>1 DEF ToDelete, Progress
    <2>2. DOMAIN files \subseteq DOMAIN to
      BY <2>1 DEF Obsolete, Progress, Old, New
    <2> QED BY <1>1, <2>2 DEF Progress
  <1>4. \A p \in DOMAIN to : files[p] = to[p]
    BY <1>1 DEF Progress, New
  <1>5. files = to
    <2>1. files = [p \in DOMAIN files |-> files[p]] /\ to = [p \in DOMAIN to |-> to[p]]
      BY DEF Types, Tree, IsFunction
    <2> QED BY <1>3, <1>4, <2>1
  <1>6. Types'
    BY <1>1, <1>2 DEF Types
  <1>7. Progress'
    BY <1>1, <1>2, <1>5 DEF Progress, Old, New
  <1>8. Tidy'
    BY <1>1, <1>2 DEF Tidy
  <1> QED BY <1>6, <1>7, <1>8

LEMMA BudgetDrops ==
    ASSUME Types, budget.failures > 0, budget' = [budget EXCEPT !.failures = @ - 1]
    PROVE  /\ budget' \in [applies : Nat, failures : Nat] /\ budget'.failures <= MaxFailures
           /\ ~Untroubled'
  <1>0. budget.failures \in Nat /\ budget.failures <= MaxFailures /\ MaxFailures \in Nat
    BY DEF Types
  <1>1. budget.failures - 1 \in Nat /\ budget.failures - 1 < MaxFailures
    BY <1>0
  <1>2. budget' \in [applies : Nat, failures : Nat] /\ budget'.failures = budget.failures - 1
    BY <1>1 DEF Types
  <1> QED BY <1>1, <1>2 DEF Untroubled

LEMMA OperationFailsInv ==
    ASSUME WInv, OperationFails
    PROVE  WInv'
  <1>1. /\ budget.failures > 0 /\ budget' = [budget EXCEPT !.failures = @ - 1]
        /\ Abort("failed") /\ last # "opening" /\ UNCHANGED <<files, from, to>>
        /\ stage \in {"unlink", "write", "delete"}
    BY DEF OperationFails
  <1>2. stage' = "open"
    BY <1>1 DEF Abort
  <1>3. Tree(files, dirs')
    <2>1. Tree(files, dirs)
      BY DEF WInv, Types
    <2>2. CASE dirs' = dirs
      BY <2>1, <2>2
    <2>3. ASSUME NEW p \in ToWrite, ~Blocked(p), NEW n \in 0..(Len(p) - 1),
                 dirs' = dirs \cup {SubSeq(p, 1, k) : k \in 1..n}
          PROVE  Tree(files, dirs')
      <3>1. p \in ValidPaths /\ Ancestors(p) \cap DOMAIN files = {}
        BY <2>3 DEF ToWrite, Blocked, WInv, Types
      <3>2. Tree(files, dirs \cup FirstDirs(p, n))
        BY <2>1, <3>1, FailedWriteKeepsTree
      <3> QED BY <2>3, <3>2 DEF FirstDirs
    <2>4. \/ dirs' = dirs
          \/ \E p \in ToWrite :
                /\ ~Blocked(p)
                /\ \E n \in 0..(Len(p) - 1) : dirs' = dirs \cup {SubSeq(p, 1, k) : k \in 1..n}
      BY DEF OperationFails
    <2> QED BY <2>2, <2>3, <2>4
  <1> QED BY <1>1, <1>2, <1>3, BudgetDrops, AbortInv DEF WInv

LEMMA OpenFailsInv ==
    ASSUME WInv, OpenFails
    PROVE  WInv'
  <1>1. /\ budget.failures > 0 /\ budget' = [budget EXCEPT !.failures = @ - 1]
        /\ Abort("failed") /\ last = "opening" /\ stage = "write"
        /\ files' = NoFiles /\ dirs' = {} /\ UNCHANGED <<from, to>>
    BY DEF OpenFails
  <1>2. stage' = "closed"
    BY <1>1 DEF Abort
  <1> QED BY <1>1, <1>2, BudgetDrops, AbortInv DEF WInv

LEMMA CleanupInv ==
    ASSUME WInv, Cleanup
    PROVE  WInv'
  <1> USE DEF WInv
  <1>1. stage = "open" /\ stage' = "closed" /\ UNCHANGED <<from, to>>
    BY DEF Cleanup, Goto
  <1>2. CASE files' = NoFiles /\ dirs' = {} /\ UNCHANGED <<last, budget>>
    <2>1. Types'
      BY <1>1, <1>2, NoFilesTree DEF Types
    <2>2. Progress' /\ Tidy'
      BY <1>1, <1>2, NoFilesTree DEF Progress, Tidy, Settled, Untroubled
    <2> QED BY <2>1, <2>2
  <1>3. CASE /\ budget.failures > 0
             /\ last' = "left behind"
             /\ budget' = [budget EXCEPT !.failures = @ - 1]
             /\ UNCHANGED <<files, dirs>>
    <2>1. budget' \in [applies : Nat, failures : Nat] /\ budget'.failures <= MaxFailures
      BY <1>3, BudgetDrops
    <2>2. Types'
      BY <1>1, <1>3, <2>1 DEF Types
    <2>3. Progress' /\ Tidy'
      BY <1>1, <1>3 DEF Progress, Old, New, Tidy, Settled
    <2> QED BY <2>2, <2>3
  <1> QED BY <1>2, <1>3 DEF Cleanup

LEMMA NextInv == WInv /\ [Next]_vars => WInv'
  <1> SUFFICES ASSUME WInv, [Next]_vars PROVE WInv'
    OBVIOUS
  <1>1. CASE UNCHANGED vars
    BY <1>1 DEF vars, WInv, Types, Progress, Old, New, Blockers, Obsolete, Tidy, Settled, Untroubled
  <1> QED BY <1>1, OpenInv, ApplyInv, UnlinkBlockerInv, PruneBlockersInv, WriteNextInv,
             WritesDoneInv, DeleteNextInv, FinishInv, OperationFailsInv, OpenFailsInv,
             CleanupInv DEF Next

LEMMA InvAlways == Spec => []WInv
  BY InitInv, NextInv, PTL DEF Spec

-----------------------------------------------------------------------------
(* Theorems *)

LEMMA InvGives == WInv => TypeOK /\ NothingLost /\ AppliedExactly
  <1> SUFFICES ASSUME WInv PROVE TypeOK /\ NothingLost /\ AppliedExactly
    OBVIOUS
  <1>1. TypeOK
    BY DEF WInv, Types, Tree, TypeOK
  <1>2. NothingLost
    BY DEF WInv, Progress, Old, New, NothingLost
  <1>3. AppliedExactly
    BY DEF WInv, Progress, Tidy, AppliedExactly
  <1> QED BY <1>1, <1>2, <1>3

\* Whatever is unlinked, written and pruned, and wherever a call stops, the
\* disk is a tree: every file and every directory is in directories that
\* exist, and no path is both.
THEOREM DiskIsATree == Spec => []TypeOK
  BY InvAlways, InvGives, PTL

\* Whichever step of _write_result_files is the last one, a file that the
\* proposal keeps is on disk with its old or its new content.
THEOREM NoFileIsLost == Spec => []NothingLost
  BY InvAlways, InvGives, PTL

\* A call that reports success has left exactly the planned files and the
\* directories they need, and without a failure of the operating system
\* nothing that is on disk is in the way of a planned file.
THEOREM PlansAreAppliedExactly == Spec => []AppliedExactly
  BY InvAlways, InvGives, PTL


===============================================================================
