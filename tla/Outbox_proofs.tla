---------------------------- MODULE Outbox_proofs ----------------------------
(***************************************************************************)
(* Safety of delivery, for a queue of any length and every value of the    *)
(* constants.  For any number of workers: the tables keep their types, an  *)
(* outage dead-letters nothing, and coalescing keeps the fallback marker.  *)
(* For the one worker main.py starts: the outage on record is the state of *)
(* the breaker, and no change of an incident is forgotten.                 *)
(***************************************************************************)
EXTENDS Outbox, FiniteSetTheorems, FunctionTheorems, SequenceTheorems, WellFoundedInduction, TLAPS

USE OutboxAssumption

Trace == [delivered : Nat, transient : Nat, fatal : BOOLEAN]

Claim == [id : Nat, attempts : Nat]

Job == [pc : {"asleep", "awake", "probing", "draining", "calling", "accepted",
              "marked", "rejected", "settling", "failingOver"},
        probes : SUBSET Channels, batch : SUBSET Claim, row : Nat, attempts : Nat,
        rendered : Nat, verdict : Verdicts \cup {"none"}, hint : Nat, parkFor : Nat,
        newlyDown : BOOLEAN, elapsed : Nat]

\* The types of all variables.
Types ==
    /\ outbox \in Seq(Row)
    /\ trace \in Seq(Trace) /\ Len(trace) = Len(outbox)
    /\ breaker \in [Channels -> Breaker]
    /\ outage \in [Channels -> [open : BOOLEAN, number : Nat]]
    /\ worker \in [Workers -> Job]
    /\ version \in [Incidents -> Nat]
    /\ owed \in [Incidents -> [Channels -> Nat]]
    /\ shown \in [Incidents -> [Channels -> Nat]]
    /\ budget \in [faults : Nat, crashes : Nat]

Holding == {"calling", "accepted", "marked", "rejected", "settling", "failingOver"}

\* What a worker holds in memory are rows of the table.
JobOK(job, table) ==
    /\ job.row \in DOMAIN table \cup {0}
    /\ job.pc \in Holding => job.row \in DOMAIN table
    /\ \A b \in job.batch : b.id \in DOMAIN table

\* The attempts that were read with a row are transient failures it had, and a
\* verdict about it that is not yet written is on record.
ChargesOK(job, log) ==
    /\ \A b \in job.batch : b.attempts <= log[b.id].transient
    /\ job.pc = "calling" => job.attempts <= log[job.row].transient
    /\ job.pc \in {"rejected", "settling"} =>
          /\ job.verdict \in Verdicts
          /\ job.verdict = "transient" => job.attempts + 1 <= log[job.row].transient
          /\ job.verdict = "fatal" => log[job.row].fatal

WorkersOK == \A w \in Workers : JobOK(worker[w], outbox) /\ ChargesOK(worker[w], trace)

\* The attempts of a row are transient failures it had, and a dead row was
\* rejected for good or used its attempts up.
Charged(row, past) ==
    /\ row.attempts <= past.transient
    /\ row.status = "dead" => past.fatal \/ past.transient >= MaxAttempts

RowsCharged == \A r \in Rows : Charged(outbox[r], trace[r])

\* SupersededKeepsMarker of one row, with the row that replaces it in the table.
Marked(table, r) ==
    table[r].status = "superseded" =>
        LET w == table[r].supersededBy
        IN  /\ w \in DOMAIN table /\ w > r
            /\ table[w].inc = table[r].inc /\ table[w].chan = table[r].chan
            /\ table[r].via # NoVia => table[w].via # NoVia

AllMarked(table) == \A r \in DOMAIN table : Marked(table, r)

\* The inductive invariant for any number of workers.
IInv == Types /\ WorkersOK /\ RowsCharged /\ AllMarked(outbox)

OneWorker == \A v, w \in Workers : v = w

\* What one worker knows of a channel it is about to probe.
ProbesOpen ==
    \A w \in Workers : worker[w].pc = "probing" =>
        \A c \in worker[w].probes : breaker[c].state = "OPEN"

\* The newest row of an incident on a channel.
IsNewest(r, table) ==
    \A o \in DOMAIN table : table[o].inc = table[r].inc /\ table[o].chan = table[r].chan => o <= r

\* Nothing promised or shown is ahead of the incident, and an incident that was
\* promised on a channel has a row there.
PromisesOK ==
    \A i \in Incidents, c \in Channels :
        /\ owed[i][c] <= version[i] /\ shown[i][c] <= version[i]
        /\ owed[i][c] > 0 => \E r \in Rows : outbox[r].inc = i /\ outbox[r].chan = c

\* If the newest row was sent, the provider shows what was promised.
SentShows(r, table, show, owe) ==
    LET i == table[r].inc
        c == table[r].chan
    IN  table[r].status = "sent" /\ i \in Incidents /\ IsNewest(r, table) =>
            owe[i][c] <= show[i][c]

NewestSentShows == \A r \in Rows : SentShows(r, outbox, shown, owed)

\* What one worker holds of a message in flight is no older than what is shown,
\* and no older than what is promised unless a newer row follows.
FlightOK(job, table, ver, show, owe) ==
    LET i == table[job.row].inc
        c == table[job.row].chan
    IN  job.pc \in {"calling", "accepted"} /\ i \in Incidents =>
            /\ job.rendered <= ver[i]
            /\ job.pc = "calling" => show[i][c] <= job.rendered
            /\ job.pc = "accepted" => show[i][c] = job.rendered
            /\ IsNewest(job.row, table) => owe[i][c] <= job.rendered

FlightsOK == \A w \in Workers : FlightOK(worker[w], outbox, version, shown, owed)

\* The inductive invariants of one worker, on top of IInv: the breakers, and
\* the messages.
BInv == ProbesOpen /\ OutageMatchesBreaker
MInv == PromisesOK /\ NewestSentShows /\ FlightsOK

-------------------------------------------------------------------------------
(***************************************************************************)
(* Numbers, sequences and the operators of the model.                      *)
(***************************************************************************)
LEMMA MaxOfBounded ==
    ASSUME NEW S \in SUBSET Nat, S # {}, NEW b \in Nat, \A x \in S : x <= b
    PROVE  Max(S) \in S /\ \A x \in S : x <= Max(S)
<1> DEFINE Bounds == {n \in Nat : \A x \in S : x <= n}
           Less   == OpToRel(<, Nat)
<1>1. IsWellFoundedOn(Less, Nat)
  BY NatLessThanWellFounded
<1>2. \E n \in Bounds : \A m \in Bounds : ~(<<m, n>> \in Less)
  BY <1>1, WFMin, Bounds # {}, Bounds \subseteq Nat
<1>3. PICK n \in Bounds : \A m \in Bounds : ~(m < n)
  BY <1>2 DEF OpToRel
<1>4. n \in S
  <2> SUFFICES ASSUME n \notin S PROVE FALSE
    OBVIOUS
  <2>1. \A x \in S : x <= n - 1 /\ n - 1 \in Nat
    OBVIOUS
  <2>2. n - 1 \in Bounds
    BY <2>1
  <2> QED BY <1>3, <2>2
<1>5. \E x \in S : \A y \in S : x >= y
  BY <1>3, <1>4
<1> QED BY <1>5 DEF Max

LEMMA MinOfNaturals ==
    ASSUME NEW S \in SUBSET Nat, S # {}
    PROVE  Min(S) \in S
<1> DEFINE Less == OpToRel(<, Nat)
<1>1. IsWellFoundedOn(Less, Nat)
  BY NatLessThanWellFounded
<1>2. \E n \in S : \A m \in S : ~(<<m, n>> \in Less)
  BY <1>1, WFMin
<1>3. PICK n \in S : \A m \in S : ~(m < n)
  BY <1>2 DEF OpToRel
<1>4. \A m \in S : n =< m
  BY <1>3
<1> QED BY <1>4 DEF Min

\* A power of two counts the subsets of an interval.
LEMMA PowerOfTwo ==
    ASSUME NEW n \in Nat
    PROVE  2^n \in Nat
<1>1. IsFiniteSet(1..n) /\ Cardinality(1..n) = n
  <2>1. Cardinality(1..n) = IF 1 > n THEN 0 ELSE n - 1 + 1
    BY FS_Interval, 1 \in Int, n \in Int
  <2> QED BY <2>1, FS_Interval
<1>2. IsFiniteSet(SUBSET (1..n)) /\ Cardinality(SUBSET (1..n)) = 2^Cardinality(1..n)
  BY <1>1, FS_SUBSET
<1>3. Cardinality(SUBSET (1..n)) \in Nat
  BY <1>2, FS_CardinalityType
<1> QED BY <1>1, <1>2, <1>3, Zenon

LEMMA ProbeDelayType ==
    ASSUME NEW n \in Nat
    PROVE  ProbeDelay(n) \in Nat
<1>1. 2^n \in Nat
  BY PowerOfTwo
<1> DEFINE p == 2^n
<1>2. p \in Nat
  BY <1>1
<1>3. ProbeDelay(n) = Least(ProbeBase * p, ProbeMax)
  BY DEF ProbeDelay
<1> HIDE DEF p
<1> QED BY <1>2, <1>3 DEF Least

\* A function over an interval from 1 is a sequence.
LEMMA FunctionIsSeq ==
    ASSUME NEW S, NEW n \in Nat, NEW f \in [1..n -> S]
    PROVE  f \in Seq(S) /\ Len(f) = n /\ DOMAIN f = 1..n
<1>1. f \in Seq(S)
  BY SeqDef
<1>2. DOMAIN f = 1..Len(f) /\ Len(f) \in Nat
  BY <1>1, LenProperties
<1> QED BY <1>1, <1>2

\* The channels of a notification, in some order.
LEMMA SetToSeqLists ==
    ASSUME NEW S, IsFiniteSet(S)
    PROVE  /\ Cardinality(S) \in Nat
           /\ SetToSeq(S) \in Seq(S)
           /\ Len(SetToSeq(S)) = Cardinality(S)
           /\ \A x \in S : \E n \in 1..Len(SetToSeq(S)) : SetToSeq(S)[n] = x
<1> DEFINE n == Cardinality(S)
           f == SetToSeq(S)
<1>1. n \in Nat /\ ExistsBijection(1..n, S)
  BY FS_CardinalityType
<1>2. PICK g \in Bijection(1..n, S) : TRUE
  BY <1>1 DEF ExistsBijection
<1>3. g \in [1..n -> S] /\ IsInjective(g)
  BY <1>2 DEF Bijection, Injection
<1>4. f \in [1..n -> S] /\ IsInjective(f)
  BY <1>3 DEF SetToSeq
<1>5. f \in Injection(1..n, S)
  BY <1>4 DEF Injection
<1>6. Cardinality(1..n) = n
  BY <1>1, FS_Interval
<1>7. f \in Surjection(1..n, S)
  BY <1>5, <1>6, FS_Injection
<1>8. \A x \in S : \E k \in 1..n : f[k] = x
  BY <1>7 DEF Surjection
<1>9. f \in Seq(S) /\ Len(f) = n
  BY <1>1, <1>4, FunctionIsSeq
<1> QED BY <1>1, <1>8, <1>9

LEMMA InOrderLists ==
    ASSUME NEW S, IsFiniteSet(S), S \subseteq Nat, NEW table,
           \A r \in S : table[r].priority \in Int
    PROVE  InOrder(table, S) \in Seq(S)
<1> DEFINE n == Cardinality(S)
           B(r) == {o \in S : Before(table, o, r)}
           f == [r \in S |-> Rank(table, S, r)]
           p == [r \in S |-> table[r].priority]
<1>a. p \in [S -> Int]
  OBVIOUS
<1>b. \A q, r \in S : Before(table, q, r) <=> p[q] < p[r] \/ (p[q] = p[r] /\ q < r)
  BY Zenon DEF Before
<1>c. /\ \A r \in S : ~Before(table, r, r)
      /\ \A q, r \in S : q # r => Before(table, q, r) \/ Before(table, r, q)
      /\ \A o, q, r \in S : Before(table, o, q) /\ Before(table, q, r) => Before(table, o, r)
  <2> HIDE DEF p
  <2> QED BY <1>a, <1>b
<1>1. n \in Nat
  BY FS_CardinalityType
<1>2. \A r \in S : IsFiniteSet(B(r)) /\ Cardinality(B(r)) \in Nat /\ Cardinality(B(r)) <= n
  BY FS_Subset, FS_CardinalityType
<1>3. \A r \in S : Cardinality(B(r)) # n
  <2> SUFFICES ASSUME NEW r \in S PROVE Cardinality(B(r)) # n
    OBVIOUS
  <2>1. r \notin B(r)
    BY <1>c
  <2>2. B(r) \in SUBSET S /\ B(r) # S
    BY <2>1
  <2> QED BY <2>2, FS_Subset
<1>4. f \in [S -> 0..(n-1)]
  BY <1>1, <1>2, <1>3 DEF Rank
<1>5. \A q, r \in S : Before(table, q, r) => Cardinality(B(q)) # Cardinality(B(r))
  <2> SUFFICES ASSUME NEW q \in S, NEW r \in S, Before(table, q, r)
               PROVE  Cardinality(B(q)) # Cardinality(B(r))
    OBVIOUS
  <2>1. B(q) \in SUBSET B(r)
    BY <1>c
  <2>2. q \in B(r) /\ q \notin B(q)
    BY <1>c
  <2> QED BY <1>2, <2>1, <2>2, FS_Subset
<1>7. \A q, r \in S : f[q] = f[r] => q = r
  <2>1. \A q \in S : f[q] = Cardinality(B(q))
    BY DEF Rank
  <2>2. \A q, r \in S : Before(table, q, r) => f[q] # f[r]
    BY <1>5, <2>1, Zenon
  <2> HIDE DEF f
  <2> QED BY <1>c, <2>2
<1>8. f \in Injection(S, 0..(n-1))
  BY <1>4, <1>7 DEF Injection, IsInjective
<1>9. IsFiniteSet(0..(n-1)) /\ Cardinality(0..(n-1)) = n
  <2>1. Cardinality(0..(n-1)) = IF 0 > n - 1 THEN 0 ELSE n - 1 - 0 + 1
    BY <1>1, FS_Interval, 0 \in Int, n - 1 \in Int
  <2>2. IsFiniteSet(0..(n-1))
    BY <1>1, FS_Interval, 0 \in Int, n - 1 \in Int
  <2> HIDE DEF n
  <2> QED BY <1>1, <2>1, <2>2
<1>10. f \in Surjection(S, 0..(n-1))
  BY <1>8, <1>9, FS_Injection
<1>11. \A k \in 1..n : \E r \in S : Rank(table, S, r) = k - 1
  <2>1. \A m \in 0..(n-1) : \E r \in S : f[r] = m
    BY <1>10 DEF Surjection
  <2>2. \A k \in 1..n : k - 1 \in 0..(n-1)
    BY <1>1
  <2> QED BY <2>1, <2>2
<1>12. InOrder(table, S) \in [1..n -> S]
  BY <1>11 DEF InOrder
<1> QED BY <1>1, <1>12, FunctionIsSeq

LEMMA FailoverIsAvailable ==
    ASSUME NEW c, NEW S
    PROVE  SelectFailover(c, S) \in S \cup {NoVia}
<1> DEFINE open == {n \in DOMAIN FailoverChain(c) : FailoverChain(c)[n] \in S}
<1>1. DOMAIN FailoverChain(c) \subseteq Nat
  BY DEF FailoverChain
<1>2. open # {} => Min(open) \in open
  BY <1>1, MinOfNaturals
<1> QED BY <1>2 DEF SelectFailover

-------------------------------------------------------------------------------
(***************************************************************************)
(* What a transaction may do to the table.                                 *)
(***************************************************************************)
\* A row keeps its incident, its channel and a fallback marker.
SameIntent(old, new) ==
    /\ new.inc = old.inc /\ new.chan = old.chan
    /\ old.via # NoVia => new.via # NoVia

\* A row is not superseded, and one that was says so still.
NotReplaced(old, new) ==
    new.status = "superseded" => /\ old.status = "superseded"
                                 /\ new.supersededBy = old.supersededBy
                                 /\ new.via = old.via

\* From table T to table U: no row is lost or replaced, new rows are pending.
Carries(T, U) ==
    /\ DOMAIN T \subseteq DOMAIN U
    /\ \A r \in DOMAIN T : SameIntent(T[r], U[r]) /\ NotReplaced(T[r], U[r])
    /\ \A r \in DOMAIN U \ DOMAIN T : U[r].status = "pending"

LEMMA CarriedMarks ==
    ASSUME NEW T, NEW U, AllMarked(T), Carries(T, U)
    PROVE  AllMarked(U)
<1> SUFFICES ASSUME NEW r \in DOMAIN U, U[r].status = "superseded"
             PROVE  Marked(U, r)
  BY DEF AllMarked, Marked
<1> DEFINE w == U[r].supersededBy
<1>1. r \in DOMAIN T /\ T[r].status = "superseded" /\ T[r].supersededBy = w /\ T[r].via = U[r].via
  BY DEF Carries, NotReplaced
<1>2. /\ w \in DOMAIN T /\ w > r
      /\ T[w].inc = T[r].inc /\ T[w].chan = T[r].chan
      /\ T[r].via # NoVia => T[w].via # NoVia
  BY <1>1 DEF AllMarked, Marked
<1>3. w \in DOMAIN U /\ SameIntent(T[r], U[r]) /\ SameIntent(T[w], U[w])
  BY <1>1, <1>2 DEF Carries
<1> HIDE DEF w
<1>4. /\ w \in DOMAIN U /\ w > r
      /\ U[w].inc = U[r].inc /\ U[w].chan = U[r].chan
      /\ U[r].via # NoVia => U[w].via # NoVia
  BY <1>1, <1>2, <1>3, Zenon DEF SameIntent
<1> QED BY <1>4 DEF Marked, w

\* The rows of the table are numbered from 1.
LEMMA RowNumbers ==
    ASSUME Types
    PROVE  /\ Len(outbox) \in Nat /\ Rows = 1..Len(outbox) /\ Rows \subseteq Nat
           /\ DOMAIN trace = Rows
           /\ \A r \in Rows : outbox[r] \in Row /\ trace[r] \in Trace
BY LenProperties, ElementOfSeq DEF Types, Rows

LEMMA RowNumbersNext ==
    ASSUME Types'
    PROVE  \A r \in Rows' : outbox'[r] \in Row /\ trace'[r] \in Trace
<1>1. outbox' \in Seq(Row) /\ trace' \in Seq(Trace) /\ Len(trace') = Len(outbox')
  BY DEF Types
<1>2. Rows' = 1..Len(outbox')
  BY <1>1, LenProperties DEF Rows
<1> QED BY <1>1, <1>2, ElementOfSeq

\* A sequence with one element written over, and one put after another.
Replaced(t, s, r, x) ==
    Len(t) = Len(s) /\ \A j \in 1..Len(s) : t[j] = IF j = r THEN x ELSE s[j]

Joined(t, s, u) ==
    /\ Len(t) = Len(s) + Len(u)
    /\ \A j \in 1..(Len(s) + Len(u)) : t[j] = IF j <= Len(s) THEN s[j] ELSE u[j - Len(s)]

LEMMA ElementReplaced ==
    ASSUME NEW S, NEW s \in Seq(S), NEW r \in 1..Len(s), NEW x \in S
    PROVE  [s EXCEPT ![r] = x] \in Seq(S) /\ Replaced([s EXCEPT ![r] = x], s, r, x)
BY ExceptSeq DEF Replaced

LEMMA SequencesJoined ==
    ASSUME NEW S, NEW s \in Seq(S), NEW u \in Seq(S)
    PROVE  s \o u \in Seq(S) /\ Joined(s \o u, s, u)
BY ConcatProperties DEF Joined

\* The newest pending intent like r.
LEMMA NewestIntent ==
    ASSUME Types, NEW r \in Rows, IsPending(r)
    PROVE  /\ Max(Intents(r)) \in Intents(r)
           /\ \A o \in Intents(r) : o <= Max(Intents(r))
<1>1. Intents(r) \subseteq Nat /\ \A o \in Intents(r) : o <= Len(outbox)
  BY RowNumbers DEF Intents
<1>2. r \in Intents(r)
  BY DEF Intents
<1>3. Len(outbox) \in Nat
  BY RowNumbers
<1> QED BY <1>1, <1>2, <1>3, MaxOfBounded

\* Coalescing replaces pending rows by newer ones of the same intent.
LEMMA Coalesced ==
    ASSUME Types, NEW chans
    PROVE  LET T == CoalescePending(chans)
           IN  /\ T \in Seq(Row) /\ Len(T) = Len(outbox) /\ DOMAIN T = Rows
               /\ \A r \in Rows : /\ SameIntent(outbox[r], T[r])
                                  /\ T[r].attempts = outbox[r].attempts
                                  /\ T[r].status \in {outbox[r].status, "superseded"}
               /\ AllMarked(outbox) => AllMarked(T)
<1> DEFINE T == CoalescePending(chans)
           Touched(r) == IsPending(r) /\ outbox[r].chan \in chans
           winner(r) == Max(Intents(r))
           marked(r) == {o \in Intents(r) : outbox[o].via # NoVia}
<1>1. \A r \in Rows :
          /\ ~Touched(r) => T[r] = outbox[r]
          /\ Touched(r) /\ r # winner(r) =>
                T[r] = [outbox[r] EXCEPT !.status = "superseded", !.supersededBy = winner(r)]
          /\ Touched(r) /\ r = winner(r) /\ marked(r) # {} =>
                T[r] = [outbox[r] EXCEPT !.via = outbox[Max(marked(r))].via]
          /\ Touched(r) /\ r = winner(r) /\ marked(r) = {} => T[r] = outbox[r]
  BY DEF CoalescePending
<1>2. DOMAIN T = Rows
  BY DEF CoalescePending
<1>3. \A r \in Rows : IsPending(r) => /\ winner(r) \in Intents(r) /\ r <= winner(r)
                                      /\ r \in Intents(r)
  BY NewestIntent DEF Intents
<1>4. \A r \in Rows : IsPending(r) /\ marked(r) # {} => Max(marked(r)) \in marked(r)
  <2> SUFFICES ASSUME NEW r \in Rows, IsPending(r), marked(r) # {}
               PROVE  Max(marked(r)) \in marked(r)
    OBVIOUS
  <2>1. Len(outbox) \in Nat /\ marked(r) \subseteq Nat /\ \A o \in marked(r) : o <= Len(outbox)
    BY RowNumbers DEF Intents
  <2> HIDE DEF marked
  <2> QED BY <2>1, MaxOfBounded
<1>5. \A r \in Rows : Intents(r) \subseteq Rows
  BY DEF Intents
<1> HIDE DEF T, winner
<1>6. ASSUME NEW r \in Rows
      PROVE  /\ T[r] \in Row /\ SameIntent(outbox[r], T[r])
             /\ T[r].attempts = outbox[r].attempts
             /\ T[r].status \in {outbox[r].status, "superseded"}
  <2>0. outbox[r] \in Row
    BY RowNumbers
  <2>1. CASE ~Touched(r) \/ (r = winner(r) /\ marked(r) = {})
    BY <1>1, <2>0, <2>1 DEF SameIntent
  <2>2. CASE Touched(r) /\ r # winner(r)
    <3>1. winner(r) \in Nat
      BY <1>3, <1>5, <2>2, RowNumbers
    <3>2. T[r] = [outbox[r] EXCEPT !.status = "superseded", !.supersededBy = winner(r)]
      BY <1>1, <2>2
    <3> QED BY <2>0, <3>1, <3>2 DEF SameIntent, Row
  <2>3. CASE Touched(r) /\ r = winner(r) /\ marked(r) # {}
    <3> DEFINE v == outbox[Max(marked(r))].via
    <3>1. v # NoVia /\ v \in Channels
      <4>1. Max(marked(r)) \in Rows /\ v # NoVia
        BY <1>4, <1>5, <2>3
      <4> QED BY <4>1, RowNumbers DEF Row
    <3>2. T[r] = [outbox[r] EXCEPT !.via = v]
      BY <1>1, <2>3
    <3> HIDE DEF v
    <3> QED BY <2>0, <3>1, <3>2 DEF SameIntent, Row
  <2> QED BY <2>1, <2>2, <2>3
<1>7. T \in Seq(Row) /\ Len(T) = Len(outbox)
  <2>1. T \in [1..Len(outbox) -> Row] /\ Len(outbox) \in Nat
    <3>1. T = [r \in Rows |-> T[r]]
      BY <1>2 DEF T, CoalescePending
    <3> QED BY <1>6, <3>1, RowNumbers
  <2> QED BY <2>1, FunctionIsSeq
<1>8. ASSUME AllMarked(outbox), NEW r \in Rows, T[r].status = "superseded"
      PROVE  Marked(T, r)
  <2>1. CASE ~Touched(r) \/ (r = winner(r) /\ marked(r) = {})
    <3>1. T[r] = outbox[r]
      BY <1>1, <2>1
    <3> DEFINE w == outbox[r].supersededBy
    <3>2. /\ w \in Rows /\ w > r
          /\ outbox[w].inc = outbox[r].inc /\ outbox[w].chan = outbox[r].chan
          /\ outbox[r].via # NoVia => outbox[w].via # NoVia
      BY <1>8, <3>1, Zenon DEF AllMarked, Marked, Rows
    <3>3. SameIntent(outbox[w], T[w])
      BY <1>6, <3>2
    <3> QED BY <1>2, <3>1, <3>2, <3>3, Zenon DEF Marked, SameIntent
  <2>2. CASE Touched(r) /\ r # winner(r)
    <3> DEFINE w == winner(r)
    <3>0. outbox[r] \in Row
      BY RowNumbers
    <3>1. w \in Intents(r) /\ r <= w /\ r \in Intents(r)
      BY <1>3, <2>2
    <3>2. w \in Rows /\ IsPending(w) /\ outbox[w].inc = outbox[r].inc /\ outbox[w].chan = outbox[r].chan
      BY <3>1 DEF Intents
    <3>3. Intents(w) = Intents(r)
      BY <3>2 DEF Intents
    <3>4. winner(w) = w /\ Touched(w) /\ marked(w) = marked(r)
      BY <2>2, <3>2, <3>3 DEF winner
    <3>5. T[r].supersededBy = w /\ T[r].via = outbox[r].via
      <4>1. T[r] = [outbox[r] EXCEPT !.status = "superseded", !.supersededBy = winner(r)]
        BY <1>1, <2>2
      <4> QED BY <3>0, <4>1 DEF Row
    <3>6. outbox[r].via # NoVia => T[w].via # NoVia
      <4> SUFFICES ASSUME outbox[r].via # NoVia PROVE T[w].via # NoVia
        OBVIOUS
      <4>1. r \in marked(w)
        BY <3>1, <3>4
      <4>2. Max(marked(w)) \in marked(w)
        BY <1>4, <3>2, <4>1
      <4> DEFINE v == outbox[Max(marked(w))].via
      <4>3. v # NoVia
        BY <4>2
      <4>4. T[w] = [outbox[w] EXCEPT !.via = v]
        BY <1>1, <3>2, <3>4, <4>1
      <4>5. outbox[w] \in Row
        BY <3>2, RowNumbers
      <4> HIDE DEF v
      <4> QED BY <4>3, <4>4, <4>5 DEF Row
    <3>7. SameIntent(outbox[r], T[r]) /\ SameIntent(outbox[w], T[w])
      BY <1>6, <3>2
    <3>8. w > r
      BY <2>2, <3>1, <3>2, RowNumbers
    <3> QED BY <1>2, <3>2, <3>5, <3>6, <3>7, <3>8, Zenon DEF Marked, SameIntent
  <2>3. CASE Touched(r) /\ r = winner(r) /\ marked(r) # {}
    <3>1. T[r].status = outbox[r].status
      <4> DEFINE v == outbox[Max(marked(r))].via
      <4>1. T[r] = [outbox[r] EXCEPT !.via = v]
        BY <1>1, <2>3
      <4> HIDE DEF v
      <4> QED BY <4>1, RowNumbers DEF Row
    <3> QED BY <1>8, <2>3, <3>1 DEF IsPending
  <2> QED BY <2>1, <2>2, <2>3
<1>9. AllMarked(outbox) => AllMarked(T)
  BY <1>2, <1>8 DEF AllMarked, Marked
<1> QED BY <1>2, <1>6, <1>7, <1>9 DEF T

\* The numbers of the rows appended to a table of m rows.
LEMMA BeyondTheOld ==
    ASSUME NEW m \in Nat, NEW k \in Nat, NEW r \in 1..(m + k), r \notin 1..m
    PROVE  ~(r <= m) /\ r - m \in 1..k
OBVIOUS

\* What is in the tables after new rows were appended.
InsertedRows(T, rows) ==
    /\ Rows \subseteq Rows' /\ DOMAIN outbox' = Rows'
    /\ Rows' = 1..(Len(outbox) + Len(rows))
    /\ \A r \in Rows : outbox'[r] = T[r] /\ trace'[r] = trace[r]
    /\ \A r \in Rows' \ Rows : /\ r - Len(outbox) \in 1..Len(rows)
                               /\ outbox'[r] = rows[r - Len(outbox)]
                               /\ trace'[r] = NewTrace
    /\ \A n \in 1..Len(rows) : /\ Len(outbox) + n \in Rows'
                               /\ outbox'[Len(outbox) + n] = rows[n]

\* Rows appended to a table of the same length, with their history.
LEMMA Inserted ==
    ASSUME Types, NEW T \in Seq(Row), Len(T) = Len(outbox), NEW rows \in Seq(Row),
           Insert(T, rows)
    PROVE  /\ outbox' \in Seq(Row) /\ trace' \in Seq(Trace) /\ Len(trace') = Len(outbox')
           /\ InsertedRows(T, rows)
<1> DEFINE past == [n \in 1..Len(rows) |-> NewTrace]
           m == Len(outbox)
           k == Len(rows)
<1>1. m \in Nat /\ k \in Nat /\ Rows = 1..m /\ trace \in Seq(Trace) /\ Len(trace) = m
  BY RowNumbers, LenProperties DEF Types
<1>2. past \in Seq(Trace) /\ Len(past) = k
  <2>1. past \in [1..k -> Trace]
    BY DEF Trace, NewTrace
  <2> HIDE DEF past
  <2> QED BY <1>1, <2>1, FunctionIsSeq
<1>3. outbox' = T \o rows /\ trace' = trace \o past
  BY DEF Insert
<1> HIDE DEF past
<1>4. /\ outbox' \in Seq(Row) /\ Len(outbox') = m + k
      /\ \A i \in 1..(m + k) : outbox'[i] = IF i <= m THEN T[i] ELSE rows[i - m]
  <2>1. T \o rows \in Seq(Row) /\ Joined(T \o rows, T, rows)
    BY SequencesJoined
  <2>2. outbox' \in Seq(Row) /\ Joined(outbox', T, rows)
    BY <1>3, <2>1, Zenon
  <2> QED BY <2>2, Zenon DEF Joined
<1>5. /\ trace' \in Seq(Trace) /\ Len(trace') = m + k
      /\ \A i \in 1..(m + k) : trace'[i] = IF i <= m THEN trace[i] ELSE past[i - m]
  <2>1. trace \o past \in Seq(Trace) /\ Joined(trace \o past, trace, past)
    BY <1>1, <1>2, SequencesJoined
  <2>2. trace' \in Seq(Trace) /\ Joined(trace', trace, past)
    BY <1>3, <2>1, Zenon
  <2> QED BY <1>1, <1>2, <2>2, Zenon DEF Joined
<1>6. Rows' = 1..(m + k) /\ DOMAIN outbox' = Rows'
  BY <1>4, LenProperties DEF Rows
<1>7. \A n \in 1..k : past[n] = NewTrace
  BY DEF past
<1> HIDE DEF m, k
<1>8. Rows \subseteq Rows'
  BY <1>1, <1>6
<1>9. \A r \in Rows : outbox'[r] = T[r] /\ trace'[r] = trace[r]
  <2> SUFFICES ASSUME NEW r \in Rows PROVE outbox'[r] = T[r] /\ trace'[r] = trace[r]
    OBVIOUS
  <2>1. r \in 1..(m + k) /\ r <= m
    BY <1>1
  <2> QED BY <1>4, <1>5, <2>1, Zenon
<1>10. \A r \in Rows' \ Rows : r - m \in 1..k /\ outbox'[r] = rows[r - m] /\ trace'[r] = NewTrace
  <2> SUFFICES ASSUME NEW r \in Rows' \ Rows
               PROVE  r - m \in 1..k /\ outbox'[r] = rows[r - m] /\ trace'[r] = NewTrace
    OBVIOUS
  <2>0. r \in 1..(m + k) /\ r \notin 1..m
    BY <1>1, <1>6, Zenon
  <2>1. ~(r <= m) /\ r - m \in 1..k
    BY <1>1, <2>0, BeyondTheOld
  <2>2. outbox'[r] = rows[r - m]
    BY <1>4, <2>0, <2>1, Zenon
  <2>3. trace'[r] = past[r - m]
    BY <1>5, <2>0, <2>1, Zenon
  <2> QED BY <1>7, <2>1, <2>2, <2>3, Zenon
<1>11. \A n \in 1..k : m + n \in Rows' /\ outbox'[m + n] = rows[n]
  <2> SUFFICES ASSUME NEW n \in 1..k PROVE m + n \in Rows' /\ outbox'[m + n] = rows[n]
    OBVIOUS
  <2>1. m + n \in 1..(m + k) /\ ~(m + n <= m) /\ (m + n) - m = n
    BY <1>1
  <2> QED BY <1>4, <1>6, <2>1
<1>12. InsertedRows(T, rows)
  BY <1>6, <1>8, <1>9, <1>10, <1>11 DEF m, k, InsertedRows
<1>13. Len(trace') = Len(outbox')
  BY <1>4, <1>5
<1> QED BY <1>4, <1>5, <1>12, <1>13

\* No row is lost and the failures of a row are not forgotten.
Grown ==
    /\ Rows \subseteq Rows'
    /\ \A r \in Rows : /\ trace[r].transient <= trace'[r].transient
                       /\ trace[r].fatal => trace'[r].fatal

LEMMA HistoryKept ==
    ASSUME Types, Rows \subseteq Rows', \A r \in Rows : trace'[r] = trace[r]
    PROVE  Grown
<1>1. \A r \in Rows : trace[r].transient \in Nat
  BY RowNumbers DEF Trace
<1>2. \A r \in Rows : trace[r].transient <= trace'[r].transient
  BY <1>1
<1>3. \A r \in Rows : trace[r].fatal => trace'[r].fatal
  OBVIOUS
<1> QED BY <1>2, <1>3 DEF Grown

LEMMA JobsKept ==
    ASSUME Types, Grown, Types', NEW job \in Job, JobOK(job, outbox), ChargesOK(job, trace)
    PROVE  JobOK(job, outbox') /\ ChargesOK(job, trace')
<1>1. Rows \subseteq Rows' /\ Rows = DOMAIN outbox /\ Rows' = DOMAIN outbox'
  BY DEF Grown, Rows
<1>2. JobOK(job, outbox')
  BY <1>1 DEF JobOK
<1>3. \A r \in Rows : /\ trace[r].transient \in Nat /\ trace'[r].transient \in Nat
                      /\ trace[r].transient <= trace'[r].transient
                      /\ trace[r].fatal => trace'[r].fatal
  <2>1. \A r \in Rows : trace[r] \in Trace
    BY RowNumbers
  <2>2. \A r \in Rows' : trace'[r] \in Trace
    BY RowNumbersNext
  <2> QED BY <1>1, <2>1, <2>2 DEF Trace, Grown
<1>4. \A b \in job.batch : b.id \in Rows /\ b.attempts \in Nat
  BY DEF JobOK, Job, Claim, Rows
<1>5. job.attempts \in Nat
  BY DEF Job
<1>6. job.pc \in Holding => job.row \in Rows
  BY DEF JobOK, Rows
<1>7. \A b \in job.batch : b.attempts <= trace'[b.id].transient
  BY <1>3, <1>4 DEF ChargesOK
<1>8. job.pc = "calling" => job.attempts <= trace'[job.row].transient
  BY <1>3, <1>5, <1>6 DEF ChargesOK, Holding
<1>9. job.pc \in {"rejected", "settling"} /\ job.verdict = "transient" =>
         job.attempts + 1 <= trace'[job.row].transient
  BY <1>3, <1>5, <1>6 DEF ChargesOK, Holding
<1>10. job.pc \in {"rejected", "settling"} /\ job.verdict = "fatal" => trace'[job.row].fatal
  <2> SUFFICES ASSUME job.pc \in {"rejected", "settling"}, job.verdict = "fatal"
               PROVE  trace'[job.row].fatal
    OBVIOUS
  <2>1. trace[job.row].fatal
    BY Zenon DEF ChargesOK
  <2>2. job.row \in Rows
    BY <1>6 DEF Holding
  <2> QED BY <1>3, <2>1, <2>2, Zenon
<1>11. ChargesOK(job, trace')
  BY <1>7, <1>8, <1>9, <1>10, Zenon DEF ChargesOK
<1> QED BY <1>2, <1>11

\* One worker moves on to a job that is in order.
LEMMA WorkerMoves ==
    ASSUME Types, WorkersOK, Grown, Types', NEW w \in Workers, NEW job, Become(w, job),
           JobOK(job, outbox'), ChargesOK(job, trace')
    PROVE  WorkersOK'
<1> SUFFICES ASSUME NEW v \in Workers
             PROVE  JobOK(worker'[v], outbox') /\ ChargesOK(worker'[v], trace')
  BY DEF WorkersOK
<1>1. CASE v = w
  <2>1. worker'[v] = job
    BY <1>1 DEF Become, Types
  <2> QED BY <2>1, Zenon
<1>2. CASE v # w
  <2>1. worker'[v] = worker[v]
    BY <1>2 DEF Become, Types
  <2>2. worker[v] \in Job /\ JobOK(worker[v], outbox) /\ ChargesOK(worker[v], trace)
    BY DEF WorkersOK, Types
  <2>3. JobOK(worker[v], outbox') /\ ChargesOK(worker[v], trace')
    BY <2>2, JobsKept
  <2> QED BY <2>1, <2>3, Zenon
<1> QED BY <1>1, <1>2

\* No worker moves.
LEMMA WorkersStay ==
    ASSUME Types, WorkersOK, Grown, Types', UNCHANGED worker
    PROVE  WorkersOK'
<1> SUFFICES ASSUME NEW v \in Workers
             PROVE  JobOK(worker'[v], outbox') /\ ChargesOK(worker'[v], trace')
  BY DEF WorkersOK
<1>1. worker'[v] = worker[v]
  OBVIOUS
<1>2. worker[v] \in Job /\ JobOK(worker[v], outbox) /\ ChargesOK(worker[v], trace)
  BY DEF WorkersOK, Types
<1>3. JobOK(worker[v], outbox') /\ ChargesOK(worker[v], trace')
  BY <1>2, JobsKept
<1> QED BY <1>1, <1>3, Zenon

\* Both tables stay as they are.
LEMMA TablesStay ==
    ASSUME Types, RowsCharged, AllMarked(outbox), UNCHANGED <<outbox, trace>>
    PROVE  /\ Grown /\ RowsCharged' /\ AllMarked(outbox')
           /\ outbox' \in Seq(Row) /\ trace' \in Seq(Trace) /\ Len(trace') = Len(outbox')
<1>1. RowsCharged' /\ AllMarked(outbox')
  BY Zenon DEF RowsCharged, Rows
<1>2. Grown
  <2>1. Rows' = Rows
    BY DEF Rows
  <2> QED BY <2>1, HistoryKept
<1> QED BY <1>1, <1>2 DEF Types

\* A job that holds no row is in order.
LEMMA FreshJob ==
    ASSUME NEW job, NEW table, NEW log,
           job.batch = {}, job.row = 0, job.pc \notin Holding
    PROVE  JobOK(job, table) /\ ChargesOK(job, log)
BY Zenon DEF JobOK, ChargesOK, Holding

LEMMA IdleJob ==
    /\ Idle \in Job
    /\ Idle.batch = {} /\ Idle.row = 0 /\ Idle.pc = "asleep" /\ Idle.pc \notin Holding
BY DEF Idle, Job, Holding, Verdicts

\* After a row a worker goes on with its batch or sleeps.
LEMMA Continued ==
    ASSUME Types, WorkersOK, NEW w \in Workers, Continue(w)
    PROVE  \E job \in Job : /\ Become(w, job) /\ job.pc \in {"asleep", "draining"}
                            /\ JobOK(job, outbox) /\ ChargesOK(job, trace)
<1> DEFINE batch == worker[w].batch
           next  == [Idle EXCEPT !.pc = "draining", !.batch = batch]
<1>0. worker[w] \in Job /\ JobOK(worker[w], outbox) /\ ChargesOK(worker[w], trace)
  BY DEF Types, WorkersOK
<1>1. next \in Job /\ next.pc = "draining" /\ next.batch = batch /\ next.row = 0
  BY <1>0 DEF Idle, Job, Verdicts
<1>2. JobOK(next, outbox) /\ ChargesOK(next, trace)
  <2> HIDE DEF next
  <2> QED BY <1>0, <1>1, Zenon DEF JobOK, ChargesOK, Holding
<1>3. JobOK(Idle, outbox) /\ ChargesOK(Idle, trace)
  BY IdleJob, FreshJob
<1>4. Become(w, IF batch = {} THEN Idle ELSE next)
  BY DEF Continue, Become
<1> HIDE DEF next, batch
<1>5. CASE batch = {}
  BY <1>3, <1>4, <1>5, IdleJob
<1>6. CASE batch # {}
  BY <1>1, <1>2, <1>4, <1>6
<1> QED BY <1>5, <1>6

LEMMA ClosedTyped == Closed \in Breaker
BY DEF Closed, Breaker

LEMMA OutageTyped ==
    ASSUME NEW f \in [Channels -> [open : BOOLEAN, number : Nat]], NEW c \in Channels
    PROVE  [f EXCEPT ![c].open = FALSE] \in [Channels -> [open : BOOLEAN, number : Nat]]
OBVIOUS

\* What record_failure and record_probe_result write is a breaker.
LEMMA BreakerTypes ==
    ASSUME NEW b \in Breaker, NEW hint \in Nat, NEW healthy \in BOOLEAN
    PROVE  /\ AfterFailure(b, hint) \in Breaker
           /\ AfterProbe(b, healthy) \in Breaker
           /\ Closed \in Breaker
<1> DEFINE d0 == ProbeDelay(0)
           d1 == ProbeDelay(b.step + 1)
<1>1. d0 \in Nat /\ d1 \in Nat
  BY ProbeDelayType DEF Breaker
<1>2. AfterProbe(b, healthy) \in Breaker
  <2>1. AfterProbe(b, healthy) = IF healthy THEN [b EXCEPT !.state = "HALF_OPEN", !.failures = 0, !.probeIn = 0]
                                 ELSE [b EXCEPT !.state = "OPEN", !.step = @ + 1, !.probeIn = d1]
    BY DEF AfterProbe
  <2> HIDE DEF d1
  <2>2. [b EXCEPT !.state = "HALF_OPEN", !.failures = 0, !.probeIn = 0] \in Breaker
    BY DEF Breaker
  <2>3. [b EXCEPT !.state = "OPEN", !.step = @ + 1, !.probeIn = d1] \in Breaker
    <3>1. b.step + 1 \in Nat
      BY DEF Breaker
    <3> DEFINE s == b.step + 1
    <3>2. [b EXCEPT !.state = "OPEN", !.step = s, !.probeIn = d1] \in Breaker
      <4> HIDE DEF s
      <4>1. s \in Nat
        BY <3>1 DEF s
      <4> QED BY <1>1, <4>1 DEF Breaker
    <3> QED BY <3>2
  <2> QED BY <2>1, <2>2, <2>3, Zenon
<1>3. AfterFailure(b, hint) \in Breaker
  <2> DEFINE again == [state |-> "OPEN", failures |-> b.failures + 1, step |-> b.step + 1,
                       probeIn |-> d1]
             trip  == [state |-> "OPEN", failures |-> b.failures + 1, step |-> 0,
                       probeIn |-> IF hint > 0 THEN hint ELSE d0]
             count == [b EXCEPT !.failures = b.failures + 1]
  <2>1. AfterFailure(b, hint) = CASE b.state \in {"OPEN", "HALF_OPEN"} -> again
                                  [] TripsOpen(b) -> trip
                                  [] OTHER -> count
    BY DEF AfterFailure
  <2>2. b.state \in {"OPEN", "HALF_OPEN"} => ~TripsOpen(b)
    BY DEF TripsOpen
  <2> HIDE DEF d0, d1
  <2>3. again \in Breaker /\ trip \in Breaker /\ count \in Breaker
    BY <1>1 DEF Breaker
  <2> HIDE DEF again, trip, count
  <2> QED BY <2>1, <2>2, <2>3
<1>4. Closed \in Breaker
  BY DEF Closed, Breaker
<1> QED BY <1>2, <1>3, <1>4

-------------------------------------------------------------------------------
(***************************************************************************)
(* The steps, for any number of workers.                                   *)
(***************************************************************************)
LEMMA NotifyInv ==
    ASSUME IInv, NEW i \in Incidents, NEW chans \in SUBSET Channels, Notify(i, chans)
    PROVE  /\ IInv' /\ Rows \subseteq Rows'
           /\ \A r \in Rows : outbox'[r] = outbox[r]
           /\ \A r \in Rows' \ Rows : outbox'[r].status = "pending" /\ outbox'[r].inc = i
           /\ \A c \in chans : \E r \in Rows' \ Rows : outbox'[r].inc = i /\ outbox'[r].chan = c
<1> USE DEF IInv
<1> DEFINE order == SetToSeq(chans)
           rows  == [n \in 1..Len(order) |-> NewRow(i, order[n], PriorityFor(i), 0)]
<1>1. IsFiniteSet(chans)
  <2>1. IsFiniteSet({"slack", "pagerduty", "email"})
    <3>1. IsFiniteSet({"slack"})
      BY FS_Singleton
    <3>2. IsFiniteSet({"slack"} \cup {"pagerduty"})
      BY <3>1, FS_AddElement
    <3>3. IsFiniteSet(({"slack"} \cup {"pagerduty"}) \cup {"email"})
      BY <3>2, FS_AddElement
    <3> QED BY <3>3, ({"slack"} \cup {"pagerduty"}) \cup {"email"} = {"slack", "pagerduty", "email"}
  <2> QED BY <2>1, FS_Subset
<1>2. /\ order \in Seq(chans) /\ Len(order) \in Nat
      /\ \A n \in 1..Len(order) : order[n] \in chans
      /\ \A c \in chans : \E n \in 1..Len(order) : order[n] = c
  BY <1>1, SetToSeqLists, LenProperties
<1>3. \A c \in Channels : NewRow(i, c, PriorityFor(i), 0) \in Row
  BY DEF NewRow, Row, PriorityFor, DigestPriority, NoVia
<1>4. rows \in Seq(Row) /\ Len(rows) = Len(order)
  <2>1. rows \in [1..Len(order) -> Row]
    BY <1>2, <1>3
  <2> HIDE DEF rows
  <2> QED BY <1>2, <2>1, FunctionIsSeq
<1>5. \A n \in 1..Len(order) : /\ rows[n].status = "pending" /\ rows[n].inc = i
                               /\ rows[n].chan = order[n] /\ rows[n].attempts = 0
  BY DEF NewRow
<1>6. Insert(outbox, rows)
  BY DEF Notify
<1> HIDE DEF rows, order
<1>7. /\ outbox' \in Seq(Row) /\ trace' \in Seq(Trace) /\ Len(trace') = Len(outbox')
      /\ Rows \subseteq Rows' /\ DOMAIN outbox' = Rows'
      /\ \A r \in Rows : outbox'[r] = outbox[r] /\ trace'[r] = trace[r]
      /\ \A r \in Rows' \ Rows : /\ r - Len(outbox) \in 1..Len(rows)
                                 /\ outbox'[r] = rows[r - Len(outbox)]
                                 /\ trace'[r] = NewTrace
      /\ \A n \in 1..Len(rows) : /\ Len(outbox) + n \in Rows'
                                 /\ outbox'[Len(outbox) + n] = rows[n]
  <2>1. outbox \in Seq(Row) /\ Len(outbox) = Len(outbox)
    BY DEF Types
  <2>2. /\ outbox' \in Seq(Row) /\ trace' \in Seq(Trace) /\ Len(trace') = Len(outbox')
        /\ InsertedRows(outbox, rows)
    BY <1>4, <1>6, <2>1, Inserted
  <2> QED BY <2>2, Zenon DEF InsertedRows
<1>8. \A r \in Rows' \ Rows : /\ outbox'[r].status = "pending" /\ outbox'[r].inc = i
                              /\ outbox'[r].attempts = 0
  <2> SUFFICES ASSUME NEW r \in Rows', r \notin Rows
               PROVE  /\ outbox'[r].status = "pending" /\ outbox'[r].inc = i
                      /\ outbox'[r].attempts = 0
    OBVIOUS
  <2> DEFINE n == r - Len(outbox)
  <2>1. n \in 1..Len(order) /\ outbox'[r] = rows[n]
    BY <1>4, <1>7
  <2> HIDE DEF n
  <2> QED BY <1>5, <2>1, Zenon
<1>9. \A c \in chans : \E r \in Rows' \ Rows : outbox'[r].inc = i /\ outbox'[r].chan = c
  <2> SUFFICES ASSUME NEW c \in chans
               PROVE  \E r \in Rows' \ Rows : outbox'[r].inc = i /\ outbox'[r].chan = c
    OBVIOUS
  <2>1. PICK n \in 1..Len(order) : order[n] = c
    BY <1>2
  <2>2. Len(outbox) + n \in Rows' /\ outbox'[Len(outbox) + n] = rows[n]
    BY <1>4, <1>7
  <2>3. Len(outbox) + n \notin Rows
    BY <1>2, RowNumbers
  <2> DEFINE r == Len(outbox) + n
  <2>4. r \in Rows' \ Rows /\ outbox'[r].inc = i /\ outbox'[r].chan = c
    BY <1>5, <2>1, <2>2, <2>3
  <2> QED BY <2>4, Zenon
<1>10. Types'
  <2>1. version' \in [Incidents -> Nat]
    <3>1. version \in [Incidents -> Nat] /\ version' = [version EXCEPT ![i] = version[i] + 1]
      BY DEF Notify, Types
    <3>2. version[i] + 1 \in Nat
      BY <3>1
    <3> QED BY <3>1, <3>2
  <2>2. owed' \in [Incidents -> [Channels -> Nat]]
    <3> DEFINE new == [c \in Channels |-> IF c \in chans THEN version'[i] ELSE owed[i][c]]
    <3>1. new \in [Channels -> Nat]
      BY <2>1 DEF Types
    <3>2. owed' = [owed EXCEPT ![i] = new]
      BY DEF Notify
    <3> HIDE DEF new
    <3> QED BY <3>1, <3>2 DEF Types
  <2> QED BY <1>7, <2>1, <2>2 DEF Notify, Types
<1>11. Grown
  <2>1. Rows \subseteq Rows' /\ \A r \in Rows : trace'[r] = trace[r]
    BY <1>7
  <2> QED BY <2>1, HistoryKept
<1>12. WorkersOK'
  BY <1>10, <1>11, WorkersStay DEF Notify
<1>13. Carries(outbox, outbox')
  BY <1>7, <1>8, Zenon DEF Carries, SameIntent, NotReplaced, Rows
<1>14. AllMarked(outbox')
  BY <1>13, CarriedMarks
<1>15. RowsCharged'
  <2> SUFFICES ASSUME NEW r \in Rows' PROVE Charged(outbox'[r], trace'[r])
    BY DEF RowsCharged
  <2>1. CASE r \in Rows
    BY <1>7, <2>1, Zenon DEF RowsCharged
  <2>2. CASE r \notin Rows
    <3>1. outbox'[r].status = "pending" /\ outbox'[r].attempts = 0 /\ trace'[r] = NewTrace
      BY <1>7, <1>8, <2>2, Zenon
    <3> QED BY <3>1 DEF Charged, NewTrace
  <2> QED BY <2>1, <2>2
<1> QED BY <1>7, <1>8, <1>9, <1>10, <1>12, <1>14, <1>15

LEMMA ReadStatesInv ==
    ASSUME IInv, NEW w \in Workers, ReadStates(w)
    PROVE  IInv'
<1> USE DEF IInv
<1> DEFINE job == [Idle EXCEPT !.pc = "probing", !.probes = {c \in Channels : ProbeDue(c)}]
<1>1. Become(w, job) /\ UNCHANGED <<outbox, breaker, outage, version, owed, shown, trace, budget>>
  BY DEF ReadStates
<1>2. job \in Job /\ job.batch = {} /\ job.row = 0 /\ job.pc \notin Holding
  BY DEF Idle, Job, Verdicts, Holding
<1> HIDE DEF job
<1>3. Grown /\ RowsCharged' /\ AllMarked(outbox')
  BY <1>1, TablesStay
<1>4. Types'
  BY <1>1, <1>2 DEF Become, Types
<1>5. JobOK(job, outbox') /\ ChargesOK(job, trace')
  BY <1>2, FreshJob
<1> QED BY <1>1, <1>3, <1>4, <1>5, WorkerMoves

\* Counters of the history and of the bounds.
LEMMA TraceTypes ==
    ASSUME NEW t \in Trace, NEW verdict \in Verdicts
    PROVE  /\ t.delivered \in Nat /\ t.transient \in Nat /\ t.fatal \in BOOLEAN
           /\ [t EXCEPT !.delivered = @ + 1] \in Trace
           /\ [t EXCEPT !.delivered = @ + 1].transient = t.transient
           /\ [t EXCEPT !.delivered = @ + 1].fatal = t.fatal
           /\ Failed(t, verdict) \in Trace
           /\ Failed(t, verdict).transient = IF verdict = "transient" THEN t.transient + 1
                                             ELSE t.transient
           /\ t.fatal => Failed(t, verdict).fatal
           /\ verdict = "fatal" => Failed(t, verdict).fatal
<1>1. t.delivered \in Nat /\ t.transient \in Nat /\ t.fatal \in BOOLEAN
  BY DEF Trace
<1>2. \A n \in Nat : /\ [t EXCEPT !.delivered = n] \in Trace
                     /\ [t EXCEPT !.delivered = n].transient = t.transient
                     /\ [t EXCEPT !.delivered = n].fatal = t.fatal
  BY DEF Trace
<1> DEFINE n == IF verdict = "transient" THEN t.transient + 1 ELSE t.transient
           f == t.fatal \/ verdict = "fatal"
<1>4. n \in Nat /\ f \in BOOLEAN /\ t.delivered + 1 \in Nat
  BY <1>1
<1>5. Failed(t, verdict) = [t EXCEPT !.transient = n, !.fatal = f]
  BY DEF Failed
<1>6. Failed(t, verdict) \in Trace /\ Failed(t, verdict).transient = n /\ Failed(t, verdict).fatal = f
  <2> HIDE DEF n, f
  <2>1. /\ [t EXCEPT !.transient = n, !.fatal = f] \in Trace
        /\ [t EXCEPT !.transient = n, !.fatal = f].transient = n
        /\ [t EXCEPT !.transient = n, !.fatal = f].fatal = f
    BY <1>4 DEF Trace
  <2> QED BY <1>5, <2>1, Zenon
<1>7. (t.fatal => Failed(t, verdict).fatal) /\ (verdict = "fatal" => Failed(t, verdict).fatal)
  BY <1>6, Zenon
<1> QED BY <1>1, <1>2, <1>4, <1>6, <1>7

LEMMA BudgetTypes ==
    ASSUME Types
    PROVE  /\ [budget EXCEPT !.faults = @ + 1] \in [faults : Nat, crashes : Nat]
           /\ [budget EXCEPT !.crashes = @ + 1] \in [faults : Nat, crashes : Nat]
<1>1. budget \in [faults : Nat, crashes : Nat]
  BY DEF Types
<1>2. \A n \in Nat : /\ [budget EXCEPT !.faults = n] \in [faults : Nat, crashes : Nat]
                     /\ [budget EXCEPT !.crashes = n] \in [faults : Nat, crashes : Nat]
  BY <1>1
<1>3. budget.faults + 1 \in Nat /\ budget.crashes + 1 \in Nat
  BY <1>1
<1> QED BY <1>2, <1>3

LEMMA CrashInv ==
    ASSUME IInv, NEW w \in Workers, Crash(w)
    PROVE  IInv'
<1> USE DEF IInv
<1>1. Become(w, Idle) /\ UNCHANGED <<outbox, breaker, outage, version, owed, shown, trace>>
  BY DEF Crash
<1>3. Grown /\ RowsCharged' /\ AllMarked(outbox')
  BY <1>1, TablesStay
<1>4. Types'
  <2>1. budget' \in [faults : Nat, crashes : Nat]
    BY BudgetTypes DEF Crash
  <2> QED BY <1>1, <2>1, IdleJob DEF Become, Types
<1>5. JobOK(Idle, outbox') /\ ChargesOK(Idle, trace')
  BY IdleJob, FreshJob
<1> QED BY <1>1, <1>3, <1>4, <1>5, WorkerMoves

LEMMA RenderInv ==
    ASSUME IInv, NEW w \in Workers, Render(w)
    PROVE  IInv'
<1> USE DEF IInv
<1>0. worker[w] \in Job /\ JobOK(worker[w], outbox) /\ ChargesOK(worker[w], trace)
  BY DEF Types, WorkersOK
<1>1. PICK b \in worker[w].batch :
          Become(w, [Idle EXCEPT !.pc = "calling", !.row = b.id, !.attempts = b.attempts,
                                 !.batch = worker[w].batch \ {b},
                                 !.rendered = IF IsDigest(b.id) THEN 0
                                              ELSE version[outbox[b.id].inc]])
  BY DEF Render
<1> DEFINE v == IF IsDigest(b.id) THEN 0 ELSE version[outbox[b.id].inc]
           job == [Idle EXCEPT !.pc = "calling", !.row = b.id, !.attempts = b.attempts,
                               !.batch = worker[w].batch \ {b}, !.rendered = v]
<1>2. b \in Claim /\ b.id \in Rows /\ b.attempts <= trace[b.id].transient
  BY <1>0 DEF Job, JobOK, ChargesOK, Rows
<1>3. v \in Nat
  BY <1>2 DEF IsDigest, Types
<1>4. Become(w, job)
  BY <1>1
<1> HIDE DEF v
<1>5. /\ job \in Job /\ job.pc = "calling" /\ job.row = b.id /\ job.attempts = b.attempts
      /\ job.batch = worker[w].batch \ {b}
  BY <1>0, <1>2, <1>3 DEF Idle, Job, Verdicts, Claim
<1> HIDE DEF job
<1>6. UNCHANGED <<outbox, breaker, outage, version, owed, shown, trace, budget>>
  BY DEF Render
<1>7. Grown /\ RowsCharged' /\ AllMarked(outbox')
  BY <1>6, TablesStay
<1>8. Types'
  BY <1>4, <1>5, <1>6 DEF Become, Types
<1>9. JobOK(job, outbox) /\ ChargesOK(job, trace)
  <2>1. \A o \in job.batch : o \in worker[w].batch
    BY <1>5
  <2>2. JobOK(job, outbox)
    BY <1>0, <1>2, <1>5, <2>1, Zenon DEF JobOK, Rows
  <2>3. ChargesOK(job, trace)
    BY <1>0, <1>2, <1>5, <2>1, Zenon DEF ChargesOK
  <2> QED BY <2>2, <2>3
<1>10. JobOK(job, outbox') /\ ChargesOK(job, trace')
  BY <1>6, <1>9, Zenon
<1> QED BY <1>4, <1>7, <1>8, <1>10, WorkerMoves

\* A call that delivers counts in the history of its row alone.
LEMMA Delivered ==
    ASSUME IInv, NEW w \in Workers, worker[w].pc \in Holding, Deliver(w), UNCHANGED outbox
    PROVE  /\ trace' \in Seq(Trace) /\ Len(trace') = Len(outbox')
           /\ \A r \in Rows : trace'[r].transient = trace[r].transient /\ trace'[r].fatal = trace[r].fatal
           /\ shown' \in [Incidents -> [Channels -> Nat]]
<1> USE DEF IInv
<1> DEFINE r == worker[w].row
<1>0. worker[w] \in Job /\ r \in Rows
  BY DEF Types, WorkersOK, JobOK, Rows
<1>1. trace[r] \in Trace /\ outbox[r] \in Row /\ r \in 1..Len(trace)
  BY <1>0, RowNumbers DEF Types
<1>2. trace' = [trace EXCEPT ![r] = [trace[r] EXCEPT !.delivered = @ + 1]]
  BY DEF Deliver
<1> DEFINE new == [trace[r] EXCEPT !.delivered = @ + 1]
<1>3. new \in Trace /\ new.transient = trace[r].transient /\ new.fatal = trace[r].fatal
  BY <1>1, "down" \in Verdicts, TraceTypes DEF Verdicts
<1>4. trace' = [trace EXCEPT ![r] = new]
  BY <1>2
<1> HIDE DEF new
<1>5. /\ trace' \in Seq(Trace) /\ Len(trace') = Len(trace)
      /\ \A j \in 1..Len(trace) : trace'[j] = IF j = r THEN new ELSE trace[j]
  <2>1. trace \in Seq(Trace)
    BY DEF Types
  <2>2. trace' \in Seq(Trace) /\ Replaced(trace', trace, r, new)
    BY <1>1, <1>3, <1>4, <2>1, ElementReplaced
  <2> QED BY <2>2, Zenon DEF Replaced
<1>6. shown' \in [Incidents -> [Channels -> Nat]]
  <2> DEFINE i == outbox[r].inc
             c == outbox[r].chan
  <2>1. worker[w].rendered \in Nat /\ c \in Channels
    BY <1>0, <1>1 DEF Job, Row
  <2>2. CASE IsDigest(r)
    BY <2>2 DEF Deliver, Types
  <2>3. CASE ~IsDigest(r)
    <3>1. i \in Incidents
      BY <2>3 DEF IsDigest
    <3>2. shown' = [shown EXCEPT ![i][c] = worker[w].rendered]
      BY <2>3 DEF Deliver
    <3> HIDE DEF i, c
    <3> QED BY <2>1, <3>1, <3>2 DEF Types
  <2> QED BY <2>2, <2>3
<1>7. Rows = 1..Len(trace)
  BY RowNumbers DEF Types
<1> QED BY <1>3, <1>5, <1>6, <1>7 DEF Types

LEMMA AcceptInv ==
    ASSUME IInv, NEW w \in Workers, Accept(w)
    PROVE  IInv'
<1> USE DEF IInv
<1> DEFINE job == [worker[w] EXCEPT !.pc = "accepted"]
<1>0. worker[w] \in Job /\ JobOK(worker[w], outbox) /\ ChargesOK(worker[w], trace)
  BY DEF Types, WorkersOK
<1>1. /\ worker[w].pc = "calling" /\ Deliver(w) /\ Become(w, job)
      /\ UNCHANGED <<outbox, breaker, outage, version, owed, budget>>
  BY DEF Accept
<1>2. /\ trace' \in Seq(Trace) /\ Len(trace') = Len(outbox')
      /\ \A r \in Rows : trace'[r].transient = trace[r].transient /\ trace'[r].fatal = trace[r].fatal
      /\ shown' \in [Incidents -> [Channels -> Nat]]
  BY <1>1, Delivered DEF Holding
<1>3. /\ job \in Job /\ job.pc = "accepted" /\ job.row = worker[w].row
      /\ job.batch = worker[w].batch
  BY <1>0 DEF Job
<1> HIDE DEF job
<1>4. Types'
  BY <1>1, <1>2, <1>3 DEF Become, Types
<1>5. Grown
  <2>1. \A r \in Rows : trace[r].transient \in Nat
    BY RowNumbers DEF Trace
  <2>2. Rows' = Rows
    BY <1>1 DEF Rows
  <2> QED BY <1>2, <2>1, <2>2 DEF Grown
<1>6. JobOK(job, outbox) /\ ChargesOK(job, trace)
  BY <1>0, <1>1, <1>3, Zenon DEF JobOK, ChargesOK, Holding
<1>7. JobOK(job, outbox') /\ ChargesOK(job, trace')
  BY <1>3, <1>4, <1>5, <1>6, JobsKept
<1>8. WorkersOK'
  BY <1>1, <1>4, <1>5, <1>7, WorkerMoves
<1>9. AllMarked(outbox')
  BY <1>1, Zenon
<1>10. RowsCharged'
  BY <1>1, <1>2, Zenon DEF RowsCharged, Charged, Rows
<1> QED BY <1>4, <1>8, <1>9, <1>10

LEMMA RejectInv ==
    ASSUME IInv, NEW w \in Workers, NEW verdict \in Verdicts, NEW hint \in Hints,
           NEW delivered \in BOOLEAN, Reject(w, verdict, hint, delivered)
    PROVE  IInv'
<1> USE DEF IInv
<1> DEFINE job == [worker[w] EXCEPT !.pc = "rejected", !.verdict = verdict, !.hint = hint]
           r == worker[w].row
<1>0. worker[w] \in Job /\ JobOK(worker[w], outbox) /\ ChargesOK(worker[w], trace)
  BY DEF Types, WorkersOK
<1>1. /\ worker[w].pc = "calling" /\ Become(w, job)
      /\ UNCHANGED <<outbox, breaker, outage, version, owed>>
      /\ budget' = [budget EXCEPT !.faults = @ + 1]
      /\ delivered => verdict = "down"
  BY DEF Reject
<1>2. /\ job \in Job /\ job.pc = "rejected" /\ job.row = r /\ job.verdict = verdict
      /\ job.batch = worker[w].batch /\ job.attempts = worker[w].attempts
  BY <1>0 DEF Job
<1> HIDE DEF job
<1>3. r \in Rows /\ trace[r] \in Trace /\ Rows' = Rows /\ Rows = 1..Len(trace)
  BY <1>0, <1>1, RowNumbers DEF JobOK, Holding, Rows, Types
<1>4. /\ trace' \in Seq(Trace) /\ Len(trace') = Len(outbox')
      /\ shown' \in [Incidents -> [Channels -> Nat]]
      /\ \A q \in Rows : /\ trace[q].transient <= trace'[q].transient
                         /\ trace[q].fatal => trace'[q].fatal
      /\ verdict = "transient" => trace'[r].transient = trace[r].transient + 1
      /\ verdict = "fatal" => trace'[r].fatal
  <2>0. \A q \in Rows : trace[q].transient \in Nat
    BY RowNumbers DEF Trace
  <2>1. CASE delivered
    <3>1. Deliver(w)
      BY <2>1, Zenon DEF Reject
    <3>2. /\ trace' \in Seq(Trace) /\ Len(trace') = Len(outbox')
          /\ \A q \in Rows : trace'[q].transient = trace[q].transient /\ trace'[q].fatal = trace[q].fatal
          /\ shown' \in [Incidents -> [Channels -> Nat]]
      BY <1>1, <3>1, Delivered DEF Holding
    <3>3. verdict = "down"
      BY <1>1, <2>1
    <3>4. \A q \in Rows : trace[q].transient <= trace'[q].transient
      BY <2>0, <3>2
    <3>5. \A q \in Rows : trace[q].fatal => trace'[q].fatal
      BY <3>2, Zenon
    <3> QED BY <3>2, <3>3, <3>4, <3>5
  <2>2. CASE ~delivered
    <3> DEFINE new == Failed(trace[r], verdict)
    <3>1. trace' = [trace EXCEPT ![r] = new] /\ shown' = shown
      BY <2>2, Zenon DEF Reject
    <3>2. /\ new \in Trace
          /\ new.transient = IF verdict = "transient" THEN trace[r].transient + 1 ELSE trace[r].transient
      BY <1>3, TraceTypes
    <3>3. (trace[r].fatal => new.fatal) /\ (verdict = "fatal" => new.fatal)
      BY <1>3, TraceTypes
    <3> HIDE DEF new
    <3>4. /\ trace' \in Seq(Trace) /\ Len(trace') = Len(trace)
          /\ \A j \in 1..Len(trace) : trace'[j] = IF j = r THEN new ELSE trace[j]
      <4>1. trace \in Seq(Trace)
        BY DEF Types
      <4>2. trace' \in Seq(Trace) /\ Replaced(trace', trace, r, new)
        BY <1>3, <3>1, <3>2, <4>1, ElementReplaced
      <4> QED BY <4>2, Zenon DEF Replaced
    <3>5. \A q \in Rows : trace[q].transient <= trace'[q].transient
      <4> SUFFICES ASSUME NEW q \in Rows PROVE trace[q].transient <= trace'[q].transient
        OBVIOUS
      <4>1. CASE q = r
        <5>1. trace'[q].transient = new.transient
          BY <1>3, <3>4, <4>1, Zenon
        <5> QED BY <2>0, <3>2, <4>1, <5>1
      <4>2. CASE q # r
        <5>1. trace'[q] = trace[q]
          BY <1>3, <3>4, <4>2
        <5> QED BY <2>0, <5>1
      <4> QED BY <4>1, <4>2
    <3>6. \A q \in Rows : trace[q].fatal => trace'[q].fatal
      BY <1>3, <3>3, <3>4, Zenon
    <3>7. trace'[r] = new
      BY <1>3, <3>4
    <3>8. /\ verdict = "transient" => trace'[r].transient = trace[r].transient + 1
          /\ verdict = "fatal" => trace'[r].fatal
      BY <3>2, <3>3, <3>7, Zenon
    <3>9. Len(trace') = Len(outbox') /\ shown' \in [Incidents -> [Channels -> Nat]]
      BY <1>1, <3>1, <3>4 DEF Types
    <3> QED BY <3>4, <3>5, <3>6, <3>8, <3>9
  <2> QED BY <2>1, <2>2
<1>5. Types'
  <2>2. budget' \in [faults : Nat, crashes : Nat]
    BY <1>1, BudgetTypes
  <2> QED BY <1>1, <1>2, <1>4, <2>2 DEF Become, Types
<1>6. Grown
  BY <1>3, <1>4 DEF Grown
<1>7. JobOK(job, outbox')
  BY <1>0, <1>1, <1>2, <1>3, Zenon DEF JobOK, Rows
<1>8. ChargesOK(job, trace')
  <2>1. ChargesOK(worker[w], trace')
    BY <1>0, <1>5, <1>6, JobsKept
  <2>2. verdict = "transient" => job.attempts + 1 <= trace'[r].transient
    <3>1. worker[w].attempts <= trace[r].transient
      BY <1>0, <1>1 DEF ChargesOK
    <3>2. worker[w].attempts \in Nat /\ trace[r].transient \in Nat
      BY <1>0, <1>3 DEF Job, Trace
    <3>3. job.attempts = worker[w].attempts
      BY <1>2
    <3>4. verdict = "transient" => trace'[r].transient = trace[r].transient + 1
      BY <1>4
    <3> QED BY <3>1, <3>2, <3>3, <3>4
  <2> QED BY <1>2, <1>4, <2>1, <2>2, Zenon DEF ChargesOK
<1>9. WorkersOK'
  BY <1>1, <1>5, <1>6, <1>7, <1>8, WorkerMoves
<1>10. AllMarked(outbox')
  BY <1>1, Zenon
<1>11. RowsCharged'
  <2> SUFFICES ASSUME NEW q \in Rows' PROVE Charged(outbox'[q], trace'[q])
    BY DEF RowsCharged
  <2>1. q \in Rows /\ outbox'[q] = outbox[q] /\ outbox[q] \in Row
    BY <1>1, <1>3, RowNumbers
  <2>2. Charged(outbox[q], trace[q])
    BY <2>1 DEF RowsCharged
  <2>3. trace[q] \in Trace /\ trace'[q] \in Trace
    BY <1>3, <1>5, <2>1, RowNumbers, RowNumbersNext
  <2>4. trace[q].transient <= trace'[q].transient /\ (trace[q].fatal => trace'[q].fatal)
    BY <1>4, <2>1
  <2>5. outbox[q].attempts <= trace'[q].transient
    BY <2>1, <2>2, <2>3, <2>4 DEF Charged, Trace, Row
  <2>6. trace[q].transient >= MaxAttempts => trace'[q].transient >= MaxAttempts
    BY <2>3, <2>4 DEF Trace
  <2> QED BY <2>1, <2>2, <2>4, <2>5, <2>6, Zenon DEF Charged
<1> QED BY <1>5, <1>9, <1>10, <1>11

\* One row is written.
RowIsNow(r, row) == \A q \in Rows : outbox'[q] = IF q = r THEN row ELSE outbox[q]

LEMMA RowWritten ==
    ASSUME IInv, NEW r \in Rows, NEW row \in Row, outbox' = [outbox EXCEPT ![r] = row],
           UNCHANGED trace, SameIntent(outbox[r], row), NotReplaced(outbox[r], row),
           Charged(row, trace[r])
    PROVE  /\ outbox' \in Seq(Row) /\ trace' \in Seq(Trace) /\ Len(trace') = Len(outbox')
           /\ Rows' = Rows /\ Grown /\ RowsCharged' /\ AllMarked(outbox')
           /\ RowIsNow(r, row)
<1> USE DEF IInv
<1>1. /\ outbox' \in Seq(Row) /\ Len(outbox') = Len(outbox)
      /\ \A q \in 1..Len(outbox) : outbox'[q] = IF q = r THEN row ELSE outbox[q]
  <2>1. outbox \in Seq(Row) /\ r \in 1..Len(outbox)
    BY RowNumbers DEF Types
  <2>2. outbox' \in Seq(Row) /\ Replaced(outbox', outbox, r, row)
    BY <2>1, ElementReplaced
  <2> QED BY <2>2, Zenon DEF Replaced
<1>2. Rows' = Rows /\ Rows = 1..Len(outbox)
  BY RowNumbers DEF Rows
<1>3. \A q \in Rows : outbox'[q] = IF q = r THEN row ELSE outbox[q]
  BY <1>1, <1>2, Zenon
<1>4. Grown
  BY <1>2, HistoryKept
<1>5. Carries(outbox, outbox')
  <2>1. \A q \in Rows : SameIntent(outbox[q], outbox'[q]) /\ NotReplaced(outbox[q], outbox'[q])
    <3> SUFFICES ASSUME NEW q \in Rows
                 PROVE  SameIntent(outbox[q], outbox'[q]) /\ NotReplaced(outbox[q], outbox'[q])
      OBVIOUS
    <3>1. CASE q = r
      BY <1>3, <3>1, Zenon
    <3>2. CASE q # r
      <4>1. outbox'[q] = outbox[q]
        BY <1>3, <3>2
      <4> QED BY <4>1, Zenon DEF SameIntent, NotReplaced
    <3> QED BY <3>1, <3>2
  <2> QED BY <1>2, <2>1, Zenon DEF Carries, Rows
<1>6. AllMarked(outbox')
  BY <1>5, CarriedMarks
<1>7. RowsCharged'
  <2> SUFFICES ASSUME NEW q \in Rows PROVE Charged(outbox'[q], trace'[q])
    BY <1>2 DEF RowsCharged
  <2>1. Charged(outbox[q], trace[q])
    BY DEF RowsCharged
  <2> QED BY <1>3, <2>1, Zenon
<1>8. trace' \in Seq(Trace) /\ Len(trace') = Len(outbox')
  BY <1>1 DEF Types
<1> QED BY <1>1, <1>2, <1>3, <1>4, <1>6, <1>7, <1>8 DEF RowIsNow

LEMMA MarkSentInv ==
    ASSUME IInv, NEW w \in Workers, MarkSent(w)
    PROVE  /\ IInv' /\ Rows' = Rows
           /\ worker[w].row \in Rows
           /\ \A q \in Rows : /\ SameIntent(outbox[q], outbox'[q])
                              /\ q # worker[w].row => outbox'[q].status = outbox[q].status
<1> USE DEF IInv
<1> DEFINE r == worker[w].row
           row == [outbox[r] EXCEPT !.status = "sent", !.lease = 0]
           job == [worker[w] EXCEPT !.pc = "marked"]
<1>0. worker[w] \in Job /\ JobOK(worker[w], outbox) /\ ChargesOK(worker[w], trace)
  BY DEF Types, WorkersOK
<1>1. /\ worker[w].pc = "accepted" /\ Become(w, job)
      /\ outbox' = [outbox EXCEPT ![r] = row]
      /\ UNCHANGED <<breaker, outage, version, owed, shown, trace, budget>>
  BY DEF MarkSent
<1>2. r \in Rows /\ outbox[r] \in Row
  BY <1>0, <1>1, RowNumbers DEF JobOK, Holding, Rows
<1>3. /\ row \in Row /\ row.status = "sent" /\ row.attempts = outbox[r].attempts
      /\ row.inc = outbox[r].inc /\ row.chan = outbox[r].chan /\ row.via = outbox[r].via
  BY <1>2 DEF Row
<1>4. job \in Job /\ job.pc = "marked" /\ job.row = r /\ job.batch = worker[w].batch
  BY <1>0 DEF Job
<1> HIDE DEF row, job
<1>5. SameIntent(outbox[r], row) /\ NotReplaced(outbox[r], row) /\ Charged(row, trace[r])
  <2>1. Charged(outbox[r], trace[r])
    BY <1>2 DEF RowsCharged
  <2> QED BY <1>3, <2>1 DEF SameIntent, NotReplaced, Charged
<1>6. /\ outbox' \in Seq(Row) /\ trace' \in Seq(Trace) /\ Len(trace') = Len(outbox')
      /\ Rows' = Rows /\ Grown /\ RowsCharged' /\ AllMarked(outbox')
      /\ \A q \in Rows : outbox'[q] = IF q = r THEN row ELSE outbox[q]
  <2>1. UNCHANGED trace
    BY <1>1
  <2>2. /\ outbox' \in Seq(Row) /\ trace' \in Seq(Trace) /\ Len(trace') = Len(outbox')
        /\ Rows' = Rows /\ Grown /\ RowsCharged' /\ AllMarked(outbox')
        /\ RowIsNow(r, row)
    BY <1>1, <1>2, <1>3, <1>5, <2>1, RowWritten
  <2> QED BY <2>2, Zenon DEF RowIsNow
<1>7. Types'
  BY <1>1, <1>4, <1>6 DEF Become, Types
<1>8. JobOK(job, outbox) /\ ChargesOK(job, trace)
  BY <1>0, <1>1, <1>4, Zenon DEF JobOK, ChargesOK, Holding
<1>9. JobOK(job, outbox') /\ ChargesOK(job, trace')
  BY <1>4, <1>6, <1>7, <1>8, JobsKept
<1>10. WorkersOK'
  BY <1>1, <1>6, <1>7, <1>9, WorkerMoves
<1>11. \A q \in Rows : /\ SameIntent(outbox[q], outbox'[q])
                       /\ q # r => outbox'[q].status = outbox[q].status
  BY <1>5, <1>6, Zenon DEF SameIntent
<1> QED BY <1>2, <1>6, <1>7, <1>10, <1>11

\* What _dead_letter, _park and _retry_later write.
LEMMA DeadRow ==
    ASSUME NEW row \in Row
    PROVE  LET dead == [row EXCEPT !.status = "dead", !.lease = 0]
           IN  /\ dead \in Row /\ dead.status = "dead" /\ dead.attempts = row.attempts
               /\ SameIntent(row, dead)
BY DEF Row, SameIntent

LEMMA ParkedRow ==
    ASSUME NEW row \in Row, NEW job \in Job
    PROVE  /\ Park(row, job) \in Row /\ SameIntent(row, Park(row, job))
           /\ Park(row, job).status = row.status /\ Park(row, job).attempts = row.attempts
           /\ Park(row, job).supersededBy = row.supersededBy /\ Park(row, job).via = row.via
BY DEF Park, Row, Job, SameIntent

LEMMA RetriedRow ==
    ASSUME NEW row \in Row, NEW job \in Job
    PROVE  /\ RetryLater(row, job) \in Row /\ SameIntent(row, RetryLater(row, job))
           /\ RetryLater(row, job).attempts = job.attempts + 1
           /\ RetryLater(row, job).status \in {"dead", "pending"}
           /\ RetryLater(row, job).status = "dead" => job.attempts + 1 >= MaxAttempts
<1> DEFINE n == job.attempts + 1
           d == IF job.hint > 0 THEN job.hint ELSE Least(2^n, BackoffMax)
           s == IF n >= MaxAttempts THEN "dead" ELSE "pending"
           new == [row EXCEPT !.attempts = n, !.lease = 0, !.status = s, !.due = d]
<1>3. n \in Nat
  BY DEF Job
<1>4. d \in Nat
  <2>1. 2^n \in Nat
    BY <1>3, PowerOfTwo
  <2> DEFINE p == 2^n
  <2> HIDE DEF p
  <2>2. p \in Nat
    BY <2>1 DEF p
  <2>3. Least(p, BackoffMax) \in Nat
    BY <2>2 DEF Least
  <2>4. job.hint \in Nat
    BY DEF Job
  <2>5. d = IF job.hint > 0 THEN job.hint ELSE Least(p, BackoffMax)
    BY DEF p
  <2> QED BY <2>3, <2>4, <2>5
<1>5. RetryLater(row, job) = new
  BY DEF RetryLater
<1>6. s \in {"dead", "pending"} /\ (s = "dead" => n >= MaxAttempts)
  OBVIOUS
<1>7. new \in Row /\ new.attempts = n /\ new.status = s /\ SameIntent(row, new)
  <2> HIDE DEF n, d, s
  <2> QED BY <1>3, <1>4, <1>6 DEF Row, SameIntent
<1> HIDE DEF new, s
<1> QED BY <1>5, <1>6, <1>7, Zenon

\* No row is lost or changes its intent, and none becomes sent.
Quiet ==
    /\ Rows \subseteq Rows'
    /\ \A q \in Rows : outbox'[q].inc = outbox[q].inc /\ outbox'[q].chan = outbox[q].chan
    /\ \A q \in Rows' : outbox'[q].status = "sent" => q \in Rows /\ outbox[q].status = "sent"

LEMMA SettleInv ==
    ASSUME IInv, NEW w \in Workers, Settle(w)
    PROVE  IInv' /\ Quiet
<1> USE DEF IInv
<1> DEFINE job == worker[w]
           r == job.row
           dead == [outbox[r] EXCEPT !.status = "dead", !.lease = 0]
           row == CASE job.verdict = "fatal" -> dead
                    [] job.verdict = "down" -> Park(outbox[r], job)
                    [] OTHER -> RetryLater(outbox[r], job)
<1>0. job \in Job /\ JobOK(job, outbox) /\ ChargesOK(job, trace)
  BY DEF Types, WorkersOK
<1>1. /\ job.pc = "settling" /\ outbox' = [outbox EXCEPT ![r] = row]
      /\ UNCHANGED <<breaker, outage, version, owed, shown, trace, budget>>
  BY DEF Settle
<1>2. r \in Rows /\ outbox[r] \in Row /\ trace[r] \in Trace
  BY <1>0, <1>1, RowNumbers DEF JobOK, Holding, Rows
<1>3. Charged(outbox[r], trace[r])
  BY <1>2 DEF RowsCharged
<1>4. /\ row \in Row /\ SameIntent(outbox[r], row) /\ NotReplaced(outbox[r], row)
      /\ Charged(row, trace[r])
      /\ row.status = "sent" => outbox[r].status = "sent"
  <2>1. CASE job.verdict = "fatal"
    <3>1. row = dead
      BY <2>1
    <3>2. /\ dead \in Row /\ SameIntent(outbox[r], dead) /\ dead.status = "dead"
          /\ dead.attempts = outbox[r].attempts
      BY <1>2, DeadRow
    <3>3. trace[r].fatal
      BY <1>0, <1>1, <2>1, Zenon DEF ChargesOK
    <3> HIDE DEF dead, row
    <3>4. NotReplaced(outbox[r], row) /\ Charged(row, trace[r])
      BY <1>3, <3>1, <3>2, <3>3, Zenon DEF NotReplaced, Charged
    <3> QED BY <3>1, <3>2, <3>4
  <2>2. CASE job.verdict = "down"
    <3> DEFINE park == Park(outbox[r], job)
    <3>1. row = park
      BY <2>2
    <3>2. /\ park \in Row /\ SameIntent(outbox[r], park) /\ park.status = outbox[r].status
          /\ park.attempts = outbox[r].attempts
          /\ park.supersededBy = outbox[r].supersededBy /\ park.via = outbox[r].via
      BY <1>0, <1>2, ParkedRow, Zenon
    <3> HIDE DEF park, row
    <3>3. NotReplaced(outbox[r], row) /\ Charged(row, trace[r])
      BY <1>3, <3>1, <3>2, Zenon DEF NotReplaced, Charged
    <3> QED BY <3>1, <3>2, <3>3
  <2>3. CASE job.verdict \notin {"fatal", "down"}
    <3> DEFINE retry == RetryLater(outbox[r], job)
    <3>1. row = retry
      BY <2>3
    <3>2. /\ retry \in Row /\ SameIntent(outbox[r], retry) /\ retry.attempts = job.attempts + 1
          /\ retry.status \in {"dead", "pending"}
          /\ retry.status = "dead" => job.attempts + 1 >= MaxAttempts
      BY <1>0, <1>2, RetriedRow, Zenon
    <3>3. job.attempts + 1 <= trace[r].transient
      <4>1. job.verdict = "transient"
        BY <1>0, <1>1, <2>3 DEF Verdicts, ChargesOK
      <4> QED BY <1>0, <1>1, <4>1 DEF ChargesOK
    <3>4. job.attempts \in Nat /\ trace[r].transient \in Nat
      BY <1>0, <1>2 DEF Job, Trace
    <3> HIDE DEF retry, row
    <3>5. row.attempts <= trace[r].transient
      BY <3>1, <3>2, <3>3
    <3>6. row.status = "dead" => trace[r].transient >= MaxAttempts
      BY <3>1, <3>2, <3>3, <3>4
    <3>7. row.status \in {"dead", "pending"}
      BY <3>1, <3>2
    <3> QED BY <3>1, <3>2, <3>5, <3>6, <3>7 DEF NotReplaced, Charged
  <2> QED BY <2>1, <2>2, <2>3
<1> HIDE DEF row
<1>5. /\ outbox' \in Seq(Row) /\ trace' \in Seq(Trace) /\ Len(trace') = Len(outbox')
      /\ Rows' = Rows /\ Grown /\ RowsCharged' /\ AllMarked(outbox')
      /\ \A q \in Rows : outbox'[q] = IF q = r THEN row ELSE outbox[q]
  <2>1. UNCHANGED trace
    BY <1>1
  <2>2. /\ outbox' \in Seq(Row) /\ trace' \in Seq(Trace) /\ Len(trace') = Len(outbox')
        /\ Rows' = Rows /\ Grown /\ RowsCharged' /\ AllMarked(outbox')
        /\ RowIsNow(r, row)
    BY <1>1, <1>2, <1>4, <2>1, RowWritten
  <2> QED BY <2>2, Zenon DEF RowIsNow
<1>6. \E next \in Job : /\ Become(w, next)
                        /\ JobOK(next, outbox) /\ ChargesOK(next, trace)
  <2>1. CASE job.verdict = "down" /\ job.newlyDown
    <3> DEFINE next == [job EXCEPT !.pc = "failingOver"]
    <3>1. Become(w, next)
      BY <2>1, Zenon DEF Settle
    <3>2. next \in Job /\ next.pc = "failingOver" /\ next.row = r /\ next.batch = job.batch
      BY <1>0 DEF Job
    <3> HIDE DEF next
    <3>3. JobOK(next, outbox) /\ ChargesOK(next, trace)
      BY <1>0, <1>1, <3>2, Zenon DEF JobOK, ChargesOK, Holding
    <3> QED BY <3>1, <3>2, <3>3
  <2>2. CASE ~(job.verdict = "down" /\ job.newlyDown)
    <3>1. Continue(w)
      BY <2>2, Zenon DEF Settle
    <3> QED BY <3>1, Continued
  <2> QED BY <2>1, <2>2
<1>7. PICK next \in Job : Become(w, next) /\ JobOK(next, outbox) /\ ChargesOK(next, trace)
  BY <1>6
<1>8. Types'
  BY <1>1, <1>5, <1>7 DEF Become, Types
<1>9. JobOK(next, outbox') /\ ChargesOK(next, trace')
  BY <1>5, <1>7, <1>8, JobsKept
<1>10. WorkersOK'
  BY <1>5, <1>7, <1>8, <1>9, WorkerMoves
<1>11. Quiet
  <2>1. \A q \in Rows : SameIntent(outbox[q], outbox'[q]) /\ (outbox'[q].status = "sent" => outbox[q].status = "sent")
    BY <1>4, <1>5, Zenon DEF SameIntent
  <2> QED BY <1>5, <2>1, Zenon DEF Quiet, SameIntent
<1> QED BY <1>5, <1>8, <1>10, <1>11

\* The table stays as it is.
LEMMA TableQuiet ==
    ASSUME UNCHANGED outbox
    PROVE  Quiet
BY Zenon DEF Quiet, Rows

LEMMA RecordSuccessInv ==
    ASSUME IInv, NEW w \in Workers, RecordSuccess(w)
    PROVE  IInv'
<1> USE DEF IInv
<1> DEFINE c == outbox[worker[w].row].chan
<1>0. JobOK(worker[w], outbox)
  BY DEF WorkersOK
<1>1. /\ worker[w].pc = "marked" /\ Continue(w) /\ breaker' = [breaker EXCEPT ![c] = Closed]
      /\ outage' = IF Recovers(c) THEN [outage EXCEPT ![c].open = FALSE] ELSE outage
      /\ UNCHANGED <<outbox, version, owed, shown, trace, budget>>
  BY DEF RecordSuccess
<1>2. c \in Channels
  BY <1>0, <1>1, RowNumbers DEF JobOK, Holding, Rows, Row
<1>3. PICK next \in Job : Become(w, next) /\ JobOK(next, outbox) /\ ChargesOK(next, trace)
  BY <1>1, Continued
<1>4. Grown /\ RowsCharged' /\ AllMarked(outbox')
  BY <1>1, TablesStay
<1> HIDE DEF c
<1>5. breaker' \in [Channels -> Breaker]
  <2>1. Closed \in Breaker
    BY ClosedTyped, Zenon
  <2> QED BY <1>1, <1>2, <2>1 DEF Types
<1>6. outage' \in [Channels -> [open : BOOLEAN, number : Nat]]
  <2>1. outage \in [Channels -> [open : BOOLEAN, number : Nat]]
    BY Zenon DEF Types
  <2>2. [outage EXCEPT ![c].open = FALSE] \in [Channels -> [open : BOOLEAN, number : Nat]]
    BY <1>2, <2>1, OutageTyped, Zenon
  <2> QED BY <1>1, <2>1, <2>2, Zenon
<1>7. Types'
  BY <1>1, <1>3, <1>5, <1>6 DEF Become, Types
<1>8. JobOK(next, outbox') /\ ChargesOK(next, trace')
  BY <1>3, <1>4, <1>7, JobsKept
<1> QED BY <1>3, <1>4, <1>7, <1>8, WorkerMoves

LEMMA RecordFailureInv ==
    ASSUME IInv, NEW w \in Workers, RecordFailure(w)
    PROVE  IInv'
<1> USE DEF IInv
<1> DEFINE c == outbox[worker[w].row].chan
           down == worker[w].verdict = "down"
           new == down /\ TripsOpen(breaker[c])
           wait == IF breaker'[c].state = "OPEN" THEN breaker'[c].probeIn ELSE ParkDelay
           job == [worker[w] EXCEPT !.pc = "settling", !.newlyDown = new, !.parkFor = wait]
<1>0. worker[w] \in Job /\ JobOK(worker[w], outbox) /\ ChargesOK(worker[w], trace)
  BY DEF Types, WorkersOK
<1>1. /\ worker[w].pc = "rejected" /\ Become(w, job)
      /\ breaker' = IF down THEN [breaker EXCEPT ![c] = AfterFailure(@, worker[w].hint)] ELSE breaker
      /\ outage' = IF new THEN [outage EXCEPT ![c] = [open |-> TRUE, number |-> @.number + 1]]
                          ELSE outage
      /\ UNCHANGED <<outbox, version, owed, shown, trace, budget>>
  BY DEF RecordFailure
<1>2. c \in Channels
  BY <1>0, <1>1, RowNumbers DEF JobOK, Holding, Rows, Row
<1>3. breaker' \in [Channels -> Breaker]
  <2> DEFINE after == AfterFailure(breaker[c], worker[w].hint)
  <2>1. breaker[c] \in Breaker /\ worker[w].hint \in Nat
    BY <1>0, <1>2 DEF Types, Job
  <2>2. after \in Breaker
    BY <2>1, BreakerTypes
  <2>3. breaker' = [breaker EXCEPT ![c] = after] \/ breaker' = breaker
    BY <1>1
  <2>4. breaker \in [Channels -> Breaker]
    BY DEF Types
  <2>5. [breaker EXCEPT ![c] = after] \in [Channels -> Breaker]
    BY <2>2, <2>4
  <2> HIDE DEF c, after
  <2> QED BY <2>3, <2>4, <2>5, Zenon
<1>4. outage' \in [Channels -> [open : BOOLEAN, number : Nat]]
  <2>1. outage[c] \in [open : BOOLEAN, number : Nat]
    BY <1>2 DEF Types
  <2> DEFINE out == [open |-> TRUE, number |-> outage[c].number + 1]
  <2>2. out \in [open : BOOLEAN, number : Nat]
    BY <2>1
  <2>3. outage' = [outage EXCEPT ![c] = out] \/ outage' = outage
    BY <1>1
  <2> HIDE DEF out, c
  <2> QED BY <1>2, <2>2, <2>3 DEF Types
<1>5. wait \in Nat /\ new \in BOOLEAN
  <2>1. breaker'[c] \in Breaker
    BY <1>2, <1>3
  <2>2. new \in BOOLEAN
    BY DEF TripsOpen
  <2> QED BY <2>1, <2>2 DEF Breaker
<1> HIDE DEF wait, new
<1>6. /\ job \in Job /\ job.pc = "settling" /\ job.row = worker[w].row
      /\ job.batch = worker[w].batch /\ job.attempts = worker[w].attempts
      /\ job.verdict = worker[w].verdict
  BY <1>0, <1>5 DEF Job
<1> HIDE DEF job
<1>7. Grown /\ RowsCharged' /\ AllMarked(outbox')
  BY <1>1, TablesStay
<1>8. Types'
  BY <1>1, <1>3, <1>4, <1>6 DEF Become, Types
<1>9. JobOK(job, outbox) /\ ChargesOK(job, trace)
  BY <1>0, <1>1, <1>6, Zenon DEF JobOK, ChargesOK, Holding
<1>10. JobOK(job, outbox') /\ ChargesOK(job, trace')
  BY <1>6, <1>7, <1>8, <1>9, JobsKept
<1> QED BY <1>1, <1>7, <1>8, <1>10, WorkerMoves

\* Every row is written, from a table whose marks are in order.
LEMMA TableRewritten ==
    ASSUME IInv, NEW T, AllMarked(T), DOMAIN T = Rows, outbox' \in [Rows -> Row], UNCHANGED trace,
           \A r \in Rows : /\ SameIntent(T[r], outbox'[r]) /\ NotReplaced(T[r], outbox'[r])
                           /\ Charged(outbox'[r], trace[r])
    PROVE  /\ outbox' \in Seq(Row) /\ trace' \in Seq(Trace) /\ Len(trace') = Len(outbox')
           /\ Rows' = Rows /\ Grown /\ RowsCharged' /\ AllMarked(outbox')
<1> USE DEF IInv
<1>1. outbox' \in [1..Len(outbox) -> Row] /\ Len(outbox) \in Nat
  BY RowNumbers
<1>2. outbox' \in Seq(Row) /\ Len(outbox') = Len(outbox)
  BY <1>1, FunctionIsSeq
<1>3. Rows' = Rows
  BY DEF Rows
<1>4. Grown
  BY <1>3, HistoryKept
<1>5. Carries(T, outbox')
  BY <1>3, Zenon DEF Carries, Rows
<1>6. AllMarked(outbox')
  BY <1>5, CarriedMarks
<1>7. RowsCharged'
  BY <1>3, Zenon DEF RowsCharged
<1> QED BY <1>2, <1>3, <1>4, <1>6, <1>7 DEF Types

LEMMA TickInv ==
    ASSUME IInv, Tick
    PROVE  IInv' /\ Quiet
<1> USE DEF IInv
<1>0. \A v \in Workers : worker[v] \in Job /\ JobOK(worker[v], outbox) /\ ChargesOK(worker[v], trace)
  BY DEF Types, WorkersOK
<1>1. /\ outbox' = [r \in Rows |-> IF IsPending(r)
                                   THEN [outbox[r] EXCEPT !.due = Countdown(@), !.lease = Countdown(@)]
                                   ELSE outbox[r]]
      /\ UNCHANGED <<outage, version, owed, shown, trace, budget>>
  BY DEF Tick
<1>2. \A r \in Rows : /\ outbox'[r] \in Row /\ SameIntent(outbox[r], outbox'[r])
                      /\ outbox'[r].attempts = outbox[r].attempts
                      /\ outbox'[r].status = outbox[r].status
                      /\ outbox'[r].via = outbox[r].via
                      /\ outbox'[r].supersededBy = outbox[r].supersededBy
  <2> SUFFICES ASSUME NEW r \in Rows
               PROVE  /\ outbox'[r] \in Row /\ SameIntent(outbox[r], outbox'[r])
                      /\ outbox'[r].attempts = outbox[r].attempts
                      /\ outbox'[r].status = outbox[r].status
                      /\ outbox'[r].via = outbox[r].via
                      /\ outbox'[r].supersededBy = outbox[r].supersededBy
    OBVIOUS
  <2>1. outbox[r] \in Row
    BY RowNumbers
  <2> DEFINE d == Countdown(outbox[r].due)
             l == Countdown(outbox[r].lease)
  <2>2. d \in Nat /\ l \in Nat
    BY <2>1 DEF Row, Countdown
  <2>3. outbox'[r] = IF IsPending(r) THEN [outbox[r] EXCEPT !.due = d, !.lease = l] ELSE outbox[r]
    BY <1>1
  <2> HIDE DEF d, l
  <2> DEFINE next == [outbox[r] EXCEPT !.due = d, !.lease = l]
  <2>4. /\ next \in Row /\ SameIntent(outbox[r], next)
        /\ next.attempts = outbox[r].attempts /\ next.status = outbox[r].status
        /\ next.via = outbox[r].via /\ next.supersededBy = outbox[r].supersededBy
    BY <2>1, <2>2 DEF Row, SameIntent
  <2>5. outbox'[r] = next \/ outbox'[r] = outbox[r]
    BY <2>3
  <2> HIDE DEF next
  <2>6. SameIntent(outbox[r], outbox[r])
    BY DEF SameIntent
  <2> QED BY <2>1, <2>4, <2>5, <2>6, Zenon
<1>3. outbox' \in [Rows -> Row]
  BY <1>1, <1>2
<1>4. \A r \in Rows : NotReplaced(outbox[r], outbox'[r]) /\ Charged(outbox'[r], trace[r])
  BY <1>2, Zenon DEF NotReplaced, Charged, RowsCharged
<1>5. /\ outbox' \in Seq(Row) /\ trace' \in Seq(Trace) /\ Len(trace') = Len(outbox')
      /\ Rows' = Rows /\ Grown /\ RowsCharged' /\ AllMarked(outbox')
  <2>1. DOMAIN outbox = Rows /\ UNCHANGED trace
    BY <1>1 DEF Rows
  <2> QED BY <1>2, <1>3, <1>4, <2>1, TableRewritten
<1>6. \A v \in Workers : /\ worker'[v] \in Job
                         /\ JobOK(worker'[v], outbox) /\ ChargesOK(worker'[v], trace)
  <2> SUFFICES ASSUME NEW v \in Workers
               PROVE  worker'[v] \in Job /\ JobOK(worker'[v], outbox) /\ ChargesOK(worker'[v], trace)
    OBVIOUS
  <2> DEFINE job == worker[v]
             up == [job EXCEPT !.pc = "awake"]
             on == [job EXCEPT !.elapsed = @ + 1]
  <2>1. worker'[v] = IF job.pc = "asleep" THEN up ELSE on
    BY DEF Tick
  <2>2. up \in Job /\ up.pc = "awake" /\ up.row = job.row /\ up.batch = job.batch
    BY <1>0 DEF Job
  <2>3. /\ on \in Job /\ on.pc = job.pc /\ on.row = job.row /\ on.batch = job.batch
        /\ on.attempts = job.attempts /\ on.verdict = job.verdict
    <3>1. \A n \in Nat : LET x == [job EXCEPT !.elapsed = n]
                         IN  /\ x \in Job /\ x.pc = job.pc /\ x.row = job.row /\ x.batch = job.batch
                             /\ x.attempts = job.attempts /\ x.verdict = job.verdict
      BY <1>0 DEF Job
    <3>2. job.elapsed + 1 \in Nat
      BY <1>0 DEF Job
    <3> QED BY <3>1, <3>2
  <2> HIDE DEF up, on
  <2>4. JobOK(up, outbox) /\ ChargesOK(up, trace)
    BY <1>0, <2>2, Zenon DEF JobOK, ChargesOK, Holding
  <2>5. JobOK(on, outbox) /\ ChargesOK(on, trace)
    BY <1>0, <2>3, Zenon DEF JobOK, ChargesOK, Holding
  <2> QED BY <2>1, <2>2, <2>3, <2>4, <2>5, Zenon
<1>7. breaker' \in [Channels -> Breaker]
  <2>1. \A c \in Channels : breaker[c] \in Breaker
    BY DEF Types
  <2>2. \A b \in Breaker : [b EXCEPT !.probeIn = Countdown(@)] \in Breaker
    <3>1. \A b \in Breaker, n \in Nat : [b EXCEPT !.probeIn = n] \in Breaker
      BY DEF Breaker
    <3>2. \A b \in Breaker : Countdown(b.probeIn) \in Nat
      BY DEF Breaker, Countdown
    <3> QED BY <3>1, <3>2
  <2>3. breaker' = [c \in Channels |-> [breaker[c] EXCEPT !.probeIn = Countdown(@)]]
    BY DEF Tick
  <2> QED BY <2>1, <2>2, <2>3
<1>8. Types'
  <2>1. worker' = [v \in Workers |-> worker'[v]]
    BY DEF Tick
  <2>2. worker' \in [Workers -> Job]
    BY <1>6, <2>1
  <2> QED BY <1>1, <1>5, <1>7, <2>2 DEF Types
<1>9. WorkersOK'
  <2> SUFFICES ASSUME NEW v \in Workers
               PROVE  JobOK(worker'[v], outbox') /\ ChargesOK(worker'[v], trace')
    BY DEF WorkersOK
  <2> QED BY <1>5, <1>6, <1>8, JobsKept
<1>10. Quiet
  BY <1>2, <1>5, Zenon DEF Quiet, SameIntent
<1> QED BY <1>5, <1>8, <1>9, <1>10

LEMMA PollInv ==
    ASSUME IInv, NEW w \in Workers, Poll(w)
    PROVE  /\ IInv' /\ Quiet
           /\ \E job \in Job : Become(w, job) /\ job.pc \in {"asleep", "draining"}
<1> USE DEF IInv
<1>1. UNCHANGED <<breaker, outage, version, owed, shown, trace, budget>>
  BY DEF Poll
<1>2. CASE Available = {}
  <2>1. Become(w, Idle) /\ UNCHANGED outbox
    BY <1>2 DEF Poll
  <2>2. Grown /\ RowsCharged' /\ AllMarked(outbox') /\ Quiet
    BY <1>1, <2>1, TablesStay, TableQuiet
  <2>3. Types'
    BY <1>1, <2>1, IdleJob DEF Become, Types
  <2>4. JobOK(Idle, outbox') /\ ChargesOK(Idle, trace')
    BY IdleJob, FreshJob
  <2>5. WorkersOK'
    BY <2>1, <2>2, <2>3, <2>4, WorkerMoves
  <2> QED BY <2>1, <2>2, <2>3, <2>5, IdleJob
<1>3. CASE Available # {}
  <2> DEFINE table   == CoalescePending(Available)
             claimed == FirstOf(table, {r \in Rows : Eligible(table[r])}, BatchSize)
             trial(c) == {r \in claimed : table[r].chan = c}
             kept    == UNION {IF breaker[c].state = "HALF_OPEN"
                               THEN FirstOf(table, trial(c), HalfOpenAllowance)
                               ELSE trial(c) : c \in Channels}
             batch   == {[id |-> r, attempts |-> table[r].attempts] : r \in kept}
             job     == IF kept = {} THEN Idle
                        ELSE [Idle EXCEPT !.pc = "draining", !.batch = batch]
  <2>1. /\ outbox' = [r \in Rows |-> IF r \in claimed THEN [table[r] EXCEPT !.lease = LeaseTicks]
                                     ELSE table[r]]
        /\ Become(w, job)
    BY <1>3 DEF Poll
  <2>2. /\ table \in Seq(Row) /\ Len(table) = Len(outbox) /\ DOMAIN table = Rows
        /\ \A r \in Rows : /\ SameIntent(outbox[r], table[r])
                           /\ table[r].attempts = outbox[r].attempts
                           /\ table[r].status \in {outbox[r].status, "superseded"}
        /\ AllMarked(table)
    BY Coalesced
  <2>3. \A r \in kept : r \in Rows
    BY DEF FirstOf
  <2> HIDE DEF table, kept, claimed
  <2>4. \A r \in Rows : table[r] \in Row
    BY <2>2, LenProperties
  <2>5. \A r \in Rows : /\ outbox'[r] \in Row /\ SameIntent(table[r], outbox'[r])
                        /\ outbox'[r].attempts = table[r].attempts
                        /\ outbox'[r].status = table[r].status
                        /\ outbox'[r].supersededBy = table[r].supersededBy
                        /\ outbox'[r].via = table[r].via
    BY <2>1, <2>4 DEF Row, SameIntent
  <2>6. \A r \in Rows : outbox'[r].status \in {outbox[r].status, "superseded"}
    BY <2>2, <2>5, Zenon
  <2>7. \A r \in Rows : NotReplaced(table[r], outbox'[r]) /\ Charged(outbox'[r], trace[r])
    <3> SUFFICES ASSUME NEW r \in Rows
                 PROVE  NotReplaced(table[r], outbox'[r]) /\ Charged(outbox'[r], trace[r])
      OBVIOUS
    <3>1. Charged(outbox[r], trace[r]) /\ outbox'[r].attempts = outbox[r].attempts
      BY <2>2, <2>5 DEF RowsCharged
    <3>2. outbox'[r].status = "dead" => outbox[r].status = "dead"
      BY <2>6
    <3> QED BY <2>5, <3>1, <3>2, Zenon DEF NotReplaced, Charged
  <2>8. outbox' \in [Rows -> Row]
    BY <2>1, <2>5
  <2>9. /\ outbox' \in Seq(Row) /\ trace' \in Seq(Trace) /\ Len(trace') = Len(outbox')
        /\ Rows' = Rows /\ Grown /\ RowsCharged' /\ AllMarked(outbox')
    BY <1>1, <2>2, <2>5, <2>7, <2>8, TableRewritten
  <2>10. \A b \in batch : b.id \in Rows /\ b.attempts = outbox[b.id].attempts /\ b \in Claim
    <3>1. \A r \in kept : r \in Rows /\ r \in Nat /\ table[r].attempts = outbox[r].attempts
                          /\ table[r].attempts \in Nat
      BY <2>2, <2>3, <2>4, RowNumbers DEF Row
    <3> QED BY <3>1 DEF Claim
  <2>11. \A b \in batch : b.attempts <= trace[b.id].transient
    <3>1. \A r \in Rows : outbox[r].attempts <= trace[r].transient
      BY DEF RowsCharged, Charged
    <3> QED BY <2>10, <3>1, Zenon
  <2> HIDE DEF batch
  <2>12. job \in Job /\ job.pc \in {"asleep", "draining"} /\ job.row = 0 /\ job.batch \subseteq batch
    BY <2>10 DEF Idle, Job, Verdicts
  <2> HIDE DEF job
  <2>13. JobOK(job, outbox) /\ ChargesOK(job, trace)
    <3>1. \A b \in job.batch : b.id \in Rows /\ b.attempts <= trace[b.id].transient
      BY <2>10, <2>11, <2>12
    <3>2. job.pc \notin Holding
      BY <2>12 DEF Holding
    <3> QED BY <2>12, <3>1, <3>2, Zenon DEF JobOK, ChargesOK, Rows, Holding
  <2>14. Types'
    BY <1>1, <2>1, <2>9, <2>12 DEF Become, Types
  <2>15. JobOK(job, outbox') /\ ChargesOK(job, trace')
    BY <2>9, <2>12, <2>13, <2>14, JobsKept
  <2>16. WorkersOK'
    BY <2>1, <2>9, <2>14, <2>15, WorkerMoves
  <2>17. Quiet
    <3>1. \A r \in Rows : outbox'[r].inc = outbox[r].inc /\ outbox'[r].chan = outbox[r].chan
      <4> SUFFICES ASSUME NEW r \in Rows
                   PROVE  outbox'[r].inc = outbox[r].inc /\ outbox'[r].chan = outbox[r].chan
        OBVIOUS
      <4>1. SameIntent(outbox[r], table[r]) /\ SameIntent(table[r], outbox'[r])
        BY <2>2, <2>5, Zenon
      <4> QED BY <4>1 DEF SameIntent
    <3>2. \A r \in Rows : outbox'[r].status = "sent" => outbox[r].status = "sent"
      BY <2>6
    <3> QED BY <2>9, <3>1, <3>2, Zenon DEF Quiet
  <2> QED BY <2>1, <2>9, <2>12, <2>14, <2>16, <2>17
<1> QED BY <1>2, <1>3

\* Pending rows are appended to a table whose marks are in order.
LEMMA RowsInserted ==
    ASSUME IInv, NEW T \in Seq(Row), Len(T) = Len(outbox), AllMarked(T),
           \A r \in Rows : /\ SameIntent(outbox[r], T[r])
                           /\ T[r].attempts = outbox[r].attempts
                           /\ T[r].status \in {outbox[r].status, "superseded"},
           NEW rows \in Seq(Row),
           \A n \in 1..Len(rows) : rows[n].status = "pending" /\ rows[n].attempts = 0,
           Insert(T, rows)
    PROVE  /\ outbox' \in Seq(Row) /\ trace' \in Seq(Trace) /\ Len(trace') = Len(outbox')
           /\ Grown /\ RowsCharged' /\ AllMarked(outbox') /\ Quiet
<1> USE DEF IInv
<1>1. /\ outbox' \in Seq(Row) /\ trace' \in Seq(Trace) /\ Len(trace') = Len(outbox')
      /\ Rows \subseteq Rows' /\ DOMAIN outbox' = Rows'
      /\ \A r \in Rows : outbox'[r] = T[r] /\ trace'[r] = trace[r]
      /\ \A r \in Rows' \ Rows : /\ r - Len(outbox) \in 1..Len(rows)
                                 /\ outbox'[r] = rows[r - Len(outbox)]
                                 /\ trace'[r] = NewTrace
  <2>1. /\ outbox' \in Seq(Row) /\ trace' \in Seq(Trace) /\ Len(trace') = Len(outbox')
        /\ InsertedRows(T, rows)
    BY Inserted
  <2> QED BY <2>1, Zenon DEF InsertedRows
<1>2. \A r \in Rows' \ Rows : /\ outbox'[r].status = "pending" /\ outbox'[r].attempts = 0
                              /\ trace'[r] = NewTrace
  <2> SUFFICES ASSUME NEW r \in Rows', r \notin Rows
               PROVE  /\ outbox'[r].status = "pending" /\ outbox'[r].attempts = 0
                      /\ trace'[r] = NewTrace
    OBVIOUS
  <2> DEFINE n == r - Len(outbox)
  <2>1. n \in 1..Len(rows) /\ outbox'[r] = rows[n] /\ trace'[r] = NewTrace
    BY <1>1
  <2> HIDE DEF n
  <2> QED BY <2>1, Zenon
<1>3. DOMAIN T = Rows
  BY RowNumbers, LenProperties
<1>4. Grown
  <2>1. Rows \subseteq Rows' /\ \A r \in Rows : trace'[r] = trace[r]
    BY <1>1
  <2> QED BY <2>1, HistoryKept
<1>5. Carries(T, outbox')
  <2>1. \A r \in DOMAIN T : outbox'[r] = T[r]
    BY <1>1, <1>3
  <2>2. \A r \in DOMAIN outbox' \ DOMAIN T : outbox'[r].status = "pending"
    BY <1>1, <1>2, <1>3
  <2>3. DOMAIN T \subseteq DOMAIN outbox'
    BY <1>1, <1>3
  <2> QED BY <2>1, <2>2, <2>3, Zenon DEF Carries, SameIntent, NotReplaced
<1>6. AllMarked(outbox')
  BY <1>5, CarriedMarks
<1>7. RowsCharged'
  <2> SUFFICES ASSUME NEW r \in Rows' PROVE Charged(outbox'[r], trace'[r])
    BY DEF RowsCharged
  <2>1. CASE r \in Rows
    <3>1. Charged(outbox[r], trace[r]) /\ outbox'[r] = T[r] /\ trace'[r] = trace[r]
      BY <1>1, <2>1 DEF RowsCharged
    <3>2. T[r].attempts = outbox[r].attempts /\ (T[r].status = "dead" => outbox[r].status = "dead")
      BY <2>1
    <3> QED BY <3>1, <3>2, Zenon DEF Charged
  <2>2. CASE r \notin Rows
    <3>1. outbox'[r].status = "pending" /\ outbox'[r].attempts = 0 /\ trace'[r] = NewTrace
      BY <1>2, <2>2
    <3> QED BY <3>1 DEF Charged, NewTrace
  <2> QED BY <2>1, <2>2
<1>8. Quiet
  <2>1. \A r \in Rows : outbox'[r].inc = outbox[r].inc /\ outbox'[r].chan = outbox[r].chan
    <3> SUFFICES ASSUME NEW r \in Rows
                 PROVE  outbox'[r].inc = outbox[r].inc /\ outbox'[r].chan = outbox[r].chan
      OBVIOUS
    <3>1. SameIntent(outbox[r], T[r]) /\ outbox'[r] = T[r]
      BY <1>1
    <3> QED BY <3>1 DEF SameIntent
  <2>2. \A r \in Rows : outbox'[r].status = "sent" => outbox[r].status = "sent"
    <3>1. \A r \in Rows : T[r].status = "sent" => outbox[r].status = "sent"
      OBVIOUS
    <3> QED BY <1>1, <3>1, Zenon
  <2>3. \A r \in Rows' : outbox'[r].status = "sent" => r \in Rows
    BY <1>2
  <2> QED BY <1>1, <2>1, <2>2, <2>3, Zenon DEF Quiet
<1> QED BY <1>1, <1>4, <1>6, <1>7, <1>8

LEMMA ProbeResultInv ==
    ASSUME IInv, NEW w \in Workers, NEW c \in Channels, NEW healthy \in BOOLEAN,
           NEW eventful \in BOOLEAN, ProbeResult(w, c, healthy, eventful)
    PROVE  IInv' /\ Quiet
<1> USE DEF IInv
<1> DEFINE job == [worker[w] EXCEPT !.probes = @ \ {c}, !.elapsed = 0]
           T == CoalescePending({c})
           digest == NewRow(DigestOf(c), c, DigestPriority, 0)
           rows == IF outage[c].open /\ eventful THEN <<digest>> ELSE <<>>
<1>0. worker[w] \in Job /\ JobOK(worker[w], outbox) /\ ChargesOK(worker[w], trace)
  BY DEF Types, WorkersOK
<1>1. /\ worker[w].pc = "probing" /\ Become(w, job)
      /\ breaker' = [breaker EXCEPT ![c] = AfterProbe(@, healthy)]
      /\ IF healthy THEN Insert(T, rows) ELSE UNCHANGED <<outbox, trace>>
      /\ budget' = [budget EXCEPT !.faults = IF healthy THEN @ ELSE @ + 1]
      /\ UNCHANGED <<outage, version, owed, shown>>
  BY Zenon DEF ProbeResult
<1>2. /\ job \in Job /\ job.pc = "probing" /\ job.row = worker[w].row
      /\ job.batch = worker[w].batch
  BY <1>0, <1>1 DEF Job
<1>3. breaker' \in [Channels -> Breaker]
  <2>1. breaker[c] \in Breaker /\ 0 \in Nat
    BY DEF Types
  <2>2. AfterProbe(breaker[c], healthy) \in Breaker
    BY <2>1, BreakerTypes
  <2> QED BY <1>1, <2>2 DEF Types
<1>4. budget' \in [faults : Nat, crashes : Nat]
  <2>1. CASE healthy
    <3>1. budget' = [budget EXCEPT !.faults = budget.faults]
      BY <1>1, <2>1
    <3> QED BY <3>1 DEF Types
  <2>2. CASE ~healthy
    <3>1. budget' = [budget EXCEPT !.faults = @ + 1]
      BY <1>1, <2>2
    <3> QED BY <3>1, BudgetTypes
  <2> QED BY <2>1, <2>2
<1>5. digest \in Row /\ digest.status = "pending" /\ digest.attempts = 0
  <2>1. outage[c] \in [open : BOOLEAN, number : Nat]
    BY DEF Types
  <2>2. DigestOf(c) \in Channels \X Nat
    BY <2>1 DEF DigestOf
  <2> DEFINE d == DigestOf(c)
  <2> HIDE DEF d
  <2>3. d \in Incidents \cup (Channels \X Nat)
    BY <2>2 DEF d
  <2>4. NewRow(d, c, DigestPriority, 0) \in Row
    BY <2>3 DEF NewRow, Row, NoVia
  <2> QED BY <2>4 DEF NewRow, d
<1> HIDE DEF digest
<1>6. /\ rows \in Seq(Row)
      /\ \A n \in 1..Len(rows) : rows[n].status = "pending" /\ rows[n].attempts = 0
  <2>1. /\ <<digest>> \in Seq(Row) /\ Len(<<digest>>) = 1 /\ <<digest>>[1] = digest
        /\ <<>> \in Seq(Row) /\ Len(<<>>) = 0
    BY <1>5
  <2>2. CASE outage[c].open /\ eventful
    <3>1. rows = <<digest>>
      BY <2>2, Zenon
    <3>2. \A n \in 1..Len(<<digest>>) : <<digest>>[n] = digest
      BY <2>1
    <3> HIDE DEF rows
    <3> QED BY <1>5, <2>1, <3>1, <3>2, Zenon
  <2>3. CASE ~(outage[c].open /\ eventful)
    <3>1. rows = <<>>
      BY <2>3, Zenon
    <3> HIDE DEF rows
    <3> QED BY <2>1, <3>1
  <2> QED BY <2>2, <2>3
<1> HIDE DEF rows, job, T
<1>7. /\ outbox' \in Seq(Row) /\ trace' \in Seq(Trace) /\ Len(trace') = Len(outbox')
      /\ Grown /\ RowsCharged' /\ AllMarked(outbox') /\ Quiet
  <2>1. CASE healthy
    <3>1. /\ T \in Seq(Row) /\ Len(T) = Len(outbox) /\ AllMarked(T)
          /\ \A r \in Rows : /\ SameIntent(outbox[r], T[r])
                             /\ T[r].attempts = outbox[r].attempts
                             /\ T[r].status \in {outbox[r].status, "superseded"}
      BY Coalesced DEF T
    <3>2. Insert(T, rows)
      BY <1>1, <2>1, Zenon
    <3> QED BY <1>6, <3>1, <3>2, RowsInserted
  <2>2. CASE ~healthy
    <3>1. UNCHANGED <<outbox, trace>>
      BY <1>1, <2>2, Zenon
    <3> QED BY <3>1, TablesStay, TableQuiet
  <2> QED BY <2>1, <2>2
<1>8. Types'
  BY <1>1, <1>2, <1>3, <1>4, <1>7 DEF Become, Types
<1>9. JobOK(job, outbox) /\ ChargesOK(job, trace)
  BY <1>0, <1>1, <1>2, Zenon DEF JobOK, ChargesOK, Holding
<1>10. JobOK(job, outbox') /\ ChargesOK(job, trace')
  BY <1>2, <1>7, <1>8, <1>9, JobsKept
<1>11. WorkersOK'
  BY <1>1, <1>7, <1>8, <1>10, WorkerMoves
<1> QED BY <1>7, <1>8, <1>11

LEMMA FailOverInv ==
    ASSUME IInv, NEW w \in Workers, FailOver(w)
    PROVE  IInv' /\ Quiet
<1> USE DEF IInv
<1> DEFINE c == outbox[worker[w].row].chan
           target == SelectFailover(c, Available \ {c})
           moved == {r \in Rows : /\ IsPending(r)
                                  /\ outbox[r].chan = c
                                  /\ outbox[r].failoverOf = 0
                                  /\ IsFailoverWorthy(outbox[r].priority)}
           order == InOrder(outbox, moved)
           T == [r \in Rows |-> IF r \in moved THEN [outbox[r] EXCEPT !.via = target] ELSE outbox[r]]
           rows == [n \in 1..Len(order) |-> NewRow(outbox[order[n]].inc, target,
                                                   outbox[order[n]].priority, order[n])]
<1>1. /\ Continue(w)
      /\ IF target = NoVia THEN UNCHANGED <<outbox, trace>> ELSE Insert(T, rows)
      /\ UNCHANGED <<breaker, outage, version, owed, shown, budget>>
  BY Zenon DEF FailOver
<1>2. target \in Channels \cup {NoVia}
  BY FailoverIsAvailable DEF Available
<1>3. moved \subseteq Rows /\ \A r \in moved : outbox[r].status = "pending"
  BY DEF IsPending
<1>4. order \in Seq(moved)
  <2>1. IsFiniteSet(moved)
    <3>1. Rows = 1..Len(outbox) /\ Len(outbox) \in Nat
      BY RowNumbers
    <3>2. IsFiniteSet(1..Len(outbox))
      BY <3>1, FS_Interval
    <3> QED BY <1>3, <3>1, <3>2, FS_Subset
  <2>2. \A r \in moved : outbox[r].priority \in Int
    <3>1. \A o \in Row : o.priority \in Int
      BY DEF Row, DigestPriority
    <3>2. \A r \in moved : outbox[r] \in Row
      BY <1>3, RowNumbers
    <3> QED BY <3>1, <3>2
  <2>3. moved \subseteq Nat
    BY <1>3, RowNumbers
  <2> HIDE DEF moved
  <2> QED BY <2>1, <2>2, <2>3, InOrderLists
<1> HIDE DEF target, moved, order
<1>5. Len(order) \in Nat /\ \A n \in 1..Len(order) : order[n] \in Rows
  BY <1>3, <1>4, LenProperties
<1>6. /\ outbox' \in Seq(Row) /\ trace' \in Seq(Trace) /\ Len(trace') = Len(outbox')
      /\ Grown /\ RowsCharged' /\ AllMarked(outbox') /\ Quiet
  <2>1. CASE target = NoVia
    <3>1. UNCHANGED <<outbox, trace>>
      BY <1>1, <2>1, Zenon
    <3> QED BY <3>1, TablesStay, TableQuiet
  <2>2. CASE target # NoVia
    <3>1. Insert(T, rows) /\ target \in Channels
      BY <1>1, <1>2, <2>2, Zenon
    <3>2. \A r \in Rows : /\ T[r] \in Row /\ SameIntent(outbox[r], T[r])
                          /\ T[r].attempts = outbox[r].attempts /\ T[r].status = outbox[r].status
                          /\ T[r].supersededBy = outbox[r].supersededBy
                          /\ T[r].status = "superseded" => T[r].via = outbox[r].via
      <4> SUFFICES ASSUME NEW r \in Rows
                   PROVE  /\ T[r] \in Row /\ SameIntent(outbox[r], T[r])
                          /\ T[r].attempts = outbox[r].attempts /\ T[r].status = outbox[r].status
                          /\ T[r].supersededBy = outbox[r].supersededBy
                          /\ T[r].status = "superseded" => T[r].via = outbox[r].via
        OBVIOUS
      <4>1. outbox[r] \in Row
        BY RowNumbers
      <4>2. CASE r \in moved
        <5>1. T[r] = [outbox[r] EXCEPT !.via = target] /\ outbox[r].status = "pending"
          BY <1>3, <4>2
        <5> HIDE DEF T
        <5> QED BY <2>2, <3>1, <4>1, <5>1 DEF Row, SameIntent
      <4>3. CASE r \notin moved
        <5>1. T[r] = outbox[r]
          BY <4>3
        <5> HIDE DEF T
        <5> QED BY <4>1, <5>1, Zenon DEF SameIntent
      <4> QED BY <4>2, <4>3
    <3>3. T \in Seq(Row) /\ Len(T) = Len(outbox) /\ DOMAIN T = Rows
      <4>1. T \in [Rows -> Row]
        BY <3>2
      <4>2. Rows = 1..Len(outbox) /\ Len(outbox) \in Nat
        BY RowNumbers
      <4> HIDE DEF T
      <4> QED BY <4>1, <4>2, FunctionIsSeq
    <3>4. AllMarked(T)
      <4> HIDE DEF T
      <4>1. DOMAIN outbox = Rows
        BY DEF Rows
      <4>2. Carries(outbox, T)
        BY <3>2, <3>3, <4>1, Zenon DEF Carries, NotReplaced
      <4> QED BY <4>2, CarriedMarks
    <3>5. /\ rows \in Seq(Row)
          /\ \A n \in 1..Len(rows) : rows[n].status = "pending" /\ rows[n].attempts = 0
      <4>1. \A r \in Rows : LET new == NewRow(outbox[r].inc, target, outbox[r].priority, r)
                            IN  new \in Row /\ new.status = "pending" /\ new.attempts = 0
        <5>1. \A r \in Rows : r \in Nat /\ outbox[r] \in Row
          BY RowNumbers
        <5> QED BY <3>1, <5>1 DEF NewRow, Row, NoVia
      <4>2. \A n \in 1..Len(order) : rows[n] \in Row /\ rows[n].status = "pending" /\ rows[n].attempts = 0
        BY <1>5, <4>1
      <4>3. rows \in [1..Len(order) -> Row]
        BY <4>2
      <4> HIDE DEF rows
      <4>4. rows \in Seq(Row) /\ Len(rows) = Len(order)
        BY <1>5, <4>3, FunctionIsSeq
      <4> QED BY <4>2, <4>4
    <3> HIDE DEF T, rows
    <3>6. \A r \in Rows : T[r].status \in {outbox[r].status, "superseded"}
      BY <3>2
    <3> QED BY <3>1, <3>2, <3>3, <3>4, <3>5, <3>6, RowsInserted
  <2> QED BY <2>1, <2>2
<1>7. PICK next \in Job : Become(w, next) /\ JobOK(next, outbox) /\ ChargesOK(next, trace)
  BY <1>1, Continued
<1>8. Types'
  BY <1>1, <1>6, <1>7 DEF Become, Types
<1>9. JobOK(next, outbox') /\ ChargesOK(next, trace')
  BY <1>6, <1>7, <1>8, JobsKept
<1>10. WorkersOK'
  BY <1>6, <1>7, <1>8, <1>9, WorkerMoves
<1> QED BY <1>6, <1>8, <1>10

LEMMA Invariant ==
    SafetySpec => []IInv
<1>1. Init => IInv
  <2> SUFFICES ASSUME Init PROVE IInv
    OBVIOUS
  <2>1. outbox = <<>> /\ trace = <<>> /\ Rows = {}
    BY DEF Init, Rows
  <2>2. Types
    <3>1. <<>> \in Seq(Row) /\ <<>> \in Seq(Trace) /\ Len(<<>>) = 0
      BY EmptySeq
    <3>2. Idle \in Job /\ Closed \in Breaker
      BY IdleJob DEF Closed, Breaker
    <3> QED BY <2>1, <3>1, <3>2 DEF Init, Types
  <2>3. WorkersOK
    <3>1. \A w \in Workers : worker[w] = Idle
      BY DEF Init
    <3>2. JobOK(Idle, outbox) /\ ChargesOK(Idle, trace)
      BY IdleJob, FreshJob
    <3> QED BY <3>1, <3>2, Zenon DEF WorkersOK
  <2>4. RowsCharged /\ AllMarked(outbox)
    BY <2>1 DEF RowsCharged, AllMarked, Rows
  <2> QED BY <2>2, <2>3, <2>4 DEF IInv
<1>2. IInv /\ [Next]_vars => IInv'
  <2> SUFFICES ASSUME IInv, [Next]_vars PROVE IInv'
    OBVIOUS
  <2>1. ASSUME NEW i \in Incidents, NEW chans \in SUBSET (Channels \ {"email"}), Notify(i, chans)
        PROVE  IInv'
    BY <2>1, NotifyInv
  <2>2. ASSUME NEW w \in Workers, Step(w) PROVE IInv'
    BY <2>2, ReadStatesInv, PollInv, RenderInv, MarkSentInv, RecordSuccessInv, RecordFailureInv,
       SettleInv, FailOverInv DEF Step
  <2>3. ASSUME NEW w \in Workers, Answer(w) PROVE IInv'
    BY <2>3, ProbeResultInv, AcceptInv, RejectInv DEF Answer
  <2>4. ASSUME NEW w \in Workers, Crash(w) PROVE IInv'
    BY <2>4, CrashInv
  <2>5. CASE Tick
    BY <2>5, TickInv
  <2>6. CASE UNCHANGED vars
    <3>1. UNCHANGED <<outbox, trace, worker, breaker, outage, version, owed, shown, budget>>
      BY <2>6 DEF vars
    <3>2. Grown /\ RowsCharged' /\ AllMarked(outbox')
      BY <3>1, TablesStay DEF IInv
    <3>3. Types'
      BY <3>1 DEF IInv, Types
    <3> QED BY <3>1, <3>2, <3>3, WorkersStay DEF IInv
  <2> QED BY <2>1, <2>2, <2>3, <2>4, <2>5, <2>6 DEF Next
<1> QED BY <1>1, <1>2, PTL DEF SafetySpec

\* The tables, the memory of the workers and the history keep their types,
\* whatever the workers, the providers and the crashes do.
THEOREM TypesAreKept ==
    SafetySpec => []TypeOK
<1>1. IInv => TypeOK
  <2> SUFFICES ASSUME IInv PROVE TypeOK
    OBVIOUS
  <2>1. \A r \in Rows : outbox[r] \in Row
    BY RowNumbers DEF IInv
  <2>2. DOMAIN trace = Rows
    BY RowNumbers DEF IInv
  <2>3. \A w \in Workers : /\ worker[w] \in Job /\ worker[w].row \in Rows \cup {0}
                           /\ \A job \in worker[w].batch : job.id \in Rows
    BY DEF IInv, Types, WorkersOK, JobOK, Rows
  <2> QED BY <2>1, <2>2, <2>3 DEF IInv, Types, TypeOK, Job
<1> QED BY <1>1, Invariant, PTL

\* _park never charges a row: a dead row was rejected for good or failed
\* transiently MaxAttempts times, however many workers wrote stale counts of
\* attempts over one another.
THEOREM OutagesKillNothing ==
    SafetySpec => []OutageKillsNothing
<1>1. IInv => OutageKillsNothing
  BY DEF IInv, RowsCharged, Charged, OutageKillsNothing
<1> QED BY <1>1, Invariant, PTL

\* coalesce_pending keeps the note that an incident was paged elsewhere.
THEOREM MarkersSurvive ==
    SafetySpec => []SupersededKeepsMarker
<1>1. IInv => SupersededKeepsMarker
  BY Zenon DEF IInv, AllMarked, Marked, SupersededKeepsMarker, Rows
<1> QED BY <1>1, Invariant, PTL

-------------------------------------------------------------------------------
(***************************************************************************)
(* One worker: the breakers.                                               *)
(***************************************************************************)
\* The one worker is the one that moves.
LEMMA ProbesStayOpen ==
    ASSUME OneWorker, Types, NEW w \in Workers, NEW job, Become(w, job),
           \A c \in job.probes : breaker'[c].state = "OPEN"
    PROVE  ProbesOpen'
<1> SUFFICES ASSUME NEW v \in Workers
             PROVE  \A c \in worker'[v].probes : breaker'[c].state = "OPEN"
  BY DEF ProbesOpen
<1>1. worker'[v] = job
  BY DEF OneWorker, Become, Types
<1> QED BY <1>1, Zenon

LEMMA TheWorkerMoves ==
    ASSUME OneWorker, Types, NEW w \in Workers, NEW job, Become(w, job)
    PROVE  \A v \in Workers : v = w /\ worker'[v] = job
<1>1. \A v \in Workers : v = w
  BY DEF OneWorker
<1>2. worker'[w] = job
  BY DEF Become, Types
<1> QED BY <1>1, <1>2, Zenon

LEMMA BreakersStay ==
    ASSUME OneWorker, Types, BInv, NEW w \in Workers, NEW job, Become(w, job),
           job.pc # "probing", UNCHANGED <<breaker, outage>>
    PROVE  BInv'
<1>1. ProbesOpen'
  BY TheWorkerMoves, Zenon DEF ProbesOpen
<1>2. OutageMatchesBreaker'
  BY Zenon DEF BInv, OutageMatchesBreaker
<1> QED BY <1>1, <1>2 DEF BInv

\* The state after a failure: an outage that is on record stays open.
LEMMA StateAfterFailure ==
    ASSUME NEW b \in Breaker, NEW hint
    PROVE  /\ b.state # "CLOSED" => AfterFailure(b, hint).state = "OPEN" /\ ~TripsOpen(b)
           /\ TripsOpen(b) => AfterFailure(b, hint).state = "OPEN"
           /\ b.state = "CLOSED" /\ ~TripsOpen(b) => AfterFailure(b, hint).state = "CLOSED"
<1> DEFINE d0 == ProbeDelay(0)
           d1 == ProbeDelay(b.step + 1)
           again == [state |-> "OPEN", failures |-> b.failures + 1, step |-> b.step + 1,
                     probeIn |-> d1]
           trip  == [state |-> "OPEN", failures |-> b.failures + 1, step |-> 0,
                     probeIn |-> IF hint > 0 THEN hint ELSE d0]
           count == [b EXCEPT !.failures = b.failures + 1]
<1>1. AfterFailure(b, hint) = CASE b.state \in {"OPEN", "HALF_OPEN"} -> again
                                [] TripsOpen(b) -> trip
                                [] OTHER -> count
  BY DEF AfterFailure
<1>2. again.state = "OPEN" /\ trip.state = "OPEN" /\ count.state = b.state
  <2> HIDE DEF d0, d1
  <2> QED BY DEF Breaker
<1>3. /\ b.state \in {"CLOSED", "OPEN", "HALF_OPEN"}
      /\ b.state # "CLOSED" => ~TripsOpen(b)
  BY DEF Breaker, TripsOpen
<1> HIDE DEF again, trip, count
<1> QED BY <1>1, <1>2, <1>3

LEMMA BreakerStep ==
    ASSUME OneWorker, IInv, BInv, [Next]_vars
    PROVE  BInv'
<1> USE DEF IInv
<1>0. \A c \in Channels : breaker[c] \in Breaker /\ outage[c] \in [open : BOOLEAN, number : Nat]
  BY DEF Types
<1>1. CASE UNCHANGED <<breaker, outage, worker>>
  <2>1. ProbesOpen' /\ OutageMatchesBreaker'
    BY <1>1, Zenon DEF BInv, ProbesOpen, OutageMatchesBreaker
  <2> QED BY <2>1 DEF BInv
<1>2. ASSUME NEW w \in Workers, ReadStates(w) PROVE BInv'
  <2> DEFINE due == {c \in Channels : ProbeDue(c)}
             job == [Idle EXCEPT !.pc = "probing", !.probes = due]
  <2>1. Become(w, job) /\ UNCHANGED <<breaker, outage>>
    BY <1>2 DEF ReadStates
  <2>2. job.probes = due
    BY DEF Idle
  <2>3. \A c \in due : breaker'[c].state = "OPEN"
    BY <2>1 DEF ProbeDue
  <2> HIDE DEF job, due
  <2>4. ProbesOpen'
    <3>1. \A c \in job.probes : breaker'[c].state = "OPEN"
      BY <2>2, <2>3, Zenon
    <3> QED BY <2>1, <3>1, ProbesStayOpen
  <2>5. OutageMatchesBreaker'
    BY <2>1, Zenon DEF BInv, OutageMatchesBreaker
  <2> QED BY <2>4, <2>5 DEF BInv
<1>3. ASSUME NEW w \in Workers, NEW c \in Channels, NEW healthy \in BOOLEAN,
             NEW eventful \in BOOLEAN, ProbeResult(w, c, healthy, eventful)
      PROVE  BInv'
  <2> DEFINE job == [worker[w] EXCEPT !.probes = @ \ {c}, !.elapsed = 0]
             new == AfterProbe(breaker[c], healthy)
  <2>1. /\ worker[w].pc = "probing" /\ c \in worker[w].probes /\ Become(w, job)
        /\ breaker' = [breaker EXCEPT ![c] = new] /\ UNCHANGED outage
    BY <1>3 DEF ProbeResult
  <2>2. breaker[c].state = "OPEN"
    BY <2>1 DEF BInv, ProbesOpen
  <2>3. new.state \in {"OPEN", "HALF_OPEN"}
    <3>1. breaker[c] \in Breaker
      BY <1>0
    <3>2. healthy => new.state = "HALF_OPEN"
      BY <3>1 DEF AfterProbe, Breaker
    <3> DEFINE n == ProbeDelay(breaker[c].step + 1)
    <3>3. ~healthy => new = [breaker[c] EXCEPT !.state = "OPEN", !.step = @ + 1, !.probeIn = n]
      BY DEF AfterProbe
    <3>4. [breaker[c] EXCEPT !.state = "OPEN", !.step = @ + 1, !.probeIn = n].state = "OPEN"
      <4> HIDE DEF n
      <4> QED BY <3>1 DEF Breaker
    <3> HIDE DEF n, new
    <3> QED BY <3>2, <3>3, <3>4, Zenon
  <2>4. job.probes = worker[w].probes \ {c}
    BY DEF Types, Job
  <2> HIDE DEF new, job
  <2>5. \A d \in Channels : breaker'[d] = IF d = c THEN new ELSE breaker[d]
    BY <2>1 DEF Types
  <2>6. \A d \in job.probes : breaker'[d].state = "OPEN"
    <3>1. \A d \in worker[w].probes : d \in Channels /\ breaker[d].state = "OPEN"
      BY <2>1 DEF BInv, ProbesOpen, Types, Job
    <3> QED BY <2>4, <2>5, <3>1
  <2>7. ProbesOpen'
    BY <2>1, <2>6, ProbesStayOpen
  <2>8. OutageMatchesBreaker'
    <3> SUFFICES ASSUME NEW d \in Channels
                 PROVE  outage'[d].open <=> breaker'[d].state # "CLOSED"
      BY DEF OutageMatchesBreaker
    <3>1. outage[d].open <=> breaker[d].state # "CLOSED"
      BY DEF BInv, OutageMatchesBreaker
    <3>2. breaker'[d].state # "CLOSED" <=> breaker[d].state # "CLOSED"
      BY <2>2, <2>3, <2>5
    <3> QED BY <2>1, <3>1, <3>2, Zenon
  <2> QED BY <2>7, <2>8 DEF BInv
<1>4. ASSUME NEW w \in Workers, Poll(w) PROVE BInv'
  <2>1. PICK job \in Job : Become(w, job) /\ job.pc \in {"asleep", "draining"}
    BY <1>4, PollInv
  <2>2. UNCHANGED <<breaker, outage>>
    BY <1>4 DEF Poll
  <2> QED BY <2>1, <2>2, BreakersStay
<1>5. ASSUME NEW w \in Workers, Render(w) PROVE BInv'
  <2>1. PICK b \in worker[w].batch :
          Become(w, [Idle EXCEPT !.pc = "calling", !.row = b.id, !.attempts = b.attempts,
                                 !.batch = worker[w].batch \ {b},
                                 !.rendered = IF IsDigest(b.id) THEN 0
                                              ELSE version[outbox[b.id].inc]])
    BY <1>5 DEF Render
  <2> DEFINE v == IF IsDigest(b.id) THEN 0 ELSE version[outbox[b.id].inc]
             job == [Idle EXCEPT !.pc = "calling", !.row = b.id, !.attempts = b.attempts,
                                 !.batch = worker[w].batch \ {b}, !.rendered = v]
  <2>2. Become(w, job) /\ UNCHANGED <<breaker, outage>>
    BY <1>5, <2>1 DEF Render
  <2>3. job.pc = "calling"
    BY DEF Idle
  <2> HIDE DEF job
  <2> QED BY <2>2, <2>3, BreakersStay
<1>6. ASSUME NEW w \in Workers, Accept(w) PROVE BInv'
  <2> DEFINE job == [worker[w] EXCEPT !.pc = "accepted"]
  <2>1. Become(w, job) /\ UNCHANGED <<breaker, outage>>
    BY <1>6 DEF Accept
  <2>2. job.pc = "accepted"
    BY DEF Types, Job
  <2> HIDE DEF job
  <2> QED BY <2>1, <2>2, BreakersStay
<1>7. ASSUME NEW w \in Workers, NEW verdict \in Verdicts, NEW hint \in Hints,
             NEW delivered \in BOOLEAN, Reject(w, verdict, hint, delivered)
      PROVE  BInv'
  <2> DEFINE job == [worker[w] EXCEPT !.pc = "rejected", !.verdict = verdict, !.hint = hint]
  <2>1. Become(w, job) /\ UNCHANGED <<breaker, outage>>
    BY <1>7 DEF Reject
  <2>2. job.pc = "rejected"
    BY DEF Types, Job
  <2> HIDE DEF job
  <2> QED BY <2>1, <2>2, BreakersStay
<1>8. ASSUME NEW w \in Workers, MarkSent(w) PROVE BInv'
  <2> DEFINE job == [worker[w] EXCEPT !.pc = "marked"]
  <2>1. Become(w, job) /\ UNCHANGED <<breaker, outage>>
    BY <1>8 DEF MarkSent
  <2>2. job.pc = "marked"
    BY DEF Types, Job
  <2> HIDE DEF job
  <2> QED BY <2>1, <2>2, BreakersStay
<1>9. ASSUME NEW w \in Workers, Crash(w) PROVE BInv'
  <2>1. Become(w, Idle) /\ UNCHANGED <<breaker, outage>>
    BY <1>9 DEF Crash
  <2> QED BY <2>1, IdleJob, BreakersStay
<1>10. ASSUME NEW w \in Workers, Settle(w) PROVE BInv'
  <2>1. UNCHANGED <<breaker, outage>>
    BY <1>10 DEF Settle
  <2> DEFINE job == [worker[w] EXCEPT !.pc = "failingOver"]
  <2>2. Become(w, job) \/ Continue(w)
    BY <1>10, Zenon DEF Settle
  <2>3. job.pc = "failingOver"
    BY DEF Types, Job
  <2> HIDE DEF job
  <2>4. CASE Become(w, job)
    BY <2>1, <2>3, <2>4, BreakersStay
  <2>5. CASE Continue(w)
    <3>1. PICK next \in Job : Become(w, next) /\ next.pc \in {"asleep", "draining"}
      BY <2>5, Continued
    <3> QED BY <2>1, <3>1, BreakersStay
  <2> QED BY <2>2, <2>4, <2>5
<1>11. ASSUME NEW w \in Workers, FailOver(w) PROVE BInv'
  <2>1. Continue(w) /\ UNCHANGED <<breaker, outage>>
    BY <1>11, Zenon DEF FailOver
  <2>2. PICK next \in Job : Become(w, next) /\ next.pc \in {"asleep", "draining"}
    BY <2>1, Continued
  <2> QED BY <2>1, <2>2, BreakersStay
<1>12. ASSUME NEW w \in Workers, RecordSuccess(w) PROVE BInv'
  <2> DEFINE c == outbox[worker[w].row].chan
  <2>1. /\ worker[w].pc = "marked" /\ Continue(w) /\ breaker' = [breaker EXCEPT ![c] = Closed]
        /\ outage' = IF Recovers(c) THEN [outage EXCEPT ![c].open = FALSE] ELSE outage
    BY <1>12 DEF RecordSuccess
  <2>2. PICK next \in Job : Become(w, next) /\ next.pc \in {"asleep", "draining"}
    BY <2>1, Continued
  <2>3. ProbesOpen'
    <3>1. next.pc # "probing"
      BY <2>2
    <3> QED BY <2>2, <3>1, TheWorkerMoves, Zenon DEF ProbesOpen
  <2>4. c \in Channels
    BY <2>1, RowNumbers DEF WorkersOK, JobOK, Holding, Rows, Row
  <2>5. Recovers(c) <=> breaker[c].state # "CLOSED"
    BY <1>0, <2>4 DEF Recovers, Breaker
  <2> HIDE DEF c
  <2>6. breaker'[c].state = "CLOSED" /\ \A d \in Channels \ {c} : breaker'[d] = breaker[d]
    BY <2>1, <2>4 DEF Types, Closed
  <2>7. ~outage'[c].open /\ \A d \in Channels \ {c} : outage'[d] = outage[d]
    <3>1. CASE Recovers(c)
      <4>1. outage' = [outage EXCEPT ![c].open = FALSE]
        BY <2>1, <3>1
      <4> QED BY <2>4, <4>1 DEF Types
    <3>2. CASE ~Recovers(c)
      <4>1. outage' = outage
        BY <2>1, <3>2
      <4>2. ~outage[c].open
        BY <2>4, <2>5, <3>2, Zenon DEF BInv, OutageMatchesBreaker
      <4> QED BY <4>1, <4>2, Zenon
    <3> QED BY <3>1, <3>2
  <2>8. OutageMatchesBreaker'
    <3> SUFFICES ASSUME NEW d \in Channels
                 PROVE  outage'[d].open <=> breaker'[d].state # "CLOSED"
      BY DEF OutageMatchesBreaker
    <3>1. outage[d].open <=> breaker[d].state # "CLOSED"
      BY DEF BInv, OutageMatchesBreaker
    <3>2. CASE d = c
      BY <2>6, <2>7, <3>2, Zenon
    <3>3. CASE d # c
      BY <2>6, <2>7, <3>1, <3>3, Zenon
    <3> QED BY <3>2, <3>3
  <2> QED BY <2>3, <2>8 DEF BInv
<1>13. ASSUME NEW w \in Workers, RecordFailure(w) PROVE BInv'
  <2> DEFINE c == outbox[worker[w].row].chan
             down == worker[w].verdict = "down"
             new == down /\ TripsOpen(breaker[c])
             wait == IF breaker'[c].state = "OPEN" THEN breaker'[c].probeIn ELSE ParkDelay
             job == [worker[w] EXCEPT !.pc = "settling", !.newlyDown = new, !.parkFor = wait]
             after == AfterFailure(breaker[c], worker[w].hint)
  <2>1. /\ worker[w].pc = "rejected" /\ Become(w, job)
        /\ breaker' = IF down THEN [breaker EXCEPT ![c] = after] ELSE breaker
        /\ outage' = IF new THEN [outage EXCEPT ![c] = [open |-> TRUE, number |-> @.number + 1]]
                            ELSE outage
    BY <1>13 DEF RecordFailure
  <2>2. c \in Channels
    BY <2>1, RowNumbers DEF WorkersOK, JobOK, Holding, Rows, Row
  <2>3. job.pc = "settling"
    BY DEF Types, Job
  <2>4. /\ breaker[c].state # "CLOSED" => after.state = "OPEN" /\ ~TripsOpen(breaker[c])
        /\ TripsOpen(breaker[c]) => after.state = "OPEN"
        /\ breaker[c].state = "CLOSED" /\ ~TripsOpen(breaker[c]) => after.state = "CLOSED"
    BY <1>0, <2>2, StateAfterFailure
  <2> HIDE DEF job, after, c, wait
  <2>5. ProbesOpen'
    <3>1. job.pc # "probing"
      BY <2>3
    <3> QED BY <2>1, <3>1, TheWorkerMoves, Zenon DEF ProbesOpen
  <2>6. \A d \in Channels : breaker'[d] = IF down /\ d = c THEN after ELSE breaker[d]
    BY <2>1 DEF Types
  <2>7. CASE new
    <3>1. outage'[c].open /\ \A d \in Channels \ {c} : outage'[d] = outage[d]
      BY <2>1, <2>2, <2>7 DEF Types
    <3>2. breaker'[c].state # "CLOSED" /\ \A d \in Channels \ {c} : breaker'[d] = breaker[d]
      BY <2>2, <2>4, <2>6, <2>7
    <3>3. OutageMatchesBreaker'
      <4> SUFFICES ASSUME NEW d \in Channels
                   PROVE  outage'[d].open <=> breaker'[d].state # "CLOSED"
        BY DEF OutageMatchesBreaker
      <4>1. outage[d].open <=> breaker[d].state # "CLOSED"
        BY DEF BInv, OutageMatchesBreaker
      <4>2. CASE d = c
        BY <3>1, <3>2, <4>2, Zenon
      <4>3. CASE d # c
        BY <3>1, <3>2, <4>1, <4>3, Zenon
      <4> QED BY <4>2, <4>3
    <3> QED BY <2>5, <3>3 DEF BInv
  <2>8. CASE ~new
    <3>1. outage' = outage
      BY <2>1, <2>8, Zenon
    <3>2. \A d \in Channels : breaker'[d].state # "CLOSED" <=> breaker[d].state # "CLOSED"
      BY <2>4, <2>6, <2>8
    <3>3. OutageMatchesBreaker'
      BY <3>1, <3>2, Zenon DEF BInv, OutageMatchesBreaker
    <3> QED BY <2>5, <3>3 DEF BInv
  <2> QED BY <2>7, <2>8
<1>14. CASE Tick
  <2>1. /\ breaker' = [c \in Channels |-> [breaker[c] EXCEPT !.probeIn = Countdown(@)]]
        /\ worker' = [w \in Workers |->
              IF worker[w].pc = "asleep" THEN [worker[w] EXCEPT !.pc = "awake"]
                                         ELSE [worker[w] EXCEPT !.elapsed = @ + 1]]
        /\ outage' = outage
    BY <1>14 DEF Tick
  <2>2. \A c \in Channels : breaker'[c].state = breaker[c].state
    BY <1>0, <2>1 DEF Breaker
  <2>3. \A w \in Workers : worker'[w].pc = "probing" =>
            /\ worker[w].pc = "probing" /\ worker'[w].probes = worker[w].probes
            /\ worker[w].probes \subseteq Channels
    BY <2>1 DEF Types, Job
  <2>4. ProbesOpen'
    BY <2>2, <2>3 DEF BInv, ProbesOpen
  <2>5. OutageMatchesBreaker'
    BY <2>1, <2>2, Zenon DEF BInv, OutageMatchesBreaker
  <2> QED BY <2>4, <2>5 DEF BInv
<1>15. ASSUME NEW i \in Incidents, NEW chans \in SUBSET (Channels \ {"email"}), Notify(i, chans)
       PROVE  BInv'
  BY <1>1, <1>15 DEF Notify
<1>16. CASE UNCHANGED vars
  BY <1>1, <1>16 DEF vars
<1>17. ASSUME NEW w \in Workers, Step(w) PROVE BInv'
  BY <1>17, <1>2, <1>4, <1>5, <1>8, <1>10, <1>11, <1>12, <1>13 DEF Step
<1>18. ASSUME NEW w \in Workers, Answer(w) PROVE BInv'
  BY <1>18, <1>3, <1>6, <1>7 DEF Answer
<1> QED BY <1>9, <1>14, <1>15, <1>16, <1>17, <1>18 DEF Next

-------------------------------------------------------------------------------
(***************************************************************************)
(* One worker: the messages.                                               *)
(***************************************************************************)
\* A row that is the newest of its intent was the newest before.
LEMMA NewestBefore ==
    ASSUME Types, Quiet, NEW r \in Rows
    PROVE  /\ outbox'[r].inc = outbox[r].inc /\ outbox'[r].chan = outbox[r].chan
           /\ IsNewest(r, outbox') => IsNewest(r, outbox)
<1>1. /\ Rows \subseteq Rows' /\ Rows = DOMAIN outbox /\ Rows' = DOMAIN outbox'
      /\ \A q \in Rows : outbox'[q].inc = outbox[q].inc /\ outbox'[q].chan = outbox[q].chan
  BY DEF Quiet, Rows
<1>2. ASSUME IsNewest(r, outbox'), NEW o \in Rows,
             outbox[o].inc = outbox[r].inc, outbox[o].chan = outbox[r].chan
      PROVE  o <= r
  <2>1. /\ o \in DOMAIN outbox' /\ outbox'[o].inc = outbox'[r].inc
        /\ outbox'[o].chan = outbox'[r].chan
    BY <1>1, <1>2
  <2> QED BY <1>2, <2>1, Zenon DEF IsNewest
<1> QED BY <1>1, <1>2, Zenon DEF IsNewest

LEMMA VersionTypes ==
    ASSUME Types
    PROVE  \A i \in Incidents, c \in Channels : /\ version[i] \in Nat
                                                /\ owed[i][c] \in Nat /\ shown[i][c] \in Nat
<1>1. /\ version \in [Incidents -> Nat] /\ owed \in [Incidents -> [Channels -> Nat]]
      /\ shown \in [Incidents -> [Channels -> Nat]]
  BY DEF Types
<1> QED BY <1>1

\* Nothing is promised, rendered, shown or sent.
LEMMA MessagesStay ==
    ASSUME Types, PromisesOK, NewestSentShows, Quiet, UNCHANGED <<version, owed, shown>>
    PROVE  PromisesOK' /\ NewestSentShows'
<1>1. PromisesOK'
  <2> SUFFICES ASSUME NEW i \in Incidents, NEW c \in Channels
               PROVE  /\ owed'[i][c] <= version'[i] /\ shown'[i][c] <= version'[i]
                      /\ owed'[i][c] > 0 => \E r \in Rows' : outbox'[r].inc = i /\ outbox'[r].chan = c
    BY DEF PromisesOK
  <2>1. /\ owed[i][c] <= version[i] /\ shown[i][c] <= version[i]
        /\ owed[i][c] > 0 => \E r \in Rows : outbox[r].inc = i /\ outbox[r].chan = c
    BY DEF PromisesOK
  <2>2. \A r \in Rows : r \in Rows' /\ outbox'[r].inc = outbox[r].inc /\ outbox'[r].chan = outbox[r].chan
    BY DEF Quiet
  <2> QED BY <2>1, <2>2, Zenon
<1>2. NewestSentShows'
  <2> SUFFICES ASSUME NEW r \in Rows', outbox'[r].status = "sent"
               PROVE  SentShows(r, outbox', shown', owed')
    BY DEF NewestSentShows, SentShows
  <2>1. r \in Rows /\ outbox[r].status = "sent"
    BY DEF Quiet
  <2>2. SentShows(r, outbox, shown, owed)
    BY <2>1 DEF NewestSentShows
  <2>3. /\ outbox'[r].inc = outbox[r].inc /\ outbox'[r].chan = outbox[r].chan
        /\ IsNewest(r, outbox') => IsNewest(r, outbox)
    BY <2>1, NewestBefore
  <2> QED BY <2>1, <2>2, <2>3, Zenon DEF SentShows
<1> QED BY <1>1, <1>2

\* A message in flight stays in flight, or nothing is in flight.
LEMMA FlightStays ==
    ASSUME Types, Quiet, UNCHANGED <<version, owed, shown>>, NEW job, NEW next,
           FlightOK(job, outbox, version, shown, owed),
           next.pc \in {"calling", "accepted"} =>
              /\ next.pc = job.pc /\ next.row = job.row /\ next.rendered = job.rendered
              /\ job.row \in Rows
    PROVE  FlightOK(next, outbox', version', shown', owed')
<1> SUFFICES ASSUME next.pc \in {"calling", "accepted"}
             PROVE  FlightOK(next, outbox', version', shown', owed')
  BY DEF FlightOK
<1>1. /\ outbox'[job.row].inc = outbox[job.row].inc /\ outbox'[job.row].chan = outbox[job.row].chan
      /\ IsNewest(job.row, outbox') => IsNewest(job.row, outbox)
  BY NewestBefore
<1> QED BY <1>1, Zenon DEF FlightOK

\* The one worker moves on to a job with nothing in flight.
LEMMA Landed ==
    ASSUME OneWorker, Types, NEW w \in Workers, NEW job, Become(w, job),
           job.pc \notin {"calling", "accepted"}
    PROVE  FlightsOK'
BY TheWorkerMoves, Zenon DEF FlightsOK, FlightOK

LEMMA NotifyMessages ==
    ASSUME OneWorker, IInv, MInv, NEW i \in Incidents, NEW chans \in SUBSET Channels,
           Notify(i, chans)
    PROVE  MInv'
<1> USE DEF IInv, MInv
<1>1. /\ IInv' /\ Rows \subseteq Rows'
      /\ \A r \in Rows : outbox'[r] = outbox[r]
      /\ \A r \in Rows' \ Rows : outbox'[r].status = "pending" /\ outbox'[r].inc = i
      /\ \A c \in chans : \E r \in Rows' \ Rows : outbox'[r].inc = i /\ outbox'[r].chan = c
  BY NotifyInv
<1>2. /\ version' = [version EXCEPT ![i] = @ + 1]
      /\ owed' = [owed EXCEPT ![i] = [c \in Channels |->
                                         IF c \in chans THEN version'[i] ELSE @[c]]]
      /\ UNCHANGED <<worker, shown>>
  BY DEF Notify
<1>3. \A j \in Incidents : /\ version'[j] \in Nat /\ version[j] \in Nat /\ version[j] <= version'[j]
  <2>1. version \in [Incidents -> Nat]
    BY DEF Types
  <2>2. version' = [version EXCEPT ![i] = version[i] + 1]
    BY <1>2
  <2> QED BY <2>1, <2>2
<1>4. \A j \in Incidents, c \in Channels :
          owed'[j][c] = IF j = i /\ c \in chans THEN version'[i] ELSE owed[j][c]
  BY <1>2 DEF Types
<1>5. Quiet
  <2>1. \A q \in Rows' : outbox'[q].status = "sent" => q \in Rows
    BY <1>1
  <2> QED BY <1>1, <2>1, Zenon DEF Quiet
<1>6. \A r \in Rows : IsNewest(r, outbox') =>
          ~(outbox[r].inc = i /\ outbox[r].chan \in chans)
  <2> SUFFICES ASSUME NEW r \in Rows, IsNewest(r, outbox'),
                      outbox[r].inc = i, outbox[r].chan \in chans
               PROVE  FALSE
    OBVIOUS
  <2>1. PICK o \in Rows' \ Rows : outbox'[o].inc = i /\ outbox'[o].chan = outbox[r].chan
    BY <1>1
  <2>2. outbox'[r] = outbox[r] /\ o \in DOMAIN outbox'
    BY <1>1 DEF Rows
  <2>3. o <= r
    BY <2>1, <2>2, Zenon DEF IsNewest
  <2>4. o \in Nat /\ o >= 1 /\ o \notin 1..Len(outbox) /\ r \in 1..Len(outbox) /\ Len(outbox) \in Nat
    <3>1. Rows = 1..Len(outbox) /\ Len(outbox) \in Nat
      BY RowNumbers
    <3>2. outbox' \in Seq(Row)
      BY <1>1 DEF Types
    <3>3. Rows' = 1..Len(outbox') /\ Len(outbox') \in Nat
      BY <3>2, LenProperties DEF Rows
    <3>4. o \in Rows' /\ o \notin Rows /\ r \in Rows
      BY <2>1
    <3> QED BY <3>1, <3>3, <3>4
  <2> QED BY <2>3, <2>4
<1>7. PromisesOK'
  <2> SUFFICES ASSUME NEW j \in Incidents, NEW c \in Channels
               PROVE  /\ owed'[j][c] <= version'[j] /\ shown'[j][c] <= version'[j]
                      /\ owed'[j][c] > 0 => \E r \in Rows' : outbox'[r].inc = j /\ outbox'[r].chan = c
    BY DEF PromisesOK
  <2>1. /\ owed[j][c] <= version[j] /\ shown[j][c] <= version[j]
        /\ owed[j][c] > 0 => \E r \in Rows : outbox[r].inc = j /\ outbox[r].chan = c
    BY DEF PromisesOK
  <2>2. owed[j][c] \in Nat /\ shown[j][c] \in Nat
    BY VersionTypes
  <2>3. owed'[j][c] <= version'[j] /\ shown'[j][c] <= version'[j]
    BY <1>2, <1>3, <1>4, <2>1, <2>2
  <2>4. CASE j = i /\ c \in chans
    BY <1>1, <2>3, <2>4
  <2>5. CASE ~(j = i /\ c \in chans)
    <3>1. owed'[j][c] = owed[j][c]
      BY <1>4, <2>5
    <3>2. \A r \in Rows : r \in Rows' /\ outbox'[r] = outbox[r]
      BY <1>1
    <3> QED BY <2>1, <2>3, <3>1, <3>2, Zenon
  <2> QED BY <2>4, <2>5
<1>8. NewestSentShows'
  <2> SUFFICES ASSUME NEW r \in Rows', outbox'[r].status = "sent", IsNewest(r, outbox'),
                      outbox'[r].inc \in Incidents
               PROVE  SentShows(r, outbox', shown', owed')
    BY DEF NewestSentShows, SentShows
  <2>1. r \in Rows /\ outbox[r].status = "sent" /\ outbox'[r] = outbox[r]
    BY <1>1, <1>5 DEF Quiet
  <2>2. SentShows(r, outbox, shown, owed) /\ IsNewest(r, outbox) /\ outbox[r] \in Row
    BY <1>5, <2>1, NewestBefore, RowNumbers DEF NewestSentShows
  <2>3. owed'[outbox[r].inc][outbox[r].chan] = owed[outbox[r].inc][outbox[r].chan]
    BY <1>4, <1>6, <2>1, <2>2 DEF Row
  <2> QED BY <1>2, <2>1, <2>2, <2>3, Zenon DEF SentShows
<1>9. FlightsOK'
  <2> SUFFICES ASSUME NEW w \in Workers, worker[w].pc \in {"calling", "accepted"},
                      outbox'[worker[w].row].inc \in Incidents
               PROVE  FlightOK(worker[w], outbox', version', shown', owed')
    BY <1>2 DEF FlightsOK, FlightOK
  <2> DEFINE r == worker[w].row
             j == outbox[r].inc
             c == outbox[r].chan
  <2>1. r \in Rows /\ outbox'[r] = outbox[r] /\ outbox[r] \in Row /\ worker[w].rendered \in Nat
    BY <1>1, RowNumbers DEF WorkersOK, JobOK, Holding, Rows, Types, Job
  <2>2. j \in Incidents /\ c \in Channels
    BY <2>1 DEF Row
  <2>3. FlightOK(worker[w], outbox, version, shown, owed)
    BY DEF FlightsOK
  <2>4. /\ worker[w].rendered <= version[j]
        /\ worker[w].pc = "calling" => shown[j][c] <= worker[w].rendered
        /\ worker[w].pc = "accepted" => shown[j][c] = worker[w].rendered
        /\ IsNewest(r, outbox) => owed[j][c] <= worker[w].rendered
    BY <2>2, <2>3, Zenon DEF FlightOK
  <2>5. worker[w].rendered <= version'[j]
    <3> DEFINE n == worker[w].rendered
    <3>1. version[j] \in Nat /\ version'[j] \in Nat /\ version[j] <= version'[j]
      BY <1>3, <2>2
    <3>2. n \in Nat /\ n <= version[j]
      BY <2>1, <2>4
    <3> HIDE DEF j, n
    <3>3. n <= version'[j]
      BY <3>1, <3>2
    <3> QED BY <3>3 DEF n
  <2>6. IsNewest(r, outbox') => owed'[j][c] <= worker[w].rendered
    <3> SUFFICES ASSUME IsNewest(r, outbox') PROVE owed'[j][c] <= worker[w].rendered
      OBVIOUS
    <3>1. owed'[j][c] = owed[j][c]
      BY <1>4, <1>6, <2>1, <2>2
    <3>2. IsNewest(r, outbox)
      BY <1>5, <2>1, NewestBefore
    <3> QED BY <2>4, <3>1, <3>2
  <2> QED BY <1>2, <2>1, <2>4, <2>5, <2>6, Zenon DEF FlightOK
<1> QED BY <1>7, <1>8, <1>9

LEMMA RenderMessages ==
    ASSUME OneWorker, IInv, MInv, NEW w \in Workers, Render(w)
    PROVE  MInv'
<1> USE DEF IInv, MInv
<1>1. PICK b \in worker[w].batch :
          Become(w, [Idle EXCEPT !.pc = "calling", !.row = b.id, !.attempts = b.attempts,
                                 !.batch = worker[w].batch \ {b},
                                 !.rendered = IF IsDigest(b.id) THEN 0
                                              ELSE version[outbox[b.id].inc]])
  BY DEF Render
<1> DEFINE v == IF IsDigest(b.id) THEN 0 ELSE version[outbox[b.id].inc]
           job == [Idle EXCEPT !.pc = "calling", !.row = b.id, !.attempts = b.attempts,
                               !.batch = worker[w].batch \ {b}, !.rendered = v]
<1>2. Become(w, job)
  BY <1>1
<1>3. job.pc = "calling" /\ job.row = b.id /\ job.rendered = v
  <2> HIDE DEF v
  <2> QED BY DEF Idle
<1>4. b.id \in Rows /\ outbox[b.id] \in Row
  BY RowNumbers DEF WorkersOK, JobOK, Rows
<1>5. UNCHANGED <<outbox, version, owed, shown>>
  BY DEF Render
<1>6. PromisesOK' /\ NewestSentShows'
  BY <1>5, TableQuiet, MessagesStay
<1>7. outbox[b.id].inc \in Incidents => v = version[outbox[b.id].inc] /\ v \in Nat
  BY DEF IsDigest, Types
<1>8. \A i \in Incidents, c \in Channels : owed[i][c] <= version[i] /\ shown[i][c] <= version[i]
  BY DEF PromisesOK
<1>9. outbox[b.id].chan \in Channels
  BY <1>4 DEF Row
<1> HIDE DEF job, v
<1>10. FlightOK(job, outbox, version, shown, owed)
  <2>1. version \in [Incidents -> Nat]
    BY DEF Types
  <2>2. \A i \in Incidents : version[i] <= version[i]
    BY <2>1
  <2> QED BY <1>3, <1>7, <1>8, <1>9, <2>2 DEF FlightOK
<1>11. \A u \in Workers : worker'[u] = job
  BY <1>2, TheWorkerMoves
<1>12. FlightsOK'
  BY <1>5, <1>10, <1>11, Zenon DEF FlightsOK
<1> QED BY <1>6, <1>12

\* What is delivered is at least as new as what was shown.
LEMMA DeliverMessages ==
    ASSUME OneWorker, IInv, MInv, NEW w \in Workers, worker[w].pc = "calling", Deliver(w),
           UNCHANGED <<outbox, version, owed>>
    PROVE  /\ PromisesOK' /\ NewestSentShows'
           /\ outbox[worker[w].row].inc \in Incidents =>
                 shown'[outbox[worker[w].row].inc][outbox[worker[w].row].chan] = worker[w].rendered
<1> USE DEF IInv, MInv
<1> DEFINE r == worker[w].row
           i == outbox[r].inc
           c == outbox[r].chan
<1>1. r \in Rows /\ outbox[r] \in Row /\ worker[w].rendered \in Nat
  BY RowNumbers DEF WorkersOK, JobOK, Holding, Rows, Types, Job
<1>2. c \in Channels
  BY <1>1 DEF Row
<1>3. CASE i \notin Incidents
  <2>1. shown' = shown
    BY <1>3 DEF Deliver, IsDigest
  <2> QED BY <1>3, <2>1, TableQuiet, MessagesStay
<1>4. CASE i \in Incidents
  <2>1. shown' = [shown EXCEPT ![i][c] = worker[w].rendered]
    BY <1>4 DEF Deliver, IsDigest
  <2>2. FlightOK(worker[w], outbox, version, shown, owed)
    BY DEF FlightsOK
  <2>3. worker[w].rendered <= version[i] /\ shown[i][c] <= worker[w].rendered
    BY <1>4, <2>2, Zenon DEF FlightOK
  <2> HIDE DEF i, c
  <2>4. \A j \in Incidents, d \in Channels :
            shown'[j][d] = IF j = i /\ d = c THEN worker[w].rendered ELSE shown[j][d]
    BY <1>2, <1>4, <2>1 DEF Types
  <2>5. \A j \in Incidents, d \in Channels : shown[j][d] <= shown'[j][d] /\ shown'[j][d] \in Nat
    <3>1. \A j \in Incidents, d \in Channels : shown[j][d] \in Nat
      BY VersionTypes
    <3> QED BY <1>1, <2>3, <2>4, <3>1
  <2>6. PromisesOK'
    <3> SUFFICES ASSUME NEW j \in Incidents, NEW d \in Channels
                 PROVE  /\ owed'[j][d] <= version'[j] /\ shown'[j][d] <= version'[j]
                        /\ owed'[j][d] > 0 => \E q \in Rows' : outbox'[q].inc = j /\ outbox'[q].chan = d
      BY DEF PromisesOK
    <3>1. /\ owed[j][d] <= version[j] /\ shown[j][d] <= version[j]
          /\ owed[j][d] > 0 => \E q \in Rows : outbox[q].inc = j /\ outbox[q].chan = d
      BY DEF PromisesOK
    <3>2. shown'[j][d] <= version[j]
      BY <2>3, <2>4, <3>1
    <3> QED BY <3>1, <3>2, Zenon DEF Rows
  <2>7. NewestSentShows'
    <3> SUFFICES ASSUME NEW q \in Rows, outbox[q].status = "sent", outbox[q].inc \in Incidents,
                        IsNewest(q, outbox)
                 PROVE  owed[outbox[q].inc][outbox[q].chan] <= shown'[outbox[q].inc][outbox[q].chan]
      BY Zenon DEF NewestSentShows, SentShows, Rows
    <3> DEFINE j == outbox[q].inc
               d == outbox[q].chan
    <3>1. owed[j][d] <= shown[j][d]
      BY Zenon DEF NewestSentShows, SentShows
    <3>2. j \in Incidents /\ d \in Channels
      BY RowNumbers DEF Row
    <3> HIDE DEF j, d
    <3>3. owed[j][d] \in Nat /\ shown[j][d] \in Nat
      BY <3>2, VersionTypes
    <3>4. owed[j][d] <= shown'[j][d]
      BY <2>5, <3>1, <3>2, <3>3
    <3> QED BY <3>4 DEF j, d
  <2>8. shown'[i][c] = worker[w].rendered
    BY <1>2, <1>4, <2>4
  <2> QED BY <2>6, <2>7, <2>8 DEF i, c
<1> QED BY <1>3, <1>4

LEMMA AcceptMessages ==
    ASSUME OneWorker, IInv, MInv, NEW w \in Workers, Accept(w)
    PROVE  MInv'
<1> USE DEF IInv, MInv
<1> DEFINE job == [worker[w] EXCEPT !.pc = "accepted"]
           i == outbox[worker[w].row].inc
           c == outbox[worker[w].row].chan
<1>1. /\ worker[w].pc = "calling" /\ Deliver(w) /\ Become(w, job)
      /\ UNCHANGED <<outbox, version, owed>>
  BY DEF Accept
<1>2. /\ PromisesOK' /\ NewestSentShows'
      /\ i \in Incidents => shown'[i][c] = worker[w].rendered
  BY <1>1, DeliverMessages
<1>3. job.pc = "accepted" /\ job.row = worker[w].row /\ job.rendered = worker[w].rendered
  BY DEF Types, Job
<1>4. FlightOK(worker[w], outbox, version, shown, owed)
  BY DEF FlightsOK
<1> HIDE DEF job
<1>5. FlightOK(job, outbox, version, shown', owed)
  BY <1>1, <1>2, <1>3, <1>4, Zenon DEF FlightOK
<1>6. \A u \in Workers : worker'[u] = job
  BY <1>1, TheWorkerMoves
<1>7. FlightsOK'
  BY <1>1, <1>5, <1>6, Zenon DEF FlightsOK
<1> QED BY <1>2, <1>7

LEMMA RejectMessages ==
    ASSUME OneWorker, IInv, MInv, NEW w \in Workers, NEW verdict \in Verdicts, NEW hint \in Hints,
           NEW delivered \in BOOLEAN, Reject(w, verdict, hint, delivered)
    PROVE  MInv'
<1> USE DEF IInv, MInv
<1> DEFINE job == [worker[w] EXCEPT !.pc = "rejected", !.verdict = verdict, !.hint = hint]
<1>1. worker[w].pc = "calling" /\ Become(w, job) /\ UNCHANGED <<outbox, version, owed>>
  BY DEF Reject
<1>2. Deliver(w) \/ UNCHANGED shown
  BY Zenon DEF Reject
<1>3. PromisesOK' /\ NewestSentShows'
  BY <1>1, <1>2, DeliverMessages, TableQuiet, MessagesStay
<1>4. job.pc = "rejected"
  BY DEF Types, Job
<1> HIDE DEF job
<1>5. FlightsOK'
  BY <1>1, <1>4, Landed
<1> QED BY <1>3, <1>5

LEMMA MarkSentMessages ==
    ASSUME OneWorker, IInv, MInv, NEW w \in Workers, MarkSent(w)
    PROVE  MInv'
<1> USE DEF IInv, MInv
<1> DEFINE job == [worker[w] EXCEPT !.pc = "marked"]
           r == worker[w].row
<1>1. /\ worker[w].pc = "accepted" /\ Become(w, job)
      /\ UNCHANGED <<version, owed, shown>>
  BY DEF MarkSent
<1>2. /\ Rows' = Rows /\ r \in Rows
      /\ \A q \in Rows : /\ SameIntent(outbox[q], outbox'[q])
                         /\ q # r => outbox'[q].status = outbox[q].status
  BY MarkSentInv
<1>3. \A q \in Rows : /\ outbox'[q].inc = outbox[q].inc /\ outbox'[q].chan = outbox[q].chan
                      /\ IsNewest(q, outbox') => IsNewest(q, outbox)
  BY <1>2, Zenon DEF SameIntent, IsNewest, Rows
<1>4. job.pc = "marked"
  BY DEF Types, Job
<1> HIDE DEF job
<1>5. FlightsOK'
  BY <1>1, <1>4, Landed
<1>6. PromisesOK'
  <2> SUFFICES ASSUME NEW i \in Incidents, NEW c \in Channels
               PROVE  /\ owed'[i][c] <= version'[i] /\ shown'[i][c] <= version'[i]
                      /\ owed'[i][c] > 0 => \E q \in Rows' : outbox'[q].inc = i /\ outbox'[q].chan = c
    BY DEF PromisesOK
  <2>1. /\ owed[i][c] <= version[i] /\ shown[i][c] <= version[i]
        /\ owed[i][c] > 0 => \E q \in Rows : outbox[q].inc = i /\ outbox[q].chan = c
    BY DEF PromisesOK
  <2> QED BY <1>1, <1>2, <1>3, <2>1, Zenon
<1>7. NewestSentShows'
  <2> SUFFICES ASSUME NEW q \in Rows, outbox'[q].status = "sent", outbox[q].inc \in Incidents,
                      IsNewest(q, outbox)
               PROVE  owed[outbox[q].inc][outbox[q].chan] <= shown[outbox[q].inc][outbox[q].chan]
    BY <1>1, <1>2, <1>3, Zenon DEF NewestSentShows, SentShows
  <2>1. CASE q = r
    <3>1. FlightOK(worker[w], outbox, version, shown, owed)
      BY DEF FlightsOK
    <3>2. /\ shown[outbox[r].inc][outbox[r].chan] = worker[w].rendered
          /\ owed[outbox[r].inc][outbox[r].chan] <= worker[w].rendered
      BY <1>1, <2>1, <3>1, Zenon DEF FlightOK
    <3> QED BY <2>1, <3>2, Zenon
  <2>2. CASE q # r
    <3>1. outbox[q].status = "sent"
      BY <1>2, <2>2
    <3> QED BY <3>1, Zenon DEF NewestSentShows, SentShows
  <2> QED BY <2>1, <2>2
<1> QED BY <1>5, <1>6, <1>7

LEMMA MessageStep ==
    ASSUME OneWorker, IInv, MInv, [Next]_vars
    PROVE  MInv'
<1> USE DEF IInv, MInv
<1>1. ASSUME NEW i \in Incidents, NEW chans \in SUBSET (Channels \ {"email"}), Notify(i, chans)
      PROVE  MInv'
  BY <1>1, NotifyMessages
\* A step that renders, delivers and marks nothing, and after which the worker
\* has nothing in flight.
<1>2. ASSUME NEW w \in Workers, Quiet, UNCHANGED <<version, owed, shown>>, NEW job,
             Become(w, job), job.pc \notin {"calling", "accepted"}
      PROVE  MInv'
  BY <1>2, MessagesStay, Landed
<1>3. ASSUME NEW w \in Workers, Quiet, UNCHANGED <<version, owed, shown>>, Continue(w)
      PROVE  MInv'
  <2>1. PICK job \in Job : Become(w, job) /\ job.pc \in {"asleep", "draining"}
    BY <1>3, Continued
  <2> QED BY <1>2, <1>3, <2>1
<1>4. ASSUME NEW w \in Workers, ReadStates(w) PROVE MInv'
  <2> DEFINE job == [Idle EXCEPT !.pc = "probing", !.probes = {c \in Channels : ProbeDue(c)}]
  <2>1. Become(w, job) /\ UNCHANGED <<outbox, version, owed, shown>>
    BY <1>4 DEF ReadStates
  <2>2. job.pc = "probing"
    BY DEF Idle
  <2> HIDE DEF job
  <2> QED BY <1>2, <2>1, <2>2, TableQuiet
<1>5. ASSUME NEW w \in Workers, NEW c \in Channels, NEW healthy \in BOOLEAN,
             NEW eventful \in BOOLEAN, ProbeResult(w, c, healthy, eventful)
      PROVE  MInv'
  <2> DEFINE job == [worker[w] EXCEPT !.probes = @ \ {c}, !.elapsed = 0]
  <2>1. worker[w].pc = "probing" /\ Become(w, job) /\ UNCHANGED <<version, owed, shown>>
    BY <1>5 DEF ProbeResult
  <2>2. job.pc = "probing"
    BY <2>1 DEF Types, Job
  <2>3. Quiet
    BY <1>5, ProbeResultInv
  <2> HIDE DEF job
  <2> QED BY <1>2, <2>1, <2>2, <2>3
<1>6. ASSUME NEW w \in Workers, Poll(w) PROVE MInv'
  <2>1. PICK job \in Job : Become(w, job) /\ job.pc \in {"asleep", "draining"}
    BY <1>6, PollInv
  <2>2. Quiet /\ UNCHANGED <<version, owed, shown>>
    BY <1>6, PollInv DEF Poll
  <2> QED BY <1>2, <2>1, <2>2
<1>7. ASSUME NEW w \in Workers, RecordSuccess(w) PROVE MInv'
  <2>1. Continue(w) /\ UNCHANGED <<outbox, version, owed, shown>>
    BY <1>7, Zenon DEF RecordSuccess
  <2> QED BY <1>3, <2>1, TableQuiet
<1>8. ASSUME NEW w \in Workers, RecordFailure(w) PROVE MInv'
  <2> DEFINE c == outbox[worker[w].row].chan
             new == worker[w].verdict = "down" /\ TripsOpen(breaker[c])
             wait == IF breaker'[c].state = "OPEN" THEN breaker'[c].probeIn ELSE ParkDelay
             job == [worker[w] EXCEPT !.pc = "settling", !.newlyDown = new, !.parkFor = wait]
  <2>1. Become(w, job) /\ UNCHANGED <<outbox, version, owed, shown>>
    BY <1>8 DEF RecordFailure
  <2>2. job.pc = "settling"
    BY DEF Types, Job
  <2> HIDE DEF job
  <2> QED BY <1>2, <2>1, <2>2, TableQuiet
<1>9. ASSUME NEW w \in Workers, Settle(w) PROVE MInv'
  <2>1. Quiet /\ UNCHANGED <<version, owed, shown>>
    BY <1>9, SettleInv DEF Settle
  <2> DEFINE job == [worker[w] EXCEPT !.pc = "failingOver"]
  <2>2. Become(w, job) \/ Continue(w)
    BY <1>9, Zenon DEF Settle
  <2>3. job.pc = "failingOver"
    BY DEF Types, Job
  <2> HIDE DEF job
  <2> QED BY <1>2, <1>3, <2>1, <2>2, <2>3
<1>10. ASSUME NEW w \in Workers, FailOver(w) PROVE MInv'
  <2>1. Continue(w) /\ UNCHANGED <<version, owed, shown>>
    BY <1>10, Zenon DEF FailOver
  <2>2. Quiet
    BY <1>10, FailOverInv
  <2> QED BY <1>3, <2>1, <2>2
<1>11. ASSUME NEW w \in Workers, Crash(w) PROVE MInv'
  <2>1. Become(w, Idle) /\ UNCHANGED <<outbox, version, owed, shown>>
    BY <1>11 DEF Crash
  <2>2. Idle.pc \notin {"calling", "accepted"}
    BY IdleJob
  <2> QED BY <1>2, <2>1, <2>2, TableQuiet
<1>12. CASE Tick
  <2>1. Quiet /\ UNCHANGED <<version, owed, shown>>
    BY <1>12, TickInv DEF Tick
  <2>2. \A w \in Workers : worker'[w].pc \in {"calling", "accepted"} =>
            /\ worker'[w].pc = worker[w].pc /\ worker'[w].row = worker[w].row
            /\ worker'[w].rendered = worker[w].rendered
    <3>1. worker' = [w \in Workers |->
              IF worker[w].pc = "asleep" THEN [worker[w] EXCEPT !.pc = "awake"]
                                         ELSE [worker[w] EXCEPT !.elapsed = @ + 1]]
      BY <1>12 DEF Tick
    <3> SUFFICES ASSUME NEW w \in Workers, worker'[w].pc \in {"calling", "accepted"}
                 PROVE  /\ worker'[w].pc = worker[w].pc /\ worker'[w].row = worker[w].row
                        /\ worker'[w].rendered = worker[w].rendered
      OBVIOUS
    <3>2. worker[w] \in Job
      BY DEF Types
    <3>3. worker[w].pc # "asleep"
      BY <3>1, <3>2 DEF Job
    <3>4. worker'[w] = [worker[w] EXCEPT !.elapsed = @ + 1]
      BY <3>1, <3>3
    <3> QED BY <3>2, <3>4 DEF Job
  <2>3. FlightsOK'
    <3> SUFFICES ASSUME NEW w \in Workers
                 PROVE  FlightOK(worker'[w], outbox', version', shown', owed')
      BY DEF FlightsOK
    <3>1. FlightOK(worker[w], outbox, version, shown, owed)
      BY DEF FlightsOK
    <3>2. worker[w].pc \in {"calling", "accepted"} => worker[w].row \in Rows
      BY DEF WorkersOK, JobOK, Holding, Rows
    <3>3. worker'[w].pc \in {"calling", "accepted"} =>
            /\ worker'[w].pc = worker[w].pc /\ worker'[w].row = worker[w].row
            /\ worker'[w].rendered = worker[w].rendered /\ worker[w].row \in Rows
      BY <2>2, <3>2
    <3> QED BY <2>1, <3>1, <3>3, FlightStays
  <2> QED BY <2>1, <2>3, MessagesStay
<1>13. CASE UNCHANGED vars
  <2>1. UNCHANGED <<outbox, worker, version, owed, shown>>
    BY <1>13 DEF vars
  <2>2. FlightsOK'
    BY <2>1, Zenon DEF FlightsOK
  <2> QED BY <2>1, <2>2, TableQuiet, MessagesStay
<1>14. ASSUME NEW w \in Workers, Step(w) PROVE MInv'
  BY <1>14, <1>4, <1>6, <1>7, <1>8, <1>9, <1>10, RenderMessages, MarkSentMessages DEF Step
<1>15. ASSUME NEW w \in Workers, Answer(w) PROVE MInv'
  BY <1>15, <1>5, AcceptMessages, RejectMessages DEF Answer
<1> QED BY <1>1, <1>11, <1>12, <1>13, <1>14, <1>15 DEF Next

LEMMA OneWorkerInvariant ==
    ASSUME OneWorker
    PROVE  SafetySpec => [](IInv /\ BInv /\ MInv)
<1>1. Init => BInv /\ MInv
  <2> SUFFICES ASSUME Init PROVE BInv /\ MInv
    OBVIOUS
  <2>1. ProbesOpen
    BY DEF Init, ProbesOpen, Idle
  <2>2. OutageMatchesBreaker
    BY DEF Init, OutageMatchesBreaker, Closed
  <2>3. PromisesOK
    BY DEF Init, PromisesOK
  <2>4. NewestSentShows
    BY DEF Init, NewestSentShows, Rows
  <2>5. FlightsOK
    <3>1. \A w \in Workers : worker[w].pc = "asleep"
      BY DEF Init, Idle
    <3> QED BY <3>1 DEF FlightsOK, FlightOK
  <2> QED BY <2>1, <2>2, <2>3, <2>4, <2>5 DEF BInv, MInv
<1>2. IInv /\ BInv /\ MInv /\ [Next]_vars => (BInv /\ MInv)'
  BY BreakerStep, MessageStep
<1> QED BY <1>1, <1>2, Invariant, PTL DEF SafetySpec

\* With the one worker main.py starts, channel_outages and channel_health agree:
\* an outage is on record and open exactly while the breaker is not closed.
THEOREM OutagesMatchBreakers ==
    ASSUME OneWorker
    PROVE  SafetySpec => []OutageMatchesBreaker
<1>1. BInv => OutageMatchesBreaker
  BY DEF BInv
<1> QED BY <1>1, OneWorkerInvariant, PTL

\* With the one worker main.py starts, no change of an incident is forgotten on a
\* channel it was queued for, through coalescing, outages, retries, crashes and
\* lost answers: the newest row is never superseded, and if it was sent, what
\* the provider shows was rendered after the promise was made.
THEOREM NothingIsForgotten ==
    ASSUME OneWorker
    PROVE  SafetySpec => []NothingForgotten
<1>1. IInv /\ MInv => NothingForgotten
  <2> SUFFICES ASSUME IInv, MInv, NEW i \in Incidents, NEW c \in Channels,
                      ~(shown[i][c] >= owed[i][c]), ~GivenUp(i, c)
               PROVE  \E r \in RowsOf(i, c) : IsPending(r)
    BY DEF NothingForgotten
  <2> USE DEF IInv, MInv
  <2> DEFINE S == RowsOf(i, c)
             n == Max(S)
  <2>0. owed[i][c] \in Nat /\ shown[i][c] \in Nat /\ owed[i][c] > 0
    BY VersionTypes
  <2>1. S # {}
    <3>1. \E r \in Rows : outbox[r].inc = i /\ outbox[r].chan = c
      <4>1. owed[i][c] > 0 => \E r \in Rows : outbox[r].inc = i /\ outbox[r].chan = c
        BY DEF PromisesOK
      <4> QED BY <2>0, <4>1
    <3> QED BY <3>1 DEF RowsOf
  <2>2. S \subseteq Nat /\ Len(outbox) \in Nat /\ \A x \in S : x <= Len(outbox)
    BY RowNumbers DEF RowsOf
  <2>3. n \in S /\ \A x \in S : x <= n
    <3> HIDE DEF S
    <3> QED BY <2>1, <2>2, MaxOfBounded
  <2>4. n \in Rows /\ outbox[n].inc = i /\ outbox[n].chan = c
    BY <2>3 DEF RowsOf
  <2>5. outbox[n].status \in {"pending", "sent", "dead", "superseded"}
    BY <2>4, RowNumbers DEF Row
  <2>6. outbox[n].status # "dead"
    BY <2>1 DEF GivenUp
  <2> HIDE DEF n
  <2>7. outbox[n].status # "superseded"
    <3> SUFFICES ASSUME outbox[n].status = "superseded" PROVE FALSE
      OBVIOUS
    <3> DEFINE w == outbox[n].supersededBy
    <3>1. w \in Rows /\ w > n /\ outbox[w].inc = i /\ outbox[w].chan = c
      BY <2>4, Zenon DEF AllMarked, Marked, Rows
    <3>2. w \in S
      BY <3>1 DEF RowsOf
    <3>3. w <= n /\ w \in Nat /\ n \in Nat
      BY <2>2, <2>3, <3>2
    <3> HIDE DEF w
    <3> QED BY <3>1, <3>3
  <2>8. outbox[n].status # "sent"
    <3> SUFFICES ASSUME outbox[n].status = "sent" PROVE FALSE
      OBVIOUS
    <3>1. IsNewest(n, outbox)
      BY <2>3, <2>4 DEF IsNewest, RowsOf, Rows
    <3>2. owed[i][c] <= shown[i][c]
      BY <2>4, <3>1, Zenon DEF NewestSentShows, SentShows
    <3> QED BY <2>0, <3>2
  <2> QED BY <2>3, <2>5, <2>6, <2>7, <2>8 DEF IsPending
<1> QED BY <1>1, OneWorkerInvariant, PTL

==============================================================================
