-------------------------- MODULE EventStream_proofs --------------------------
(***************************************************************************)
(* Safety of the ledger and of the event stream, for any set of incidents, *)
(* any number of commits and broken connections and every delta limit the  *)
(* code may be given: the hash chain misses nothing and verifies but for   *)
(* the times its table does not keep, a resumed client is never sent an    *)
(* event again, and a client that has caught up shows what is there.       *)
(***************************************************************************)
EXTENDS EventStream, FiniteSetTheorems, SequenceTheorems, TLAPS

USE StreamAssumption

Times == [at : Nat, zone : {"utc", "other", "none"}]
Hashes == Seq([decision : Nat, firedAt : Times])
LedgerRows ==
    [incident : Incidents, decision : Nat, firedAt : Times, prevHash : Hashes, rowHash : Hashes]

Connections ==
    [phase : {"closed", "incidents", "edges", "cursor", "live"}, cursor : Nat,
     resumed : BOOLEAN, incidents : [Incidents -> Nat], edges : [Incidents -> Nat],
     during : SUBSET Incidents, batch : SUBSET Events]

\* The types of all variables.
Types ==
    /\ version \in [Incidents -> Nat]
    /\ ledger \in Seq(LedgerRows)
    /\ altered \subseteq DOMAIN ledger
    /\ scope \in [observed : Nat, ranked : Nat]
    /\ hinted \in Nat
    /\ conn \in Connections
    /\ client \in [incidents : [Incidents -> Nat], edges : [Incidents -> Nat], last : Nat]
    /\ torn \subseteq Incidents
    /\ budget \in [commits : Nat, drops : Nat, failures : Nat]

-----------------------------------------------------------------------------
(* The kinds of a row's events and their numbers *)

LEMMA KindsFacts ==
    /\ ToSet(Kinds) = {"incident", "graph", "card", "metrics"}
    /\ Kinds[1] = "incident" /\ Kinds[2] = "graph" /\ Kinds[3] = "card" /\ Kinds[4] = "metrics"
  BY DEF Kinds, ToSet

LEMMA KindIs ==
    ASSUME NEW k \in 1 .. 4
    PROVE  /\ Kinds[k] \in ToSet(Kinds) /\ Kinds[k] # "snapshot"
           /\ Kinds[k] = "incident" <=> k = 1
           /\ Kinds[k] = "graph" <=> k = 2
  <1>1. k = 1 \/ k = 2 \/ k = 3 \/ k = 4
    OBVIOUS
  <1> QED BY <1>1, KindsFacts

LEMMA EventKinds ==
    ASSUME NEW e \in Events
    PROVE  /\ e.id \in Nat
           /\ \/ e.kind = "snapshot"
              \/ /\ e.kind \in ToSet(Kinds)
                 /\ e.incident \in Incidents /\ e.state \in Nat
  BY KindsFacts DEF Events

-----------------------------------------------------------------------------
(* Types *)

\* Cutting a time leaves a time.
LEMMA IsoType ==
    ASSUME NEW time \in Times
    PROVE  _iso(time) \in Times
  <1>1. time.at \in Nat /\ TicksPerMs \in Nat \ {0}
    BY DEF Times
  <1>2. time.at - (time.at % TicksPerMs) \in Nat
    <2>1. \A n \in Nat, d \in Nat \ {0} : n - (n % d) \in Nat
      BY SMT
    <2> QED BY <1>1, <2>1
  <1> QED BY <1>2 DEF _iso, Times

\* The row a commit appends.
LEMMA LedgerRowType ==
    ASSUME Types, NEW i \in Incidents, NEW decision \in Nat, NEW time \in Times
    PROVE  LedgerRow(i, decision, time) \in LedgerRows
  <1>1. ledger \in Seq(LedgerRows)
    BY DEF Types
  <1>2. PrevHash \in Hashes
    <2>1. CASE ledger = <<>>
      BY <2>1 DEF PrevHash, GenesisHash, Hashes
    <2>2. CASE ledger # <<>>
      <3>1. Len(ledger) \in 1 .. Len(ledger)
        BY <1>1, <2>2
      <3>2. ledger[Len(ledger)] \in LedgerRows
        BY <1>1, <3>1
      <3> QED BY <2>2, <3>2 DEF PrevHash, Last, LedgerRows
    <2> QED BY <2>1, <2>2
  <1>3. _canonical_payload(decision, time) \in [decision : Nat, firedAt : Times]
    BY DEF _canonical_payload
  <1>4. compute_row_hash(PrevHash, _canonical_payload(decision, time)) \in Hashes
    BY <1>2, <1>3 DEF compute_row_hash, Hashes
  <1>5. _iso(time) \in Times
    BY IsoType
  <1> QED BY <1>2, <1>4, <1>5 DEF LedgerRow, LedgerRows

LEMMA LedgerFacts ==
    ASSUME ledger \in Seq(LedgerRows)
    PROVE  /\ DOMAIN ledger = 1 .. Len(ledger) /\ Len(ledger) \in Nat
           /\ \A n \in DOMAIN ledger :
                 ledger[n] \in LedgerRows /\ ledger[n].incident \in Incidents /\ n \in Nat
  <1>1. DOMAIN ledger = 1 .. Len(ledger) /\ Len(ledger) \in Nat
    OBVIOUS
  <1>2. \A n \in DOMAIN ledger : ledger[n] \in LedgerRows /\ n \in Nat
    BY <1>1
  <1> QED BY <1>1, <1>2 DEF LedgerRows

\* What an event carries is a time.
LEMMA EventTimesType ==
    ASSUME Types, NEW i \in Incidents, NEW isRound \in BOOLEAN
    PROVE  EventTimes(i, isRound) \subseteq Times
  <1>1. FiredAt[i] \subseteq Times
    BY DEF Times
  <1>2. LastAlertAt(i) \subseteq Times
    <2>1. \A n \in DOMAIN ledger : ledger[n] \in LedgerRows
      BY LedgerFacts DEF Types
    <2>2. \A n \in DOMAIN ledger : ledger[n].firedAt \in Times
      BY <2>1 DEF LedgerRows
    <2> QED BY <2>2 DEF LastAlertAt
  <1> QED BY <1>1, <1>2 DEF EventTimes

LEMMA InitTypes == Init => Types
  <1> SUFFICES ASSUME Init PROVE Types
    OBVIOUS
  <1>1. Nothing \in [Incidents -> Nat]
    BY DEF Nothing
  <1>2. conn \in Connections
    BY <1>1 DEF Init, Closed, Connections
  <1> QED BY <1>1, <1>2 DEF Init, Types

LEMMA RowEventsType ==
    ASSUME Types, NEW n \in DOMAIN ledger
    PROVE  RowEvents(n) \subseteq Events
  <1>1. ledger[n].incident \in Incidents /\ n \in Nat
    BY LedgerFacts DEF Types
  <1>2. version[ledger[n].incident] \in Nat
    BY <1>1 DEF Types
  <1> SUFFICES ASSUME NEW k \in 1 .. 4
               PROVE  [id       |-> n * STREAM_ID_STRIDE + k,
                       kind     |-> Kinds[k],
                       incident |-> ledger[n].incident,
                       state    |-> version[ledger[n].incident]] \in Events
    BY DEF RowEvents
  <1>3. n * STREAM_ID_STRIDE + k \in Nat
    BY <1>1 DEF STREAM_ID_STRIDE
  <1> QED BY <1>1, <1>2, <1>3, KindIs DEF Events

LEMMA DeltaType ==
    ASSUME Types, NEW after \in Nat
    PROVE  read_delta_events(after) \subseteq Events
  BY RowEventsType DEF read_delta_events, Unsent

\* What a client shows after an event it was sent.
LEMMA ShownType ==
    ASSUME Types, NEW e \in conn.batch
    PROVE  Shown(e) \in [incidents : [Incidents -> Nat], edges : [Incidents -> Nat], last : Nat]
  <1>1. e \in Events
    BY DEF Types, Connections
  <1>2. conn.incidents \in [Incidents -> Nat] /\ conn.edges \in [Incidents -> Nat]
    BY DEF Types, Connections
  <1>3. client.incidents \in [Incidents -> Nat] /\ client.edges \in [Incidents -> Nat]
    BY DEF Types
  <1>4. e.id \in Nat
    BY <1>1, EventKinds
  <1>5. client \in [incidents : [Incidents -> Nat], edges : [Incidents -> Nat], last : Nat]
    BY DEF Types
  <1>6. CASE e.kind = "snapshot"
    BY <1>2, <1>4, <1>6 DEF Shown
  <1>7. CASE e.kind # "snapshot"
    <2>1. e.incident \in Incidents /\ e.state \in Nat
      BY <1>1, <1>7, EventKinds
    <2>2. [client.incidents EXCEPT ![e.incident] = e.state] \in [Incidents -> Nat]
      BY <1>3, <2>1
    <2>3. [client.edges EXCEPT ![e.incident] = e.state] \in [Incidents -> Nat]
      BY <1>3, <2>1
    <2>4. CASE e.kind = "incident"
      <3>1. Shown(e) = [client EXCEPT !.incidents = [client.incidents EXCEPT ![e.incident] = e.state],
                                      !.last = e.id]
        BY <2>4 DEF Shown
      <3> QED BY <3>1, <2>2, <1>4, <1>5
    <2>5. CASE e.kind = "graph"
      <3>1. Shown(e) = [client EXCEPT !.edges = [client.edges EXCEPT ![e.incident] = e.state],
                                      !.last = e.id]
        BY <2>5 DEF Shown
      <3> QED BY <3>1, <2>3, <1>4, <1>5
    <2>6. CASE e.kind # "incident" /\ e.kind # "graph"
      <3>1. Shown(e) = [client EXCEPT !.last = e.id]
        BY <1>7, <2>6 DEF Shown
      <3> QED BY <3>1, <1>4, <1>5
    <2> QED BY <2>4, <2>5, <2>6
  <1> QED BY <1>6, <1>7

\* One more of a counter of a record, and one less of a positive one.
LEMMA CommitBudget ==
    ASSUME budget \in [commits : Nat, drops : Nat, failures : Nat],
           NEW i \in Incidents, NEW isRound \in BOOLEAN,
           NEW time \in EventTimes(i, isRound), Commit(i, isRound, time)
    PROVE  budget' \in [commits : Nat, drops : Nat, failures : Nat]
  <1>1. budget.commits \in Nat /\ budget.commits > 0
    BY DEF Commit
  <1>2. budget.commits - 1 \in Nat
    BY <1>1
  <1>3. budget' = [budget EXCEPT !.commits = budget.commits - 1]
    BY DEF Commit
  <1> QED BY <1>2, <1>3

\* A commit keeps the types.
LEMMA CommitTypes ==
    ASSUME Types, NEW i \in Incidents, NEW isRound \in BOOLEAN,
           NEW time \in EventTimes(i, isRound), Commit(i, isRound, time)
    PROVE  Types'
  <1>1. /\ version' = [version EXCEPT ![i] = version[i] + 1]
        /\ ledger' = Append(ledger, LedgerRow(i, version[i] + 1, time))
        /\ altered' = IF _iso(time) = time THEN altered ELSE altered \cup {Len(ledger) + 1}
        /\ scope' = RecordRound(isRound)
        /\ conn' = IF conn.phase \in {"edges", "cursor"}
                   THEN [conn EXCEPT !.during = conn.during \cup {i}] ELSE conn
        /\ hinted' = hinted /\ client' = client /\ torn' = torn
    BY DEF Commit
  <1>2. /\ version \in [Incidents -> Nat] /\ ledger \in Seq(LedgerRows)
        /\ scope \in [observed : Nat, ranked : Nat] /\ conn \in Connections
        /\ budget \in [commits : Nat, drops : Nat, failures : Nat]
    BY DEF Types
  <1>3. budget' \in [commits : Nat, drops : Nat, failures : Nat]
    BY <1>2, CommitBudget
  <1>4. version[i] + 1 \in Nat
    BY <1>2
  <1>5. LedgerRow(i, version[i] + 1, time) \in LedgerRows
    <2>1. time \in Times
      BY EventTimesType
    <2> QED BY <1>4, <2>1, LedgerRowType
  <1> HIDE DEF Commit
  <1>6. version' \in [Incidents -> Nat]
    BY <1>1, <1>2, <1>4
  <1>7. ledger' \in Seq(LedgerRows)
    BY <1>1, <1>2, <1>5
  <1>70. altered' \subseteq DOMAIN ledger'
    <2>1. DOMAIN ledger' = 1 .. (Len(ledger) + 1) /\ DOMAIN ledger = 1 .. Len(ledger)
          /\ Len(ledger) \in Nat
      BY <1>1, <1>2, <1>5
    <2>2. altered \subseteq DOMAIN ledger /\ altered' \subseteq altered \cup {Len(ledger) + 1}
      BY <1>1 DEF Types
    <2> QED BY <2>1, <2>2
  <1>8. scope' \in [observed : Nat, ranked : Nat]
    <2>1. scope.observed + 1 \in Nat
      BY <1>2
    <2> QED BY <1>1, <1>2, <2>1 DEF RecordRound
  <1>9. conn' \in Connections
    BY <1>1, <1>2 DEF Connections
  <1>10. /\ hinted' \in Nat /\ torn' \subseteq Incidents
         /\ client' \in [incidents : [Incidents -> Nat], edges : [Incidents -> Nat], last : Nat]
    BY <1>1 DEF Types
  <1> QED BY <1>3, <1>6, <1>7, <1>70, <1>8, <1>9, <1>10 DEF Types

LEMMA NextTypes == Types /\ [Next]_vars => Types'
  <1> SUFFICES ASSUME Types, [Next]_vars PROVE Types'
    OBVIOUS
  <1>1. ASSUME NEW i \in Incidents, NEW isRound \in BOOLEAN,
           NEW time \in EventTimes(i, isRound), Commit(i, isRound, time) PROVE Types'
    BY <1>1, CommitTypes
  <1> USE DEF Types
  <1>0. Nothing \in [Incidents -> Nat] /\ Closed \in Connections
    BY DEF Nothing, Closed, Connections
  <1>2. CASE RankSweep
    <2>1. /\ hinted' = scope.observed /\ scope' = [scope EXCEPT !.ranked = scope.observed]
          /\ UNCHANGED <<version, ledger, altered, conn, client, torn, budget>>
      BY <1>2 DEF RankSweep, RankedRevision
    <2>2. hinted' \in Nat /\ scope' \in [observed : Nat, ranked : Nat]
      BY <2>1
    <2> QED BY <2>1, <2>2
  <1>3. CASE RankFails
    <2>1. budget' \in [commits : Nat, drops : Nat, failures : Nat]
      <3>1. budget.failures - 1 \in Nat
        BY <1>3 DEF RankFails
      <3> QED BY <1>3, <3>1 DEF RankFails
    <2> QED BY <1>3, <2>1 DEF RankFails
  <1>4. ASSUME NEW resumed \in BOOLEAN, Connect(resumed) PROVE Types'
    <2>1. conn' \in Connections
      BY <1>0, <1>4 DEF Connect, Connections
    <2> QED BY <1>4, <2>1 DEF Connect
  <1>5. CASE SnapshotIncidents
    <2>1. conn' \in Connections
      BY <1>5 DEF SnapshotIncidents, Connections
    <2> QED BY <1>5, <2>1 DEF SnapshotIncidents
  <1>6. CASE SnapshotEdges
    <2>1. conn' \in Connections
      BY <1>6 DEF SnapshotEdges, Connections
    <2> QED BY <1>6, <2>1 DEF SnapshotEdges
  <1>7. CASE SnapshotCursor
    <2>1. LatestStreamId \in Nat
      BY DEF LatestStreamId, STREAM_ID_STRIDE
    <2>2. [id |-> LatestStreamId, kind |-> "snapshot"] \in Events
      BY <2>1 DEF Events
    <2>3. (IF LatestStreamId > conn.cursor
           THEN {[id |-> LatestStreamId, kind |-> "snapshot"]} ELSE {}) \in SUBSET Events
      BY <2>2
    <2>4. conn' \in Connections
      BY <1>7, <2>3 DEF SnapshotCursor, Connections
    <2> QED BY <1>7, <2>4 DEF SnapshotCursor
  <1>8. CASE ReadDeltas
    <2>1. conn.cursor \in Nat
      BY DEF Connections
    <2>2. read_delta_events(conn.cursor) \in SUBSET Events
      BY <2>1, DeltaType
    <2>3. conn' \in Connections
      BY <1>8, <2>2 DEF ReadDeltas, Connections
    <2> QED BY <1>8, <2>3 DEF ReadDeltas
  <1>9. CASE Deliver
    <2>1. PICK e \in conn.batch :
              /\ client' = Shown(e)
              /\ conn' = [conn EXCEPT !.batch = @ \ {e}, !.cursor = e.id]
              /\ torn' = CASE e.kind = "snapshot" -> conn.during
                           [] e.kind = "graph"    -> torn \ {e.incident}
                           [] OTHER               -> torn
      BY <1>9 DEF Deliver
    <2>2. e \in Events
      BY DEF Connections
    <2>3. e.id \in Nat
      BY <2>2, EventKinds
    <2>4. conn' \in Connections
      BY <2>1, <2>3 DEF Connections
    <2>5. torn' \subseteq Incidents
      BY <2>1 DEF Connections
    <2>6. client' \in [incidents : [Incidents -> Nat], edges : [Incidents -> Nat], last : Nat]
      BY <2>1, ShownType
    <2> QED BY <1>9, <2>4, <2>5, <2>6 DEF Deliver
  <1>10. CASE Drop
    <2>1. budget' \in [commits : Nat, drops : Nat, failures : Nat]
      <3>1. budget.drops - 1 \in Nat
        BY <1>10 DEF Drop
      <3> QED BY <1>10, <3>1 DEF Drop
    <2> QED BY <1>0, <1>10, <2>1 DEF Drop
  <1>11. CASE UNCHANGED vars
    BY <1>11 DEF vars
  <1> HIDE DEF Types
  <1>12. CASE StreamStep
    BY <1>5, <1>6, <1>7, <1>8, <1>9, <1>12, Zenon DEF StreamStep
  <1> QED BY <1>1, <1>2, <1>3, <1>4, <1>10, <1>11, <1>12, Zenon DEF Next

LEMMA TypesAlways == Spec => []Types
  BY InitTypes, NextTypes, PTL DEF Spec

LEMMA TypesGiveTypeOK == Types => TypeOK
  <1> SUFFICES ASSUME Types PROVE TypeOK
    OBVIOUS
  <1>1. \A n \in DOMAIN ledger : ledger[n].incident \in Incidents
    BY LedgerFacts DEF Types
  <1> QED BY <1>1 DEF Types, TypeOK, Connections

\* Every table, the open connection and the client keep their types: the
\* transactions of the write path, sweep_once, read_snapshot, read_delta_events
\* and the handlers of usePulseGraphStream.
THEOREM TypesAreKept == Spec => []TypeOK
  BY TypesAlways, TypesGiveTypeOK, PTL
-----------------------------------------------------------------------------
(* The ledger *)

\* A commit adds one row, continues the chain and leaves the other rows alone.
LEMMA CommitAppends ==
    ASSUME Types, NEW i \in Incidents, NEW isRound \in BOOLEAN,
           NEW time \in EventTimes(i, isRound), Commit(i, isRound, time)
    PROVE  /\ DOMAIN ledger = 1 .. Len(ledger) /\ Len(ledger) \in Nat
           /\ DOMAIN ledger' = 1 .. (Len(ledger) + 1)
           /\ \A n \in DOMAIN ledger : ledger'[n] = ledger[n]
           /\ ledger'[Len(ledger) + 1] = LedgerRow(i, version[i] + 1, time)
           /\ ledger'[Len(ledger) + 1].incident = i
           /\ version' = [version EXCEPT ![i] = @ + 1]
  <1>1. ledger \in Seq(LedgerRows) /\ version[i] + 1 \in Nat /\ time \in Times
    <2>1. ledger \in Seq(LedgerRows) /\ version \in [Incidents -> Nat]
      BY DEF Types
    <2>2. version[i] + 1 \in Nat
      BY <2>1
    <2>3. time \in Times
      BY EventTimesType
    <2> QED BY <2>1, <2>2, <2>3
  <1>2. LedgerRow(i, version[i] + 1, time) \in LedgerRows
    BY <1>1, LedgerRowType
  <1>3. ledger' = Append(ledger, LedgerRow(i, version[i] + 1, time))
    BY DEF Commit
  <1> DEFINE row == LedgerRow(i, version[i] + 1, time)
  <1>4. row.incident = i
    BY DEF LedgerRow
  <1> HIDE DEF row
  <1>5. /\ DOMAIN Append(ledger, row) = 1 .. (Len(ledger) + 1)
        /\ \A n \in DOMAIN ledger : Append(ledger, row)[n] = ledger[n]
        /\ Append(ledger, row)[Len(ledger) + 1] = row
    BY <1>1, <1>2 DEF row
  <1>6. ledger' = Append(ledger, row)
    BY <1>3 DEF row
  <1>7. row = LedgerRow(i, version[i] + 1, time)
    BY DEF row
  <1>8. version' = [version EXCEPT ![i] = @ + 1]
    BY DEF Commit
  <1> QED BY <1>1, <1>4, <1>5, <1>6, <1>7, <1>8

LEMMA InitLedgerReadsBack == Init => LedgerReadsBack
  <1> SUFFICES ASSUME Init PROVE LedgerReadsBack
    OBVIOUS
  <1>1. DOMAIN ledger = {} /\ altered = {}
    BY DEF Init
  <1>2. \A i \in Incidents : {n \in DOMAIN ledger : ledger[n].incident = i} = {}
    BY <1>1
  <1>3. Cardinality({}) = 0
    BY FS_EmptySet
  <1>4. \A i \in Incidents : version[i] = 0
    BY DEF Init, Nothing
  <1>5. Complaints(ledger) = {}
    BY <1>1 DEF Complaints
  <1> QED BY <1>1, <1>2, <1>3, <1>4, <1>5 DEF LedgerReadsBack

\* Two hashes of the same predecessor are equal when what they are of is.
LEMMA HashesOfPayloads ==
    ASSUME NEW prev \in Hashes, NEW x \in [decision : Nat, firedAt : Times],
           NEW y \in [decision : Nat, firedAt : Times]
    PROVE  compute_row_hash(prev, x) = compute_row_hash(prev, y) <=> x = y
  <1>1. /\ Append(prev, x)[Len(prev) + 1] = x
        /\ Append(prev, y)[Len(prev) + 1] = y
    BY DEF Hashes
  <1> QED BY <1>1 DEF compute_row_hash

\* The row a commit appends verifies exactly if its time survives the column.
LEMMA NewRowVerifies ==
    ASSUME Types, NEW i \in Incidents, NEW decision \in Nat, NEW time \in Times,
           NEW row, row = LedgerRow(i, decision, time)
    PROVE  row.rowHash = compute_row_hash(row.prevHash, _canonical_payload(row.decision, row.firedAt))
           <=> _iso(time) = time
  <1> DEFINE x == _canonical_payload(decision, time)
             y == _canonical_payload(decision, _iso(time))
  <1>1. row.rowHash = compute_row_hash(PrevHash, x) /\ row.prevHash = PrevHash
        /\ row.decision = decision /\ row.firedAt = _iso(time)
    BY DEF LedgerRow
  <1>2. row \in LedgerRows
    BY LedgerRowType
  <1>3. PrevHash \in Hashes
    BY <1>1, <1>2 DEF LedgerRows
  <1>4. /\ x \in [decision : Nat, firedAt : Times]
        /\ y \in [decision : Nat, firedAt : Times]
    BY IsoType DEF _canonical_payload
  <1>5. x = y <=> _iso(time) = time
    BY DEF _canonical_payload
  <1>6. compute_row_hash(PrevHash, x) = compute_row_hash(PrevHash, y) <=> x = y
    BY <1>3, <1>4, HashesOfPayloads
  <1> QED BY <1>1, <1>5, <1>6

LEMMA CommitLedgerReadsBack ==
    ASSUME Types, LedgerReadsBack, NEW i \in Incidents, NEW isRound \in BOOLEAN,
           NEW time \in EventTimes(i, isRound), Commit(i, isRound, time)
    PROVE  LedgerReadsBack'
  <1> DEFINE L == Len(ledger)
             rowsOf(j) == {n \in DOMAIN ledger : ledger[n].incident = j}
  <1>1. /\ DOMAIN ledger = 1 .. L /\ L \in Nat
        /\ DOMAIN ledger' = 1 .. (L + 1)
        /\ \A n \in DOMAIN ledger : ledger'[n] = ledger[n]
        /\ ledger'[L + 1] = LedgerRow(i, version[i] + 1, time)
        /\ ledger'[L + 1].incident = i
        /\ version' = [version EXCEPT ![i] = @ + 1]
    BY CommitAppends
  <1> HIDE DEF L
  <1>2. Complaints(ledger') = altered'
    <2>1. ledger'[L + 1].prevHash = PrevHash
      BY <1>1 DEF LedgerRow
    <2>2. PrevHash = IF L = 0 THEN GenesisHash ELSE ledger[L].rowHash
      <3>1. ledger \in Seq(LedgerRows)
        BY DEF Types
      <3>2. ledger = <<>> <=> Len(ledger) = 0
        BY <3>1
      <3> QED BY <3>2 DEF PrevHash, Last, L
    <2>3. PrevHash = IF L + 1 = 1 THEN GenesisHash ELSE ledger'[(L + 1) - 1].rowHash
      <3>1. (L + 1) - 1 = L /\ (L + 1 = 1 <=> L = 0)
        BY <1>1
      <3>2. L # 0 => L \in DOMAIN ledger
        BY <1>1
      <3> QED BY <3>1, <3>2, <2>2, <1>1
    <2>4. RowVerifies(ledger', L + 1) <=> _iso(time) = time
      <3>1. version[i] + 1 \in Nat /\ time \in Times
        BY EventTimesType DEF Types
      <3>2. ledger'[L + 1].rowHash =
              compute_row_hash(ledger'[L + 1].prevHash,
                               _canonical_payload(ledger'[L + 1].decision, ledger'[L + 1].firedAt))
            <=> _iso(time) = time
        BY <1>1, <3>1, NewRowVerifies
      <3> QED BY <2>1, <2>3, <3>2 DEF RowVerifies
    <2>5. ASSUME NEW n \in DOMAIN ledger
          PROVE  RowVerifies(ledger', n) <=> RowVerifies(ledger, n)
      <3>1. n # 1 => n - 1 \in DOMAIN ledger
        BY <1>1
      <3>2. ledger'[n] = ledger[n] /\ (n # 1 => ledger'[n - 1] = ledger[n - 1])
        BY <3>1, <1>1
      <3> QED BY <3>2 DEF RowVerifies
    <2>6. Complaints(ledger) = altered /\ L + 1 \notin DOMAIN ledger
      BY <1>1 DEF LedgerReadsBack
    <2>7. DOMAIN ledger' = DOMAIN ledger \cup {L + 1}
      BY <1>1
    <2>8. altered' = IF _iso(time) = time THEN altered ELSE altered \cup {L + 1}
      BY DEF Commit, L
    <2>9. Complaints(ledger') = IF RowVerifies(ledger', L + 1) THEN Complaints(ledger)
                                ELSE Complaints(ledger) \cup {L + 1}
      BY <2>5, <2>6, <2>7 DEF Complaints
    <2> QED BY <2>4, <2>6, <2>8, <2>9
  <1>3. ASSUME NEW j \in Incidents
        PROVE  Cardinality({n \in DOMAIN ledger' : ledger'[n].incident = j}) = version'[j]
    <2>1. Cardinality(rowsOf(j)) = version[j]
      BY DEF LedgerReadsBack
    <2>2. IsFiniteSet(rowsOf(j))
      <3>1. L \in Int /\ 1 \in Int
        BY <1>1
      <3>2. IsFiniteSet(1 .. L)
        BY <3>1, FS_Interval
      <3>3. rowsOf(j) \subseteq 1 .. L
        BY <1>1
      <3> QED BY <3>2, <3>3, FS_Subset
    <2>3. L + 1 \notin rowsOf(j)
      BY <1>1
    <2>4. version[j] \in Nat /\ version \in [Incidents -> Nat]
      BY DEF Types
    <2>5. CASE j = i
      <3>1. {n \in DOMAIN ledger' : ledger'[n].incident = j} = rowsOf(j) \cup {L + 1}
        BY <1>1, <2>5
      <3>2. Cardinality(rowsOf(j) \cup {L + 1}) = Cardinality(rowsOf(j)) + 1
        BY <2>2, <2>3, FS_AddElement
      <3>3. version'[j] = version[j] + 1
        BY <1>1, <2>4, <2>5
      <3> QED BY <3>1, <3>2, <3>3, <2>1
    <2>6. CASE j # i
      <3>1. {n \in DOMAIN ledger' : ledger'[n].incident = j} = rowsOf(j)
        BY <1>1, <2>6
      <3>2. version'[j] = version[j]
        BY <1>1, <2>4, <2>6
      <3> QED BY <3>1, <3>2, <2>1
    <2> QED BY <2>5, <2>6
  <1> QED BY <1>2, <1>3 DEF LedgerReadsBack

LEMMA OnlyCommitsWrite ==
    [Next]_vars => \/ \E i \in Incidents, isRound \in BOOLEAN :
                      \E time \in EventTimes(i, isRound) : Commit(i, isRound, time)
                   \/ UNCHANGED <<ledger, version, altered>>
  BY DEF Next, vars, RankSweep, RankFails, Connect, StreamStep, SnapshotIncidents,
         SnapshotEdges, SnapshotCursor, ReadDeltas, Deliver, Drop

LEMMA NextLedgerReadsBack == Types /\ LedgerReadsBack /\ [Next]_vars => LedgerReadsBack'
  <1> SUFFICES ASSUME Types, LedgerReadsBack, [Next]_vars PROVE LedgerReadsBack'
    OBVIOUS
  <1>1. CASE UNCHANGED <<ledger, version, altered>>
    BY <1>1 DEF LedgerReadsBack, Complaints, RowVerifies
  <1> QED BY <1>1, OnlyCommitsWrite, CommitLedgerReadsBack

\* After any number of commits verify_chain objects to exactly the rows whose
\* fired_at _iso does not keep, and the ledger has as many rows of an incident
\* as the incident has had changes: next_seq_and_prev_hash and the append are
\* one transaction, and persist_decision hashes the event and stores the column.
THEOREM LedgerAlwaysReadsBack == Spec => []LedgerReadsBack
  BY InitLedgerReadsBack, NextLedgerReadsBack, TypesAlways, PTL DEF Spec
-----------------------------------------------------------------------------
(* The stream.  An event that is still to come is that of a row            *)
(* read_delta_events asks for, behind the cursor.                          *)

Unread(n, k, after) == n >= FirstUnread(after) /\ n * STREAM_ID_STRIDE + k > after

\* An event of kind k about the incident is still to come.
Behind(log, i, k, after) == \E n \in DOMAIN log : log[n].incident = i /\ Unread(n, k, after)

\* What is shown of the incident is current, or about to be replaced.
Fresh(shown, log, ver, i, k, after) == shown[i] = ver[i] \/ Behind(log, i, k, after)

\* An id the stream has used: of a row's events, or of the snapshot after it.
Used(log, id) == id = 0 \/ \E n \in DOMAIN log, k \in 0 .. 4 : id = n * STREAM_ID_STRIDE + k

ClientCurrent ==
    \A i \in Incidents \ torn :
        /\ Fresh(client.incidents, ledger, version, i, 1, client.last)
        /\ Fresh(client.edges, ledger, version, i, 2, client.last)

\* Between the first and the second event of a row its incident is as shown
\* or about to be replaced, torn or not: the second one may mend it.
HalfRow ==
    \A n \in DOMAIN ledger :
        client.last = n * STREAM_ID_STRIDE + 1 =>
            Fresh(client.incidents, ledger, version, ledger[n].incident, 1, client.last)

\* What the queries of a snapshot have read is current, but for what has
\* changed since the first of them.
SnapshotOK ==
    /\ conn.phase \in {"edges", "cursor"} =>
          \A i \in Incidents \ conn.during : conn.incidents[i] = version[i]
    /\ conn.phase = "cursor" =>
          \A i \in Incidents \ conn.during : conn.edges[i] = version[i]

\* A snapshot taken at row n is on its way: it is ahead of the client, and what
\* it does not show as it is has a row after n.
SnapshotAt(n) ==
    /\ conn.batch = {[id |-> n * STREAM_ID_STRIDE, kind |-> "snapshot"]}
    /\ n * STREAM_ID_STRIDE > conn.cursor
    /\ \A i \in Incidents \ conn.during :
          \/ conn.incidents[i] = version[i] /\ conn.edges[i] = version[i]
          \/ \E m \in DOMAIN ledger : ledger[m].incident = i /\ m > n

\* An event that was made too early is followed by a row that is not yet read.
Outdated(e, log, batch) ==
    \E m \in DOMAIN log : /\ log[m].incident = e.incident
                          /\ \A o \in batch : o.id < m * STREAM_ID_STRIDE

EventOK(e, n, k) ==
    /\ e.id = n * STREAM_ID_STRIDE + k
    /\ Unread(n, k, conn.cursor)
    /\ e.kind = Kinds[k] /\ e.incident = ledger[n].incident
    /\ e.state = version[e.incident] \/ Outdated(e, ledger, conn.batch)

\* An event of a row is in the batch, or after all of it.
Listed(n, k, batch) ==
    \/ \E e \in batch : e.id = n * STREAM_ID_STRIDE + k
    \/ \A o \in batch : o.id < n * STREAM_ID_STRIDE + k

\* The events on their way are unread ones, and none is left out.
DeltasOK ==
    /\ \A e \in conn.batch : \E n \in DOMAIN ledger, k \in 1 .. 4 : EventOK(e, n, k)
    /\ \A e, o \in conn.batch : e.id = o.id => e = o
    /\ \A n \in DOMAIN ledger, k \in 1 .. 4 :
          Unread(n, k, conn.cursor) => Listed(n, k, conn.batch)

\* The server's cursor is what the client has seen, unless the connection
\* starts over.
CursorOK ==
    /\ conn.phase # "closed" /\ conn.resumed => conn.cursor = client.last
    /\ conn.phase \in {"incidents", "edges", "cursor"} => conn.cursor \in {0, client.last}

BatchOK ==
    IF conn.phase = "live"
    THEN \/ \E n \in DOMAIN ledger : SnapshotAt(n)
         \/ DeltasOK /\ conn.cursor = client.last
    ELSE conn.batch = {}

StreamInv ==
    /\ Used(ledger, client.last)
    /\ ClientCurrent
    /\ HalfRow
    /\ SnapshotOK
    /\ CursorOK
    /\ BatchOK

-----------------------------------------------------------------------------
(* Event ids *)

LEMMA DivMod ==
    ASSUME NEW q \in Nat, NEW d \in 0 .. 9
    PROVE  (q * 10 + d) \div 10 = q /\ (q * 10 + d) % 10 = d
  OBVIOUS

LEMMA UnreadAfterSnapshot ==
    ASSUME NEW q \in Nat, NEW n \in Nat, NEW k \in 1 .. 4
    PROVE  Unread(n, k, q * STREAM_ID_STRIDE) <=> n > q
  <1>1. (q * 10) \div 10 = q /\ (q * 10) % 10 = 0
    BY DivMod
  <1>2. FirstUnread(q * 10) = q + 1
    BY <1>1 DEF FirstUnread, STREAM_ID_STRIDE
  <1>3. n >= q + 1 => n * 10 + k > q * 10
    OBVIOUS
  <1> QED BY <1>2, <1>3 DEF Unread, STREAM_ID_STRIDE

LEMMA UnreadAfterEvent ==
    ASSUME NEW m \in Nat, NEW j \in 1 .. 4, NEW n \in Nat, NEW k \in 1 .. 4
    PROVE  Unread(n, k, m * STREAM_ID_STRIDE + j) <=>
              n * STREAM_ID_STRIDE + k > m * STREAM_ID_STRIDE + j
  <1>1. (m * 10 + j) \div 10 = m /\ (m * 10 + j) % 10 = j
    BY DivMod
  <1>2. FirstUnread(m * 10 + j) = m
    BY <1>1 DEF FirstUnread, STREAM_ID_STRIDE
  <1>3. n * 10 + k > m * 10 + j => n >= m
    OBVIOUS
  <1> QED BY <1>2, <1>3 DEF Unread, STREAM_ID_STRIDE

LEMMA UsedIsNat ==
    ASSUME ledger \in Seq(LedgerRows), NEW id, Used(ledger, id)
    PROVE  id \in Nat
  BY LedgerFacts DEF Used, STREAM_ID_STRIDE

\* A row that is appended is unread wherever the client is.
LEMMA NewRowUnread ==
    ASSUME ledger \in Seq(LedgerRows), NEW id, Used(ledger, id), NEW k \in 1 .. 4
    PROVE  Unread(Len(ledger) + 1, k, id)
  <1> DEFINE L == Len(ledger)
  <1>1. L \in Nat /\ DOMAIN ledger = 1 .. L
    BY LedgerFacts
  <1> HIDE DEF L
  <1>2. CASE id = 0
    <2>1. id = 0 * STREAM_ID_STRIDE
      BY <1>2 DEF STREAM_ID_STRIDE
    <2>2. Unread(L + 1, k, 0 * STREAM_ID_STRIDE) <=> L + 1 > 0
      BY <1>1, UnreadAfterSnapshot
    <2> QED BY <2>1, <2>2, <1>1 DEF L
  <1>3. CASE \E n \in DOMAIN ledger, j \in 0 .. 4 : id = n * STREAM_ID_STRIDE + j
    <2>1. PICK n \in 1 .. L, j \in 0 .. 4 : id = n * STREAM_ID_STRIDE + j
      BY <1>1, <1>3
    <2>2. CASE j = 0
      <3>1. id = n * STREAM_ID_STRIDE
        BY <2>1, <2>2, <1>1 DEF STREAM_ID_STRIDE
      <3>2. Unread(L + 1, k, n * STREAM_ID_STRIDE) <=> L + 1 > n
        BY <1>1, UnreadAfterSnapshot
      <3> QED BY <3>1, <3>2, <1>1 DEF L
    <2>3. CASE j \in 1 .. 4
      <3>1. Unread(L + 1, k, n * STREAM_ID_STRIDE + j) <=>
                (L + 1) * STREAM_ID_STRIDE + k > n * STREAM_ID_STRIDE + j
        BY <1>1, <2>3, UnreadAfterEvent
      <3>2. (L + 1) * STREAM_ID_STRIDE + k > n * STREAM_ID_STRIDE + j
        BY <1>1, <2>3 DEF STREAM_ID_STRIDE
      <3> QED BY <3>1, <3>2, <2>1 DEF L
    <2> QED BY <2>2, <2>3
  <1> QED BY <1>2, <1>3 DEF Used

-----------------------------------------------------------------------------
(* A commit makes nothing stale that is not announced. *)

LEMMA CommitFresh ==
    ASSUME Types, NEW i \in Incidents, NEW isRound \in BOOLEAN,
           NEW time \in EventTimes(i, isRound), Commit(i, isRound, time),
           NEW shown, NEW j \in Incidents, NEW k \in 1 .. 4, NEW after,
           Used(ledger, after),
           Fresh(shown, ledger, version, j, k, after) \/ j = i
    PROVE  Fresh(shown, ledger', version', j, k, after)
  <1> DEFINE L == Len(ledger)
  <1>0. ledger \in Seq(LedgerRows)
    BY DEF Types
  <1>1. /\ DOMAIN ledger = 1 .. L /\ L \in Nat
        /\ DOMAIN ledger' = 1 .. (L + 1)
        /\ \A n \in DOMAIN ledger : ledger'[n] = ledger[n]
        /\ ledger'[L + 1].incident = i
        /\ version' = [version EXCEPT ![i] = @ + 1]
    BY CommitAppends
  <1>2. CASE j = i
    <2>1. Unread(L + 1, k, after)
      BY <1>0, NewRowUnread
    <2>2. L + 1 \in DOMAIN ledger'
      BY <1>1
    <2> QED BY <1>1, <1>2, <2>1, <2>2 DEF Fresh, Behind
  <1>3. CASE j # i
    <2>1. version'[j] = version[j]
      BY <1>1, <1>3 DEF Types
    <2>2. DOMAIN ledger \subseteq DOMAIN ledger'
      BY <1>1
    <2>3. Behind(ledger, j, k, after) => Behind(ledger', j, k, after)
      BY <1>1, <2>2 DEF Behind
    <2> QED BY <1>3, <2>1, <2>3 DEF Fresh
  <1> QED BY <1>2, <1>3

LEMMA CommitUsed ==
    ASSUME Types, NEW i \in Incidents, NEW isRound \in BOOLEAN,
           NEW time \in EventTimes(i, isRound), Commit(i, isRound, time),
           NEW id, Used(ledger, id)
    PROVE  Used(ledger', id)
  <1>1. DOMAIN ledger \subseteq DOMAIN ledger'
    BY CommitAppends
  <1> QED BY <1>1 DEF Used
\* The client's side of a commit.
LEMMA CommitClient ==
    ASSUME Types, StreamInv, NEW i \in Incidents, NEW isRound \in BOOLEAN,
           NEW time \in EventTimes(i, isRound), Commit(i, isRound, time)
    PROVE  Used(ledger, client.last)' /\ ClientCurrent' /\ HalfRow'
  <1> DEFINE L == Len(ledger)
  <1>1. /\ DOMAIN ledger = 1 .. L /\ L \in Nat
        /\ DOMAIN ledger' = 1 .. (L + 1)
        /\ \A n \in DOMAIN ledger : ledger'[n] = ledger[n]
        /\ ledger'[L + 1].incident = i
    BY CommitAppends
  <1>2. client' = client /\ torn' = torn
    BY DEF Commit
  <1>3. Used(ledger, client.last)
    BY DEF StreamInv
  <1>4. Used(ledger', client.last)
    BY <1>3, CommitUsed
  <1>5. ASSUME NEW j \in Incidents \ torn
        PROVE  /\ Fresh(client.incidents, ledger', version', j, 1, client.last)
               /\ Fresh(client.edges, ledger', version', j, 2, client.last)
    <2>1. /\ Fresh(client.incidents, ledger, version, j, 1, client.last)
          /\ Fresh(client.edges, ledger, version, j, 2, client.last)
      BY DEF StreamInv, ClientCurrent
    <2> QED BY <1>3, <2>1, CommitFresh
  <1>6. ASSUME NEW n \in DOMAIN ledger', client.last = n * STREAM_ID_STRIDE + 1
        PROVE  Fresh(client.incidents, ledger', version', ledger'[n].incident, 1, client.last)
    <2>1. CASE n = L + 1
      BY <1>1, <1>3, <2>1, CommitFresh
    <2>2. CASE n \in DOMAIN ledger
      <3>1. Fresh(client.incidents, ledger, version, ledger[n].incident, 1, client.last)
        BY <1>6, <2>2 DEF StreamInv, HalfRow
      <3>2. ledger[n].incident \in Incidents /\ ledger'[n].incident = ledger[n].incident
        BY <1>1, <2>2, LedgerFacts DEF Types
      <3> QED BY <1>3, <3>1, <3>2, CommitFresh
    <2> QED BY <1>1, <2>1, <2>2
  <1> QED BY <1>2, <1>4, <1>5, <1>6 DEF ClientCurrent, HalfRow

\* A snapshot that is being read, or is on its way.
LEMMA CommitSnapshot ==
    ASSUME Types, StreamInv, NEW i \in Incidents, NEW isRound \in BOOLEAN,
           NEW time \in EventTimes(i, isRound), Commit(i, isRound, time)
    PROVE  SnapshotOK'
  <1>1. version' = [version EXCEPT ![i] = @ + 1]
    BY DEF Commit
  <1>2. \A j \in Incidents : j # i => version'[j] = version[j]
    BY <1>1 DEF Types
  <1>3. CASE conn.phase \in {"edges", "cursor"}
    <2>1. conn' = [conn EXCEPT !.during = @ \cup {i}]
      BY <1>3 DEF Commit
    <2>2. /\ conn'.phase = conn.phase /\ conn'.during = conn.during \cup {i}
          /\ conn'.incidents = conn.incidents /\ conn'.edges = conn.edges
      BY <2>1 DEF Types, Connections
    <2> QED BY <1>2, <2>2 DEF StreamInv, SnapshotOK
  <1>4. CASE conn.phase \notin {"edges", "cursor"}
    <2>1. conn' = conn
      BY <1>4 DEF Commit
    <2> QED BY <1>4, <2>1 DEF SnapshotOK
  <1> QED BY <1>3, <1>4

LEMMA CommitSnapshotAt ==
    ASSUME Types, NEW i \in Incidents, NEW isRound \in BOOLEAN,
           NEW time \in EventTimes(i, isRound), Commit(i, isRound, time),
           conn' = conn, NEW n \in DOMAIN ledger, SnapshotAt(n)
    PROVE  n \in DOMAIN ledger' /\ SnapshotAt(n)'
  <1> DEFINE L == Len(ledger)
  <1>1. /\ DOMAIN ledger = 1 .. L /\ L \in Nat
        /\ DOMAIN ledger' = 1 .. (L + 1)
        /\ \A m \in DOMAIN ledger : ledger'[m] = ledger[m]
        /\ ledger'[L + 1].incident = i
        /\ version' = [version EXCEPT ![i] = @ + 1]
    BY CommitAppends
  <1> HIDE DEF L
  <1>2. n \in DOMAIN ledger'
    BY <1>1
  <1>3. ASSUME NEW j \in Incidents \ conn.during
        PROVE  \/ conn.incidents[j] = version'[j] /\ conn.edges[j] = version'[j]
               \/ \E m \in DOMAIN ledger' : ledger'[m].incident = j /\ m > n
    <2>1. CASE j = i
      <3>1. L + 1 \in DOMAIN ledger' /\ L + 1 > n
        BY <1>1
      <3> QED BY <1>1, <2>1, <3>1
    <2>2. CASE j # i
      <3>1. version'[j] = version[j]
        BY <1>1, <2>2 DEF Types
      <3>2. \/ conn.incidents[j] = version[j] /\ conn.edges[j] = version[j]
            \/ \E m \in DOMAIN ledger : ledger[m].incident = j /\ m > n
        BY DEF SnapshotAt
      <3>3. DOMAIN ledger \subseteq DOMAIN ledger'
        BY <1>1
      <3> QED BY <1>1, <3>1, <3>2, <3>3
    <2> QED BY <2>1, <2>2
  <1> QED BY <1>2, <1>3 DEF SnapshotAt

LEMMA CommitDeltas ==
    ASSUME Types, NEW i \in Incidents, NEW isRound \in BOOLEAN,
           NEW time \in EventTimes(i, isRound), Commit(i, isRound, time),
           conn' = conn, DeltasOK
    PROVE  DeltasOK'
  <1> DEFINE L == Len(ledger)
  <1>1. /\ DOMAIN ledger = 1 .. L /\ L \in Nat
        /\ DOMAIN ledger' = 1 .. (L + 1)
        /\ \A m \in DOMAIN ledger : ledger'[m] = ledger[m]
        /\ ledger'[L + 1].incident = i
        /\ version' = [version EXCEPT ![i] = @ + 1]
    BY CommitAppends
  <1> HIDE DEF L
  <1>2. DOMAIN ledger \subseteq DOMAIN ledger'
    BY <1>1
  <1>3. ASSUME NEW o \in conn.batch PROVE o.id < (L + 1) * STREAM_ID_STRIDE
    <2>1. PICK n \in 1 .. L, k \in 1 .. 4 : o.id = n * STREAM_ID_STRIDE + k
      BY <1>1 DEF DeltasOK, EventOK
    <2>2. n * STREAM_ID_STRIDE + k < (L + 1) * STREAM_ID_STRIDE
      BY <1>1 DEF STREAM_ID_STRIDE
    <2> QED BY <2>1, <2>2
  <1>4. ASSUME NEW e \in conn.batch
        PROVE  \E n \in DOMAIN ledger', k \in 1 .. 4 : EventOK(e, n, k)'
    <2>1. PICK n \in DOMAIN ledger, k \in 1 .. 4 : EventOK(e, n, k)
      BY DEF DeltasOK
    <2>2. /\ e.id = n * STREAM_ID_STRIDE + k
          /\ Unread(n, k, conn.cursor)
          /\ e.kind = Kinds[k] /\ e.incident = ledger[n].incident
          /\ e.state = version[e.incident] \/ Outdated(e, ledger, conn.batch)
      BY <2>1 DEF EventOK
    <2>3. e.incident \in Incidents
      BY <2>2, LedgerFacts DEF Types
    <2>4. e.state = version'[e.incident] \/ Outdated(e, ledger', conn.batch)
      <3>1. CASE e.incident = i
        <4>1. L + 1 \in DOMAIN ledger'
          BY <1>1
        <4> QED BY <1>1, <1>3, <3>1, <4>1 DEF Outdated
      <3>2. CASE e.incident # i
        <4>1. version'[e.incident] = version[e.incident]
          BY <1>1, <2>3, <3>2 DEF Types
        <4>2. Outdated(e, ledger, conn.batch) => Outdated(e, ledger', conn.batch)
          BY <1>1, <1>2 DEF Outdated
        <4> QED BY <2>2, <4>1, <4>2
      <3> QED BY <3>1, <3>2
    <2>5. ledger'[n] = ledger[n] /\ n \in DOMAIN ledger'
      BY <1>1, <1>2
    <2>6. EventOK(e, n, k)'
      BY <2>2, <2>4, <2>5 DEF EventOK
    <2> QED BY <2>5, <2>6
  <1>5. ASSUME NEW n \in DOMAIN ledger', NEW k \in 1 .. 4, Unread(n, k, conn.cursor)
        PROVE  Listed(n, k, conn.batch)
    <2>1. CASE n \in DOMAIN ledger
      BY <1>5, <2>1 DEF DeltasOK
    <2>2. CASE n = L + 1
      <3>1. (L + 1) * STREAM_ID_STRIDE < n * STREAM_ID_STRIDE + k
        BY <1>1, <2>2 DEF STREAM_ID_STRIDE
      <3>2. \A o \in conn.batch : o.id \in Nat
        BY EventKinds DEF Types, Connections
      <3>3. (L + 1) * STREAM_ID_STRIDE \in Nat /\ n * STREAM_ID_STRIDE + k \in Nat
        BY <1>1, <2>2 DEF STREAM_ID_STRIDE
      <3>4. \A o \in conn.batch : o.id < n * STREAM_ID_STRIDE + k
        BY <1>3, <3>1, <3>2, <3>3
      <3> QED BY <3>4 DEF Listed
    <2> QED BY <1>1, <2>1, <2>2
  <1>6. \A e, o \in conn.batch : e.id = o.id => e = o
    BY DEF DeltasOK
  <1> QED BY <1>4, <1>5, <1>6 DEF DeltasOK

LEMMA CommitStream ==
    ASSUME Types, StreamInv, NEW i \in Incidents, NEW isRound \in BOOLEAN,
           NEW time \in EventTimes(i, isRound), Commit(i, isRound, time)
    PROVE  StreamInv'
  <1>1. Used(ledger, client.last)' /\ ClientCurrent' /\ HalfRow'
    BY CommitClient
  <1>2. SnapshotOK'
    BY CommitSnapshot
  <1>3. /\ conn'.phase = conn.phase /\ conn'.resumed = conn.resumed
        /\ conn'.cursor = conn.cursor /\ conn'.batch = conn.batch /\ client' = client
    BY DEF Commit, Types, Connections
  <1>4. CursorOK'
    BY <1>3 DEF StreamInv, CursorOK
  <1>5. BatchOK'
    <2>1. CASE conn.phase # "live"
      BY <1>3, <2>1 DEF StreamInv, BatchOK
    <2>2. CASE conn.phase = "live"
      <3>1. conn' = conn
        BY <2>2 DEF Commit
      <3>2. CASE \E n \in DOMAIN ledger : SnapshotAt(n)
        BY <3>1, <3>2, <2>2, CommitSnapshotAt DEF BatchOK
      <3>3. CASE DeltasOK /\ conn.cursor = client.last
        <4>1. DeltasOK'
          BY <3>1, <3>3, CommitDeltas
        <4> QED BY <1>3, <2>2, <3>1, <3>3, <4>1 DEF BatchOK
      <3> QED BY <2>2, <3>2, <3>3 DEF StreamInv, BatchOK
    <2> QED BY <2>1, <2>2
  <1> QED BY <1>1, <1>2, <1>4, <1>5 DEF StreamInv
-----------------------------------------------------------------------------
(* Reading and delivering *)

LEMMA EmptyBatch == conn.batch = {} => DeltasOK
  BY DEF DeltasOK, Listed

LEMMA InitStream == Init => StreamInv
  <1> SUFFICES ASSUME Init PROVE StreamInv
    OBVIOUS
  <1>1. conn.phase = "closed" /\ conn.batch = {}
    BY DEF Init, Closed
  <1>2. client.last = 0 /\ \A i \in Incidents : client.incidents[i] = version[i] /\ client.edges[i] = version[i]
    BY DEF Init, Nothing
  <1>3. DOMAIN ledger = {}
    BY DEF Init
  <1> QED BY <1>1, <1>2, <1>3
          DEF StreamInv, Used, ClientCurrent, Fresh, HalfRow, SnapshotOK, CursorOK, BatchOK

\* The steps of a connection that leave the client and the tables alone.
LEMMA ClientKept ==
    ASSUME StreamInv, UNCHANGED <<ledger, version, client, torn>>
    PROVE  Used(ledger, client.last)' /\ ClientCurrent' /\ HalfRow'
  BY DEF StreamInv, ClientCurrent, HalfRow, Used, Fresh, Behind

LEMMA ConnectStream ==
    ASSUME Types, StreamInv, NEW resumed \in BOOLEAN, Connect(resumed)
    PROVE  StreamInv'
  <1>1. Used(ledger, client.last)' /\ ClientCurrent' /\ HalfRow'
    BY ClientKept DEF Connect
  <1>2. /\ conn'.phase = "incidents" /\ conn'.resumed = resumed /\ conn'.batch = {}
        /\ conn'.cursor = IF resumed THEN client.last ELSE 0
    BY DEF Connect, Closed
  <1>3. client' = client
    BY DEF Connect
  <1> QED BY <1>1, <1>2, <1>3 DEF StreamInv, SnapshotOK, CursorOK, BatchOK

LEMMA SnapshotIncidentsStream ==
    ASSUME Types, StreamInv, SnapshotIncidents
    PROVE  StreamInv'
  <1>1. Used(ledger, client.last)' /\ ClientCurrent' /\ HalfRow'
    BY ClientKept DEF SnapshotIncidents
  <1>2. /\ conn'.phase = "edges" /\ conn'.resumed = conn.resumed /\ conn'.batch = conn.batch
        /\ conn'.cursor = conn.cursor /\ conn'.incidents = version
    BY DEF SnapshotIncidents, Types, Connections
  <1>3. client' = client /\ version' = version /\ conn.phase = "incidents"
    BY DEF SnapshotIncidents
  <1> QED BY <1>1, <1>2, <1>3 DEF StreamInv, SnapshotOK, CursorOK, BatchOK

LEMMA SnapshotEdgesStream ==
    ASSUME Types, StreamInv, SnapshotEdges
    PROVE  StreamInv'
  <1>1. Used(ledger, client.last)' /\ ClientCurrent' /\ HalfRow'
    BY ClientKept DEF SnapshotEdges
  <1>2. /\ conn'.phase = "cursor" /\ conn'.resumed = conn.resumed /\ conn'.batch = conn.batch
        /\ conn'.cursor = conn.cursor /\ conn'.edges = version
        /\ conn'.incidents = conn.incidents /\ conn'.during = conn.during
    BY DEF SnapshotEdges, Types, Connections
  <1>3. client' = client /\ version' = version /\ conn.phase = "edges"
    BY DEF SnapshotEdges
  <1> QED BY <1>1, <1>2, <1>3 DEF StreamInv, SnapshotOK, CursorOK, BatchOK

LEMMA SnapshotCursorStream ==
    ASSUME Types, StreamInv, SnapshotCursor
    PROVE  StreamInv'
  <1>0. PICK L \in Nat : DOMAIN ledger = 1 .. L /\ LatestStreamId = L * STREAM_ID_STRIDE
    BY LedgerFacts DEF Types, LatestStreamId
  <1>1. Used(ledger, client.last)' /\ ClientCurrent' /\ HalfRow'
    BY ClientKept DEF SnapshotCursor
  <1>2. /\ conn'.phase = "live" /\ conn'.resumed = conn.resumed
        /\ conn'.batch = IF LatestStreamId > conn.cursor
                         THEN {[id |-> LatestStreamId, kind |-> "snapshot"]} ELSE {}
        /\ conn'.cursor = conn.cursor /\ conn'.edges = conn.edges
        /\ conn'.incidents = conn.incidents /\ conn'.during = conn.during
    BY DEF SnapshotCursor, Types, Connections
  <1>3. client' = client /\ version' = version /\ ledger' = ledger /\ conn.phase = "cursor"
    BY DEF SnapshotCursor
  <1>4. SnapshotOK' /\ CursorOK'
    BY <1>2, <1>3 DEF StreamInv, SnapshotOK, CursorOK
  <1>5. conn.cursor \in Nat /\ conn.cursor \in {0, client.last}
    BY <1>3 DEF Types, Connections, StreamInv, CursorOK
  <1>6. Used(ledger, client.last) /\ client.last \in Nat
    BY DEF StreamInv, Types
  <1>7. CASE LatestStreamId > conn.cursor
    <2>1. L # 0
      BY <1>0, <1>5, <1>7 DEF STREAM_ID_STRIDE
    <2>2. L \in DOMAIN ledger
      BY <1>0, <2>1
    <2>3. \A i \in Incidents \ conn.during :
              conn.incidents[i] = version[i] /\ conn.edges[i] = version[i]
      BY <1>3 DEF StreamInv, SnapshotOK
    <2>4. SnapshotAt(L)'
      BY <1>0, <1>2, <1>3, <1>7, <2>3 DEF SnapshotAt
    <2>5. BatchOK'
      BY <1>2, <1>3, <2>2, <2>4 DEF BatchOK
    <2> QED BY <1>1, <1>4, <2>5 DEF StreamInv
  <1>8. CASE ~(LatestStreamId > conn.cursor)
    <2>1. DeltasOK'
      BY <1>2, <1>8 DEF DeltasOK, Listed
    <2>2. conn.cursor = client.last
      <3>1. CASE conn.cursor = 0
        <4>1. L = 0
          BY <1>0, <1>8, <3>1 DEF STREAM_ID_STRIDE
        <4>2. DOMAIN ledger = {}
          BY <1>0, <4>1
        <4> QED BY <1>6, <3>1, <4>2 DEF Used
      <3> QED BY <1>5, <3>1
    <2>3. BatchOK'
      BY <1>2, <1>3, <2>1, <2>2 DEF BatchOK
    <2> QED BY <1>1, <1>4, <2>3 DEF StreamInv
  <1> QED BY <1>7, <1>8

\* A delta holds unread events, and none of its rows is left out of it.
LEMMA DeltaEvents ==
    ASSUME Types, NEW after \in Nat, NEW e \in read_delta_events(after)
    PROVE  \E n \in DOMAIN ledger, k \in 1 .. 4 :
              /\ n < FirstUnread(after) + DeltaLimit
              /\ e = [id |-> n * STREAM_ID_STRIDE + k, kind |-> Kinds[k],
                      incident |-> ledger[n].incident, state |-> version[ledger[n].incident]]
              /\ Unread(n, k, after)
  <1>1. PICK n \in DOMAIN ledger : /\ n >= FirstUnread(after) /\ n < FirstUnread(after) + DeltaLimit
                                   /\ e \in RowEvents(n) /\ e.id > after
    BY DEF read_delta_events, Unsent
  <1>2. PICK k \in 1 .. 4 :
            e = [id |-> n * STREAM_ID_STRIDE + k, kind |-> Kinds[k],
                 incident |-> ledger[n].incident, state |-> version[ledger[n].incident]]
    BY <1>1 DEF RowEvents
  <1>3. e.id = n * STREAM_ID_STRIDE + k
    BY <1>2
  <1> QED BY <1>1, <1>2, <1>3 DEF Unread

LEMMA DeltaComplete ==
    ASSUME Types, NEW after \in Nat, NEW n \in DOMAIN ledger, NEW k \in 1 .. 4,
           Unread(n, k, after), n < FirstUnread(after) + DeltaLimit
    PROVE  \E e \in read_delta_events(after) : e.id = n * STREAM_ID_STRIDE + k
  <1> DEFINE e == [id |-> n * STREAM_ID_STRIDE + k, kind |-> Kinds[k],
                   incident |-> ledger[n].incident, state |-> version[ledger[n].incident]]
  <1>1. e \in RowEvents(n)
    BY DEF RowEvents
  <1>2. e.id = n * STREAM_ID_STRIDE + k
    OBVIOUS
  <1> HIDE DEF e
  <1>3. e \in read_delta_events(after)
    BY <1>1, <1>2 DEF read_delta_events, Unsent, Unread
  <1> QED BY <1>2, <1>3

LEMMA FirstUnreadType ==
    ASSUME NEW after \in Nat
    PROVE  FirstUnread(after) \in Nat
  BY DEF FirstUnread, STREAM_ID_STRIDE

LEMMA DeltaOK ==
    ASSUME Types, conn'.batch = read_delta_events(conn.cursor), conn'.cursor = conn.cursor,
           UNCHANGED <<ledger, version>>
    PROVE  DeltasOK'
  <1> DEFINE c == conn.cursor
             D == read_delta_events(c)
  <1>0. c \in Nat /\ FirstUnread(c) \in Nat
    BY FirstUnreadType DEF Types, Connections
  <1>1. \A n \in DOMAIN ledger : n \in Nat
    BY LedgerFacts DEF Types
  <1> HIDE DEF c, D
  <1>2. ASSUME NEW e \in D
        PROVE  \E n \in DOMAIN ledger, k \in 1 .. 4 :
                  /\ n < FirstUnread(c) + DeltaLimit
                  /\ e = [id |-> n * STREAM_ID_STRIDE + k, kind |-> Kinds[k],
                          incident |-> ledger[n].incident, state |-> version[ledger[n].incident]]
                  /\ Unread(n, k, c)
    BY <1>0, DeltaEvents DEF D
  <1>3. ASSUME NEW e \in D
        PROVE  \E n \in DOMAIN ledger, k \in 1 .. 4 :
                  /\ e.id = n * STREAM_ID_STRIDE + k
                  /\ Unread(n, k, c)
                  /\ e.kind = Kinds[k] /\ e.incident = ledger[n].incident
                  /\ e.state = version[e.incident]
    BY <1>2
  <1>4. ASSUME NEW e \in D, NEW o \in D, e.id = o.id
        PROVE  e = o
    <2>1. PICK n \in DOMAIN ledger, k \in 1 .. 4 :
              e = [id |-> n * STREAM_ID_STRIDE + k, kind |-> Kinds[k],
                   incident |-> ledger[n].incident, state |-> version[ledger[n].incident]]
      BY <1>2
    <2>2. PICK m \in DOMAIN ledger, j \in 1 .. 4 :
              o = [id |-> m * STREAM_ID_STRIDE + j, kind |-> Kinds[j],
                   incident |-> ledger[m].incident, state |-> version[ledger[m].incident]]
      BY <1>2
    <2>3. n * STREAM_ID_STRIDE + k = m * STREAM_ID_STRIDE + j
      BY <1>4, <2>1, <2>2
    <2>4. n = m /\ k = j
      BY <1>1, <2>3 DEF STREAM_ID_STRIDE
    <2> QED BY <2>1, <2>2, <2>4
  <1>5. ASSUME NEW n \in DOMAIN ledger, NEW k \in 1 .. 4, Unread(n, k, c)
        PROVE  Listed(n, k, D)
    <2>1. CASE n < FirstUnread(c) + DeltaLimit
      BY <1>0, <1>5, <2>1, DeltaComplete DEF Listed, D
    <2>2. CASE ~(n < FirstUnread(c) + DeltaLimit)
      <3>1. ASSUME NEW o \in D PROVE o.id < n * STREAM_ID_STRIDE + k
        <4>1. PICK m \in DOMAIN ledger, j \in 1 .. 4 :
                  /\ m < FirstUnread(c) + DeltaLimit
                  /\ o = [id |-> m * STREAM_ID_STRIDE + j, kind |-> Kinds[j],
                          incident |-> ledger[m].incident, state |-> version[ledger[m].incident]]
          BY <1>2
        <4>2. o.id = m * STREAM_ID_STRIDE + j
          BY <4>1
        <4>3. m < n
          BY <1>0, <1>1, <2>2, <4>1
        <4>4. m * STREAM_ID_STRIDE + j < n * STREAM_ID_STRIDE + k
          BY <1>1, <4>3 DEF STREAM_ID_STRIDE
        <4> QED BY <4>2, <4>4
      <3> QED BY <3>1 DEF Listed
    <2> QED BY <2>1, <2>2
  <1>6. conn'.batch = D /\ conn'.cursor = c /\ ledger' = ledger /\ version' = version
    BY DEF D, c
  <1>7. \A e \in conn'.batch : \E n \in DOMAIN ledger', k \in 1 .. 4 : EventOK(e, n, k)'
    BY <1>3, <1>6 DEF EventOK
  <1>8. \A n \in DOMAIN ledger', k \in 1 .. 4 :
            Unread(n, k, conn'.cursor) => Listed(n, k, conn'.batch)
    BY <1>5, <1>6
  <1> QED BY <1>4, <1>6, <1>7, <1>8 DEF DeltasOK

LEMMA ReadDeltasStream ==
    ASSUME Types, StreamInv, ReadDeltas
    PROVE  StreamInv'
  <1>1. Used(ledger, client.last)' /\ ClientCurrent' /\ HalfRow'
    BY ClientKept DEF ReadDeltas
  <1>2. /\ conn'.phase = "live" /\ conn'.resumed = conn.resumed /\ conn'.cursor = conn.cursor
        /\ conn'.batch = read_delta_events(conn.cursor) /\ client' = client
        /\ ledger' = ledger /\ version' = version
    BY DEF ReadDeltas, Types, Connections
  <1>3. conn.phase = "live" /\ conn.batch = {}
    BY DEF ReadDeltas
  <1>4. conn.cursor = client.last
    BY <1>3 DEF StreamInv, BatchOK, SnapshotAt
  <1>5. DeltasOK'
    BY <1>2, DeltaOK
  <1> QED BY <1>1, <1>2, <1>4, <1>5 DEF StreamInv, SnapshotOK, CursorOK, BatchOK

LEMMA DropStream ==
    ASSUME StreamInv, Drop
    PROVE  StreamInv'
  <1>1. Used(ledger, client.last)' /\ ClientCurrent' /\ HalfRow'
    BY ClientKept DEF Drop
  <1>2. conn'.phase = "closed" /\ conn'.batch = {}
    BY DEF Drop, Closed
  <1> QED BY <1>1, <1>2 DEF StreamInv, SnapshotOK, CursorOK, BatchOK
\* The event that is sent, and what it does to the connection.
LEMMA DeliverPicks ==
    ASSUME Types, Deliver
    PROVE  \E e \in conn.batch :
              /\ e \in Events /\ e.id \in Nat
              /\ \A o \in conn.batch : o.id \in Nat /\ e.id <= o.id
              /\ client' = Shown(e)
              /\ conn'.phase = "live" /\ conn'.resumed = conn.resumed
              /\ conn'.batch = conn.batch \ {e} /\ conn'.cursor = e.id
              /\ torn' = CASE e.kind = "snapshot" -> conn.during
                           [] e.kind = "graph"    -> torn \ {e.incident}
                           [] OTHER               -> torn
              /\ UNCHANGED <<version, ledger>>
              /\ client'.last = e.id
  <1>1. PICK e \in conn.batch :
            /\ \A o \in conn.batch : e.id <= o.id
            /\ client' = Shown(e)
            /\ conn' = [conn EXCEPT !.batch = @ \ {e}, !.cursor = e.id]
            /\ torn' = CASE e.kind = "snapshot" -> conn.during
                         [] e.kind = "graph"    -> torn \ {e.incident}
                         [] OTHER               -> torn
    BY DEF Deliver
  <1>2. \A o \in conn.batch : o \in Events /\ o.id \in Nat
    BY EventKinds DEF Types, Connections
  <1>3. conn.phase = "live" /\ UNCHANGED <<version, ledger>>
    BY DEF Deliver
  <1>4. /\ conn'.phase = "live" /\ conn'.resumed = conn.resumed
        /\ conn'.batch = conn.batch \ {e} /\ conn'.cursor = e.id
    BY <1>1, <1>3 DEF Types, Connections
  <1>5. Shown(e).last = e.id
    BY DEF Shown, Types
  <1> QED BY <1>1, <1>2, <1>3, <1>4, <1>5

LEMMA DeliverSnapshot ==
    ASSUME Types, StreamInv, Deliver, NEW n \in DOMAIN ledger, SnapshotAt(n)
    PROVE  StreamInv' /\ client'.last > conn.cursor
  <1>0. n \in Nat
    BY LedgerFacts DEF Types
  <1> DEFINE last == n * STREAM_ID_STRIDE
  <1>1. PICK e \in conn.batch :
            /\ client' = Shown(e)
            /\ conn'.phase = "live" /\ conn'.resumed = conn.resumed
            /\ conn'.batch = conn.batch \ {e} /\ conn'.cursor = e.id
            /\ torn' = CASE e.kind = "snapshot" -> conn.during
                         [] e.kind = "graph"    -> torn \ {e.incident}
                         [] OTHER               -> torn
            /\ UNCHANGED <<version, ledger>>
            /\ client'.last = e.id
    BY DeliverPicks
  <1>2. e.id = last /\ e.kind = "snapshot" /\ conn'.batch = {}
    BY <1>1 DEF SnapshotAt
  <1>3. /\ client'.incidents = conn.incidents /\ client'.edges = conn.edges
        /\ client'.last = last /\ torn' = conn.during /\ conn'.cursor = last
    BY <1>1, <1>2 DEF Shown
  <1>4. Used(ledger', last)
    <2>1. last = n * STREAM_ID_STRIDE + 0
      BY <1>0 DEF STREAM_ID_STRIDE
    <2> QED BY <1>1, <2>1 DEF Used
  <1>5. ASSUME NEW i \in Incidents \ conn.during
        PROVE  /\ Fresh(conn.incidents, ledger, version, i, 1, last)
               /\ Fresh(conn.edges, ledger, version, i, 2, last)
    <2>1. CASE conn.incidents[i] = version[i] /\ conn.edges[i] = version[i]
      BY <2>1 DEF Fresh
    <2>2. CASE \E m \in DOMAIN ledger : ledger[m].incident = i /\ m > n
      <3>1. PICK m \in DOMAIN ledger : ledger[m].incident = i /\ m > n
        BY <2>2
      <3>2. m \in Nat
        BY LedgerFacts DEF Types
      <3>3. Unread(m, 1, last) /\ Unread(m, 2, last)
        BY <1>0, <3>1, <3>2, UnreadAfterSnapshot
      <3> QED BY <3>1, <3>3 DEF Fresh, Behind
    <2> QED BY <2>1, <2>2 DEF SnapshotAt
  <1>6. ClientCurrent'
    BY <1>1, <1>3, <1>5 DEF ClientCurrent
  <1>7. \A m \in DOMAIN ledger : last # m * STREAM_ID_STRIDE + 1
    BY <1>0, LedgerFacts DEF STREAM_ID_STRIDE, Types
  <1>8. HalfRow'
    BY <1>1, <1>3, <1>7 DEF HalfRow
  <1>9. DeltasOK'
    BY <1>2 DEF DeltasOK, Listed
  <1>10. SnapshotOK' /\ CursorOK' /\ BatchOK'
    BY <1>1, <1>3, <1>9 DEF SnapshotOK, CursorOK, BatchOK
  <1>11. client'.last > conn.cursor
    BY <1>3 DEF SnapshotAt
  <1> QED BY <1>3, <1>4, <1>6, <1>8, <1>10, <1>11 DEF StreamInv

\* The least of the events on their way is sent: what was unread and is not
\* that event is still unread.
LEMMA StillUnread ==
    ASSUME Types, DeltasOK, NEW e \in conn.batch,
           \A o \in conn.batch : o.id \in Nat /\ e.id <= o.id,
           NEW n \in DOMAIN ledger, NEW k \in 1 .. 4, e.id = n * STREAM_ID_STRIDE + k,
           NEW m \in DOMAIN ledger, NEW j \in 1 .. 4,
           Unread(m, j, conn.cursor), ~(m = n /\ j = k)
    PROVE  Unread(m, j, e.id)
  <1>0. n \in Nat /\ m \in Nat
    BY LedgerFacts DEF Types
  <1>1. m * STREAM_ID_STRIDE + j # n * STREAM_ID_STRIDE + k
    BY <1>0 DEF STREAM_ID_STRIDE
  <1>2. Listed(m, j, conn.batch)
    BY DEF DeltasOK
  <1>3. m * STREAM_ID_STRIDE + j \in Nat /\ n * STREAM_ID_STRIDE + k \in Nat
    BY <1>0 DEF STREAM_ID_STRIDE
  <1>4. m * STREAM_ID_STRIDE + j > n * STREAM_ID_STRIDE + k
    BY <1>1, <1>2, <1>3 DEF Listed
  <1> QED BY <1>0, <1>4, UnreadAfterEvent

\* What is unread after an event was unread before it.
LEMMA UnreadBefore ==
    ASSUME NEW c \in Nat, NEW n \in Nat, NEW k \in 1 .. 4, Unread(n, k, c),
           NEW m \in Nat, NEW j \in 1 .. 4, Unread(m, j, n * STREAM_ID_STRIDE + k)
    PROVE  Unread(m, j, c)
  <1>1. m * STREAM_ID_STRIDE + j > n * STREAM_ID_STRIDE + k
    BY UnreadAfterEvent
  <1>2. m >= n
    BY <1>1 DEF STREAM_ID_STRIDE
  <1>3. FirstUnread(c) \in Nat
    BY FirstUnreadType
  <1>4. n * STREAM_ID_STRIDE + k \in Nat /\ m * STREAM_ID_STRIDE + j \in Nat
    BY DEF STREAM_ID_STRIDE
  <1> QED BY <1>1, <1>2, <1>3, <1>4 DEF Unread

LEMMA DeliverDeltas ==
    ASSUME Types, DeltasOK, NEW e \in conn.batch,
           \A o \in conn.batch : o.id \in Nat /\ e.id <= o.id,
           NEW n \in DOMAIN ledger, NEW k \in 1 .. 4, EventOK(e, n, k),
           conn'.batch = conn.batch \ {e}, conn'.cursor = e.id,
           UNCHANGED <<version, ledger>>
    PROVE  DeltasOK'
  <1>0. n \in Nat /\ \A m \in DOMAIN ledger : m \in Nat
    BY LedgerFacts DEF Types
  <1>1. e.id = n * STREAM_ID_STRIDE + k
    BY DEF EventOK
  <1>2. ASSUME NEW o \in conn.batch, o # e
        PROVE  \E m \in DOMAIN ledger, j \in 1 .. 4 : EventOK(o, m, j)'
    <2>1. PICK m \in DOMAIN ledger, j \in 1 .. 4 : EventOK(o, m, j)
      BY DEF DeltasOK
    <2>2. o.id # e.id
      BY <1>2 DEF DeltasOK
    <2>3. Unread(m, j, conn.cursor) /\ o.id = m * STREAM_ID_STRIDE + j
      BY <2>1 DEF EventOK
    <2>4. Unread(m, j, e.id)
      BY <1>1, <2>2, <2>3, StillUnread
    <2>5. Outdated(o, ledger, conn.batch) => Outdated(o, ledger, conn.batch \ {e})
      BY DEF Outdated
    <2> QED BY <2>1, <2>4, <2>5 DEF EventOK
  <1>3. ASSUME NEW m \in DOMAIN ledger, NEW j \in 1 .. 4, Unread(m, j, e.id)
        PROVE  Listed(m, j, conn.batch \ {e})
    <2>1. conn.cursor \in Nat /\ Unread(n, k, conn.cursor)
      BY DEF Types, Connections, EventOK
    <2>2. Unread(m, j, conn.cursor)
      BY <1>0, <1>1, <1>3, <2>1, UnreadBefore
    <2>3. Listed(m, j, conn.batch)
      BY <2>2 DEF DeltasOK
    <2>4. m * STREAM_ID_STRIDE + j # e.id
      <3>1. m * STREAM_ID_STRIDE + j > n * STREAM_ID_STRIDE + k
        BY <1>0, <1>1, <1>3, UnreadAfterEvent
      <3>2. m * STREAM_ID_STRIDE + j \in Nat /\ n * STREAM_ID_STRIDE + k \in Nat
        BY <1>0 DEF STREAM_ID_STRIDE
      <3> QED BY <1>1, <3>1, <3>2
    <2> QED BY <2>3, <2>4 DEF Listed
  <1>4. \A o, p \in conn.batch \ {e} : o.id = p.id => o = p
    BY DEF DeltasOK
  <1>5. \A o \in conn'.batch : \E m \in DOMAIN ledger', j \in 1 .. 4 : EventOK(o, m, j)'
    BY <1>2
  <1>6. \A m \in DOMAIN ledger', j \in 1 .. 4 :
            Unread(m, j, conn'.cursor) => Listed(m, j, conn'.batch)
    BY <1>3
  <1> QED BY <1>4, <1>5, <1>6 DEF DeltasOK
\* What the event does not replace stays as fresh as it was,
LEMMA KeptFresh ==
    ASSUME Types, DeltasOK, NEW e \in conn.batch,
           \A o \in conn.batch : o.id \in Nat /\ e.id <= o.id,
           NEW n \in DOMAIN ledger, NEW k \in 1 .. 4, EventOK(e, n, k),
           NEW shown, NEW i \in Incidents, NEW j \in 1 .. 4, i # e.incident \/ j # k,
           Fresh(shown, ledger, version, i, j, conn.cursor)
    PROVE  Fresh(shown, ledger, version, i, j, e.id)
  <1>1. CASE shown[i] = version[i]
    BY <1>1 DEF Fresh
  <1>2. CASE Behind(ledger, i, j, conn.cursor)
    <2>1. PICK m \in DOMAIN ledger : ledger[m].incident = i /\ Unread(m, j, conn.cursor)
      BY <1>2 DEF Behind
    <2>2. ~(m = n /\ j = k) /\ e.id = n * STREAM_ID_STRIDE + k
      BY <2>1 DEF EventOK
    <2>3. Unread(m, j, e.id)
      BY <2>1, <2>2, StillUnread
    <2> QED BY <2>1, <2>3 DEF Fresh, Behind
  <1> QED BY <1>1, <1>2 DEF Fresh

\* and what it replaces is fresh.
LEMMA ReplacedFresh ==
    ASSUME Types, DeltasOK, NEW e \in conn.batch,
           NEW n \in DOMAIN ledger, NEW k \in 1 .. 4, EventOK(e, n, k),
           NEW shown, NEW j \in 1 .. 4, shown[e.incident] = e.state
    PROVE  Fresh(shown, ledger, version, e.incident, j, e.id)
  <1>0. n \in Nat /\ \A m \in DOMAIN ledger : m \in Nat
    BY LedgerFacts DEF Types
  <1>1. e.id = n * STREAM_ID_STRIDE + k
    BY DEF EventOK
  <1>2. CASE e.state = version[e.incident]
    BY <1>2 DEF Fresh
  <1>3. CASE Outdated(e, ledger, conn.batch)
    <2>1. PICK m \in DOMAIN ledger : /\ ledger[m].incident = e.incident
                                     /\ e.id < m * STREAM_ID_STRIDE
      BY <1>3 DEF Outdated
    <2>2. m * STREAM_ID_STRIDE + j > n * STREAM_ID_STRIDE + k
      BY <1>0, <1>1, <2>1 DEF STREAM_ID_STRIDE
    <2>3. Unread(m, j, e.id)
      BY <1>0, <1>1, <2>2, UnreadAfterEvent
    <2> QED BY <2>1, <2>3 DEF Fresh, Behind
  <1> QED BY <1>2, <1>3 DEF EventOK

\* The second event of a row is sent right after the first.
LEMMA SecondAfterFirst ==
    ASSUME Types, DeltasOK, NEW e \in conn.batch,
           \A o \in conn.batch : o.id \in Nat /\ e.id <= o.id,
           NEW n \in DOMAIN ledger, EventOK(e, n, 2)
    PROVE  conn.cursor = n * STREAM_ID_STRIDE + 1
  <1>0. n \in Nat /\ conn.cursor \in Nat
    BY LedgerFacts DEF Types, Connections
  <1>1. e.id = n * STREAM_ID_STRIDE + 2 /\ Unread(n, 2, conn.cursor)
    BY DEF EventOK
  <1>2. ~Unread(n, 1, conn.cursor)
    <2>1. SUFFICES ASSUME Unread(n, 1, conn.cursor) PROVE FALSE
      OBVIOUS
    <2>2. Unread(n, 1, e.id)
      BY <1>1, <2>1, StillUnread
    <2>3. n * STREAM_ID_STRIDE + 1 > n * STREAM_ID_STRIDE + 2
      BY <1>0, <1>1, <2>2, UnreadAfterEvent
    <2> QED BY <1>0, <2>3 DEF STREAM_ID_STRIDE
  <1> QED BY <1>0, <1>1, <1>2 DEF Unread, STREAM_ID_STRIDE

LEMMA DeliverClient ==
    ASSUME Types, StreamInv, DeltasOK, conn.cursor = client.last, NEW e \in conn.batch,
           \A o \in conn.batch : o.id \in Nat /\ e.id <= o.id,
           NEW n \in DOMAIN ledger, NEW k \in 1 .. 4, EventOK(e, n, k),
           client' = Shown(e), client'.last = e.id,
           torn' = CASE e.kind = "snapshot" -> conn.during
                     [] e.kind = "graph"    -> torn \ {e.incident}
                     [] OTHER               -> torn,
           UNCHANGED <<version, ledger>>
    PROVE  Used(ledger, client.last)' /\ ClientCurrent' /\ HalfRow'
  <1>0. n \in Nat /\ \A m \in DOMAIN ledger : m \in Nat
    BY LedgerFacts DEF Types
  <1>1. e.id = n * STREAM_ID_STRIDE + k /\ e.kind = Kinds[k] /\ e.incident = ledger[n].incident
    BY DEF EventOK
  <1>2. e.incident \in Incidents
    BY <1>1, LedgerFacts DEF Types
  <1>3. Used(ledger, client.last)'
    BY <1>1 DEF Used
  <1>4. /\ e.kind # "snapshot"
        /\ e.kind = "incident" <=> k = 1
        /\ e.kind = "graph" <=> k = 2
    BY <1>1, KindIs
  <1>5. ASSUME NEW shown, NEW i \in Incidents, NEW j \in 1 .. 4, i # e.incident \/ j # k,
               Fresh(shown, ledger, version, i, j, client.last)
        PROVE  Fresh(shown, ledger, version, i, j, e.id)
    BY <1>5, KeptFresh
  <1>6. ASSUME NEW shown, NEW j \in 1 .. 4, shown[e.incident] = e.state
        PROVE  Fresh(shown, ledger, version, e.incident, j, e.id)
    BY <1>6, ReplacedFresh
  <1>7. ASSUME NEW i \in Incidents \ torn
        PROVE  /\ Fresh(client.incidents, ledger, version, i, 1, client.last)
               /\ Fresh(client.edges, ledger, version, i, 2, client.last)
    BY DEF StreamInv, ClientCurrent
  <1>8. client.incidents \in [Incidents -> Nat] /\ client.edges \in [Incidents -> Nat]
    BY DEF Types
  <1>9. ASSUME NEW shown, NEW other, NEW i \in Incidents, NEW j \in 1 .. 4,
               shown[i] = other[i], Fresh(shown, ledger, version, i, j, client.last),
               i # e.incident \/ j # k
        PROVE  Fresh(other, ledger, version, i, j, e.id)
    <2>1. Fresh(other, ledger, version, i, j, client.last)
      BY <1>9 DEF Fresh
    <2> QED BY <1>5, <1>9, <2>1
  <1>10. CASE k = 1
    <2>1. /\ client'.incidents = [client.incidents EXCEPT ![e.incident] = e.state]
          /\ client'.edges = client.edges /\ torn' = torn
      BY <1>4, <1>10 DEF Shown, Types
    <2>2. /\ client'.incidents[e.incident] = e.state
          /\ \A i \in Incidents : i # e.incident => client'.incidents[i] = client.incidents[i]
      BY <1>2, <1>8, <2>1
    <2>3. Fresh(client'.incidents, ledger, version, e.incident, 1, e.id)
      BY <1>6, <2>2
    <2>4. ASSUME NEW i \in Incidents \ torn
          PROVE  /\ Fresh(client'.incidents, ledger, version, i, 1, e.id)
                 /\ Fresh(client'.edges, ledger, version, i, 2, e.id)
      <3>1. Fresh(client.edges, ledger, version, i, 2, e.id)
        BY <1>5, <1>7, <1>10
      <3>2. CASE i = e.incident
        BY <2>1, <2>3, <3>1, <3>2
      <3>3. CASE i # e.incident
        <4>1. client'.incidents[i] = client.incidents[i]
          BY <2>2, <3>3
        <4>2. Fresh(client'.incidents, ledger, version, i, 1, e.id)
          BY <1>7, <1>9, <3>3, <4>1
        <4> QED BY <2>1, <3>1, <4>2
      <3> QED BY <3>2, <3>3
    <2>5. ClientCurrent'
      BY <2>1, <2>4 DEF ClientCurrent
    <2>6. HalfRow'
      <3>1. ASSUME NEW m \in DOMAIN ledger, e.id = m * STREAM_ID_STRIDE + 1
            PROVE  m = n
        BY <1>0, <1>1, <1>10, <3>1 DEF STREAM_ID_STRIDE
      <3> QED BY <1>1, <2>3, <3>1 DEF HalfRow
    <2> QED BY <1>3, <2>5, <2>6
  <1>11. ASSUME k # 1 PROVE HalfRow'
    <2>1. \A m \in DOMAIN ledger : e.id # m * STREAM_ID_STRIDE + 1
      BY <1>0, <1>1, <1>11 DEF STREAM_ID_STRIDE
    <2> QED BY <2>1 DEF HalfRow
  <1>12. CASE k = 2
    <2>1. /\ client'.edges = [client.edges EXCEPT ![e.incident] = e.state]
          /\ client'.incidents = client.incidents /\ torn' = torn \ {e.incident}
      BY <1>4, <1>12 DEF Shown, Types
    <2>2. /\ client'.edges[e.incident] = e.state
          /\ \A i \in Incidents : i # e.incident => client'.edges[i] = client.edges[i]
      BY <1>2, <1>8, <2>1
    <2>3. Fresh(client'.edges, ledger, version, e.incident, 2, e.id)
      BY <1>6, <2>2
    <2>4. Fresh(client.incidents, ledger, version, e.incident, 1, e.id)
      <3>1. client.last = n * STREAM_ID_STRIDE + 1
        BY <1>12, SecondAfterFirst
      <3>2. Fresh(client.incidents, ledger, version, e.incident, 1, client.last)
        BY <1>1, <3>1 DEF StreamInv, HalfRow
      <3> QED BY <1>2, <1>5, <1>12, <3>2
    <2>5. ASSUME NEW i \in Incidents \ torn'
          PROVE  /\ Fresh(client'.incidents, ledger, version, i, 1, e.id)
                 /\ Fresh(client'.edges, ledger, version, i, 2, e.id)
      <3>1. CASE i = e.incident
        BY <2>1, <2>3, <2>4, <3>1
      <3>2. CASE i # e.incident
        <4>1. i \in Incidents \ torn
          BY <2>1, <3>2
        <4>2. client'.edges[i] = client.edges[i]
          BY <2>2, <3>2
        <4>3. Fresh(client'.edges, ledger, version, i, 2, e.id)
          BY <1>7, <1>9, <3>2, <4>1, <4>2
        <4>4. Fresh(client.incidents, ledger, version, i, 1, e.id)
          BY <1>5, <1>7, <3>2, <4>1
        <4> QED BY <2>1, <4>3, <4>4
      <3> QED BY <3>1, <3>2
    <2>6. ClientCurrent'
      BY <2>5 DEF ClientCurrent
    <2> QED BY <1>3, <1>11, <1>12, <2>6
  <1>13. CASE k # 1 /\ k # 2
    <2>1. client'.edges = client.edges /\ client'.incidents = client.incidents /\ torn' = torn
      BY <1>4, <1>13 DEF Shown, Types
    <2>2. ASSUME NEW i \in Incidents \ torn
          PROVE  /\ Fresh(client.incidents, ledger, version, i, 1, e.id)
                 /\ Fresh(client.edges, ledger, version, i, 2, e.id)
      BY <1>5, <1>7, <1>13
    <2>3. ClientCurrent'
      BY <2>1, <2>2 DEF ClientCurrent
    <2> QED BY <1>3, <1>11, <1>13, <2>3
  <1> QED BY <1>10, <1>12, <1>13

LEMMA DeliverStream ==
    ASSUME Types, StreamInv, Deliver
    PROVE  StreamInv' /\ client'.last > conn.cursor
  <1>1. CASE \E n \in DOMAIN ledger : SnapshotAt(n)
    BY <1>1, DeliverSnapshot
  <1>2. CASE DeltasOK /\ conn.cursor = client.last
    <2>1. PICK e \in conn.batch :
              /\ e \in Events /\ e.id \in Nat
              /\ \A o \in conn.batch : o.id \in Nat /\ e.id <= o.id
              /\ client' = Shown(e)
              /\ conn'.phase = "live" /\ conn'.resumed = conn.resumed
              /\ conn'.batch = conn.batch \ {e} /\ conn'.cursor = e.id
              /\ torn' = CASE e.kind = "snapshot" -> conn.during
                           [] e.kind = "graph"    -> torn \ {e.incident}
                           [] OTHER               -> torn
              /\ UNCHANGED <<version, ledger>>
              /\ client'.last = e.id
      BY DeliverPicks
    <2>2. PICK n \in DOMAIN ledger, k \in 1 .. 4 : EventOK(e, n, k)
      BY <1>2 DEF DeltasOK
    <2>3. Used(ledger, client.last)' /\ ClientCurrent' /\ HalfRow'
      BY <1>2, <2>1, <2>2, DeliverClient
    <2>4. DeltasOK'
      BY <1>2, <2>1, <2>2, DeliverDeltas
    <2>5. SnapshotOK' /\ CursorOK' /\ BatchOK'
      BY <2>1, <2>4 DEF SnapshotOK, CursorOK, BatchOK
    <2>6. client'.last > conn.cursor
      BY <2>1, <2>2 DEF EventOK, Unread
    <2> QED BY <2>3, <2>5, <2>6 DEF StreamInv
  <1>3. conn.phase = "live"
    BY DEF Deliver
  <1> QED BY <1>1, <1>2, <1>3 DEF StreamInv, BatchOK

LEMMA NextStream == Types /\ StreamInv /\ [Next]_vars => StreamInv'
  <1> SUFFICES ASSUME Types, StreamInv, [Next]_vars PROVE StreamInv'
    OBVIOUS
  <1>1. CASE UNCHANGED <<version, ledger, altered, conn, client, torn>>
    <2>1. Used(ledger, client.last)' /\ ClientCurrent'
      BY <1>1 DEF StreamInv, ClientCurrent
    <2>2. HalfRow'
      BY <1>1 DEF StreamInv, HalfRow
    <2>3. SnapshotOK' /\ CursorOK'
      BY <1>1 DEF StreamInv, SnapshotOK, CursorOK
    <2>4. DeltasOK' <=> DeltasOK
      BY <1>1 DEF DeltasOK, EventOK
    <2>5. \A n : SnapshotAt(n)' <=> SnapshotAt(n)
      BY <1>1 DEF SnapshotAt
    <2>6. BatchOK'
      BY <1>1, <2>4, <2>5 DEF StreamInv, BatchOK
    <2> QED BY <2>1, <2>2, <2>3, <2>6 DEF StreamInv
  <1>2. RankSweep \/ RankFails \/ UNCHANGED vars => UNCHANGED <<version, ledger, altered, conn, client, torn>>
    BY DEF RankSweep, RankFails, vars
  <1> QED BY <1>1, <1>2, CommitStream, ConnectStream, SnapshotIncidentsStream,
             SnapshotEdgesStream, SnapshotCursorStream, ReadDeltasStream, DeliverStream,
             DropStream DEF Next, StreamStep

LEMMA StreamAlways == Spec => [](Types /\ StreamInv)
  <1>1. Init => Types /\ StreamInv
    BY InitTypes, InitStream
  <1>2. Types /\ StreamInv /\ [Next]_vars => (Types /\ StreamInv)'
    BY NextTypes, NextStream
  <1> QED BY <1>1, <1>2, PTL DEF Spec

\* A delta that is empty leaves no row unread: the row of the cursor is read
\* again, and there is room for one more.
LEMMA NothingUnread ==
    ASSUME Types, NEW c \in Nat, read_delta_events(c) = {},
           NEW n \in DOMAIN ledger, NEW k \in 1 .. 4
    PROVE  ~Unread(n, k, c)
  <1> SUFFICES ASSUME Unread(n, k, c) PROVE FALSE
    OBVIOUS
  <1>1. PICK from \in Nat : from = FirstUnread(c)
    BY FirstUnreadType
  <1>2. n \in Nat /\ n >= from /\ DOMAIN ledger = 1 .. Len(ledger) /\ Len(ledger) \in Nat
    BY <1>1, LedgerFacts DEF Types, Unread
  <1>3. CASE n < from + DeltaLimit
    BY <1>1, <1>3, DeltaComplete
  <1>4. CASE ~(n < from + DeltaLimit)
    <2>1. from + 1 \in DOMAIN ledger /\ from + 1 < from + DeltaLimit
      BY <1>2, <1>4
    <2>2. (from + 1) * STREAM_ID_STRIDE + 1 > c
      BY <1>1 DEF FirstUnread, STREAM_ID_STRIDE
    <2>3. Unread(from + 1, 1, c)
      BY <1>1, <2>2 DEF Unread
    <2> QED BY <1>1, <2>1, <2>3, DeltaComplete
  <1> QED BY <1>3, <1>4

LEMMA StreamGivesCurrent == Types /\ StreamInv => CaughtUpIsCurrent
  <1> SUFFICES ASSUME Types, StreamInv, CaughtUp, NEW i \in Incidents \ torn
               PROVE  client.incidents[i] = version[i] /\ client.edges[i] = version[i]
    BY DEF CaughtUpIsCurrent
  <1>1. conn.phase = "live" /\ conn.batch = {} /\ read_delta_events(conn.cursor) = {}
    BY DEF CaughtUp
  <1>2. conn.cursor = client.last /\ client.last \in Nat
    BY <1>1 DEF StreamInv, BatchOK, SnapshotAt, Types
  <1>3. \A n \in DOMAIN ledger, k \in 1 .. 4 : ~Unread(n, k, client.last)
    BY <1>1, <1>2, NothingUnread
  <1>4. /\ Fresh(client.incidents, ledger, version, i, 1, client.last)
        /\ Fresh(client.edges, ledger, version, i, 2, client.last)
    BY DEF StreamInv, ClientCurrent
  <1> QED BY <1>3, <1>4 DEF Fresh, Behind

\* A client that has read everything behind its cursor shows every incident
\* and its edges as they are, but for what changed while its snapshot was read
\* and has not changed since: whatever is committed between the queries of
\* read_snapshot and read_delta_events, and however often the stream breaks.
THEOREM CaughtUpClientsAreCurrent == Spec => []CaughtUpIsCurrent
  BY StreamAlways, StreamGivesCurrent, PTL

LEMMA OnlyDeliverShows == [Next]_vars => Deliver \/ client' = client
  BY DEF Next, vars, Commit, RankSweep, RankFails, Connect, StreamStep, SnapshotIncidents,
         SnapshotEdges, SnapshotCursor, ReadDeltas, Drop

LEMMA StepReplaysNothing ==
    Types /\ StreamInv /\ [Next]_vars =>
        [client'.last # client.last /\ conn.resumed => client'.last > client.last]_vars
  <1> SUFFICES ASSUME Types, StreamInv, [Next]_vars, client'.last # client.last, conn.resumed
               PROVE  client'.last > client.last
    OBVIOUS
  <1>1. Deliver
    BY OnlyDeliverShows
  <1>2. client'.last > conn.cursor
    BY <1>1, DeliverStream
  <1>3. conn.cursor = client.last
    BY <1>1 DEF Deliver, StreamInv, CursorOK
  <1> QED BY <1>2, <1>3

\* A client that resumes from the last event it has seen is sent no event
\* twice and none out of order: the cursor of a connection and Last-Event-ID.
THEOREM ResumedClientsSeeNothingTwice == Spec => NothingReplayed
  BY StreamAlways, StepReplaysNothing, PTL DEF Spec, NothingReplayed


===============================================================================
