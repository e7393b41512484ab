----------------------------- MODULE EventStream -----------------------------
(***************************************************************************)
(* The ledger and what is read from it behind the write path: the hash     *)
(* chain of raw_events (src/db/hashchain.py, scripts/verify_chain.py), the *)
(* root cause worker (src/graph/root_cause_worker.py) and the dashboard's  *)
(* event stream (src/stream/sse_broker.py) with its client                 *)
(* (web/src/hooks/usePulseGraphStream.ts).                                 *)
(*                                                                         *)
(* A commit is one transaction under Database.write_lock.  The stream      *)
(* reads through a connection of its own, one query at a time and outside  *)
(* any transaction, so a commit may fall between two of its reads.  The    *)
(* state of an incident, and of the edges its alerts have drawn, is the    *)
(* number of commits it has seen.  A hash stands for everything hashed     *)
(* into it, as SHA-256 is taken to do; of an event its fired_at is kept,   *)
(* the one field that the table does not give back as it was hashed.  The  *)
(* events on their way to the client are a set, sent in the order of their *)
(* ids: the rows are read in the order of seq, and the events of a row are *)
(* numbered as they are made.  The row limits of a snapshot are not        *)
(* reached.                                                                *)
(***************************************************************************)
EXTENDS Integers, SequencesExt

CONSTANTS
    Incidents,
    DeltaLimit,     \* raw events read at a time: the row of the cursor is read again, so
                    \* a limit of one would never reach the next row
    FiredAt,        \* external: incident -> the times its monitor may report
    TicksPerMs,     \* the precision of a reported time
    \* Bounds of the instance, none of them in the code:
    MaxCommits,
    MaxDrops,       \* connections that break
    MaxFailures     \* sweeps of the root cause worker that roll back

ASSUME StreamAssumption ==
    /\ DeltaLimit \in Nat \ {0, 1}
    /\ {MaxCommits, MaxDrops, MaxFailures} \subseteq Nat
    /\ TicksPerMs \in Nat \ {0}
    /\ \A i \in Incidents : FiredAt[i] \subseteq [at : Nat, zone : {"utc", "other", "none"}]

VARIABLES
    version,    \* the incidents table: commits each incident has seen
    ledger,     \* raw_events, by seq
    altered,    \* history: the rows whose event the table does not give back as it was
    scope,      \* graph_scope_stats: observed_revision and ranked_revision
    hinted,     \* history: the rounds the stored root cause hints were computed from
    conn,       \* the open stream, as the server sees it
    client,     \* what the dashboard shows, and the last event id it has seen
    torn,       \* history: incidents that changed while the client's snapshot was read
    budget

vars == <<version, ledger, altered, scope, hinted, conn, client, torn, budget>>

-----------------------------------------------------------------------------
(* The ledger *)

GenesisHash == <<>>

compute_row_hash(prevHash, payload) == Append(prevHash, payload)

\* Mutant: the link is taken from the wrong column of the last row.
PrevHashOfPrev == IF ledger = <<>> THEN GenesisHash ELSE Last(ledger).prevHash

\* next_seq_and_prev_hash, read in the transaction that appends.
PrevHash == IF ledger = <<>> THEN GenesisHash ELSE Last(ledger).rowHash

\* _iso: a time is stored in UTC and cut to milliseconds.
_iso(time) == [at |-> time.at - (time.at % TicksPerMs), zone |-> "utc"]

_canonical_payload(decision, time) == [decision |-> decision, firedAt |-> time]

\* What is hashed has the time of the event, what is stored that of the column.
LedgerRow(i, decision, time) ==
    [incident |-> i, decision |-> decision, firedAt |-> _iso(time),
     prevHash |-> PrevHash,
     rowHash |-> compute_row_hash(PrevHash, _canonical_payload(decision, time))]

\* verify_chain of one row: it continues the one before it, and what is stored
\* of it hashes to the hash that is stored.
RowVerifies(rows, n) ==
    /\ rows[n].prevHash = (IF n = 1 THEN GenesisHash ELSE rows[n - 1].rowHash)
    /\ rows[n].rowHash =
          compute_row_hash(rows[n].prevHash, _canonical_payload(rows[n].decision, rows[n].firedAt))

\* It stops at the first of these rows and reports the ledger as tampered with.
Complaints(rows) == {n \in DOMAIN rows : ~RowVerifies(rows, n)}

-----------------------------------------------------------------------------
(* Reading the stream *)

STREAM_ID_STRIDE == 10

Kinds == <<"incident", "graph", "card", "metrics">>

\* Mutant: an event id in the middle of a row resumes after the row.
FirstUnreadSkips(after) == (after \div STREAM_ID_STRIDE) + 1

\* The first raw event read_delta_events asks for: the row of the cursor again
\* if the cursor stands inside the row's four events, the next row otherwise.
FirstUnread(after) ==
    IF after % STREAM_ID_STRIDE = 0
    THEN (after \div STREAM_ID_STRIDE) + 1 ELSE after \div STREAM_ID_STRIDE

\* Mutant: a row that is read again is sent again.
UnsentAll(after, events) == events

\* Of the events of a row, those behind the cursor are not sent again.
Unsent(after, events) == {e \in events : e.id > after}

RowEvents(n) ==
    {[id       |-> n * STREAM_ID_STRIDE + k,
      kind     |-> Kinds[k],
      incident |-> ledger[n].incident,
      state    |-> version[ledger[n].incident]] : k \in 1 .. 4}

\* read_delta_events.  The incident and its edges are read when the delta is
\* made, not when the row was written.  Its queries are one step: what a later
\* one of them sees too new has a row of its own behind the cursor.
read_delta_events(after) ==
    LET from == FirstUnread(after)
        rows == {n \in DOMAIN ledger : n >= from /\ n < from + DeltaLimit}
    IN  Unsent(after, UNION {RowEvents(n) : n \in rows})

\* _latest_stream_id.
LatestStreamId == Len(ledger) * STREAM_ID_STRIDE

-----------------------------------------------------------------------------

Nothing == [i \in Incidents |-> 0]

Closed == [phase |-> "closed", cursor |-> 0, resumed |-> FALSE, incidents |-> Nothing,
           edges |-> Nothing, during |-> {}, batch |-> {}]

Init ==
    /\ version = Nothing
    /\ ledger = <<>>
    /\ altered = {}
    /\ scope = [observed |-> 0, ranked |-> 0]
    /\ hinted = 0
    /\ conn = Closed
    /\ client = [incidents |-> Nothing, edges |-> Nothing, last |-> 0]
    /\ torn = {}
    /\ budget = [commits |-> MaxCommits, drops |-> MaxDrops, failures |-> MaxFailures]

\* _record_round: an alert that is observed bumps the revision of its scope.  A
\* timer, a callback or a bypassed alert is not observed.
RecordRound(isRound) ==
    IF isRound THEN [scope EXCEPT !.observed = @ + 1] ELSE scope

\* incidents.last_alert_at: the column of the incident's newest row.
LastAlertAt(i) ==
    {ledger[n].firedAt : n \in {m \in DOMAIN ledger :
        ledger[m].incident = i /\ \A k \in DOMAIN ledger : ledger[k].incident = i => k <= m}}

\* The fired_at of an event: an alert has its monitor's, and what the timer
\* worker, the sweeper or a callback makes has that of the column.
EventTimes(i, isRound) == IF isRound THEN FiredAt[i] ELSE FiredAt[i] \cup LastAlertAt(i)

\* One persisted decision.
Commit(i, isRound, time) ==
    /\ budget.commits > 0
    /\ budget' = [budget EXCEPT !.commits = @ - 1]
    /\ version' = [version EXCEPT ![i] = @ + 1]
    /\ ledger' = Append(ledger, LedgerRow(i, version[i] + 1, time))
    /\ altered' = IF _iso(time) = time THEN altered ELSE altered \cup {Len(ledger) + 1}
    /\ scope' = RecordRound(isRound)
    /\ conn' = IF conn.phase \in {"edges", "cursor"}
               THEN [conn EXCEPT !.during = @ \cup {i}] ELSE conn
    /\ UNCHANGED <<hinted, client, torn>>

\* Mutant: the sweep marks the scope as of the next round.
RankedRevisionNext == scope.observed + 1

\* Mutant: the revision is stored as unknown.
RankedRevisionUnknown == -1

\* What rank_scope stores: the revision that _dirty_scopes read.
RankedRevision == scope.observed

\* sweep_once: every dirty scope is ranked in one transaction.
RankSweep ==
    /\ scope.ranked < scope.observed
    /\ hinted' = scope.observed
    /\ scope' = [scope EXCEPT !.ranked = RankedRevision]
    /\ UNCHANGED <<version, ledger, altered, conn, client, torn, budget>>

\* An exception rolls the sweep back; _run logs it and tries again.
RankFails ==
    /\ scope.ranked < scope.observed
    /\ budget.failures > 0
    /\ budget' = [budget EXCEPT !.failures = @ - 1]
    /\ UNCHANGED <<version, ledger, altered, scope, hinted, conn, client, torn>>

\* A client connects, from the last event it has seen or from the beginning
\* (the dashboard's proxy forwards no Last-Event-ID).
Connect(resumed) ==
    /\ conn.phase = "closed"
    /\ conn' = [Closed EXCEPT !.phase = "incidents", !.resumed = resumed,
                              !.cursor = IF resumed THEN client.last ELSE 0]
    /\ UNCHANGED <<version, ledger, altered, scope, hinted, client, torn, budget>>

\* read_snapshot, in three queries.
SnapshotIncidents ==
    /\ conn.phase = "incidents"
    /\ conn' = [conn EXCEPT !.phase = "edges", !.incidents = version]
    /\ UNCHANGED <<version, ledger, altered, scope, hinted, client, torn, budget>>

SnapshotEdges ==
    /\ conn.phase = "edges"
    /\ conn' = [conn EXCEPT !.phase = "cursor", !.edges = version]
    /\ UNCHANGED <<version, ledger, altered, scope, hinted, client, torn, budget>>

\* The snapshot is sent unless the client's cursor is past it.
SnapshotCursor ==
    /\ conn.phase = "cursor"
    /\ conn' = [conn EXCEPT !.phase = "live",
                            !.batch = IF LatestStreamId > conn.cursor
                                      THEN {[id |-> LatestStreamId, kind |-> "snapshot"]} ELSE {}]
    /\ UNCHANGED <<version, ledger, altered, scope, hinted, client, torn, budget>>

ReadDeltas ==
    /\ conn.phase = "live" /\ conn.batch = {}
    /\ read_delta_events(conn.cursor) # {}
    /\ conn' = [conn EXCEPT !.batch = read_delta_events(conn.cursor)]
    /\ UNCHANGED <<version, ledger, altered, scope, hinted, client, torn, budget>>

\* The next event, in the order of the rows and of the kinds of each, reaches
\* the client.  A snapshot replaces what it shows.
Shown(e) ==
    CASE e.kind = "snapshot" -> [incidents |-> conn.incidents, edges |-> conn.edges, last |-> e.id]
      [] e.kind = "incident" -> [client EXCEPT !.incidents[e.incident] = e.state, !.last = e.id]
      [] e.kind = "graph"    -> [client EXCEPT !.edges[e.incident] = e.state, !.last = e.id]
      [] OTHER               -> [client EXCEPT !.last = e.id]

Deliver ==
    /\ conn.phase = "live"
    /\ \E e \in conn.batch :
          /\ \A o \in conn.batch : e.id <= o.id
          /\ client' = Shown(e)
          /\ conn' = [conn EXCEPT !.batch = @ \ {e}, !.cursor = e.id]
          /\ torn' = CASE e.kind = "snapshot" -> conn.during
                       [] e.kind = "graph"    -> torn \ {e.incident}
                       [] OTHER               -> torn
    /\ UNCHANGED <<version, ledger, altered, scope, hinted, budget>>

\* The connection breaks, with whatever was on its way.
Drop ==
    /\ conn.phase # "closed"
    /\ budget.drops > 0
    /\ budget' = [budget EXCEPT !.drops = @ - 1]
    /\ conn' = Closed
    /\ UNCHANGED <<version, ledger, altered, scope, hinted, client, torn>>

StreamStep ==
    \/ SnapshotIncidents
    \/ SnapshotEdges
    \/ SnapshotCursor
    \/ ReadDeltas
    \/ Deliver

Next ==
    \/ \E i \in Incidents, isRound \in BOOLEAN :
          \E time \in EventTimes(i, isRound) : Commit(i, isRound, time)
    \/ RankSweep
    \/ RankFails
    \/ \E resumed \in BOOLEAN : Connect(resumed)
    \/ StreamStep
    \/ Drop

\* The worker's loop and the server's loop never stop, and a dashboard
\* reconnects; nothing is asked of commits, failures or broken connections.
Fairness ==
    /\ WF_vars(RankSweep)
    /\ WF_vars(StreamStep)
    /\ WF_vars(\E resumed \in BOOLEAN : Connect(resumed))

Spec == Init /\ [][Next]_vars /\ Fairness

-----------------------------------------------------------------------------
(* Properties *)

Events == [id : Nat, kind : {"snapshot"}]
            \cup [id : Nat, kind : ToSet(Kinds), incident : Incidents, state : Nat]

\* The variables hold what their columns and messages may hold.
TypeOK ==
    /\ version \in [Incidents -> Nat]
    /\ \A n \in DOMAIN ledger : ledger[n].incident \in Incidents
    /\ altered \subseteq DOMAIN ledger
    /\ scope \in [observed : Nat, ranked : Nat]
    /\ hinted \in Nat
    /\ conn.phase \in {"closed", "incidents", "edges", "cursor", "live"}
    /\ conn.cursor \in Nat /\ conn.resumed \in BOOLEAN /\ conn.during \subseteq Incidents
    /\ conn.incidents \in [Incidents -> Nat] /\ conn.edges \in [Incidents -> Nat]
    /\ conn.batch \subseteq Events
    /\ client \in [incidents : [Incidents -> Nat], edges : [Incidents -> Nat], last : Nat]
    /\ torn \subseteq Incidents
    /\ budget \in [commits : Nat, drops : Nat, failures : Nat]

CaughtUp ==
    conn.phase = "live" /\ conn.batch = {} /\ read_delta_events(conn.cursor) = {}

\* A client that has read everything behind its cursor shows every incident
\* and its edges as they are, through broken connections and resumed or
\* repeated snapshots; except what changed while its snapshot was read, which
\* stays stale until it changes again.
CaughtUpIsCurrent ==
    CaughtUp => \A i \in Incidents \ torn :
                    client.incidents[i] = version[i] /\ client.edges[i] = version[i]

\* In a ledger nobody has touched verify_chain objects to exactly the rows whose
\* fired_at the column could not hold: the chain itself is never broken, those
\* rows are reported as tampered with although they are not, and no row is lost,
\* an incident's rows being as many as its changes.
LedgerReadsBack ==
    /\ Complaints(ledger) = altered
    /\ \A i \in Incidents :
        Cardinality({n \in DOMAIN ledger : ledger[n].incident = i}) = version[i]

\* A resumed client gets nothing twice and nothing out of order.
NothingReplayed ==
    [][client'.last # client.last /\ conn.resumed => client'.last > client.last]_vars

\* Once alerts stop, the root cause hints come to rest on all the evidence,
\* although sweeps fail, and the client comes to have read all there is.
ReadersCatchUp ==
    <>[](hinted = scope.observed /\ CaughtUp)
==============================================================================
