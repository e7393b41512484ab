-------------------------------- MODULE Outbox --------------------------------
(***************************************************************************)
(* Delivery: the transactional outbox (the outbox table), the workers that *)
(* drain it (src/outbox/worker.py), the circuit breaker of each channel    *)
(* (channel_health.py), what happens to a backlog (recovery.py) and where  *)
(* urgent traffic goes in an outage (routing.py).                          *)
(*                                                                         *)
(* A database transaction runs under Database.write_lock and is one        *)
(* action.  Provider calls are made without the lock: what a worker reads  *)
(* before a call may be stale after it.                                    *)
(*                                                                         *)
(* A tick is one poll interval.  Times are kept as the ticks that remain:  *)
(* "due" is zero.  A message is the version of the incident it was         *)
(* rendered from; its wording, create/update/resolve and the provider's    *)
(* handle are left out, as are the counters of channel_outages.            *)
(***************************************************************************)
EXTENDS Integers, SequencesExt

CONSTANTS
    Workers,           \* outbox workers that share the database
    Incidents,
    Urgent,            \* incidents of severity critical or high
    Channels,          \* _KNOWN_CHANNELS, or some of them
    FailureThreshold,  \* BreakerConfig.failure_threshold
    HalfOpenAllowance, \* BreakerConfig.half_open_allowance
    ProbeBase, ProbeMax,
    MaxAttempts,       \* OUTBOX_MAX_ATTEMPTS
    BackoffMax,        \* the cap of _exponential_backoff
    ParkDelay,         \* the second a row is parked before the breaker opens
    LeaseTicks,        \* OUTBOX_LEASE_SECONDS
    BatchSize,         \* OUTBOX_BATCH_SIZE
    CallTicks,         \* how long a provider call may take (its timeout)
    Hints,             \* Retry-After values; 0 is none
    \* Bounds of the instance, none of them in the code:
    MaxVersion,        \* changes of one incident
    MaxFaults,         \* calls and probes that fail in one behaviour
    MaxCrashes         \* times a worker dies or abandons its batch

ASSUME OutboxAssumption ==
    /\ Urgent \subseteq Incidents
    /\ Channels \subseteq {"slack", "pagerduty", "email"}
    /\ {FailureThreshold, HalfOpenAllowance, ProbeBase, ProbeMax, MaxAttempts,
        BackoffMax, ParkDelay, LeaseTicks, BatchSize} \subseteq Nat \ {0}
    /\ {CallTicks, MaxVersion, MaxFaults, MaxCrashes} \subseteq Nat
    /\ Hints \subseteq Nat

VARIABLES
    outbox,    \* the outbox table, by outbox_id
    breaker,   \* the channel_health table
    outage,    \* channel_outages: the latest outage of a channel and if it is open
    worker,    \* what each worker holds in memory
    version,   \* the incidents table: how often an incident has changed
    owed,      \* history: the version at the latest intent per incident and channel
    shown,     \* the provider: the version its message of an incident shows
    trace,     \* history per row: calls that delivered it, failures of its own
    budget

vars == <<outbox, breaker, outage, worker, version, owed, shown, trace, budget>>

Rows == DOMAIN outbox
IsPending(r) == outbox[r].status = "pending"
NoVia == "none"
DigestPriority == -1

\* The digest of an outage has an incident id of its own.
DigestOf(c) == <<c, outage[c].number>>
IsDigest(r) == outbox[r].inc \notin Incidents

\* priority_for, with two of its four classes.
PriorityFor(i) == IF i \in Urgent THEN 0 ELSE 2

\* is_failover_worthy
IsFailoverWorthy(priority) == priority <= 1

\* FAILOVER_CHAIN and select_failover: the first fallback that is available.
FailoverChain(c) == CASE c = "slack"     -> <<"pagerduty", "email">>
                      [] c = "pagerduty" -> <<"slack", "email">>
                      [] OTHER           -> <<>>

SelectFailover(c, available) ==
    LET open == {n \in DOMAIN FailoverChain(c) : FailoverChain(c)[n] \in available}
    IN  IF open = {} THEN NoVia ELSE FailoverChain(c)[Min(open)]

NewRow(i, c, priority, of) ==
    [inc |-> i, chan |-> c, status |-> "pending", attempts |-> 0, due |-> 0,
     lease |-> 0, priority |-> priority, failoverOf |-> of, via |-> NoVia,
     supersededBy |-> 0]

Idle == [pc |-> "asleep", probes |-> {}, batch |-> {}, row |-> 0, attempts |-> 0,
         rendered |-> 0, verdict |-> "none", hint |-> 0, parkFor |-> 0,
         newlyDown |-> FALSE, elapsed |-> 0]

NewTrace == [delivered |-> 0, transient |-> 0, fatal |-> FALSE]

\* The history of a row after a verdict about it.
Failed(past, verdict) ==
    [past EXCEPT !.transient = IF verdict = "transient" THEN @ + 1 ELSE @,
                 !.fatal = @ \/ verdict = "fatal"]

\* Rows appended to the table, with their history.
Insert(table, rows) ==
    /\ outbox' = table \o rows
    /\ trace' = trace \o [n \in 1..Len(rows) |-> NewTrace]

Become(w, job) == worker' = [worker EXCEPT ![w] = job]

\* The end of _dispatch: the next row of the batch, or the sleep of _run.
Continue(w) ==
    worker' = [worker EXCEPT ![w] =
                  IF @.batch = {} THEN Idle
                  ELSE [Idle EXCEPT !.pc = "draining", !.batch = worker[w].batch]]

-------------------------------------------------------------------------------
(***************************************************************************)
(* The producer: a decision of the engine changes the incident and inserts *)
(* its intents in the same transaction.                                    *)
(***************************************************************************)
Notify(i, chans) ==
    /\ version[i] < MaxVersion
    /\ version' = [version EXCEPT ![i] = @ + 1]
    /\ LET order == SetToSeq(chans)
       IN  Insert(outbox, [n \in 1..Len(order) |->
                              NewRow(i, order[n], PriorityFor(i), 0)])
    /\ owed' = [owed EXCEPT ![i] = [c \in Channels |->
                                       IF c \in chans THEN version'[i] ELSE @[c]]]
    /\ UNCHANGED <<breaker, outage, worker, shown, budget>>

-------------------------------------------------------------------------------
(***************************************************************************)
(* The circuit breaker: ChannelHealthStore.                                *)
(***************************************************************************)
Least(a, b) == IF a <= b THEN a ELSE b

ProbeDelay(step) == Least(ProbeBase * 2^step, ProbeMax)

IsAvailable(c) == breaker[c].state \in {"CLOSED", "HALF_OPEN"}
Available == {c \in Channels : IsAvailable(c)}
ProbeDueHalfOpen(c) == breaker[c].state = "HALF_OPEN" /\ breaker[c].probeIn = 0

\* probe_due
ProbeDue(c) == breaker[c].state = "OPEN" /\ breaker[c].probeIn = 0

Closed == [state |-> "CLOSED", failures |-> 0, step |-> 0, probeIn |-> 0]

\* record_success: `recovered`
Recovers(c) == breaker[c].state \in {"OPEN", "HALF_OPEN"}

\* record_failure for a verdict that trips the breaker.
TripsOpen(b) == b.state = "CLOSED" /\ b.failures + 1 >= FailureThreshold
AfterFailure(b, hint) ==
    LET failures == b.failures + 1
        again    == [state |-> "OPEN", failures |-> failures, step |-> b.step + 1,
                     probeIn |-> ProbeDelay(b.step + 1)]
    IN  CASE b.state \in {"OPEN", "HALF_OPEN"} -> again
          [] TripsOpen(b) -> [state |-> "OPEN", failures |-> failures, step |-> 0,
                              probeIn |-> IF hint > 0 THEN hint ELSE ProbeDelay(0)]
          [] OTHER        -> [b EXCEPT !.failures = failures]

AfterProbeCloses(b, healthy) ==
    IF healthy THEN Closed
    ELSE [b EXCEPT !.state = "OPEN", !.step = @ + 1, !.probeIn = ProbeDelay(b.step + 1)]

\* record_probe_result
AfterProbe(b, healthy) ==
    IF healthy THEN [b EXCEPT !.state = "HALF_OPEN", !.failures = 0, !.probeIn = 0]
    ELSE [b EXCEPT !.state = "OPEN", !.step = @ + 1, !.probeIn = ProbeDelay(b.step + 1)]

-------------------------------------------------------------------------------
(***************************************************************************)
(* coalesce_pending.                                                       *)
(***************************************************************************)
Intents(r) == {o \in Rows : /\ IsPending(o)
                            /\ outbox[o].inc = outbox[r].inc
                            /\ outbox[o].chan = outbox[r].chan}

CoalesceAll(chans) ==
    [r \in Rows |->
        IF ~IsPending(r) \/ outbox[r].chan \notin chans \/ Intents(r) = {r} THEN outbox[r]
        ELSE [outbox[r] EXCEPT !.status = "superseded", !.supersededBy = Max(Intents(r))]]

CoalesceUnmarked(chans) ==
    [r \in Rows |->
        IF ~IsPending(r) \/ outbox[r].chan \notin chans \/ r = Max(Intents(r)) THEN outbox[r]
        ELSE [outbox[r] EXCEPT !.status = "superseded", !.supersededBy = Max(Intents(r))]]

\* The newest pending intent of an incident on a channel survives, and takes
\* over the newest fallback marker of the ones it replaces.
CoalescePending(chans) ==
    [r \in Rows |->
        LET winner == Max(Intents(r))
            marked == {o \in Intents(r) : outbox[o].via # NoVia}
        IN  IF ~IsPending(r) \/ outbox[r].chan \notin chans THEN outbox[r]
            ELSE IF r # winner
                 THEN [outbox[r] EXCEPT !.status = "superseded", !.supersededBy = winner]
            ELSE IF marked # {} THEN [outbox[r] EXCEPT !.via = outbox[Max(marked)].via]
            ELSE outbox[r]]

-------------------------------------------------------------------------------
(***************************************************************************)
(* The loop of a worker: probe what is down, then claim and drain.         *)
(***************************************************************************)
\* _probe_open_channels reads every breaker; the due ones are probed.
ReadStates(w) ==
    /\ worker[w].pc = "awake"
    /\ Become(w, [Idle EXCEPT !.pc = "probing", !.probes = {c \in Channels : ProbeDue(c)}])
    /\ UNCHANGED <<outbox, breaker, outage, version, owed, shown, trace, budget>>

\* A probe answers; its result is applied to the breaker as it is by then.
\* A healthy one prepares the backlog: coalesce it and, if an outage is on
\* record and something happened in it (either may be so), queue the digest.
ProbeResult(w, c, healthy, eventful) ==
    /\ worker[w].pc = "probing"
    /\ c \in worker[w].probes
    /\ ~healthy => budget.faults < MaxFaults
    /\ breaker' = [breaker EXCEPT ![c] = AfterProbe(@, healthy)]
    /\ IF healthy
       THEN Insert(CoalescePending({c}),
                   IF outage[c].open /\ eventful
                   THEN <<NewRow(DigestOf(c), c, DigestPriority, 0)>> ELSE <<>>)
       ELSE UNCHANGED <<outbox, trace>>
    /\ Become(w, [worker[w] EXCEPT !.probes = @ \ {c}, !.elapsed = 0])
    /\ budget' = [budget EXCEPT !.faults = IF healthy THEN @ ELSE @ + 1]
    /\ UNCHANGED <<outage, version, owed, shown>>

\* ORDER BY priority, outbox_id
Before(table, r, o) == \/ table[r].priority < table[o].priority
                       \/ table[r].priority = table[o].priority /\ r < o

\* How many rows of S come before r.
Rank(table, S, r) == Cardinality({o \in S : Before(table, o, r)})

FirstOf(table, S, n) == {r \in S : Rank(table, S, r) < n}

InOrder(table, S) == [n \in 1..Cardinality(S) |-> CHOOSE r \in S : Rank(table, S, r) = n - 1]

\* The WHERE clause of _claim: a lease that ran out is no lease.
Eligible(row) ==
    row.status = "pending" /\ row.due = 0 /\ row.lease = 0 /\ IsAvailable(row.chan)

\* _poll_once: coalesce, claim a batch, and keep of it what a channel on trial
\* may get.  The rows trimmed stay leased.
Poll(w) ==
    /\ worker[w].pc = "probing"
    /\ worker[w].probes = {}
    /\ IF Available = {}
       THEN Become(w, Idle) /\ UNCHANGED outbox
       ELSE LET table   == CoalescePending(Available)
                claimed == FirstOf(table, {r \in Rows : Eligible(table[r])}, BatchSize)
                trial(c) == {r \in claimed : table[r].chan = c}
                kept    == UNION {IF breaker[c].state = "HALF_OPEN"
                                  THEN FirstOf(table, trial(c), HalfOpenAllowance)
                                  ELSE trial(c) : c \in Channels}
            IN  /\ outbox' = [r \in Rows |-> IF r \in claimed
                                             THEN [table[r] EXCEPT !.lease = LeaseTicks]
                                             ELSE table[r]]
                /\ Become(w, IF kept = {} THEN Idle
                             ELSE [Idle EXCEPT !.pc = "draining",
                                               !.batch = {[id |-> r, attempts |-> table[r].attempts] :
                                                             r \in kept}])
    /\ UNCHANGED <<breaker, outage, version, owed, shown, trace, budget>>

\* The head of _dispatch: render the next row from the incident as it is now,
\* then call the provider without the lock.
Render(w) ==
    /\ worker[w].pc = "draining"
    /\ \E job \in worker[w].batch :
          /\ \A o \in worker[w].batch : o = job \/ Before(outbox, job.id, o.id)
          /\ Become(w, [Idle EXCEPT !.pc = "calling", !.row = job.id, !.attempts = job.attempts,
                                 !.batch = worker[w].batch \ {job},
                                 !.rendered = IF IsDigest(job.id) THEN 0
                                              ELSE version[outbox[job.id].inc]])
    /\ UNCHANGED <<outbox, breaker, outage, version, owed, shown, trace, budget>>

\* The provider shows what was sent last.
Deliver(w) ==
    LET r == worker[w].row
    IN  /\ trace' = [trace EXCEPT ![r].delivered = @ + 1]
        /\ shown' = IF IsDigest(r) THEN shown
                    ELSE [shown EXCEPT ![outbox[r].inc][outbox[r].chan] = worker[w].rendered]

Accept(w) ==
    /\ worker[w].pc = "calling"
    /\ Deliver(w)
    /\ Become(w, [worker[w] EXCEPT !.pc = "accepted"])
    /\ UNCHANGED <<outbox, breaker, outage, version, owed, budget>>

\* The dispatcher raises and classify judges it.  A call may time out although
\* the provider got the message: that is a transport error, channel down.
Reject(w, verdict, hint, delivered) ==
    /\ worker[w].pc = "calling"
    /\ budget.faults < MaxFaults
    /\ delivered => verdict = "down"
    /\ IF delivered THEN Deliver(w)
       ELSE /\ UNCHANGED shown
            /\ trace' = [trace EXCEPT ![worker[w].row] = Failed(@, verdict)]
    /\ Become(w, [worker[w] EXCEPT !.pc = "rejected", !.verdict = verdict, !.hint = hint])
    /\ budget' = [budget EXCEPT !.faults = @ + 1]
    /\ UNCHANGED <<outbox, breaker, outage, version, owed>>

MarkSent(w) ==
    /\ worker[w].pc = "accepted"
    /\ outbox' = [outbox EXCEPT ![worker[w].row] =
                     [@ EXCEPT !.status = "sent", !.lease = 0]]
    /\ Become(w, [worker[w] EXCEPT !.pc = "marked"])
    /\ UNCHANGED <<breaker, outage, version, owed, shown, trace, budget>>

RecordSuccess(w) ==
    LET c == outbox[worker[w].row].chan
    IN  /\ worker[w].pc = "marked"
        /\ outage' = IF Recovers(c) THEN [outage EXCEPT ![c].open = FALSE] ELSE outage
        /\ breaker' = [breaker EXCEPT ![c] = Closed]
        /\ Continue(w)
        /\ UNCHANGED <<outbox, version, owed, shown, trace, budget>>

\* _handle_failure, first transaction: only "channel down" moves the breaker.
RecordFailure(w) ==
    LET c    == outbox[worker[w].row].chan
        down == worker[w].verdict = "down"
        new  == down /\ TripsOpen(breaker[c])
    IN  /\ worker[w].pc = "rejected"
        /\ breaker' = IF down THEN [breaker EXCEPT ![c] = AfterFailure(@, worker[w].hint)]
                              ELSE breaker
        /\ outage' = IF new THEN [outage EXCEPT ![c] = [open |-> TRUE, number |-> @.number + 1]]
                            ELSE outage
        /\ Become(w, [worker[w] EXCEPT !.pc = "settling", !.newlyDown = new,
                         !.parkFor = IF breaker'[c].state = "OPEN" THEN breaker'[c].probeIn
                                                                   ELSE ParkDelay])
        /\ UNCHANGED <<outbox, version, owed, shown, trace, budget>>

ParkCharged(row, job) ==
    [row EXCEPT !.attempts = job.attempts + 1, !.due = job.parkFor, !.lease = 0,
                !.status = IF job.attempts + 1 >= MaxAttempts THEN "dead" ELSE "pending"]

\* _park
Park(row, job) == [row EXCEPT !.due = job.parkFor, !.lease = 0]

RetryFailed(row, job) ==
    [row EXCEPT !.attempts = job.attempts + 1, !.lease = 0, !.status = "failed"]

\* _retry_later, from the attempts the claim read.
RetryLater(row, job) ==
    LET attempts == job.attempts + 1
    IN  [row EXCEPT !.attempts = attempts, !.lease = 0,
                    !.status = IF attempts >= MaxAttempts THEN "dead" ELSE "pending",
                    !.due = IF job.hint > 0 THEN job.hint ELSE Least(2^attempts, BackoffMax)]

\* _handle_failure, second transaction: _dead_letter, _park or _retry_later.
\* None of them looks at the row's present status or lease.
Settle(w) ==
    LET job == worker[w]
    IN  /\ job.pc = "settling"
        /\ outbox' = [outbox EXCEPT ![job.row] =
              CASE job.verdict = "fatal" -> [@ EXCEPT !.status = "dead", !.lease = 0]
                [] job.verdict = "down"  -> Park(@, job)
                [] OTHER                 -> RetryLater(@, job)]
        /\ IF job.verdict = "down" /\ job.newlyDown
           THEN Become(w, [job EXCEPT !.pc = "failingOver"])
           ELSE Continue(w)
        /\ UNCHANGED <<breaker, outage, version, owed, shown, trace, budget>>

\* _failover_pending: every urgent pending row of the channel gets a stand-in
\* on the first available fallback and is marked; it stays pending itself.
FailOver(w) ==
    LET c       == outbox[worker[w].row].chan
        target  == SelectFailover(c, Available \ {c})
        moved   == {r \in Rows : /\ IsPending(r)
                                 /\ outbox[r].chan = c
                                 /\ outbox[r].failoverOf = 0
                                 /\ IsFailoverWorthy(outbox[r].priority)}
        order   == InOrder(outbox, moved)
    IN  /\ worker[w].pc = "failingOver"
        /\ IF target = NoVia THEN UNCHANGED <<outbox, trace>>
           ELSE Insert([r \in Rows |-> IF r \in moved
                                       THEN [outbox[r] EXCEPT !.via = target]
                                       ELSE outbox[r]],
                       [n \in 1..Len(order) |->
                           NewRow(outbox[order[n]].inc, target,
                                  outbox[order[n]].priority, order[n])])
        /\ Continue(w)
        /\ UNCHANGED <<breaker, outage, version, owed, shown, budget>>

-------------------------------------------------------------------------------
\* The process dies, or _run catches an exception and drops what it held: the
\* leases stay in the table, memory is gone.
Crash(w) ==
    /\ worker[w].pc \notin {"asleep", "awake"}
    /\ budget.crashes < MaxCrashes
    /\ Become(w, Idle)
    /\ budget' = [budget EXCEPT !.crashes = @ + 1]
    /\ UNCHANGED <<outbox, breaker, outage, version, owed, shown, trace>>

\* A provider call is in progress and may still take a tick.
InCall(w) == /\ \/ worker[w].pc = "calling"
                \/ worker[w].pc = "probing" /\ worker[w].probes # {}
             /\ worker[w].elapsed < CallTicks

Countdown(n) == IF n > 0 THEN n - 1 ELSE 0

\* Time passes while every worker sleeps or waits for a provider; the work of
\* a transaction takes none.
Tick ==
    /\ \A w \in Workers : worker[w].pc = "asleep" \/ InCall(w)
    /\ outbox' = [r \in Rows |->
          IF IsPending(r) THEN [outbox[r] EXCEPT !.due = Countdown(@), !.lease = Countdown(@)]
                          ELSE outbox[r]]
    /\ breaker' = [c \in Channels |-> [breaker[c] EXCEPT !.probeIn = Countdown(@)]]
    /\ worker' = [w \in Workers |->
          IF worker[w].pc = "asleep" THEN [worker[w] EXCEPT !.pc = "awake"]
                                     ELSE [worker[w] EXCEPT !.elapsed = @ + 1]]
    /\ UNCHANGED <<outage, version, owed, shown, trace, budget>>

-------------------------------------------------------------------------------
Init ==
    /\ outbox = <<>>
    /\ breaker = [c \in Channels |-> Closed]
    /\ outage = [c \in Channels |-> [open |-> FALSE, number |-> 0]]
    /\ worker = [w \in Workers |-> Idle]
    /\ version = [i \in Incidents |-> 0]
    /\ owed = [i \in Incidents |-> [c \in Channels |-> 0]]
    /\ shown = [i \in Incidents |-> [c \in Channels |-> 0]]
    /\ trace = <<>>
    /\ budget = [faults |-> 0, crashes |-> 0]

Verdicts == {"down", "transient", "fatal"}

\* The steps of a worker that depend on no one else.
Step(w) ==
    \/ ReadStates(w) \/ Poll(w) \/ Render(w) \/ MarkSent(w) \/ RecordSuccess(w)
    \/ RecordFailure(w) \/ Settle(w) \/ FailOver(w)

\* A probe or a call comes back, one way or the other.
Answer(w) ==
    \/ \E c \in Channels, healthy, eventful \in BOOLEAN : ProbeResult(w, c, healthy, eventful)
    \/ Accept(w)
    \/ \E verdict \in Verdicts, hint \in Hints, delivered \in BOOLEAN :
          Reject(w, verdict, hint, delivered)

\* The engine addresses Slack, PagerDuty or both; email is only a fallback.
Next ==
    \/ \E i \in Incidents, chans \in SUBSET (Channels \ {"email"}) \ {{}} : Notify(i, chans)
    \/ \E w \in Workers : Step(w) \/ Answer(w) \/ Crash(w)
    \/ Tick

\* The loop of a worker never stops, a call returns by its timeout, and time
\* passes.  Failures are finitely many (MaxFaults): the provider recovers.
Fairness == /\ \A w \in Workers : WF_vars(Step(w)) /\ WF_vars(Answer(w))
            /\ WF_vars(Tick)

SafetySpec == Init /\ [][Next]_vars
Spec == SafetySpec /\ Fairness

-------------------------------------------------------------------------------
(***************************************************************************)
(* Properties.                                                             *)
(***************************************************************************)
Row == [inc : Incidents \cup (Channels \X Nat), chan : Channels,
        status : {"pending", "sent", "dead", "superseded"}, attempts : Nat, due : Nat,
        lease : Nat, priority : {DigestPriority, 0, 2}, failoverOf : Nat,
        via : Channels \cup {NoVia}, supersededBy : Nat]

Breaker == [state : {"CLOSED", "OPEN", "HALF_OPEN"}, failures : Nat, step : Nat,
            probeIn : Nat]

\* The types of the three tables, of the worker's memory and of the history.
TypeOK ==
    /\ \A r \in Rows : outbox[r] \in Row
    /\ breaker \in [Channels -> Breaker]
    /\ outage \in [Channels -> [open : BOOLEAN, number : Nat]]
    /\ \A w \in Workers :
          /\ worker[w].pc \in {"asleep", "awake", "probing", "draining", "calling",
                               "accepted", "marked", "rejected", "settling", "failingOver"}
          /\ worker[w].row \in Rows \cup {0}
          /\ \A job \in worker[w].batch : job.id \in Rows
    /\ version \in [Incidents -> Nat]
    /\ owed \in [Incidents -> [Channels -> Nat]]
    /\ shown \in [Incidents -> [Channels -> Nat]]
    /\ DOMAIN trace = Rows

RowsOf(i, c) == {r \in Rows : outbox[r].inc = i /\ outbox[r].chan = c}

\* The latest intent ended as a dead letter.
GivenUp(i, c) == RowsOf(i, c) # {} /\ outbox[Max(RowsOf(i, c))].status = "dead"

\* No change of an incident is forgotten on a channel it was to reach: what the
\* provider shows is at least as new as the latest intent, or an intent is still
\* pending, or the latest one was dead-lettered.  Coalescing, outages, retries,
\* crashes and calls whose answer is lost may all come in between.  True of the
\* one worker main.py starts; with two, an older rendering may land last.
NothingForgotten ==
    \A i \in Incidents, c \in Channels :
        \/ shown[i][c] >= owed[i][c]
        \/ \E r \in RowsOf(i, c) : IsPending(r)
        \/ GivenUp(i, c)

\* An outage never dead-letters a row: a dead row was rejected for what it is,
\* or failed transiently as often as the retry budget allows.
OutageKillsNothing ==
    \A r \in Rows : outbox[r].status = "dead" =>
        trace[r].fatal \/ trace[r].transient >= MaxAttempts

\* The outage on record is open exactly while the breaker is not closed,
\* whichever of probes, trials and late successes moved it.  True of one worker;
\* with two, a probe may answer after the other worker has closed the breaker.
OutageMatchesBreaker ==
    \A c \in Channels : outage[c].open <=> breaker[c].state # "CLOSED"

\* The note that an incident was already paged through a fallback survives
\* coalescing: the row that replaces a marked one is newer, is for the same
\* incident and channel, and carries the mark.
SupersededKeepsMarker ==
    \A r \in Rows : outbox[r].status = "superseded" =>
        LET w == outbox[r].supersededBy
        IN  /\ w > r /\ outbox[w].inc = outbox[r].inc /\ outbox[w].chan = outbox[r].chan
            /\ outbox[r].via # NoVia => outbox[w].via # NoVia

\* Every change of an incident is shown in the end on every channel it was
\* queued for, unless its intent is dead-lettered.
EveryChangeIsShown ==
    \A i \in Incidents, c \in Channels :
        owed[i][c] > shown[i][c] ~> shown[i][c] >= owed[i][c] \/ GivenUp(i, c)

(***************************************************************************)
(* What the repository says of this code and the code does not do.         *)
(***************************************************************************)
\* docs/resilience-and-scale.md, "so two workers split the queue instead of
\* double-sending": without a crash or a lost answer no row is delivered twice.
NeverSentTwice == \A r \in Rows : trace[r].delivered <= 1

==============================================================================
