---------------------------- MODULE IncidentEngine ----------------------------
(***************************************************************************)
(* The incident engine of PulseGraph: one process, one SQLite database.    *)
(* Alerts are ingested (src/engine/process_event.py through               *)
(* src/db/writer.py), the timer worker turns quiet deadlines into          *)
(* transitions (timer_worker.py, timer_wheel.py), the silence sweeper      *)
(* closes what stopped firing (silence_sweeper.py), signed provider        *)
(* callbacks are reconciled (src/inbound), and the process may die and     *)
(* come back.  Every database transaction runs under Database.write_lock,  *)
(* so a transaction is one action; the timer worker pops due deadlines     *)
(* outside that lock, so popping and persisting are two actions.           *)
(*                                                                         *)
(* Time is an abstract integer clock.  An EWMA (mean + sqrt variance) is   *)
(* abstracted to `predicted`, the gap it predicts, chosen from Gaps.       *)
(* Storm grouping runs in the same transactions after the decision; it     *)
(* moves no incident and no deadline, but re-addresses the queued messages *)
(* of a group's members, so `told` speaks of incidents that are not a      *)
(* member of someone else's storm.                                         *)
(***************************************************************************)
EXTENDS Naturals, IncidentMachine

CONSTANTS
    Keys,               \* alert identities: (stable_fingerprint, scope_key)
    Ids,                \* incident ids uuid4 may produce
    InboundIds,         \* delivery ids of provider callbacks
    Gaps,               \* the gaps an EWMA may predict
    InitialWindow,      \* DEFAULT_INITIAL_WINDOW_MS
    QuietMax,           \* QUIET_WINDOW_MAX_MS
    BatchSpan,          \* INCIDENT_MAX_BATCH_SPAN_MS
    SilenceMultiplier,  \* SILENCE_RESOLVE_MULTIPLIER
    CriticalStretch,    \* _CRITICAL_MULTIPLIER / _MULTIPLIER
    SilenceFloor,       \* SILENCE_RESOLVE_MIN_MS
    SilenceCeiling,     \* SILENCE_RESOLVE_MAX_MS
    HysteresisNum, HysteresisDen,  \* FLAP_HYSTERESIS_FACTOR as a fraction
    HysteresisMax,      \* FLAP_HYSTERESIS_MAX_REOPENS
    FlapThreshold,      \* FLAP_REOPEN_THRESHOLD
    DigestInterval,     \* FLAP_DIGEST_INTERVAL_SECONDS
    \* Bounds of the instance, none of them in the code:
    MaxTime,            \* the clock stops here
    AlertHorizon,       \* no alert arrives after this time
    MaxAlerts,          \* alerts that arrive in one behaviour
    MaxCrashes,         \* times the process dies
    MaxTimerFailures,   \* times persisting a trigger raises
    PollLag             \* ticks a due deadline may wait for the timer worker

ASSUME ConstantsAssumption ==
    /\ {InitialWindow, QuietMax, BatchSpan, SilenceMultiplier, CriticalStretch,
        SilenceFloor, SilenceCeiling, HysteresisNum, HysteresisDen,
        FlapThreshold, MaxTime} \subseteq Nat \ {0}
    /\ {HysteresisMax, DigestInterval, AlertHorizon, MaxAlerts, MaxCrashes,
        MaxTimerFailures, PollLag} \subseteq Nat
    /\ Gaps \subseteq Nat

\* The factor is at least one (1.5), hence so is every power of it that is used.
ASSUME HysteresisAssumption ==
    \A reopens \in 0..HysteresisMax :
        /\ HysteresisDen^reopens \in Nat \ {0}
        /\ HysteresisNum^reopens \in Nat
        /\ HysteresisDen^reopens <= HysteresisNum^reopens

\* The default window of a first alert fits in the batch span (5 s and 10 min).
ASSUME WindowAssumption == InitialWindow <= BatchSpan

VARIABLES
    clock,       \* wall clock, in ticks
    up,          \* the process runs
    bootAt,      \* when it last started
    incidents,   \* the incidents table
    inbound,     \* the inbound_events table
    wheel,       \* TimerWheel._active: deadline per incident (see TimerWheel)
    popped,      \* triggers pop_due returned that are not persisted yet
    timerAlive,  \* the timer worker's task has not ended with an exception
    told,        \* per incident and channel: the state of its last intent
    hist,        \* history, not program state: what really happened
    applications,\* history: how often a callback id moved an incident
    budget       \* how much of the bounds above is used

vars == <<clock, up, bootAt, incidents, inbound, wheel, popped, timerAlive,
          told, hist, applications, budget>>

dbVars == <<incidents, inbound, told, hist, applications>>

None == 0                            \* SQL NULL for a time; the clock starts at 1
Channels == {"slack", "pagerduty"}   \* the channels engine decisions address
Providers == {"slack", "pagerduty"}
Kinds == {"acknowledge", "resolve"}

NoIncident ==
    [key |-> None, bypassed |-> FALSE, severity |-> "other", status |-> NoState,
     quietAt |-> None, firstIngested |-> None, lastIngested |-> None,
     reopenCount |-> 0, flapping |-> FALSE, flapNotified |-> None,
     predicted |-> 0, hasGaps |-> FALSE, resolutionSource |-> "none",
     acknowledged |-> FALSE]

NoCallback == [provider |-> "none", kind |-> "none", incident |-> None,
               from |-> NoState, status |-> "none"]

NoHistory == [reopens |-> 0, lastArrival |-> None, closedBy |-> "none"]

Exists(id) == incidents[id].status # NoState
Active(id) == incidents[id].status \in ActiveStates

-------------------------------------------------------------------------------
(***************************************************************************)
(* Pure parts of the decision.                                             *)
(***************************************************************************)
Least(a, b) == IF a <= b THEN a ELSE b
Most(a, b)  == IF a >= b THEN a ELSE b

\* calculate_quiet_deadline: without a gap history the window is the default
\* one, otherwise the prediction, capped and at least one.
QuietWindow(hasGaps, predicted) ==
    IF hasGaps THEN Most(1, Least(predicted, QuietMax))
               ELSE Least(InitialWindow, QuietMax)

BoundedDeadlineUnbounded(quiet, first, now) == quiet

\* _bounded_deadline: the ceiling counts from the first alert; a breached
\* ceiling fires on the next tick.
BoundedDeadline(quiet, first, now) ==
    IF quiet <= first + BatchSpan THEN quiet ELSE Most(first + BatchSpan, now + 1)

\* _new_incident_state
NewIncidentState(eventStatus) ==
    IF eventStatus = "resolved" THEN "RESOLVED"
                                ELSE TransitionOrStay("OPEN", "ACKNOWLEDGE")

NextStateRevives(state, eventStatus) ==
    IF eventStatus = "resolved" THEN TransitionOrStay(state, "RESOLVE")
                                ELSE "ACKNOWLEDGED"

\* _next_state
NextState(state, eventStatus) ==
    IF eventStatus = "resolved" THEN TransitionOrStay(state, "RESOLVE")
    ELSE CASE state = "RESOLVED" ->
                TransitionOrStay(TransitionOrStay(state, "REOPEN"), "ACKNOWLEDGE")
           [] state = "OPEN" -> TransitionOrStay(state, "ACKNOWLEDGE")
           [] OTHER -> state

SilenceThresholdOneSize(row) ==
    Least(Most(row.predicted * SilenceMultiplier, SilenceFloor), SilenceCeiling)

\* silence_threshold_ms: the incident's own rhythm, never below the floor,
\* stretched for criticals and per counted reopen, never above the ceiling.
SilenceThreshold(row) ==
    LET base    == Most(row.predicted * SilenceMultiplier, SilenceFloor)
        stretch == IF row.severity = "critical" THEN CriticalStretch ELSE 1
        reopens == Least(row.reopenCount, HysteresisMax)
    IN  Least((base * stretch * HysteresisNum^reopens) \div HysteresisDen^reopens,
              SilenceCeiling)

LookupActiveIncident(key) ==
    LET rows == {id \in Ids : Active(id) /\ incidents[id].key = key}
    IN  {id \in rows : \A o \in rows :
            incidents[o].lastIngested <= incidents[id].lastIngested}

\* lookup_incident: the most recently updated row of the identity, resolved
\* ones included.  updated_at and last_ingested_at are stamped together; rows
\* stamped in the same tick are returned in no particular order.
LookupIncident(key) ==
    LET rows == {id \in Ids : Exists(id) /\ incidents[id].key = key}
    IN  {id \in rows : \A o \in rows :
            incidents[o].lastIngested <= incidents[id].lastIngested}

-------------------------------------------------------------------------------
(***************************************************************************)
(* persist_decision.                                                       *)
(***************************************************************************)
\* The upsert: a decision that does not set reopen_count writes its default 0;
\* first_ingested_at, resolution and acknowledgement columns keep their value.
PersistDecision(row, d) ==
    [row EXCEPT
        !.severity      = d.severity,
        !.status        = d.state,
        !.quietAt       = d.quietAt,
        !.firstIngested = IF row.status = NoState THEN clock ELSE row.firstIngested,
        !.lastIngested  = clock,
        !.reopenCount   = d.reopenCount,
        !.flapping      = row.flapping \/ d.isFlapping,
        !.flapNotified  = IF d.isFlapping /\ d.intents # {} THEN clock
                                                            ELSE row.flapNotified,
        !.predicted     = d.predicted,
        !.hasGaps       = d.hasGaps]

\* A decision of the timer worker or the reconciler copies the row's own facts
\* and leaves reopen_count and is_flapping at their defaults.
LifecycleDecision(row, state, intents) ==
    [state |-> state, severity |-> row.severity, quietAt |-> None,
     predicted |-> row.predicted, hasGaps |-> row.hasGaps,
     reopenCount |-> 0, isFlapping |-> FALSE, intents |-> intents]

EnqueueOnce(row, channels, state) ==
    [c \in Channels |-> IF c \in channels /\ row[c] = NoState THEN state ELSE row[c]]

\* The outbox rows a decision inserts, as the last state each channel is told.
Enqueue(row, channels, state) ==
    [c \in Channels |-> IF c \in channels THEN state ELSE row[c]]

ScheduleUnlessArmed(id, quietAt) ==
    wheel' = IF quietAt = None \/ wheel[id] # None THEN wheel
             ELSE [wheel EXCEPT ![id] = quietAt]

\* process_event schedules after the commit, and only a deadline that is set.
Schedule(id, quietAt) ==
    wheel' = IF quietAt = None THEN wheel ELSE [wheel EXCEPT ![id] = quietAt]

Arrive(id, state) ==
    [reopens     |-> IF incidents[id].status = "RESOLVED" /\ state # "RESOLVED"
                     THEN hist[id].reopens + 1 ELSE hist[id].reopens,
     lastArrival |-> clock,
     closedBy    |-> IF Active(id) /\ state = "RESOLVED" THEN "monitor"
                                                         ELSE hist[id].closedBy]

-------------------------------------------------------------------------------
(***************************************************************************)
(* Ingest: DbWriter.process_event, one transaction per normalized event.   *)
(***************************************************************************)
CanIngest == /\ up
             /\ budget.alerts < MaxAlerts
             /\ clock <= AlertHorizon

CountAlert == budget' = [budget EXCEPT !.alerts = @ + 1]

\* build_bypass_artifacts: acknowledged, no quiet deadline, a page and a card,
\* whatever the event's own status says.
BypassDecision ==
    [state |-> "ACKNOWLEDGED", severity |-> "critical", quietAt |-> None,
     predicted |-> 0, hasGaps |-> FALSE, reopenCount |-> 0,
     isFlapping |-> FALSE, intents |-> Channels]

\* A protected critical never enters dedupe: it is a new incident.
IngestBypass(key, eventStatus, id) ==
    /\ CanIngest
    /\ ~Exists(id)
    /\ incidents' = [incidents EXCEPT ![id] =
          [PersistDecision(NoIncident, BypassDecision) EXCEPT !.key = key, !.bypassed = TRUE]]
    /\ told' = [told EXCEPT ![id] = Enqueue(@, Channels, "ACKNOWLEDGED")]
    /\ hist' = [hist EXCEPT ![id] = Arrive(id, "ACKNOWLEDGED")]
    /\ CountAlert
    /\ UNCHANGED <<clock, up, bootAt, inbound, applications, wheel, popped, timerAlive>>

\* No row has this identity: open an incident and create its card.
IngestNew(key, eventStatus, id) ==
    /\ CanIngest
    /\ ~Exists(id)
    /\ LookupIncident(key) = {}
    /\ LET state == NewIncidentState(eventStatus)
           quiet == IF state = "RESOLVED" THEN None ELSE clock + QuietWindow(FALSE, 0)
           d == [state |-> state, severity |-> "other", quietAt |-> quiet,
                 predicted |-> 0, hasGaps |-> FALSE, reopenCount |-> 0,
                 isFlapping |-> FALSE, intents |-> {"slack"}]
       IN  /\ incidents' = [incidents EXCEPT ![id] =
                  [PersistDecision(NoIncident, d) EXCEPT !.key = key]]
           /\ told' = [told EXCEPT ![id] = Enqueue(@, d.intents, d.state)]
           /\ hist' = [hist EXCEPT ![id] = Arrive(id, state)]
           /\ Schedule(id, quiet)
    /\ CountAlert
    /\ UNCHANGED <<clock, up, bootAt, inbound, applications, popped, timerAlive>>

\* What process_event decides for a duplicate of row whose gap predicts `gap`.
DuplicateDecision(row, eventStatus, gap) ==
    LET state    == NextState(row.status, eventStatus)
        resolved == state = "RESOLVED"
        quiet    == IF resolved THEN None
                    ELSE BoundedDeadline(clock + QuietWindow(row.hasGaps, gap),
                                         row.firstIngested, clock)
        reopened == row.status = "RESOLVED" /\ eventStatus # "resolved"
        reopens  == row.reopenCount + (IF reopened THEN 1 ELSE 0)
        flapping == reopens >= FlapThreshold
        \* never notified while flapping reads as notified at the epoch
        notify   == flapping => \/ row.flapNotified = None
                                \/ clock - row.flapNotified >= DigestInterval
    IN  [state |-> state, severity |-> "other", quietAt |-> quiet,
         predicted |-> IF resolved THEN 0 ELSE gap, hasGaps |-> TRUE,
         reopenCount |-> reopens, isFlapping |-> flapping,
         intents |-> IF notify THEN {"slack"} ELSE {}]

\* The identity has a row: coalesce.  is_exact_duplicate always agrees, since
\* every decision copies the identity fields of the incident's last event.
IngestDuplicate(key, eventStatus, id, gap) ==
    /\ CanIngest
    /\ id \in LookupIncident(key)
    /\ LET d == DuplicateDecision(incidents[id], eventStatus, gap)
       IN  /\ incidents' = [incidents EXCEPT ![id] = PersistDecision(@, d)]
           /\ told' = [told EXCEPT ![id] = Enqueue(@, d.intents, d.state)]
           /\ hist' = [hist EXCEPT ![id] = Arrive(id, d.state)]
           /\ Schedule(id, d.quietAt)
    /\ CountAlert
    /\ UNCHANGED <<clock, up, bootAt, inbound, applications, popped, timerAlive>>

-------------------------------------------------------------------------------
(***************************************************************************)
(* TimerWorker._run: pop everything due, then persist one trigger after    *)
(* the other, each in its own transaction.                                 *)
(***************************************************************************)
Due == {id \in Ids : wheel[id] # None /\ wheel[id] <= clock}
Batch == {id \in Ids : popped[id] # None}

PopDue ==
    /\ up /\ timerAlive
    /\ Batch = {}
    /\ Due # {}
    /\ popped' = [id \in Ids |-> IF id \in Due THEN wheel[id] ELSE None]
    /\ wheel' = [id \in Ids |-> IF id \in Due THEN None ELSE wheel[id]]
    /\ UNCHANGED <<clock, up, bootAt, dbVars, timerAlive, budget>>

\* The next trigger of the batch, in deadline order.
NextTrigger(id) == /\ up /\ timerAlive
                   /\ id \in Batch
                   /\ \A o \in Batch : popped[id] <= popped[o]

\* _persist_trigger and _deadline_decision: only an ACKNOWLEDGED incident
\* moves; the trigger's own deadline is not compared with the row's.
PersistTrigger(id) ==
    /\ NextTrigger(id)
    /\ LET next == TransitionState(incidents[id].status, "QUIET_DEADLINE")
           d    == LifecycleDecision(incidents[id], next, {"slack"})
       IN  IF next = NoState
           THEN UNCHANGED <<incidents, told>>
           ELSE /\ incidents' = [incidents EXCEPT ![id] = PersistDecision(@, d)]
                /\ told' = [told EXCEPT ![id] = Enqueue(@, d.intents, next)]
    /\ popped' = [popped EXCEPT ![id] = None]
    /\ UNCHANGED <<clock, up, bootAt, inbound, applications, wheel, timerAlive, hist, budget>>

\* The transaction raises: it rolls back, and the exception ends the task.
TimerWorkerDies(id) ==
    /\ NextTrigger(id)
    /\ budget.timerFailures < MaxTimerFailures
    /\ timerAlive' = FALSE
    /\ popped' = [i \in Ids |-> None]
    /\ budget' = [budget EXCEPT !.timerFailures = @ + 1]
    /\ UNCHANGED <<clock, up, bootAt, dbVars, wheel>>

-------------------------------------------------------------------------------
(***************************************************************************)
(* apply_external_action, reached by a callback and by the sweeper.        *)
(***************************************************************************)
ReconciledSwapped(row, next, kind, source, channels) ==
    LET moved == PersistDecision(row, LifecycleDecision(row, next, channels))
    IN  IF kind = "acknowledge" THEN [moved EXCEPT !.acknowledged = TRUE]
        ELSE [moved EXCEPT !.resolutionSource =
                 IF row.resolutionSource = "none" THEN kind ELSE @]

\* An action that moves the row: the decision, then the COALESCEd columns.
Reconciled(row, next, kind, source, channels) ==
    LET moved == PersistDecision(row, LifecycleDecision(row, next, channels))
    IN  IF kind = "acknowledge" THEN [moved EXCEPT !.acknowledged = TRUE]
        ELSE [moved EXCEPT !.resolutionSource =
                 IF row.resolutionSource = "none" THEN source ELSE @]

AlreadySeenNever(iid) == FALSE

\* already_seen
AlreadySeen(iid) == inbound[iid] # NoCallback

\* slack_interactions and pagerduty_webhooks: one signed callback, one
\* transaction.  A retry repeats the content of the first delivery, and
\* returns before anything is written.  The acting channel gets no intent: its
\* user already sees the result, so it counts as told.
Callback(iid, provider, kind, id) ==
    /\ up
    /\ \/ inbound[iid] = NoCallback
       \/ /\ inbound[iid].provider = provider
          /\ inbound[iid].kind = kind
          /\ inbound[iid].incident = id
    /\ ~AlreadySeen(iid)
    /\ LET from    == incidents[id].status
           trigger == IF kind = "acknowledge" THEN "ACKNOWLEDGE" ELSE "RESOLVE"
           next    == TransitionState(from, trigger)   \* None for an unknown incident
           row     == [provider |-> provider, kind |-> kind, incident |-> id,
                       from |-> from,
                       status |-> IF next = NoState THEN "ignored" ELSE "applied"]
       IN  /\ inbound' = [inbound EXCEPT ![iid] = IF @ = NoCallback THEN row ELSE @]
           /\ IF next = NoState
              THEN UNCHANGED <<incidents, told, hist, applications>>
              ELSE /\ incidents' = [incidents EXCEPT ![id] =
                         Reconciled(@, next, kind, "operator", Channels \ {provider})]
                   /\ told' = [told EXCEPT ![id] = Enqueue(@, Channels, next)]
                   /\ hist' = [hist EXCEPT ![id] = [@ EXCEPT !.closedBy =
                                  IF next = "RESOLVED" THEN "operator" ELSE @]]
                   /\ applications' = [applications EXCEPT ![iid] = @ + 1]
    /\ UNCHANGED <<clock, up, bootAt, wheel, popped, timerAlive, budget>>

OverdueQuiescentOnly ==
    {id \in Ids :
        /\ incidents[id].status = "QUIESCENT"
        /\ clock - incidents[id].lastIngested >= SilenceThreshold(incidents[id])}

\* _candidates: active incidents that have been silent for their threshold.
Overdue == {id \in Ids :
              /\ Active(id)
              /\ clock - incidents[id].lastIngested >= SilenceThreshold(incidents[id])}

\* INFERRED_SILENCE, which the sweep passes instead of the default "operator".
InferredSource == "inferred_silence"

\* sweep_once closes every candidate in one transaction, as the provider
\* "system": both channels are told.  The inbound id of a sweep names the
\* incident and the minute; the floor of the threshold is longer than a minute,
\* so a sweep never meets its own earlier id.
SweepOnce ==
    /\ up
    /\ Overdue # {}
    /\ incidents' = [id \in Ids |->
          IF id \in Overdue
          THEN Reconciled(incidents[id], TransitionState(incidents[id].status, "RESOLVE"),
                          "resolve", InferredSource, Channels)
          ELSE incidents[id]]
    /\ told' = [id \in Ids |-> IF id \in Overdue
                               THEN Enqueue(told[id], Channels, "RESOLVED") ELSE told[id]]
    /\ hist' = [id \in Ids |-> IF id \in Overdue
                               THEN [hist[id] EXCEPT !.closedBy = "silence"] ELSE hist[id]]
    /\ UNCHANGED <<clock, up, bootAt, inbound, applications, wheel, popped,
                   timerAlive, budget>>

-------------------------------------------------------------------------------
(***************************************************************************)
(* Death and restart of the process, and time.                             *)
(***************************************************************************)
\* The wheel and the popped triggers are memory; a graceful stop first drains
\* the popped batch, which is a crash after the last PersistTrigger.
Crash ==
    /\ up
    /\ budget.crashes < MaxCrashes
    /\ up' = FALSE
    /\ wheel' = [id \in Ids |-> None]
    /\ popped' = [id \in Ids |-> None]
    /\ timerAlive' = FALSE
    /\ budget' = [budget EXCEPT !.crashes = @ + 1]
    /\ UNCHANGED <<clock, bootAt, dbVars>>

RecoverableQuiescent == {id \in Ids : /\ incidents[id].status = "QUIESCENT"
                                      /\ incidents[id].quietAt # None
                                      /\ incidents[id].quietAt > clock}

\* recover_persisted_deadlines: ACKNOWLEDGED rows whose deadline is still ahead.
Recoverable == {id \in Ids : /\ incidents[id].status = "ACKNOWLEDGED"
                             /\ incidents[id].quietAt # None
                             /\ incidents[id].quietAt > clock}

\* lifespan: recover the deadlines, then start the workers.
Restart ==
    /\ ~up
    /\ up' = TRUE
    /\ timerAlive' = TRUE
    /\ bootAt' = clock
    /\ wheel' = [id \in Ids |-> IF id \in Recoverable THEN incidents[id].quietAt
                                                      ELSE None]
    /\ UNCHANGED <<clock, dbVars, popped, budget>>

\* Time passes, but no due deadline waits more than PollLag for the worker.
Tick ==
    /\ clock < MaxTime
    /\ up /\ timerAlive => \A id \in Ids :
          /\ wheel[id] # None => clock < wheel[id] + PollLag
          /\ popped[id] # None => clock < popped[id] + PollLag
    /\ clock' = clock + 1
    /\ UNCHANGED <<up, bootAt, dbVars, wheel, popped, timerAlive, budget>>

-------------------------------------------------------------------------------
Init ==
    /\ clock = 1
    /\ up = TRUE
    /\ bootAt = 1
    /\ incidents = [id \in Ids |-> NoIncident]
    /\ inbound = [iid \in InboundIds |-> NoCallback]
    /\ wheel = [id \in Ids |-> None]
    /\ popped = [id \in Ids |-> None]
    /\ timerAlive = TRUE
    /\ told = [id \in Ids |-> [c \in Channels |-> NoState]]
    /\ hist = [id \in Ids |-> NoHistory]
    /\ applications = [iid \in InboundIds |-> 0]
    /\ budget = [alerts |-> 0, crashes |-> 0, timerFailures |-> 0]

EventStatuses == {"firing", "resolved"}

Ingest == \E key \in Keys, eventStatus \in EventStatuses, id \in Ids :
             \/ IngestBypass(key, eventStatus, id)
             \/ IngestNew(key, eventStatus, id)
             \/ \E gap \in Gaps : IngestDuplicate(key, eventStatus, id, gap)

Next ==
    \/ Ingest
    \/ PopDue
    \/ \E id \in Ids : PersistTrigger(id) \/ TimerWorkerDies(id)
    \/ \E iid \in InboundIds, provider \in Providers, kind \in Kinds, id \in Ids :
          Callback(iid, provider, kind, id)
    \/ SweepOnce
    \/ Crash
    \/ Restart
    \/ Tick

\* The workers are polling loops that never stop while the process is up, a
\* supervisor restarts it, and time passes.  Nothing obliges alerts, callbacks
\* or failures to happen.
Fairness ==
    /\ WF_vars(PopDue)
    /\ WF_vars(\E id \in Ids : PersistTrigger(id))
    /\ WF_vars(SweepOnce)
    /\ WF_vars(Restart)
    /\ WF_vars(Tick)

SafetySpec == Init /\ [][Next]_vars
Spec == SafetySpec /\ Fairness

-------------------------------------------------------------------------------
(***************************************************************************)
(* Properties.                                                             *)
(***************************************************************************)
Incident ==
    [key : Keys \cup {None}, bypassed : BOOLEAN, severity : {"critical", "other"},
     status : IncidentState \cup {NoState}, quietAt : Nat,
     firstIngested : Nat, lastIngested : Nat, reopenCount : Nat,
     flapping : BOOLEAN, flapNotified : Nat, predicted : Nat, hasGaps : BOOLEAN,
     resolutionSource : {"none", "operator", "inferred_silence"},
     acknowledged : BOOLEAN]

InboundEvent ==
    [provider : Providers \cup {"none"}, kind : Kinds \cup {"none"},
     incident : Ids \cup {None}, from : IncidentState \cup {NoState},
     status : {"none", "applied", "ignored"}]

History ==
    [reopens : Nat, lastArrival : Nat,
     closedBy : {"none", "monitor", "operator", "silence"}]

Decision ==
    [state : IncidentState, severity : {"critical", "other"}, quietAt : Nat,
     predicted : Nat, hasGaps : BOOLEAN, reopenCount : Nat, isFlapping : BOOLEAN,
     intents : SUBSET Channels]

\* The type of every variable: the columns of the two tables the engine
\* writes, the timer wheel and the bookkeeping of the model.
TypeOK ==
    /\ clock \in Nat \ {0}
    /\ up \in BOOLEAN
    /\ bootAt \in Nat
    /\ incidents \in [Ids -> Incident]
    /\ inbound \in [InboundIds -> InboundEvent]
    /\ wheel \in [Ids -> Nat]
    /\ popped \in [Ids -> Nat]
    /\ timerAlive \in BOOLEAN
    /\ told \in [Ids -> [Channels -> IncidentState \cup {NoState}]]
    /\ hist \in [Ids -> History]
    /\ applications \in [InboundIds -> Nat]
    /\ budget \in [alerts : Nat, crashes : Nat, timerFailures : Nat]

\* No deadline is lost while the process runs: an ACKNOWLEDGED incident that
\* waits for quiet is in the timer wheel, at the deadline its row stores, or in
\* the batch the worker is persisting.  The one exception is a deadline that
\* had passed when the process last started.
TimerArmed ==
    up /\ timerAlive => \A id \in Ids :
        incidents[id].status = "ACKNOWLEDGED" /\ incidents[id].quietAt # None
            => \/ wheel[id] = incidents[id].quietAt
               \/ popped[id] # None
               \/ incidents[id].quietAt <= bootAt

\* Nothing cancels a timer when an incident closes, so the wheel may hold one
\* for an incident that no longer waits; but once the incident is ACKNOWLEDGED
\* again the wheel's deadline is the row's, never an older one.
NoStaleTimer ==
    \A id \in Ids : incidents[id].status = "ACKNOWLEDGED" /\ wheel[id] # None
                        => wheel[id] = incidents[id].quietAt

\* An incident cannot defer its own deadline beyond its batch budget: however
\* many alerts arrive, the deadline is at most BatchSpan after the first alert,
\* or, past that, the tick after the latest one (_bounded_deadline).
DeadlineWithinBudget ==
    \A id \in Ids : LET row == incidents[id] IN
        row.quietAt # None =>
            /\ row.quietAt > row.lastIngested
            /\ \/ row.quietAt <= row.firstIngested + BatchSpan
               \/ row.quietAt = row.lastIngested + 1

\* Exact dedupe never splits a storm: of one identity, at most one incident
\* was opened other than by the critical bypass, over closes and reopens.
OneIncidentPerIdentity ==
    \A i, j \in Ids :
        /\ Exists(i) /\ ~incidents[i].bypassed
        /\ Exists(j) /\ ~incidents[j].bypassed
        /\ incidents[i].key = incidents[j].key
        => i = j

\* Whoever moved an incident, the last card queued for Slack carries its
\* present state; only flap damping may leave the card behind.
SlackCardCurrent ==
    \A id \in Ids : told[id]["slack"] # incidents[id].status
                        => incidents[id].flapping

\* An incident closed by an operator or by the sweeper is closed in PagerDuty
\* as well, whichever channel the operator used.  (A monitor's own `resolved`
\* reaches Slack only.)
PagerHearsEveryClose ==
    \A id \in Ids :
        incidents[id].status = "RESOLVED" /\ hist[id].closedBy \in {"operator", "silence"}
            => told[id]["pagerduty"] = "RESOLVED"

\* A callback moves an incident at most once, however often the provider
\* retries it and whatever happened to the incident in between.
AppliedAtMostOnce == \A iid \in InboundIds : applications[iid] <= 1

\* The sweeper closes an incident only if no alert of it arrived for the
\* silence floor, and a critical one only after the stretched floor, although
\* what it reads is a column that timers and callbacks also move.
SweptOnlyWhenSilent ==
    [][\A id \in Ids :
          Active(id) /\ incidents'[id].status = "RESOLVED" /\ hist'[id].closedBy = "silence"
          => LET stretch == IF incidents[id].severity = "critical" THEN CriticalStretch ELSE 1
             IN  clock - hist[id].lastArrival >= Least(SilenceFloor * stretch, SilenceCeiling)
      ]_vars

\* OPEN is never stored: a new or reopened incident passes through it inside
\* one decision, so no trigger that needs OPEN ever finds it.
NeverOpen == \A id \in Ids : incidents[id].status # "OPEN"

\* The life of an incident is the one IncidentLifecycle describes.
Lifecycle == INSTANCE IncidentLifecycle
                WITH status <- [id \in Ids |-> incidents[id].status]
LifecycleSpec == Lifecycle!Spec

\* No incident stays open forever: once alerts stop, every active incident is
\* closed, over crashes and even if the timer worker has died.
EveryIncidentCloses == \A id \in Ids : Active(id) ~> ~Active(id)

(***************************************************************************)
(* What the repository says of this code and the code does not do.         *)
(***************************************************************************)
\* docs/system-design-gaps.md, "Reopens are counted": reopen_count is how often
\* the incident closed and came back.
ReopensAreCounted == \A id \in Ids : incidents[id].reopenCount = hist[id].reopens

==============================================================================
