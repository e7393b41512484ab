------------------------ MODULE IncidentEngine_proofs ------------------------
(***************************************************************************)
(* Safety of the incident engine for every value of its constants: any     *)
(* number of incidents, alerts, callbacks, crashes and timer failures, and *)
(* any window, span and threshold.                                         *)
(***************************************************************************)
EXTENDS IncidentEngine, TLAPS

\* The states a row is ever in.
StoredStates == {"ACKNOWLEDGED", "QUIESCENT", "RESOLVED"}

\* An id without a row has no timer.
NoTimerWithoutRow ==
    \A id \in Ids : ~Exists(id) => wheel[id] = None /\ popped[id] = None

\* A process that is down holds no timer.
NoTimerWhileDown ==
    ~up => \A id \in Ids : wheel[id] = None /\ popped[id] = None

\* The inductive invariant.  NoStaleTimer needs NeverOpen (an ACKNOWLEDGE from
\* OPEN would clear the deadline and leave the wheel) and NoTimerWithoutRow (a
\* bypass creates an ACKNOWLEDGED row without a deadline).
IInv == /\ TypeOK
        /\ NeverOpen
        /\ NoTimerWithoutRow
        /\ NoTimerWhileDown
        /\ NoStaleTimer
        /\ TimerArmed
        /\ DeadlineWithinBudget

-------------------------------------------------------------------------------
(***************************************************************************)
(* The pure parts of a decision.                                           *)
(***************************************************************************)
\* The lifecycle table over stored states: what each trigger the engine uses
\* yields.
LEMMA TransitionFacts ==
    /\ TransitionOrStay("OPEN", "ACKNOWLEDGE") = "ACKNOWLEDGED"
    /\ \A s \in StoredStates :
          /\ TransitionOrStay(s, "RESOLVE") = "RESOLVED"
          /\ TransitionState(s, "RESOLVE") =
                IF s = "RESOLVED" THEN NoState ELSE "RESOLVED"
          /\ TransitionState(s, "ACKNOWLEDGE") = NoState
          /\ TransitionState(s, "QUIET_DEADLINE") =
                IF s = "ACKNOWLEDGED" THEN "QUIESCENT" ELSE NoState
    /\ \A t \in {"RESOLVE", "ACKNOWLEDGE", "QUIET_DEADLINE"} :
          TransitionState(NoState, t) = NoState
BY DEF TransitionOrStay, TransitionState, StoredStates, ActiveStates, NoState

\* _next_state over stored states: a firing alert reopens a resolved incident
\* and leaves any other where it is.
LEMMA NextStateFacts ==
    ASSUME NEW s \in StoredStates, NEW e \in EventStatuses
    PROVE  NextState(s, e) = IF e = "resolved" THEN "RESOLVED"
                             ELSE IF s = "RESOLVED" THEN "ACKNOWLEDGED" ELSE s
BY DEF NextState, TransitionOrStay, TransitionState, StoredStates, ActiveStates,
       NoState, EventStatuses

\* A quiet window is positive, and a first one fits in the batch span.
LEMMA WindowFacts ==
    /\ \A h \in BOOLEAN, g \in Nat : QuietWindow(h, g) \in Nat \ {0}
    /\ QuietWindow(FALSE, 0) <= BatchSpan
BY ConstantsAssumption, WindowAssumption DEF QuietWindow, Least, Most

\* _bounded_deadline: what comes out lies ahead of now, and within the span of
\* the first alert or on the next tick.
LEMMA BoundedDeadlineFacts ==
    ASSUME NEW now \in Nat, NEW first \in Nat, NEW w \in Nat \ {0}
    PROVE  LET q == BoundedDeadline(now + w, first, now)
           IN  /\ q \in Nat
               /\ q > now
               /\ q <= first + BatchSpan \/ q = now + 1
BY ConstantsAssumption DEF BoundedDeadline, Most

\* persist_decision: what the upsert writes and what it keeps.
LEMMA PersistFacts ==
    ASSUME NEW row \in Incident, NEW d \in Decision, clock \in Nat
    PROVE  LET p == PersistDecision(row, d)
           IN  /\ p \in Incident
               /\ p.status = d.state
               /\ p.quietAt = d.quietAt
               /\ p.lastIngested = clock
               /\ p.firstIngested = IF row.status = NoState THEN clock
                                                            ELSE row.firstIngested
               /\ p.acknowledged = row.acknowledged
<1> DEFINE first == IF row.status = NoState THEN clock ELSE row.firstIngested
           notified == IF d.isFlapping /\ d.intents # {} THEN clock ELSE row.flapNotified
           flaps == row.flapping \/ d.isFlapping
           p == [row EXCEPT
                  !.severity = d.severity, !.status = d.state, !.quietAt = d.quietAt,
                  !.firstIngested = first, !.lastIngested = clock,
                  !.reopenCount = d.reopenCount, !.flapping = flaps,
                  !.flapNotified = notified, !.predicted = d.predicted, !.hasGaps = d.hasGaps]
<1>1. PersistDecision(row, d) = p
  BY DEF PersistDecision
<1>2. /\ d.state \in IncidentState /\ d.severity \in {"critical", "other"}
      /\ d.quietAt \in Nat /\ d.predicted \in Nat /\ d.hasGaps \in BOOLEAN
      /\ d.reopenCount \in Nat
  BY DEF Decision
<1>3. row.firstIngested \in Nat /\ row.flapNotified \in Nat
  BY DEF Incident
<1>4. first \in Nat /\ notified \in Nat /\ flaps \in BOOLEAN
  BY <1>3
<1> HIDE DEF first, notified, flaps
<1>5. p \in Incident
  BY <1>2, <1>4 DEF Incident
<1>6. /\ p.status = d.state /\ p.quietAt = d.quietAt /\ p.lastIngested = clock
      /\ p.firstIngested = first /\ p.acknowledged = row.acknowledged
  BY DEF Incident
<1> QED BY <1>1, <1>5, <1>6 DEF first

\* What process_event decides about a duplicate: a resolved row has no deadline,
\* any other gets one ahead of now and within its budget.
LEMMA DuplicateFacts ==
    ASSUME NEW row \in Incident, row.status \in StoredStates, clock \in Nat,
           NEW e \in EventStatuses, NEW gap \in Gaps
    PROVE  LET d == DuplicateDecision(row, e, gap)
           IN  /\ d \in Decision
               /\ d.state = NextState(row.status, e)
               /\ d.state \in StoredStates
               /\ d.state = "RESOLVED" => d.quietAt = None
               /\ d.state # "RESOLVED" =>
                     /\ d.quietAt > clock
                     /\ \/ d.quietAt <= row.firstIngested + BatchSpan
                        \/ d.quietAt = clock + 1
<1> DEFINE w == QuietWindow(row.hasGaps, gap)
           q == BoundedDeadline(clock + w, row.firstIngested, clock)
           reopens == row.reopenCount
                      + (IF row.status = "RESOLVED" /\ e # "resolved" THEN 1 ELSE 0)
           d == DuplicateDecision(row, e, gap)
<1>1. gap \in Nat /\ row.hasGaps \in BOOLEAN /\ row.firstIngested \in Nat
      /\ row.reopenCount \in Nat
  BY ConstantsAssumption DEF Incident
<1>2. w \in Nat \ {0}
  BY <1>1, WindowFacts
<1>3. q \in Nat /\ q > clock /\ (q <= row.firstIngested + BatchSpan \/ q = clock + 1)
  BY <1>1, <1>2, BoundedDeadlineFacts
<1>4. NextState(row.status, e) \in StoredStates
  BY NextStateFacts DEF StoredStates
<1>5. reopens \in Nat
  BY <1>1
<1>6. /\ d.state = NextState(row.status, e)
      /\ d.severity = "other"
      /\ d.quietAt = IF d.state = "RESOLVED" THEN None ELSE q
      /\ d.predicted = IF d.state = "RESOLVED" THEN 0 ELSE gap
      /\ d.hasGaps = TRUE
      /\ d.reopenCount = reopens
      /\ d.isFlapping = (reopens >= FlapThreshold)
  BY DEF DuplicateDecision
<1>7. d \in Decision
  <2>1. d.intents \in SUBSET Channels
    BY DEF DuplicateDecision, Channels
  <2>2. d = [state |-> d.state, severity |-> d.severity, quietAt |-> d.quietAt,
             predicted |-> d.predicted, hasGaps |-> d.hasGaps,
             reopenCount |-> d.reopenCount, isFlapping |-> d.isFlapping,
             intents |-> d.intents]
    BY DEF DuplicateDecision
  <2>3. d.isFlapping \in BOOLEAN /\ d.hasGaps \in BOOLEAN
    <3>1. (reopens >= FlapThreshold) \in BOOLEAN
      OBVIOUS
    <3> HIDE DEF d, reopens
    <3> QED BY <1>6, <3>1, Zenon
  <2>4. d.state \in IncidentState /\ d.severity \in {"critical", "other"}
    BY <1>4, <1>6 DEF StoredStates, IncidentState
  <2>5. d.quietAt \in Nat /\ d.predicted \in Nat /\ d.reopenCount \in Nat
    BY <1>1, <1>3, <1>5, <1>6 DEF None
  <2> HIDE DEF d
  <2> QED BY <2>1, <2>2, <2>3, <2>4, <2>5 DEF Decision
<1> HIDE DEF d, q, w
<1> QED BY <1>3, <1>4, <1>6, <1>7 DEF d

\* A decision of the timer worker or the reconciler is a decision without a
\* deadline.
LEMMA LifecycleDecisionFacts ==
    ASSUME NEW row \in Incident, NEW s \in StoredStates, NEW ch \in SUBSET Channels
    PROVE  LET d == LifecycleDecision(row, s, ch)
           IN  d \in Decision /\ d.state = s /\ d.quietAt = None
BY DEF LifecycleDecision, Decision, Incident, StoredStates, IncidentState, None

\* An applied external action writes a row without a deadline.
LEMMA ReconciledFacts ==
    ASSUME NEW row \in Incident, NEW s \in StoredStates, NEW ch \in SUBSET Channels,
           NEW kind \in Kinds, NEW src \in {"operator", "inferred_silence"}, clock \in Nat
    PROVE  LET r == Reconciled(row, s, kind, src, ch)
           IN  /\ r \in Incident
               /\ r.status = s
               /\ r.quietAt = None
               /\ kind = "resolve" => r.acknowledged = row.acknowledged
<1> DEFINE d == LifecycleDecision(row, s, ch)
           p == PersistDecision(row, d)
<1>1. d \in Decision /\ d.state = s /\ d.quietAt = None
  BY LifecycleDecisionFacts
<1>2. /\ p \in Incident /\ p.status = s /\ p.quietAt = None
      /\ p.acknowledged = row.acknowledged
  <2> HIDE DEF d
  <2> QED BY <1>1, PersistFacts
<1>3. Reconciled(row, s, kind, src, ch) =
        IF kind = "acknowledge" THEN [p EXCEPT !.acknowledged = TRUE]
        ELSE [p EXCEPT !.resolutionSource =
                 IF row.resolutionSource = "none" THEN src ELSE @]
  BY DEF Reconciled
<1>4. row.resolutionSource \in {"none", "operator", "inferred_silence"}
      /\ p.resolutionSource \in {"none", "operator", "inferred_silence"}
  BY <1>2 DEF Incident
<1> HIDE DEF p
<1>5. CASE kind = "acknowledge"
  <2>1. [p EXCEPT !.acknowledged = TRUE] \in Incident
    <3>1. TRUE \in BOOLEAN
      OBVIOUS
    <3>2. \A b \in BOOLEAN : [p EXCEPT !.acknowledged = b] \in Incident
      BY <1>2 DEF Incident
    <3> QED BY <3>1, <3>2, Zenon
  <2>2. /\ [p EXCEPT !.acknowledged = TRUE].status = p.status
        /\ [p EXCEPT !.acknowledged = TRUE].quietAt = p.quietAt
    BY <1>2 DEF Incident
  <2> QED BY <1>2, <1>3, <1>5, <2>1, <2>2
<1>6. CASE kind = "resolve"
  BY <1>2, <1>3, <1>4, <1>6 DEF Incident
<1> QED BY <1>5, <1>6 DEF Kinds

-------------------------------------------------------------------------------
(***************************************************************************)
(* Types.                                                                  *)
(***************************************************************************)
\* The state a channel was last told stays a state.
LEMMA EnqueueType ==
    ASSUME NEW S, NEW t \in [Channels -> S], NEW ch \in SUBSET Channels, NEW st \in S
    PROVE  Enqueue(t, ch, st) \in [Channels -> S]
BY DEF Enqueue

\* The history of an incident that an alert reached is a history.
LEMMA ArriveType ==
    ASSUME TypeOK, NEW id \in Ids, NEW st
    PROVE  Arrive(id, st) \in History
BY DEF Arrive, TypeOK, History

\* A row that exists is in one of the stored states.
LEMMA RowFacts ==
    ASSUME TypeOK, NeverOpen, NEW id \in Ids
    PROVE  /\ incidents[id] \in Incident
           /\ Exists(id) <=> incidents[id].status \in StoredStates
           /\ Active(id) <=> incidents[id].status \in {"ACKNOWLEDGED", "QUIESCENT"}
<1>1. incidents[id] \in Incident /\ incidents[id].status # "OPEN"
  BY DEF TypeOK, NeverOpen
<1>2. incidents[id].status \in IncidentState \cup {NoState}
  BY <1>1 DEF Incident
<1> QED BY <1>1, <1>2 DEF Exists, Active, ActiveStates, StoredStates, IncidentState, NoState

\* The empty row, before any decision, is a row.
LEMMA NoIncidentType == NoIncident \in Incident
BY DEF NoIncident, Incident, None, NoState

\* The row a bypass writes.
LEMMA BypassRow ==
    ASSUME clock \in Nat, NEW key \in Keys, NEW d \in Decision
    PROVE  LET r == [PersistDecision(NoIncident, d) EXCEPT !.key = key, !.bypassed = TRUE]
           IN  /\ r \in Incident
               /\ r.status = d.state /\ r.quietAt = d.quietAt
               /\ r.firstIngested = clock /\ r.lastIngested = clock
               /\ r.acknowledged = FALSE
<1> DEFINE p == PersistDecision(NoIncident, d)
<1>1. /\ p \in Incident /\ p.status = d.state /\ p.quietAt = d.quietAt
      /\ p.firstIngested = clock /\ p.lastIngested = clock /\ p.acknowledged = FALSE
  BY NoIncidentType, PersistFacts DEF NoIncident
<1> HIDE DEF p
<1>2. \A b \in BOOLEAN : [p EXCEPT !.key = key, !.bypassed = b] \in Incident
  BY <1>1 DEF Incident
<1>3. [p EXCEPT !.key = key, !.bypassed = TRUE] \in Incident
  <2>1. TRUE \in BOOLEAN
    OBVIOUS
  <2> QED BY <1>2, <2>1, Zenon
<1> DEFINE r == [p EXCEPT !.key = key, !.bypassed = TRUE]
<1>4. /\ r.status = p.status /\ r.quietAt = p.quietAt
      /\ r.firstIngested = p.firstIngested /\ r.lastIngested = p.lastIngested
      /\ r.acknowledged = p.acknowledged
  BY <1>1 DEF Incident
<1> QED BY <1>1, <1>3, <1>4 DEF p

\* The row of a new identity.
LEMMA NewRow ==
    ASSUME clock \in Nat, NEW key \in Keys, NEW d \in Decision
    PROVE  LET r == [PersistDecision(NoIncident, d) EXCEPT !.key = key]
           IN  /\ r \in Incident
               /\ r.status = d.state /\ r.quietAt = d.quietAt
               /\ r.firstIngested = clock /\ r.lastIngested = clock
               /\ r.acknowledged = FALSE
<1> DEFINE p == PersistDecision(NoIncident, d)
<1>1. /\ p \in Incident /\ p.status = d.state /\ p.quietAt = d.quietAt
      /\ p.firstIngested = clock /\ p.lastIngested = clock /\ p.acknowledged = FALSE
  BY NoIncidentType, PersistFacts DEF NoIncident
<1> HIDE DEF p
<1> DEFINE r == [p EXCEPT !.key = key]
<1>2. r \in Incident
  BY <1>1 DEF Incident
<1>3. /\ r.status = p.status /\ r.quietAt = p.quietAt
      /\ r.firstIngested = p.firstIngested /\ r.lastIngested = p.lastIngested
      /\ r.acknowledged = p.acknowledged
  BY <1>1 DEF Incident
<1> QED BY <1>1, <1>2, <1>3 DEF p

-------------------------------------------------------------------------------
(***************************************************************************)
(* One row written: the shape of ingest, of a trigger and of a callback.   *)
(***************************************************************************)
\* Writing one row keeps the timer invariants if a deadline it sets is ahead,
\* within budget and scheduled, and an ACKNOWLEDGED row without a deadline has
\* no timer.
LEMMA RowWritten ==
    ASSUME IInv, NEW id \in Ids, NEW r \in Incident,
           incidents' = [incidents EXCEPT ![id] = r],
           r.status \in StoredStates,
           r.quietAt = None \/ /\ r.quietAt > clock
                               /\ \/ r.quietAt <= r.firstIngested + BatchSpan
                                  \/ r.quietAt = clock + 1,
           r.lastIngested = clock,
           wheel' = IF r.quietAt = None THEN wheel ELSE [wheel EXCEPT ![id] = r.quietAt],
           r.status = "ACKNOWLEDGED" /\ r.quietAt = None => wheel[id] = None,
           \A i \in Ids : popped'[i] = popped[i] \/ i = id,
           up, up' = up, bootAt' = bootAt, timerAlive' = timerAlive
    PROVE  /\ NeverOpen'
           /\ NoTimerWithoutRow'
           /\ NoTimerWhileDown'
           /\ NoStaleTimer'
           /\ TimerArmed'
           /\ DeadlineWithinBudget'
<1>1. \A i \in Ids : incidents'[i] = IF i = id THEN r ELSE incidents[i]
  BY DEF IInv, TypeOK
<1>2. \A i \in Ids : i # id => wheel'[i] = wheel[i] /\ popped'[i] = popped[i]
  BY DEF IInv, TypeOK
<1>3. r.quietAt # None => wheel'[id] = r.quietAt
  BY DEF IInv, TypeOK
<1>4. r.quietAt = None => wheel' = wheel
  OBVIOUS
<1>5. NeverOpen'
  BY <1>1 DEF IInv, NeverOpen, StoredStates
<1>6. NoTimerWithoutRow'
  BY <1>1, <1>2 DEF IInv, NoTimerWithoutRow, Exists, StoredStates, NoState
<1>7. NoTimerWhileDown'
  BY DEF NoTimerWhileDown
<1>8. NoStaleTimer'
  BY <1>1, <1>2, <1>3, <1>4 DEF IInv, NoStaleTimer
<1>9. TimerArmed'
  BY <1>1, <1>2, <1>3 DEF IInv, TimerArmed
<1>10. DeadlineWithinBudget'
  BY <1>1 DEF IInv, DeadlineWithinBudget
<1> QED BY <1>5, <1>6, <1>7, <1>8, <1>9, <1>10

LEMMA AlertCounted ==
    ASSUME budget \in [alerts : Nat, crashes : Nat, timerFailures : Nat],
           budget' = [budget EXCEPT !.alerts = @ + 1]
    PROVE  budget' \in [alerts : Nat, crashes : Nat, timerFailures : Nat]
<1>1. budget.alerts + 1 \in Nat
  OBVIOUS
<1> QED BY <1>1

-------------------------------------------------------------------------------
(***************************************************************************)
(* Every action preserves the inductive invariant.                         *)
(***************************************************************************)
\* A protected critical opens a row without a deadline on an id that has no
\* timer.
LEMMA BypassInv ==
    ASSUME IInv, NEW key \in Keys, NEW e \in EventStatuses, NEW id \in Ids,
           IngestBypass(key, e, id)
    PROVE  IInv'
<1> DEFINE d == BypassDecision
           r == [PersistDecision(NoIncident, d) EXCEPT !.key = key, !.bypassed = TRUE]
<1>1. d \in Decision /\ d.state = "ACKNOWLEDGED" /\ d.quietAt = None /\ d.intents = Channels
  BY DEF BypassDecision, Decision, IncidentState, None
<1>2. /\ incidents' = [incidents EXCEPT ![id] = r]
      /\ told' = [told EXCEPT ![id] = Enqueue(@, Channels, "ACKNOWLEDGED")]
      /\ hist' = [hist EXCEPT ![id] = Arrive(id, "ACKNOWLEDGED")]
      /\ budget' = [budget EXCEPT !.alerts = @ + 1]
      /\ ~Exists(id) /\ up
      /\ UNCHANGED <<clock, up, bootAt, inbound, applications, wheel, popped, timerAlive>>
  BY DEF IngestBypass, CanIngest, CountAlert
<1> HIDE DEF d
<1>3. clock \in Nat
  BY DEF IInv, TypeOK
<1>4. /\ r \in Incident
      /\ r.status = "ACKNOWLEDGED" /\ r.quietAt = None /\ r.lastIngested = clock
  BY <1>1, <1>3, BypassRow
<1> HIDE DEF r
<1>5. wheel[id] = None
  BY <1>2 DEF IInv, NoTimerWithoutRow
<1>6. /\ NeverOpen' /\ NoTimerWithoutRow' /\ NoTimerWhileDown'
      /\ NoStaleTimer' /\ TimerArmed' /\ DeadlineWithinBudget'
  BY <1>2, <1>4, <1>5, RowWritten DEF StoredStates
<1>7. TypeOK'
  <2>1. incidents' \in [Ids -> Incident]
    BY <1>2, <1>4 DEF IInv, TypeOK
  <2>2. told' \in [Ids -> [Channels -> IncidentState \cup {NoState}]]
    <3>1. "ACKNOWLEDGED" \in IncidentState \cup {NoState}
      BY DEF IncidentState
    <3>2. told[id] \in [Channels -> IncidentState \cup {NoState}]
      BY DEF IInv, TypeOK
    <3>3. Enqueue(told[id], Channels, "ACKNOWLEDGED") \in [Channels -> IncidentState \cup {NoState}]
      BY <1>1, <3>1, <3>2, EnqueueType
    <3> QED BY <1>2, <3>3 DEF IInv, TypeOK
  <2>3. hist' \in [Ids -> History]
    BY <1>2, ArriveType DEF IInv, TypeOK
  <2>4. budget' \in [alerts : Nat, crashes : Nat, timerFailures : Nat]
    BY <1>2, AlertCounted DEF IInv, TypeOK
  <2> QED BY <1>2, <2>1, <2>2, <2>3, <2>4 DEF IInv, TypeOK
<1> QED BY <1>6, <1>7 DEF IInv

\* A first alert opens a row and schedules the deadline it stores.
LEMMA NewInv ==
    ASSUME IInv, NEW key \in Keys, NEW e \in EventStatuses, NEW id \in Ids,
           IngestNew(key, e, id)
    PROVE  IInv'
<1> DEFINE state == NewIncidentState(e)
           quiet == IF state = "RESOLVED" THEN None ELSE clock + QuietWindow(FALSE, 0)
           d == [state |-> state, severity |-> "other", quietAt |-> quiet,
                 predicted |-> 0, hasGaps |-> FALSE, reopenCount |-> 0,
                 isFlapping |-> FALSE, intents |-> {"slack"}]
           r == [PersistDecision(NoIncident, d) EXCEPT !.key = key]
<1>0. clock \in Nat
  BY DEF IInv, TypeOK
<1>1. state \in {"RESOLVED", "ACKNOWLEDGED"}
  BY TransitionFacts DEF NewIncidentState
<1>2. QuietWindow(FALSE, 0) \in Nat \ {0} /\ QuietWindow(FALSE, 0) <= BatchSpan
  <2>1. FALSE \in BOOLEAN /\ 0 \in Nat
    OBVIOUS
  <2> QED BY <2>1, WindowFacts, Zenon
<1>3. /\ quiet \in Nat
      /\ state = "RESOLVED" => quiet = None
      /\ state # "RESOLVED" => quiet > clock /\ quiet <= clock + BatchSpan /\ quiet # None
  <2>1. \A w \in Nat \ {0} : w <= BatchSpan =>
           /\ clock + w \in Nat /\ clock + w > clock
           /\ clock + w <= clock + BatchSpan /\ clock + w # None
    BY <1>0, ConstantsAssumption DEF None
  <2>2. None \in Nat
    BY DEF None
  <2> HIDE DEF state
  <2>3. CASE state = "RESOLVED"
    BY <2>2, <2>3
  <2>4. CASE state # "RESOLVED"
    <3>1. quiet = clock + QuietWindow(FALSE, 0)
      BY <2>4, Zenon
    <3> HIDE DEF quiet
    <3> QED BY <1>2, <2>1, <2>4, <3>1, Zenon
  <2> QED BY <2>3, <2>4
<1>4. /\ incidents' = [incidents EXCEPT ![id] = r]
      /\ told' = [told EXCEPT ![id] = Enqueue(@, d.intents, d.state)]
      /\ hist' = [hist EXCEPT ![id] = Arrive(id, state)]
      /\ wheel' = IF quiet = None THEN wheel ELSE [wheel EXCEPT ![id] = quiet]
      /\ budget' = [budget EXCEPT !.alerts = @ + 1]
      /\ ~Exists(id) /\ up
      /\ UNCHANGED <<clock, up, bootAt, inbound, applications, popped, timerAlive>>
  BY DEF IngestNew, CanIngest, CountAlert, Schedule
<1> HIDE DEF state, quiet
<1>5. d \in Decision /\ d.state = state /\ d.quietAt = quiet /\ d.intents = {"slack"}
  BY <1>1, <1>3 DEF Decision, IncidentState, Channels
<1> HIDE DEF d
<1>6. /\ r \in Incident /\ r.status = state /\ r.quietAt = quiet
      /\ r.lastIngested = clock /\ r.firstIngested = clock
  BY <1>0, <1>5, NewRow
<1> HIDE DEF r
<1>7. wheel[id] = None
  BY <1>4 DEF IInv, NoTimerWithoutRow
<1>8. /\ NeverOpen' /\ NoTimerWithoutRow' /\ NoTimerWhileDown'
      /\ NoStaleTimer' /\ TimerArmed' /\ DeadlineWithinBudget'
  <2>1. r.quietAt = None \/ /\ r.quietAt > clock
                            /\ \/ r.quietAt <= r.firstIngested + BatchSpan
                               \/ r.quietAt = clock + 1
    BY <1>1, <1>3, <1>6
  <2> QED BY <1>1, <1>4, <1>6, <1>7, <2>1, RowWritten DEF StoredStates
<1>9. TypeOK'
  <2>1. incidents' \in [Ids -> Incident]
    BY <1>4, <1>6 DEF IInv, TypeOK
  <2>2. told' \in [Ids -> [Channels -> IncidentState \cup {NoState}]]
    <3>1. state \in IncidentState \cup {NoState} /\ {"slack"} \in SUBSET Channels
      BY <1>1 DEF IncidentState, Channels
    <3>2. told[id] \in [Channels -> IncidentState \cup {NoState}]
      BY DEF IInv, TypeOK
    <3>3. Enqueue(told[id], d.intents, d.state) \in [Channels -> IncidentState \cup {NoState}]
      BY <1>5, <3>1, <3>2, EnqueueType
    <3> QED BY <1>4, <3>3 DEF IInv, TypeOK
  <2>3. hist' \in [Ids -> History]
    BY <1>4, ArriveType DEF IInv, TypeOK
  <2>4. budget' \in [alerts : Nat, crashes : Nat, timerFailures : Nat]
    BY <1>4, AlertCounted DEF IInv, TypeOK
  <2>5. wheel' \in [Ids -> Nat]
    BY <1>3, <1>4 DEF IInv, TypeOK
  <2> QED BY <1>4, <2>1, <2>2, <2>3, <2>4, <2>5 DEF IInv, TypeOK
<1> QED BY <1>8, <1>9 DEF IInv

\* A duplicate moves the stored deadline and the wheel together; a `resolved`
\* one clears the stored deadline and leaves a timer that no longer counts.
LEMMA DuplicateInv ==
    ASSUME IInv, NEW key \in Keys, NEW e \in EventStatuses, NEW id \in Ids,
           NEW gap \in Gaps, IngestDuplicate(key, e, id, gap)
    PROVE  IInv'
<1> DEFINE row == incidents[id]
           d == DuplicateDecision(row, e, gap)
           r == PersistDecision(row, d)
<1>0. clock \in Nat
  BY DEF IInv, TypeOK
<1>1. Exists(id)
  BY DEF IngestDuplicate, LookupIncident
<1>2. row \in Incident /\ row.status \in StoredStates
  BY <1>1, RowFacts DEF IInv
<1>3. /\ d \in Decision /\ d.state \in StoredStates
      /\ d.state = "RESOLVED" => d.quietAt = None
      /\ d.state # "RESOLVED" =>
            /\ d.quietAt > clock
            /\ \/ d.quietAt <= row.firstIngested + BatchSpan
               \/ d.quietAt = clock + 1
  BY <1>0, <1>2, DuplicateFacts
<1>4. /\ incidents' = [incidents EXCEPT ![id] = r]
      /\ told' = [told EXCEPT ![id] = Enqueue(@, d.intents, d.state)]
      /\ hist' = [hist EXCEPT ![id] = Arrive(id, d.state)]
      /\ wheel' = IF d.quietAt = None THEN wheel ELSE [wheel EXCEPT ![id] = d.quietAt]
      /\ budget' = [budget EXCEPT !.alerts = @ + 1]
      /\ up
      /\ UNCHANGED <<clock, up, bootAt, inbound, applications, popped, timerAlive>>
  BY DEF IngestDuplicate, CanIngest, CountAlert, Schedule
<1> HIDE DEF d
<1>5. /\ r \in Incident /\ r.status = d.state /\ r.quietAt = d.quietAt
      /\ r.lastIngested = clock /\ r.firstIngested = row.firstIngested
  BY <1>0, <1>2, <1>3, PersistFacts DEF StoredStates, NoState
<1> HIDE DEF r
<1>6. d.quietAt \in Nat /\ d.intents \in SUBSET Channels /\ d.state \in IncidentState
  BY <1>3 DEF Decision
<1>7. /\ NeverOpen' /\ NoTimerWithoutRow' /\ NoTimerWhileDown'
      /\ NoStaleTimer' /\ TimerArmed' /\ DeadlineWithinBudget'
  <2>1. r.quietAt = None \/ /\ r.quietAt > clock
                            /\ \/ r.quietAt <= r.firstIngested + BatchSpan
                               \/ r.quietAt = clock + 1
    BY <1>3, <1>5
  <2>2. ~(r.status = "ACKNOWLEDGED" /\ r.quietAt = None)
    BY <1>0, <1>3, <1>5 DEF None
  <2> QED BY <1>3, <1>4, <1>5, <2>1, <2>2, RowWritten
<1>8. TypeOK'
  <2>1. incidents' \in [Ids -> Incident]
    BY <1>4, <1>5 DEF IInv, TypeOK
  <2>2. told' \in [Ids -> [Channels -> IncidentState \cup {NoState}]]
    <3>1. told[id] \in [Channels -> IncidentState \cup {NoState}]
      BY DEF IInv, TypeOK
    <3>2. Enqueue(told[id], d.intents, d.state) \in [Channels -> IncidentState \cup {NoState}]
      BY <1>6, <3>1, EnqueueType
    <3> QED BY <1>4, <3>2 DEF IInv, TypeOK
  <2>3. hist' \in [Ids -> History]
    BY <1>4, ArriveType DEF IInv, TypeOK
  <2>4. budget' \in [alerts : Nat, crashes : Nat, timerFailures : Nat]
    BY <1>4, AlertCounted DEF IInv, TypeOK
  <2>5. wheel' \in [Ids -> Nat]
    BY <1>4, <1>6 DEF IInv, TypeOK
  <2> QED BY <1>4, <2>1, <2>2, <2>3, <2>4, <2>5 DEF IInv, TypeOK
<1> QED BY <1>7, <1>8 DEF IInv

\* A trigger quiesces an ACKNOWLEDGED incident or does nothing to its row.
LEMMA PersistTriggerInv ==
    ASSUME IInv, NEW id \in Ids, PersistTrigger(id)
    PROVE  IInv'
<1> DEFINE row == incidents[id]
           next == TransitionState(row.status, "QUIET_DEADLINE")
           d == LifecycleDecision(row, next, {"slack"})
           r == PersistDecision(row, d)
<1>0. clock \in Nat /\ row \in Incident /\ row.status \in StoredStates \cup {NoState}
  BY RowFacts DEF IInv, TypeOK, Exists
<1>1. /\ up /\ popped' = [popped EXCEPT ![id] = None]
      /\ UNCHANGED <<clock, up, bootAt, inbound, applications, wheel, timerAlive, hist, budget>>
  BY DEF PersistTrigger, NextTrigger
<1>2. next = IF row.status = "ACKNOWLEDGED" THEN "QUIESCENT" ELSE NoState
  BY <1>0, TransitionFacts DEF NoState
<1>3. popped' \in [Ids -> Nat] /\ \A i \in Ids : popped'[i] = popped[i] \/ i = id
  BY <1>1 DEF IInv, TypeOK, None
<1>4. CASE next = NoState
  <2>1. incidents' = incidents /\ told' = told /\ row.status # "ACKNOWLEDGED"
    BY <1>2, <1>4 DEF PersistTrigger, NoState
  <2>2. TypeOK'
    BY <1>1, <1>3, <2>1 DEF IInv, TypeOK
  <2>3. NeverOpen' /\ NoStaleTimer' /\ DeadlineWithinBudget'
    BY <1>1, <2>1 DEF IInv, NeverOpen, NoStaleTimer, DeadlineWithinBudget
  <2>4. NoTimerWithoutRow' /\ NoTimerWhileDown'
    BY <1>1, <1>3, <2>1 DEF IInv, TypeOK, NoTimerWithoutRow, NoTimerWhileDown, Exists
  <2>5. TimerArmed'
    BY <1>1, <1>3, <2>1 DEF IInv, TimerArmed
  <2> QED BY <2>2, <2>3, <2>4, <2>5 DEF IInv
<1>5. CASE next # NoState
  <2>1. next = "QUIESCENT"
    BY <1>2, <1>5
  <2>2. /\ incidents' = [incidents EXCEPT ![id] = r]
        /\ told' = [told EXCEPT ![id] = Enqueue(@, d.intents, next)]
    BY <1>5 DEF PersistTrigger
  <2>3. d \in Decision /\ d.state = "QUIESCENT" /\ d.quietAt = None
    <3>1. next \in StoredStates /\ {"slack"} \in SUBSET Channels
      BY <2>1 DEF StoredStates, Channels
    <3> HIDE DEF next
    <3> QED BY <1>0, <2>1, <3>1, LifecycleDecisionFacts
  <2> HIDE DEF d, next
  <2>4. /\ r \in Incident /\ r.status = "QUIESCENT" /\ r.quietAt = None
        /\ r.lastIngested = clock
    BY <1>0, <2>3, PersistFacts
  <2> HIDE DEF r
  <2>5. /\ NeverOpen' /\ NoTimerWithoutRow' /\ NoTimerWhileDown'
        /\ NoStaleTimer' /\ TimerArmed' /\ DeadlineWithinBudget'
    BY <1>1, <1>3, <2>2, <2>4, RowWritten DEF StoredStates
  <2>6. incidents' \in [Ids -> Incident]
    BY <2>2, <2>4 DEF IInv, TypeOK
  <2>7. told' \in [Ids -> [Channels -> IncidentState \cup {NoState}]]
    <3>1. told[id] \in [Channels -> IncidentState \cup {NoState}]
      BY DEF IInv, TypeOK
    <3>2. d.intents \in SUBSET Channels /\ next \in IncidentState \cup {NoState}
      BY <2>1, <2>3 DEF Decision, IncidentState
    <3>3. Enqueue(told[id], d.intents, next) \in [Channels -> IncidentState \cup {NoState}]
      BY <3>1, <3>2, EnqueueType
    <3> QED BY <2>2, <3>3 DEF IInv, TypeOK
  <2>8. TypeOK'
    BY <1>1, <1>3, <2>6, <2>7 DEF IInv, TypeOK
  <2> QED BY <2>5, <2>8 DEF IInv
<1> QED BY <1>4, <1>5

\* A callback closes an active incident or does nothing to its row: since OPEN
\* is never stored, no acknowledgement applies.
LEMMA CallbackInv ==
    ASSUME IInv, NEW iid \in InboundIds, NEW provider \in Providers,
           NEW kind \in Kinds, NEW id \in Ids, Callback(iid, provider, kind, id)
    PROVE  IInv'
<1> DEFINE row == incidents[id]
           trigger == IF kind = "acknowledge" THEN "ACKNOWLEDGE" ELSE "RESOLVE"
           next == TransitionState(row.status, trigger)
           cb == [provider |-> provider, kind |-> kind, incident |-> id,
                  from |-> row.status,
                  status |-> IF next = NoState THEN "ignored" ELSE "applied"]
           r == Reconciled(row, next, kind, "operator", Channels \ {provider})
<1>0. clock \in Nat /\ row \in Incident /\ row.status \in StoredStates \cup {NoState}
  BY RowFacts DEF IInv, TypeOK, Exists
<1>1. /\ up
      /\ UNCHANGED <<clock, up, bootAt, wheel, popped, timerAlive, budget>>
      /\ inbound' = [inbound EXCEPT ![iid] = IF @ = NoCallback THEN cb ELSE @]
  BY DEF Callback
<1>2. next = NoState \/ (next = "RESOLVED" /\ kind = "resolve")
  BY <1>0, TransitionFacts DEF NoState, Kinds
<1>3. inbound' \in [InboundIds -> InboundEvent]
  <2>1. cb \in InboundEvent
    BY <1>0 DEF InboundEvent, Incident
  <2> HIDE DEF cb
  <2> QED BY <1>1, <2>1 DEF IInv, TypeOK
<1>4. CASE next = NoState
  <2>1. UNCHANGED <<incidents, told, hist, applications>>
    BY <1>4 DEF Callback
  <2>2. TypeOK'
    BY <1>1, <1>3, <2>1 DEF IInv, TypeOK
  <2>3. /\ NeverOpen' /\ NoTimerWithoutRow' /\ NoTimerWhileDown'
        /\ NoStaleTimer' /\ TimerArmed' /\ DeadlineWithinBudget'
    BY <1>1, <2>1 DEF IInv, NeverOpen, NoTimerWithoutRow, NoTimerWhileDown,
                      NoStaleTimer, TimerArmed, DeadlineWithinBudget, Exists
  <2> QED BY <2>2, <2>3 DEF IInv
<1>5. CASE next # NoState
  <2>1. next = "RESOLVED" /\ kind = "resolve"
    BY <1>2, <1>5
  <2>2. /\ incidents' = [incidents EXCEPT ![id] = r]
        /\ told' = [told EXCEPT ![id] = Enqueue(@, Channels, next)]
        /\ hist' = [hist EXCEPT ![id] = [@ EXCEPT !.closedBy =
                       IF next = "RESOLVED" THEN "operator" ELSE @]]
        /\ applications' = [applications EXCEPT ![iid] = @ + 1]
    BY <1>5 DEF Callback
  <2> HIDE DEF next
  <2>3. r \in Incident /\ r.status = "RESOLVED" /\ r.quietAt = None
    <3>1. next \in StoredStates /\ Channels \ {provider} \in SUBSET Channels
      BY <2>1 DEF StoredStates
    <3> QED BY <1>0, <2>1, <3>1, ReconciledFacts
  <2>4. r.lastIngested = clock
    <3>1. r = [PersistDecision(row, LifecycleDecision(row, next, Channels \ {provider}))
                  EXCEPT !.resolutionSource =
                     IF row.resolutionSource = "none" THEN "operator" ELSE @]
      BY <2>1 DEF Reconciled
    <3> DEFINE d == LifecycleDecision(row, next, Channels \ {provider})
    <3>2. d \in Decision
      BY <1>0, <2>1, LifecycleDecisionFacts DEF StoredStates
    <3> HIDE DEF d
    <3>3. PersistDecision(row, d) \in Incident /\ PersistDecision(row, d).lastIngested = clock
      BY <1>0, <3>2, PersistFacts
    <3> HIDE DEF r
    <3> QED BY <3>1, <3>3 DEF Incident, d
  <2> HIDE DEF r
  <2>5. /\ NeverOpen' /\ NoTimerWithoutRow' /\ NoTimerWhileDown'
        /\ NoStaleTimer' /\ TimerArmed' /\ DeadlineWithinBudget'
    BY <1>1, <2>2, <2>3, <2>4, RowWritten DEF StoredStates
  <2>6. incidents' \in [Ids -> Incident]
    BY <2>2, <2>3 DEF IInv, TypeOK
  <2>7. told' \in [Ids -> [Channels -> IncidentState \cup {NoState}]]
    <3>1. told[id] \in [Channels -> IncidentState \cup {NoState}]
      BY DEF IInv, TypeOK
    <3>2. next \in IncidentState \cup {NoState} /\ Channels \in SUBSET Channels
      BY <2>1 DEF IncidentState
    <3>3. Enqueue(told[id], Channels, next) \in [Channels -> IncidentState \cup {NoState}]
      BY <3>1, <3>2, EnqueueType
    <3> QED BY <2>2, <3>3 DEF IInv, TypeOK
  <2>8. hist' \in [Ids -> History] /\ applications' \in [InboundIds -> Nat]
    <3>1. hist[id] \in History
      BY DEF IInv, TypeOK
    <3> DEFINE h == [hist[id] EXCEPT !.closedBy = "operator"]
    <3>2. h \in History
      BY <3>1 DEF History
    <3>3. hist' = [hist EXCEPT ![id] = h]
      BY <2>1, <2>2
    <3> HIDE DEF h
    <3>4. hist' \in [Ids -> History]
      BY <3>2, <3>3 DEF IInv, TypeOK
    <3>5. applications' \in [InboundIds -> Nat]
      BY <2>2 DEF IInv, TypeOK
    <3> QED BY <3>4, <3>5
  <2>9. TypeOK'
    BY <1>1, <1>3, <2>6, <2>7, <2>8 DEF IInv, TypeOK
  <2> QED BY <2>5, <2>9 DEF IInv
<1> QED BY <1>4, <1>5

\* A sweep closes rows: none of them is ACKNOWLEDGED afterwards, and none keeps
\* a deadline.
LEMMA SweepInv ==
    ASSUME IInv, SweepOnce
    PROVE  IInv'
<1> DEFINE next(id) == TransitionState(incidents[id].status, "RESOLVE")
           r(id) == Reconciled(incidents[id], next(id), "resolve", InferredSource, Channels)
<1>0. clock \in Nat
  BY DEF IInv, TypeOK
<1>1. /\ incidents' = [id \in Ids |-> IF id \in Overdue THEN r(id) ELSE incidents[id]]
      /\ told' = [id \in Ids |-> IF id \in Overdue
                                 THEN Enqueue(told[id], Channels, "RESOLVED") ELSE told[id]]
      /\ hist' = [id \in Ids |-> IF id \in Overdue
                                 THEN [hist[id] EXCEPT !.closedBy = "silence"] ELSE hist[id]]
      /\ UNCHANGED <<clock, up, bootAt, inbound, applications, wheel, popped,
                     timerAlive, budget>>
  BY DEF SweepOnce
<1>2. \A id \in Ids : id \in Overdue =>
         /\ Exists(id)
         /\ r(id) \in Incident /\ r(id).status = "RESOLVED" /\ r(id).quietAt = None
  <2> SUFFICES ASSUME NEW id \in Ids, id \in Overdue
               PROVE  /\ Exists(id)
                      /\ r(id) \in Incident /\ r(id).status = "RESOLVED"
                      /\ r(id).quietAt = None
    OBVIOUS
  <2>1. incidents[id] \in Incident /\ incidents[id].status \in {"ACKNOWLEDGED", "QUIESCENT"}
    BY RowFacts DEF IInv, Overdue
  <2>2. next(id) = "RESOLVED" /\ Exists(id)
    BY <2>1, TransitionFacts DEF StoredStates, Exists, NoState
  <2>3. /\ next(id) \in StoredStates /\ Channels \in SUBSET Channels /\ "resolve" \in Kinds
        /\ InferredSource \in {"operator", "inferred_silence"}
    BY <2>2 DEF StoredStates, Kinds, InferredSource
  <2> HIDE DEF next
  <2> QED BY <1>0, <2>1, <2>2, <2>3, ReconciledFacts
<1> HIDE DEF r
<1>3. \A id \in Ids :
         /\ incidents'[id] = IF id \in Overdue THEN r(id) ELSE incidents[id]
         /\ wheel'[id] = wheel[id] /\ popped'[id] = popped[id]
  BY <1>1
<1>4. incidents' \in [Ids -> Incident]
  BY <1>1, <1>2 DEF IInv, TypeOK
<1>5. told' \in [Ids -> [Channels -> IncidentState \cup {NoState}]]
  <2>1. \A id \in Ids : told[id] \in [Channels -> IncidentState \cup {NoState}]
    BY DEF IInv, TypeOK
  <2>2. "RESOLVED" \in IncidentState \cup {NoState} /\ Channels \in SUBSET Channels
    BY DEF IncidentState
  <2>3. \A id \in Ids : Enqueue(told[id], Channels, "RESOLVED")
                            \in [Channels -> IncidentState \cup {NoState}]
    BY <2>1, <2>2, EnqueueType
  <2> QED BY <1>1, <2>1, <2>3
<1>6. hist' \in [Ids -> History]
  <2>1. \A h \in History : [h EXCEPT !.closedBy = "silence"] \in History
    BY DEF History
  <2>2. \A id \in Ids : hist[id] \in History
    BY DEF IInv, TypeOK
  <2> QED BY <1>1, <2>1, <2>2
<1>7. TypeOK'
  BY <1>1, <1>4, <1>5, <1>6 DEF IInv, TypeOK
<1>8. NeverOpen' /\ NoStaleTimer'
  BY <1>2, <1>3 DEF IInv, NeverOpen, NoStaleTimer
<1>9. NoTimerWithoutRow'
  BY <1>2, <1>3 DEF IInv, NoTimerWithoutRow, Exists, NoState
<1>10. NoTimerWhileDown'
  BY <1>1 DEF IInv, NoTimerWhileDown
<1>11. TimerArmed'
  BY <1>1, <1>2, <1>3 DEF IInv, TimerArmed
<1>12. DeadlineWithinBudget'
  BY <1>2, <1>3 DEF IInv, DeadlineWithinBudget
<1> QED BY <1>7, <1>8, <1>9, <1>10, <1>11, <1>12 DEF IInv

\* Popping moves a deadline from the wheel to the batch, never out of both.
LEMMA PopDueInv ==
    ASSUME IInv, PopDue
    PROVE  IInv'
<1>1. /\ up /\ UNCHANGED <<clock, up, bootAt, dbVars, timerAlive, budget>>
      /\ \A id \in Ids :
            /\ popped[id] = None
            /\ popped'[id] = IF id \in Due THEN wheel[id] ELSE None
            /\ wheel'[id] = IF id \in Due THEN None ELSE wheel[id]
            /\ id \in Due => wheel[id] # None
  BY DEF PopDue, Batch, Due
<1>2. popped' \in [Ids -> Nat] /\ wheel' \in [Ids -> Nat]
  BY DEF PopDue, IInv, TypeOK, None
<1>3. TypeOK'
  BY <1>1, <1>2 DEF IInv, TypeOK, dbVars
<1>4. NeverOpen' /\ DeadlineWithinBudget'
  BY <1>1 DEF IInv, NeverOpen, DeadlineWithinBudget, dbVars
<1>5. NoTimerWithoutRow' /\ NoTimerWhileDown'
  BY <1>1 DEF IInv, NoTimerWithoutRow, NoTimerWhileDown, Exists, dbVars
<1>6. NoStaleTimer'
  BY <1>1 DEF IInv, NoStaleTimer, dbVars
<1>7. TimerArmed'
  BY <1>1 DEF IInv, TimerArmed, dbVars
<1> QED BY <1>3, <1>4, <1>5, <1>6, <1>7 DEF IInv

\* The worker's death, a crash, a restart and the clock leave the tables alone.
LEMMA EnvironmentInv ==
    ASSUME IInv, (\E id \in Ids : TimerWorkerDies(id)) \/ Crash \/ Restart \/ Tick
    PROVE  IInv'
<1>1. CASE \E id \in Ids : TimerWorkerDies(id)
  <2>1. /\ up /\ timerAlive' = FALSE
        /\ popped' = [i \in Ids |-> None]
        /\ budget' = [budget EXCEPT !.timerFailures = @ + 1]
        /\ UNCHANGED <<clock, up, bootAt, dbVars, wheel>>
    BY <1>1 DEF TimerWorkerDies, NextTrigger
  <2>2. timerAlive' \in BOOLEAN
    BY <2>1, Zenon
  <2>3. TypeOK'
    BY <2>1, <2>2 DEF IInv, TypeOK, dbVars, None
  <2> QED BY <2>1, <2>3 DEF IInv, NeverOpen, NoTimerWithoutRow, NoTimerWhileDown,
                 NoStaleTimer, TimerArmed, DeadlineWithinBudget, Exists, dbVars
<1>2. CASE Crash
  <2>1. /\ up' = FALSE /\ timerAlive' = FALSE
        /\ popped' = [i \in Ids |-> None] /\ wheel' = [i \in Ids |-> None]
        /\ budget' = [budget EXCEPT !.crashes = @ + 1]
        /\ UNCHANGED <<clock, bootAt, dbVars>>
    BY <1>2 DEF Crash
  <2>2. timerAlive' \in BOOLEAN /\ up' \in BOOLEAN
    BY <2>1, Zenon
  <2>3. TypeOK'
    BY <2>1, <2>2 DEF IInv, TypeOK, dbVars, None
  <2> QED BY <2>1, <2>3 DEF IInv, NeverOpen, NoTimerWithoutRow, NoTimerWhileDown,
                 NoStaleTimer, TimerArmed, DeadlineWithinBudget, Exists, dbVars
<1>3. CASE Restart
  <2>1. /\ ~up /\ up' = TRUE /\ timerAlive' = TRUE /\ bootAt' = clock
        /\ wheel' = [id \in Ids |-> IF id \in Recoverable THEN incidents[id].quietAt
                                                          ELSE None]
        /\ UNCHANGED <<clock, dbVars, popped, budget>>
    BY <1>3 DEF Restart
  <2>2. timerAlive' \in BOOLEAN /\ up' \in BOOLEAN
    BY <2>1, Zenon
  <2>3. \A id \in Ids : incidents[id].quietAt \in Nat
    BY DEF IInv, TypeOK, Incident
  <2>4. wheel' \in [Ids -> Nat]
    BY <2>1, <2>3 DEF None
  <2>5. TypeOK'
    BY <2>1, <2>2, <2>4 DEF IInv, TypeOK, dbVars
  <2>6. \A id \in Ids : /\ wheel'[id] = IF id \in Recoverable THEN incidents[id].quietAt
                                                              ELSE None
                        /\ popped'[id] = None
    BY <2>1 DEF IInv, NoTimerWhileDown
  <2>7. NeverOpen' /\ DeadlineWithinBudget' /\ NoTimerWhileDown'
    BY <2>1 DEF IInv, NeverOpen, DeadlineWithinBudget, NoTimerWhileDown, dbVars
  <2>8. NoTimerWithoutRow' /\ NoStaleTimer'
    BY <2>1, <2>6 DEF IInv, NoTimerWithoutRow, NoStaleTimer, Exists, Recoverable,
                      NoState, dbVars
  <2>9. TimerArmed'
    <3>1. clock \in Nat
      BY DEF IInv, TypeOK
    <3> QED BY <2>1, <2>3, <2>6, <3>1 DEF TimerArmed, Recoverable, dbVars
  <2> QED BY <2>5, <2>7, <2>8, <2>9 DEF IInv
<1>4. CASE Tick
  <2>1. /\ clock' = clock + 1
        /\ UNCHANGED <<up, bootAt, dbVars, wheel, popped, timerAlive, budget>>
    BY <1>4 DEF Tick
  <2>2. TypeOK'
    BY <2>1 DEF IInv, TypeOK, dbVars
  <2> QED BY <2>1, <2>2 DEF IInv, NeverOpen, NoTimerWithoutRow, NoTimerWhileDown,
                 NoStaleTimer, TimerArmed, DeadlineWithinBudget, Exists, dbVars
<1> QED BY <1>1, <1>2, <1>3, <1>4

\* The empty database with a fresh process satisfies the invariant.
LEMMA InitInv == Init => IInv
<1> SUFFICES ASSUME Init PROVE IInv
  OBVIOUS
<1>1. up \in BOOLEAN /\ timerAlive \in BOOLEAN
  BY Zenon DEF Init
<1>2. /\ NoCallback \in InboundEvent /\ NoHistory \in History
      /\ [c \in Channels |-> NoState] \in [Channels -> IncidentState \cup {NoState}]
  BY DEF NoCallback, InboundEvent, NoHistory, History, None, NoState
<1>3. TypeOK
  BY <1>1, <1>2, NoIncidentType DEF Init, TypeOK, None
<1>4. \A id \in Ids : /\ incidents[id].status = NoState /\ incidents[id].quietAt = None
                      /\ wheel[id] = None /\ popped[id] = None
  BY DEF Init, NoIncident
<1> QED BY <1>3, <1>4 DEF IInv, NeverOpen, NoTimerWithoutRow, NoTimerWhileDown,
               NoStaleTimer, TimerArmed, DeadlineWithinBudget, NoState

\* Every step preserves the invariant.
LEMMA NextInv == IInv /\ [Next]_vars => IInv'
<1> SUFFICES ASSUME IInv, [Next]_vars PROVE IInv'
  OBVIOUS
<1>1. CASE Ingest
  <2>1. PICK key \in Keys, e \in EventStatuses, id \in Ids :
           \/ IngestBypass(key, e, id)
           \/ IngestNew(key, e, id)
           \/ \E gap \in Gaps : IngestDuplicate(key, e, id, gap)
    BY <1>1 DEF Ingest
  <2> QED BY <2>1, BypassInv, NewInv, DuplicateInv
<1>2. CASE \E id \in Ids : PersistTrigger(id)
  BY <1>2, PersistTriggerInv
<1>3. CASE \E iid \in InboundIds, provider \in Providers, kind \in Kinds, id \in Ids :
              Callback(iid, provider, kind, id)
  BY <1>3, CallbackInv
<1>4. CASE UNCHANGED vars
  BY <1>4 DEF vars, IInv, TypeOK, NeverOpen, NoTimerWithoutRow, NoTimerWhileDown,
              NoStaleTimer, TimerArmed, DeadlineWithinBudget, Exists
<1> QED BY <1>1, <1>2, <1>3, <1>4, SweepInv, PopDueInv, EnvironmentInv DEF Next

\* The inductive invariant holds in every reachable state.
LEMMA Invariance == SafetySpec => []IInv
BY InitInv, NextInv, PTL DEF SafetySpec

-------------------------------------------------------------------------------
(***************************************************************************)
(* The properties the runs check, for every instance.                      *)
(***************************************************************************)
\* Every variable keeps its type, whatever happens.
THEOREM TypeCorrect == SafetySpec => []TypeOK
BY Invariance, PTL DEF IInv

\* No deadline is lost while the process and its timer worker run.
THEOREM TimersStayArmed == SafetySpec => []TimerArmed
BY Invariance, PTL DEF IInv

\* A timer left over from before an incident closed never outlives its reopening
\* with an older deadline than the row's.
THEOREM TimersAreCurrent == SafetySpec => []NoStaleTimer
BY Invariance, PTL DEF IInv

\* A storm cannot defer its own deadline beyond the batch span.
THEOREM StormsAreBounded == SafetySpec => []DeadlineWithinBudget
BY Invariance, PTL DEF IInv

-------------------------------------------------------------------------------
(***************************************************************************)
(* The engine implements the lifecycle.                                    *)
(***************************************************************************)
\* What a step may do to one row, in the words of IncidentLifecycle.
Follows(s, t) == s = t \/ <<s, t>> \in Lifecycle!Edges

\* A row write whose new status follows the old one lets every row follow.
LEMMA OneRowFollows ==
    ASSUME TypeOK, NEW id \in Ids, NEW r,
           incidents' = [incidents EXCEPT ![id] = r],
           Follows(incidents[id].status, r.status)
    PROVE  \A i \in Ids : Follows(incidents[i].status, incidents'[i].status)
BY DEF TypeOK, Follows

\* A bypass or a first alert: NONE to ACKNOWLEDGED or RESOLVED.
LEMMA OpeningFollows ==
    ASSUME IInv, NEW key \in Keys, NEW e \in EventStatuses, NEW id \in Ids,
           IngestBypass(key, e, id) \/ IngestNew(key, e, id)
    PROVE  \A i \in Ids : Follows(incidents[i].status, incidents'[i].status)
<1> DEFINE r == incidents'[id]
<1>1. incidents[id].status = NoState
  BY DEF IngestBypass, IngestNew, Exists
<1>2. incidents' = [incidents EXCEPT ![id] = r]
  BY DEF IngestBypass, IngestNew, IInv, TypeOK
<1>3. IInv'
  BY BypassInv, NewInv
<1>4. r.status \in {"ACKNOWLEDGED", "RESOLVED"}
  <2>1. CASE IngestBypass(key, e, id)
    <3> DEFINE p == PersistDecision(NoIncident, BypassDecision)
    <3>1. r = [p EXCEPT !.key = key, !.bypassed = TRUE]
      BY <2>1 DEF IngestBypass, IInv, TypeOK
    <3> QED BY <3>1 DEF PersistDecision, NoIncident, BypassDecision
  <2>2. CASE IngestNew(key, e, id)
    <3> DEFINE state == NewIncidentState(e)
               quiet == IF state = "RESOLVED" THEN None ELSE clock + QuietWindow(FALSE, 0)
               p == PersistDecision(NoIncident,
                 [state |-> state, severity |-> "other", quietAt |-> quiet,
                  predicted |-> 0, hasGaps |-> FALSE, reopenCount |-> 0,
                  isFlapping |-> FALSE, intents |-> {"slack"}])
    <3>1. r = [p EXCEPT !.key = key]
      BY <2>2 DEF IngestNew, IInv, TypeOK
    <3>2. state \in {"ACKNOWLEDGED", "RESOLVED"}
      BY TransitionFacts DEF NewIncidentState
    <3> HIDE DEF state, quiet
    <3> QED BY <3>1, <3>2 DEF PersistDecision, NoIncident
  <2> QED BY <2>1, <2>2
<1>5. Follows(incidents[id].status, r.status)
  BY <1>1, <1>4 DEF Follows, Lifecycle!Edges, NoState
<1> HIDE DEF r
<1> QED BY <1>2, <1>5, OneRowFollows DEF IInv

\* A duplicate closes, reopens or leaves its incident where it is.
LEMMA DuplicateFollows ==
    ASSUME IInv, NEW key \in Keys, NEW e \in EventStatuses, NEW id \in Ids,
           NEW gap \in Gaps, IngestDuplicate(key, e, id, gap)
    PROVE  \A i \in Ids : Follows(incidents[i].status, incidents'[i].status)
<1> DEFINE row == incidents[id]
           d == DuplicateDecision(row, e, gap)
           r == PersistDecision(row, d)
<1>1. clock \in Nat /\ row \in Incident /\ row.status \in StoredStates
  BY RowFacts DEF IInv, TypeOK, IngestDuplicate, LookupIncident
<1>2. incidents' = [incidents EXCEPT ![id] = r]
  BY DEF IngestDuplicate
<1>3. d \in Decision /\ d.state = NextState(row.status, e)
  BY <1>1, DuplicateFacts
<1> HIDE DEF d
<1>4. r.status = d.state
  BY <1>1, <1>3, PersistFacts
<1>5. Follows(row.status, r.status)
  BY <1>1, <1>3, <1>4, NextStateFacts DEF Follows, Lifecycle!Edges, StoredStates
<1> HIDE DEF r
<1> QED BY <1>2, <1>5, OneRowFollows DEF IInv

\* A trigger: ACKNOWLEDGED to QUIESCENT, or nothing.
LEMMA TriggerFollows ==
    ASSUME IInv, NEW id \in Ids, PersistTrigger(id)
    PROVE  \A i \in Ids : Follows(incidents[i].status, incidents'[i].status)
<1> DEFINE row == incidents[id]
           next == TransitionState(row.status, "QUIET_DEADLINE")
           d == LifecycleDecision(row, next, {"slack"})
           r == PersistDecision(row, d)
<1>1. row \in Incident /\ row.status \in StoredStates \cup {NoState}
  BY RowFacts DEF IInv, TypeOK, Exists
<1>2. next = IF row.status = "ACKNOWLEDGED" THEN "QUIESCENT" ELSE NoState
  BY <1>1, TransitionFacts DEF NoState
<1>3. CASE next = NoState
  BY <1>3 DEF PersistTrigger, Follows
<1>4. CASE next # NoState
  <2>1. incidents' = [incidents EXCEPT ![id] = r]
    BY <1>4 DEF PersistTrigger
  <2>2. r.status = next
    BY <1>1 DEF PersistDecision, LifecycleDecision, Incident
  <2>3. Follows(row.status, r.status)
    BY <1>2, <1>4, <2>2 DEF Follows, Lifecycle!Edges
  <2> HIDE DEF r
  <2> QED BY <2>1, <2>3, OneRowFollows DEF IInv
<1> QED BY <1>3, <1>4

\* The row an external action that applies leaves: its status is the one the
\* table gives.
LEMMA ReconciledStatus ==
    ASSUME NEW row \in Incident, NEW next, NEW kind, NEW src, NEW ch
    PROVE  Reconciled(row, next, kind, src, ch).status = next
BY DEF Reconciled, PersistDecision, LifecycleDecision, Incident

\* A callback or a sweep: an active state to RESOLVED, or nothing.
LEMMA ExternalFollows ==
    ASSUME IInv,
           \/ SweepOnce
           \/ \E iid \in InboundIds, provider \in Providers, kind \in Kinds, id \in Ids :
                 Callback(iid, provider, kind, id)
    PROVE  \A i \in Ids : Follows(incidents[i].status, incidents'[i].status)
<1>1. CASE SweepOnce
  <2> SUFFICES ASSUME NEW i \in Ids PROVE Follows(incidents[i].status, incidents'[i].status)
    OBVIOUS
  <2> DEFINE next == TransitionState(incidents[i].status, "RESOLVE")
  <2>1. incidents'[i] = IF i \in Overdue
                        THEN Reconciled(incidents[i], next, "resolve", InferredSource, Channels)
                        ELSE incidents[i]
    BY <1>1 DEF SweepOnce
  <2>2. CASE i \notin Overdue
    BY <2>1, <2>2 DEF Follows
  <2>3. CASE i \in Overdue
    <3>1. incidents[i] \in Incident /\ incidents[i].status \in {"ACKNOWLEDGED", "QUIESCENT"}
      BY <2>3, RowFacts DEF IInv, Overdue
    <3>2. next = "RESOLVED"
      BY <3>1, TransitionFacts DEF StoredStates
    <3> HIDE DEF next
    <3>3. incidents'[i].status = "RESOLVED"
      BY <2>1, <2>3, <3>1, <3>2, ReconciledStatus
    <3> QED BY <3>1, <3>3 DEF Follows, Lifecycle!Edges
  <2> QED BY <2>2, <2>3
<1>2. ASSUME NEW iid \in InboundIds, NEW provider \in Providers, NEW kind \in Kinds,
             NEW id \in Ids, Callback(iid, provider, kind, id)
      PROVE  \A i \in Ids : Follows(incidents[i].status, incidents'[i].status)
  <2> DEFINE row == incidents[id]
             trigger == IF kind = "acknowledge" THEN "ACKNOWLEDGE" ELSE "RESOLVE"
             next == TransitionState(row.status, trigger)
             r == Reconciled(row, next, kind, "operator", Channels \ {provider})
  <2>1. row \in Incident /\ row.status \in StoredStates \cup {NoState}
    BY RowFacts DEF IInv, TypeOK, Exists
  <2>2. next = NoState \/ (next = "RESOLVED" /\ row.status \in {"ACKNOWLEDGED", "QUIESCENT"})
    BY <2>1, TransitionFacts DEF NoState, Kinds, StoredStates
  <2>3. CASE next = NoState
    BY <1>2, <2>3 DEF Callback, Follows
  <2>4. CASE next # NoState
    <3>1. incidents' = [incidents EXCEPT ![id] = r]
      BY <1>2, <2>4 DEF Callback
    <3>2. Follows(row.status, r.status)
      <4> HIDE DEF next
      <4>1. r.status = next
        BY <2>1, ReconciledStatus
      <4> QED BY <2>2, <2>4, <4>1 DEF Follows, Lifecycle!Edges
    <3> HIDE DEF r
    <3> QED BY <3>1, <3>2, OneRowFollows DEF IInv
  <2> QED BY <2>3, <2>4
<1> QED BY <1>1, <1>2

\* Every step of the engine is a step of the lifecycle, or leaves it alone.
LEMMA StepFollows ==
    IInv /\ [Next]_vars => \A i \in Ids : Follows(incidents[i].status, incidents'[i].status)
<1> SUFFICES ASSUME IInv, [Next]_vars
             PROVE  \A i \in Ids : Follows(incidents[i].status, incidents'[i].status)
  OBVIOUS
<1>1. CASE Ingest
  <2>1. PICK key \in Keys, e \in EventStatuses, id \in Ids :
           \/ IngestBypass(key, e, id)
           \/ IngestNew(key, e, id)
           \/ \E gap \in Gaps : IngestDuplicate(key, e, id, gap)
    BY <1>1 DEF Ingest
  <2> QED BY <2>1, OpeningFollows, DuplicateFollows
<1>2. CASE \E id \in Ids : PersistTrigger(id)
  BY <1>2, TriggerFollows
<1>3. CASE incidents' = incidents
  BY <1>3 DEF Follows
<1>4. PopDue \/ (\E id \in Ids : TimerWorkerDies(id)) \/ Crash \/ Restart \/ Tick
      \/ UNCHANGED vars => incidents' = incidents
  BY DEF PopDue, TimerWorkerDies, Crash, Restart, Tick, vars, dbVars
<1> QED BY <1>1, <1>2, <1>3, <1>4, ExternalFollows DEF Next

\* The engine implements IncidentLifecycle: whichever of its parts acts, in
\* whichever order, over crashes and restarts, an incident lives the life that
\* module describes.
THEOREM LifecycleRefinement == SafetySpec => LifecycleSpec
<1> DEFINE st == [id \in Ids |-> incidents[id].status]
<1>1. Init => Lifecycle!Init
  BY DEF Init, Lifecycle!Init, NoIncident, NoState
<1>2. IInv /\ IInv' /\ [Next]_vars => [Lifecycle!Next]_st
  <2> SUFFICES ASSUME IInv, IInv', [Next]_vars PROVE Lifecycle!Next
    OBVIOUS
  <2>1. \A i \in Ids : Follows(incidents[i].status, incidents'[i].status)
    BY StepFollows
  <2>2. \A i \in Ids : incidents'[i].status
                          \in {"NONE", "ACKNOWLEDGED", "QUIESCENT", "RESOLVED"}
    BY DEF IInv, TypeOK, NeverOpen, Incident, IncidentState, NoState
  <2> QED BY <2>1, <2>2 DEF Lifecycle!Next, Follows
<1> QED BY <1>1, <1>2, Invariance, PTL DEF SafetySpec, LifecycleSpec, Lifecycle!Spec

==============================================================================
