------------------------ MODULE IncidentRecords_proofs ------------------------
(***************************************************************************)
(* What the engine's records say to the outside, for every value of its    *)
(* constants: an identity has one incident, the Slack card and the pager   *)
(* follow its state, a callback counts once, and the sweeper closes only   *)
(* what has been silent.  IncidentEngine_proofs supplies the types and the *)
(* lifecycle (IInv); here each action is followed through the row, the     *)
(* channels and the history of the one incident it writes.                 *)
(***************************************************************************)
EXTENDS IncidentEngine_proofs, WellFoundedInduction

\* What relates a row r to the states t its channels were last told and to its
\* history h.  A row is stamped at or after its last alert, and never ahead of
\* the clock.
Settled(r, t, h, now) ==
    /\ h.lastArrival <= r.lastIngested /\ r.lastIngested <= now
    /\ t["slack"] # r.status => r.flapping
    /\ r.status = "RESOLVED" /\ h.closedBy \in {"operator", "silence"}
          => t["pagerduty"] = "RESOLVED"
    /\ r.status = NoState => h.closedBy = "none"

AllSettled == \A id \in Ids : Settled(incidents[id], told[id], hist[id], clock)

\* A callback that was never seen never moved anything.
CountedOnce ==
    \A iid \in InboundIds :
        /\ applications[iid] <= 1
        /\ inbound[iid] = NoCallback => applications[iid] = 0

\* The inductive invariant of the records, on top of IInv.
RInv == AllSettled /\ CountedOnce /\ OneIncidentPerIdentity
-------------------------------------------------------------------------------
(***************************************************************************)
(* An identity that has a row is found.                                    *)
(***************************************************************************)
\* A bounded set of numbers that is not empty has a greatest member.
LEMMA Greatest ==
    ASSUME NEW S \in SUBSET Nat, S # {}, NEW b \in Nat, \A x \in S : x <= b
    PROVE  \E x \in S : \A y \in S : y <= x
<1> DEFINE Bounds == {n \in Nat : \A x \in S : x <= n}
           Less   == OpToRel(<, Nat)
<1>1. IsWellFoundedOn(Less, Nat)
  BY NatLessThanWellFounded
<1>2. \E n \in Bounds : \A m \in Bounds : ~(<<m, n>> \in Less)
  BY <1>1, WFMin, Bounds # {}, Bounds \subseteq Nat
<1>3. PICK n \in Bounds : \A m \in Bounds : ~(m < n)
  BY <1>2 DEF OpToRel
<1>4. n \in S
  <2> SUFFICES ASSUME n \notin S PROVE FALSE
    OBVIOUS
  <2>1. \A x \in S : x <= n - 1 /\ n - 1 \in Nat
    OBVIOUS
  <2>2. n - 1 \in Bounds
    BY <2>1
  <2> QED BY <1>3, <2>2
<1> QED BY <1>3, <1>4

\* lookup_incident returns a row of the identity if there is one: rows are
\* stamped no later than the clock, so one of them was stamped last.
LEMMA LookupFinds ==
    ASSUME TypeOK, AllSettled, NEW key, NEW o \in Ids, Exists(o), incidents[o].key = key
    PROVE  LookupIncident(key) # {}
<1> DEFINE rows == {id \in Ids : Exists(id) /\ incidents[id].key = key}
           stamps == {incidents[id].lastIngested : id \in rows}
<1>1. \A id \in Ids : incidents[id].lastIngested \in Nat /\ incidents[id].lastIngested <= clock
  BY DEF TypeOK, Incident, AllSettled, Settled
<1>2. clock \in Nat /\ stamps \in SUBSET Nat /\ stamps # {} /\ \A x \in stamps : x <= clock
  <2>1. incidents[o].lastIngested \in stamps
    OBVIOUS
  <2>2. \A x \in stamps : x \in Nat /\ x <= clock
    BY <1>1
  <2> QED BY <2>1, <2>2 DEF TypeOK
<1>3. PICK x \in stamps : \A y \in stamps : y <= x
  <2> HIDE DEF stamps
  <2> QED BY <1>2, Greatest
<1>4. PICK id \in rows : incidents[id].lastIngested = x
  OBVIOUS
<1>5. id \in LookupIncident(key)
  BY <1>3, <1>4 DEF LookupIncident
<1> QED BY <1>5

-------------------------------------------------------------------------------
(***************************************************************************)
(* One incident is written.                                                *)
(***************************************************************************)
\* Whether writing r over the row of id leaves its identity one incident: the
\* row keeps its identity, or it is a bypassed one, or the identity is new.
KeepsIdentity(id, r) ==
    \/ Exists(id) /\ r.key = incidents[id].key /\ r.bypassed = incidents[id].bypassed
    \/ r.bypassed
    \/ \A j \in Ids : Exists(j) => incidents[j].key # r.key

LEMMA OneWritten ==
    ASSUME TypeOK, AllSettled, OneIncidentPerIdentity,
           NEW id \in Ids, NEW r, NEW t, NEW h,
           incidents' = [incidents EXCEPT ![id] = r],
           told' = [told EXCEPT ![id] = t],
           hist' = [hist EXCEPT ![id] = h],
           clock' = clock,
           Settled(r, t, h, clock),
           KeepsIdentity(id, r)
    PROVE  AllSettled' /\ OneIncidentPerIdentity'
<1>1. \A i \in Ids : /\ incidents'[i] = IF i = id THEN r ELSE incidents[i]
                     /\ told'[i] = IF i = id THEN t ELSE told[i]
                     /\ hist'[i] = IF i = id THEN h ELSE hist[i]
  BY DEF TypeOK
<1>2. AllSettled'
  <2> SUFFICES ASSUME NEW i \in Ids PROVE Settled(incidents'[i], told'[i], hist'[i], clock')
    BY DEF AllSettled
  <2>1. CASE i = id
    BY <1>1, <2>1, Zenon
  <2>2. CASE i # id
    <3>1. incidents'[i] = incidents[i] /\ told'[i] = told[i] /\ hist'[i] = hist[i]
      BY <1>1, <2>2
    <3>2. Settled(incidents[i], told[i], hist[i], clock)
      BY DEF AllSettled
    <3> QED BY <3>1, <3>2, Zenon
  <2> QED BY <2>1, <2>2
<1>3. OneIncidentPerIdentity'
  <2> SUFFICES ASSUME NEW i \in Ids, NEW j \in Ids,
                      incidents'[i].status # NoState, ~incidents'[i].bypassed,
                      incidents'[j].status # NoState, ~incidents'[j].bypassed,
                      incidents'[i].key = incidents'[j].key,
                      i # j
               PROVE  FALSE
    BY DEF OneIncidentPerIdentity, Exists
  <2>1. ASSUME NEW a \in Ids, NEW b \in Ids, a # b, a = id,
               ~incidents'[a].bypassed, ~incidents'[b].bypassed,
               incidents'[b].status # NoState, incidents'[a].key = incidents'[b].key
        PROVE  FALSE
    <3>1. incidents'[a] = r /\ incidents'[b] = incidents[b]
      BY <1>1, <2>1
    <3>2. ~r.bypassed /\ ~incidents[b].bypassed /\ Exists(b) /\ incidents[b].key = r.key
      BY <2>1, <3>1, Zenon DEF Exists
    <3>3. CASE Exists(id) /\ r.key = incidents[id].key /\ r.bypassed = incidents[id].bypassed
      <4>1. ~incidents[id].bypassed /\ incidents[id].key = incidents[b].key
        BY <3>2, <3>3, Zenon
      <4> QED BY <2>1, <3>2, <3>3, <4>1, Zenon DEF OneIncidentPerIdentity
    <3> QED BY <2>1, <3>2, <3>3, Zenon DEF KeepsIdentity
  <2>2. CASE i = id
    BY <2>1, <2>2
  <2>3. CASE j = id
    BY <2>1, <2>3
  <2>4. CASE i # id /\ j # id
    <3>1. incidents'[i] = incidents[i] /\ incidents'[j] = incidents[j]
      BY <1>1, <2>4
    <3> QED BY <3>1, Zenon DEF OneIncidentPerIdentity, Exists
  <2> QED BY <2>2, <2>3, <2>4
<1> QED BY <1>2, <1>3

\* What the upsert does to the columns the records depend on.
LEMMA PersistRecord ==
    ASSUME NEW row \in Incident, NEW d
    PROVE  LET p == PersistDecision(row, d)
           IN  /\ p.status = d.state /\ p.lastIngested = clock
               /\ p.key = row.key /\ p.bypassed = row.bypassed
               /\ p.flapping = (row.flapping \/ d.isFlapping)
BY DEF PersistDecision, Incident

\* The same of a row that an external action moves.
LEMMA ReconciledRecord ==
    ASSUME NEW row \in Incident, NEW next, NEW kind, NEW src, NEW ch
    PROVE  LET r == Reconciled(row, next, kind, src, ch)
           IN  /\ r.status = next /\ r.lastIngested = clock
               /\ r.key = row.key /\ r.bypassed = row.bypassed
BY DEF Reconciled, PersistDecision, LifecycleDecision, Incident

\* A channel that gets an intent is told the state; another is told nothing.
LEMMA EnqueueRecord ==
    ASSUME NEW t \in [Channels -> IncidentState \cup {NoState}], NEW ch, NEW st, NEW c \in Channels
    PROVE  Enqueue(t, ch, st)[c] = IF c \in ch THEN st ELSE t[c]
BY DEF Enqueue
-------------------------------------------------------------------------------
(***************************************************************************)
(* Every action keeps the records.                                         *)
(***************************************************************************)
\* A protected critical: a new row, both channels told.
LEMMA BypassRecord ==
    ASSUME IInv, RInv, NEW key \in Keys, NEW e \in EventStatuses, NEW id \in Ids,
           IngestBypass(key, e, id)
    PROVE  AllSettled' /\ OneIncidentPerIdentity'
<1> DEFINE p == PersistDecision(NoIncident, BypassDecision)
           r == [p EXCEPT !.key = key, !.bypassed = TRUE]
           t == Enqueue(told[id], Channels, "ACKNOWLEDGED")
           h == Arrive(id, "ACKNOWLEDGED")
<1>1. /\ incidents' = [incidents EXCEPT ![id] = r]
      /\ told' = [told EXCEPT ![id] = t]
      /\ hist' = [hist EXCEPT ![id] = h]
      /\ clock' = clock
  BY DEF IngestBypass
<1>2. r.status = "ACKNOWLEDGED" /\ r.lastIngested = clock /\ r.bypassed
  BY DEF PersistDecision, NoIncident, BypassDecision
<1>3. clock \in Nat /\ t["slack"] = "ACKNOWLEDGED" /\ h.lastArrival = clock
  BY EnqueueRecord DEF IInv, TypeOK, Channels, Arrive
<1> HIDE DEF r, t, h
<1>4. Settled(r, t, h, clock)
  BY <1>2, <1>3 DEF Settled, NoState
<1> QED BY <1>1, <1>2, <1>4, OneWritten DEF IInv, RInv, KeepsIdentity

\* A first alert: the lookup found nothing, so the identity is new; the card is
\* created in the row's state, and nobody has closed the incident yet.
LEMMA NewRecord ==
    ASSUME IInv, RInv, NEW key \in Keys, NEW e \in EventStatuses, NEW id \in Ids,
           IngestNew(key, e, id)
    PROVE  AllSettled' /\ OneIncidentPerIdentity'
<1> DEFINE state == NewIncidentState(e)
           quiet == IF state = "RESOLVED" THEN None ELSE clock + QuietWindow(FALSE, 0)
           d == [state |-> state, severity |-> "other", quietAt |-> quiet,
                 predicted |-> 0, hasGaps |-> FALSE, reopenCount |-> 0,
                 isFlapping |-> FALSE, intents |-> {"slack"}]
           p == PersistDecision(NoIncident, d)
           r == [p EXCEPT !.key = key]
           t == Enqueue(told[id], d.intents, d.state)
           h == Arrive(id, state)
<1>1. /\ incidents' = [incidents EXCEPT ![id] = r]
      /\ told' = [told EXCEPT ![id] = t]
      /\ hist' = [hist EXCEPT ![id] = h]
      /\ clock' = clock
      /\ ~Exists(id) /\ LookupIncident(key) = {}
  BY DEF IngestNew
<1>2. state \in {"RESOLVED", "ACKNOWLEDGED"}
  BY TransitionFacts DEF NewIncidentState
<1>3. hist[id].closedBy = "none" /\ incidents[id].status = NoState
  BY <1>1 DEF Exists, RInv, AllSettled, Settled
<1>4. h.lastArrival = clock /\ h.closedBy = "none"
  BY <1>3 DEF Arrive, Active, ActiveStates, NoState
<1> HIDE DEF state, quiet
<1>5. r.status = state /\ r.lastIngested = clock /\ r.key = key
  BY DEF PersistDecision, NoIncident
<1>6. clock \in Nat /\ t["slack"] = state
  BY EnqueueRecord DEF IInv, TypeOK, Channels
<1>7. \A j \in Ids : Exists(j) => incidents[j].key # key
  BY <1>1, LookupFinds DEF IInv, RInv
<1> HIDE DEF r, t, h
<1>8. Settled(r, t, h, clock)
  BY <1>2, <1>4, <1>5, <1>6 DEF Settled, NoState
<1> QED BY <1>1, <1>5, <1>7, <1>8, OneWritten DEF IInv, RInv, KeepsIdentity

\* A duplicate: the card is told unless flap damping holds it back, and then the
\* row is marked flapping; a monitor's `resolved` closes only what was active.
LEMMA DuplicateRecord ==
    ASSUME IInv, RInv, NEW key \in Keys, NEW e \in EventStatuses, NEW id \in Ids,
           NEW gap \in Gaps, IngestDuplicate(key, e, id, gap)
    PROVE  AllSettled' /\ OneIncidentPerIdentity'
<1> DEFINE row == incidents[id]
           d == DuplicateDecision(row, e, gap)
           r == PersistDecision(row, d)
           t == Enqueue(told[id], d.intents, d.state)
           h == Arrive(id, d.state)
<1>1. /\ incidents' = [incidents EXCEPT ![id] = r]
      /\ told' = [told EXCEPT ![id] = t]
      /\ hist' = [hist EXCEPT ![id] = h]
      /\ clock' = clock /\ Exists(id)
  BY DEF IngestDuplicate, LookupIncident
<1>2. clock \in Nat /\ row \in Incident /\ row.status \in StoredStates
  BY <1>1, RowFacts DEF IInv, TypeOK
<1>3. d.state \in StoredStates
  BY <1>2, DuplicateFacts
<1>4. d.intents = {"slack"} \/ (d.intents = {} /\ d.isFlapping)
  BY DEF DuplicateDecision
<1> HIDE DEF d
<1>5. /\ r.status = d.state /\ r.lastIngested = clock
      /\ r.key = row.key /\ r.bypassed = row.bypassed
      /\ r.flapping = (row.flapping \/ d.isFlapping)
  BY <1>2, PersistRecord
<1>6. /\ t["slack"] = IF "slack" \in d.intents THEN d.state ELSE told[id]["slack"]
      /\ t["pagerduty"] = told[id]["pagerduty"]
  BY <1>4, EnqueueRecord DEF IInv, TypeOK, Channels
<1>7. /\ h.lastArrival = clock
      /\ h.closedBy = IF Active(id) /\ d.state = "RESOLVED" THEN "monitor"
                                                            ELSE hist[id].closedBy
  BY DEF Arrive
<1>8. t["slack"] # r.status => r.flapping
  <2>1. CASE d.intents = {"slack"}
    BY <1>5, <1>6, <2>1
  <2>2. CASE d.isFlapping
    BY <1>5, <2>2, Zenon
  <2> QED BY <1>4, <2>1, <2>2
<1>9. d.state = "RESOLVED" /\ h.closedBy \in {"operator", "silence"}
         => t["pagerduty"] = "RESOLVED"
  <2> SUFFICES ASSUME d.state = "RESOLVED", h.closedBy \in {"operator", "silence"}
               PROVE  told[id]["pagerduty"] = "RESOLVED"
    BY <1>6
  <2>1. ~Active(id) /\ hist[id].closedBy = h.closedBy
    BY <1>7
  <2>2. row.status = "RESOLVED"
    BY <1>2, <2>1 DEF Active, ActiveStates, StoredStates
  <2> QED BY <2>1, <2>2 DEF RInv, AllSettled, Settled
<1> HIDE DEF r, t, h
<1>10. Settled(r, t, h, clock)
  BY <1>2, <1>3, <1>5, <1>7, <1>8, <1>9 DEF Settled, NoState, StoredStates
<1> QED BY <1>1, <1>5, <1>10, OneWritten DEF IInv, RInv, KeepsIdentity
\* A trigger: the incident falls quiet and its card says so, or nothing happens.
LEMMA TriggerRecord ==
    ASSUME IInv, RInv, NEW id \in Ids, PersistTrigger(id)
    PROVE  AllSettled' /\ OneIncidentPerIdentity'
<1> DEFINE row == incidents[id]
           next == TransitionState(row.status, "QUIET_DEADLINE")
           d == LifecycleDecision(row, next, {"slack"})
           r == PersistDecision(row, d)
           t == Enqueue(told[id], d.intents, next)
<1>1. clock \in Nat /\ row \in Incident /\ row.status \in StoredStates \cup {NoState}
  BY RowFacts DEF IInv, TypeOK, Exists
<1>2. next = IF row.status = "ACKNOWLEDGED" THEN "QUIESCENT" ELSE NoState
  BY <1>1, TransitionFacts DEF NoState
<1>3. CASE next = NoState
  <2>1. UNCHANGED <<incidents, told, hist, clock>>
    BY <1>3 DEF PersistTrigger
  <2> QED BY <2>1 DEF RInv, AllSettled, OneIncidentPerIdentity, Exists
<1>4. CASE next # NoState
  <2>1. /\ incidents' = [incidents EXCEPT ![id] = r]
        /\ told' = [told EXCEPT ![id] = t]
        /\ hist' = hist /\ clock' = clock
    BY <1>4 DEF PersistTrigger
  <2>2. hist' = [hist EXCEPT ![id] = hist[id]]
    BY <2>1 DEF IInv, TypeOK
  <2>3. next = "QUIESCENT" /\ Exists(id)
    BY <1>2, <1>4 DEF Exists, NoState
  <2> HIDE DEF next
  <2>4. d.intents = {"slack"} /\ d.state = next
    BY DEF LifecycleDecision
  <2> HIDE DEF d
  <2>5. /\ r.status = next /\ r.lastIngested = clock
        /\ r.key = row.key /\ r.bypassed = row.bypassed
    BY <1>1, <2>4, PersistRecord
  <2>6. t["slack"] = next
    BY <2>4, EnqueueRecord DEF IInv, TypeOK, Channels
  <2>7. hist[id].lastArrival \in Nat /\ hist[id].lastArrival <= clock
    <3>1. hist[id].lastArrival \in Nat /\ row.lastIngested \in Nat
      BY <1>1 DEF IInv, TypeOK, History, Incident
    <3> QED BY <1>1, <3>1 DEF RInv, AllSettled, Settled
  <2> HIDE DEF r, t
  <2>8. Settled(r, t, hist[id], clock)
    BY <1>1, <2>3, <2>5, <2>6, <2>7 DEF Settled, NoState
  <2> QED BY <2>1, <2>2, <2>3, <2>5, <2>8, OneWritten DEF IInv, RInv, KeepsIdentity
<1> QED BY <1>3, <1>4

\* An operator's callback: both channels know, and the id has moved an incident
\* once.
LEMMA CallbackRecord ==
    ASSUME IInv, RInv, NEW iid \in InboundIds, NEW provider \in Providers,
           NEW kind \in Kinds, NEW id \in Ids, Callback(iid, provider, kind, id)
    PROVE  AllSettled' /\ OneIncidentPerIdentity' /\ CountedOnce'
<1> DEFINE row == incidents[id]
           trigger == IF kind = "acknowledge" THEN "ACKNOWLEDGE" ELSE "RESOLVE"
           next == TransitionState(row.status, trigger)
           seen == [provider |-> provider, kind |-> kind, incident |-> id,
                    from |-> row.status,
                    status |-> IF next = NoState THEN "ignored" ELSE "applied"]
           r == Reconciled(row, next, kind, "operator", Channels \ {provider})
           t == Enqueue(told[id], Channels, next)
           h == [hist[id] EXCEPT !.closedBy = "operator"]
<1>1. clock \in Nat /\ row \in Incident /\ row.status \in StoredStates \cup {NoState}
  BY RowFacts DEF IInv, TypeOK, Exists
<1>2. next = NoState \/ (next = "RESOLVED" /\ row.status \in {"ACKNOWLEDGED", "QUIESCENT"})
  BY <1>1, TransitionFacts DEF NoState, Kinds, StoredStates
<1>3. /\ inbound[iid] = NoCallback
      /\ inbound' = [inbound EXCEPT ![iid] = seen]
      /\ clock' = clock
      /\ next = NoState => UNCHANGED <<incidents, told, hist, applications>>
      /\ next # NoState => /\ incidents' = [incidents EXCEPT ![id] = r]
                           /\ told' = [told EXCEPT ![id] = t]
                           /\ hist' = [hist EXCEPT ![id] = h]
                           /\ applications' = [applications EXCEPT ![iid] = @ + 1]
  <2>1. inbound[iid] = NoCallback
    BY DEF Callback, AlreadySeen
  <2>2. inbound' = [inbound EXCEPT ![iid] = IF inbound[iid] = NoCallback THEN seen
                                                                        ELSE inbound[iid]]
    BY DEF Callback
  <2>3. inbound' = [inbound EXCEPT ![iid] = seen]
    <3> HIDE DEF seen
    <3> QED BY <2>1, <2>2
  <2>4. /\ clock' = clock
        /\ next = NoState => UNCHANGED <<incidents, told, hist, applications>>
    BY DEF Callback
  <2>5. ASSUME next # NoState
        PROVE  /\ incidents' = [incidents EXCEPT ![id] = r]
               /\ told' = [told EXCEPT ![id] = t]
               /\ hist' = [hist EXCEPT ![id] = h]
               /\ applications' = [applications EXCEPT ![iid] = @ + 1]
    <3>1. /\ incidents' = [incidents EXCEPT ![id] = r]
          /\ told' = [told EXCEPT ![id] = Enqueue(@, Channels, next)]
          /\ hist' = [hist EXCEPT ![id] = [@ EXCEPT !.closedBy =
                         IF next = "RESOLVED" THEN "operator" ELSE @]]
          /\ applications' = [applications EXCEPT ![iid] = @ + 1]
      BY <2>5 DEF Callback
    <3>2. next = "RESOLVED"
      BY <1>2, <2>5
    <3> HIDE DEF next, r
    <3>3. hist' = [hist EXCEPT ![id] = h]
      <4>1. hist'[id] = h
        BY <3>1, <3>2 DEF IInv, TypeOK
      <4>2. hist' = [hist EXCEPT ![id] = hist'[id]]
        BY <3>1 DEF IInv, TypeOK
      <4> HIDE DEF h
      <4> QED BY <4>1, <4>2, Zenon
    <3> QED BY <3>1, <3>3
  <2> QED BY <2>1, <2>3, <2>4, <2>5
<1>4. seen # NoCallback
  BY DEF NoCallback, Providers
<1>5. CountedOnce'
  <2> HIDE DEF seen, next
  <2> SUFFICES ASSUME NEW j \in InboundIds
               PROVE  applications'[j] <= 1 /\ (inbound'[j] = NoCallback => applications'[j] = 0)
    BY DEF CountedOnce
  <2>1. applications[j] <= 1 /\ (inbound[j] = NoCallback => applications[j] = 0)
    BY DEF RInv, CountedOnce
  <2>2. inbound'[j] = IF j = iid THEN seen ELSE inbound[j]
    BY <1>3 DEF IInv, TypeOK
  <2>3. applications'[j] = applications[j] \/ (j = iid /\ applications'[j] = applications[j] + 1)
    BY <1>3 DEF IInv, TypeOK
  <2> QED BY <1>3, <1>4, <2>1, <2>2, <2>3
<1>6. CASE next = NoState
  BY <1>3, <1>5, <1>6 DEF RInv, AllSettled, OneIncidentPerIdentity, Exists
<1>7. CASE next # NoState
  <2>1. next = "RESOLVED" /\ Exists(id)
    BY <1>2, <1>7 DEF Exists, NoState
  <2> HIDE DEF next
  <2>2. /\ r.status = next /\ r.lastIngested = clock
        /\ r.key = row.key /\ r.bypassed = row.bypassed
    BY <1>1, ReconciledRecord
  <2>3. t["slack"] = next /\ t["pagerduty"] = next
    BY EnqueueRecord DEF IInv, TypeOK, Channels
  <2>4. h.lastArrival \in Nat /\ h.lastArrival <= clock
    <3>1. hist[id] \in History /\ row.lastIngested \in Nat
      BY <1>1 DEF IInv, TypeOK, Incident
    <3>2. h.lastArrival = hist[id].lastArrival /\ hist[id].lastArrival \in Nat
      BY <3>1 DEF History
    <3> QED BY <1>1, <3>1, <3>2 DEF RInv, AllSettled, Settled
  <2> HIDE DEF r, t, h
  <2>5. Settled(r, t, h, clock)
    BY <1>1, <2>1, <2>2, <2>3, <2>4 DEF Settled, NoState
  <2>6. AllSettled' /\ OneIncidentPerIdentity'
    BY <1>3, <1>7, <2>1, <2>2, <2>5, OneWritten DEF IInv, RInv, KeepsIdentity
  <2> QED BY <1>5, <2>6
<1> QED BY <1>6, <1>7

\* The sweeper: of what it closes, both channels are told.
LEMMA SweepRecord ==
    ASSUME IInv, RInv, SweepOnce
    PROVE  AllSettled' /\ OneIncidentPerIdentity'
<1>1. ASSUME NEW i \in Ids
      PROVE  /\ Settled(incidents'[i], told'[i], hist'[i], clock)
             /\ incidents'[i].key = incidents[i].key
             /\ incidents'[i].bypassed = incidents[i].bypassed
             /\ incidents'[i].status # NoState => Exists(i)
  <2> DEFINE next == TransitionState(incidents[i].status, "RESOLVE")
             r == Reconciled(incidents[i], next, "resolve", InferredSource, Channels)
             t == Enqueue(told[i], Channels, "RESOLVED")
             h == [hist[i] EXCEPT !.closedBy = "silence"]
  <2>1. clock \in Nat /\ incidents[i] \in Incident /\ hist[i] \in History
    BY DEF IInv, TypeOK
  <2>2. CASE i \notin Overdue
    <3>1. incidents'[i] = incidents[i] /\ told'[i] = told[i] /\ hist'[i] = hist[i]
      BY <2>2 DEF SweepOnce
    <3>2. Settled(incidents[i], told[i], hist[i], clock)
      BY DEF RInv, AllSettled
    <3> QED BY <3>1, <3>2, Zenon DEF Exists
  <2>3. CASE i \in Overdue
    <3>1. incidents'[i] = r /\ told'[i] = t /\ hist'[i] = h
      BY <2>3 DEF SweepOnce
    <3>2. incidents[i].status \in {"ACKNOWLEDGED", "QUIESCENT"} /\ Exists(i)
      BY <2>3, RowFacts DEF IInv, Overdue, StoredStates
    <3>3. next = "RESOLVED"
      BY <3>2, TransitionFacts DEF StoredStates
    <3> HIDE DEF next
    <3>4. /\ r.status = "RESOLVED" /\ r.lastIngested = clock
          /\ r.key = incidents[i].key /\ r.bypassed = incidents[i].bypassed
      BY <2>1, <3>3, ReconciledRecord
    <3>5. t["slack"] = "RESOLVED" /\ t["pagerduty"] = "RESOLVED"
      BY EnqueueRecord DEF IInv, TypeOK, Channels
    <3>6. h.lastArrival \in Nat /\ h.lastArrival <= clock
      <4>1. h.lastArrival = hist[i].lastArrival /\ hist[i].lastArrival \in Nat
            /\ incidents[i].lastIngested \in Nat
        BY <2>1 DEF History, Incident
      <4> QED BY <2>1, <4>1 DEF RInv, AllSettled, Settled
    <3> HIDE DEF r, t, h
    <3>7. Settled(r, t, h, clock)
      BY <2>1, <3>4, <3>5, <3>6 DEF Settled, NoState
    <3> QED BY <3>1, <3>2, <3>4, <3>7, Zenon
  <2> QED BY <2>2, <2>3
<1>2. clock' = clock
  BY DEF SweepOnce
<1>3. AllSettled'
  BY <1>1, <1>2 DEF AllSettled
<1>4. OneIncidentPerIdentity'
  <2> SUFFICES ASSUME NEW i \in Ids, NEW j \in Ids,
                      incidents'[i].status # NoState, ~incidents'[i].bypassed,
                      incidents'[j].status # NoState, ~incidents'[j].bypassed,
                      incidents'[i].key = incidents'[j].key
               PROVE  i = j
    BY DEF OneIncidentPerIdentity, Exists
  <2>1. /\ Exists(i) /\ ~incidents[i].bypassed /\ Exists(j) /\ ~incidents[j].bypassed
        /\ incidents[i].key = incidents[j].key
    BY <1>1, Zenon
  <2> QED BY <2>1 DEF RInv, OneIncidentPerIdentity
<1> QED BY <1>3, <1>4
\* Steps that write no incident: time may pass.
LEMMA OtherRecord ==
    ASSUME IInv, RInv, UNCHANGED <<incidents, told, hist>>, clock' \in {clock, clock + 1}
    PROVE  AllSettled' /\ OneIncidentPerIdentity'
<1>1. OneIncidentPerIdentity'
  BY DEF RInv, OneIncidentPerIdentity, Exists
<1>2. AllSettled'
  <2> SUFFICES ASSUME NEW i \in Ids PROVE Settled(incidents[i], told[i], hist[i], clock')
    BY DEF AllSettled
  <2>1. Settled(incidents[i], told[i], hist[i], clock)
    BY DEF RInv, AllSettled
  <2>2. clock \in Nat /\ incidents[i].lastIngested \in Nat
    BY DEF IInv, TypeOK, Incident
  <2>3. incidents[i].lastIngested <= clock'
    BY <2>1, <2>2 DEF Settled
  <2> QED BY <2>1, <2>3 DEF Settled
<1> QED BY <1>1, <1>2

\* Only a callback writes the table of callbacks.
LEMMA CountedElsewhere ==
    ASSUME RInv, UNCHANGED <<inbound, applications>>
    PROVE  CountedOnce'
BY DEF RInv, CountedOnce

\* The empty database satisfies the invariant.
LEMMA InitRecord == Init => RInv
<1> SUFFICES ASSUME Init PROVE RInv
  OBVIOUS
<1>1. \A id \in Ids : /\ incidents[id] = NoIncident /\ hist[id] = NoHistory
                      /\ told[id]["slack"] = NoState /\ clock = 1
  BY DEF Init, Channels
<1>2. /\ NoIncident.status = NoState /\ NoIncident.lastIngested = 0
      /\ NoHistory.lastArrival = 0 /\ NoHistory.closedBy = "none"
  BY DEF NoIncident, NoHistory, None
<1>3. AllSettled
  BY <1>1, <1>2 DEF AllSettled, Settled, NoState
<1>4. OneIncidentPerIdentity
  BY <1>1, <1>2 DEF OneIncidentPerIdentity, Exists
<1>5. CountedOnce
  BY DEF Init, CountedOnce
<1> QED BY <1>3, <1>4, <1>5 DEF RInv

\* Every step keeps the records.
LEMMA NextRecord == IInv /\ RInv /\ [Next]_vars => RInv'
<1> SUFFICES ASSUME IInv, RInv, [Next]_vars PROVE RInv'
  OBVIOUS
<1>1. CASE Ingest
  <2>1. PICK key \in Keys, e \in EventStatuses, id \in Ids :
           \/ IngestBypass(key, e, id)
           \/ IngestNew(key, e, id)
           \/ \E gap \in Gaps : IngestDuplicate(key, e, id, gap)
    BY <1>1 DEF Ingest
  <2>2. AllSettled' /\ OneIncidentPerIdentity'
    BY <2>1, BypassRecord, NewRecord, DuplicateRecord
  <2>3. UNCHANGED <<inbound, applications>>
    BY <2>1 DEF IngestBypass, IngestNew, IngestDuplicate
  <2> QED BY <2>2, <2>3, CountedElsewhere DEF RInv
<1>2. CASE \E id \in Ids : PersistTrigger(id)
  <2>1. AllSettled' /\ OneIncidentPerIdentity'
    BY <1>2, TriggerRecord
  <2>2. UNCHANGED <<inbound, applications>>
    BY <1>2 DEF PersistTrigger
  <2> QED BY <2>1, <2>2, CountedElsewhere DEF RInv
<1>3. CASE \E iid \in InboundIds, provider \in Providers, kind \in Kinds, id \in Ids :
              Callback(iid, provider, kind, id)
  BY <1>3, CallbackRecord DEF RInv
<1>4. CASE SweepOnce
  <2>1. UNCHANGED <<inbound, applications>>
    BY <1>4 DEF SweepOnce
  <2> QED BY <1>4, <2>1, SweepRecord, CountedElsewhere DEF RInv
<1>5. CASE PopDue \/ (\E id \in Ids : TimerWorkerDies(id)) \/ Crash \/ Restart \/ Tick
           \/ UNCHANGED vars
  <2>1. UNCHANGED <<incidents, told, hist, inbound, applications>>
        /\ clock' \in {clock, clock + 1}
    BY <1>5 DEF PopDue, TimerWorkerDies, Crash, Restart, Tick, vars, dbVars
  <2> QED BY <2>1, OtherRecord, CountedElsewhere DEF RInv
<1> QED BY <1>1, <1>2, <1>3, <1>4, <1>5 DEF Next

\* Both invariants hold in every reachable state.
LEMMA RecordInvariance == SafetySpec => [](IInv /\ RInv)
<1>1. Init => IInv /\ RInv
  BY InitInv, InitRecord
<1>2. (IInv /\ RInv) /\ [Next]_vars => (IInv /\ RInv)'
  BY NextInv, NextRecord
<1> QED BY <1>1, <1>2, PTL DEF SafetySpec

-------------------------------------------------------------------------------
(***************************************************************************)
(* The properties the runs check, for every instance.                      *)
(***************************************************************************)
\* Exact dedupe opens one incident per identity (process_event behind
\* lookup_incident), over any number of closes, reopens and bypasses.
THEOREM DedupeIsExact == SafetySpec => []OneIncidentPerIdentity
BY RecordInvariance, PTL DEF RInv

\* Whoever moves an incident, its Slack card follows unless the row is marked
\* flapping.
THEOREM CardsAreCurrent == SafetySpec => []SlackCardCurrent
<1>1. RInv => SlackCardCurrent
  BY DEF RInv, AllSettled, Settled, SlackCardCurrent
<1> QED BY <1>1, RecordInvariance, PTL

\* PagerDuty is told of every close by an operator or by the sweeper.
THEOREM PagersAreTold == SafetySpec => []PagerHearsEveryClose
<1>1. RInv => PagerHearsEveryClose
  BY DEF RInv, AllSettled, Settled, PagerHearsEveryClose
<1> QED BY <1>1, RecordInvariance, PTL

\* A callback that a provider repeats moves an incident at most once.
THEOREM CallbacksApplyOnce == SafetySpec => []AppliedAtMostOnce
<1>1. RInv => AppliedAtMostOnce
  BY DEF RInv, CountedOnce, AppliedAtMostOnce
<1> QED BY <1>1, RecordInvariance, PTL

-------------------------------------------------------------------------------
(***************************************************************************)
(* The sweeper's patience.                                                 *)
(***************************************************************************)
\* silence_threshold_ms is never below the floor stretched for the severity,
\* except where the ceiling cuts it off: the factor for reopens only lengthens
\* it.
LEMMA ThresholdFloor ==
    ASSUME NEW row \in Incident
    PROVE  LET stretch == IF row.severity = "critical" THEN CriticalStretch ELSE 1
           IN  /\ SilenceThreshold(row) \in Nat
               /\ SilenceThreshold(row) >= Least(SilenceFloor * stretch, SilenceCeiling)
<1> DEFINE stretch == IF row.severity = "critical" THEN CriticalStretch ELSE 1
           base    == Most(row.predicted * SilenceMultiplier, SilenceFloor)
           reopens == Least(row.reopenCount, HysteresisMax)
           n       == HysteresisNum^reopens
           m       == HysteresisDen^reopens
           long    == (base * stretch * n) \div m
<1>1. /\ row.predicted \in Nat /\ row.reopenCount \in Nat
      /\ SilenceMultiplier \in Nat /\ SilenceFloor \in Nat /\ SilenceCeiling \in Nat
      /\ HysteresisMax \in Nat /\ stretch \in Nat
  BY ConstantsAssumption DEF Incident
<1>2. base \in Nat /\ base >= SilenceFloor
  <2>1. row.predicted * SilenceMultiplier \in Nat
    BY <1>1
  <2> QED BY <1>1, <2>1 DEF Most
<1>3. reopens \in 0..HysteresisMax
  BY <1>1 DEF Least
<1>4. n \in Nat /\ m \in Nat \ {0} /\ m <= n
  <2> HIDE DEF reopens
  <2> QED BY <1>3, HysteresisAssumption
<1>5. \A a, k \in Nat, l \in Nat \ {0} : l <= k => (a * k) \div l \in Nat /\ (a * k) \div l >= a
  OBVIOUS
<1> HIDE DEF n, m, base, stretch
<1>6. base * stretch \in Nat /\ base * stretch >= SilenceFloor * stretch
      /\ SilenceFloor * stretch \in Nat
  BY <1>1, <1>2
<1>7. long \in Nat /\ long >= base * stretch
  BY <1>4, <1>5, <1>6
<1>8. SilenceThreshold(row) = Least(long, SilenceCeiling)
  BY DEF SilenceThreshold, n, m, base, stretch
<1> HIDE DEF long
<1>9. /\ Least(long, SilenceCeiling) \in Nat
      /\ Least(long, SilenceCeiling) >= Least(SilenceFloor * stretch, SilenceCeiling)
  BY <1>1, <1>6, <1>7 DEF Least
<1> QED BY <1>8, <1>9 DEF stretch

\* A row that the sweeper closes in a step, as SweptOnlyWhenSilent has it.
SweptNow(id) ==
    Active(id) /\ incidents'[id].status = "RESOLVED" /\ hist'[id].closedBy = "silence"

\* Only a sweep does that: a monitor or an operator signs for its own closes.
LEMMA OnlySweepsClose ==
    ASSUME IInv, RInv, [Next]_vars, NEW id \in Ids, SweptNow(id)
    PROVE  SweepOnce /\ id \in Overdue
<1>1. Active(id) /\ incidents[id].status # "RESOLVED" /\ Exists(id)
  BY DEF SweptNow, Active, ActiveStates, Exists, NoState
<1>2. ASSUME NEW r, NEW o \in Ids, incidents' = [incidents EXCEPT ![o] = r]
      PROVE  o = id /\ r.status = "RESOLVED"
  BY <1>1, <1>2 DEF SweptNow, IInv, TypeOK
<1>3. CASE Ingest
  <2>1. PICK key \in Keys, e \in EventStatuses, o \in Ids :
           \/ IngestBypass(key, e, o)
           \/ IngestNew(key, e, o)
           \/ \E gap \in Gaps : IngestDuplicate(key, e, o, gap)
    BY <1>3 DEF Ingest
  <2>2. CASE IngestBypass(key, e, o) \/ IngestNew(key, e, o)
    <3>1. ~Exists(o) /\ \E r : incidents' = [incidents EXCEPT ![o] = r]
      BY <2>2 DEF IngestBypass, IngestNew
    <3> QED BY <1>1, <1>2, <3>1
  <2>3. ASSUME NEW gap \in Gaps, IngestDuplicate(key, e, o, gap) PROVE FALSE
    <3> DEFINE d == DuplicateDecision(incidents[o], e, gap)
               r == PersistDecision(incidents[o], d)
    <3>1. /\ incidents' = [incidents EXCEPT ![o] = r]
          /\ hist' = [hist EXCEPT ![o] = Arrive(o, d.state)]
      BY <2>3 DEF IngestDuplicate
    <3> HIDE DEF d
    <3>2. r.status = d.state
      BY PersistRecord DEF IInv, TypeOK
    <3> HIDE DEF r
    <3>3. o = id /\ d.state = "RESOLVED"
      BY <1>2, <3>1, <3>2
    <3>4. Arrive(o, d.state).closedBy = "monitor"
      BY <1>1, <3>3 DEF Arrive
    <3>5. hist'[id] = Arrive(o, d.state)
      BY <3>1, <3>3 DEF IInv, TypeOK
    <3> QED BY <3>4, <3>5 DEF SweptNow
  <2> QED BY <2>1, <2>2, <2>3
<1>4. ASSUME NEW o \in Ids, PersistTrigger(o) PROVE FALSE
  <2> DEFINE next == TransitionState(incidents[o].status, "QUIET_DEADLINE")
             r == PersistDecision(incidents[o], LifecycleDecision(incidents[o], next, {"slack"}))
  <2>1. incidents' = incidents \/ incidents' = [incidents EXCEPT ![o] = r]
    BY <1>4 DEF PersistTrigger
  <2>2. next # "RESOLVED"
    BY DEF TransitionState, NoState
  <2> HIDE DEF next
  <2>3. r.status = next
    BY DEF PersistDecision, LifecycleDecision, IInv, TypeOK, Incident
  <2> HIDE DEF r
  <2> QED BY <1>1, <1>2, <2>1, <2>2, <2>3 DEF SweptNow
<1>5. ASSUME NEW iid \in InboundIds, NEW provider \in Providers, NEW kind \in Kinds,
             NEW o \in Ids, Callback(iid, provider, kind, o)
      PROVE  FALSE
  <2> DEFINE trigger == IF kind = "acknowledge" THEN "ACKNOWLEDGE" ELSE "RESOLVE"
             next == TransitionState(incidents[o].status, trigger)
             r == Reconciled(incidents[o], next, kind, "operator", Channels \ {provider})
  <2>1. CASE next = NoState
    <3>1. incidents' = incidents
      BY <1>5, <2>1 DEF Callback
    <3> QED BY <1>1, <3>1 DEF SweptNow
  <2>2. CASE next # NoState
    <3>1. /\ incidents' = [incidents EXCEPT ![o] = r]
          /\ hist' = [hist EXCEPT ![o] = [@ EXCEPT !.closedBy =
                         IF next = "RESOLVED" THEN "operator" ELSE @]]
      BY <1>5, <2>2 DEF Callback
    <3> HIDE DEF next
    <3>2. r.status = next
      BY ReconciledRecord DEF IInv, TypeOK
    <3> HIDE DEF r
    <3>3. o = id /\ next = "RESOLVED"
      BY <1>2, <3>1, <3>2
    <3>4. hist'[id] = [hist[id] EXCEPT !.closedBy = "operator"]
      BY <3>1, <3>3 DEF IInv, TypeOK
    <3>5. hist[id] \in History
      BY DEF IInv, TypeOK
    <3> QED BY <3>4, <3>5 DEF SweptNow, History
  <2> QED BY <2>1, <2>2
<1>6. PopDue \/ (\E o \in Ids : TimerWorkerDies(o)) \/ Crash \/ Restart \/ Tick
      \/ UNCHANGED vars => incidents' = incidents
  BY DEF PopDue, TimerWorkerDies, Crash, Restart, Tick, vars, dbVars
<1>7. incidents' # incidents
  BY <1>1 DEF SweptNow
<1>8. SweepOnce
  BY <1>3, <1>4, <1>5, <1>6, <1>7 DEF Next
<1>9. id \in Overdue
  BY <1>1, <1>8 DEF SweepOnce, SweptNow
<1> QED BY <1>8, <1>9

\* The sweeper closes nothing that an alert reached within the silence floor,
\* stretched for criticals: the column it reads is never older than the last
\* alert, and the threshold it compares with is never shorter.
THEOREM SweepsArePatient == SafetySpec => SweptOnlyWhenSilent
<1> DEFINE Patient ==
              \A id \in Ids :
                 Active(id) /\ incidents'[id].status = "RESOLVED" /\ hist'[id].closedBy = "silence"
                 => LET stretch == IF incidents[id].severity = "critical" THEN CriticalStretch ELSE 1
                    IN  clock - hist[id].lastArrival >= Least(SilenceFloor * stretch, SilenceCeiling)
<1>1. ASSUME IInv, RInv, [Next]_vars, NEW id \in Ids, SweptNow(id)
      PROVE  LET stretch == IF incidents[id].severity = "critical" THEN CriticalStretch ELSE 1
             IN  clock - hist[id].lastArrival >= Least(SilenceFloor * stretch, SilenceCeiling)
  <2> DEFINE stretch == IF incidents[id].severity = "critical" THEN CriticalStretch ELSE 1
             least == Least(SilenceFloor * stretch, SilenceCeiling)
  <2>1. /\ incidents[id] \in Incident /\ clock \in Nat /\ incidents[id].lastIngested \in Nat
        /\ hist[id].lastArrival \in Nat
    BY <1>1 DEF IInv, TypeOK, Incident, History
  <2>2. clock - incidents[id].lastIngested >= SilenceThreshold(incidents[id])
    BY <1>1, OnlySweepsClose DEF Overdue
  <2>3. SilenceThreshold(incidents[id]) \in Nat /\ SilenceThreshold(incidents[id]) >= least
    BY <2>1, ThresholdFloor
  <2>4. hist[id].lastArrival <= incidents[id].lastIngested
    BY <1>1 DEF RInv, AllSettled, Settled
  <2>5. least \in Nat
    BY ConstantsAssumption DEF Least
  <2> HIDE DEF least
  <2>6. clock - hist[id].lastArrival >= least
    BY <2>1, <2>2, <2>3, <2>4, <2>5
  <2> QED BY <2>6 DEF least
<1>2. IInv /\ RInv /\ [Next]_vars => Patient
  BY <1>1 DEF SweptNow
<1> QED BY <1>2, RecordInvariance, PTL DEF SafetySpec, SweptOnlyWhenSilent

==============================================================================
