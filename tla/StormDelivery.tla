---------------------------- MODULE StormDelivery ----------------------------
(***************************************************************************)
(* Storm grouping composed with delivery: what redirect_member_deliveries  *)
(* (src/graph/storm_grouping.py) does to the outbox rows of an incident    *)
(* that turned out to be part of a storm, and what the outbox worker makes *)
(* of them (src/outbox/worker.py, recovery.py, pagerduty.py, slack.py).    *)
(* Failures, breakers and leases are in Outbox; here every call succeeds,  *)
(* and a worker has one call under way at a time, made without the lock.   *)
(*                                                                         *)
(* A message is the action it carries.  The key of a message is what the   *)
(* provider files it under: a PagerDuty dedup_key or a Slack ts, named by  *)
(* the incident it was made for.                                           *)
(***************************************************************************)
EXTENDS StormGroups

CONSTANT MaxRows    \* rows of the outbox in one behaviour

VARIABLES
    outbox,     \* the outbox table, in the order of outbox_id
    call,       \* the row the worker holds in memory while the provider is called
    provider,   \* the action each channel received last for a key
    closed      \* history: incidents an operator or the sweeper closed last

deliveryVars == <<outbox, call, provider, closed>>

Channels == {"slack", "pagerduty"}

NoKey == 0

NoCall == [row |-> 0]

Row(i, channel, action) ==
    [incident |-> i, about |-> i, channel |-> channel, action |-> action,
     status |-> "pending", ref |-> NoKey]

\* redirect_member_deliveries: every pending row of the member, on every
\* channel and in a worker's hands or not, becomes an update of the anchor;
\* its payload still names the member.  A member with a Slack card of its own
\* gets a last edit of it.
HasCard(i, rows) ==
    \E n \in DOMAIN rows : /\ rows[n].incident = i /\ rows[n].channel = "slack"
                           /\ rows[n].status = "sent" /\ rows[n].ref # NoKey

Redirect(i, anchor, rows) ==
    LET moved == [n \in DOMAIN rows |->
                     IF rows[n].incident = i /\ rows[n].status = "pending"
                     THEN [rows[n] EXCEPT !.incident = anchor, !.action = "update"]
                     ELSE rows[n]]
    IN  IF HasCard(i, rows) THEN Append(moved, Row(i, "slack", "merged")) ELSE moved

\* The end of persist_and_observe and of apply_external_action.
Settle(i, rows) ==
    LET g == member'[i]
    IN  IF g # NoGroup /\ groups'[g].facts.count > 1 /\ groups'[g].anchor # i
        THEN Redirect(i, groups'[g].anchor, rows)
        ELSE rows

-----------------------------------------------------------------------------

DeliveryInit ==
    /\ Init
    /\ outbox = <<>>
    /\ call = NoCall
    /\ provider = [c \in Channels |-> [i \in Ids |-> "none"]]
    /\ closed = {}

Room == Len(outbox) + 3 <= MaxRows

\* An alert tells Slack only, also when the monitor says resolved.
AlertAndQueue(i, to, sev, round) ==
    /\ Room
    /\ Alert(i, to, sev, round)
    /\ outbox' = Settle(i, Append(outbox, Row(i, "slack", IF Exists(i) THEN "update" ELSE "create")))
    /\ closed' = closed \ {i}
    /\ UNCHANGED <<call, provider>>

\* A protected critical pages as well, and is never redirected here.
BypassAndQueue(i) ==
    /\ Room
    /\ Bypass(i)
    /\ outbox' = outbox \o <<Row(i, "pagerduty", "create"), Row(i, "slack", "create")>>
    /\ UNCHANGED <<call, provider, closed>>

\* A close tells every channel but the one it was made in; the provider an
\* operator used has already closed its own message.
CloseAndQueue(i, by) ==
    /\ Room
    /\ by \in Channels => provider[by][i] # "none"
    /\ Close(i)
    /\ outbox' = Settle(i, outbox \o SetToSeq({Row(i, c, "resolve") : c \in Channels \ {by}}))
    /\ provider' = IF by \in Channels THEN [provider EXCEPT ![by][i] = "resolve"] ELSE provider
    /\ closed' = closed \cup {i}
    /\ UNCHANGED call

\* _resolve_external_ref: the handle of the incident's newest sent row.
ExternalRef(i, channel) ==
    LET sent == {n \in DOMAIN outbox : /\ outbox[n].incident = i /\ outbox[n].channel = channel
                                       /\ outbox[n].status = "sent" /\ outbox[n].ref # NoKey}
    IN  IF sent = {} THEN NoKey ELSE outbox[Max(sent)].ref

\* effective_action: a row of an incident that is over announces the end.  The
\* last edit of a merged card reads the same either way.
EffectiveAction(action, i) ==
    IF status[i] = "RESOLVED" /\ action # "merged" THEN "resolve" ELSE action

\* PagerDuty files by dedup_key, the handle or the payload's incident; Slack
\* posts a new message when it has no handle to edit.
Key(row, ref) ==
    IF ref # NoKey THEN ref
    ELSE IF row.channel = "pagerduty" THEN row.about ELSE row.incident

\* coalesce_pending, the claim and the first half of _dispatch: only the
\* newest pending row of an incident and channel is sent, as it reads now.
Newest(n) ==
    \A k \in DOMAIN outbox :
        outbox[k].status = "pending" /\ outbox[k].incident = outbox[n].incident
            /\ outbox[k].channel = outbox[n].channel => k <= n

BeginCall(n) ==
    /\ call = NoCall
    /\ outbox[n].status = "pending" /\ Newest(n)
    /\ call' = [row     |-> n,
                channel |-> outbox[n].channel,
                key     |-> Key(outbox[n], ExternalRef(outbox[n].incident, outbox[n].channel)),
                action  |-> EffectiveAction(outbox[n].action, outbox[n].incident)]
    /\ outbox' = [k \in DOMAIN outbox |->
                     IF k # n /\ outbox[k].status = "pending" /\ outbox[k].incident = outbox[n].incident
                            /\ outbox[k].channel = outbox[n].channel
                     THEN [outbox[k] EXCEPT !.status = "superseded"]
                     ELSE outbox[k]]
    /\ UNCHANGED <<vars, provider, closed>>

\* PagerDuty opens an alert by a trigger only; anything else for a dedup_key it
\* does not know changes nothing.
Received(channel, key, action) ==
    IF channel = "pagerduty" /\ action # "create" /\ provider[channel][key] = "none"
    THEN "none" ELSE action

\* The provider answers, and _mark_sent stores its handle in the row, whoever
\* the row belongs to by now.
EndCall ==
    /\ call # NoCall
    /\ provider' = [provider EXCEPT ![call.channel][call.key] =
                        Received(call.channel, call.key, call.action)]
    /\ outbox' = [outbox EXCEPT ![call.row].status = "sent", ![call.row].ref = call.key]
    /\ call' = NoCall
    /\ UNCHANGED <<vars, closed>>

QuietDown == Lull \/ \E i \in Ids : Quiesce(i)

DeliveryNext ==
    \/ \E i \in Ids, to \in {"ACTIVE", "RESOLVED"}, sev \in Severities, round \in Rounds :
        AlertAndQueue(i, to, sev, round)
    \/ \E i \in Ids : BypassAndQueue(i)
    \/ \E i \in Ids, by \in Channels \cup {"sweeper"} : CloseAndQueue(i, by)
    \/ QuietDown /\ UNCHANGED deliveryVars
    \/ \E n \in DOMAIN outbox : BeginCall(n)
    \/ EndCall

DeliverySpec == DeliveryInit /\ [][DeliveryNext]_<<vars, deliveryVars>>

-----------------------------------------------------------------------------

\* An incident that an operator or the sweeper closed is closed in PagerDuty
\* too, once nothing is queued for PagerDuty any more.  IncidentEngine shows it
\* for incidents outside a storm.
PagerHearsEveryClose ==
    call = NoCall /\ (\A n \in DOMAIN outbox : outbox[n].channel = "pagerduty" => outbox[n].status # "pending")
        => \A i \in closed : provider["pagerduty"][i] \in {"none", "resolve"}

==============================================================================
