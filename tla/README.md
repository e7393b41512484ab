# PulseGraph in TLA+

PulseGraph takes alerts in, collapses duplicates into incidents, moves the
incidents through a lifecycle, groups correlated ones into storms, tells people
about them through Slack, PagerDuty and email, streams them to a dashboard, and
diagnoses them from the source of connected GitHub repositories. This directory
models what happens to an incident, a storm, a notification, a reader of the
ledger, a GitHub connection, a diagnosis and a patch preview. Paths below are
relative to the repository.

## The system

One Python process (asyncio) and one SQLite database. Everything that writes
takes `Database.write_lock` and runs one transaction, so a transaction is
atomic; what a task reads before it awaits or calls a provider may be stale
afterwards. The tasks are the HTTP handlers, the timer worker, the silence
sweeper, the outbox worker, the root cause worker and the heartbeat.

| Component | State | Operations | Interacts with | What is hard |
|---|---|---|---|---|
| Ingest decision (`src/engine/process_event.py`, `db_adapter.py`, `src/db/writer.py`) | `incidents`, `raw_events`, outbox rows | bypass, new, duplicate, reopen | schedules in the timer wheel after the commit; inserts outbox rows in its transaction | long alert sequences; defaults that overwrite columns; flap damping |
| Lifecycle table (`incident_machine.py`) | none | `transition_state` | everyone who moves an incident | a state nobody ever stores |
| Timer wheel (`timer_wheel.py`) | heap, `_active` | schedule, cancel, pop_due, next_deadline_ms | filled by ingest and recovery, emptied by the timer worker | stale heap entries, generations that repeat |
| Timer worker (`timer_worker.py`) | popped triggers, its task | pop and persist, recover at startup | wheel, `incidents`, outbox rows | pops outside the lock; dies on an exception; restarts |
| Silence sweeper (`silence_sweeper.py`) | none of its own | sweep | `apply_external_action` | reads a column others stamp |
| Reconciliation (`src/inbound`) | `inbound_events` | acknowledge, resolve | Slack and PagerDuty callbacks | retries, late actions |
| Outbox worker (`src/outbox/worker.py`) | `outbox` leases, batch in memory | probe, coalesce, claim, dispatch, mark, park, retry, dead-letter, fail over | providers | provider calls without the lock, lost answers, crashes, leases |
| Circuit breaker (`channel_health.py`) | `channel_health`, `channel_outages` | success, failure, probe result | outbox worker | stale reads, relapse |
| Recovery and routing (`recovery.py`, `routing.py`) | `outbox` | coalesce, hydrate, digest, failover target | outbox worker | losing an intent or its marker |
| Storm grouping, correlation (`src/graph`) | `edges`, `incident_groups` | observe, assign, merge, refresh, redirect | runs in ingest and reconcile transactions; rewrites outbox rows | merges, derived facts, rows in flight |
| Root cause ranking (`root_cause_worker.py`) | revisions per scope | observe, rank | ingest | observation around ranking, failed sweeps |
| Ledger (`src/db/hashchain.py`, `scripts/verify_chain.py`) | `raw_events` chain | append, verify | every decision | order |
| Event stream (`src/stream`, `web/src/hooks/usePulseGraphStream.ts`) | cursor per connection, what a client shows | snapshot, delta, reconnect | reads `incidents`, `edges`, `raw_events` one query at a time | join of snapshot and deltas |
| GitHub connection (`store.py`, `router.py`, `client.py` of `src/github_integration`) | installations, repositories, mappings, snapshots | webhooks, sync, mapping, snapshot | GitHub | redelivery, reordering, check then act, paging, truncation |
| Incident analysis (`analysis_store.py`, `source_context.py`, `diagnosis.py`, `workflow.py`, `ollama_provider.py`) | analyses | diagnose, preview a patch | GitHub, models, the connection's tables | stale bindings, untrusted answers, budgets of two policies |
| Patch workspace (`workspace.py`) | a temporary directory | open, apply, clean up | the preview route | files that become directories, failure half way |
| Ingest front end, self check, rest of the dashboard | keys, skew, heartbeat | authenticate, normalize, probe | ingest | mostly data conversion |

What makes each part correct: an incident's deadline is never lost, never outdated and
never deferred without bound; an identity has one incident; both channels learn of every
close; a callback counts once; every incident closes in the end. A notification is not
forgotten by coalescing, outages or crashes; an outage costs a row nothing; every change
is shown in the end. A storm hangs together, only grows, and its stored facts are those
of its members. The ledger's chain holds, and a row that does not read back as hashed
has a cause; a reader that has caught up shows what is there and is sent nothing twice;
the last evidence is ranked. A repository is selected only under an active installation,
and comes back only on evidence newer than its removal; source is used only while it is
bound; a snapshot is the whole tree; a preview changes only what the diagnosis was
grounded in. A patch is applied exactly or not claimed to be. PROJECT.json lists the
hazards with the lines they bite at.

## The modules

| Module | What it is |
|---|---|
| `IncidentMachine` | the transition table |
| `IncidentLifecycle` | abstract: the edges an incident may take, whoever moves it |
| `IncidentEngine` | ingest, timer worker, sweeper, callbacks, crash and restart over the `incidents` and `inbound_events` tables |
| `TimerWheel`, `DeadlineTable` | the wheel, and the table of deadlines it implements |
| `Outbox` | producer, workers, breakers, outages and providers over the `outbox` table |
| `StormGroups` | correlation edges and storm groups |
| `StormDelivery` | extends `StormGroups` by the outbox rows that a storm redirects, and what the worker makes of them |
| `EventStream` | ledger, root cause worker, event stream and its client |
| `SourceTree` | `get_complete_tree` as operators, and what is below a tree without it |
| `GitHubConnection` | webhooks, sync, mapping and snapshot against GitHub |
| `IncidentAnalysis` | extends `GitHubConnection` by diagnosis and patch preview |
| `SourceSnapshots` | composes `IncidentAnalysis` and `SourceTree`: what a snapshot stores is what the walk makes of its commit's tree |
| `PatchWorkspace` | the temporary workspace of a preview |
| `TimerWheel_proofs`, `IncidentEngine_proofs`, `IncidentRecords_proofs`, `StormGroups_proofs`, `Outbox_proofs`, `EventStream_proofs`, `GitHubConnection_proofs`, `PatchWorkspace_proofs` | theorems |
| `MC*` | instances for TLC |

**IncidentEngine.** `incidents` and `inbound` are the tables; `wheel` and
`popped` are the timer worker's memory; `told` is, per incident and channel, the
state carried by the last intent queued. The engine uses the wheel through what
`DeadlineTable` promises; `TimerWheel` shows the heap keeps that promise. One
action per transaction: `IngestBypass`, `IngestNew`, `IngestDuplicate`,
`PersistTrigger`, `Callback`, `SweepOnce`. `PopDue` is separate from
`PersistTrigger` because the worker pops without the lock. `TimerWorkerDies` is
an exception in `_persist_trigger`, which nothing catches. `Crash` loses memory
and keeps the tables; `Restart` is `lifespan`: recover, then start. `hist` and
`applications` record what really happened, for the properties only.

Abstractions: time is an integer clock; an EWMA is the gap it predicts, any of
`Gaps`; severity is critical (bypassed) or other; payloads, titles and the
ledger row are left out. `is_exact_duplicate` always agrees after a lookup by
identity, so it is not a separate branch. Storm grouping runs in the same
transactions and has modules of its own: it moves no incident and no deadline,
but re-addresses queued rows of a storm's members, so `told` is about incidents
that are not a member of someone else's storm.

**Outbox.** A row has its status, attempts, time until due, time left on its
lease, priority, failover links. `worker[w].pc` says between which two
transactions or calls a worker is: `ReadStates`, `ProbeResult`, `Poll`,
`Render`, then `Accept` or `Reject` by the provider, then `MarkSent` and
`RecordSuccess`, or `RecordFailure`, `Settle` and `FailOver`. A message is the
version of the incident it was rendered from: `version` is the incident's,
`shown` what the provider shows, `owed` the version at the latest intent.
`Reject` may have delivered the message all the same (the answer was lost).
Verdicts of `failure_policy.classify` are chosen freely. Provider handles, the
text of messages and the counters of `channel_outages` are left out.

**StormGroups.** An incident is active or resolved; `edge`, `member` and `groups`
are the tables. `Alert` is `persist_and_observe` after the decision: the recent
neighbourhood, the round of observations (any direction and age of each pair),
then `assign_group` with merge and refresh, or `refresh_group_for_member`.
`Bypass` returns before all that, `Close` is `apply_external_action`, `Quiesce`
the timer worker, `Lull` the passing of the correlation window. Weights count
halves and decay rounds down. Incidents are numbered in the order of
`first_alert_at`, groups in that of `created_at`, so `<=` is the ORDER BY.

**StormDelivery.** Adds the queue: `AlertAndQueue`, `BypassAndQueue` and
`CloseAndQueue` are the storm actions with their intents and the redirect at
their end; `BeginCall` and `EndCall` are the two halves of `_dispatch` around the
provider call. Failures are in `Outbox`; here every call succeeds.

**EventStream.** `Commit` is one persisted decision. A snapshot is three reads
(`SnapshotIncidents`, `SnapshotEdges`, `SnapshotCursor`) on a connection without
a transaction; `ReadDeltas` and `Deliver` are the polling loop, `Drop` and
`Connect` a broken connection and the next one, resumed or from the beginning.
`RankSweep` is one transaction of the root cause worker. The state of an
incident is the number of commits it has seen. Of the ledger's payload one field is
kept apart, `fired_at`: it is hashed as reported and stored as `_iso` makes it, in UTC
and whole milliseconds, and `RowVerifies` hashes what is stored. Alerts report any
time of `FiredAt`; the timer worker, the sweeper and callbacks take the column's
(`EventTimes`). `torn`, `hinted` and `altered` are history. The fallback of the
dashboard to polling the REST endpoints while its stream is down is left out.

**GitHubConnection, IncidentAnalysis, SourceTree, SourceSnapshots.** `truth`, `events`
and `head` are GitHub's and external; `Webhook` handles any event GitHub has made, any
number of times and in any order. The routes are split where they wait: `SyncBegin`,
`SyncPage` for each page, `SyncPersist`; `SnapshotBegin`, `SnapshotRead`,
`SnapshotPersist`; `DiagnosisBegin`, `SourceRead`, `BindingRecheck`, `DiagnosisAsk`,
`DiagnosisPersist`; `PreviewBegin`, `SourceRead`, `BindingRecheck`, `PreviewAsk`,
`PreviewAnswer`; `RequestFails` ends any of them while it waits for GitHub. The recheck
and the call of the model are two steps, so a webhook may be handled between them:
`current` records of which requests the binding has held in some state since their
source was read, which is what the recheck can promise. `PreviewAsk` and `PreviewAnswer`
also make the checks a diagnosis never passes: the limit of a request to the local model
(`ChatBytes`, `MaxChatBytes`) and the workspace's path rules (`WorkspacePaths`). The
column `is_archived` is left out: `router.py:176` writes False whatever GitHub says, and
the repositories listed in a webhook do not carry the flag. A model answers anything in
`Answers` and `Proposals`. What a commit's tree becomes in the store is `Inventory` of
`SourceTree`, which walks truncated listings. `Walk` takes the calls of the code's
recursive `walk` that are under way as one list of entries to come: `Enter` is a call up
to its loop, `Turn` one turn of the innermost loop. The reference does not walk: a file
is below a tree when a route of directories leads to it (`Routes`). A result keeps its
citations and the paths of its fix, not its text.

**PatchWorkspace.** `Apply` plans a proposal against the disk and refuses it as a
whole, or starts the sequence `UnlinkBlocker`, `PruneBlockers`, `WriteNext`,
`WritesDone`, `DeleteNext`, `Finish`, any of which `OperationFails` may end.

## What the runs check

Passing:

| Run | Properties |
|---|---|
| `engine_safety` | `TimerArmed`: no deadline is lost while the process runs. `NoStaleTimer`: a waiting incident's timer is current. `DeadlineWithinBudget`: a storm cannot defer its deadline forever. `OneIncidentPerIdentity`. `SlackCardCurrent`, `PagerHearsEveryClose`: channels learn of state changes. `AppliedAtMostOnce`: callback retries. `SweptOnlyWhenSilent`: the sweeper closes only what was silent for its floor. `LifecycleSpec`: refinement of `IncidentLifecycle`. |
| `engine_liveness` | `EveryIncidentCloses`, over a crash and the death of the timer worker. |
| `timer_wheel` | `ActiveIsQueued`; `ImplementsTable`: refinement of `DeadlineTable`. |
| `outbox_safety` | `NothingForgotten`, `OutageKillsNothing`, `OutageMatchesBreaker`, `SupersededKeepsMarker`. |
| `outbox_liveness` | `EveryChangeIsShown`. |
| `storm` | `StormIntact`: no incident points at a group that was merged away, the anchor is a member, members share a scope although edges need not. `GroupFactsFresh`: stored status, severity, root and size are those of the members. `StormsOnlyGrow`: storms are not split, and the older anchor survives. |
| `event_stream` | `CaughtUpIsCurrent`: a client that has read everything shows what is there, except what changed while its snapshot was read. `NothingReplayed`: a resumed client gets nothing twice. `LedgerReadsBack`: in an untouched ledger the verifier objects to exactly the rows whose `fired_at` the column could not hold, the chain is unbroken and misses no change. `ReadersCatchUp`: in the end all evidence is ranked and the client has read all. |
| `github` | `SelectedMeansActive`, `NoStaleReselection`, `SyncIsExact`: the connection against reordered webhooks and requests under way; a repository comes to an installation only on evidence newer than its removal from it, or by a snapshot that moves it back. `SnapshotComplete`: the stored inventory is the reference tree of its commit. `SourceUsedOnlyWhileBound`: a revocation or remapping that comes before the recheck stops the model call, one that comes later the storing. `OnlyKnownDeadEnds`: a saved diagnosis can be taken up again, unless a path of its fix is refused by the workspace or the request is over the local model's limit. `PreviewGrounded`: whatever the model proposes. |
| `patch_workspace` | `AppliedExactly`, `NothingLost`, and the shape of the directory tree in `TypeOK`. |

Disagreements between the code and what the repository says of it, each a run
that TLC refutes (PROJECT.json "findings" quotes the lines):

| Run | What TLC shows |
|---|---|
| `flap_count` | a quiet deadline, sweep or callback resets `reopen_count` |
| `double_send` | a batch outlives its lease and two workers send one row |
| `storm_pager` | a storm member that paged and is closed is never resolved at PagerDuty |

Further disagreements met while modelling, without a run of their own because one
guard or one constant shows them:

- an acknowledge callback never applies, since no stored incident is OPEN
  (`src/inbound/reconcile.py:304`; the main README says callbacks apply
  acknowledgements);
- a deadline that passes while the process is down is not recovered
  (`src/engine/timer_worker.py:202`); `EveryIncidentCloses` holds because the
  sweeper closes the incident;
- the rest of a claimed batch goes to a channel whose breaker has opened
  (`src/outbox/worker.py:228`);
- a recovery digest has priority -1 and is therefore failed over
  (`src/outbox/routing.py:57`);
- what changes between the reads of a snapshot stays stale at the client until it
  changes again, while `web/src/hooks/usePulseGraphStream.ts:27` says no events are
  replayed or skipped; `CaughtUpIsCurrent` states exactly that exception. Root
  cause hints and group changes write no raw event and are not streamed at all;
- an event delivered while its installation is suspended is dropped, so with the
  order 1, 3, 2 an older event may be what remains (`store.py:286`);
- a snapshot stores the installation it read before its remote calls, so a
  repository that moved meanwhile, and is selected again under its new installation,
  is moved back to the one that lost it (`router.py:718`), although the comment at
  `router.py:714-716` gives the check before it as the reason that no removal is
  undone. `NoStaleReselection` states exactly that exception, and TLC reaches it;
- an alert whose `fired_at` is finer than milliseconds, or not in UTC, is hashed as
  reported and stored in UTC milliseconds (`src/engine/db_adapter.py:40-43`, `53-58`,
  `231`), so `scripts/verify_chain.py:16-41` recomputes another hash and reports an
  untouched ledger as tampered with. The main README (`README.md:227-230`) says the
  script proves the ledger "wasn't tampered with"; `LedgerReadsBack` says which rows it
  objects to;
- an analysis is refused for an archived repository (`analysis_store.py:229`), but the
  column is never true in practice: `router.py:176` stores `"archived": False` and
  `client.py` does not read the flag, so an archived repository's source is used;
- a diagnosis accepts paths of 512 bytes and with names the preview's workspace refuses
  (`source_context.py:34`, `120-146` against `workspace.py:70`, `444-466`), and files
  that make the preview's request larger than `_chat` sends (`ollama_provider.py:391-393`):
  such a saved diagnosis can never be previewed. `OnlyKnownDeadEnds` names both;
- `src/outbox/failure_policy.py:10-13` and `45-48` say that only a row's own fault burns
  its retry budget, while a TRANSIENT verdict is charged as well
  (`worker.py:393`, `530-531`); `OutageKillsNothing` counts both;
- a file operation that fails while a directory is being made leaves it behind,
  and a later file of that name is refused (`workspace.py:597`):
  `AppliedExactly` says a block has no other cause.

`outbox_safety` has one worker, as `src/main.py` starts. With two workers
`NothingForgotten` and `OutageMatchesBreaker` do not hold: an older rendering may
reach the provider after a newer one, and a probe may answer after the other
worker closed the breaker. Both are listed as hazards.

### Bounds, and why they suffice

- `MCIncidentEngine.cfg`: one identity and two incident ids, since the second id
  is what a split identity or a bypass needs; three alerts open, close and
  reopen an incident; one callback id with retries; one crash; the clock runs to
  5, past a deadline (1 or 2 ticks), the batch span (2) and both silence
  thresholds (2, and 3 for criticals). A flap threshold of 1 makes damping
  happen. Ids are symmetric.
- `MCIncidentEngineLive.cfg`: alerts stop at 3 and the clock runs to 10, longer
  than the longest chain of deadline and silence ceiling (4). No symmetry.
- `MCTimerWheel.cfg`: two incidents, three deadlines and five calls of
  `schedule`, enough for a generation to restart and meet an old entry.
- `MCOutbox.cfg`: one urgent incident with two changes, two channels, two
  failures and one crash: an outage, a failover, a probe, a relapse or a lost
  answer. A threshold, allowance and lease of 1 reach every breaker state.
- `MCOutboxLive.cfg`: one channel and three failures, enough for an outage that
  relapses on trial.
- `MCStorm.cfg`: five incidents, one of a second scope with a fingerprint of the
  first; a threshold that two rounds reach; three kinds of round (in order, some
  ahead, one long ago). A merge of two storms takes eight alerts, so the run also
  starts in the reachable state after the first four of them.
- `MCStormPager.cfg`: two incidents, three alerts, one close.
- `MCEventStream.cfg`: two incidents, one reporting whole milliseconds in UTC and one
  half a millisecond more in another zone, three commits, two broken connections, one
  failed sweep, a read limit of two rows, so a cursor stands inside a row, at its
  end and at the end of a full read.
- `MCGitHub.cfg`: two installations, the first connected with a repository, two
  repositories, pages of one, two records (webhooks or snapshots after the start), one
  client. Trees: one listed whole, one truncated and walked, with a directory that
  occurs twice, one a level deeper than the walk goes. Budgets that not all files fit, a
  blank file and a binary one; a path the workspace refuses, and two files that together
  are too large for a request. Two webhooks are enough for each pair of events in either
  order around a request; the theorems cover any number.
- `MCPatchWorkspace.cfg`: paths `a`, `a/b`, `a/b/c`, `a/d` and an unsafe one, every
  base and every proposal of up to three changes, two proposals, one failure.

`MaxTime`, `AlertHorizon`, `MaxAlerts`, `MaxCrashes`, `MaxTimerFailures`, `MaxVersion`,
`MaxFaults`, `MaxSequence`, `MaxWeight`, `MaxCloses`, `MaxLulls`, `MaxRows`,
`MaxCommits`, `MaxDrops`, `MaxFailures`, `MaxRecords`, `MaxAnalyses` and `MaxApplies`
are bounds of the instance and not of the code. `PollLag` bounds how long a due deadline
waits for the timer worker; the theorems hold for any value. Deadlock is not checked in
the engine runs and the timer wheel, where the clock and the number of calls stop at
their bound, nor in the storm, stream, GitHub and workspace runs, where alerts, commits,
requests and proposals do; the outbox never stops, and deadlock is checked there.

### Fairness

Weak fairness of `PopDue`, `PersistTrigger` and `SweepOnce`: each is the body of
a polling loop that never ends while its task lives. `TimerWorkerDies` has no
fairness, and the sweeper is in a task of its own with its own exception handler.
`Restart`: a supervisor brings the process back. `Tick`: time passes. In
`Outbox`, weak fairness of each worker's `Step` (its loop catches every
exception) and of `Answer` (every provider call has a timeout). Failures are
finite because `MaxFaults` is: a provider that never recovers is not promised
anything. Alerts, callbacks, crashes and failures need not happen. In
`EventStream`, weak fairness of `RankSweep` (the worker's loop catches every
exception), of the stream's loop and of `Connect` (a browser's EventSource
reconnects by itself); none of commits, drops or failures.

## What is proved

For every value of the constants that satisfies their ASSUMEs (below): any number
of incidents, alerts, rows, workers, commits, connections, installations, webhooks,
files and trees. The bounds of the instances are constants like any other. All of
the properties the passing runs check are theorems, liveness aside.

- `TimerWheel_proofs`: `TypeCorrect`, `QueuedCorrect` and `Refinement`. The
  refinement needs `ActiveIsQueued`: a pop returns the incidents that have a valid
  entry up to now, which are the due ones of the table only because every
  current deadline is in the heap. It needs no uniqueness of generations: an old
  entry equal to the current one has the same deadline.
- `IncidentEngine_proofs`: `TypeCorrect`, `TimersStayArmed`, `TimersAreCurrent`,
  `StormsAreBounded` and `LifecycleRefinement`, from one inductive invariant
  `IInv`: the three properties, their types, and three facts that make them
  inductive. `NeverOpen`: an acknowledgement that applied would clear the row's
  deadline and leave the wheel's. `NoTimerWithoutRow`: a bypass opens an
  ACKNOWLEDGED row without a deadline and must not meet an old timer.
  `NoTimerWhileDown`: a restart fills an empty wheel. One lemma per action shows
  it preserved; `LifecycleRefinement` adds, per action, the edge each incident
  takes.
- `IncidentRecords_proofs`: what the tables say of what happened: `DedupeIsExact`,
  `CardsAreCurrent`, `PagersAreTold`, `CallbacksApplyOnce` and `SweepsArePatient`,
  from `RInv` on top of `IInv`. `AllSettled` relates each row to what was last
  queued for its channels and to who closed it, with the two facts the properties
  need to last: the column the sweeper reads is never older than the last
  arrival of an incident that is active, and the flapping mark is what explains a
  card left behind. `CountedOnce` adds that a callback without a row in
  `inbound_events` never moved anything.
- `StormGroups_proofs`: `StormsHangTogether`, `StormsAreFresh`, `StormsGrow` and
  `TypesAreKept`, from `Structure` (types, `StormIntact`, group numbers are bounded, so
  a new one is new), `GroupFactsFresh` and the types of the tables it is computed from.
  Two lemmas carry it: `AssignKeeps` (an assignment leaves one group that holds the
  party and is refreshed, the others untouched) and `FreshStep` (facts depend on a
  group's own members and the edges between them, and a round changes only edges of the
  alert's incident). `TypesAreKept` (`TInv`) adds that the root of a group is one of its
  members: some member has the highest sum of edge weights (`HasLeader`), since a sum of
  numbers over a finite set is a number (`SumIsNat`). That is an induction over a set,
  done without an induction theorem: among the subsets the claim fails for, one of
  smallest cardinality would have a smaller one it holds for.
- `Outbox_proofs`: for any number of workers `TypesAreKept`, `OutagesKillNothing` and
  `MarkersSurvive`; for one worker (`OneWorker`, as `src/main.py` starts; with two
  TLC refutes both) `OutagesMatchBreakers` and `NothingIsForgotten`, over a queue of
  any length. `IInv` relates what a worker holds in memory between two
  transactions to what happened to the row: the attempts it read are no more than the
  row's transient failures (`ChargesOK`), which is why writing them back later
  charges no outage to it. `BInv` adds that a channel about to be probed is still
  OPEN. `MInv` carries `NothingForgotten`: only the newest row of an incident on
  a channel matters (`IsNewest`), coalescing never supersedes it; if it was sent,
  what is shown is what was promised (`NewestSentShows`); and the message in flight
  is no older than what is shown, nor than what is promised unless a newer row
  follows (`FlightsOK`).
- `EventStream_proofs`: `TypesAreKept`, `LedgerAlwaysReadsBack` (a commit changes no
  earlier row, continues the chain and adds its own row to those objected to, or not),
  `CaughtUpClientsAreCurrent` and `ResumedClientsSeeNothingTwice`, from `StreamInv`: for
  each incident the client's state is the latest, or torn by its snapshot, or an event
  behind the cursor will still bring it (`ClientCurrent`); between the first two events
  of a row even a torn incident is as shown or about to be replaced, since the second
  may mend it (`HalfRow`); a snapshot half read, and a batch half delivered, keep that
  promise (`SnapshotOK`, `BatchOK`). `StreamAssumption` asks for a read of at least two
  rows: the row a cursor stands in is read again, so a limit of one would never get past
  it (the code's is far larger).
- `GitHubConnection_proofs`: of the specification that includes diagnosis and preview,
  five invariants. `IInv` for `SelectionsAreActive` and `RemovalsAreNotUndone`: GitHub's
  events are in the order of its clock (`EventsOK`), an installation's version is at
  least as new as whatever took a repository from it (`RevokedOK`), and a sync whose
  revision still matches has seen every such event (`RequestsOK`): that is why comparing
  the revision in the writing transaction suffices. `Earned` splits every change of a
  row into evidence that new, or the snapshot that moves a repository back. `GInv` for
  `SourceGoesOutWhileBound` and `PreviewsAreGrounded`: a saved analysis is of a snapshot
  of its repository, what it cites and wants to change lies within what that snapshot
  showed the model (`AnalysesOK`), and neither ever changes. `SourceGoesOutWhileBound`
  adds that a request with its source is `current` if its binding holds or it has passed
  the recheck (`Witnesses`), and that it reads the repository of its snapshot
  (`PinnedOK`): so a recheck that passes is a witness even if the binding is gone when
  the model is called. `DeadEndsAreKnown` adds `FilesKnown` (a snapshot holds the files
  of a commit) and what selecting and budgeting files does: ranks are a bijection
  (`PlacesAreTaken`); what was taken is within the policy, whatever was passed over
  (`ContextFits`); files that fit a policy together are all taken, in any order
  (`ContextIsAll`). So the cited files, being part of a context that fitted the smaller
  policy, all fit the larger. The sums and the passes are folds, dealt with by smallest
  counterexamples (`SmallestSet`, `IterationExists`), as in `StormGroups_proofs`. `TInv`
  for `TypesAreKept` and `SyncsAreExact`: a sync during which GitHub made no webhook has
  read a prefix of the listing of what is granted, page by page (`Part`), and the
  listing is a bijection between positions and repositories (`RanksAreTaken`,
  `ListingIsWhole`), so at the end it has read all of it, once. `SnapshotsAreComplete`
  adds `SnapshotsWhole` (what is stored is of a tree that could be read whole) and what
  the walk does (`WalkIsWhole`). After n turns (`WalkOK`) every entry met lies at the
  end of a route from the root, under the names along it; every route has been gone to
  its end or has an entry still to come (`GoneThrough`), and a walk with something to do
  has collected n entries, so within the limit it runs out of work. The directories
  above an entry are as many as the names before its own, since no tree is entered below
  itself: so a path is no longer than there are directories, and the bound of `Routes`
  leaves none out. Two directories that are one tree object are two routes. A recursive
  function is known to the provers only once one exists: `TurnsExist`, by the smallest
  number of turns there would be none for.
- `PatchWorkspace_proofs`: `DiskIsATree`, `NoFileIsLost` and `PlansAreAppliedExactly`,
  from `WInv`: the disk is a tree (`Types`); at each stage, which files are old, which
  new and which are still to be removed (`Progress`); and without a failure no
  directory is empty outside an unlink, so a directory in the way of a file holds
  files that are in its way as well, and pruning removes it (`Tidy`).

The assumptions, each evaluated by TLC: `DeadlinesAssumption`; `ConstantsAssumption`
(the engine's settings are numbers, the divisors positive), `HysteresisAssumption` (the
factor of flap hysteresis is at least one, as 1.5 is; stated of its powers, of which the
provers know nothing) and `WindowAssumption` (the default window fits in the batch
span); `StormAssumption` (numbers, finitely many incidents), `DecayAssumption` (powers
of two are positive numbers, which the provers do not know); `OutboxAssumption`
(numbers, the three channels the code knows); `StreamAssumption` (the reported times are
numbers of ticks, a millisecond at least one); `ConnectionAssumption` (repository ids
are positive, as `client.py` checks, and finitely many); `PolicyAssumption` (what fits a
diagnosis fits a patch, as with the default settings; a smaller patch policy would
dead-end saved diagnoses), `FilesAssumption` (one file per path of a snapshot, the
primary key of `github_snapshot_files`; sizes and counts of words are numbers, as are
the bytes a request takes; paths sort without ties); `TreeAssumption` (finitely many
objects, a directory names one of them; GitHub's recursive listing is whole when it does
not say it is truncated) and `SnapshotAssumption` (what the client makes of a commit is
what `SourceTree` makes of its root); `WorkspaceAssumption` (a path is a non-empty
sequence of names, and paths have a fixed order).

Only model-checked, and why:

- liveness (`EveryIncidentCloses`, `EveryChangeIsShown`, `ReadersCatchUp`): fairness
  is about ENABLED, which the provers do not reason about;
- what `storm_pager`, `flap_count` and `double_send` refute, which is not true.

The transition table and `StormDelivery` have no theorem of their own; the engine and
the storm groups use them through what is proved above.

## Not modelled

- Signature checks (`src/inbound/signatures.py`, `webhooks.py`), API keys and the
  normalizers of `src/ingest`: pure conversions without state; only accepted input
  reaches the models.
- The arithmetic of EWMA, clock skew, edge decay (here over halves) and root cause
  scores: real numbers.
- HTTP, retries inside one request, JWT, prompts, schemas, redaction, message and
  diff text, symlink checks: I/O and text.
- Details no property depends on: a tie between roots of a storm is broken by the number
  of an incident (`storm_grouping.py:243` by its id); a new incident of a storm is
  active, whatever `_new_incident_state` allows; `QuietDown` queues no Slack card, since
  its run is about PagerDuty; whether probes are due is read once for all channels, not
  as each is reached (`worker.py:131`); a path has one word when a saved diagnosis'
  files are ranked again (`source_context.py:186-200`); blanks around a path are kept
  (`store.py:38`, `647` strip them); a listing longer than 100 pages is a
  `RequestFails`.
- Migrations and pragmas; settings; health endpoints and the self check, which
  read the state of the other parts and change none.
- The dashboard beyond the stream hook; demo, drill and replay scripts.

## Plan

Two workers: what does hold of them, beyond the theorems that do not ask for one, stated
as a weaker promise than `NothingForgotten`.
