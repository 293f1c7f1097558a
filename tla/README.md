# metric-runtime: a TLA+ model of the runtime

metric-runtime evaluates business metrics on a schedule, turns each value into a
step of a per-metric state machine, opens and resolves incidents, and delivers
notifications through a transactional outbox. Several processes may run against
one runtime store. This directory holds the specifications of the parts where
that is hard to get right, the TLC configurations that check them, and the
proofs that TLAPS checks.

    tlasany M.tla                    parse a module
    tlc -config X.cfg MCModule.tla   one run
    tlapm M.tla                      the proofs of a module

Paths below are relative to `src/metric_runtime/` of the repository unless they
start with `docs/` or `tests/`.

## 1. Inventory

| Component | State it keeps | Operations | Interacts with |
|---|---|---|---|
| Evaluation stream: `engine.py` (`process`, `_commit_ordered`, `acknowledge`), `adapters/postgres/store.py`, `stores/staging.py` | tables `observations`, `metric_state`, `evaluations`, `evaluation_claims`; the advisory lock of a stream; the local variables of each call | claim, evaluate, wait for earlier windows, read state and history, commit, release; acknowledge | called by the run loop and by library users; stages incidents and outbox rows in the same transaction |
| Notification outbox: `notifications/delivery.py`, the outbox methods of both stores | the `outbox` rows with counters, lease and backoff; the batch of each pass | enqueue, claim, send, mark delivered, record attempt, release | filled by the commit of the stream, drained once per cycle of the run loop |
| In-memory runtime store: `stores/memory.py` | dictionaries, claims and their expiry, in-flight table, busy flag and a condition variable per stream | the same interface | one process, many threads |
| Metric lifecycle: `state.py`, `engine.py:771-997`, `stores/staging.py` | state, streaks, `opened_at`, `resolved_at`, incidents | `evolve_state`, the cooldown, incident and event per transition, acknowledge | runs between the reads and the commit of the stream |
| Scheduler and run loop: `scheduling.py`, `runtime.py` | none of its own: the cursor is the latest committed evaluation; the counter of failed cycles | `due_ticks`, `run_once`, `compute_wait`, `run_forever` | calls the stream per metric and window, then the outbox |
| Schema migrations: `migrations.py` and the migration folders | `schema_migrations`, the tables | `migrate`, `ensure_ready` | start-up, several processes |
| Evaluation session: `calculations/session.py`, `batch.py`, `context.py` | the memo of one tick | `evaluate`, `evaluate_all` | between the run loop and the executor |
| Dependency graph and investigation: `graph.py`, `investigation.py` | none | paths, candidates, deepest anomaly | called by the stream on an anomaly |
| Detectors, expressions, measures | none | statistics over the history | called by `evaluate` |
| Executors, notifier adapters | connections | queries, one POST | external |
| Configuration, registry, command line, presentation | none after start-up | parsing, wiring, output | start-up |

What is hard about it:

* **No lock over a calculation.** A commit is computed from a state record and a
  history that were read without any lock (`engine.py:735-766`); an
  acknowledgement or another commit may come between.
* **Claims that expire.** A claim is taken over after `claim_ttl`, while its first
  owner may still be on its way to the commit.
* **Waits without a lock.** A later window polls for earlier claims
  (`postgres/store.py:798-830`); what it saw is old when it commits, so
  everything is checked again under the advisory lock (`_recheck_under_lock`).
* **Two keys, one time.** `at=` and `start=`/`end=` give different keys that may
  have the same effective time.
* **Leases against slow receivers.** A send is outside any transaction and may
  outlast its lease; marks and attempts arrive late.
* **Lost answers.** A transaction may be committed although its caller saw an
  error.
* **Order across cycles.** A window that fails has to defer later ones, and the
  cursor is only the latest committed window; one that is skipped (another worker has
  it, or the attempts to commit it ran out) defers nothing.
* **Width of `timedelta`.** Two exponential delays are capped after the
  multiplication.
* **Notifications between threads.** The in-memory store waits on a condition
  variable: every release of a claim or of the section has to wake its waiters.
* **Two transactions for one acknowledgement.** The incident is written from a copy
  that an evaluation may have changed since, and it has no version.
* **Long sequences of windows.** Quality, gaps of data, cooldown, streaks and
  acknowledgements meet in one cascade of returns (`state.py:134-207`).
* **One cache for many questions.** The rows of the batch source are shared by the
  warming run, the current windows and the baselines of all requested metrics.

What makes each part correct:

* stream: observation, state and evaluation record appear together; each window
  at most once; in the order of effective time; every state computed from exactly
  the history before it; a later window does not overtake a live earlier claim;
  one caller at most is told that it stored a result; every call ends;
* outbox: one lease holder per event; an event is settled once and for good; it
  is delivered only if the receiver had it; it is dead after exactly
  `max_attempts` failures; every event is settled in the end;
* in-memory store: the same promises as the Postgres store;
* lifecycle: an open metric has an incident, never two, and a closed one has none;
  the events tell the life of every incident; cooldown; no acknowledgement undone;
* run loop: no window is passed over while it is within `max_catchup_windows`
  unless an attempt at it ended as skipped;
  the loop survives failures; it wakes up when something is due;
* migrations: the schema goes from one whole release to a later one, each file
  takes effect once, no service runs over another schema than its own;
* session and investigation: dependencies first, one batch run per window, a result
  is what the definitions prescribe; the evidence of an incident is a chain of
  anomalies that leads to the metric whose owner is alerted.

## 2. Modules

| Module | What it is |
|---|---|
| `EvaluationLedger` | abstract: what a store promises about one stream. A commit is one step. |
| `EvaluationStream` | `KPIEngine.process` and the state half of `acknowledge`, over the Postgres store |
| `MemoryStream` | the same over the in-memory store, against the same `EvaluationLedger` |
| `MetricLifecycle` | `evolve_state`, cooldown, incidents, events, and both halves of `acknowledge` |
| `OutboxPromise` | abstract: what the outbox promises about each event |
| `OutboxDelivery` | `deliver_pending` over the outbox of a store |
| `Scheduling` | the operators of `scheduling.py`, and when a window *is* due |
| `RuntimeCycle` | `run_once` and `run_forever` of several workers over one store; EXTENDS `Scheduling` |
| `MetricCatalog` | the validated catalog of metrics |
| `EvaluationSession` | `process_many` over one session; EXTENDS `MetricCatalog` |
| `Investigation` | the investigation of an anomaly and its incident; EXTENDS `MetricCatalog` |
| `SchemaMigration` | `store migrate`, `run` and `store status` over one schema |

`MC<Module>` holds the instances for TLC (`MCEvaluation` those of `EvaluationSession`
and `Investigation`, which share the small catalogs), `<Module>Proofs` the theorems:
`RuntimeCycleProofs` also those of `Scheduling`, `InvestigationProofs` also the
lemmas about the closures of a catalog, `EvaluationProofs` those of
`EvaluationSession`.

How they fit together: `RuntimeCycle` takes `process` at its claim and its end;
`EvaluationStream` and `MemoryStream` are what happens in between, on two stores;
`EvaluationSession` is where the value comes from, `Investigation` what is added to
an anomaly, and `MetricLifecycle` what one commit does with the result. They meet
in three facts: the evaluations of a stream are committed one after the other, each
from the current record (shown by both streams, assumed by `MetricLifecycle`);
`process` gives a value, no data or an exception (the outcome of `EvaluationSession`,
the choice of `Evaluate` and `Fail` in the streams); and an event is in the outbox
exactly with the commit that staged it (the transaction of `Apply`, the `Publish`
of `OutboxDelivery`).

### EvaluationStream

One (metric, scope) stream. `metricState` is its row of `metric_state`,
`observations`, `evaluations` and `claims` are the tables, `expired` the windows
whose claim row has run out, `streamLock` the transaction-scoped advisory lock.
The other variables are the local variables of the calls.

| Code | Actions |
|---|---|
| `process` begins | `Process` |
| `claim_evaluation` | `ClaimCheck` (the first read), then `ClaimRefused` or `InsertClaim` (the rest of its transaction with the second read) |
| `evaluate()` with value, or `NoDataError` | `Evaluate` |
| `ordered_stream_commit` | `OrderedStreamCommit` (a poll that ends the wait), `WaitTimeout` |
| the reads of `_commit_ordered` | `ReadState`, `ReadHistory` |
| `tx.commit()` | `RecheckUnderLock` takes the lock and finds nothing in the way; `RecheckFails`, `RecheckConflict` are its refusals; `VersionConflict`, `Apply` are the writes |
| `except StreamCommitConflict` | the operator `Conflict`: once more, `CommitAttempts` times at most |
| `finally: release_evaluation_claim` | `ReleaseEvaluationClaim` |
| an exception anywhere | `Fail`; the answer of a commit may be lost, second half of `Apply` |
| the process dies | `Crash` |
| `expires_at` passes | `ExpireClaim` |
| `acknowledge`, state half | `AcknowledgeRead`, `AcknowledgeWrite` |

What is abstracted:

* The payload of a state record is `applied`, the list of writes it derives from.
  A commit appends its window to the list it *read*, so that a write that
  overwrites another one shows as a list with a gap.
* An evaluation record keeps the history its state was computed from (`basis`)
  and, as an auxiliary, whose call stored it (`winner`).
* A worker stands for the random token of its claim. A worker has one call at a
  time and cannot claim a window again while its own old row is there and live;
  once it is expired it is deleted and the old call is over.
* `now()` in `_recheck_under_lock` is the start of the transaction, which may have
  waited for the lock: a row that has expired since may still count
  (`RecheckConflict`) and need not (`RecheckUnderLock`).
* `lateClaim` remembers whether a later window was ahead when a claim was made.
  It is auxiliary: no guard reads it.
* `acknowledge` writes an incident in a transaction of its own; that half belongs
  to the lifecycle. Incidents and outbox rows are in the transaction of `Apply`
  and follow it.

### OutboxDelivery

`outbox` is the table; times are the ticks that are left to `next_attempt_at` and
`claimed_until`, and `Tick` lets them pass while workers are anywhere. `accepted`
is the receiver. An event is its place in the order `(created_at, id)`.

| Code | Actions |
|---|---|
| `stage_notification` and the insert | `Publish` |
| `claim_pending_notifications`, with `limit` and `SKIP LOCKED` | `ClaimPendingNotifications` |
| `_send` | `SendReturns`, `SendRaises` (the event may have arrived) |
| `mark_notification_delivered` | `MarkNotificationDelivered`; `MarkRaises` fails before or after the row was written, then `ReleaseNotificationClaim` |
| `record_notification_attempt` | `RecordNotificationAttempt`, `RecordRaises` |
| the process dies, a store call fails without effect, or `backoff_for` raises because the delay does not fit a `timedelta` | `Crash`: the attempt is not recorded and the pass ends |

A lost lease (`NotificationLeaseLostError`) is the branch of the two writes that
leaves the row alone. Reading the clock and the statement that uses it are one
step: no comparison depends on the difference, because a lease is only compared
where it is claimed. Both stores have the same conditional writes; `SKIP LOCKED`
only occurs in Postgres, and the in-memory store behaves like an instance in
which nothing is skipped. Its writes also accept `claim_token=None`, which
`deliver_pending` never passes. A release that fails after a failed mark is
`Crash` in the state `release`.

### Scheduling

`AlignTick`, `LatestDueTick`, `NextDueAt` and `DueTicks` are the functions of
`scheduling.py`; `FirstTick`, `TickCount` and `SkippedCount` are the local
variables of `due_ticks`. Times are integers and `\div` rounds down, as the floor
division of `timedelta` does. The reference definition is `IsDue`: the window is
closed and the lag over, it is after the cursor, and fewer than
`max_catchup_windows` windows have become due since
(`docs/production.md`, section 4). `SkippedTicks` are the windows that `skipped_first`
and `skipped_last` report instead; `IsTooOld` says which they should be.

### RuntimeCycle

Several processes in `run_forever` over one store. A window is a pair of a metric
and a tick. `committed` is the table `evaluations`, `claims` and `expired` are the
claim rows as in `EvaluationStream`; the other variables are the workers' own:
`queue` is what is left of `by_tick`, `blocked` the set of that name, `failures`
the counter of `run_forever`, `wakeAt` the end of `stop.wait`.

| Code | Actions |
|---|---|
| `run_once` begins: the cursors and `due_evaluations` | `BeginCycle` |
| `claim_evaluation`: a result, or a live claim (`skipped`) | `PassWindow` |
| `claim_evaluation`: the claim | `ClaimWindow`; `ClaimRaises` when the store fails before or after its row was stored |
| `process` returns | `Commit`; its answer or the release may be lost, and the outcome is then `failed` |
| `StaleEvaluationError`, `EvaluationInProgressError`: stale, the wait for an earlier window ran out, the claim was lost | `SkipWindow` |
| `StreamCommitConflict` at the last attempt (a subclass of `EvaluationInProgressError`); over the in-memory store `StaleEvaluationError` at the first version conflict | `ConflictsRunOut`: skipped as well |
| any other exception of `process` | `FailWindow` |
| outcome `deferred` | never tried: `Remaining` |
| the outbox is drained, `compute_wait`, the sleep | `EndCycle` |
| `run_once` raises, `_error_backoff` | `CycleFails`; `LoopEnds` when the backoff overflows |
| the process dies, or is stopped in its sleep | `Crash`, later `Start` |
| a claim row runs out; time passes | `ExpireClaim`, `AdvanceClock` |

What is abstracted: everything between the claim and the end of `process`, which
`EvaluationStream` models, is one state `process`. A conflict that is tried again
and then succeeds is invisible; when the attempts run out, the window is skipped and
defers nothing (`ConflictsRunOut`). That needs no other worker, since acknowledgements
move the version too, so it is possible at any time. The
cursors of all metrics are read in one step. The warm-up of the session has no
effect on the store. `deliver_pending` and
`next_notification_due_at` are the choice of a time at which the outbox may have
something due. All metrics are enabled. `Earlier` holds windows that may have
been committed before an outage, with a time that need not be a tick, since
`process` may be called with any. `failed`, `skipped` and `fellAsleep` are
auxiliary: no guard reads them.

### MemoryStream

One stream of `InMemoryStateStore`, used by the threads of one process. `record`,
`observations` and `evaluations` are its dictionaries, `claims` the claims and the
in-flight table of the stream (both are written together), `expired` the claims past
`_claim_expiry`, `busy` the flag of the stream, `notified` the waiters that a
`notify_all` has woken and that have not run yet. A step is one stretch of code
under the lock of the store. Nothing survives the process, so there is no crash.

| Code | Actions |
|---|---|
| `process` begins | `Process` |
| `claim_evaluation` | `ClaimRefused`; `ClaimEvaluation`, which takes an expired claim over |
| `evaluate()` | `Evaluate` |
| `ordered_stream_commit`, one round of its loop | `EnterSection`: stale, or into the section, or to sleep; `WaitTimeout` after 30 seconds without a notification |
| the reads of `_commit_ordered` | `ReadState` |
| `tx.commit()`, `_apply` | `CommitRefused` (the claim is lost), `CommitConflict` (the version is, after the observation has been written), `Commit` |
| `finally` of `ordered_stream_commit` and of `process` | `LeaveSection`, `ReleaseEvaluationClaim` |
| an exception anywhere | `Fail` |
| `claim_ttl` passes | `ExpireClaim` |
| `acknowledge`, state half | `AcknowledgeRead`, `AcknowledgeWrite` |

What is abstracted: the payload of a record, as in `EvaluationStream`; the ids of
incidents and events, which two streams share (section 5). `EarlierInFlight` does
not ask whether a claim has expired, because the code does not: an abandoned
earlier claim holds back later windows until it is taken over or the wait times
out.

### MetricLifecycle

One metric. The streams show that evaluations are committed one after the other,
each from the record that is current at its commit; so an evaluation here is a read
(`view`) and a commit, and only an acknowledgement may come in between. Time is
counted in windows: evaluation n has the effective time n.

| Code | Definitions |
|---|---|
| `signals_from_history`, the two streaks | `Signals`, `EndsWith`, `Detections`, `HealthyWindows` |
| `evolve_state` | `EvolveState`, `EvolveGood`, `MayOpen` |
| the cooldown | `CooledDown` |
| `_commit_ordered`: the value, the reads and `find_active_incident` | `Evaluate`; again after a conflict, `Conflict` |
| `_commit_ordered`: state, incident, event, `tx.commit()` | `Commit` with `NextState`, `StagedRecord`, `StageIncident` |
| `acknowledge` | `AcknowledgeState`, `AcknowledgeFind`, `AcknowledgeIncident`; an error or a crash in between is `AcknowledgeFails` |

What is abstracted: a window is one of `detected`, `healthy`, `ineligible` (bad
quality) and `no_data`; whether its impact reaches `min_impact`, and whether the
investigation names another explanatory metric or owner (`moved`), are one bit each.
A detection is an anomaly with support (`signals_from_history`), so that
`require_support` decides nothing. The state half of
`acknowledge` is one step: its version check is in the streams. `overwritten` is
auxiliary: an acknowledgement has written its copy of an incident over a newer one.
Some properties do not hold after that, and say so (section 6).

### MetricCatalog, EvaluationSession

`MetricCatalog` is the catalog after construction: dependencies, kinds of
calculation, identifiers of the expressions, and what construction refuses
(`Valid`). A dependency is a set member: the order of the tuple is left open.
`Closure` is what a metric is built on, the smallest set with the metric in it that
is closed under its dependencies (the ancestors in the graph of `graph.py`); it is
defined as that set, and not by the recursion that computes it, so that it can be
reasoned about.

`EvaluationSession` is one call of `process_many`. The inputs (catalog, what the
calculation of a metric answers in a window, windows in which the batch source
raises, requests) are variables that no action changes, so that one run of TLC
covers all of them. An answer is a value, no data, an error result, or an exception
that leaves the call (`"raises"`): the executor is missing or does not speak the
dialect (`session.py:159`, `:179`), the answer is not a number (`:171`, `:194`, `:217`),
or the arithmetic of an expression fails on a literal, a number of arguments or an
overflow (`expressions.py:78-81`, `:142`, `:199`). An expression has no error result of
its own (`NoErrorOfItsOwn`).

| Code | Actions |
|---|---|
| construction of the catalog and of the session | `Build` |
| `_dependency_closure` with its recursive `visit`, `_topo_order` | `VisitTarget`, `VisitChild`, `EndVisit`, with the recursion as `stack` |
| `_evaluate_metric`: query, batch column, derived | `EvaluateQuery`, `EvaluateBatch`, `EvaluateDerived` with `Combine`; `Take` and `Raise` for what raises |
| the key of the batch cache | `CacheKey`, `Cached`, `CachedRow` |
| the warming run, and that its error results are dropped | `Warmed` |
| `process` of the requests one by one begins with the claim | `ProcessFrom`, then `ClaimRefused`, `AlreadyCommitted`, or `VisitTarget` |
| `metric_value` of the current window, then of the windows of `_usable_baseline` | `Baseline`; `ValueFails` for an error result |
| the commit of `process` | `Commit` |
| the support query, the impact, the investigation or the commit raises; or what follows the commit does | `ProcessFails`, without or with what was committed |

`byWindow` is the use with `start=`/`end=`: `evaluate_window` makes a new session for
every value there, hence `AskValue` empties the cache. A claim is granted, refused or
finds a record, and a commit succeeds or fails; why is in the streams. The support
query, the impact and the investigation use sessions of their own, and what they
evaluate is not followed: they succeed or raise. A row is a window of which the session
holds the answers, and is looked up by its key.

### Investigation

`investigate_metric` and `incident_from_investigation` over a catalog, a set of anomalous
metrics and a set of metrics without a bad direction (`twoSided`).

| Code | Definitions |
|---|---|
| evaluation of the ancestors | `EvaluateAll`: all or, when one raises, none |
| `mark_root_candidates` | `RootCandidates` |
| `find_explanatory_paths` | `Walk`, one path at a time |
| `rank_explanatory_candidates`, `primary_explanatory` | `Rank`: any candidate may come first |
| `preferred_explanatory_path`, the incident | `Report`, `ExplanatoryKpi`, `SuppressedAncestors` |

### SchemaMigration

Processes of several releases of the code over one schema. A migration file is a
version and a checksum. `runs` counts how often the SQL of a version has taken
effect; `pending` and `staged` are the transaction of a `migrate`.

| Code | Actions |
|---|---|
| a command starts; configuration and roles are built | `Invoke`, `Built` |
| `pg_advisory_xact_lock` | `TakeLock` |
| `verify_migrations` under it | `Verify`: abandon, or what is pending |
| the files in version order, the commit | `Apply`, `CommitMigration` |
| `applied_migrations` without a lock, by `ensure_ready` and `status` | `LookForLedger` (is there a table), `ReadRows` |
| a service ends, a status is printed | `Finish` |
| an error or a crash anywhere | `Fail`: rollback, and the lock is free |

`Init` has an empty database or one that some release has migrated.

## 3. Runs

| Run | Instance | Shows |
|---|---|---|
| `stream_safety` | `MCEvaluationStream`: 2 workers, 1 operator, 3 windows, two of them with the same time, 1 attempt, an acknowledgement at version 0 | `TypeOK`, `AtomicCommit`, `HistoryIsExact`, `OrderedState`, `OneWinner`, `NoOvertaking`, and that the stream implements `EvaluationLedger` |
| `stream_live` | 2 workers, 2 windows, 2 attempts, `FairSpec` | `CallsTerminate` |
| `memory_stream` | `MCMemoryStream`: 2 threads, 1 operator, the same 3 windows, claims that expire, `FairSpec` | `TypeOK`, `OrderedState`, `OneWinner`, `NoOvertaking`, `NoLostWakeup`, `CallsEnd`, and that this store implements `EvaluationLedger` too |
| `memory_atomic` | expects a violation, 2 threads, 2 windows | see section 6 |
| `metric_lifecycle` | `MCMetricLifecycle`: persistence 2, 2 healthy windows to resolve, cooldown 3, 7 windows, 1 acknowledgement | `TypeOK`, `IncidentsFollowState`, `EventsMatchIncidents`, `CooldownHolds`, `EventsHaveEvidence`, `AckIsSticky` |
| `lifecycle_stranded` | expects a violation, no acknowledgement | see section 6 |
| `outbox` | `MCOutboxDelivery`: 2 workers, 2 events, 2 attempts, lease of 2 ticks, `FairSpec` | `TypeOK`, `OneLeaseHolder`, `RetryLimit`, `EveryEventSettles`, and that the outbox keeps `OutboxPromise` |
| `outbox_backoff_overflow` | expects a violation, 4 attempts, the delay of the third overflows | see section 6 |
| `runtime_cycle` | `MCRuntimeCycle`: 2 workers, 1 metric, interval 2, lag 1, 2 catch-up windows, an error backoff that overflows at the second failed cycle | `TypeOK`, `WakesInTime`, `ScheduleIsExact`, `OnlySkippedArePassed` |
| `cycle_failed_window` | expects a violation, 2 workers | see section 6 |
| `evaluation` | `MCEvaluation`: calls of `process_many` for 2 of up to 3 metrics with at most one fault, 2 baselines; investigations of every pattern of anomalies in up to 4 metrics | `DepsFirst`, `BatchOnce`, `OutcomesAreRight`, `FailuresAreExplained`, `PathsAreExact`, `EvidenceExplains` |
| `schema_migration` | `MCSchemaMigration`: 2 processes, 5 releases, `FairSpec` | `AppliedOnce`, `ReadyIsMigrated`, `WholeReleases`, `CommandsEnd` |

**Bounds.** *Streams.* Two workers are enough for a takeover (one that lost its
claim, one that has it); a third takes part only through the tables, in which it
looks like the second after a crash or an end, since that frees a worker for the
next call. Two windows show every order of two commits, an early one that waits, one
that overtakes and one that is stale; the tie of two keys needs the third. One commit
attempt makes every conflict final; the retry is in `stream_live`, where two attempts
give a first conflict that is retried and a second that gives up. `MaxVersion` only
bounds acknowledgements (commits are bounded by the windows): with 1 an operator
acknowledges what no window has changed yet, and that races the first commit; a
call that has read before it is the conflict.
*Lifecycle.* A persistence and a resolution of two are the least for which a streak
can be broken. Seven windows are an opening (two), a resolution (two), and a second
opening at the end of a cooldown of three; every shorter story leaves room for gaps,
bad windows and detours. One acknowledgement meets every state and every half of an
evaluation; a second one is like the first, because a call keeps nothing.
*Outbox.* A lease of two ticks lets a worker be late by one tick or by more than a
lease, two attempts give one with a backoff and a last one, and `BackoffMax = 1` caps
the delay. `DelayLimit` is `timedelta.max`; 8 is out of reach where a run is not about
it, 2 is passed by the third attempt.
*Cycle.* Two catch-up windows are the least with an earlier and a later window in one
cycle; an interval of two with a lag of one puts the clock on a tick, off a tick, and
exactly at `now - lag - interval`. `MaxTime = 1` lets one more window close during a
cycle or a sleep; the cursor is never set, or long ago and off the ticks, or in the
catch-up range. `ScheduleIsExact` compares `DueTicks` with `IsDue` for every cursor
from one window before that range up to now; it depends on the clock alone, so TLC
evaluates it once for each time (`ExactTimes`). One metric is enough for order and
cursor, which are per metric; the order between metrics is covered by the proofs.
*Evaluation.* Three metrics are the least with a dependency of a dependency and with
a diamond of two requests; the requests are a metric and another one and, when nothing
is at fault in a calculation, the same one twice or an unknown one. At most one metric
is at fault (no data, an error result, an exception) in the current window or a
baseline, or has no data in any baseline, or the batch source raises in one window: that
is every way in which one fault passes up a catalog. Claims are refused, and commits
fail, anywhere.
Explanatory paths that share a metric and end in different ones need four metrics.
Two baselines make one that is usable and one that is not. Catalogs that
construction refuses (an unknown dependency, a cycle, an undeclared identifier) are
among the inputs.
*Migrations.* A release, its successor, a branch with another migration, one that
merges both (after the branch its second version is applied late), and one that
edited an applied file; two processes, since the third waits as the second does.

**Symmetry** over the workers, and over the two keys of one time, is used in runs of
safety properties only. `CHECK_DEADLOCK FALSE` is set where the system may rest: the
outbox when every event is settled and all leases are over; the lifecycle at its last
window; a call or an investigation that has ended.

**Fairness.** *Stream*: every query and sleep of a call ends (statement timeouts, the
30 second deadline of the wait), so each worker takes its own next step (weak fairness
of `Proceed`); Postgres queues for an advisory lock, so a worker that waits for it is
served at last (strong fairness of `TakeLock`). Nothing is assumed about crashes,
about expiry or about new calls. *In-memory*: threads run, and one that was notified
gets the lock (weak fairness of `Proceed`). Nothing is assumed about the timeout or
about expiry: the wait has to end by notifications alone. New calls might keep the
stream busy for ever, therefore `CallsEnd` is about behaviours in which they stop.
*Outbox*: the run loop drains the outbox in every cycle (weak fairness of `Claim`), a
pass goes on or ends (of `Send`, `Write` or `Crash`), and time passes (`Tick`).
Crashes and late answers may happen again and again but not always: a worker that
starts to send within its lease over and over ends a send within it at last
(`SendInTime`), and one that is about to record an outcome the store would accept
records it at last (`RecordOutcome`), both strong fairness. Without the first a
receiver slower than the lease, and without the second a store that fails on every
write, keep an event open for ever; the code promises nothing about these.
*Migrations*: a command goes on (weak fairness of `Progress`), and the server queues
those that wait for the lock (strong fairness of `TakeLock`).

## 4. Proofs

For every number of workers, processes, windows, events, metrics and releases, and
every policy. The only assumptions are the named ones on the constants
(`StreamAssumption`, `MemoryAssumption`, `LifecycleAssumption`, `DeliveryAssumption`,
`ScheduleAssumption`, `CycleAssumption`, `CatalogAssumption`, `SessionAssumption`,
`InvestigationAssumption`, `FilesAssumption`): the marks (`Nil`, `Ack`, `None`,
`NoMetric`, `Unknown`) are not workers, windows, times or metrics, intervals and
streaks are positive, limits are natural numbers, the catalog and the files of a
release are finite, and a release has one file of a version (`load_migrations`
refuses two).

`EvaluationStreamProofs`: `TypeCorrect`, `CommitsAreAtomic`, `StateIsOrdered`,
`HistoryIsAlwaysExact`, `OneWinnerPerWindow`, `LaterWindowsWait` and the refinement
`StreamImplementsLedger`. The inductive invariant is `IInv`. None of the properties
is inductive alone, because a commit writes what was read before without a lock.
What makes the reads good is the version, which only grows: a snapshot whose
version is still current *is* the current record (`SnapshotFresh`, `ViewFresh`),
and a history that was read after such a snapshot is the current history
(`HistoryFresh`). The lock has one owner (`LockOwner`), and while it is held what
the recheck found stays true (`RecheckHolds`), since every writer of the tables
needs the lock. Then a commit that passes `VersionGuard` extends the state by
exactly one window that is later than all, which gives the rest. `OneWinner` says both
halves of the answer of a call: "new" means that it stored the result, "stale" and
"in progress" that it did not; the second half needs `NotYetStored`, that a call which
was granted its claim stores nothing before its last step. A call that *fails* may have
stored its result, and the model has that case (the lost answer of `Apply`).

`OutboxDeliveryProofs`: `DeliveryTypeCorrect`, `LeaseIsExclusive`,
`RetriesAreLimited` and the refinement `OutboxKeepsPromise`. The invariant is that
a row with a token is neither delivered nor dead (`TokenMeansPending`), that the
worker's copy of the row is the row as long as the token is its own
(`CopyIsCurrent`), that nobody takes the token away before the lease is over
(`LeaseKeepsToken`), and that what is about to be marked was sent
(`MarkedWasSent`). So the `attempt_count` that `deliver_pending` compares with
`max_attempts`, although it is a copy, is the right one whenever the write is
accepted; and `OneLeaseHolder` follows from `LeaseKeepsToken`, because a row has
one token, and from `TokenMeansPending`: what is sent within a lease is not settled.

`RuntimeCycleProofs`, first the schedule, for every time, interval, lag, cap and
cursor: `DueTicksAreDue` says that `due_ticks` returns exactly the windows for which
`IsDue` holds, `SkippedTicksAreTooOld` that it reports exactly those closed ones after
the cursor that the cap leaves out, `CatchupIsCapped` that the cap is kept, and
`NextDueIsNext` that no window becomes due before `next_due_at`. All are shown
in units of the interval, in which the floor divisions disappear
(`MultipleBelow`: a multiple of the interval is at most x exactly if its factor is
at most the quotient); the ticks of a cursor are then a range of integers, and the
cap cuts it in two.

Over them `TypeCorrect`, `ExactSchedule`, `InTime` and `Passed`. The invariant `IInv`
says that the latest commit of a metric is well defined (`HasCursor`), that a worker in
`process` has a window (`HasJob`), and that a cycle accounts for every window that was
due when it began (`NothingLost`): it is still in the queue, it was skipped, its metric
is blocked, or it is not due any more because the cursor has passed it. Other workers
can only move a cursor forward (`CursorGrows`), which makes windows less due. So when a
window is the next one of its metric, the earlier ones that are still due can only have
been skipped, which is `Passed`: the worker met another one's live claim or a conflict
to the last attempt, and saw no failure. `InTime` uses `NextDueIsNext` and that a wait
longer than `min_wait` ends by the earliest of the due times.

`MemoryStreamProofs`: `TypeCorrect`, `StateIsOrdered`, `OneWinnerPerWindow`,
`LaterWindowsWait`, `NoWakeupIsLost`, `OnlyAcknowledgementsSplitCommits` and the
refinement `MemoryImplementsLedger`. The
busy flag names a window and not a thread, so the heart of the invariant is that
nevertheless one call at a time is in the section (`OneInSection`): whoever is in it
has its window in `busy`, and two calls of one window cannot both get there, because
`EnterSection` wants the flag free. From it follows that what is staged is newer than
all that is committed (`StillNewer`), although an acknowledgement may still change the
record; those the versions catch (`CopiesAreVersioned`). `ClaimHasCall` says that a
claim is never left behind by a call that has ended, which is what makes waiting for
claims sound.

`NoLostWakeup` is not an induction step but a consequence. `WaitsForSomething` is the
inductive part: the only steps that free the section or a claim notify everybody, and a
thread goes to sleep only after it saw one of them taken, under the same lock. That
alone would allow two threads that sleep behind each other. They cannot, because the
order in which claims hold each other back is that of the effective times: if the
section is taken, its holder runs; if not, of the claims that are earlier than that of
the sleeper the *least* one has a call (`ClaimHasCall`) that nothing earlier holds back,
so it is not asleep (`SomebodyRuns`).

`AtomicCommit` is false in this store (section 6, `memory_atomic`), and
`OnlyAcknowledgementsSplitCommits` says how far: a result never lacks its observation,
and as long as nobody has acknowledged, observations and results agree. Its invariant is
`OnlyAcknowledgedSince`: in the section the record is still the one that was read, unless
there was an acknowledgement.

`MetricLifecycleProofs`: `TypeCorrect`, `IncidentsFollow`, `EventsMatch`, `NoFlapping`,
`NoEventWithoutEvidence` and `AcknowledgementIsSticky`. An evaluation commits only if the
record it read is the current one (`RecordIsVersioned`); the incident has no such
check, so `ViewHasIncident` says what remains true of it: until the commit only a late
acknowledgement changes which incident is active. `AckHasIncident` is the same for the
copy of an acknowledgement. `NoFlapping` is about two events that may be far apart;
`CooldownPending` carries the first one along: until the cooldown has passed or a bad
window came, the metric is resolved or acknowledged, with a `resolved_at` that is not
before the event. `EventsAreDated` lets a commit, which appends to the history, leave
what was said about older events alone.

`EvaluationProofs`: `SessionTypeCorrect`, `PlanIsInOrder`, `SourceRunsOnce`,
`OutcomesAreAsPrescribed` and `FailuresHaveReasons`. `_topo_order` trusts its
recursion: a metric that it meets again is taken as listed. That is so because the
open visits form a chain of dependencies (`StackIsChain`): a child under visit would
close a cycle, which an accepted catalog does not have (`CallIsOn`); so a child that
was seen is listed (`VisitedOnce`), and when a visit ends, all it depends on is.
The plan is also complete and has nothing in excess (`PlanIsComplete`): all that is
asked for is visited (`VisitsAreRequested`), what is listed is closed under the
dependencies, and so it holds the closure, which is the least such set.

`SourceRunsOnce` follows from `RunsAreCached` (a window without a row has not been run)
and, for the warming run, from that completeness: a column has a result only from a row
in the session, a row only from a run (`RowsWereRead`), and the plan of the warming run
has a result for every column that any request is built on. Hence the source cannot
raise for the current window later, when some metrics are already committed; this is the
third part of `SourceRaised`, and it holds with `at=` only. That a row that is found is
about the window at hand is `RowIsOfWindow`.

What a definition prescribes (`Prescribed`) looks at the closure of a metric at once;
the code combines the results of the direct dependencies. That both agree is
`PrescribedUnfolds`, by `ClosureUnfolds`: the closure of a metric is the metric and
the closures of what it names. With `ListedAfterDeps`, whatever an expression names has been
evaluated before, so `Combine` never meets a missing result (`CombineIsRight`), and
all results of the window at hand are right (`ResultsAreRight`). The metric that is
processed is in the plan (`TargetIsPlanned`), hence has a result when the plan is
through (`TargetIsEvaluated`), and the baselines counted so far are the prescribed
values of the windows asked so far (`BaselinesAreCounted`). An answer that
raises is never a result, so a metric with a result has nothing below it that raises,
and one that is committed has none in any window it needs. For the failures,
everything that is visited lies below what is asked for (`VisitsAreRequested`), so that
what raised is a calculation some request needs (`AnswerRaised`); a call that was refused
its claim has evaluated nothing of the metric, and one that failed after its last window
is `Decided`; the metrics with an outcome are those the call has come past, and perhaps
the decided one (`CommittedSoFar`).

`InvestigationProofs`: `InvestigationTypeCorrect`, `PathsAreExplanations`,
`PathsAreAll` and `EvidenceIsExplanation`. The open paths are chains of anomalies
(`OpenChains`), and what has been left out of `Onward` because the path holds it
already would be a cycle (`ChainsDoNotReturn`): so a path ends only where no
dependency is anomalous. A chain holds no metric twice (`ChainIsSimple`), hence is no
longer than the catalog (`ChainIsRoute`); and of every explanation an open path is a
beginning, or it has been found (`NothingMissed`), which at the end of the walk leaves
`PathsAreAll`. An anomaly with a bad direction has a root candidate
(`CandidateExists`) because the set of anomalies of bad direction below it has, as
every set of an acyclic catalog, a member that depends on no other; acyclicity is used
in this form wherever one would take an induction over the graph. Every metric of a
chain is built on the end of it (`EndIsBelow`), so that the alert stands for ancestors
of the alerted metric.

`SchemaMigrationProofs`: `TypeCorrect`, `AppliedOnceHolds`, `ReadyIsMigratedHolds`,
`WholeReleasesHold` and `OneMigrationAtATime`. The lock is held from its grant to the
end of the transaction and no longer (`LockIsHeld`), so the ledger stays as it was read;
what a transaction has applied and has yet to apply is exactly what the ledger lacks of
the release (`TransactionIsExact`); and the ledger is that of one release
(`LedgerIsRelease`), which a commit extends to that of another. `ReadyIsMigrated` lasts
because the ledger only grows.

Only model-checked: `CallsTerminate`, `CallsEnd`, `EveryEventSettles` and
`CommandsEnd`, which rest on fairness and `ENABLED` and are out of the prover's reach.
Every other property of the runs that hold is a theorem.

## 5. Not modelled, and why

* Detectors, expressions, measures: floating-point statistics. The rest of the
  system needs one bit of them (anomaly) and a comparison (impact). How missing data,
  errors and exceptions pass through an expression is modelled (`Combine`,
  `EvaluateDerived`).
* Executors and notifier adapters: I/O. A value, no data, an error result or an
  exception; a POST that returns or raises. A calculation that a call asks twice for the
  same window answers the same.
* Configuration, registry, command line, presentation, value types: no state after
  start-up. That building the roles may fail is `Fail` in `SchemaMigration`.
* Parts of modelled components: the ids that the in-memory store gives to incidents and
  events of *two* streams (`stores/memory.py:75-81`); the score of a candidate, which
  is left open (`Rank`); `drilldown`, a report over groups that keeps no
  state, and `open_smart_incident`, a use of the investigation outside the run loop.
* Hazards without a property: that `run_forever` ends when its error backoff overflows
  (modelled as `LoopEnds`; nothing to check, since it does); starvation behind an event
  that always fails, with `limit=`, no backoff and no `max_attempts`
  (`notifications/delivery.py:77`), which needs an unbounded counter; the ids above; that
  a resolved metric with an interval below its cooldown may never reopen
  (`engine.py:794`; `CooldownHolds` forbids openings and demands none); and the
  acknowledgement that overwrites a resolution (section 6), which the properties of the
  lifecycle except.
* `examples/`: programs that use the library.

## 6. Where code and documentation disagree

With a run:

* `outbox_backoff_overflow`. `NotificationPolicy.backoff_for`
  (`notifications/delivery.py:38-44`) caps the delay after it multiplied, and the
  product of a `timedelta` raises `OverflowError` beyond `timedelta.max`: with
  `backoff_initial` 30 s at the 43rd failed attempt. The exception leaves
  `deliver_pending` from inside its error handler, the attempt is not recorded,
  and the rest of the batch is not sent. With `max_attempts` above that number
  the event is never dead-lettered, against `docs/architecture.md:335-337`. The
  default of the configuration, 10 attempts, stays below it; the library default
  `max_attempts=None` with a `backoff_initial` does not.
* `cycle_failed_window`. `run_once` defers the later windows of a metric only after
  the outcome `failed` (`runtime.py:306`). A window that another worker holds is
  `skipped` and defers nothing. The trace: two workers begin a cycle with windows 1 and
  2 due; the first claims window 1, the second meets the live claim and skips it; the
  evaluation of the first fails and its claim is released; the second claims window 2
  and commits it, and the cursor has passed window 1, which is never evaluated again.
  The same follows when the claim stays behind and expires before the second commits.
  `docs/architecture.md:264-266` promises that a failed window stays due until it
  falls outside `max_catchup_windows`. What does hold is `OnlySkippedArePassed`:
  a cycle that skips nothing passes over no due window.
* `memory_atomic`. `_apply` of the in-memory store (`stores/memory.py:95-108`) writes
  the observation and its history entry and only then compares the version of the
  state. An acknowledgement between the read and the commit makes it raise, and the
  observation stays: without a state, a record or events, and part of the history of
  every later window. `stores/base.py:16-18` says that these are "committed together
  or not at all".
* `lifecycle_stranded`. An `OPEN` metric with a detection below `min_impact` becomes
  `DETECTED`, and from there a healthy window leads to `NORMAL`: its incident stays
  open for ever, no event says that it is over. The docstring of `evolve_state`
  (`state.py:140`) says "enough healthy windows after OPEN/ACK -> RESOLVED". All
  other properties of the lifecycle hold with it.

Met while modelling, without a run:

* `docs/architecture.md:337` says that writes from a worker whose lease expired are
  rejected. The stores compare the token and not `claimed_until`
  (`postgres/store.py:603`), so the write of a late worker is accepted as long as
  nobody has claimed the event since. It is harmless: `OneLeaseHolder`, `RetryLimit`
  and `KeepsPromise` hold with it, and the send it records really took place.
* `_error_backoff` (`runtime.py:352-354`) caps the delay after the multiplication, as
  `backoff_for` does: with `min_wait` 1 s the 48th failed cycle in a row raises
  `OverflowError` inside the handler that is there to "keep the runner alive"
  (`runtime.py:377`), and `run_forever` ends (`LoopEnds`).
* A window whose attempts to commit run out is `skipped` (`runtime.py:326`), because
  `StreamCommitConflict` is an `EvaluationInProgressError` (`exceptions.py:67`), although
  nobody else holds it. It defers nothing: the next window may be committed in the same
  cycle, and the window is never evaluated again, even with one worker
  (`ConflictsRunOut`; `OnlySkippedArePassed` counts it as skipped).
* A version conflict of the in-memory store raises `StaleEvaluationError` and not
  `StreamCommitConflict`, so that the engine does not try again as it does over
  Postgres (`CommitConflict`).
* An acknowledgement that comes late writes its copy of the incident over a resolution
  (`engine.py:515`): the incident is active again, and after the next opening there are
  two. `IncidentsFollowState` and `EventsMatchIncidents` except this case
  (`overwritten`).
* From `SUPPRESSED` a metric opens without a cooldown; `CooldownHolds` excepts it.
* `process_many` shares one run of the batch source only with `at=`: with `start=` and
  `end=` every value has a new session (`BatchOnce` is about `at=`).
* An investigation raises when one ancestor has no data; the window of a metric that is
  about to open or stays open then fails until that data appears (`EvaluateAll`).
* A service that runs is not stopped when a newer release migrates its schema:
  `ReadyIsMigrated` says that what it needs is still there, not that nothing else is.
* `to_regclass` folds the case of a schema name that is not quoted, while the statements
  of the migrations quote it: a second `migrate` of a schema with a mixed-case name does
  not find its ledger and fails. Its transaction rolls back, so that the properties of
  `SchemaMigration` hold there too.
* A calculation error is an error result for a query that raises
  (`calculations/session.py:169`), and an exception that ends all of `process_many`, in
  the warming run before anything is processed, for a missing executor, an answer that is
  not a number or an expression that raises (`AnswerRaised`).

## 7. What is left

A composition of `RuntimeCycle`, a stream and the outbox in one module, whose state
space is out of reach of TLC unless each part becomes as small as its abstract
specification; a second stream of the in-memory store, for the ids; and an order
on the candidates of an investigation, which needs the severity as a number.
