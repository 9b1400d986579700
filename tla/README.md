# Formal models of the Chronicle platform

TLA+ modules about the parts of this repository whose correctness depends on
the order of events: concurrent tasks, cancellation, retries, failures in the
middle of a sequence. `PROJECT.json` is the machine-readable index (components,
runs, mutants, the map from every definition to its source lines, findings,
hazards, theorems). Paths below are relative to the repository root; `crates/`
stands for `backend/crates/`.

## Inventory of the system

| Component | State it keeps | Operations | What is hard | What makes it correct |
|---|---|---|---|---|
| Backtest run loop (`crates/chronicle_orchestrator`: `job.rs`, `trial.rs`, `error.rs`) | semaphore, two atomic counters, attempt counter of each trial, `SandboxGuard` | `run_job`, `Trial::run`, `should_retry`, `mark_trial_failed`, guard drop | one task per trial, panics, retries, abort at any await, summary writes that overtake each other | permits conserved, each trial counted once, the verdict follows the outcomes, nothing runs after `JobFinished`, sandboxes owned by one attempt |
| Backtest service and routes (`crates/api/.../saas/backtests`) | table of active jobs, run handle, broadcast channel | `start_run`, `cancel`, `subscribe`, `POST /jobs/:id/cancel`, `GET /jobs/:id/events` | cancel against finish, two cancels, subscriber between `JobFinished` and clean-up | one abort at most, streams end, entries are collected |
| Backtest repositories (`crates/infra`) | job and trial rows | `update_status`, `update_summary`, `mark_terminal`, `record_rewards` | last write wins, calls that fail before or after they were committed | terminal rows stay but in one named case, the summary never overstates |
| Sandbox drivers (`crates/chronicle_sandbox`) | provider id, session id | `start`, `stop`, `exec`, file transfer | a timeout or failure between create and recording the id | every sandbox created is stopped |
| Verifier, judges, plan builder (`crates/chronicle_orchestrator`) | none | pure or one call | - | rewards parse, failing judges are tolerated |
| Ingest batcher (`crates/chronicle_ingest`) | channel, buffer, byte count | `send`, flush loop, `shutdown` | flush by rows, bytes or tick, failed insert (`shutdown` takes the batcher by value, so nobody sends while it drains) | no accepted event is lost without a failed insert, order kept |
| Store subscriptions (`crates/chronicle_store`) | LISTEN connection, handles | subscribe, notify, rehydrate | reconnects, failed rehydration | each event at most once per subscriber |
| Store backends, query, link, embed | database | single calls | - | - |
| Replay (`crates/domain/src/replay`) | session cursor, status, speed | play, pause, seek | nothing concurrent: `crates/api/src/routes/replay.rs`, which shares a session between streams, is not declared in `routes/mod.rs` and is not compiled | events in order |
| Event stream manager (`crates/infra/src/memory/stream.rs`) | ring buffer, broadcast | publish, subscribe | the ring drops the oldest; `crates/api/src/routes/stream.rs`, which would read history and then subscribe, is not compiled either | each publication reaches the subscribers there are |
| Event SDK client (`packages/sdk/src/index.ts`) | queue, the promise of the flush under way, timer | `track`, `identify`, `span` and the like, `flush`, `shutdown`, requests with one retry | timer, full batch and explicit flush at any await; overflow; a request that fails half-way through a batch | order of each kind kept, events before what is about them, nothing stored more than twice, a resolved flush was delivered |
| Environment provisioning and destruction (`apps/env-manager`: `lib/lifecycle.ts`, `lib/{fly,vercel,github}-client.ts`, the ephemeral and `[id]` routes, the cleanup cron) | row of each environment, Fly apps and databases, one Vercel variable for each scope | `POST /ephemeral`, `provisionEphemeral`, `rollback`, `DELETE`, cleanup cron, `destroyEnvironment` | failure after any call, a failed call that did create or write something, DELETE while provisioning, two destroyers, restart | a failed or deleted row leaves nothing, a running one keeps what it has, no row is stuck but after a cut-off |
| Load tests (`apps/env-manager`: the load-test routes, `lib/k6-client.ts`) | test rows, runs at k6 Cloud | start, list with refresh, abort, cascade on destruction | nothing locks a row between read and write; answers of k6 older than the row; a launch whose recording fails; restart | one active test, no false `finished`, no run that nobody follows, ends are noticed |
| Frontend session cookie (`apps/frontend`: `proxy.ts`, `server/auth`, the refresh, switch-org and sign-out routes) | the sealed cookie, in-process map of refreshes | page load, refresh, switch organization, sign out | single-use refresh tokens, parallel refreshes, answers that overtake each other, outages, refusals of unused tokens | nobody is signed out by an outage, parallel refreshes share one exchange |
| Backend access tokens (`apps/frontend/server/backend`) | token cache, in-flight map | get or refresh a token | keyed by user alone | a token is of the tenant it is used for |
| Other parts of the environment manager (sync cron, permanent environments, templates, settings) | rows | single calls, status polls | - | - |
| Auth, tenants, webhooks, feature access | rows | request-scoped checks | - | - |
| World runtime and compiler, identifiers, interner | fixtures, tables | sequential transformation | encodings | round trips |
| Connectors, UI, typed clients, bindings, servers, docs | none shared | mapping, rendering, wiring | - | - |

How they interact: the create route writes the job and trial rows and calls
`BacktestService::start_run`, which spawns `run_job`; that spawns one task for
each trial. A trial task drives a sandbox driver, writes its trial row and the
job's summary through the repositories and sends events to the job's broadcast
channel, which SSE handlers read. The cancel route aborts the `run_job` task and
then writes `Cancelled` to the job row. The ingest, subscription and replay
parts share no state with backtests except the database.

An application that embeds the SDK feeds the ingest routes over HTTP; the SDK
sees only the status of each answer. The environment manager keeps its rows in a
database of its own and drives Fly, Vercel, GitHub and k6 Cloud. Its
environments are what its load tests run against: a test row belongs to an
environment row and is deleted with it. The frontend keeps its
session in a cookie and at WorkOS, and none in a database; its proxy and routes
run concurrently for one browser and meet only in the cookie, at WorkOS, and in
the map of the refresh route.

## Modules

| Module | What it is |
|---|---|
| `BacktestJob` | one job end to end: service, run loop, trial tasks, rows, sandboxes, cancel route, one SSE subscriber |
| `JobLifecycle` | the abstract specification: a job starts at most once, trials settle at most once, it finishes after all of them with the verdict they determine; an abandoned job never finishes |
| `MCBacktestJob` | instances of `BacktestJob` for TLC |
| `BacktestJobProofs` | theorems about `BacktestJob`, proved by TLAPS |
| `SdkClient` | the SDK client: queue, flushes, requests and retry, and what the server has received |
| `SdkPipe` | the abstract specification of the client: what becomes of each item, in which order |
| `MCSdkClient`, `SdkClientProofs` | the instance for TLC; the theorems |
| `EnvManager` | ephemeral environments: the request, the provisioner step by step, rollback, destroyers, the state of Fly and Vercel |
| `EnvLifecycle` | the abstract specification of one environment: what its provisioning, its resources and its row go through |
| `MCEnvManager`, `EnvManagerProofs` | the instances for TLC; the theorems |
| `LoadTests` | load tests of one environment: start, refresh, abort, cascade, the runs at k6 |
| `TestLifecycle` | the abstract specification of one test: what its row may say of its run, and when |
| `MCLoadTests`, `LoadTestsProofs` | the instance for TLC; the theorems |
| `SessionCookie` | the session of one browser: page loads, refresh, switch-org, sign-out, WorkOS |
| `SharedRefresh` | the abstract specification of the refresh route: who waits for which cookie, and what they are told |
| `MCSessionCookie`, `SessionCookieProofs` | the instance for TLC; the theorems |

The five parts share no state, so no module composes two of them; what they have
in common with the outside (providers, network, browser) is inside each module.

### How `BacktestJob` corresponds to the code

An action is the code between two await points of one task, with the repository
or provider call it was waiting for. The variables `runner` and `pc` say where
the `run_job` task and each trial task are parked.

* `starter`, `active`, `handle`: the three steps of `start_run` that other
  threads can see (insert the entry, spawn, store the handle) and the entry.
* `runner`: `begin` and `summary` are the two writes before the spawn loop,
  `awaiting` the join loop, `final` the write of the verdict, `written` the
  point before `JobFinished`, `cleanup` the tail of the task, `exit` its end,
  `aborted` a future the runtime dropped.
* `permits`, `completed`, `failed`: the semaphore and the atomics. A trial
  increments one counter, loads both in two steps (`LoadCompleted`,
  `LoadFailed`) and writes what it loaded (`SaveSummary`), as
  `job.rs:201-218` does.
* `pc`: `queued` waits for the permit; `build`, `starting`, `agent`,
  `verifying`, `rewarded`, `stopping` are the phases of `Trial::run`; `failing`,
  `backoff`, `count`, `loadC`, `loadF`, `save` the rest of the spawned task.
* `sandbox[t][a]`: the provider's view of the sandbox of attempt `a`.
  `created` exists at the provider while the driver has not recorded the id
  (`daytona/mod.rs:264-283`), `up` is recorded, `dropping` is in the hands of
  the detached task of `SandboxGuard::drop`, `orphan` will never be stopped.
* `row`, `job`, `rewarded`, `attempt`, `outcome`: what the repositories hold
  and what the loop remembers. `attempt` counts retries as the loop does; a
  failed `bump_attempt` is ignored by the code and changes nothing here.

A repository call that returns an error (`DbFaults`) may have been committed:
`WriteFails` leaves the row as it was or as the call wanted it, `SetupFails` may
leave the job `running`, and the ignored errors of `mark_trial_failed`,
`update_summary` and the final status may or may not have written. `mark_terminal`
(`backtests_repositories.rs:647-681`) is an update by id with no guard on the
status it finds, so a trial that was told its `succeeded` failed overwrites it with
`failed`; `TerminalRowStable` says that this is the only way a terminal row
changes. What a call wrote is settled by the time its caller goes on: a write that
reaches the database later than the caller's next one is not modelled.

An abort (`CancelTakes`) only sets a flag. A task that is being polled goes on
through every await that is ready, and a call already issued may take effect, so
`AbortLands` is one more alternative at each await point. The trial tasks
are spawned on their own and are not touched by it.

Abstracted: event payloads, timings, artifacts, exception texts, plan
compilation and tenant checks. Two writes of one phase that fail the trial in the
same way (timing markers next to a status) are one step; a failure of either is
`WriteFails`. `RunFails` is a phase itself that fails or times out, `RetryOrGiveUp`
what the loop does with either. `Panic` covers the agent, verifier and graders, and
`retry_backoff`, whose `clamp` and `from_secs_f64` (`job.rs:303-307`) panic on a bad
retry configuration. Error kinds that are treated exactly like `AgentFailed`
(`VerifierFailed`, `Cancelled`, `Internal`) are represented by it.

### How `SdkClient` corresponds to the code

`queue`, `flushing` and `flights` are `this.queue`, `this.flushing` and the
calls of `flushInternal` that are still running. `flights` is a set, so
that two at a time are possible as far as the model goes: that there is never
more than one is a consequence of `MayStart` (`index.ts:295-311`), and is
proved. An item is its number in the order of the
application's calls, so a set of numbers is an array in that order, which is how
the code uses it: it appends, shifts, and splices all.

`Track` is each of the calls that end in `enqueue`, with the overflow and the
flush that a full batch starts. `Request` is the order of `flushInternal`:
all events, one identify at a time, all signals, all traces, and the client's own
flush trace when nothing is left. `Post`, `Ok`, `ClientError`, `ServerError`,
`NetworkError` are the outcomes of `request`, with the one retry of a 5xx;
`GiveUp` is the exception that leaves `flushInternal`, with which the rest of the
batch is lost. `Settle` is the `finally` callback and the callers' promises.
`wire` holds copies that the server may still receive after the client saw the
request fail; `received` is the server.

### How `EnvManager` corresponds to the code

`step` is the awaited call that `provisionEphemeral` is at, `made`, `madeVar` are
its `created` record, `conn` whether it knows a connection string. Each call
succeeds, fails for a reason in what exists, or fails as one of at most
`MaxFaults` failures of the provider's own. So does each call to the database,
whatever the row: `PostFails` (`ephemeral/route.ts:56`), `ReadOrWriteThrows` (the
read and updates at `lifecycle.ts:45`, `167-171` and `397`, outside every `try`),
`TemplateFails` (`190`, `213`, inside one), `MarkErrorFails` (`121`, after which a
surrounding `catch` may call `failWith` once more) and `DestroyFails` (the update of
the route or the cron, `415` and `448`); a write that rejects may have been made. A
failed creation may have created
its resource, and a failed deletion left it; `doubtful` records which resources
such a failure was about, because no rollback can know. `fly` and `vercel` are the
providers' state. The scope of the Vercel variable is a constant: environments of
one branch share it, which is why `UpdateVar` takes over a variable that another
environment created.

`Fail` is `failWith`: `RollBackVar`, `RollBackApp`, `RollBackDb`, `MarkError` in
the order of `rollback` and the update. `nested` is a `failWith` thrown inside a
`try` whose `catch` calls it again (`TemplateHasNoSource`). `threw` and
`rethrown` are ends that no caller waits for; `rethrown` is the error of
`attachPostgres` that is passed on without `failWith`. `cut` is a provisioner, or a
destroyer, that a restart or a database error nobody catches has ended.

A member of `Requests` is one destruction, by `DELETE` (any status) or by the cron
(`RUNNING` only): `MarkDestroying`, `LoadRow`, one step for each resource, `DeleteRow`.
Each works from the row it loaded. `Restart` ends every provisioner and destroyer where
it is, and may happen any number of times. `raced` marks environments whose destruction
read the row while the provisioner was at work.

`EnvLifecycle` sees one environment. `WorkOf` sums the provisioner's step up (open,
failing, done, failed, cut off), `held` is what certainly exists of it at Fly,
without what a failed call leaves in doubt, and `Asked` says that some destruction
has picked it. `Lifecycle(e)` is the instance for environment `e`; one step of the
manager may move several instances, and `ImplementsLifecycle` says that it is a
step, or no step, of each.

### How `LoadTests` corresponds to the code

`post[t]` is where the POST that creates test `t` is: the check, the row, the launch at
k6, the update. `abort[a]` and `refresh[g]` are one abort request and one row's refresh
in a GET: they hold what they read until they write it. `Update` is an unconditional
update by id, which rejects when the row is gone. Writes about a test in `Faulty` may
also reject for reasons of the database, made or not: `PostRecordFails` is the launch
whose recording rejects, which the `catch` clause (`load-tests/route.ts:168-177`) takes
for a failed launch, so that a run goes on that no row follows. `Restart` ends every
request where it is. `run` is k6, with `queued` in `created` and `processing_metrics` in
`running`, as `K6_STATUS_TO_LOCAL` maps them to the same; `RunMoves` is its own
progress. `excused` marks runs that may be left behind: by a failed call to k6, by a
recording of the id that failed or was cut off by a restart, by an `error` written over
a known id, or by an abort that came before the id was stored; `slipped` marks the two
ways in which two rows can be active at a time.

`TestLifecycle` sees one test and none of the requests. Its `MaySay` lists, for
each status of a run, what may be said of it: where it is or where it was, since a
refresh may be late. `Lifecycle(t)` is the instance for test `t`, with the row, the
run and the id as they are, `Asked` for an abort request about it and `Launch` for how
the POST stands.

### How `SessionCookie` corresponds to the code

A sealed cookie is a generation: 1 at sign-in, one more after each exchange. WorkOS
(`last`, `revoked`) takes each refresh token once. A request carries the cookie the
browser had when it was sent; `PageOrSwitchArrives`, `Authenticates`,
`AuthenticateFails` are the proxy and `getSession`, `RefreshArrives` is the in-flight
map of the refresh route, `ExchangeSucceeds`, `ExchangeRefused`, `ExchangeFails` the
exchange and what each kind of request does to the cookie then. A refusal need not mean
that the token was used: `AUTH_FAILURE_REASONS` (`refresh/route.ts:59-65`) and the proxy
also drop the cookie for `mfa_enrollment`, `sso_required` and `invalid_session_cookie`
(the excuse `denied`). An answer of WorkOS that is no network error and no refusal is
`odd`. `Deliver` applies a response to the browser's `jar`, in any order; a sign-out
whose logout URL could not be computed (`sign-out/route.ts:30-45`) ends without
`LogOut`. `excuses` collects the events after which a session may be lost.

`SharedRefresh` knows no map, no promise and no step: who waits (the request that
runs the exchange and those that joined it, `WaitsFor`) and what each was told
(`AnswerTo`). Requests of other kinds appear in it as `Elsewhere`.

## Runs

| Run | Instance | What it shows |
|---|---|---|
| `job` | 3 trials, 2 permits, no retry, no cancel, no failing writes; trials symmetric; 315,461 states | `PermitsConserved`, `CountersExact`, `SummaryNeverOverstates`, `NothingRunsAfterFinish`, `VerdictMatchesTrials`, refinement of `JobLifecycle` |
| `retry` | 1 trial, `n_concurrent` = 0 (so one permit), 2 retries, 1 cancel request, repository calls may return errors, committed or not; 355,545 states | `TypeOK` (with the retry budget), `SandboxOwned`, `TerminalRowStable`, `NoRerunAfterRewards` |
| `cancel` | 2 trials, 1 permit, 2 cancel requests, one subscriber, fairness; 239,648 states | `AtMostOneAbort`, refinement under aborts, `RunCompletes`, `StreamEnds`, `DetachedTrialsSettle` |
| `abort_stops_trials` | 2 trials, 1 permit, 1 cancel request | violated: see the findings |
| `aborted_run_collected` | the same, with fairness | violated |
| `partial_failure_visible` | 2 trials, 2 permits | violated |
| `dropped_sandbox_stopped` | 2 trials, 1 permit | violated |
| `sdk` | 4 items, batch of 2, queue of 2, timer, two applications, at most one more late copy; 838,288 states | `AtMostTwice`, `ResolvedFlushDelivered`, `KindsStayInOrder`, `EventGoesFirst`, refinement of `SdkPipe`, `QueueDrains` |
| `environments` | 2 environments of one branch and 2 destructions (both symmetric), one failing call to a provider or the database, leftovers of earlier environments or none, restarts; 2,386,033 states | `ErrorLeavesNothing`, `RunningIsServed`, `DestroyLeavesNothing`, `SomebodyIsAtWork`, refinement of `EnvLifecycle` by each environment |
| `failure_tears_down` | 1 environment, 1 destruction, no failing call | violated: see the findings |
| `load_tests` | 2 tests (writes about one of them may fail), 1 abort, 1 refresh at a time, destruction, restarts, fairness; 177,857 states | `OneActiveTest`, `GoingRunsAreFollowed`, refinement of `TestLifecycle` by each test, `EndIsNoticed` |
| `session_cookie` | 3 requests of any kind, failing calls, refusals, fairness; 401,620 states | `CookieIsKept`, `CookieIsLive`, `OneExchangePerCookie`, refinement of `SharedRefresh`, `EveryRequestEnds` |

The type invariants of the other modules and `FinishedMeansCompleted`, which follows from
the refinement of `TestLifecycle`, are proved and not run again.

Bounds. Three trials on two permits are the smallest instance in which a trial
waits while two others run, and in which a summary write can be overtaken by a
write of another trial on either side of a third. Two retries give a first, a
middle and a last attempt, and an old sandbox that is still being stopped while
two later ones exist. Two cancel requests are needed for a race, and with one
permit for two trials there is always one that waits when the abort arrives.
Retries, failing writes and cancellation act on a trial's own state, which is why
the `retry` run gets by with one trial; together with two trials
they make several million states, more than a routine run should take.

Four SDK items with a batch and a queue of two make a batch under way, a batch that
waits and an overflow at the same time, and two batches that could overtake each other;
the two applications cover the four kinds and an event with two signals. A late copy
next to the one in flight is what a retry can duplicate. Two environments of one branch
are needed for the shared variable, two destructions for a race of destroyers, and one
failing call leaves one resource in doubt while the rest must be clean. Leftovers are of
both environments or of none, which keeps the two symmetric; that one adopts an app
while the other creates its own is not in the run, but the proofs cover it. Two POSTs
can both pass the check; an abort and a refresh are the writers that can come late, and
a refresh may start again as often as it likes. Only one of the two tests has writes
that fail, so that a faulty test and a sound one are seen together; the proofs are for
every `Faulty`. Three requests of one browser are the smallest number in which one
request is answered while a second joins a third. The proofs below do not depend on any
bound.

`sdk` checks for deadlock: the application can always flush once more. All other runs set
`CHECK_DEADLOCK FALSE`: when the job, its trials and the requests
are over, the system has stopped, as it should.

Fairness. `FairSpec` assumes weak fairness of the starting call, of the run task,
of each trial task, of each detached stop, of an accepted cancel request's row
write, and of the SSE handler. Each stands for "every await of a spawned task
ends and the runtime polls it again": the phases of a trial are wrapped in
`tokio::time::timeout` (`trial.rs:304-321`), the provider's HTTP client and the
docker commands have timeouts of their own, a back-off is a clamped sleep
(`job.rs:303-307`), and attempts are bounded. Weak fairness is enough for the
semaphore since every trial acquires it once. Nobody is obliged to cancel or to
subscribe.

`SdkClient`: the event loop runs what is ready, `setInterval` keeps firing until
`shutdown`, and every fetch settles. The client sets no timeout, so the last
is an assumption about the network. `LoadTests`: the handlers go
on, and somebody keeps asking for the list while k6 and the database answer again and
again, which is strong fairness of reading a row, of its query and of the update (a
refresh only starts when it finds the row active, and either call may fail, or a restart
end it, any number of times in between). `EndIsNoticed` says that from some time on
every recorded test whose run has ended has a row that says so.
`SessionCookie`: a request that was sent is served to its end. `EnvManager` states
no fairness, and its properties are all safety.

## Findings

1. `AbortStopsTrials` - the comments at `job.rs:97-100` and
   `service.rs:36-37` say an abort cancels the trials in flight; the trials are
   spawned tasks, and dropping their handles detaches them. Queued trials still
   start, on a job that is recorded as cancelled.
2. `AbortedRunCollected` - `service.rs:14-15` describes a watchdog that collects
   the active entry; the only removal is the tail of the spawned task, which an
   abort skips. The entry and its `Sender` stay, so SSE clients of an aborted
   job wait for ever.
3. `PartialFailureVisible` - `job.rs:233-235` relies on the failed-trials count
   of the row; summary writes may land out of order and nothing writes the
   counts at the end, so a succeeded job may show no failed trial.
4. `DroppedSandboxStopped` - `trial.rs:401-404` promises that a dropped trial
   never leaks a sandbox; the Daytona driver records the id after a second
   request, and stopping without an id does nothing.
5. `FailureTearsDown` - `lifecycle.ts:58-59` says that on failure every
   registered resource is torn down; the updates at `lifecycle.ts:171` and `396`
   are outside every `try`. When `DELETE` removes the row during provisioning, the
   last update rejects, nobody calls `failWith`, and the app and
   database created after the destroyer had passed stay.

## Proofs

### Backtest jobs

`BacktestJobProofs` proves, for every finite set of trials, every
`n_concurrent` and `max_retries` in `Nat`, every retry list and every set of
cancel requests (`JobAssumption` is the only assumption):

| Theorem | Statement |
|---|---|
| `TypeCorrect` | `Spec => []TypeOK` |
| `FinishIsLast` | `Spec => []NothingRunsAfterFinish` |
| `PermitsNeverLeak` | `Spec => []PermitsConserved` |
| `CountersAreExact` | `Spec => []CountersExact` |
| `SummaryIsALowerBound` | `Spec => []SummaryNeverOverstates` |
| `VerdictIsTheTrials` | `Spec => []VerdictMatchesTrials` |
| `JobImplementsLifecycle` | `Spec => ImplementsLifecycle` |
| `TerminalRowsStay` | `Spec => TerminalRowStable` |
| `RewardedTrialsAreNotRerun` | `Spec => NoRerunAfterRewards` |
| `OneAbort` | `Spec => []AtMostOneAbort` |
| `SandboxesAreOwned` | `Spec => []SandboxOwned` |

The argument. `TypeOK` is inductive; it is proved in two parts (`FlagsOK`,
`DataOK`), since Boolean-valued variables and arithmetic suit different
provers. `Stages` is the strengthening that most of the rest needs: before the
spawn loop every trial is `unspawned`, between the join loop and `JobFinished`
all have settled, and `JobFinished` is only sent on the way to the clean-up.
Without it `SpawnTrials` could reset trials that hold a permit.
`PermitsConserved` and `CountersExact` follow because a trial's step adds or
removes one member of a finite set and changes the number by one (`TrialPermit`,
`TrialCounts`); the counters also need `OutcomesKnown`, which says from
when on a trial has an outcome. `SummaryInv` bounds what each trial loaded by the
counters, which only grow. `VerdictOfOutcomes` turns the counters into the
trials' outcomes once all have settled. The refinement maps each step of the
job to a step of `JobLifecycle` or to a stutter: `SpawnTrials` is `Start`,
`SaveSummary` and `Panic` are `Settle`, `AnnounceFinished` is `Finish`,
`SetupFails` and `AbortLands` are `Abandon`. `RowInv` ties terminal rows and
persisted rewards to how far the task has come, and says where a task may be whose
`succeeded` was committed by a call that failed. `CancelInv` says that the handle
is stored once and that until it is taken no request was told it aborted.

### The SDK client

`SdkClientProofs`, for every number of items, batch and queue size, set of
scripts and bound on late copies (`SdkAssumption`, `ScriptAssumption`):

| Theorem | Statement |
|---|---|
| `TypeCorrect` | `Spec => []TypeOK` |
| `KindsKeepOrder` | `Spec => KindsStayInOrder` |
| `EventsGoFirst` | `Spec => EventGoesFirst` |
| `ResolvedMeansDelivered` | `Spec => []ResolvedFlushDelivered` |
| `StoredAtMostTwice` | `Spec => []AtMostTwice` |
| `ClientIsAPipe` | `Spec => ImplementsPipe` |

Everything rests on `SingleFlight`: at most one call of `flushInternal` runs, and
only while `this.flushing` is set. `OrderInv` then says that a batch is older than
whatever is queued, and that every tracked item is queued, finished or still to
be sent; the order properties follow for the step that posts a request
(`OnlyPost`, `RequestOrder`). `DeliveryInv` relates what a flight has sent to what
the server has received and to the promise. `CountInv` bounds, for each item, the
times it was received plus the copies on the wire, by how far its flight's
current request has come. `PlaceInv` says that no item is in two places, which
makes `StageOf` a refinement mapping: a step of the client moves items
to other stages as `SdkPipe` allows, or moves none.

### Environments

`EnvManagerProofs`, for every set of environments, assignment of scopes, set
of destructions, leftovers and number of failing calls (`EnvAssumption`):
`TypeCorrect`, `ErrorIsClean` (`[]ErrorLeavesNothing`), `DestroyedIsClean`
(`[]DestroyLeavesNothing`), `RunningHasItsOwn` (`[]RunningIsServed`),
`NobodyWaitsAlone` (`[]SomebodyIsAtWork`, whose exceptions are a restart, a database
error that nothing catches, and the error that skips `failWith`), `EnvironmentsHaveLifecycles`
(`ImplementsLifecycle`) and `EachIsALifecycle`
(`\A e \in Envs : Spec => Lifecycle(e)!Spec`).

The inductive invariant `Inv` is `TypeOK`, `IdInv` (the id of a variable belongs to one
scope, and is known only to environments of that scope) and, for each environment,
`RowInv` (row against step), `FlyInv` and `VarInv` (what exists is registered, in doubt,
or already rolled back, step by step), `GoneInv`, `ServedInv` (an environment that
nobody destroys has what its step says it created), and for each destruction
`DestroyInv` (what it has passed is clean, unless it raced). Without the step-wise form
the invariant is not inductive: that a row in `ERROR` is clean depends on each rollback
step before it. A step acts on one environment; `Quiet(e)` says that a step adds nothing
of `e` and leaves its provisioner, and `QuietKeeps` that such a step keeps all that
holds of `e`, so every action is proved once for its own environment and once as quiet
for the others.

The refinement needs two invariants more. `MadeInv(e)` says that what the provisioner
has not come to yet is not registered, so that a creation starts with nothing there and
nothing in doubt; `MarkedInv(e)` that a destruction at work has marked the row, and no
status leads back to `PROVISIONING`. With them, a provisioner's step is `Acquire`,
`Succeed`, `Break`, `Release` or `WriteError` of its own environment, a destroyer's is
`Ask`, `BeginDestroy`, `Race`, `Release` or `Delete`, a database error nobody catches is
`CutOff` of one environment and a restart of every environment at work, and all are
stuttering steps of the others. The abstract `WriteError` and `Delete` ask for an empty
`held`, so the refinement carries over what the invariants say about clean rows; new in
it are what a step may do: nothing is acquired after a failure, nothing is given up
while all is well, and no late write brings a row back.

### Load tests

`LoadTestsProofs`, for every set of tests, of faulty ones, of aborts and of refreshes (no
assumption):
`TypeCorrect`, `OneActive` (`[]OneActiveTest`), `FinishedIsTrue`
(`[]FinishedMeansCompleted`), `RunsAreFollowed` (`[]GoingRunsAreFollowed`),
`TestsHaveLifecycles` (`ImplementsLifecycle`) and `EachIsALifecycle`
(`\A t \in Tests : Spec => Lifecycle(t)!Spec`). `Proc`
is `TypeOK` with what is known at each step of a POST (`TestInv`), of an abort
(`AbortInv`: it marks only what has ended or is excused) and of a refresh
(`RefreshInv`: however old its answer is, an end it reports has happened).
`CheckInv` adds that, until something slipped, a POST between its check and its
row is alone and no test is active.

For the refinement, `LaunchInv` says that until the POST has recorded its launch the row
is as it created it, or aborted, or gone, which is why a launch is recorded once and
over nothing but an abort, and an `error` follows only a launch that counts as failed;
and `SaidInv` that the answer a refresh holds may still be said of the run. It is
inductive because a run only moves to statuses of which all that was true before may
still be said (`RunsGoOn`).

### Session cookie

`SessionCookieProofs`, for every finite set of requests (`SessionAssumption`):
`TypeCorrect`, `OneExchange` (`[]OneExchangePerCookie`), `KeptUnlessExcused`
(`[]CookieIsKept`), `LiveUnlessExcused` (`[]CookieIsLive`), `RefreshIsShared`
(`Spec => ImplementsShared`). `Inv` is
`TypeOK`, `GenInv` (no generation is ahead of the last exchange, and there are no
more exchanges than answered requests, which bounds the generations), `MapInv`
(an entry of the map is a request that runs the refresh of that cookie),
`KeepInv` (whoever clears the cookie has an excuse or signs out) and
`CookieIsLive`.

For the refinement, `SharingIsWaiting` turns the map into what `SharedRefresh` sees:
by `MapInv` one request at most runs the refresh of a cookie, so those that share its
result are exactly those that wait for that cookie, and a settled exchange is `TellAll`
with `Renew`, `Refuse` or `Fail` for the token (`SettleTells`); `Refuse` has no guard, as
WorkOS may deny any token. Whatever the
other routes do leaves every waiting request and every answer alone
(`OtherRoutes`, `SettleElsewhere`); `LogoutInv`, that only a sign-out
follows the logout redirect, is needed to know it of that step.

### Only model-checked

The liveness properties (`RunCompletes`, `StreamEnds`, `DetachedTrialsSettle`,
`QueueDrains`, `EndIsNoticed`, `EveryRequestEnds`), which need fairness and
`ENABLED` and are out of the prover's reach. Every safety property and all five
refinements of the passing runs are proved.

## Not modelled

A restart of the backtest service (the active table is in memory and the code has no
recovery to model), the overrun of the 256-slot broadcast ring (a subscriber that
lags goes on from what is left, and `JobFinished` is the last to be sent), plan compilation,
the read-only routes, and the components marked `not_modelled` in
`PROJECT.json`, each with its reason. A cancel request that arrives before the
handle is stored, and a `Cancelled` that races the final status, are in the
model; no property covers them yet because the code does not say what should
happen, or says so in a comment that deserves a run of its own. A database
write that takes effect after its caller has gone on to the next one is left out
everywhere.

Of the environment manager: the fallback of `upsertEnvVar` to a preview-wide
variable (the constant `Scope` says which scope an environment uses), a template
that is deleted while it is used, the seed SQL and the frontend deployment (they
cannot fail the provisioning), public IPs, secrets and log lines, the sync cron,
permanent environments and template administration. `rollback` deletes
the Vercel variable only if `created.vercelEnvVarId` is set, and the last
step that can fail is the one that sets it, so the deletion inside `RollBackVar`
never happens; the model keeps it because the code has it. The k6 script and
the timestamps of a test row are left out.

Of the frontend: sign-in, sign-up, invitations and password reset (they set a
first cookie and start a session of their own), the organization inside a session,
and the backend access tokens. Their cache is keyed by user alone, which is in
the list of hazards.

Most of the repository's TypeScript (about 160,000 lines) is user interface,
fixture data and typed clients: rendering and mapping without a protocol, whose
state is one view's. The map therefore covers a small share of it; the
Rust services hold most of the concurrent logic.

## Plan

1. Done: `BacktestJob`, `JobLifecycle`, their runs and proofs.
2. Done: `SdkClient` and `SdkPipe`, `EnvManager`, `LoadTests`, `SessionCookie`,
   their runs, and proofs of all their safety properties; `EnvLifecycle`,
   `TestLifecycle`, `SharedRefresh`, and proofs that they are implemented.
3. `SandboxLifecycle`: the drivers' `start`, `stop` and `exec` for the Daytona and
   docker variants, composed with the guard; which failures leave a sandbox.
4. `Batcher` (`crates/chronicle_ingest/src/batcher.rs`) and an abstract queue
   it implements: accepted events end in the store or in a failed batch, in order.
5. `Subscriptions`: notifications, reconnects, rehydration failures.
6. `BackendTokens`: the token cache and the in-flight map, with the organization
   in the session, composed with `SessionCookie`.
7. `EnvSync`: the sync cron against provisioning and destruction.
