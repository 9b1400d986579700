----------------------------- MODULE BacktestJob -----------------------------
(***************************************************************************)
(* One backtest job, end to end: BacktestService (api crate), run_job and  *)
(* the per-trial tasks it spawns (chronicle_orchestrator), the job and     *)
(* trial rows, the provider's sandboxes, the cancel route and one SSE      *)
(* subscriber.  Each action is the code between two await points of one    *)
(* task, with the repository or provider call it was awaiting.             *)
(*                                                                         *)
(* A repository call may return an error (DbFaults turns this on), and the *)
(* error does not tell whether the write was committed: the row is as it   *)
(* was or as the call wanted it, settled by the time the caller goes on.   *)
(* Timings, artifacts, verdict text and the event payloads are abstracted  *)
(* away.                                                                   *)
(***************************************************************************)
EXTENDS Naturals, FiniteSets

CONSTANTS
  Trials,        \* the trials of the plan
  NConcurrent,   \* JobPlan.n_concurrent
  MaxRetries,    \* RetryConfig.max_retries
  ExcludeKinds,  \* RetryConfig.exclude_exceptions
  IncludeKinds,  \* RetryConfig.include_exceptions (all of Kinds for None)
  Requests,      \* the calls of POST /jobs/:id/cancel that may arrive
  DbFaults       \* whether repository calls may fail

ASSUME JobAssumption ==
  /\ IsFiniteSet(Trials)
  /\ NConcurrent \in Nat
  /\ MaxRetries \in Nat
  /\ DbFaults \in BOOLEAN

VARIABLES
  starter,    \* progress of start_run: "created", "registered", "spawned", "done"
  active,     \* the job is in BacktestService.active
  handle,     \* its run_handle is Some
  runner,     \* where the run_job task is parked
  aborting,   \* JoinHandle::abort() was called on it
  permits,    \* free permits of the semaphore
  completed,  \* AtomicU32 completed
  failed,     \* AtomicU32 failed
  pc,         \* where each trial task is parked
  attempt,    \* its attempt counter
  outcome,    \* its outcome: "none", "ok", "err"
  snap,       \* the counts it loaded for update_summary
  sandbox,    \* the provider's sandbox of each attempt
  rewarded,   \* rewards of the trial were persisted
  row,        \* BacktestTrial.status
  job,        \* BacktestJob: status, completed, failed
  cancel,     \* progress of each cancel request
  announced,  \* the status carried by JobFinished, "none" before it is sent
  stream      \* the SSE subscriber: "none", "open", "notified", "done"

serviceVars == <<starter, active, handle>>
runVars     == <<runner, aborting, announced>>
countVars   == <<permits, completed, failed>>
trialVars   == <<pc, attempt, outcome, snap, rewarded, row>>
vars == <<serviceVars, runVars, countVars, trialVars, sandbox, job, cancel, stream>>

\* What only the other processes change.
notRunner == <<starter, handle, aborting, countVars, attempt, outcome, snap, rewarded, row,
               sandbox, cancel>>
notTrial  == <<serviceVars, runVars, cancel, stream>>
notCancel == <<starter, active, runner, announced, countVars, trialVars, sandbox, stream>>

------------------------------------------------------------------------------
Attempts == 0..MaxRetries

\* Semaphore::new(n_concurrent.max(1))
Permits == IF NConcurrent = 0 THEN 1 ELSE NConcurrent

\* OrchestratorErrorKind, without the kinds treated exactly like AgentFailed.
Kinds == {"Transient", "SandboxStartFailed", "AgentFailed", "Persistence",
          "Configuration"}

\* Mutant of IsTransient: a persistence error counts as transient.
IsTransientAndPersistence(kind) ==
  kind \in {"Transient", "SandboxStartFailed", "Persistence"}

IsTransient(kind) == kind \in {"Transient", "SandboxStartFailed"}

\* Mutant of ShouldRetry: the retry budget off by one.
ShouldRetryOnceTooOften(kind, n) ==
  /\ n <= MaxRetries
  /\ kind \notin ExcludeKinds
  /\ kind \in IncludeKinds
  /\ IsTransient(kind)

ShouldRetry(kind, n) ==
  /\ n < MaxRetries
  /\ kind \notin ExcludeKinds
  /\ kind \in IncludeKinds
  /\ IsTransient(kind)

\* The errors a phase of Trial::run can end with.  A Transient error of start
\* becomes SandboxStartFailed; a phase that times out is AgentFailed.
ErrorsIn(stage) ==
  CASE stage = "starting" -> {"SandboxStartFailed", "AgentFailed", "Configuration"}
    [] stage \in {"agent", "verifying"} -> {"Transient", "AgentFailed", "Configuration"}
    [] OTHER -> {}

Places == {"unspawned", "queued", "build", "starting", "agent", "verifying", "rewarded",
           "stopping", "failing", "backoff", "count", "loadC", "loadF", "save", "done",
           "panicked"}
SandboxStates == {"none", "created", "up", "dropping", "gone", "orphan"}

Finished == {"done", "panicked"}
InRun    == {"starting", "agent", "verifying", "rewarded"}
Settled(t) == pc[t] \in Finished

------------------------------------------------------------------------------
Init ==
  /\ starter = "created" /\ active = FALSE /\ handle = FALSE
  /\ runner = "absent" /\ aborting = FALSE /\ announced = "none"
  /\ permits = Permits /\ completed = 0 /\ failed = 0
  /\ pc = [t \in Trials |-> "unspawned"]
  /\ attempt = [t \in Trials |-> 0]
  /\ outcome = [t \in Trials |-> "none"]
  /\ snap = [t \in Trials |-> [completed |-> 0, failed |-> 0]]
  /\ sandbox = [t \in Trials |-> [a \in Attempts |-> "none"]]
  /\ rewarded = [t \in Trials |-> FALSE]
  /\ row = [t \in Trials |-> "pending"]
  /\ job = [status |-> "pending", completed |-> 0, failed |-> 0]
  /\ cancel = [c \in Requests |-> "idle"]
  /\ stream = "none"

------------------------------------------------------------------------------
(* BacktestService::start_run, one action per step another thread can see.  *)

Register ==
  /\ starter = "created"
  /\ starter' = "registered" /\ active' = TRUE
  /\ UNCHANGED <<handle, runVars, countVars, trialVars, sandbox, job, cancel, stream>>

SpawnRun ==
  /\ starter = "registered"
  /\ starter' = "spawned" /\ runner' = "begin"
  /\ UNCHANGED <<active, handle, aborting, announced, countVars, trialVars, sandbox,
                 job, cancel, stream>>

StoreHandle ==
  /\ starter = "spawned"
  /\ starter' = "done" /\ handle' = TRUE
  /\ UNCHANGED <<active, runVars, countVars, trialVars, sandbox, job, cancel, stream>>

------------------------------------------------------------------------------
(* The run_job task.  An abort takes effect when the task next yields: a poll *)
(* in progress goes on, through every await that is ready, and a repository  *)
(* call already issued may still take effect, so AbortLands races the rest.  *)

MarkRunning ==
  /\ runner = "begin"
  /\ runner' = "summary"
  /\ job' = [job EXCEPT !.status = "running"]
  /\ UNCHANGED <<notRunner, active, announced, pc, stream>>

\* update_summary(total, 0, 0), JobStarted, then one tokio::spawn per trial.
SpawnTrials ==
  /\ runner = "summary"
  /\ runner' = "awaiting"
  /\ job' = [job EXCEPT !.completed = 0, !.failed = 0]
  /\ pc' = [t \in Trials |-> "queued"]
  /\ UNCHANGED <<notRunner, active, announced, stream>>

\* Either of the two writes above returns an error: run_job returns Err before
\* spawning.
SetupFails ==
  /\ DbFaults
  /\ runner \in {"begin", "summary"}
  /\ runner' = "cleanup"
  /\ \/ UNCHANGED job
     \/ runner = "begin" /\ job' = [job EXCEPT !.status = "running"]
  /\ UNCHANGED <<notRunner, active, announced, pc, stream>>

\* Mutant of JoinAll: go on after the first handle.
JoinFirst ==
  /\ runner = "awaiting"
  /\ Trials = {} \/ \E t \in Trials : Settled(t)
  /\ runner' = "final"
  /\ UNCHANGED <<notRunner, active, announced, pc, job, stream>>

\* Every JoinHandle was awaited; a JoinError (panic) is ignored.
JoinAll ==
  /\ runner = "awaiting"
  /\ \A t \in Trials : Settled(t)
  /\ runner' = "final"
  /\ UNCHANGED <<notRunner, active, announced, pc, job, stream>>

\* Mutant of Verdict: any failure fails the job.
VerdictIgnoringCompleted == IF failed = 0 THEN "succeeded" ELSE "failed"

Verdict == IF failed = 0 \/ completed > 0 THEN "succeeded" ELSE "failed"

WriteFinalStatus ==
  /\ runner = "final"
  /\ runner' = "written"
  /\ \/ job' = [job EXCEPT !.status = Verdict]
     \/ DbFaults /\ UNCHANGED job
  /\ UNCHANGED <<notRunner, active, announced, pc, stream>>

\* JobFinished is broadcast to whoever is subscribed at that moment.
AnnounceFinished ==
  /\ runner = "written"
  /\ runner' = "cleanup"
  /\ announced' = Verdict
  /\ stream' = IF stream = "open" THEN "notified" ELSE stream
  /\ UNCHANGED <<notRunner, active, pc, job>>

\* Mutant of RemoveEntry: the entry is never removed.
KeepEntry ==
  /\ runner = "cleanup"
  /\ runner' = "exit"
  /\ UNCHANGED <<notRunner, active, announced, pc, job, stream>>

\* The tail of the spawned task: drop the sender, remove the active entry.
RemoveEntry ==
  /\ runner = "cleanup"
  /\ runner' = "exit" /\ active' = FALSE
  /\ UNCHANGED <<notRunner, announced, pc, job, stream>>

\* The runtime drops the aborted future.  The handles of the trial tasks are
\* dropped with it, which detaches those tasks; RemoveEntry never runs.
AbortLands ==
  /\ aborting
  /\ runner \in {"begin", "summary", "awaiting", "final", "written"}
  /\ runner' = "aborted"
  /\ UNCHANGED <<notRunner, active, announced, pc, job, stream>>

------------------------------------------------------------------------------
(* The trial tasks.  A permit is held from Acquire to the end of the task.   *)

Move(t, from, to) == pc[t] = from /\ pc' = [pc EXCEPT ![t] = to]

Acquire(t) ==
  /\ Move(t, "queued", "build")
  /\ permits > 0 /\ permits' = permits - 1
  /\ UNCHANGED <<notTrial, completed, failed, attempt, outcome, snap, rewarded, row, sandbox, job>>

\* factory.build, then Trial::run up to the call of Sandbox::start.
BeginEnvSetup(t) ==
  /\ Move(t, "build", "starting")
  /\ row' = [row EXCEPT ![t] = "setup"]
  /\ UNCHANGED <<notTrial, countVars, attempt, outcome, snap, rewarded, sandbox, job>>

\* The factory refuses the driver: a configuration error, never retried.
BuildFails(t) ==
  /\ Move(t, "build", "failing")
  /\ UNCHANGED <<notTrial, countVars, attempt, outcome, snap, rewarded, row, sandbox, job>>

\* The provider creates the sandbox; start() has not recorded its id yet.
ProviderCreates(t) ==
  /\ pc[t] = "starting" /\ sandbox[t][attempt[t]] = "none"
  /\ sandbox' = [sandbox EXCEPT ![t][attempt[t]] = "created"]
  /\ UNCHANGED <<notTrial, countVars, trialVars, job>>

\* start() opens the process session, records the id and returns.
StartReturns(t) ==
  /\ pc[t] = "starting" /\ sandbox[t][attempt[t]] = "created"
  /\ sandbox' = [sandbox EXCEPT ![t][attempt[t]] = "up"]
  /\ UNCHANGED <<notTrial, countVars, trialVars, job>>

BeginAgentRun(t) ==
  /\ pc[t] = "starting" /\ sandbox[t][attempt[t]] = "up"
  /\ pc' = [pc EXCEPT ![t] = "agent"]
  /\ row' = [row EXCEPT ![t] = "running"]
  /\ UNCHANGED <<notTrial, countVars, attempt, outcome, snap, rewarded, sandbox, job>>

BeginVerifier(t) ==
  /\ Move(t, "agent", "verifying")
  /\ row' = [row EXCEPT ![t] = "verifying"]
  /\ UNCHANGED <<notTrial, countVars, attempt, outcome, snap, rewarded, sandbox, job>>

\* record_rewards; what the rubric graders and the artifact insert then do
\* cannot fail the trial.
RecordRewards(t) ==
  /\ Move(t, "verifying", "rewarded")
  /\ rewarded' = [rewarded EXCEPT ![t] = TRUE]
  /\ UNCHANGED <<notTrial, countVars, attempt, outcome, snap, row, sandbox, job>>

MarkSucceeded(t) ==
  /\ Move(t, "rewarded", "stopping")
  /\ row' = [row EXCEPT ![t] = "succeeded"]
  /\ UNCHANGED <<notTrial, countVars, attempt, outcome, snap, rewarded, sandbox, job>>

\* guard.stop_now(true): the recorded id is taken first, so a DELETE that
\* fails leaves a sandbox nobody will stop again.
StopNow(t) ==
  /\ Move(t, "stopping", "count")
  /\ outcome' = [outcome EXCEPT ![t] = "ok"]
  /\ \E s \in {"gone", "orphan"} : sandbox' = [sandbox EXCEPT ![t][attempt[t]] = s]
  /\ UNCHANGED <<notTrial, countVars, attempt, snap, rewarded, row, job>>

\* Mutant of Dropped: drop does nothing.
ForgetSandbox(s) == s

\* SandboxGuard::drop hands the sandbox to a detached task that stops it, which
\* does nothing when start() had not recorded an id.
Dropped(s) == CASE s = "up" -> "dropping" [] s = "created" -> "orphan" [] OTHER -> s

\* Trial::run returned an error of this kind: the guard is dropped, then the
\* attempt is retried after bump_attempt or the trial is given up.
RetryOrGiveUp(t, kind) ==
  /\ sandbox' = [sandbox EXCEPT ![t][attempt[t]] = Dropped(@)]
  /\ \/ /\ ShouldRetry(kind, attempt[t])
        /\ attempt' = [attempt EXCEPT ![t] = @ + 1]
        /\ pc' = [pc EXCEPT ![t] = "backoff"]
     \/ /\ ~ShouldRetry(kind, attempt[t])
        /\ pc' = [pc EXCEPT ![t] = "failing"]
        /\ UNCHANGED attempt

\* Mutant of RunFails: the row is marked failed before the decision to retry.
RunFailsMarkingFirst(t) ==
  /\ pc[t] \in InRun
  /\ \E kind \in ErrorsIn(pc[t]) : RetryOrGiveUp(t, kind)
  /\ row' = [row EXCEPT ![t] = "failed"]
  /\ UNCHANGED <<notTrial, countVars, outcome, snap, rewarded, job>>

\* A phase of Trial::run fails.
RunFails(t) ==
  /\ pc[t] \in InRun
  /\ \E kind \in ErrorsIn(pc[t]) : RetryOrGiveUp(t, kind)
  /\ UNCHANGED <<notTrial, countVars, outcome, snap, rewarded, row, job>>

\* The status Trial::run writes next from where it is.
NextStatus(t) ==
  CASE pc[t] = "build"    -> {"setup"}
    [] pc[t] = "starting" -> {"running"}
    [] pc[t] = "agent"    -> {"verifying"}
    [] pc[t] = "rewarded" -> {"succeeded"}
    [] OTHER              -> {}

\* A repository call of Trial::run returns an error, one that writes the status,
\* the rewards or only a timing.  What it wrote may be committed all the same,
\* mark_terminal's "succeeded" included.
WriteFails(t) ==
  /\ DbFaults
  /\ \/ pc[t] \in {"build", "agent", "verifying", "rewarded"}
     \/ pc[t] = "starting" /\ sandbox[t][attempt[t]] = "up"
  /\ RetryOrGiveUp(t, "Persistence")
  /\ \/ UNCHANGED row
     \/ \E s \in NextStatus(t) : row' = [row EXCEPT ![t] = s]
  /\ \/ UNCHANGED rewarded
     \/ pc[t] = "verifying" /\ rewarded' = [rewarded EXCEPT ![t] = TRUE]
  /\ UNCHANGED <<notTrial, countVars, outcome, snap, job>>

BackoffEnds(t) ==
  /\ Move(t, "backoff", "build")
  /\ UNCHANGED <<notTrial, countVars, attempt, outcome, snap, rewarded, row, sandbox, job>>

\* mark_trial_failed; its result is ignored.  mark_terminal has no guard on the
\* status it finds, so this also overwrites a "succeeded" that was committed by
\* a call that returned an error.
MarkFailed(t) ==
  /\ Move(t, "failing", "count")
  /\ outcome' = [outcome EXCEPT ![t] = "err"]
  /\ \/ row' = [row EXCEPT ![t] = "failed"]
     \/ DbFaults /\ UNCHANGED row
  /\ UNCHANGED <<notTrial, countVars, attempt, snap, rewarded, sandbox, job>>

\* Mutant of CountOutcome: completed counts every trial that ended.
CountEveryEnd(t) ==
  /\ Move(t, "count", "loadC")
  /\ completed' = completed + 1
  /\ failed' = failed + (IF outcome[t] = "err" THEN 1 ELSE 0)
  /\ UNCHANGED <<notTrial, permits, attempt, outcome, snap, rewarded, row, sandbox, job>>

CountOutcome(t) ==
  /\ Move(t, "count", "loadC")
  /\ completed' = completed + (IF outcome[t] = "ok" THEN 1 ELSE 0)
  /\ failed' = failed + (IF outcome[t] = "err" THEN 1 ELSE 0)
  /\ UNCHANGED <<notTrial, permits, attempt, outcome, snap, rewarded, row, sandbox, job>>

LoadCompleted(t) ==
  /\ Move(t, "loadC", "loadF")
  /\ snap' = [snap EXCEPT ![t].completed = completed]
  /\ UNCHANGED <<notTrial, countVars, attempt, outcome, rewarded, row, sandbox, job>>

\* Mutant of LoadFailed: what is not completed is taken for failed.
LoadRemainder(t) ==
  /\ Move(t, "loadF", "save")
  /\ snap' = [snap EXCEPT ![t].failed = Cardinality(Trials) - snap[t].completed]
  /\ UNCHANGED <<notTrial, countVars, attempt, outcome, rewarded, row, sandbox, job>>

LoadFailed(t) ==
  /\ Move(t, "loadF", "save")
  /\ snap' = [snap EXCEPT ![t].failed = failed]
  /\ UNCHANGED <<notTrial, countVars, attempt, outcome, rewarded, row, sandbox, job>>

\* Mutant of SaveSummary: the permit is not given back.
SaveSummaryKeepingPermit(t) ==
  /\ Move(t, "save", "done")
  /\ job' = [job EXCEPT !.completed = snap[t].completed, !.failed = snap[t].failed]
  /\ UNCHANGED <<notTrial, countVars, attempt, outcome, snap, rewarded, row, sandbox>>

\* update_summary with the counts loaded above; the task ends, the permit drops.
SaveSummary(t) ==
  /\ Move(t, "save", "done")
  /\ permits' = permits + 1
  /\ \/ job' = [job EXCEPT !.completed = snap[t].completed, !.failed = snap[t].failed]
     \/ DbFaults /\ UNCHANGED job
  /\ UNCHANGED <<notTrial, completed, failed, attempt, outcome, snap, rewarded, row, sandbox>>

\* Mutant of Panic: the permit is released by hand, not by its destructor.
PanicKeepingPermit(t) ==
  /\ pc[t] \in {"agent", "verifying", "rewarded", "backoff"}
  /\ pc' = [pc EXCEPT ![t] = "panicked"]
  /\ sandbox' = [sandbox EXCEPT ![t][attempt[t]] = Dropped(@)]
  /\ UNCHANGED <<notTrial, countVars, attempt, outcome, snap, rewarded, row, job>>

\* An agent runner, verifier or grader panics, or retry_backoff does on a bad
\* retry configuration: the task unwinds, dropping the guard and the permit, and
\* counts nothing.
Panic(t) ==
  /\ pc[t] \in {"agent", "verifying", "rewarded", "backoff"}
  /\ pc' = [pc EXCEPT ![t] = "panicked"]
  /\ permits' = permits + 1
  /\ sandbox' = [sandbox EXCEPT ![t][attempt[t]] = Dropped(@)]
  /\ UNCHANGED <<notTrial, completed, failed, attempt, outcome, snap, rewarded, row, job>>

\* The detached task calls stop(true); a failure is only logged.
DetachedStop(t, a) ==
  /\ sandbox[t][a] = "dropping"
  /\ \E s \in {"gone", "orphan"} : sandbox' = [sandbox EXCEPT ![t][a] = s]
  /\ UNCHANGED <<serviceVars, runVars, countVars, trialVars, job, cancel, stream>>

------------------------------------------------------------------------------
(* POST /jobs/:id/cancel.                                                    *)

\* Mutant of CancelTakes: the handle is cloned instead of taken.
CancelKeepsHandle(c) ==
  /\ cancel[c] = "idle" /\ active /\ handle
  /\ cancel' = [cancel EXCEPT ![c] = "aborted"]
  /\ aborting' = TRUE
  /\ UNCHANGED <<notCancel, handle, job>>

\* BacktestService::cancel takes the handle, aborts the task and returns true.
CancelTakes(c) ==
  /\ cancel[c] = "idle" /\ active /\ handle
  /\ handle' = FALSE
  /\ cancel' = [cancel EXCEPT ![c] = "aborted"]
  /\ aborting' = TRUE
  /\ UNCHANGED <<notCancel, job>>

CancelRefused(c) ==
  /\ cancel[c] = "idle" /\ ~(active /\ handle)
  /\ cancel' = [cancel EXCEPT ![c] = "refused"]
  /\ UNCHANGED <<notCancel, handle, aborting, job>>

WriteCancelled(c) ==
  /\ cancel[c] = "aborted"
  /\ cancel' = [cancel EXCEPT ![c] = "replied"]
  /\ \/ job' = [job EXCEPT !.status = "cancelled"]
     \/ DbFaults /\ UNCHANGED job
  /\ UNCHANGED <<notCancel, handle, aborting>>

------------------------------------------------------------------------------
(* GET /jobs/:id/events: one subscriber.                                     *)

Subscribe ==
  /\ stream = "none"
  /\ stream' = IF active THEN "open" ELSE "done"
  /\ UNCHANGED <<serviceVars, runVars, countVars, trialVars, sandbox, job, cancel>>

\* Every broadcast::Sender is gone: the table entry's, start_run's own, the run
\* task's and those in the event sinks of the trial tasks.
ChannelClosed ==
  /\ ~active /\ starter = "done"
  /\ runner \in {"exit", "aborted"}
  /\ \A t \in Trials : pc[t] \in {"unspawned"} \cup Finished

\* Mutant of EndStream: only JobFinished ends the loop.
EndStreamOnFinishOnly ==
  /\ stream = "notified"
  /\ stream' = "done"
  /\ UNCHANGED <<serviceVars, runVars, countVars, trialVars, sandbox, job, cancel>>

\* The handler reads JobFinished or Closed, sends `done` and returns.
EndStream ==
  /\ \/ stream = "notified"
     \/ stream = "open" /\ ChannelClosed
  /\ stream' = "done"
  /\ UNCHANGED <<serviceVars, runVars, countVars, trialVars, sandbox, job, cancel>>

------------------------------------------------------------------------------
Starter == Register \/ SpawnRun \/ StoreHandle

Runner ==
  \/ MarkRunning \/ SpawnTrials \/ SetupFails \/ JoinAll \/ WriteFinalStatus
  \/ AnnounceFinished \/ RemoveEntry \/ AbortLands

Trial(t) ==
  \/ Acquire(t) \/ BeginEnvSetup(t) \/ BuildFails(t) \/ ProviderCreates(t)
  \/ StartReturns(t) \/ BeginAgentRun(t) \/ BeginVerifier(t) \/ RecordRewards(t)
  \/ MarkSucceeded(t) \/ StopNow(t) \/ RunFails(t) \/ WriteFails(t) \/ BackoffEnds(t)
  \/ MarkFailed(t) \/ CountOutcome(t) \/ LoadCompleted(t) \/ LoadFailed(t) \/ SaveSummary(t)
  \/ Panic(t)

Cancel(c) == CancelTakes(c) \/ CancelRefused(c) \/ WriteCancelled(c)

Next ==
  \/ Starter
  \/ Runner
  \/ \E t \in Trials : Trial(t)
  \/ \E t \in Trials, a \in Attempts : DetachedStop(t, a)
  \/ \E c \in Requests : Cancel(c)
  \/ Subscribe
  \/ EndStream

\* Every await of a spawned task ends: the phases are wrapped in timeouts, the
\* HTTP and docker clients have their own, a backoff is a bounded sleep, and the
\* runtime keeps polling.  Nobody is obliged to cancel or to subscribe.
Fairness ==
  /\ WF_vars(Starter)
  /\ WF_vars(Runner)
  /\ \A t \in Trials : WF_vars(Trial(t))
  /\ \A t \in Trials, a \in Attempts : WF_vars(DetachedStop(t, a))
  /\ \A c \in Requests : WF_vars(WriteCancelled(c))
  /\ WF_vars(EndStream)

Spec == Init /\ [][Next]_vars
FairSpec == Spec /\ Fairness

------------------------------------------------------------------------------
(* What the job promises.                                                    *)

FlagsOK ==
  /\ active \in BOOLEAN /\ handle \in BOOLEAN /\ aborting \in BOOLEAN
  /\ rewarded \in [Trials -> BOOLEAN]

DataOK ==
  /\ starter \in {"created", "registered", "spawned", "done"}
  /\ runner \in {"absent", "begin", "summary", "awaiting", "final", "written", "cleanup",
                 "exit", "aborted"}
  /\ announced \in {"none", "succeeded", "failed"}
  /\ permits \in Nat /\ completed \in Nat /\ failed \in Nat
  /\ pc \in [Trials -> Places]
  /\ attempt \in [Trials -> Attempts]
  /\ outcome \in [Trials -> {"none", "ok", "err"}]
  /\ snap \in [Trials -> [completed : Nat, failed : Nat]]
  /\ sandbox \in [Trials -> [Attempts -> SandboxStates]]
  /\ row \in [Trials -> {"pending", "setup", "running", "verifying", "succeeded", "failed"}]
  /\ job \in [status : {"pending", "running", "succeeded", "failed", "cancelled"},
              completed : Nat, failed : Nat]
  /\ cancel \in [Requests -> {"idle", "aborted", "refused", "replied"}]
  /\ stream \in {"none", "open", "notified", "done"}

\* Every variable keeps the shape the program's types give it; in particular an
\* attempt never exceeds max_retries (should_retry).
TypeOK == FlagsOK /\ DataOK

Holders == {t \in Trials : pc[t] \notin {"unspawned", "queued"} \cup Finished}

\* run_job bounds concurrency to n_concurrent: across retries, failures, panics
\* and a cancelled run, the free permits and the trials that hold one always add
\* up to the semaphore's size.
PermitsConserved == permits + Cardinality(Holders) = Permits

Counted(o) ==
  {t \in Trials : pc[t] \in {"loadC", "loadF", "save", "done"} /\ outcome[t] = o}

\* Each finished trial is counted once, on the side of its own outcome; a trial
\* that panicked is in neither counter.
CountersExact ==
  /\ completed = Cardinality(Counted("ok"))
  /\ failed = Cardinality(Counted("err"))

\* The summary row never claims more finished or failed trials than there are.
SummaryNeverOverstates == job.completed <= completed /\ job.failed <= failed

\* A sandbox whose id the guard holds, or that is being started, belongs to the
\* current attempt of a trial that is using it, and every trial past start has one.
SandboxOwned ==
  \A t \in Trials :
    /\ \A a \in Attempts :
         /\ sandbox[t][a] = "created" => a = attempt[t] /\ pc[t] = "starting"
         /\ sandbox[t][a] = "up" => a = attempt[t] /\ pc[t] \in InRun \cup {"stopping"}
    /\ pc[t] \in {"agent", "verifying", "rewarded", "stopping"} =>
         sandbox[t][attempt[t]] = "up"

\* SSE clients close on JobFinished, so no trial may still be working (and
\* sending events or writing rows) once it was broadcast.
NothingRunsAfterFinish == announced # "none" => \A t \in Trials : Settled(t)

\* The verdict that is broadcast is failed exactly when some trial failed and
\* none succeeded, whatever the order in which the tasks finished.
VerdictMatchesTrials ==
  announced # "none" =>
    (announced = "failed" <=> /\ \E t \in Trials : outcome[t] = "err"
                              /\ \A t \in Trials : outcome[t] # "ok")

\* A trial row that reached succeeded or failed is not rewritten by a retry, a
\* late failure, a panic or a cancellation, with one exception: a task that was
\* told its write of "succeeded" failed, though it was committed, gives the trial
\* up and turns that row into failed.  A failed row stays, and a trial that was
\* counted keeps the row it has.
TerminalRowStable ==
  [][\A t \in Trials :
       row[t] \in {"succeeded", "failed"} /\ row'[t] # row[t] =>
         /\ row[t] = "succeeded" /\ row'[t] = "failed"
         /\ pc[t] = "failing" /\ outcome[t] = "none" /\ rewarded[t]]_vars

\* Once rewards of a trial are persisted the trial is not run again: every error
\* that can follow is a persistence error, which should_retry refuses.
NoRerunAfterRewards ==
  [][\A t \in Trials : rewarded[t] => attempt'[t] = attempt[t]]_vars

\* A run ends, leaves the active table and leaves no trial task behind, unless an
\* abort took effect.
RunCompletes ==
  runner = "begin" ~>
    \/ runner = "aborted"
    \/ /\ runner = "exit" /\ ~active
       /\ \A t \in Trials : pc[t] \in {"unspawned"} \cup Finished

\* An open event stream is ended, unless an abort took effect.
StreamEnds == stream = "open" ~> (stream = "done" \/ runner = "aborted")

\* Of several concurrent cancel requests, at most one is told it aborted the job.
AtMostOneAbort ==
  \A c, d \in Requests :
    cancel[c] \in {"aborted", "replied"} /\ cancel[d] \in {"aborted", "replied"} => c = d

\* The trial tasks an abort detaches run to their end: they keep no permit and
\* none waits for ever.
DetachedTrialsSettle ==
  runner = "aborted" ~> \A t \in Trials : pc[t] \in {"unspawned"} \cup Finished

------------------------------------------------------------------------------
(* The job implements JobLifecycle.                                          *)

LifecyclePhase ==
  CASE runner \in {"absent", "begin", "summary"}  -> "pending"
    [] runner \in {"awaiting", "final", "written"} -> "running"
    [] OTHER -> IF announced = "none" THEN "abandoned" ELSE "finished"

TrialResult ==
  [t \in Trials |-> CASE pc[t] = "done"     -> outcome[t]
                     [] pc[t] = "panicked" -> "lost"
                     [] OTHER              -> "open"]

Lifecycle == INSTANCE JobLifecycle
             WITH phase <- LifecyclePhase, result <- TrialResult, verdict <- announced

\* run_job and its trial tasks, with every retry, panic, failing write and
\* cancellation, step only as the abstract job may.
ImplementsLifecycle == Lifecycle!Spec

------------------------------------------------------------------------------
(* What comments of the source say and the code does not do.                 *)

\* job.rs:97-100, service.rs:36-37: aborting the run cancels its trials.  Here:
\* once the abort took effect, no trial that waits for a permit is started.
AbortStopsTrials ==
  [][runner = "aborted" => \A t \in Trials : pc[t] = "queued" => pc'[t] = "queued"]_vars

\* service.rs:14-15: the active entry of a run that ended is collected.
AbortedRunCollected == runner = "aborted" ~> ~active

\* job.rs:233-235: when a job with failures is marked succeeded, the row's
\* failed-trials count shows them.
PartialFailureVisible == announced = "succeeded" /\ failed > 0 => job.failed > 0

\* trial.rs:401-404: a dropped trial future never leaks a provider-side sandbox.
DroppedSandboxStopped ==
  [][\A t \in Trials : \A a \in Attempts :
       sandbox[t][a] = "created" => sandbox'[t][a] # "orphan"]_vars

=============================================================================
