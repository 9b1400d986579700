-------------------------- MODULE BacktestJobProofs --------------------------
(***************************************************************************)
(* Safety of BacktestJob for every set of trials, semaphore size, retry    *)
(* configuration and set of cancel requests.                               *)
(***************************************************************************)
EXTENDS BacktestJob, FiniteSetTheorems, TLAPS

LEMMA Sizes == Permits \in Nat /\ 0 \in Attempts
BY JobAssumption DEF JobAssumption, Permits, Attempts

LEMMA SandboxUpdate ==
  ASSUME NEW sb \in [Trials -> [Attempts -> SandboxStates]],
         NEW t \in Trials, NEW a \in Attempts, NEW s \in SandboxStates
  PROVE  [sb EXCEPT ![t][a] = s] \in [Trials -> [Attempts -> SandboxStates]]
OBVIOUS

LEMMA DroppedSandbox ==
  ASSUME NEW s \in SandboxStates
  PROVE  Dropped(s) \in SandboxStates
BY DEF Dropped, SandboxStates

\* A retry stays within the budget.
LEMMA RetryWithinBudget ==
  ASSUME NEW n \in Attempts, NEW kind, ShouldRetry(kind, n)
  PROVE  n + 1 \in Attempts
BY JobAssumption DEF JobAssumption, Attempts, ShouldRetry

\* How Trial::run fails, in a phase or in a repository call: the guard is dropped
\* and the task retries, with row and rewards as they were, or gives up, when the
\* call that failed may have written the row or the rewards.
LEMMA FailingRun ==
  ASSUME NEW t \in Trials, RunFails(t) \/ WriteFails(t)
  PROVE  /\ pc[t] \in {"build"} \cup InRun
         /\ sandbox' = [sandbox EXCEPT ![t][attempt[t]] = Dropped(sandbox[t][attempt[t]])]
         /\ UNCHANGED <<notTrial, countVars, outcome, snap, job>>
         /\ \/ /\ pc[t] \in {"starting", "agent", "verifying"}
               /\ \E kind : ShouldRetry(kind, attempt[t])
               /\ attempt' = [attempt EXCEPT ![t] = attempt[t] + 1]
               /\ pc' = [pc EXCEPT ![t] = "backoff"]
               /\ UNCHANGED <<row, rewarded>>
            \/ pc' = [pc EXCEPT ![t] = "failing"] /\ UNCHANGED attempt
         /\ \/ UNCHANGED row
            \/ \E s \in NextStatus(t) : row' = [row EXCEPT ![t] = s]
         /\ \/ UNCHANGED rewarded
            \/ pc[t] = "verifying" /\ rewarded' = [rewarded EXCEPT ![t] = TRUE]
<1>1. CASE RunFails(t)
  <2>1. PICK kind \in ErrorsIn(pc[t]) : RetryOrGiveUp(t, kind)
    BY <1>1, Zenon DEF RunFails
  <2>2. pc[t] \in InRun /\ UNCHANGED <<notTrial, countVars, outcome, snap, rewarded, row, job>>
    BY <1>1, Zenon DEF RunFails
  <2>3. pc[t] \in {"starting", "agent", "verifying"}
    BY <2>1, <2>2 DEF ErrorsIn, InRun
  <2> QED
    BY <2>1, <2>2, <2>3, Zenon DEF RetryOrGiveUp
<1>2. CASE WriteFails(t)
  <2>1. ~ShouldRetry("Persistence", attempt[t])
    BY DEF ShouldRetry, IsTransient
  <2>2. RetryOrGiveUp(t, "Persistence") /\ UNCHANGED <<notTrial, countVars, outcome, snap, job>>
    BY <1>2, Zenon DEF WriteFails
  <2>3. pc[t] \in {"build"} \cup InRun
    BY <1>2 DEF WriteFails, InRun
  <2>4. /\ \/ UNCHANGED row
           \/ \E s \in NextStatus(t) : row' = [row EXCEPT ![t] = s]
        /\ \/ UNCHANGED rewarded
           \/ pc[t] = "verifying" /\ rewarded' = [rewarded EXCEPT ![t] = TRUE]
    BY <1>2, Zenon DEF WriteFails
  <2> QED
    BY <2>1, <2>2, <2>3, <2>4, Zenon DEF RetryOrGiveUp
<1> QED
  BY <1>1, <1>2

LEMMA FlagsStep == FlagsOK /\ [Next]_vars => FlagsOK'
<1> SUFFICES ASSUME FlagsOK, [Next]_vars PROVE FlagsOK'
  OBVIOUS
<1> USE DEF FlagsOK
<1>1. CASE Starter
  BY <1>1, Zenon DEF Starter, Register, SpawnRun, StoreHandle, trialVars, runVars
<1>2. CASE Runner
  BY <1>2, Zenon DEF Runner, MarkRunning, SpawnTrials, SetupFails, JoinAll, WriteFinalStatus,
     AnnounceFinished, RemoveEntry, AbortLands, notRunner
<1>3. ASSUME NEW t \in Trials, Trial(t) PROVE FlagsOK'
  <2>1. UNCHANGED <<active, handle, aborting>>
    BY <1>3, Zenon DEF Trial, Acquire, BeginEnvSetup, BuildFails, ProviderCreates, StartReturns,
       BeginAgentRun, BeginVerifier, RecordRewards, MarkSucceeded, StopNow, RunFails, WriteFails,
       BackoffEnds, MarkFailed, CountOutcome, LoadCompleted, LoadFailed, SaveSummary, Panic, notTrial,
       serviceVars, runVars
  <2>2. rewarded' = rewarded \/ rewarded' = [rewarded EXCEPT ![t] = TRUE]
    BY <1>3, Zenon DEF Trial, Acquire, BeginEnvSetup, BuildFails, ProviderCreates, StartReturns,
       BeginAgentRun, BeginVerifier, RecordRewards, MarkSucceeded, StopNow, RunFails, WriteFails,
       BackoffEnds, MarkFailed, CountOutcome, LoadCompleted, LoadFailed, SaveSummary, Panic, trialVars
  <2> QED
    BY <2>1, <2>2, Zenon
<1>4. ASSUME NEW t \in Trials, NEW a \in Attempts, DetachedStop(t, a) PROVE FlagsOK'
  BY <1>4, Zenon DEF DetachedStop, serviceVars, runVars, trialVars
<1>5. ASSUME NEW c \in Requests, Cancel(c) PROVE FlagsOK'
  BY <1>5, Zenon DEF Cancel, CancelTakes, CancelRefused, WriteCancelled, notCancel, trialVars
<1>6. CASE Subscribe \/ EndStream
  BY <1>6, Zenon DEF Subscribe, EndStream, serviceVars, runVars, trialVars
<1>7. CASE UNCHANGED vars
  BY <1>7, Zenon DEF vars, serviceVars, runVars, trialVars
<1> QED
  BY <1>1, <1>2, <1>3, <1>4, <1>5, <1>6, <1>7 DEF Next

LEMMA DataInit == Init => DataOK
BY Sizes DEF Init, DataOK, SandboxStates, Places

LEMMA DataStep == DataOK /\ [Next]_vars => DataOK'
<1> SUFFICES ASSUME DataOK, [Next]_vars PROVE DataOK'
  OBVIOUS
<1> USE DEF DataOK
<1>1. CASE Starter
  BY <1>1 DEF Starter, Register, SpawnRun, StoreHandle, runVars, countVars, trialVars
<1>2. CASE Runner
  <2> USE DEF notRunner, countVars
  <2>1. CASE MarkRunning
    BY <2>1 DEF MarkRunning
  <2>2. CASE SpawnTrials
    BY <2>2 DEF SpawnTrials, Places
  <2>3. CASE SetupFails \/ JoinAll \/ RemoveEntry \/ AbortLands
    BY <2>3 DEF SetupFails, JoinAll, RemoveEntry, AbortLands
  <2>4. CASE WriteFinalStatus
    BY <2>4 DEF WriteFinalStatus, Verdict
  <2>5. CASE AnnounceFinished
    BY <2>5 DEF AnnounceFinished, Verdict
  <2> QED
    BY <1>2, <2>1, <2>2, <2>3, <2>4, <2>5 DEF Runner
<1>3. ASSUME NEW t \in Trials, Trial(t) PROVE DataOK'
  <2> USE DEF notTrial, serviceVars, runVars, countVars, trialVars, Move, Places
  <2>1. CASE Acquire(t)
    BY <2>1 DEF Acquire
  <2>2. CASE BeginEnvSetup(t)
    BY <2>2 DEF BeginEnvSetup
  <2>3. CASE BuildFails(t)
    BY <2>3 DEF BuildFails
  <2>18. CASE BackoffEnds(t)
    BY <2>18 DEF BackoffEnds
  <2>4. CASE ProviderCreates(t)
    BY <2>4, SandboxUpdate DEF ProviderCreates, SandboxStates
  <2>5. CASE StartReturns(t)
    BY <2>5, SandboxUpdate DEF StartReturns, SandboxStates
  <2>6. CASE BeginAgentRun(t)
    BY <2>6 DEF BeginAgentRun
  <2>7. CASE BeginVerifier(t)
    BY <2>7 DEF BeginVerifier
  <2>8. CASE RecordRewards(t)
    BY <2>8 DEF RecordRewards
  <2>9. CASE MarkSucceeded(t)
    BY <2>9 DEF MarkSucceeded
  <2>10. CASE StopNow(t)
    <3>1. PICK s \in {"gone", "orphan"} : sandbox' = [sandbox EXCEPT ![t][attempt[t]] = s]
      BY <2>10 DEF StopNow
    <3>2. sandbox' \in [Trials -> [Attempts -> SandboxStates]]
      BY <3>1, SandboxUpdate DEF SandboxStates
    <3> QED
      BY <2>10, <3>2 DEF StopNow
  <2>11. CASE RunFails(t) \/ WriteFails(t)
    <3> HIDE DEF DataOK
    <3>1. sandbox' \in [Trials -> [Attempts -> SandboxStates]]
      <4>1. sandbox' = [sandbox EXCEPT ![t][attempt[t]] = Dropped(sandbox[t][attempt[t]])]
        BY <2>11, FailingRun, Zenon
      <4>2. /\ sandbox \in [Trials -> [Attempts -> SandboxStates]] /\ attempt[t] \in Attempts
            /\ sandbox[t][attempt[t]] \in SandboxStates
        BY DEF DataOK
      <4> QED
        BY <4>1, <4>2, SandboxUpdate, DroppedSandbox
    <3>2. attempt' \in [Trials -> Attempts]
      <4>1. \/ \E kind : ShouldRetry(kind, attempt[t]) /\ attempt' = [attempt EXCEPT ![t] = attempt[t] + 1]
            \/ attempt' = attempt
        BY <2>11, FailingRun, Zenon
      <4>2. attempt[t] \in Attempts /\ attempt \in [Trials -> Attempts]
        BY DEF DataOK
      <4>3. \A kind : ShouldRetry(kind, attempt[t]) => attempt[t] + 1 \in Attempts
        BY <4>2, RetryWithinBudget
      <4> QED
        BY <4>1, <4>2, <4>3
    <3>3. pc' \in [Trials -> Places]
      <4>1. pc' = [pc EXCEPT ![t] = "backoff"] \/ pc' = [pc EXCEPT ![t] = "failing"]
        BY <2>11, FailingRun, Zenon
      <4> QED
        BY <4>1 DEF Places, DataOK
    <3>4. row' \in [Trials -> {"pending", "setup", "running", "verifying", "succeeded", "failed"}]
      <4>1. row' = row \/ \E s \in NextStatus(t) : row' = [row EXCEPT ![t] = s]
        BY <2>11, FailingRun, Zenon
      <4> QED
        BY <4>1 DEF NextStatus, DataOK
    <3>5. UNCHANGED <<notTrial, countVars, outcome, snap, job>>
      BY <2>11, FailingRun, Zenon
    <3> QED
      BY <3>1, <3>2, <3>3, <3>4, <3>5 DEF DataOK
  <2>12. CASE MarkFailed(t)
    BY <2>12 DEF MarkFailed
  <2>13. CASE CountOutcome(t)
    BY <2>13 DEF CountOutcome
  <2>14. CASE LoadCompleted(t)
    <3>1. snap' \in [Trials -> [completed : Nat, failed : Nat]]
      BY <2>14 DEF LoadCompleted
    <3> QED
      BY <2>14, <3>1 DEF LoadCompleted
  <2>15. CASE LoadFailed(t)
    <3>1. snap' \in [Trials -> [completed : Nat, failed : Nat]]
      BY <2>15 DEF LoadFailed
    <3> QED
      BY <2>15, <3>1 DEF LoadFailed
  <2>16. CASE SaveSummary(t)
    <3>1. snap[t].completed \in Nat /\ snap[t].failed \in Nat
      OBVIOUS
    <3>2. [job EXCEPT !.completed = snap[t].completed, !.failed = snap[t].failed] \in
            [status : {"pending", "running", "succeeded", "failed", "cancelled"},
             completed : Nat, failed : Nat]
      BY <3>1
    <3>3. job' \in [status : {"pending", "running", "succeeded", "failed", "cancelled"},
                    completed : Nat, failed : Nat]
      BY <2>16, <3>2, Zenon DEF SaveSummary
    <3>4. permits' \in Nat /\ pc' \in [Trials -> Places]
      BY <2>16 DEF SaveSummary
    <3>5. UNCHANGED <<notTrial, completed, failed, attempt, outcome, snap, rewarded, row, sandbox>>
      BY <2>16 DEF SaveSummary
    <3> QED
      BY <3>3, <3>4, <3>5
  <2>17. CASE Panic(t)
    <3>1. sandbox' = [sandbox EXCEPT ![t][attempt[t]] = Dropped(sandbox[t][attempt[t]])]
      BY <2>17 DEF Panic
    <3>2. sandbox' \in [Trials -> [Attempts -> SandboxStates]]
      BY <3>1, SandboxUpdate, DroppedSandbox
    <3> QED
      BY <2>17, <3>2 DEF Panic
  <2> QED
    BY <1>3, <2>1, <2>2, <2>3, <2>4, <2>5, <2>6, <2>7, <2>8, <2>9, <2>10, <2>11, <2>12,
       <2>13, <2>14, <2>15, <2>16, <2>17, <2>18 DEF Trial
<1>4. ASSUME NEW t \in Trials, NEW a \in Attempts, DetachedStop(t, a) PROVE DataOK'
  <2>1. PICK s \in {"gone", "orphan"} : sandbox' = [sandbox EXCEPT ![t][a] = s]
    BY <1>4 DEF DetachedStop
  <2>2. sandbox' \in [Trials -> [Attempts -> SandboxStates]]
    BY <2>1, SandboxUpdate DEF SandboxStates
  <2> QED
    BY <1>4, <2>2 DEF DetachedStop, serviceVars, runVars, countVars, trialVars
<1>5. ASSUME NEW c \in Requests, Cancel(c) PROVE DataOK'
  <2> USE DEF notCancel, countVars, trialVars
  <2>1. CASE CancelTakes(c)
    BY <2>1 DEF CancelTakes
  <2>2. CASE CancelRefused(c)
    BY <2>2 DEF CancelRefused
  <2>3. CASE WriteCancelled(c)
    BY <2>3 DEF WriteCancelled
  <2> QED
    BY <1>5, <2>1, <2>2, <2>3 DEF Cancel
<1>6. CASE Subscribe \/ EndStream
  BY <1>6 DEF Subscribe, EndStream, serviceVars, runVars, countVars, trialVars
<1>7. CASE UNCHANGED vars
  BY <1>7 DEF vars, serviceVars, runVars, countVars, trialVars
<1> QED
  BY <1>1, <1>2, <1>3, <1>4, <1>5, <1>6, <1>7 DEF Next

\* Every reachable state is well typed; attempts stay within max_retries
\* (should_retry in job.rs).
THEOREM TypeCorrect == Spec => []TypeOK
<1>1. Init => TypeOK
  BY DataInit DEF Init, TypeOK, FlagsOK
<1>2. TypeOK /\ [Next]_vars => TypeOK'
  BY FlagsStep, DataStep DEF TypeOK
<1> QED
  BY <1>1, <1>2, PTL DEF Spec

------------------------------------------------------------------------------
(* Where the tasks are.                                                      *)

\* The trial tasks exist once run_job spawned them, and run_job is past its
\* join loop only when all of them have settled.
Stages ==
  /\ starter \in {"created", "registered"} <=> runner = "absent"
  /\ runner \in {"absent", "begin", "summary"} => \A t \in Trials : pc[t] = "unspawned"
  /\ runner \in {"final", "written"} => \A t \in Trials : Settled(t)
  /\ announced # "none" => runner \in {"cleanup", "exit"}
  /\ NothingRunsAfterFinish

\* A trial's step moves that trial alone, from a place between Acquire and the
\* end of its task, and touches nothing of the other processes.
LEMMA TrialMoves ==
  ASSUME DataOK, NEW t \in Trials, Trial(t)
  PROVE  /\ UNCHANGED notTrial
         /\ pc[t] \notin {"unspawned"} \cup Finished
         /\ \E p \in Places \ {"unspawned", "queued"} : pc' = [pc EXCEPT ![t] = p]
<1> USE DEF DataOK, Places, Move, Finished, trialVars
<1>1. CASE Acquire(t) \/ BeginEnvSetup(t) \/ BuildFails(t) \/ BeginAgentRun(t) \/ BeginVerifier(t)
  BY <1>1 DEF Acquire, BeginEnvSetup, BuildFails, BeginAgentRun, BeginVerifier
<1>2. CASE ProviderCreates(t) \/ StartReturns(t)
  BY <1>2 DEF ProviderCreates, StartReturns
<1>3. CASE RecordRewards(t) \/ MarkSucceeded(t) \/ StopNow(t) \/ BackoffEnds(t) \/ MarkFailed(t)
  BY <1>3 DEF RecordRewards, MarkSucceeded, StopNow, BackoffEnds, MarkFailed
<1>4. CASE RunFails(t) \/ WriteFails(t)
  <2>1. /\ UNCHANGED notTrial /\ pc[t] \in {"build"} \cup InRun
        /\ pc' = [pc EXCEPT ![t] = "backoff"] \/ pc' = [pc EXCEPT ![t] = "failing"]
    BY <1>4, FailingRun, Zenon
  <2> QED
    BY <2>1 DEF InRun
<1>5. CASE CountOutcome(t) \/ LoadCompleted(t) \/ LoadFailed(t) \/ SaveSummary(t)
  BY <1>5 DEF CountOutcome, LoadCompleted, LoadFailed, SaveSummary
<1>6. CASE Panic(t)
  BY <1>6 DEF Panic, InRun
<1> QED
  BY <1>1, <1>2, <1>3, <1>4, <1>5, <1>6, Trial(t) DEF Trial

LEMMA StagesStep == DataOK /\ Stages /\ [Next]_vars => Stages'
<1> SUFFICES ASSUME DataOK, Stages, [Next]_vars PROVE Stages'
  OBVIOUS
<1> USE DEF Stages, NothingRunsAfterFinish, Settled
<1>1. CASE Starter
  BY <1>1 DEF Starter, Register, SpawnRun, StoreHandle, runVars, trialVars
<1>2. CASE Runner
  BY <1>2 DEF Runner, MarkRunning, SpawnTrials, SetupFails, JoinAll, WriteFinalStatus,
     AnnounceFinished, RemoveEntry, AbortLands, notRunner, Finished
<1>3. ASSUME NEW t \in Trials, Trial(t) PROVE Stages'
  <2>1. PICK p \in Places \ {"unspawned", "queued"} : pc' = [pc EXCEPT ![t] = p]
    BY <1>3, TrialMoves
  <2>2. UNCHANGED <<starter, runner, announced>> /\ pc[t] \notin {"unspawned"} \cup Finished
    BY <1>3, TrialMoves DEF notTrial, serviceVars, runVars
  <2> QED
    BY <2>1, <2>2 DEF DataOK
<1>4. ASSUME NEW t \in Trials, NEW a \in Attempts, DetachedStop(t, a) PROVE Stages'
  BY <1>4 DEF DetachedStop, serviceVars, runVars, trialVars
<1>5. ASSUME NEW c \in Requests, Cancel(c) PROVE Stages'
  BY <1>5 DEF Cancel, CancelTakes, CancelRefused, WriteCancelled, notCancel, trialVars
<1>6. CASE Subscribe \/ EndStream
  BY <1>6 DEF Subscribe, EndStream, serviceVars, runVars, trialVars
<1>7. CASE UNCHANGED vars
  BY <1>7 DEF vars, serviceVars, runVars, trialVars
<1> QED
  BY <1>1, <1>2, <1>3, <1>4, <1>5, <1>6, <1>7 DEF Next

\* Once JobFinished was broadcast no trial task is working any more
\* (run_job awaits every handle before it).
THEOREM FinishIsLast == Spec => []NothingRunsAfterFinish
<1>1. Init => DataOK /\ Stages
  BY DataInit DEF Init, Stages, NothingRunsAfterFinish
<1>2. DataOK /\ Stages /\ [Next]_vars => (DataOK /\ Stages)'
  BY DataStep, StagesStep
<1>3. Stages => NothingRunsAfterFinish
  BY DEF Stages
<1> QED
  BY <1>1, <1>2, <1>3, PTL DEF Spec

------------------------------------------------------------------------------
(* The semaphore.                                                            *)

\* A trial's step takes a permit, gives one back, or leaves both sides alone.
LEMMA TrialPermit ==
  ASSUME DataOK, NEW t \in Trials, Trial(t)
  PROVE  \/ t \notin Holders /\ Holders' = Holders \cup {t} /\ permits' = permits - 1
         \/ t \in Holders /\ Holders' = Holders \ {t} /\ permits' = permits + 1
         \/ Holders' = Holders /\ permits' = permits
<1> USE DEF DataOK, Places, Move, Finished, Holders, countVars, trialVars
<1>1. CASE Acquire(t)
  BY <1>1 DEF Acquire
<1>2. CASE SaveSummary(t) \/ Panic(t)
  BY <1>2 DEF SaveSummary, Panic
<1>3. CASE BeginEnvSetup(t) \/ BuildFails(t) \/ BeginAgentRun(t) \/ BeginVerifier(t)
  BY <1>3 DEF BeginEnvSetup, BuildFails, BeginAgentRun, BeginVerifier
<1>4. CASE ProviderCreates(t) \/ StartReturns(t)
  BY <1>4 DEF ProviderCreates, StartReturns
<1>5. CASE RecordRewards(t) \/ MarkSucceeded(t) \/ StopNow(t) \/ BackoffEnds(t) \/ MarkFailed(t)
  BY <1>5 DEF RecordRewards, MarkSucceeded, StopNow, BackoffEnds, MarkFailed
<1>6. CASE RunFails(t) \/ WriteFails(t)
  <2>1. /\ UNCHANGED permits /\ pc[t] \in {"build"} \cup InRun
        /\ pc' = [pc EXCEPT ![t] = "backoff"] \/ pc' = [pc EXCEPT ![t] = "failing"]
    BY <1>6, FailingRun, Zenon DEF countVars
  <2> QED
    BY <2>1 DEF InRun
<1>7. CASE CountOutcome(t) \/ LoadCompleted(t) \/ LoadFailed(t)
  BY <1>7 DEF CountOutcome, LoadCompleted, LoadFailed
<1> QED
  BY <1>1, <1>2, <1>3, <1>4, <1>5, <1>6, <1>7, Trial(t) DEF Trial

\* A subset of the trials is finite; adding or removing one changes its size by one.
LEMMA TrialSets ==
  ASSUME NEW S \in SUBSET Trials
  PROVE  /\ Cardinality(S) \in Nat
         /\ \A t \in Trials \ S : Cardinality(S \cup {t}) = Cardinality(S) + 1
         /\ \A t \in S : Cardinality(S \ {t}) = Cardinality(S) - 1
<1>1. IsFiniteSet(S)
  BY JobAssumption, FS_Subset DEF JobAssumption
<1> QED
  BY <1>1, FS_CardinalityType, FS_AddElement, FS_RemoveElement

LEMMA PermitsStep ==
  DataOK /\ Stages /\ PermitsConserved /\ [Next]_vars => PermitsConserved'
<1> SUFFICES ASSUME DataOK, Stages, PermitsConserved, [Next]_vars PROVE PermitsConserved'
  OBVIOUS
<1> USE DEF PermitsConserved
<1>1. UNCHANGED <<pc, permits>> => PermitsConserved'
  BY DEF Holders
<1>2. CASE Starter
  BY <1>1, <1>2 DEF Starter, Register, SpawnRun, StoreHandle, countVars, trialVars
<1>3. CASE Runner
  <2>1. CASE SpawnTrials
    <3>1. Holders = {}
      BY <2>1 DEF SpawnTrials, Stages, Holders
    <3>2. Holders' = {}
      BY <2>1 DEF SpawnTrials, Holders
    <3> QED
      BY <2>1, <3>1, <3>2 DEF SpawnTrials, notRunner, countVars
  <2> QED
    BY <1>1, <1>3, <2>1 DEF Runner, MarkRunning, SetupFails, JoinAll, WriteFinalStatus,
       AnnounceFinished, RemoveEntry, AbortLands, notRunner, countVars
<1>4. ASSUME NEW t \in Trials, Trial(t) PROVE PermitsConserved'
  <2>1. Holders \in SUBSET Trials
    BY DEF Holders
  <2>2. permits \in Nat /\ Permits \in Nat /\ Permits' = Permits
    BY Sizes DEF DataOK, Permits
  <2> QED
    BY <1>4, <2>1, <2>2, TrialSets, TrialPermit
<1>5. ASSUME NEW t \in Trials, NEW a \in Attempts, DetachedStop(t, a) PROVE PermitsConserved'
  BY <1>1, <1>5 DEF DetachedStop, countVars, trialVars
<1>6. ASSUME NEW c \in Requests, Cancel(c) PROVE PermitsConserved'
  BY <1>1, <1>6 DEF Cancel, CancelTakes, CancelRefused, WriteCancelled, notCancel, countVars,
     trialVars
<1>7. CASE Subscribe \/ EndStream
  BY <1>1, <1>7 DEF Subscribe, EndStream, countVars, trialVars
<1>8. CASE UNCHANGED vars
  BY <1>1, <1>8 DEF vars, countVars, trialVars
<1> QED
  BY <1>2, <1>3, <1>4, <1>5, <1>6, <1>7, <1>8 DEF Next

\* No permit of the semaphore is lost or made up, on any path of a trial task
\* (the _permit of run_job's tasks), so n_concurrent bounds the trials at work.
THEOREM PermitsNeverLeak == Spec => []PermitsConserved
<1>1. Init => DataOK /\ Stages /\ PermitsConserved
  <2>1. Init => Holders = {}
    BY DEF Init, Holders
  <2>2. Init => PermitsConserved
    BY <2>1, Sizes, FS_EmptySet DEF Init, PermitsConserved
  <2> QED
    BY <2>2, DataInit DEF Init, Stages, NothingRunsAfterFinish
<1>2. DataOK /\ Stages /\ PermitsConserved /\ [Next]_vars
        => (DataOK /\ Stages /\ PermitsConserved)'
  BY DataStep, StagesStep, PermitsStep
<1> QED
  BY <1>1, <1>2, PTL DEF Spec

------------------------------------------------------------------------------
(* The counters, the summary and the verdict.                                *)

\* A trial has an outcome from the moment it is about to be counted, and a trial
\* that panicked has none.
OutcomesKnown ==
  \A t \in Trials :
    outcome[t] # "none" <=> pc[t] \in {"count", "loadC", "loadF", "save", "done"}

\* A trial's step counts it on one side, or changes neither counter; only
\* StopNow and MarkFailed, which go to "count", set its outcome.
LEMMA TrialCounts ==
  ASSUME DataOK, OutcomesKnown, NEW t \in Trials, Trial(t)
  PROVE  /\ \/ UNCHANGED <<completed, failed, Counted("ok"), Counted("err")>>
            \/ /\ t \notin Counted("ok") /\ Counted("ok")' = Counted("ok") \cup {t}
               /\ completed' = completed + 1
               /\ UNCHANGED <<failed, Counted("err")>>
            \/ /\ t \notin Counted("err") /\ Counted("err")' = Counted("err") \cup {t}
               /\ failed' = failed + 1
               /\ UNCHANGED <<completed, Counted("ok")>>
         /\ OutcomesKnown'
<1> USE DEF DataOK, Move, OutcomesKnown, countVars, trialVars
<1>1. ASSUME UNCHANGED <<outcome, completed, failed>>,
             \/ pc' = pc
             \/ \E p \in Places \ {"count", "loadC", "loadF", "save", "done"} :
                  /\ pc[t] \notin {"count", "loadC", "loadF", "save", "done"}
                  /\ pc' = [pc EXCEPT ![t] = p]
             \/ \E p \in {"loadF", "save", "done"} :
                  /\ pc[t] \in {"loadC", "loadF", "save"}
                  /\ pc' = [pc EXCEPT ![t] = p]
      PROVE  UNCHANGED <<completed, failed, Counted("ok"), Counted("err")>> /\ OutcomesKnown'
  BY <1>1 DEF Counted, Places
<1>2. CASE Acquire(t) \/ BeginEnvSetup(t) \/ BuildFails(t) \/ BeginAgentRun(t) \/ BeginVerifier(t)
  BY <1>1, <1>2 DEF Acquire, BeginEnvSetup, BuildFails, BeginAgentRun, BeginVerifier, Places
<1>3. CASE ProviderCreates(t) \/ StartReturns(t)
  BY <1>1, <1>3 DEF ProviderCreates, StartReturns
<1>4. CASE RecordRewards(t) \/ MarkSucceeded(t) \/ BackoffEnds(t)
  BY <1>1, <1>4 DEF RecordRewards, MarkSucceeded, BackoffEnds, Places
<1>5. CASE StopNow(t) \/ MarkFailed(t)
  <2>1. /\ pc' = [pc EXCEPT ![t] = "count"] /\ pc[t] \in {"stopping", "failing"}
        /\ \E o \in {"ok", "err"} : outcome' = [outcome EXCEPT ![t] = o]
        /\ UNCHANGED <<completed, failed>>
    BY <1>5 DEF StopNow, MarkFailed
  <2>2. UNCHANGED <<Counted("ok"), Counted("err")>>
    BY <2>1 DEF Counted
  <2>3. OutcomesKnown'
    BY <2>1
  <2> QED
    BY <2>1, <2>2, <2>3
<1>6. CASE Panic(t)
  BY <1>1, <1>6 DEF Panic, Places
<1>9. CASE RunFails(t) \/ WriteFails(t)
  <2>1. /\ UNCHANGED <<completed, failed, outcome>> /\ pc[t] \in {"build"} \cup InRun
        /\ pc' = [pc EXCEPT ![t] = "backoff"] \/ pc' = [pc EXCEPT ![t] = "failing"]
    BY <1>9, FailingRun, Zenon DEF countVars
  <2> QED
    BY <1>1, <2>1 DEF InRun, Places
<1>7. CASE CountOutcome(t)
  <2>1. /\ pc' = [pc EXCEPT ![t] = "loadC"] /\ pc[t] = "count"
        /\ outcome' = outcome /\ outcome[t] \in {"ok", "err"}
    BY <1>7 DEF CountOutcome
  <2>2. OutcomesKnown'
    BY <2>1
  <2>3. \A o : o # outcome[t] => UNCHANGED Counted(o)
    BY <2>1 DEF Counted
  <2>4. /\ t \notin Counted(outcome[t])
        /\ Counted(outcome[t])' = Counted(outcome[t]) \cup {t}
    BY <2>1 DEF Counted
  <2>5. CASE outcome[t] = "ok"
    <3>1. completed' = completed + 1 /\ failed' = failed
      BY <1>7, <2>5 DEF CountOutcome
    <3> QED
      BY <2>1, <2>2, <2>3, <2>4, <2>5, <3>1
  <2>6. CASE outcome[t] = "err"
    <3>1. completed' = completed /\ failed' = failed + 1
      BY <1>7, <2>6 DEF CountOutcome
    <3> QED
      BY <2>1, <2>2, <2>3, <2>4, <2>6, <3>1
  <2> QED
    BY <2>1, <2>5, <2>6
<1>8. CASE LoadCompleted(t) \/ LoadFailed(t) \/ SaveSummary(t)
  BY <1>1, <1>8 DEF LoadCompleted, LoadFailed, SaveSummary
<1> QED
  BY <1>2, <1>3, <1>4, <1>5, <1>6, <1>7, <1>8, <1>9, Trial(t) DEF Trial

CountsInv == OutcomesKnown /\ CountersExact

LEMMA CountsStep == DataOK /\ Stages /\ CountsInv /\ [Next]_vars => CountsInv'
<1> SUFFICES ASSUME DataOK, Stages, CountsInv, [Next]_vars PROVE CountsInv'
  OBVIOUS
<1> USE DEF CountsInv, CountersExact
<1>1. UNCHANGED <<pc, outcome, completed, failed>> => CountsInv'
  BY DEF Counted, OutcomesKnown
<1>2. CASE Starter
  BY <1>1, <1>2 DEF Starter, Register, SpawnRun, StoreHandle, countVars, trialVars
<1>3. CASE Runner
  <2>1. CASE SpawnTrials
    <3>1. \A o : Counted(o) = {} /\ Counted(o)' = {}
      BY <2>1 DEF SpawnTrials, Stages, Counted
    <3>2. OutcomesKnown'
      BY <2>1 DEF SpawnTrials, Stages, OutcomesKnown, notRunner
    <3> QED
      BY <2>1, <3>1, <3>2 DEF SpawnTrials, notRunner, countVars
  <2> QED
    BY <1>1, <1>3, <2>1 DEF Runner, MarkRunning, SetupFails, JoinAll, WriteFinalStatus,
       AnnounceFinished, RemoveEntry, AbortLands, notRunner, countVars
<1>4. ASSUME NEW t \in Trials, Trial(t) PROVE CountsInv'
  <2>1. Counted("ok") \in SUBSET Trials /\ Counted("err") \in SUBSET Trials
    BY DEF Counted
  <2> QED
    BY <1>4, <2>1, TrialSets, TrialCounts
<1>5. ASSUME NEW t \in Trials, NEW a \in Attempts, DetachedStop(t, a) PROVE CountsInv'
  BY <1>1, <1>5 DEF DetachedStop, countVars, trialVars
<1>6. ASSUME NEW c \in Requests, Cancel(c) PROVE CountsInv'
  BY <1>1, <1>6 DEF Cancel, CancelTakes, CancelRefused, WriteCancelled, notCancel, countVars,
     trialVars
<1>7. CASE Subscribe \/ EndStream
  BY <1>1, <1>7 DEF Subscribe, EndStream, countVars, trialVars
<1>8. CASE UNCHANGED vars
  BY <1>1, <1>8 DEF vars, countVars, trialVars
<1> QED
  BY <1>2, <1>3, <1>4, <1>5, <1>6, <1>7, <1>8 DEF Next

LEMMA CountsInit == Init => CountsInv
<1> SUFFICES ASSUME Init PROVE CountsInv
  OBVIOUS
<1>1. \A o : Counted(o) = {}
  BY DEF Init, Counted
<1> QED
  BY <1>1, FS_EmptySet DEF Init, CountsInv, CountersExact, OutcomesKnown

\* The two atomics count every trial that ended, once, on the side of its own
\* outcome, and no trial that panicked.
THEOREM CountersAreExact == Spec => []CountersExact
<1>1. Init => DataOK /\ Stages /\ CountsInv
  BY DataInit, CountsInit DEF Init, Stages, NothingRunsAfterFinish
<1>2. DataOK /\ Stages /\ CountsInv /\ [Next]_vars => (DataOK /\ Stages /\ CountsInv)'
  BY DataStep, StagesStep, CountsStep
<1>3. CountsInv => CountersExact
  BY DEF CountsInv
<1> QED
  BY <1>1, <1>2, <1>3, PTL DEF Spec

\* What a trial loaded, and what the job row shows, is at most what was counted.
SummaryInv ==
  /\ SummaryNeverOverstates
  /\ \A t \in Trials : snap[t].completed <= completed /\ snap[t].failed <= failed

LEMMA SummaryTrialStep ==
  ASSUME DataOK, SummaryInv, NEW t \in Trials, Trial(t)
  PROVE  SummaryInv'
<1> USE DEF SummaryInv, SummaryNeverOverstates, countVars, trialVars
<1>1. \A u \in Trials : snap[u] \in [completed : Nat, failed : Nat]
  BY DEF DataOK
<1>2. /\ completed \in Nat /\ failed \in Nat /\ job.completed \in Nat /\ job.failed \in Nat
      /\ snap \in [Trials -> [completed : Nat, failed : Nat]]
      /\ job \in [status : {"pending", "running", "succeeded", "failed", "cancelled"},
                  completed : Nat, failed : Nat]
  BY DEF DataOK
<1>3. CASE UNCHANGED <<completed, failed, snap, job>>
  BY <1>3
<1>4. CASE CountOutcome(t)
  <2>1. /\ completed' \in Nat /\ completed <= completed'
        /\ failed' \in Nat /\ failed <= failed'
        /\ snap' = snap /\ job' = job
    BY <1>4, <1>2 DEF CountOutcome
  <2> QED
    BY <2>1, <1>1, <1>2
<1>5. CASE LoadCompleted(t)
  BY <1>5, <1>1, <1>2 DEF LoadCompleted
<1>6. CASE LoadFailed(t)
  BY <1>6, <1>1, <1>2 DEF LoadFailed
<1>7. CASE SaveSummary(t)
  <2>1. UNCHANGED <<completed, failed, snap>>
    BY <1>7 DEF SaveSummary
  <2>2. \/ job' = job
        \/ job' = [job EXCEPT !.completed = snap[t].completed, !.failed = snap[t].failed]
    BY <1>7, Zenon DEF SaveSummary
  <2> QED
    BY <2>1, <2>2, <1>1, <1>2
<1> QED
  BY <1>3, <1>4, <1>5, <1>6, <1>7, Trial(t) DEF Trial, Acquire, BeginEnvSetup, BuildFails,
     ProviderCreates, StartReturns, BeginAgentRun, BeginVerifier, RecordRewards, MarkSucceeded,
     StopNow, RunFails, WriteFails, BackoffEnds, MarkFailed, Panic

LEMMA SummaryStep == DataOK /\ SummaryInv /\ [Next]_vars => SummaryInv'
<1> SUFFICES ASSUME DataOK, SummaryInv, [Next]_vars PROVE SummaryInv'
  OBVIOUS
<1> USE DEF SummaryInv, SummaryNeverOverstates
<1>1. UNCHANGED <<completed, failed, snap, job>> => SummaryInv'
  OBVIOUS
<1>2. CASE Starter
  BY <1>1, <1>2 DEF Starter, Register, SpawnRun, StoreHandle, countVars, trialVars
<1>3. CASE Runner
  <2>1. CASE SpawnTrials
    BY <2>1 DEF SpawnTrials, notRunner, countVars, DataOK
  <2>2. CASE MarkRunning \/ SetupFails \/ WriteFinalStatus
    <3>1. job'.completed = job.completed /\ job'.failed = job.failed
      BY <2>2 DEF MarkRunning, SetupFails, WriteFinalStatus, DataOK
    <3>2. UNCHANGED <<completed, failed, snap>>
      BY <2>2 DEF MarkRunning, SetupFails, WriteFinalStatus, notRunner, countVars
    <3> QED
      BY <3>1, <3>2
  <2> QED
    BY <1>1, <1>3, <2>1, <2>2 DEF Runner, JoinAll, AnnounceFinished, RemoveEntry,
       AbortLands, notRunner, countVars
<1>4. ASSUME NEW t \in Trials, Trial(t) PROVE SummaryInv'
  BY <1>4, SummaryTrialStep
<1>5. ASSUME NEW t \in Trials, NEW a \in Attempts, DetachedStop(t, a) PROVE SummaryInv'
  BY <1>1, <1>5 DEF DetachedStop, countVars, trialVars
<1>6. ASSUME NEW c \in Requests, Cancel(c) PROVE SummaryInv'
  <2>1. job'.completed = job.completed /\ job'.failed = job.failed
    BY <1>6 DEF Cancel, CancelTakes, CancelRefused, WriteCancelled, DataOK
  <2>2. UNCHANGED <<completed, failed, snap>>
    BY <1>6 DEF Cancel, CancelTakes, CancelRefused, WriteCancelled, notCancel, countVars, trialVars
  <2> QED
    BY <2>1, <2>2
<1>7. CASE Subscribe \/ EndStream
  BY <1>1, <1>7 DEF Subscribe, EndStream, countVars, trialVars
<1>8. CASE UNCHANGED vars
  BY <1>1, <1>8 DEF vars, countVars, trialVars
<1> QED
  BY <1>2, <1>3, <1>4, <1>5, <1>6, <1>7, <1>8 DEF Next

\* However the trials' summary writes are ordered, the job row never claims more
\* completed or failed trials than the counters hold.
THEOREM SummaryIsALowerBound == Spec => []SummaryNeverOverstates
<1>1. Init => DataOK /\ SummaryInv
  BY DataInit DEF Init, SummaryInv, SummaryNeverOverstates
<1>2. DataOK /\ SummaryInv /\ [Next]_vars => (DataOK /\ SummaryInv)'
  BY DataStep, SummaryStep
<1>3. SummaryInv => SummaryNeverOverstates
  BY DEF SummaryInv
<1> QED
  BY <1>1, <1>2, <1>3, PTL DEF Spec

\* The verdict of a job whose trials have all settled, in terms of their outcomes.
LEMMA VerdictOfOutcomes ==
  ASSUME DataOK, CountsInv, \A t \in Trials : Settled(t)
  PROVE  Verdict = IF (\E t \in Trials : outcome[t] = "err") /\ (\A t \in Trials : outcome[t] # "ok")
                   THEN "failed" ELSE "succeeded"
<1>1. \A o \in {"ok", "err"} : Counted(o) = {t \in Trials : outcome[t] = o}
  BY DEF CountsInv, OutcomesKnown, Counted, Settled, Finished
<1>2. failed = 0 <=> ~ \E t \in Trials : outcome[t] = "err"
  <2>1. IsFiniteSet(Counted("err"))
    BY JobAssumption, FS_Subset DEF JobAssumption, Counted
  <2> QED
    BY <1>1, <2>1, FS_EmptySet DEF CountsInv, CountersExact
<1>3. completed = 0 <=> \A t \in Trials : outcome[t] # "ok"
  <2>1. IsFiniteSet(Counted("ok"))
    BY JobAssumption, FS_Subset DEF JobAssumption, Counted
  <2> QED
    BY <1>1, <2>1, FS_EmptySet DEF CountsInv, CountersExact
<1> QED
  BY <1>2, <1>3 DEF Verdict, DataOK

VerdictInv == announced # "none" => announced = Verdict

LEMMA VerdictStep == DataOK /\ Stages /\ VerdictInv /\ [Next]_vars => VerdictInv'
<1> SUFFICES ASSUME DataOK, Stages, VerdictInv, [Next]_vars PROVE VerdictInv'
  OBVIOUS
<1> USE DEF VerdictInv, Verdict
<1>1. UNCHANGED <<announced, completed, failed>> => VerdictInv'
  OBVIOUS
<1>2. CASE Starter
  BY <1>1, <1>2 DEF Starter, Register, SpawnRun, StoreHandle, runVars, countVars
<1>3. CASE Runner
  BY <1>3 DEF Runner, MarkRunning, SpawnTrials, SetupFails, JoinAll, WriteFinalStatus,
     AnnounceFinished, RemoveEntry, AbortLands, notRunner, countVars
<1>4. ASSUME NEW t \in Trials, Trial(t) PROVE VerdictInv'
  BY <1>4, TrialMoves DEF Stages, NothingRunsAfterFinish, Settled, notTrial, runVars
<1>5. ASSUME NEW t \in Trials, NEW a \in Attempts, DetachedStop(t, a) PROVE VerdictInv'
  BY <1>1, <1>5 DEF DetachedStop, runVars, countVars
<1>6. ASSUME NEW c \in Requests, Cancel(c) PROVE VerdictInv'
  BY <1>1, <1>6 DEF Cancel, CancelTakes, CancelRefused, WriteCancelled, notCancel, countVars
<1>7. CASE Subscribe \/ EndStream
  BY <1>1, <1>7 DEF Subscribe, EndStream, runVars, countVars
<1>8. CASE UNCHANGED vars
  BY <1>1, <1>8 DEF vars, runVars, countVars
<1> QED
  BY <1>2, <1>3, <1>4, <1>5, <1>6, <1>7, <1>8 DEF Next

JobInv == DataOK /\ Stages /\ CountsInv /\ VerdictInv

LEMMA JobInvariant == Spec => []JobInv
<1>1. Init => JobInv
  BY DataInit, CountsInit DEF Init, JobInv, Stages, NothingRunsAfterFinish, VerdictInv
<1>2. JobInv /\ [Next]_vars => JobInv'
  BY DataStep, StagesStep, CountsStep, VerdictStep DEF JobInv
<1> QED
  BY <1>1, <1>2, PTL DEF Spec

\* The status JobFinished carries is failed exactly when some trial failed and
\* none succeeded (the final_status of run_job).
THEOREM VerdictIsTheTrials == Spec => []VerdictMatchesTrials
<1>1. JobInv => VerdictMatchesTrials
  BY VerdictOfOutcomes DEF JobInv, Stages, NothingRunsAfterFinish, VerdictInv, VerdictMatchesTrials
<1> QED
  BY <1>1, JobInvariant, PTL

------------------------------------------------------------------------------
(* The refinement of JobLifecycle.                                           *)

\* A trial's step leaves the results alone or settles that trial, which was open.
LEMMA TrialSettles ==
  ASSUME JobInv, NEW t \in Trials, Trial(t)
  PROVE  \/ TrialResult' = TrialResult
         \/ /\ TrialResult[t] = "open"
            /\ \E r \in {"ok", "err", "lost"} : TrialResult' = [TrialResult EXCEPT ![t] = r]
<1> USE DEF JobInv, DataOK, Places, Move, TrialResult, countVars, trialVars
<1>1. CASE SaveSummary(t)
  <2>1. outcome[t] \in {"ok", "err"}
    BY <1>1 DEF SaveSummary, CountsInv, OutcomesKnown
  <2> QED
    BY <1>1, <2>1 DEF SaveSummary
<1>2. CASE Panic(t)
  BY <1>2 DEF Panic
<1>3. ASSUME pc[t] \notin Finished, pc'[t] \notin Finished,
             \A u \in Trials \ {t} : pc'[u] = pc[u] /\ outcome'[u] = outcome[u]
      PROVE  TrialResult' = TrialResult
  BY <1>3 DEF Finished
<1>4. CASE Acquire(t) \/ BeginEnvSetup(t) \/ BuildFails(t) \/ BeginAgentRun(t) \/ BeginVerifier(t)
  BY <1>3, <1>4 DEF Acquire, BeginEnvSetup, BuildFails, BeginAgentRun, BeginVerifier, Finished
<1>5. CASE ProviderCreates(t) \/ StartReturns(t)
  BY <1>5 DEF ProviderCreates, StartReturns
<1>6. CASE RecordRewards(t) \/ MarkSucceeded(t) \/ BackoffEnds(t)
  BY <1>3, <1>6 DEF RecordRewards, MarkSucceeded, BackoffEnds, Finished
<1>7. CASE StopNow(t) \/ MarkFailed(t)
  BY <1>3, <1>7 DEF StopNow, MarkFailed, Finished
<1>8. CASE RunFails(t) \/ WriteFails(t)
  <2>1. /\ UNCHANGED outcome /\ pc[t] \in {"build"} \cup InRun
        /\ pc' = [pc EXCEPT ![t] = "backoff"] \/ pc' = [pc EXCEPT ![t] = "failing"]
    BY <1>8, FailingRun, Zenon
  <2> QED
    BY <1>3, <2>1 DEF InRun, Finished
<1>9. CASE CountOutcome(t) \/ LoadCompleted(t) \/ LoadFailed(t)
  BY <1>3, <1>9 DEF CountOutcome, LoadCompleted, LoadFailed, Finished
<1> QED
  BY <1>1, <1>2, <1>4, <1>5, <1>6, <1>7, <1>8, <1>9, Trial(t) DEF Trial

LEMMA LifecycleStep ==
  ASSUME JobInv, [Next]_vars
  PROVE  [Lifecycle!Next]_<<LifecyclePhase, TrialResult, announced>>
<1> DEFINE same == UNCHANGED <<LifecyclePhase, TrialResult, announced>>
<1>1. UNCHANGED <<runner, pc, outcome, announced>> => same
  BY DEF LifecyclePhase, TrialResult
<1>2. CASE Starter
  <2>1. CASE SpawnRun
    BY <2>1 DEF SpawnRun, JobInv, Stages, LifecyclePhase, TrialResult, trialVars
  <2> QED
    BY <1>1, <1>2, <2>1 DEF Starter, Register, StoreHandle, runVars, trialVars
<1>3. CASE Runner
  <2>1. UNCHANGED outcome
    BY <1>3 DEF Runner, MarkRunning, SpawnTrials, SetupFails, JoinAll, WriteFinalStatus,
       AnnounceFinished, RemoveEntry, AbortLands, notRunner
  <2>2. CASE MarkRunning \/ JoinAll \/ WriteFinalStatus \/ RemoveEntry
    BY <2>1, <2>2 DEF MarkRunning, JoinAll, WriteFinalStatus, RemoveEntry, LifecyclePhase,
       TrialResult
  <2>3. CASE SpawnTrials
    <3>1. LifecyclePhase = "pending" /\ LifecyclePhase' = "running" /\ announced' = announced
      BY <2>3 DEF SpawnTrials, LifecyclePhase
    <3>2. TrialResult' = TrialResult
      BY <2>1, <2>3 DEF SpawnTrials, JobInv, Stages, TrialResult
    <3> QED
      BY <3>1, <3>2 DEF Lifecycle!Next, Lifecycle!Start
  <2>4. CASE SetupFails \/ AbortLands
    <3>1. LifecyclePhase \in {"pending", "running"} /\ LifecyclePhase' = "abandoned"
      BY <2>4 DEF SetupFails, AbortLands, LifecyclePhase, JobInv, Stages
    <3>2. UNCHANGED <<TrialResult, announced>>
      BY <2>1, <2>4 DEF SetupFails, AbortLands, TrialResult
    <3> QED
      BY <3>1, <3>2 DEF Lifecycle!Next, Lifecycle!Abandon
  <2>5. CASE AnnounceFinished
    <3>1. \A t \in Trials : Settled(t)
      BY <2>5 DEF AnnounceFinished, JobInv, Stages
    <3>2. \A t \in Trials : /\ TrialResult[t] # "open"
                           /\ \A o \in {"ok", "err"} : TrialResult[t] = o <=> outcome[t] = o
      BY <3>1 DEF Settled, Finished, TrialResult, JobInv, DataOK, CountsInv, OutcomesKnown
    <3>3. announced' = IF /\ \E t \in Trials : TrialResult[t] = "err"
                          /\ \A t \in Trials : TrialResult[t] # "ok"
                       THEN "failed" ELSE "succeeded"
      BY <2>5, <3>1, <3>2, VerdictOfOutcomes DEF AnnounceFinished, JobInv
    <3>4. LifecyclePhase = "running" /\ LifecyclePhase' = "finished" /\ TrialResult' = TrialResult
      BY <2>1, <2>5, <3>3 DEF AnnounceFinished, LifecyclePhase, TrialResult
    <3> QED
      BY <3>2, <3>3, <3>4 DEF Lifecycle!Next, Lifecycle!Finish
  <2> QED
    BY <1>3, <2>2, <2>3, <2>4, <2>5 DEF Runner
<1>4. ASSUME NEW t \in Trials, Trial(t)
      PROVE  same \/ Lifecycle!Settle(t)
  <2>1. UNCHANGED <<runner, announced>> /\ pc[t] \notin {"unspawned"} \cup Finished
    BY <1>4, TrialMoves DEF JobInv, notTrial, runVars
  <2>2. LifecyclePhase' = LifecyclePhase /\ LifecyclePhase \in {"running", "abandoned"}
    BY <2>1 DEF LifecyclePhase, JobInv, DataOK, Stages, NothingRunsAfterFinish, Settled
  <2> QED
    BY <1>4, <2>1, <2>2, TrialSettles DEF Lifecycle!Settle
<1>5. ASSUME NEW t \in Trials, NEW a \in Attempts, DetachedStop(t, a) PROVE same
  BY <1>1, <1>5 DEF DetachedStop, runVars, trialVars
<1>6. ASSUME NEW c \in Requests, Cancel(c) PROVE same
  BY <1>1, <1>6 DEF Cancel, CancelTakes, CancelRefused, WriteCancelled, notCancel, trialVars
<1>7. CASE Subscribe \/ EndStream
  BY <1>1, <1>7 DEF Subscribe, EndStream, runVars, trialVars
<1>8. CASE UNCHANGED vars
  BY <1>1, <1>8 DEF vars, runVars, trialVars
<1> QED
  BY <1>2, <1>3, <1>4, <1>5, <1>6, <1>7, <1>8 DEF Next, Lifecycle!Next

\* run_job, its trial tasks and the cancel route implement the abstract job:
\* with every retry, panic, failing write and abort, the job starts once, each
\* trial settles once, and it finishes only when all have, with their verdict.
THEOREM JobImplementsLifecycle == Spec => ImplementsLifecycle
<1>1. Init => Lifecycle!Init
  BY DEF Init, Lifecycle!Init, LifecyclePhase, TrialResult
<1> QED
  BY <1>1, LifecycleStep, JobInvariant, PTL DEF Spec, ImplementsLifecycle, Lifecycle!Spec

------------------------------------------------------------------------------
(* Rows, rewards and cancellation.                                           *)

\* A terminal row and persisted rewards tell how far the trial's task has come: a
\* "succeeded" belongs to a trial past mark_terminal, or to one that was told the
\* write failed and is being given up.
RowInv ==
  \A t \in Trials :
    /\ row[t] = "succeeded" =>
         /\ rewarded[t]
         /\ pc[t] \in {"stopping", "failing", "count", "loadC", "loadF", "save", "done"}
    /\ pc[t] = "failing" => outcome[t] = "none"
    /\ pc[t] \in {"build", "backoff", "queued", "unspawned"} \cup InRun => outcome[t] = "none"
    /\ pc[t] = "rewarded" => rewarded[t]
    /\ row[t] = "failed" => pc[t] \in {"count", "loadC", "loadF", "save", "done"}
    /\ rewarded[t] => pc[t] \in {"rewarded", "stopping", "failing", "count", "loadC", "loadF",
                                 "save", "done", "panicked"}

\* What a step may do to terminal rows and to rewarded trials.
Kept ==
  \A t \in Trials :
    /\ row[t] \in {"succeeded", "failed"} /\ row'[t] # row[t] =>
         /\ row[t] = "succeeded" /\ row'[t] = "failed"
         /\ pc[t] = "failing" /\ outcome[t] = "none" /\ rewarded[t]
    /\ rewarded[t] => attempt'[t] = attempt[t]

LEMMA RowTrialStep ==
  ASSUME FlagsOK, DataOK, RowInv, NEW t \in Trials, Trial(t)
  PROVE  RowInv' /\ Kept
<1> USE DEF DataOK, RowInv, Kept, Places, Move, InRun, trialVars
<1>1. CASE Acquire(t) \/ BuildFails(t) \/ BackoffEnds(t)
  <2>1. CASE Acquire(t)
    BY <2>1 DEF Acquire
  <2>2. CASE BuildFails(t)
    BY <2>2 DEF BuildFails
  <2>3. CASE BackoffEnds(t)
    BY <2>3 DEF BackoffEnds
  <2> QED
    BY <1>1, <2>1, <2>2, <2>3
<1>2. CASE BeginEnvSetup(t) \/ BeginAgentRun(t) \/ BeginVerifier(t)
  <2> HIDE DEF DataOK, RowInv, Kept
  <2>1. PICK p \in InRun \ {"rewarded"}, s \in {"setup", "running", "verifying"} :
          pc' = [pc EXCEPT ![t] = p] /\ row' = [row EXCEPT ![t] = s]
    BY <1>2 DEF BeginEnvSetup, BeginAgentRun, BeginVerifier
  <2>2. /\ pc[t] \in {"build"} \cup InRun /\ pc[t] # "rewarded"
        /\ UNCHANGED <<attempt, outcome, rewarded>>
    BY <1>2 DEF BeginEnvSetup, BeginAgentRun, BeginVerifier
  <2>3. row[t] \notin {"succeeded", "failed"} /\ ~rewarded[t] /\ outcome[t] = "none"
    BY <2>2 DEF RowInv
  <2> QED
    BY <2>1, <2>2, <2>3 DEF DataOK, RowInv, Kept
<1>3. CASE ProviderCreates(t) \/ StartReturns(t)
  BY <1>3 DEF ProviderCreates, StartReturns
<1>4. CASE RecordRewards(t)
  BY <1>4 DEF RecordRewards, FlagsOK
<1>5. CASE MarkSucceeded(t)
  BY <1>5 DEF MarkSucceeded
<1>6. CASE StopNow(t)
  BY <1>6 DEF StopNow
<1>7. CASE RunFails(t) \/ WriteFails(t)
  <2> HIDE DEF DataOK, RowInv, Kept
  <2>1. pc[t] \in {"build"} \cup InRun /\ UNCHANGED outcome
    BY <1>7, FailingRun, Zenon
  <2>2. CASE /\ pc[t] \in {"starting", "agent", "verifying"}
             /\ attempt' = [attempt EXCEPT ![t] = attempt[t] + 1]
             /\ pc' = [pc EXCEPT ![t] = "backoff"]
             /\ UNCHANGED <<row, rewarded>>
    BY <2>1, <2>2 DEF DataOK, RowInv, Kept
  <2>3. CASE pc' = [pc EXCEPT ![t] = "failing"] /\ UNCHANGED attempt
    <3>1. row[t] \notin {"succeeded", "failed"}
      BY <2>1 DEF RowInv
    <3>2. /\ \A u \in Trials \ {t} : row'[u] = row[u] /\ rewarded'[u] = rewarded[u]
          /\ rewarded[t] => rewarded'[t]
          /\ row'[t] = "succeeded" => pc[t] = "rewarded"
          /\ row'[t] # "failed"
      <4>1. /\ row' = row \/ \E s \in NextStatus(t) : row' = [row EXCEPT ![t] = s]
            /\ rewarded' = rewarded \/ rewarded' = [rewarded EXCEPT ![t] = TRUE]
        BY <1>7, FailingRun, Zenon
      <4>2. rewarded \in [Trials -> BOOLEAN]
        BY DEF FlagsOK
      <4> QED
        BY <3>1, <4>1, <4>2 DEF NextStatus, DataOK
    <3> QED
      BY <2>1, <2>3, <3>1, <3>2 DEF DataOK, RowInv, Kept
  <2> QED
    BY <1>7, <2>2, <2>3, FailingRun, Zenon
<1>8. CASE MarkFailed(t)
  BY <1>8 DEF MarkFailed
<1>9. CASE CountOutcome(t) \/ LoadCompleted(t) \/ LoadFailed(t) \/ SaveSummary(t)
  <2>1. CASE CountOutcome(t)
    BY <2>1 DEF CountOutcome
  <2>2. CASE LoadCompleted(t)
    BY <2>2 DEF LoadCompleted
  <2>3. CASE LoadFailed(t)
    BY <2>3 DEF LoadFailed
  <2>4. CASE SaveSummary(t)
    BY <2>4 DEF SaveSummary
  <2> QED
    BY <1>9, <2>1, <2>2, <2>3, <2>4
<1>10. CASE Panic(t)
  BY <1>10 DEF Panic
<1> QED
  BY <1>1, <1>2, <1>3, <1>4, <1>5, <1>6, <1>7, <1>8, <1>9, <1>10, Trial(t) DEF Trial

LEMMA RowStep ==
  ASSUME FlagsOK, DataOK, Stages, RowInv, [Next]_vars
  PROVE  RowInv' /\ Kept
<1>1. UNCHANGED <<pc, outcome, row, rewarded, attempt>> => RowInv' /\ Kept
  BY DEF RowInv, Kept
<1>2. CASE Starter
  BY <1>1, <1>2 DEF Starter, Register, SpawnRun, StoreHandle, trialVars
<1>3. CASE Runner
  <2>1. CASE SpawnTrials
    BY <2>1 DEF SpawnTrials, Stages, RowInv, Kept, InRun, notRunner
  <2> QED
    BY <1>1, <1>3, <2>1 DEF Runner, MarkRunning, SetupFails, JoinAll, WriteFinalStatus,
       AnnounceFinished, RemoveEntry, AbortLands, notRunner
<1>4. ASSUME NEW t \in Trials, Trial(t) PROVE RowInv' /\ Kept
  BY <1>4, RowTrialStep
<1>5. ASSUME NEW t \in Trials, NEW a \in Attempts, DetachedStop(t, a) PROVE RowInv' /\ Kept
  BY <1>1, <1>5 DEF DetachedStop, trialVars
<1>6. ASSUME NEW c \in Requests, Cancel(c) PROVE RowInv' /\ Kept
  BY <1>1, <1>6 DEF Cancel, CancelTakes, CancelRefused, WriteCancelled, notCancel, trialVars
<1>7. CASE Subscribe \/ EndStream
  BY <1>1, <1>7 DEF Subscribe, EndStream, trialVars
<1>8. CASE UNCHANGED vars
  BY <1>1, <1>8 DEF vars, trialVars
<1> QED
  BY <1>2, <1>3, <1>4, <1>5, <1>6, <1>7, <1>8 DEF Next

LEMMA RowInvariant == Spec => [](TypeOK /\ Stages /\ RowInv)
<1>1. Init => TypeOK /\ Stages /\ RowInv
  BY DataInit DEF Init, TypeOK, FlagsOK, Stages, NothingRunsAfterFinish, RowInv
<1>2. TypeOK /\ Stages /\ RowInv /\ [Next]_vars => (TypeOK /\ Stages /\ RowInv)'
  BY FlagsStep, DataStep, StagesStep, RowStep DEF TypeOK
<1> QED
  BY <1>1, <1>2, PTL DEF Spec

\* A trial row that reached succeeded or failed is rewritten in one case only: the
\* task that was told its committed write of "succeeded" failed turns it into
\* failed, before the trial is counted (mark_terminal and mark_trial_failed).
THEOREM TerminalRowsStay == Spec => TerminalRowStable
<1>1. TypeOK /\ Stages /\ RowInv /\ [Next]_vars =>
        [\A t \in Trials :
           row[t] \in {"succeeded", "failed"} /\ row'[t] # row[t] =>
             /\ row[t] = "succeeded" /\ row'[t] = "failed"
             /\ pc[t] = "failing" /\ outcome[t] = "none" /\ rewarded[t]]_vars
  BY RowStep DEF TypeOK, Kept
<1> QED
  BY <1>1, RowInvariant, PTL DEF Spec, TerminalRowStable

\* A trial whose rewards were persisted is not run again.
THEOREM RewardedTrialsAreNotRerun == Spec => NoRerunAfterRewards
<1>1. TypeOK /\ Stages /\ RowInv /\ [Next]_vars =>
        [\A t \in Trials : rewarded[t] => attempt'[t] = attempt[t]]_vars
  BY RowStep DEF TypeOK, Kept
<1> QED
  BY <1>1, RowInvariant, PTL DEF Spec, NoRerunAfterRewards

\* Whoever took the handle is the only one: it is stored once, after the spawn.
CancelInv ==
  /\ AtMostOneAbort
  /\ handle => starter = "done"
  /\ handle \/ starter # "done" => \A c \in Requests : cancel[c] \in {"idle", "refused"}

LEMMA CancelStep == TypeOK /\ CancelInv /\ [Next]_vars => CancelInv'
<1> SUFFICES ASSUME TypeOK, CancelInv, [Next]_vars PROVE CancelInv'
  OBVIOUS
<1> USE DEF CancelInv, AtMostOneAbort
<1>1. UNCHANGED <<handle, starter, cancel>> => CancelInv'
  OBVIOUS
<1>2. CASE Starter
  BY <1>2 DEF Starter, Register, SpawnRun, StoreHandle
<1>3. CASE Runner
  BY <1>1, <1>3 DEF Runner, MarkRunning, SpawnTrials, SetupFails, JoinAll, WriteFinalStatus,
     AnnounceFinished, RemoveEntry, AbortLands, notRunner
<1>4. ASSUME NEW t \in Trials, Trial(t) PROVE CancelInv'
  BY <1>1, <1>4, TrialMoves DEF TypeOK, notTrial, serviceVars
<1>5. ASSUME NEW t \in Trials, NEW a \in Attempts, DetachedStop(t, a) PROVE CancelInv'
  BY <1>1, <1>5 DEF DetachedStop, serviceVars
<1>6. ASSUME NEW c \in Requests, Cancel(c) PROVE CancelInv'
  <2> USE DEF TypeOK, DataOK, notCancel
  <2>1. CASE CancelTakes(c)
    BY <2>1 DEF CancelTakes
  <2>2. CASE CancelRefused(c)
    BY <2>2 DEF CancelRefused
  <2>3. CASE WriteCancelled(c)
    BY <2>3 DEF WriteCancelled
  <2> QED
    BY <1>6, <2>1, <2>2, <2>3 DEF Cancel
<1>7. CASE Subscribe \/ EndStream
  BY <1>1, <1>7 DEF Subscribe, EndStream, serviceVars
<1>8. CASE UNCHANGED vars
  BY <1>1, <1>8 DEF vars, serviceVars
<1> QED
  BY <1>2, <1>3, <1>4, <1>5, <1>6, <1>7, <1>8 DEF Next

\* Of any number of concurrent cancel requests at most one is told that it
\* aborted the job (the take() of run_handle under its mutex).
THEOREM OneAbort == Spec => []AtMostOneAbort
<1>1. Init => CancelInv
  BY DEF Init, CancelInv, AtMostOneAbort
<1>2. CancelInv => AtMostOneAbort
  BY DEF CancelInv
<1> QED
  BY <1>1, <1>2, CancelStep, TypeCorrect, PTL DEF Spec

------------------------------------------------------------------------------
(* The sandboxes.                                                            *)

LEMMA SandboxTrialStep ==
  ASSUME DataOK, SandboxOwned, NEW t \in Trials, Trial(t)
  PROVE  SandboxOwned'
<1> USE DEF DataOK, SandboxOwned, Places, InRun, Move, trialVars
<1>1. CASE Acquire(t) \/ BuildFails(t) \/ BackoffEnds(t)
  <2>1. CASE Acquire(t)
    BY <2>1 DEF Acquire
  <2>2. CASE BuildFails(t)
    BY <2>2 DEF BuildFails
  <2>3. CASE BackoffEnds(t)
    BY <2>3 DEF BackoffEnds
  <2> QED
    BY <1>1, <2>1, <2>2, <2>3
<1>2. CASE BeginEnvSetup(t) \/ BeginAgentRun(t) \/ BeginVerifier(t)
  <2>1. CASE BeginEnvSetup(t)
    BY <2>1 DEF BeginEnvSetup
  <2>2. CASE BeginAgentRun(t)
    BY <2>2 DEF BeginAgentRun
  <2>3. CASE BeginVerifier(t)
    BY <2>3 DEF BeginVerifier
  <2> QED
    BY <1>2, <2>1, <2>2, <2>3
<1>3. CASE ProviderCreates(t)
  BY <1>3 DEF ProviderCreates
<1>4. CASE StartReturns(t)
  BY <1>4 DEF StartReturns
<1>5. CASE RecordRewards(t) \/ MarkSucceeded(t)
  <2>1. CASE RecordRewards(t)
    BY <2>1 DEF RecordRewards
  <2>2. CASE MarkSucceeded(t)
    BY <2>2 DEF MarkSucceeded
  <2> QED
    BY <1>5, <2>1, <2>2
<1>6. CASE StopNow(t)
  BY <1>6 DEF StopNow
<1>7. CASE RunFails(t) \/ WriteFails(t)
  <2>1. /\ sandbox' = [sandbox EXCEPT ![t][attempt[t]] = Dropped(sandbox[t][attempt[t]])]
        /\ Dropped(sandbox[t][attempt[t]]) \notin {"created", "up"}
    BY <1>7, FailingRun DEF Dropped
  <2>2. pc' = [pc EXCEPT ![t] = "backoff"] \/ pc' = [pc EXCEPT ![t] = "failing"]
    BY <1>7, FailingRun, Zenon
  <2>3. \A u \in Trials \ {t} : attempt'[u] = attempt[u]
    <3>1. attempt' = [attempt EXCEPT ![t] = attempt[t] + 1] \/ attempt' = attempt
      BY <1>7, FailingRun, Zenon
    <3> QED
      BY <3>1
  <2>4. \A a \in Attempts : sandbox'[t][a] \notin {"created", "up"}
    BY <2>1
  <2> QED
    BY <2>1, <2>2, <2>3, <2>4
<1>8. CASE MarkFailed(t)
  BY <1>8 DEF MarkFailed
<1>9. CASE CountOutcome(t) \/ LoadCompleted(t) \/ LoadFailed(t) \/ SaveSummary(t)
  <2>1. CASE CountOutcome(t)
    BY <2>1 DEF CountOutcome
  <2>2. CASE LoadCompleted(t)
    BY <2>2 DEF LoadCompleted
  <2>3. CASE LoadFailed(t)
    BY <2>3 DEF LoadFailed
  <2>4. CASE SaveSummary(t)
    BY <2>4 DEF SaveSummary
  <2> QED
    BY <1>9, <2>1, <2>2, <2>3, <2>4
<1>10. CASE Panic(t)
  <2>1. /\ sandbox' = [sandbox EXCEPT ![t][attempt[t]] = Dropped(sandbox[t][attempt[t]])]
        /\ Dropped(sandbox[t][attempt[t]]) \notin {"created", "up"}
    BY <1>10 DEF Panic, Dropped
  <2> QED
    BY <1>10, <2>1 DEF Panic
<1> QED
  BY <1>1, <1>2, <1>3, <1>4, <1>5, <1>6, <1>7, <1>8, <1>9, <1>10, Trial(t) DEF Trial

LEMMA SandboxStep == DataOK /\ Stages /\ SandboxOwned /\ [Next]_vars => SandboxOwned'
<1> SUFFICES ASSUME DataOK, Stages, SandboxOwned, [Next]_vars PROVE SandboxOwned'
  OBVIOUS
<1>1. UNCHANGED <<pc, attempt, sandbox>> => SandboxOwned'
  BY DEF SandboxOwned
<1>2. CASE Starter
  BY <1>1, <1>2 DEF Starter, Register, SpawnRun, StoreHandle, trialVars
<1>3. CASE Runner
  <2>1. CASE SpawnTrials
    BY <2>1 DEF SpawnTrials, Stages, SandboxOwned, InRun, notRunner
  <2> QED
    BY <1>1, <1>3, <2>1 DEF Runner, MarkRunning, SetupFails, JoinAll, WriteFinalStatus,
       AnnounceFinished, RemoveEntry, AbortLands, notRunner
<1>4. ASSUME NEW t \in Trials, Trial(t) PROVE SandboxOwned'
  BY <1>4, SandboxTrialStep
<1>5. ASSUME NEW t \in Trials, NEW a \in Attempts, DetachedStop(t, a) PROVE SandboxOwned'
  <2>1. PICK s \in {"gone", "orphan"} : sandbox' = [sandbox EXCEPT ![t][a] = s]
    BY <1>5 DEF DetachedStop
  <2>2. sandbox[t][a] = "dropping" /\ UNCHANGED <<pc, attempt>>
    BY <1>5 DEF DetachedStop, trialVars
  <2> QED
    BY <2>1, <2>2 DEF SandboxOwned, DataOK, InRun
<1>6. ASSUME NEW c \in Requests, Cancel(c) PROVE SandboxOwned'
  BY <1>1, <1>6 DEF Cancel, CancelTakes, CancelRefused, WriteCancelled, notCancel, trialVars
<1>7. CASE Subscribe \/ EndStream
  BY <1>1, <1>7 DEF Subscribe, EndStream, trialVars
<1>8. CASE UNCHANGED vars
  BY <1>1, <1>8 DEF vars, trialVars
<1> QED
  BY <1>2, <1>3, <1>4, <1>5, <1>6, <1>7, <1>8 DEF Next

\* A sandbox whose id a guard holds belongs to the current attempt of a trial at
\* work: a retry, a failure or a panic never leaves one in a guard nobody drops.
THEOREM SandboxesAreOwned == Spec => []SandboxOwned
<1>1. Init => DataOK /\ Stages /\ SandboxOwned
  BY DataInit DEF Init, Stages, NothingRunsAfterFinish, SandboxOwned, InRun
<1>2. DataOK /\ Stages /\ SandboxOwned /\ [Next]_vars => (DataOK /\ Stages /\ SandboxOwned)'
  BY DataStep, StagesStep, SandboxStep
<1> QED
  BY <1>1, <1>2, PTL DEF Spec
=============================================================================
