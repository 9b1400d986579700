------------------------------ MODULE LoadTests ------------------------------
(***************************************************************************)
(* Load tests of one environment (apps/env-manager): POST creates a row    *)
(* and launches a run at k6 Cloud, GET refreshes each row from its run,    *)
(* abort stops the run and marks the row, and the destruction of the       *)
(* environment deletes the rows by cascade.  Each action is one awaited    *)
(* call and the code up to the next; nothing locks a row between a read    *)
(* and the write that follows it.                                          *)
(*                                                                         *)
(* k6 is external: a run moves on by itself, a call to k6 may fail, and a  *)
(* launch that fails may have started the run.  A write to the database    *)
(* may fail too, and the error does not tell whether it was committed.  A  *)
(* restart of the server forgets every request it was working on.          *)
(***************************************************************************)
EXTENDS Naturals

CONSTANTS
  Tests,     \* POST requests that may arrive, each with the row it creates
  Faulty,    \* those whose writes to the database may fail
  Aborts,    \* abort requests that may arrive
  Refreshes  \* rows that GET requests may be refreshing at a time

VARIABLES
  env,       \* the environment's row: "RUNNING" or "gone"
  row,       \* StressTest.status; "none" before the row is created, "gone" after
  known,     \* StressTest.k6TestRunId is set
  post,      \* where each POST is
  abort,     \* each abort: its step and test
  refresh,   \* each refresh: its step, test, the status read, the run status
  run,       \* at k6: the status of each test's run, "none" without one
  excused,   \* history: tests whose run may be left behind, by a failed call, by a restart
             \* before its id was stored, or by an abort that did not know the id
  slipped    \* history: two POSTs checked before either created, or an ended row revived

vars == <<env, row, known, post, abort, refresh, run, excused, slipped>>

\* "created" stands for k6's "queued" too, and "running" for its "processing_metrics": the
\* code maps both of each to the same.
RunStatuses == {"created", "initializing", "running", "completed", "aborted"}
RunEnded(s) == s \in {"completed", "aborted"}

Active == {"queued", "initializing", "running"}
Terminal == {"finished", "aborted", "error"}

\* Mutant of LocalStatus: every run that has ended counts as finished.
LocalStatusEnded(s) ==
  CASE s = "created" -> "queued"
    [] s = "initializing" -> "initializing"
    [] s = "running" -> "running"
    [] RunEnded(s) -> "finished"

\* K6_STATUS_TO_LOCAL
LocalStatus(s) ==
  CASE s = "created" -> "queued"
    [] s = "initializing" -> "initializing"
    [] s = "running" -> "running"
    [] s = "completed" -> "finished"
    [] s = "aborted" -> "aborted"

Nobody == "none"

\* Mutant of NoneActive: a test that k6 has accepted and not started is overlooked.
NoneActiveButStarting == \A u \in Tests : row[u] \notin {"queued", "running"}

NoneActive == \A u \in Tests : row[u] \notin Active

Init ==
  /\ env = "RUNNING"
  /\ row = [t \in Tests |-> "none"]
  /\ known = [t \in Tests |-> FALSE]
  /\ post = [t \in Tests |-> "idle"]
  /\ abort = [a \in Aborts |-> [step |-> "idle", test |-> Nobody]]
  /\ refresh = [g \in Refreshes |-> [step |-> "idle", test |-> Nobody, seen |-> "none",
                                     run |-> "none"]]
  /\ run = [t \in Tests |-> "none"]
  /\ excused = {}
  /\ slipped = FALSE

\* prisma.stressTest.update; it rejects for a row that is gone.
Update(t, s) ==
  /\ IF row[t] = "gone" THEN UNCHANGED row ELSE row' = [row EXCEPT ![t] = s]
  /\ slipped' = (slipped \/ (row[t] \in Terminal /\ s \in Active))

PGo(t, s) == post' = [post EXCEPT ![t] = s]
clients == <<abort, refresh>>

\* The environment runs and no test of it is active.
PostChecks(t) ==
  /\ post[t] = "idle"
  /\ env = "RUNNING"
  /\ NoneActive
  /\ PGo(t, "create")
  /\ slipped' = (slipped \/ \E u \in Tests : post[u] = "create")
  /\ UNCHANGED <<env, row, known, clients, run, excused>>

\* A create that rejects ends the POST; for an environment that is gone it does.
PostCreates(t) ==
  /\ post[t] = "create"
  /\ \/ env = "RUNNING" /\ PGo(t, "launch") /\ row' = [row EXCEPT ![t] = "queued"]
     \/ /\ env = "gone" \/ t \in Faulty
        /\ PGo(t, "end")
        /\ UNCHANGED row \/ (env = "RUNNING" /\ row' = [row EXCEPT ![t] = "queued"])
  /\ UNCHANGED <<env, known, clients, run, excused, slipped>>

LaunchSucceeds(t) ==
  /\ post[t] = "launch"
  /\ run' = [run EXCEPT ![t] = "created"]
  /\ PGo(t, "record")
  /\ UNCHANGED <<env, row, known, clients, excused, slipped>>

LaunchFails(t) ==
  /\ post[t] = "launch"
  /\ \/ UNCHANGED <<run, excused>>
     \/ run' = [run EXCEPT ![t] = "created"] /\ excused' = excused \cup {t}
  /\ PGo(t, "error")
  /\ UNCHANGED <<env, row, known, clients, slipped>>

\* Mutant of PostRecords: the status is written without the id.
PostRecordsStatus(t) ==
  /\ post[t] = "record"
  /\ row[t] # "gone"
  /\ Update(t, "initializing")
  /\ PGo(t, "end")
  /\ UNCHANGED <<env, known, clients, run, excused>>

\* The id and "initializing" are written in one update, whatever the row says by now.
PostRecords(t) ==
  /\ post[t] = "record"
  /\ row[t] # "gone"
  /\ Update(t, "initializing")
  /\ known' = [known EXCEPT ![t] = TRUE]
  /\ PGo(t, "end")
  /\ UNCHANGED <<env, clients, run, excused>>

\* The run was launched and the update rejects, whether it was made or not: the catch clause
\* takes it for a failed launch.
PostRecordFails(t) ==
  /\ post[t] = "record"
  /\ row[t] = "gone" \/ t \in Faulty
  /\ \/ /\ row[t] # "gone"
        /\ Update(t, "initializing")
        /\ known' = [known EXCEPT ![t] = TRUE]
        /\ UNCHANGED excused
     \/ UNCHANGED <<row, known, slipped>> /\ excused' = excused \cup {t}
  /\ PGo(t, "error")
  /\ UNCHANGED <<env, clients, run>>

\* The update in the catch clause; nothing catches its own failure.
PostRecordsError(t) ==
  /\ post[t] = "error"
  /\ \/ Update(t, "error") /\ excused' = IF known[t] THEN excused \cup {t} ELSE excused
     \/ t \in Faulty /\ UNCHANGED <<row, excused, slipped>>
  /\ PGo(t, "end")
  /\ UNCHANGED <<env, known, clients, run>>

------------------------------------------------------------------------------
AbortReads(a, t) ==
  /\ abort[a].step = "idle"
  /\ row[t] \in Active
  /\ abort' = [abort EXCEPT ![a] = [step |-> IF known[t] THEN "stop" ELSE "mark", test |-> t]]
  /\ excused' = excused \cup (IF known[t] THEN {} ELSE {t})
  /\ UNCHANGED <<env, row, known, post, refresh, run, slipped>>

\* An error of k6 is swallowed.
AbortStops(a) ==
  /\ abort[a].step = "stop"
  /\ LET t == abort[a].test
     IN  \/ run' = [run EXCEPT ![t] = IF RunEnded(@) THEN @ ELSE "aborted"] /\ UNCHANGED excused
         \/ UNCHANGED run /\ excused' = excused \cup {t}
  /\ abort' = [abort EXCEPT ![a].step = "mark"]
  /\ UNCHANGED <<env, row, known, post, refresh, slipped>>

\* An update that rejects ends the request, too.
AbortMarks(a) ==
  /\ abort[a].step = "mark"
  /\ Update(abort[a].test, "aborted") \/ UNCHANGED <<row, slipped>>
  /\ abort' = [abort EXCEPT ![a].step = "end"]
  /\ UNCHANGED <<env, known, post, refresh, run, excused>>

------------------------------------------------------------------------------
Idle == [step |-> "idle", test |-> Nobody, seen |-> "none", run |-> "none"]

\* Mutant of IsRefreshed: a row is refreshed only while it says that it is running.
IsRefreshedOnlyRunning(t) == known[t] /\ row[t] = "running"

IsRefreshed(t) == known[t] /\ row[t] \in Active

RefreshReads(g, t) ==
  /\ refresh[g].step = "idle"
  /\ IsRefreshed(t)
  /\ refresh' = [refresh EXCEPT ![g] = [step |-> "query", test |-> t, seen |-> row[t],
                                        run |-> "none"]]
  /\ UNCHANGED <<env, row, known, post, abort, run, excused, slipped>>

\* Nothing is written for a status that is the one read, unless the run has ended.
RefreshQueries(g) ==
  /\ refresh[g].step = "query"
  /\ LET r == run[refresh[g].test]
     IN  refresh' = [refresh EXCEPT ![g] =
           IF LocalStatus(r) # refresh[g].seen \/ RunEnded(r)
           THEN [@ EXCEPT !.step = "write", !.run = r] ELSE Idle]
  /\ UNCHANGED <<env, row, known, post, abort, run, excused, slipped>>

\* The query, or the update, rejects, and the error is swallowed.  A rejected update that was
\* made all the same is RefreshWrites.
RefreshFails(g) ==
  /\ refresh[g].step \in {"query", "write"}
  /\ refresh' = [refresh EXCEPT ![g] = Idle]
  /\ UNCHANGED <<env, row, known, post, abort, run, excused, slipped>>

RefreshWrites(g) ==
  /\ refresh[g].step = "write"
  /\ Update(refresh[g].test, LocalStatus(refresh[g].run))
  /\ refresh' = [refresh EXCEPT ![g] = Idle]
  /\ UNCHANGED <<env, known, post, abort, run, excused>>

------------------------------------------------------------------------------
\* The server restarts: every request under way ends where it is.
Restart ==
  /\ post' = [t \in Tests |-> IF post[t] = "idle" THEN "idle" ELSE "end"]
  /\ abort' = [a \in Aborts |-> IF abort[a].step = "idle" THEN abort[a]
                                ELSE [abort[a] EXCEPT !.step = "end"]]
  /\ refresh' = [g \in Refreshes |-> Idle]
  /\ excused' = excused \cup {t \in Tests : post[t] = "record"}
  /\ UNCHANGED <<env, row, known, run, slipped>>

\* destroyEnvironment deletes the environment's row, and its tests by cascade.
EnvironmentDestroyed ==
  /\ env = "RUNNING"
  /\ env' = "gone"
  /\ row' = [t \in Tests |-> IF row[t] = "none" THEN "none" ELSE "gone"]
  /\ UNCHANGED <<known, post, clients, run, excused, slipped>>

RunNext == [created |-> {"initializing"}, initializing |-> {"running"},
            running |-> {"completed"}]

\* A run also ends as aborted when k6 gives it up.
RunMoves(t) ==
  /\ run[t] \in DOMAIN RunNext
  /\ \E s \in RunNext[run[t]] \cup {"aborted"} : run' = [run EXCEPT ![t] = s]
  /\ UNCHANGED <<env, row, known, post, clients, excused, slipped>>

Refresh(g) ==
  (\E t \in Tests : RefreshReads(g, t)) \/ RefreshQueries(g) \/ RefreshFails(g) \/ RefreshWrites(g)

Next ==
  \/ \E t \in Tests :
       \/ PostChecks(t) \/ PostCreates(t) \/ LaunchSucceeds(t) \/ LaunchFails(t)
       \/ PostRecords(t) \/ PostRecordFails(t) \/ PostRecordsError(t) \/ RunMoves(t)
  \/ \E a \in Aborts : (\E t \in Tests : AbortReads(a, t)) \/ AbortStops(a) \/ AbortMarks(a)
  \/ \E g \in Refreshes : Refresh(g)
  \/ Restart
  \/ EnvironmentDestroyed

\* Requests that were received are worked off, somebody keeps asking for the tests, and k6
\* and the database answer again and again about each.
Fairness ==
  /\ \A t \in Tests : WF_vars(PostRecords(t) \/ PostRecordFails(t) \/ PostRecordsError(t))
  /\ \A a \in Aborts : WF_vars(AbortStops(a) \/ AbortMarks(a))
  /\ \A g \in Refreshes :
       /\ WF_vars(RefreshQueries(g) \/ RefreshFails(g) \/ RefreshWrites(g))
       /\ \A t \in Tests :
            /\ SF_vars(RefreshReads(g, t))
            /\ SF_vars(refresh[g].test = t /\ RefreshQueries(g))
            /\ SF_vars(refresh[g].test = t /\ RefreshWrites(g))

Spec == Init /\ [][Next]_vars /\ Fairness

------------------------------------------------------------------------------
(* Properties. *)

\* Every variable has the type the code gives it.
TypeOK ==
  /\ env \in {"RUNNING", "gone"}
  /\ row \in [Tests -> {"none", "gone"} \cup Active \cup Terminal]
  /\ known \in [Tests -> BOOLEAN]
  /\ post \in [Tests -> {"idle", "create", "launch", "record", "error", "end"}]
  /\ abort \in [Aborts -> [step : {"idle", "stop", "mark", "end"}, test : Tests \cup {Nobody}]]
  /\ refresh \in [Refreshes -> [step : {"idle", "query", "write"}, test : Tests \cup {Nobody},
                                seen : {"none"} \cup Active, run : {"none"} \cup RunStatuses]]
  /\ run \in [Tests -> {"none"} \cup RunStatuses]
  /\ excused \subseteq Tests
  /\ slipped \in BOOLEAN

\* However stale the answers that refreshes write, a row says "finished" only of a run that
\* completed.
FinishedMeansCompleted ==
  \A t \in Tests : row[t] = "finished" => run[t] = "completed"

\* Two tests of an environment are active at a time only if their POSTs both looked before
\* either had created its row, or if a late write made an ended row active again.
OneActiveTest ==
  slipped \/ \A t, u \in Tests : row[t] \in Active /\ row[u] \in Active => t = u

\* A run that is still going is followed: its row is active and knows its id, or the POST is
\* about to write it.  The exceptions: a call to k6 about it, or the POST's recording of its
\* id, failed or was cut off by a restart; an abort came before the id was known; or the
\* environment is gone.
GoingRunsAreFollowed ==
  \A t \in Tests :
    run[t] # "none" /\ ~RunEnded(run[t]) =>
      \/ known[t] /\ row[t] \in Active
      \/ post[t] = "record"
      \/ t \in excused
      \/ row[t] = "gone"

\* A test as TestLifecycle describes it.
Asked(t) == \E a \in Aborts : abort[a].step # "idle" /\ abort[a].test = t

Launch(t) == CASE post[t] = "error" -> "failed" [] post[t] = "end" -> "over" [] OTHER -> "open"

Lifecycle(t) == INSTANCE TestLifecycle WITH
  row    <- row[t],
  run    <- run[t],
  known  <- known[t],
  launch <- Launch(t),
  asked  <- Asked(t)

\* \A t \in Tests : Lifecycle(t)!Spec, with one action for all: whichever POSTs, aborts and
\* refreshes overlap, and however old the answers they write, every test goes through a
\* TestLifecycle.
ImplementsLifecycle ==
  /\ \A t \in Tests : Lifecycle(t)!Init
  /\ [][\A t \in Tests : Lifecycle(t)!Step]_vars

\* Sooner or later the row of every recorded test whose run has ended says so, and for good,
\* although an older answer, or the POST itself, may make an ended row active again in between.
EndIsNoticed ==
  <>[](\A t \in Tests : known[t] /\ RunEnded(run[t]) => row[t] \in Terminal \cup {"gone"})
=============================================================================
