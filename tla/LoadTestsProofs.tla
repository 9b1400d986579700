--------------------------- MODULE LoadTestsProofs ---------------------------
(***************************************************************************)
(* Safety of LoadTests for any number of POSTs, aborts and refreshes that  *)
(* overlap.                                                                *)
(***************************************************************************)
EXTENDS LoadTests, TLAPS

------------------------------------------------------------------------------
(* The inductive invariant. *)

\* What is known of a test at each step of its POST.
TestInv(t) ==
  /\ post[t] \in {"idle", "create"} => row[t] = "none"
  /\ post[t] \in {"idle", "create", "launch"} => run[t] = "none"
  /\ post[t] \notin {"error", "end"} => ~known[t]
  /\ post[t] \in {"launch", "record", "error"} => row[t] # "none"
  /\ post[t] = "record" => run[t] # "none"
  /\ post[t] = "error" => run[t] = "none" \/ t \in excused \/ known[t]
  /\ known[t] => row[t] # "none" /\ run[t] # "none"

\* An abort marks a row only of a run that has ended, or is excused.
AbortInv(a) ==
  LET t == abort[a].test
  IN  /\ abort[a].step \in {"stop", "mark"} => t \in Tests /\ row[t] # "none"
      /\ abort[a].step = "stop" => run[t] # "none"
      /\ abort[a].step = "mark" => RunEnded(run[t]) \/ t \in excused

\* However old the answer a refresh holds: if it says that the run has ended, it has.
RefreshInv(g) ==
  LET t == refresh[g].test
  IN  /\ refresh[g].step # "idle" => t \in Tests /\ known[t]
      /\ refresh[g].step = "write" =>
           /\ refresh[g].run \in RunStatuses
           /\ RunEnded(refresh[g].run) => run[t] = refresh[g].run

\* Who has checked and not created yet found no test active, and is alone.
CheckInv ==
  slipped \/ \A t \in Tests : post[t] = "create" =>
               NoneActive /\ \A u \in Tests : post[u] = "create" => u = t

------------------------------------------------------------------------------
(* Lemmas about the operators. *)

LEMMA LocalStatusType ==
  ASSUME NEW r \in RunStatuses
  PROVE  /\ LocalStatus(r) \in Active \cup Terminal
         /\ LocalStatus(r) \in Terminal => RunEnded(r)
         /\ LocalStatus(r) = "finished" => r = "completed"
BY DEF LocalStatus, RunStatuses, Active, Terminal, RunEnded

LEMMA UpdateEffect ==
  ASSUME TypeOK, NEW t \in Tests, NEW s \in Active \cup Terminal, Update(t, s)
  PROVE  /\ row' \in [Tests -> {"none", "gone"} \cup Active \cup Terminal]
         /\ slipped' \in BOOLEAN
         /\ \A u \in Tests : row'[u] = IF u = t /\ row[t] # "gone" THEN s ELSE row[u]
         /\ slipped => slipped'
         /\ row[t] \in Terminal /\ s \in Active => slipped'
<1>1. slipped' = (slipped \/ (row[t] \in Terminal /\ s \in Active))
  BY DEF Update
<1>2. row \in [Tests -> {"none", "gone"} \cup Active \cup Terminal] /\ slipped \in BOOLEAN
  BY DEF TypeOK
<1>3. slipped' \in BOOLEAN
  BY <1>1, <1>2
<1>4. CASE row[t] = "gone"
  BY <1>1, <1>2, <1>3, <1>4 DEF Update
<1>5. CASE row[t] # "gone"
  <2>1. row' = [row EXCEPT ![t] = s]
    BY <1>5 DEF Update
  <2> QED
    BY <1>1, <1>2, <1>3, <1>5, <2>1
<1> QED
  BY <1>4, <1>5

LEMMA Statuses ==
  /\ {"none", "gone"} \cap (Active \cup Terminal) = {}
  /\ Active \cap Terminal = {}
  /\ "aborted" \in Terminal /\ "error" \in Terminal /\ "finished" \in Terminal
  /\ "queued" \in Active /\ "initializing" \in Active
  /\ "none" \notin RunStatuses /\ ~RunEnded("none") /\ ~RunEnded("created")
  /\ \A r \in RunStatuses : RunEnded(r) <=> r \notin DOMAIN RunNext
  /\ \A r \in DOMAIN RunNext : RunNext[r] \subseteq RunStatuses
  /\ "created" \in RunStatuses /\ "aborted" \in RunStatuses /\ RunEnded("aborted")
  /\ DOMAIN RunNext \subseteq RunStatuses
BY DEF Active, Terminal, RunStatuses, RunEnded, RunNext

------------------------------------------------------------------------------
(* Types. *)

LEMMA TypeInit == Init => TypeOK
<1> SUFFICES ASSUME Init PROVE TypeOK
  OBVIOUS
<1>1. /\ env \in {"RUNNING", "gone"} /\ slipped \in BOOLEAN /\ excused \subseteq Tests
      /\ known \in [Tests -> BOOLEAN]
      /\ post \in [Tests -> {"idle", "create", "launch", "record", "error", "end"}]
  BY DEF Init
<1>2. /\ row \in [Tests -> {"none", "gone"} \cup Active \cup Terminal]
      /\ run \in [Tests -> {"none"} \cup RunStatuses]
  BY DEF Init
<1>3. abort \in [Aborts -> [step : {"idle", "stop", "mark", "end"}, test : Tests \cup {Nobody}]]
  BY DEF Init
<1>4. refresh \in [Refreshes -> [step : {"idle", "query", "write"}, test : Tests \cup {Nobody},
                                seen : {"none"} \cup Active, run : {"none"} \cup RunStatuses]]
  BY DEF Init, Nobody
<1> QED
  BY <1>1, <1>2, <1>3, <1>4 DEF TypeOK

LEMMA TypeStep == TypeOK /\ (\A a \in Aborts : AbortInv(a)) /\ (\A g \in Refreshes : RefreshInv(g))
                  /\ (\A t \in Tests : TestInv(t)) /\ [Next]_vars => TypeOK'
<1> SUFFICES ASSUME TypeOK, \A a \in Aborts : AbortInv(a), \A g \in Refreshes : RefreshInv(g),
                    \A t \in Tests : TestInv(t), [Next]_vars
             PROVE  TypeOK'
  OBVIOUS
<1> USE Statuses
<1>1. ASSUME NEW t \in Tests, PostChecks(t) PROVE TypeOK'
  <2>1. slipped' \in BOOLEAN
    BY <1>1 DEF PostChecks, TypeOK
  <2>2. post' \in [Tests -> {"idle", "create", "launch", "record", "error", "end"}]
    BY <1>1 DEF PostChecks, PGo, TypeOK
  <2> QED
    BY <1>1, <2>1, <2>2 DEF PostChecks, clients, TypeOK
<1>2. ASSUME NEW t \in Tests, PostCreates(t) PROVE TypeOK'
  <2>1. post' \in [Tests -> {"idle", "create", "launch", "record", "error", "end"}]
    BY <1>2 DEF PostCreates, PGo, TypeOK
  <2>2. row' \in [Tests -> {"none", "gone"} \cup Active \cup Terminal]
    BY <1>2 DEF PostCreates, TypeOK
  <2> QED
    BY <1>2, <2>1, <2>2 DEF PostCreates, clients, TypeOK
<1>3. ASSUME NEW t \in Tests, LaunchSucceeds(t) \/ LaunchFails(t) PROVE TypeOK'
  <2>1. post' \in [Tests -> {"idle", "create", "launch", "record", "error", "end"}]
    BY <1>3 DEF LaunchSucceeds, LaunchFails, PGo, TypeOK
  <2>2. run' \in [Tests -> {"none"} \cup RunStatuses] /\ excused' \subseteq Tests
    BY <1>3 DEF LaunchSucceeds, LaunchFails, TypeOK
  <2> QED
    BY <1>3, <2>1, <2>2 DEF LaunchSucceeds, LaunchFails, clients, TypeOK
<1>4. ASSUME NEW t \in Tests, PostRecords(t) \/ PostRecordFails(t) \/ PostRecordsError(t) PROVE TypeOK'
  <2>1. post' \in [Tests -> {"idle", "create", "launch", "record", "error", "end"}]
    BY <1>4 DEF PostRecords, PostRecordFails, PostRecordsError, PGo, TypeOK
  <2>2. known' \in [Tests -> BOOLEAN]
    BY <1>4 DEF PostRecords, PostRecordFails, PostRecordsError, TypeOK
  <2>3. row' \in [Tests -> {"none", "gone"} \cup Active \cup Terminal] /\ slipped' \in BOOLEAN
    <3>1. (\E s \in Active \cup Terminal : Update(t, s)) \/ UNCHANGED <<row, slipped>>
      BY <1>4 DEF PostRecords, PostRecordFails, PostRecordsError
    <3>2. CASE UNCHANGED <<row, slipped>>
      BY <3>2 DEF TypeOK
    <3> QED
      BY <3>1, <3>2, UpdateEffect
  <2>4. excused' \subseteq Tests
    BY <1>4 DEF PostRecords, PostRecordFails, PostRecordsError, TypeOK
  <2> QED
    BY <1>4, <2>1, <2>2, <2>3, <2>4 DEF PostRecords, PostRecordFails, PostRecordsError, clients, TypeOK
<1>5. ASSUME NEW t \in Tests, RunMoves(t) PROVE TypeOK'
  <2>1. run' \in [Tests -> {"none"} \cup RunStatuses]
    BY <1>5 DEF RunMoves, TypeOK
  <2> QED
    BY <1>5, <2>1 DEF RunMoves, clients, TypeOK
<1>6. ASSUME NEW a \in Aborts, NEW t \in Tests, AbortReads(a, t) PROVE TypeOK'
  <2>1. PICK b \in [step : {"idle", "stop", "mark", "end"}, test : Tests \cup {Nobody}] :
          abort' = [abort EXCEPT ![a] = b]
    <3>1. PICK s : s = IF known[t] THEN "stop" ELSE "mark"
      OBVIOUS
    <3>2. abort' = [abort EXCEPT ![a] = [step |-> s, test |-> t]]
      BY <1>6, <3>1 DEF AbortReads
    <3>3. [step |-> s, test |-> t] \in [step : {"idle", "stop", "mark", "end"}, test : Tests \cup {Nobody}]
      BY <3>1
    <3> QED
      BY <3>2, <3>3
  <2>2. abort' \in [Aborts -> [step : {"idle", "stop", "mark", "end"}, test : Tests \cup {Nobody}]]
    BY <2>1 DEF TypeOK
  <2>3. excused' \subseteq Tests
    BY <1>6 DEF AbortReads, TypeOK
  <2> QED
    BY <1>6, <2>2, <2>3 DEF AbortReads, TypeOK
<1>7. ASSUME NEW a \in Aborts, AbortStops(a) \/ AbortMarks(a) PROVE TypeOK'
  <2>t. abort[a].test \in Tests
    BY <1>7 DEF AbortStops, AbortMarks, AbortInv
  <2>1. abort' \in [Aborts -> [step : {"idle", "stop", "mark", "end"}, test : Tests \cup {Nobody}]]
    <3>1. abort[a] \in [step : {"idle", "stop", "mark", "end"}, test : Tests \cup {Nobody}]
      BY DEF TypeOK
    <3>2. PICK s \in {"mark", "end"} : abort' = [abort EXCEPT ![a] = [abort[a] EXCEPT !.step = s]]
      BY <1>7 DEF AbortStops, AbortMarks
    <3>3. [abort[a] EXCEPT !.step = s] \in
            [step : {"idle", "stop", "mark", "end"}, test : Tests \cup {Nobody}]
      BY <3>1, <3>2
    <3>4. PICK b \in [step : {"idle", "stop", "mark", "end"}, test : Tests \cup {Nobody}] :
            abort' = [abort EXCEPT ![a] = b]
      BY <3>2, <3>3
    <3> QED
      BY <3>4 DEF TypeOK
  <2>2. CASE AbortStops(a)
    <3>1. run' \in [Tests -> {"none"} \cup RunStatuses] /\ excused' \subseteq Tests
      BY <2>2, <2>t DEF AbortStops, TypeOK
    <3> QED
      BY <2>1, <2>2, <3>1 DEF AbortStops, TypeOK
  <2>3. CASE AbortMarks(a)
    <3>1. row' \in [Tests -> {"none", "gone"} \cup Active \cup Terminal] /\ slipped' \in BOOLEAN
      BY <2>3, <2>t, UpdateEffect DEF AbortMarks, TypeOK
    <3> QED
      BY <2>1, <2>3, <3>1 DEF AbortMarks, TypeOK
  <2> QED
    BY <1>7, <2>2, <2>3
<1>8. ASSUME NEW g \in Refreshes, Refresh(g) PROVE TypeOK'
  <2> DEFINE R == [step : {"idle", "query", "write"}, test : Tests \cup {Nobody},
                   seen : {"none"} \cup Active, run : {"none"} \cup RunStatuses]
  <2>i. Idle \in R
    BY DEF Idle
  <2>r. refresh[g] \in R /\ refresh \in [Refreshes -> R]
    BY DEF TypeOK
  <2>1. ASSUME NEW t \in Tests, RefreshReads(g, t) PROVE TypeOK'
    <3>1. refresh' \in [Refreshes -> R]
      BY <2>1, <2>r DEF RefreshReads, IsRefreshed
    <3> QED
      BY <2>1, <3>1 DEF RefreshReads, TypeOK
  <2>2. CASE RefreshQueries(g)
    <3>t. refresh[g].test \in Tests
      BY <2>2 DEF RefreshQueries, RefreshInv
    <3>1. PICK b : /\ refresh' = [refresh EXCEPT ![g] = b]
                   /\ b = Idle \/ b = [refresh[g] EXCEPT !.step = "write", !.run = run[refresh[g].test]]
      BY <2>2 DEF RefreshQueries
    <3>2. PICK r \in {"none"} \cup RunStatuses : r = run[refresh[g].test]
      BY <3>t DEF TypeOK
    <3>3. b = Idle \/ b = [step |-> "write", test |-> refresh[g].test, seen |-> refresh[g].seen, run |-> r]
      BY <2>r, <3>1, <3>2
    <3>4. b \in R
      BY <2>i, <2>r, <3>3
    <3>5. refresh' \in [Refreshes -> R]
      BY <2>r, <3>1, <3>4
    <3> QED
      BY <2>2, <3>5 DEF RefreshQueries, TypeOK
  <2>3. CASE RefreshFails(g)
    <3>1. refresh' \in [Refreshes -> R]
      BY <2>3, <2>i, <2>r DEF RefreshFails
    <3> QED
      BY <2>3, <3>1 DEF RefreshFails, TypeOK
  <2>4. CASE RefreshWrites(g)
    <3>1. refresh' \in [Refreshes -> R]
      BY <2>4, <2>i, <2>r DEF RefreshWrites
    <3>2. refresh[g].test \in Tests /\ refresh[g].run \in RunStatuses
      BY <2>4 DEF RefreshWrites, RefreshInv
    <3>3. row' \in [Tests -> {"none", "gone"} \cup Active \cup Terminal] /\ slipped' \in BOOLEAN
      BY <2>4, <3>2, LocalStatusType, UpdateEffect DEF RefreshWrites
    <3> QED
      BY <2>4, <3>1, <3>3 DEF RefreshWrites, TypeOK
  <2> QED
    BY <1>8, <2>1, <2>2, <2>3, <2>4 DEF Refresh
<1>9. CASE EnvironmentDestroyed
  <2>1. row' \in [Tests -> {"none", "gone"} \cup Active \cup Terminal] /\ env' = "gone"
    BY <1>9 DEF EnvironmentDestroyed, TypeOK
  <2> QED
    BY <1>9, <2>1 DEF EnvironmentDestroyed, clients, TypeOK
<1>10. CASE Restart
  <2>1. post' \in [Tests -> {"idle", "create", "launch", "record", "error", "end"}]
    BY <1>10 DEF Restart
  <2>2. abort' \in [Aborts -> [step : {"idle", "stop", "mark", "end"}, test : Tests \cup {Nobody}]]
    <3>1. \A a \in Aborts : abort'[a] \in [step : {"idle", "stop", "mark", "end"},
                                           test : Tests \cup {Nobody}]
      BY <1>10 DEF Restart, TypeOK
    <3>2. abort' = [a \in Aborts |-> abort'[a]]
      BY <1>10 DEF Restart
    <3> QED
      BY <3>1, <3>2
  <2>3. refresh' \in [Refreshes -> [step : {"idle", "query", "write"}, test : Tests \cup {Nobody},
                                   seen : {"none"} \cup Active, run : {"none"} \cup RunStatuses]]
    BY <1>10 DEF Restart, Idle
  <2>4. excused' \subseteq Tests
    BY <1>10 DEF Restart, TypeOK
  <2> QED
    BY <1>10, <2>1, <2>2, <2>3, <2>4 DEF Restart, TypeOK
<1>11. CASE UNCHANGED vars
  BY <1>11 DEF vars, TypeOK
<1> QED
  BY <1>1, <1>2, <1>3, <1>4, <1>5, <1>6, <1>7, <1>8, <1>9, <1>10, <1>11 DEF Next


\* Load tests are typed, and what holds of tests, aborts and refreshes.
Proc ==
  /\ TypeOK
  /\ \A t \in Tests : TestInv(t)
  /\ \A a \in Aborts : AbortInv(a)
  /\ \A g \in Refreshes : RefreshInv(g)

------------------------------------------------------------------------------
(* What no step takes back. *)

\* A run that exists stays, and ends once; ids, rows and excuses stay known.
Stable ==
  /\ slipped => slipped'
  /\ \A t \in Tests :
       /\ known[t] => known'[t]
       /\ row[t] # "none" => row'[t] # "none"
       /\ run[t] # "none" => run'[t] # "none"
       /\ RunEnded(run[t]) => run'[t] = run[t]
       /\ t \in excused => t \in excused'

LEMMA StableStep == Proc /\ [Next]_vars => Stable
<1> SUFFICES ASSUME Proc, [Next]_vars PROVE Stable
  OBVIOUS
<1> USE Statuses
<1>t. /\ row \in [Tests -> {"none", "gone"} \cup Active \cup Terminal]
      /\ known \in [Tests -> BOOLEAN]
      /\ run \in [Tests -> {"none"} \cup RunStatuses]
      /\ TypeOK
  BY DEF Proc, TypeOK
<1>1. ASSUME NEW t \in Tests, PostChecks(t) \/ PostCreates(t) PROVE Stable
  <2>1. UNCHANGED <<known, run, excused>>
    BY <1>1 DEF PostChecks, PostCreates
  <2>2. slipped => slipped'
    BY <1>1 DEF PostChecks, PostCreates
  <2>3. row' = row \/ row' = [row EXCEPT ![t] = "queued"]
    BY <1>1 DEF PostChecks, PostCreates
  <2> QED
    BY <1>t, <2>1, <2>2, <2>3 DEF Stable
<1>2. ASSUME NEW t \in Tests, LaunchSucceeds(t) \/ LaunchFails(t) PROVE Stable
  <2>1. run[t] = "none"
    BY <1>2 DEF LaunchSucceeds, LaunchFails, Proc, TestInv
  <2> QED
    BY <1>2, <1>t, <2>1 DEF LaunchSucceeds, LaunchFails, clients, Stable
<1>3. ASSUME NEW t \in Tests, PostRecords(t) \/ PostRecordFails(t) \/ PostRecordsError(t) PROVE Stable
  <2>1. (\E s \in Active \cup Terminal : Update(t, s)) \/ UNCHANGED <<row, slipped>>
    BY <1>3 DEF PostRecords, PostRecordFails, PostRecordsError
  <2>2. (slipped => slipped') /\ \A u \in Tests : row[u] # "none" => row'[u] # "none"
    BY <1>t, <2>1, UpdateEffect
  <2>3. known' = known \/ known' = [known EXCEPT ![t] = TRUE]
    BY <1>3 DEF PostRecords, PostRecordFails, PostRecordsError
  <2>4. run' = run /\ \A u \in Tests : u \in excused => u \in excused'
    BY <1>3 DEF PostRecords, PostRecordFails, PostRecordsError
  <2> QED
    BY <1>t, <2>2, <2>3, <2>4 DEF Stable
<1>4. ASSUME NEW t \in Tests, RunMoves(t) PROVE Stable
  <2>1. PICK s \in RunStatuses : run' = [run EXCEPT ![t] = s]
    BY <1>4 DEF RunMoves
  <2>2. ~RunEnded(run[t])
    BY <1>4 DEF RunMoves
  <2> QED
    BY <1>4, <1>t, <2>1, <2>2 DEF RunMoves, clients, Stable
<1>5. ASSUME NEW a \in Aborts, NEW t \in Tests, AbortReads(a, t) PROVE Stable
  BY <1>5, <1>t DEF AbortReads, Stable
<1>6. ASSUME NEW a \in Aborts, AbortStops(a) PROVE Stable
  <2>1. abort[a].test \in Tests
    BY <1>6 DEF AbortStops, Proc, AbortInv
  <2> QED
    BY <1>6, <1>t, <2>1 DEF AbortStops, Stable
<1>7. ASSUME NEW a \in Aborts, AbortMarks(a) PROVE Stable
  <2>1. abort[a].test \in Tests
    BY <1>7 DEF AbortMarks, Proc, AbortInv
  <2>2. (slipped => slipped') /\ \A u \in Tests : row[u] # "none" => row'[u] # "none"
    BY <1>7, <1>t, <2>1, UpdateEffect DEF AbortMarks
  <2> QED
    BY <1>7, <1>t, <2>2 DEF AbortMarks, Stable
<1>8. ASSUME NEW g \in Refreshes, Refresh(g) PROVE Stable
  <2>1. CASE RefreshWrites(g)
    <3>1. refresh[g].test \in Tests /\ LocalStatus(refresh[g].run) \in Active \cup Terminal
      BY <2>1, LocalStatusType DEF RefreshWrites, Proc, RefreshInv
    <3>2. (slipped => slipped') /\ \A u \in Tests : row[u] # "none" => row'[u] # "none"
      BY <2>1, <1>t, <3>1, UpdateEffect DEF RefreshWrites
    <3> QED
      BY <2>1, <1>t, <3>2 DEF RefreshWrites, Stable
  <2>2. CASE ~RefreshWrites(g)
    BY <1>8, <1>t, <2>2 DEF Refresh, RefreshReads, RefreshQueries, RefreshFails, Stable
  <2> QED
    BY <2>1, <2>2
<1>9. CASE EnvironmentDestroyed
  BY <1>9, <1>t DEF EnvironmentDestroyed, clients, Stable
<1>10. CASE Restart
  BY <1>10, <1>t DEF Restart, Stable
<1>11. CASE UNCHANGED vars
  BY <1>11, <1>t DEF vars, Stable
<1> QED
  BY <1>1, <1>2, <1>3, <1>4, <1>5, <1>6, <1>7, <1>8, <1>9, <1>10, <1>11 DEF Next

------------------------------------------------------------------------------
(* Tests, aborts and refreshes. *)

LEMMA TestStep == Proc /\ [Next]_vars => \A t \in Tests : TestInv(t)'
<1> SUFFICES ASSUME Proc, [Next]_vars PROVE \A t \in Tests : TestInv(t)'
  OBVIOUS
<1> USE Statuses
<1>t. /\ row \in [Tests -> {"none", "gone"} \cup Active \cup Terminal]
      /\ known \in [Tests -> BOOLEAN]
      /\ run \in [Tests -> {"none"} \cup RunStatuses]
      /\ post \in [Tests -> {"idle", "create", "launch", "record", "error", "end"}]
      /\ \A t \in Tests : TestInv(t)
  BY DEF Proc, TypeOK
<1>s. Stable
  BY StableStep
\* A step that moves no POST, starts no run and creates no row.
<1>r. ASSUME UNCHANGED <<post, known>>,
             \A t \in Tests : /\ row[t] = "none" => row'[t] = "none"
                              /\ run[t] = "none" => run'[t] = "none"
      PROVE  \A t \in Tests : TestInv(t)'
  BY <1>r, <1>s, <1>t DEF TestInv, Stable
<1>1. ASSUME NEW t \in Tests, PostChecks(t) PROVE \A u \in Tests : TestInv(u)'
  BY <1>1, <1>t DEF PostChecks, PGo, clients, TestInv
<1>2. ASSUME NEW t \in Tests, PostCreates(t) PROVE \A u \in Tests : TestInv(u)'
  BY <1>2, <1>t DEF PostCreates, PGo, clients, TestInv
<1>3. ASSUME NEW t \in Tests, LaunchSucceeds(t) PROVE \A u \in Tests : TestInv(u)'
  BY <1>3, <1>t DEF LaunchSucceeds, PGo, clients, TestInv
<1>4. ASSUME NEW t \in Tests, LaunchFails(t) PROVE \A u \in Tests : TestInv(u)'
  BY <1>4, <1>t DEF LaunchFails, PGo, clients, TestInv
<1>5. ASSUME NEW t \in Tests, PostRecords(t) \/ PostRecordFails(t) \/ PostRecordsError(t)
      PROVE  \A u \in Tests : TestInv(u)'
  <2>0. (\E s \in Active \cup Terminal : Update(t, s)) \/ UNCHANGED <<row, slipped>>
    BY <1>5 DEF PostRecords, PostRecordFails, PostRecordsError
  <2>1. \A u \in Tests : (u # t => row'[u] = row[u]) /\ (row[u] # "none" => row'[u] # "none")
    BY <2>0, UpdateEffect DEF Proc
  <2>2. /\ run' = run /\ \A u \in Tests : u # t => (u \in excused <=> u \in excused')
        /\ \A u \in Tests : u # t => post'[u] = post[u] /\ known'[u] = known[u]
        /\ post[t] \in {"record", "error"}
        /\ post[t] = "record" \/ known'[t] = known[t]
    BY <1>5, <1>t DEF PostRecords, PostRecordFails, PostRecordsError, PGo
  <2>3. post'[t] = "end" \/ (post'[t] = "error" /\ (t \in excused' \/ known'[t]))
    BY <1>5, <1>t DEF PostRecords, PostRecordFails, PostRecordsError, PGo
  <2>4. TestInv(t)'
    BY <1>t, <2>1, <2>2, <2>3 DEF TestInv
  <2>5. ASSUME NEW u \in Tests, u # t PROVE TestInv(u)'
    BY <1>t, <2>1, <2>2, <2>5 DEF TestInv
  <2> QED
    BY <2>4, <2>5
<1>6. ASSUME NEW t \in Tests, RunMoves(t) PROVE \A u \in Tests : TestInv(u)'
  <2>1. run[t] # "none" /\ UNCHANGED <<post, known, row>> /\ \E s : run' = [run EXCEPT ![t] = s]
    BY <1>6 DEF RunMoves
  <2> QED
    BY <1>r, <1>t, <2>1
<1>7. ASSUME NEW a \in Aborts, NEW t \in Tests, AbortReads(a, t) PROVE \A u \in Tests : TestInv(u)'
  BY <1>7, <1>r DEF AbortReads
<1>8. ASSUME NEW a \in Aborts, AbortStops(a) PROVE \A u \in Tests : TestInv(u)'
  <2>1. abort[a].test \in Tests /\ run[abort[a].test] # "none"
    BY <1>8 DEF AbortStops, Proc, AbortInv
  <2>2. UNCHANGED <<post, known, row>> /\ \A t \in Tests : run[t] = "none" => run'[t] = "none"
    BY <1>8, <1>t, <2>1 DEF AbortStops
  <2> QED
    BY <1>r, <2>2
<1>9. ASSUME NEW a \in Aborts, AbortMarks(a) PROVE \A u \in Tests : TestInv(u)'
  <2>1. abort[a].test \in Tests /\ row[abort[a].test] # "none"
    BY <1>9 DEF AbortMarks, Proc, AbortInv
  <2>2. \A t \in Tests : row[t] = "none" => row'[t] = "none"
    BY <1>9, <2>1, UpdateEffect DEF AbortMarks, Proc
  <2> QED
    BY <1>9, <1>r, <2>2 DEF AbortMarks
<1>10. ASSUME NEW g \in Refreshes, Refresh(g) PROVE \A u \in Tests : TestInv(u)'
  <2>1. CASE RefreshWrites(g)
    <3>1. refresh[g].test \in Tests /\ row[refresh[g].test] # "none"
          /\ LocalStatus(refresh[g].run) \in Active \cup Terminal
      BY <2>1, LocalStatusType DEF RefreshWrites, Proc, RefreshInv, TestInv
    <3>2. \A t \in Tests : row[t] = "none" => row'[t] = "none"
      BY <2>1, <3>1, UpdateEffect DEF RefreshWrites, Proc
    <3> QED
      BY <2>1, <1>r, <3>2 DEF RefreshWrites
  <2>2. CASE ~RefreshWrites(g)
    BY <1>10, <1>r, <2>2 DEF Refresh, RefreshReads, RefreshQueries, RefreshFails
  <2> QED
    BY <2>1, <2>2
<1>11. CASE EnvironmentDestroyed
  BY <1>11, <1>r DEF EnvironmentDestroyed, clients
<1>12. CASE Restart
  BY <1>12, <1>t DEF Restart, TestInv
<1>13. CASE UNCHANGED vars
  BY <1>13, <1>r DEF vars
<1> QED
  BY <1>1, <1>2, <1>3, <1>4, <1>5, <1>6, <1>7, <1>8, <1>9, <1>10, <1>11, <1>12, <1>13 DEF Next

LEMMA AbortStep == Proc /\ [Next]_vars => \A a \in Aborts : AbortInv(a)'
<1> SUFFICES ASSUME Proc, [Next]_vars, NEW b \in Aborts PROVE AbortInv(b)'
  OBVIOUS
<1> USE Statuses
<1>s. Stable
  BY StableStep
<1>i. AbortInv(b)
  BY DEF Proc
<1>t. abort \in [Aborts -> [step : {"idle", "stop", "mark", "end"}, test : Tests \cup {Nobody}]]
      /\ run \in [Tests -> {"none"} \cup RunStatuses]
  BY DEF Proc, TypeOK
\* An abort that stays where it is keeps what holds of it.
<1>k. ASSUME abort'[b] = abort[b] PROVE AbortInv(b)'
  BY <1>k, <1>s, <1>i DEF AbortInv, Stable
<1>1. ASSUME NEW a \in Aborts, NEW t \in Tests, AbortReads(a, t) PROVE AbortInv(b)'
  <2>1. CASE a = b
    <3>1. row[t] # "none" /\ row' = row /\ run' = run
      BY <1>1 DEF AbortReads
    <3>2. CASE known[t]
      <4>1. abort'[b] = [step |-> "stop", test |-> t]
        BY <1>1, <1>t, <2>1, <3>2 DEF AbortReads
      <4> QED
        BY <3>1, <3>2, <4>1 DEF Proc, TestInv, AbortInv
    <3>3. CASE ~known[t]
      <4>1. abort'[b] = [step |-> "mark", test |-> t] /\ t \in excused'
        BY <1>1, <1>t, <2>1, <3>3 DEF AbortReads
      <4> QED
        BY <3>1, <4>1 DEF AbortInv
    <3> QED
      BY <3>2, <3>3
  <2>2. CASE a # b
    BY <1>1, <1>t, <1>k, <2>2 DEF AbortReads
  <2> QED
    BY <2>1, <2>2
<1>2. ASSUME NEW a \in Aborts, AbortStops(a) PROVE AbortInv(b)'
  <2>1. CASE a = b
    <3> DEFINE t == abort[b].test
    <3>1. t \in Tests /\ row[t] # "none" /\ row' = row
      BY <1>2, <1>i, <2>1 DEF AbortStops, AbortInv
    <3>2. abort'[b].test = t /\ abort'[b].step = "mark"
      BY <1>2, <1>t, <2>1 DEF AbortStops
    <3>3. RunEnded(run'[t]) \/ t \in excused'
      BY <1>2, <1>t, <2>1, <3>1 DEF AbortStops
    <3> QED
      BY <3>1, <3>2, <3>3 DEF AbortInv
  <2>2. CASE a # b
    BY <1>2, <1>t, <1>k, <2>2 DEF AbortStops
  <2> QED
    BY <2>1, <2>2
<1>3. ASSUME NEW a \in Aborts, AbortMarks(a) PROVE AbortInv(b)'
  <2>1. CASE a = b
    <3>1. abort'[b].step = "end"
      BY <1>3, <1>t, <2>1 DEF AbortMarks
    <3> QED
      BY <3>1 DEF AbortInv
  <2>2. CASE a # b
    BY <1>3, <1>t, <1>k, <2>2 DEF AbortMarks
  <2> QED
    BY <2>1, <2>2
<1>4. CASE UNCHANGED abort
  BY <1>4, <1>k
<1>5. CASE Restart
  <2>1. abort'[b] = abort[b] \/ abort'[b].step = "end"
    BY <1>5, <1>t DEF Restart
  <2>2. CASE abort'[b].step = "end"
    BY <2>2 DEF AbortInv
  <2> QED
    BY <1>k, <2>1, <2>2
<1> QED
  BY <1>1, <1>2, <1>3, <1>4, <1>5 DEF Next, PostChecks, PostCreates, LaunchSucceeds, LaunchFails,
     PostRecords, PostRecordFails, PostRecordsError, RunMoves, Refresh, RefreshReads, RefreshQueries, RefreshFails, RefreshWrites,
     EnvironmentDestroyed, clients, vars

LEMMA RefreshStep == Proc /\ [Next]_vars => \A g \in Refreshes : RefreshInv(g)'
<1> SUFFICES ASSUME Proc, [Next]_vars, NEW h \in Refreshes PROVE RefreshInv(h)'
  OBVIOUS
<1> USE Statuses
<1>s. Stable
  BY StableStep
<1>i. RefreshInv(h)
  BY DEF Proc
<1> DEFINE R == [step : {"idle", "query", "write"}, test : Tests \cup {Nobody},
                 seen : {"none"} \cup Active, run : {"none"} \cup RunStatuses]
<1>t. refresh \in [Refreshes -> R] /\ run \in [Tests -> {"none"} \cup RunStatuses]
  BY DEF Proc, TypeOK
<1>k. ASSUME refresh'[h] = refresh[h] PROVE RefreshInv(h)'
  BY <1>k, <1>s, <1>i DEF RefreshInv, Stable
<1>e. ASSUME refresh'[h] = Idle PROVE RefreshInv(h)'
  BY <1>e DEF RefreshInv, Idle
<1>1. ASSUME NEW g \in Refreshes, NEW t \in Tests, RefreshReads(g, t) PROVE RefreshInv(h)'
  <2>1. CASE g = h
    <3>1. refresh'[h] = [step |-> "query", test |-> t, seen |-> row[t], run |-> "none"] /\ known'[t]
      BY <1>1, <1>t, <2>1 DEF RefreshReads, IsRefreshed
    <3> QED
      BY <3>1 DEF RefreshInv
  <2>2. CASE g # h
    BY <1>1, <1>t, <1>k, <2>2 DEF RefreshReads
  <2> QED
    BY <2>1, <2>2
<1>2. ASSUME NEW g \in Refreshes, RefreshQueries(g) PROVE RefreshInv(h)'
  <2>1. CASE g = h
    <3> DEFINE t == refresh[h].test
    <3>1. t \in Tests /\ known[t] /\ run[t] # "none"
      BY <1>2, <1>i, <2>1 DEF RefreshQueries, RefreshInv, Proc, TestInv
    <3>2. \/ refresh'[h] = Idle
          \/ refresh'[h] = [refresh[h] EXCEPT !.step = "write", !.run = run[t]]
      BY <1>2, <1>t, <2>1 DEF RefreshQueries
    <3>3. CASE refresh'[h] = [refresh[h] EXCEPT !.step = "write", !.run = run[t]]
      <4>1. refresh[h] \in R
        BY <1>t
      <4>2. refresh'[h].step = "write" /\ refresh'[h].test = t /\ refresh'[h].run = run[t]
        BY <3>3, <4>1
      <4>3. run[t] \in RunStatuses /\ run' = run /\ known' = known
        BY <1>2, <1>t, <3>1 DEF RefreshQueries
      <4> QED
        BY <3>1, <4>2, <4>3 DEF RefreshInv
    <3> QED
      BY <1>e, <3>2, <3>3
  <2>2. CASE g # h
    <3>1. \E x : refresh' = [refresh EXCEPT ![g] = x]
      BY <1>2 DEF RefreshQueries
    <3>2. refresh'[h] = refresh[h]
      BY <1>t, <2>2, <3>1
    <3> QED
      BY <1>k, <3>2
  <2> QED
    BY <2>1, <2>2
<1>3. ASSUME NEW g \in Refreshes, RefreshFails(g) \/ RefreshWrites(g) PROVE RefreshInv(h)'
  <2>1. refresh' = [refresh EXCEPT ![g] = Idle]
    BY <1>3 DEF RefreshFails, RefreshWrites
  <2>2. refresh'[h] = Idle \/ refresh'[h] = refresh[h]
    BY <1>t, <2>1
  <2> QED
    BY <1>k, <1>e, <2>2
<1>4. CASE UNCHANGED refresh
  BY <1>4, <1>k
<1>5. CASE Restart
  BY <1>5, <1>e DEF Restart, Idle
<1> QED
  BY <1>1, <1>2, <1>3, <1>4, <1>5 DEF Next, Refresh, PostChecks, PostCreates, LaunchSucceeds,
     LaunchFails, PostRecords, PostRecordFails, PostRecordsError, RunMoves, AbortReads, AbortStops,
     AbortMarks, EnvironmentDestroyed, clients, vars

LEMMA ProcInit == Init => Proc
BY TypeInit DEF Init, Proc, TestInv, AbortInv, RefreshInv

LEMMA ProcStep == Proc /\ [Next]_vars => Proc'
BY TypeStep, TestStep, AbortStep, RefreshStep DEF Proc

\* Every variable has the type the code gives it.
THEOREM TypeCorrect == Spec => []TypeOK
<1>1. Proc => TypeOK
  BY DEF Proc
<1> QED
  BY <1>1, ProcInit, ProcStep, PTL DEF Spec


------------------------------------------------------------------------------
(* One active test. *)

\* Nothing but the creation of a row, and a late write to an ended one, makes a row active.
LEMMA KeepsActive ==
  ASSUME Proc, NEW t \in Tests, NEW s \in Active \cup Terminal, Update(t, s), row[t] # "none",
         ~slipped'
  PROVE  ~slipped /\ \A u \in Tests : row'[u] \in Active => row[u] \in Active
<1> USE Statuses
<1>1. /\ ~slipped
      /\ \A u \in Tests : row'[u] = IF u = t /\ row[t] # "gone" THEN s ELSE row[u]
      /\ ~(row[t] \in Terminal /\ s \in Active)
  BY UpdateEffect DEF Proc
<1>2. row[t] \in {"none", "gone"} \cup Active \cup Terminal
  BY DEF Proc, TypeOK
<1> QED
  BY <1>1, <1>2

LEMMA OneActiveStep ==
  Proc /\ CheckInv /\ OneActiveTest /\ [Next]_vars => CheckInv' /\ OneActiveTest'
<1> SUFFICES ASSUME Proc, CheckInv, OneActiveTest, [Next]_vars, ~slipped'
             PROVE  CheckInv' /\ OneActiveTest'
  BY DEF CheckInv, OneActiveTest
<1> USE Statuses
<1>s. ~slipped
  BY StableStep DEF Stable
<1>i. /\ \A t \in Tests : post[t] = "create" =>
           NoneActive /\ \A u \in Tests : post[u] = "create" => u = t
      /\ \A t, u \in Tests : row[t] \in Active /\ row[u] \in Active => t = u
  BY <1>s DEF CheckInv, OneActiveTest
<1>t. /\ post \in [Tests -> {"idle", "create", "launch", "record", "error", "end"}]
      /\ row \in [Tests -> {"none", "gone"} \cup Active \cup Terminal]
  BY DEF Proc, TypeOK
\* A step that sends nobody to create a row and makes no row active.
<1>r. ASSUME \A t \in Tests : post'[t] = "create" => post[t] = "create",
             \A t \in Tests : row'[t] \in Active => row[t] \in Active
      PROVE  CheckInv' /\ OneActiveTest'
  BY <1>r, <1>i DEF CheckInv, OneActiveTest, NoneActive
<1>1. ASSUME NEW t \in Tests, PostChecks(t) PROVE CheckInv' /\ OneActiveTest'
  <2>1. \A u \in Tests : post[u] # "create"
    BY <1>1 DEF PostChecks
  <2>2. NoneActive /\ row' = row /\ post' = [post EXCEPT ![t] = "create"]
    BY <1>1 DEF PostChecks, PGo
  <2> QED
    BY <1>t, <1>i, <2>1, <2>2 DEF CheckInv, OneActiveTest, NoneActive
<1>2. ASSUME NEW t \in Tests, PostCreates(t) PROVE CheckInv' /\ OneActiveTest'
  <2>1. NoneActive /\ \A u \in Tests : post[u] = "create" => u = t
    BY <1>2, <1>i DEF PostCreates
  <2>2. \A u \in Tests : post'[u] # "create"
    BY <1>2, <1>t, <2>1 DEF PostCreates, PGo
  <2>3. \A u \in Tests : row'[u] \in Active => u = t
    BY <1>2, <1>t, <2>1 DEF PostCreates, NoneActive
  <2> QED
    BY <2>2, <2>3 DEF CheckInv, OneActiveTest
<1>3. ASSUME NEW t \in Tests, LaunchSucceeds(t) \/ LaunchFails(t) PROVE CheckInv' /\ OneActiveTest'
  <2>1. row' = row /\ \E s \in {"record", "error"} : post' = [post EXCEPT ![t] = s]
    BY <1>3 DEF LaunchSucceeds, LaunchFails, PGo
  <2> QED
    BY <1>r, <1>t, <2>1
<1>4. ASSUME NEW t \in Tests, PostRecords(t) \/ PostRecordFails(t) \/ PostRecordsError(t)
      PROVE  CheckInv' /\ OneActiveTest'
  <2>1. row[t] # "none" /\ \E s \in {"error", "end"} : post' = [post EXCEPT ![t] = s]
    BY <1>4 DEF PostRecords, PostRecordFails, PostRecordsError, PGo, Proc, TestInv
  <2>2. (\E s \in Active \cup Terminal : Update(t, s)) \/ UNCHANGED <<row, slipped>>
    BY <1>4 DEF PostRecords, PostRecordFails, PostRecordsError
  <2>3. \A u \in Tests : row'[u] \in Active => row[u] \in Active
    BY <2>1, <2>2, KeepsActive
  <2> QED
    BY <1>r, <1>t, <2>1, <2>3
<1>5. ASSUME NEW a \in Aborts, AbortMarks(a) PROVE CheckInv' /\ OneActiveTest'
  <2>1. abort[a].test \in Tests /\ row[abort[a].test] # "none"
    BY <1>5 DEF AbortMarks, Proc, AbortInv
  <2>2. \A u \in Tests : row'[u] \in Active => row[u] \in Active
    BY <1>5, <2>1, KeepsActive DEF AbortMarks
  <2> QED
    BY <1>5, <1>r, <2>2 DEF AbortMarks
<1>6. ASSUME NEW g \in Refreshes, RefreshWrites(g) PROVE CheckInv' /\ OneActiveTest'
  <2>1. /\ refresh[g].test \in Tests /\ row[refresh[g].test] # "none"
        /\ LocalStatus(refresh[g].run) \in Active \cup Terminal
    BY <1>6, LocalStatusType DEF RefreshWrites, Proc, RefreshInv, TestInv
  <2>2. \A u \in Tests : row'[u] \in Active => row[u] \in Active
    BY <1>6, <2>1, KeepsActive DEF RefreshWrites
  <2> QED
    BY <1>6, <1>r, <2>2 DEF RefreshWrites
<1>7. CASE EnvironmentDestroyed
  <2>1. post' = post /\ \A u \in Tests : row'[u] \notin Active
    BY <1>7 DEF EnvironmentDestroyed
  <2> QED
    BY <1>r, <2>1
<1>8. CASE UNCHANGED <<row, post>>
  BY <1>8, <1>r
<1>9. CASE Restart
  <2>1. row' = row /\ \A u \in Tests : post'[u] # "create"
    BY <1>9 DEF Restart
  <2> QED
    BY <1>r, <2>1
<1> QED
  BY <1>1, <1>2, <1>3, <1>4, <1>5, <1>6, <1>7, <1>8, <1>9 DEF Next, Refresh, RunMoves, AbortReads,
     AbortStops, RefreshReads, RefreshQueries, RefreshFails, clients, vars

\* Two tests are active at a time only if two POSTs checked before either created its row, or
\* a late write revived an ended row: with any number of requests, refreshes and aborts.
THEOREM OneActive == Spec => []OneActiveTest
<1>1. Init => Proc /\ CheckInv /\ OneActiveTest
  BY ProcInit, Statuses DEF Init, CheckInv, OneActiveTest
<1>2. Proc /\ CheckInv /\ OneActiveTest /\ [Next]_vars => (Proc /\ CheckInv /\ OneActiveTest)'
  BY ProcStep, OneActiveStep
<1> QED
  BY <1>1, <1>2, PTL DEF Spec

------------------------------------------------------------------------------
(* Rows and runs. *)

LEMMA FollowStep ==
  Proc /\ FinishedMeansCompleted /\ GoingRunsAreFollowed /\ [Next]_vars
    => FinishedMeansCompleted' /\ GoingRunsAreFollowed'
<1> SUFFICES ASSUME Proc, FinishedMeansCompleted, GoingRunsAreFollowed, [Next]_vars, NEW u \in Tests
             PROVE  /\ row'[u] = "finished" => run'[u] = "completed"
                    /\ run'[u] # "none" /\ ~RunEnded(run'[u]) =>
                         \/ known'[u] /\ row'[u] \in Active
                         \/ post'[u] = "record"
                         \/ u \in excused'
                         \/ row'[u] = "gone"
  BY DEF FinishedMeansCompleted, GoingRunsAreFollowed
<1> USE Statuses
<1> DEFINE Going == run[u] # "none" /\ ~RunEnded(run[u])
           Followed == known[u] /\ row[u] \in Active
           Good == /\ row[u] = "finished" => run[u] = "completed"
                   /\ Going => Followed \/ post[u] = "record" \/ u \in excused \/ row[u] = "gone"
<1>t. /\ post \in [Tests -> {"idle", "create", "launch", "record", "error", "end"}]
      /\ row \in [Tests -> {"none", "gone"} \cup Active \cup Terminal]
      /\ known \in [Tests -> BOOLEAN]
      /\ run \in [Tests -> {"none"} \cup RunStatuses]
  BY DEF Proc, TypeOK
<1>s. Stable
  BY StableStep
<1>g. Good
  BY DEF FinishedMeansCompleted, GoingRunsAreFollowed
<1>c. "completed" \in RunStatuses /\ RunEnded("completed")
  BY DEF RunStatuses, RunEnded
\* A step that leaves the row and the POST of u alone, and starts no run of it.
<1>r. ASSUME row'[u] = row[u], post'[u] = post[u], run[u] = "none" => run'[u] = "none"
      PROVE  Good'
  <2>1. row'[u] = "finished" => run'[u] = "completed"
    BY <1>r, <1>g, <1>s, <1>c DEF Stable
  <2>2. Going' => Going
    BY <1>r, <1>s DEF Stable
  <2> QED
    BY <1>r, <1>g, <1>s, <2>1, <2>2 DEF Stable
\* An update of the row of u that is right about the run.
<1>w. ASSUME NEW t \in Tests, NEW s \in Active \cup Terminal, Update(t, s),
             UNCHANGED run, u # t => post'[u] = post[u] /\ known'[u] = known[u],
             s = "finished" => run[t] = "completed",
             Going /\ row[t] # "gone" /\ u = t => (s \in Active /\ known'[t]) \/ t \in excused'
      PROVE  Good'
  <2>1. CASE u = t /\ row[t] # "gone"
    <3>1. row'[u] = s
      BY <1>w, <2>1, UpdateEffect DEF Proc
    <3> QED
      BY <1>w, <2>1, <3>1
  <2>2. CASE u = t /\ row[t] = "gone"
    <3>1. row'[u] = "gone"
      BY <1>w, <2>2, UpdateEffect DEF Proc
    <3> QED
      BY <3>1
  <2>3. CASE u # t
    <3>1. row'[u] = row[u]
      BY <1>w, <2>3, UpdateEffect DEF Proc
    <3> QED
      BY <1>r, <1>w, <2>3, <3>1
  <2> QED
    BY <2>1, <2>2, <2>3
<1>1. ASSUME NEW t \in Tests, PostChecks(t) \/ PostCreates(t) PROVE Good'
  <2>1. run[t] = "none" /\ run' = run
    BY <1>1 DEF PostChecks, PostCreates, Proc, TestInv
  <2>2. CASE u = t
    <3>1. row'[u] # "finished"
      BY <1>1, <1>t, <2>2 DEF PostChecks, PostCreates, Proc, TestInv
    <3> QED
      BY <2>1, <2>2, <3>1
  <2>3. CASE u # t
    <3>1. row'[u] = row[u] /\ post'[u] = post[u]
      BY <1>1, <1>t, <2>3 DEF PostChecks, PostCreates, PGo
    <3> QED
      BY <1>r, <2>1, <3>1
  <2> QED
    BY <2>2, <2>3
<1>2. ASSUME NEW t \in Tests, LaunchSucceeds(t) \/ LaunchFails(t) PROVE Good'
  <2>1. CASE u = t
    <3>1. run[u] = "none" /\ row'[u] = row[u]
      BY <1>2, <2>1 DEF LaunchSucceeds, LaunchFails, Proc, TestInv
    <3>2. row[u] # "finished"
      BY <1>g, <3>1
    <3>3. post'[u] = "record" \/ run'[u] = "none" \/ u \in excused'
      BY <1>2, <1>t, <2>1, <3>1 DEF LaunchSucceeds, LaunchFails, PGo
    <3> QED
      BY <3>1, <3>2, <3>3
  <2>2. CASE u # t
    <3>1. row'[u] = row[u] /\ post'[u] = post[u] /\ run'[u] = run[u]
      BY <1>2, <1>t, <2>2 DEF LaunchSucceeds, LaunchFails, PGo
    <3> QED
      BY <1>r, <3>1
  <2> QED
    BY <2>1, <2>2
\* A POST that goes on from a step other than "record", and writes nothing.
<1>p. ASSUME UNCHANGED <<row, run, known>>, post[u] # "record" \/ u \in excused' PROVE Good'
  BY <1>p, <1>g, <1>s, <1>c DEF Stable
<1>3. ASSUME NEW t \in Tests, PostRecords(t) \/ PostRecordFails(t) PROVE Good'
  <2>1. run' = run /\ (u # t => post'[u] = post[u] /\ known'[u] = known[u])
    BY <1>3, <1>t DEF PostRecords, PostRecordFails, PGo
  <2>2. \/ Update(t, "initializing") /\ known'[t]
        \/ UNCHANGED <<row, known>> /\ t \in excused'
    BY <1>3, <1>t DEF PostRecords, PostRecordFails
  <2>3. CASE UNCHANGED <<row, known>> /\ t \in excused'
    <3>1. CASE u = t
      BY <1>p, <2>1, <2>3, <3>1
    <3>2. CASE u # t
      BY <1>r, <2>1, <2>3, <3>2
    <3> QED
      BY <3>1, <3>2
  <2>4. "initializing" # "finished" /\ "initializing" \in Active
    BY DEF Active
  <2> QED
    BY <1>w, <2>1, <2>2, <2>3, <2>4
<1>4. ASSUME NEW t \in Tests, PostRecordsError(t) PROVE Good'
  <2>1. run[t] = "none" \/ t \in excused \/ known[t]
    BY <1>4 DEF PostRecordsError, Proc, TestInv
  <2>2. /\ UNCHANGED <<run, known>> /\ post[t] = "error"
        /\ u # t => post'[u] = post[u]
    BY <1>4, <1>t DEF PostRecordsError, PGo
  <2>3. CASE Update(t, "error") /\ excused' = IF known[t] THEN excused \cup {t} ELSE excused
    <3>1. run[t] = "none" \/ t \in excused'
      BY <2>1, <2>3
    <3>2. "error" # "finished"
      OBVIOUS
    <3> QED
      BY <1>w, <2>2, <2>3, <3>1, <3>2
  <2>4. CASE UNCHANGED row
    <3>1. CASE u = t
      BY <1>p, <2>2, <2>4, <3>1
    <3>2. CASE u # t
      BY <1>r, <2>2, <2>4, <3>2
    <3> QED
      BY <3>1, <3>2
  <2> QED
    BY <1>4, <2>3, <2>4 DEF PostRecordsError
<1>5. ASSUME NEW t \in Tests, RunMoves(t) PROVE Good'
  <2>1. run[t] # "none" /\ UNCHANGED <<row, post>> /\ \E s : run' = [run EXCEPT ![t] = s]
    BY <1>5 DEF RunMoves
  <2> QED
    BY <1>r, <1>t, <2>1
<1>6. ASSUME NEW a \in Aborts, AbortStops(a) PROVE Good'
  <2>1. abort[a].test \in Tests /\ run[abort[a].test] # "none"
    BY <1>6 DEF AbortStops, Proc, AbortInv
  <2>2. UNCHANGED <<row, post>> /\ (run[u] = "none" => run'[u] = "none")
    BY <1>6, <1>t, <2>1 DEF AbortStops
  <2> QED
    BY <1>r, <2>2
<1>7. ASSUME NEW a \in Aborts, AbortMarks(a) PROVE Good'
  <2>1. PICK t \in Tests : t = abort[a].test /\ (RunEnded(run[t]) \/ t \in excused)
    BY <1>7 DEF AbortMarks, Proc, AbortInv
  <2>2. UNCHANGED <<run, excused, post, known>> /\ (Update(t, "aborted") \/ UNCHANGED row)
    BY <1>7, <2>1 DEF AbortMarks
  <2>3. CASE UNCHANGED row
    BY <1>r, <2>2, <2>3
  <2> QED
    BY <1>w, <2>1, <2>2, <2>3
<1>8. ASSUME NEW g \in Refreshes, RefreshWrites(g) PROVE Good'
  <2>1. PICK t \in Tests : /\ t = refresh[g].test /\ known[t] /\ refresh[g].run \in RunStatuses
                           /\ RunEnded(refresh[g].run) => run[t] = refresh[g].run
    BY <1>8 DEF RefreshWrites, Proc, RefreshInv
  <2> DEFINE s == LocalStatus(refresh[g].run)
  <2>2. Update(t, s) /\ UNCHANGED <<run, excused, post, known>>
    BY <1>8, <2>1 DEF RefreshWrites
  <2>3. /\ s \in Active \cup Terminal
        /\ s \in Terminal => RunEnded(refresh[g].run)
        /\ s = "finished" => refresh[g].run = "completed"
    BY <2>1, LocalStatusType
  <2> HIDE DEF s
  <2>4. s = "finished" => run[t] = "completed"
    BY <1>c, <2>1, <2>3
  <2>5. RunEnded(run[t]) \/ s \in Active
    BY <2>1, <2>3
  <2> QED
    BY <1>w, <2>1, <2>2, <2>3, <2>4, <2>5
<1>9. CASE EnvironmentDestroyed
  <2>1. row'[u] = "gone" \/ (row[u] = "none" /\ row'[u] = "none")
    BY <1>9 DEF EnvironmentDestroyed
  <2>2. UNCHANGED <<post, run>>
    BY <1>9 DEF EnvironmentDestroyed
  <2> QED
    BY <1>r, <2>1, <2>2
<1>10. CASE UNCHANGED <<row, post, run>>
  BY <1>10, <1>r
<1>11. CASE Restart
  <2>1. UNCHANGED <<row, run, known>> /\ (post[u] # "record" \/ u \in excused')
    BY <1>11 DEF Restart
  <2> QED
    BY <1>p, <2>1
<1> QED
  BY <1>1, <1>2, <1>3, <1>4, <1>5, <1>6, <1>7, <1>8, <1>9, <1>10, <1>11 DEF Next, Refresh, AbortReads,
     RefreshReads, RefreshQueries, RefreshFails, clients, vars

LEMMA FollowInvariant == Spec => [](FinishedMeansCompleted /\ GoingRunsAreFollowed)
<1>1. Init => Proc /\ FinishedMeansCompleted /\ GoingRunsAreFollowed
  BY ProcInit DEF Init, FinishedMeansCompleted, GoingRunsAreFollowed
<1>2. Proc /\ FinishedMeansCompleted /\ GoingRunsAreFollowed /\ [Next]_vars
        => (Proc /\ FinishedMeansCompleted /\ GoingRunsAreFollowed)'
  BY ProcStep, FollowStep
<1> QED
  BY <1>1, <1>2, PTL DEF Spec

\* However stale the answers that refreshes write, "finished" is only said of a run that
\* completed.
THEOREM FinishedIsTrue == Spec => []FinishedMeansCompleted
<1>1. FinishedMeansCompleted /\ GoingRunsAreFollowed => FinishedMeansCompleted
  OBVIOUS
<1> QED
  BY <1>1, FollowInvariant, PTL

\* A run that is still going has an active row that knows it, but for the cases that
\* GoingRunsAreFollowed names.
THEOREM RunsAreFollowed == Spec => []GoingRunsAreFollowed
<1>1. FinishedMeansCompleted /\ GoingRunsAreFollowed => GoingRunsAreFollowed
  OBVIOUS
<1> QED
  BY <1>1, FollowInvariant, PTL

------------------------------------------------------------------------------
(* Lifecycles. *)

\* What may be said of a run with status s, as TestLifecycle has it.
Sayable(t, s) == Lifecycle(t)!MaySay[s]

\* Until its launch is recorded, a row is as the POST created it, or aborted, or gone.
LaunchInv(t) ==
  post[t] \in {"launch", "record", "error"} /\ ~known[t] => row[t] \in {"queued", "aborted", "gone"}

\* However old the answer a refresh is about to write, it may still be said of the run.
SaidInv(g) ==
  LET t == refresh[g].test
  IN  refresh[g].step = "write" => LocalStatus(refresh[g].run) \in Sayable(t, run[t])

LifeInv == (\A t \in Tests : LaunchInv(t)) /\ (\A g \in Refreshes : SaidInv(g))

LEMMA SayableTable ==
  ASSUME NEW t \in Tests
  PROVE  /\ DOMAIN Lifecycle(t)!MaySay = {"none"} \cup RunStatuses
         /\ \A s \in RunStatuses : LocalStatus(s) \in Sayable(t, s)
         /\ \A s \in DOMAIN RunNext : \A r \in RunNext[s] \cup {"aborted"} :
              Sayable(t, s) \subseteq Sayable(t, r)
         /\ \A s \in RunStatuses :
              ~RunEnded(s) => Sayable(t, s) \subseteq Sayable(t, "aborted")
<1>1. DOMAIN Lifecycle(t)!MaySay = {"none"} \cup RunStatuses
  BY DEF Lifecycle!MaySay, RunStatuses
<1>2. /\ Sayable(t, "created") = {"queued"}
      /\ Sayable(t, "initializing") = {"queued", "initializing"}
      /\ Sayable(t, "running") = {"queued", "initializing", "running"}
      /\ Sayable(t, "completed") = {"queued", "initializing", "running", "finished"}
      /\ Sayable(t, "aborted") = {"queued", "initializing", "running", "aborted"}
  BY DEF Sayable, Lifecycle!MaySay
<1>3. \A s \in RunStatuses : LocalStatus(s) \in Sayable(t, s)
  BY <1>2 DEF LocalStatus, RunStatuses
<1>4. \A s \in RunStatuses : ~RunEnded(s) => Sayable(t, s) \subseteq Sayable(t, "aborted")
  BY <1>2 DEF RunStatuses, RunEnded
<1>5. ASSUME NEW s \in DOMAIN RunNext, NEW r \in RunNext[s]
      PROVE  Sayable(t, s) \subseteq Sayable(t, r)
  BY <1>2, <1>5 DEF RunNext
<1>6. \A s \in DOMAIN RunNext : s \in RunStatuses /\ ~RunEnded(s)
  BY Statuses
<1> QED
  BY <1>1, <1>3, <1>4, <1>5, <1>6

\* A run does not go back on what could be said of it.
LEMMA RunsGoOn ==
  ASSUME Proc, [Next]_vars, NEW t \in Tests, run[t] # "none"
  PROVE  run'[t] \in RunStatuses /\ Sayable(t, run[t]) \subseteq Sayable(t, run'[t])
<1> USE Statuses, SayableTable
<1>t. run \in [Tests -> {"none"} \cup RunStatuses] /\ TypeOK
  BY DEF Proc, TypeOK
<1>1. ASSUME NEW u \in Tests, RunMoves(u)
      PROVE  run'[t] \in RunStatuses /\ Sayable(t, run[t]) \subseteq Sayable(t, run'[t])
  <2>1. PICK s \in RunNext[run[u]] \cup {"aborted"} : run' = [run EXCEPT ![u] = s]
    BY <1>1 DEF RunMoves
  <2>2. run[u] \in DOMAIN RunNext /\ s \in RunStatuses
    BY <1>1 DEF RunMoves
  <2>3. CASE u = t
    <3>1. run'[t] = s
      BY <1>t, <2>1, <2>3
    <3> QED
      BY <2>2, <2>3, <3>1
  <2>4. CASE u # t
    BY <1>t, <2>1, <2>4
  <2> QED
    BY <2>3, <2>4
<1>2. ASSUME NEW a \in Aborts, AbortStops(a)
      PROVE  run'[t] \in RunStatuses /\ Sayable(t, run[t]) \subseteq Sayable(t, run'[t])
  <2>1. \/ run' = run
        \/ run' = [run EXCEPT ![abort[a].test] = IF RunEnded(@) THEN @ ELSE "aborted"]
    BY <1>2 DEF AbortStops
  <2>2. run'[t] = run[t] \/ (~RunEnded(run[t]) /\ run'[t] = "aborted")
    BY <1>t, <2>1
  <2> QED
    BY <1>t, <2>2
<1>3. ASSUME NEW u \in Tests, LaunchSucceeds(u) \/ LaunchFails(u)
      PROVE  run'[t] = run[t]
  <2>1. run[u] = "none" /\ (run' = run \/ run' = [run EXCEPT ![u] = "created"])
    BY <1>3 DEF LaunchSucceeds, LaunchFails, Proc, TestInv
  <2> QED
    BY <1>t, <2>1
<1>4. CASE UNCHANGED run
  BY <1>t, <1>4
<1> QED
  BY <1>t, <1>1, <1>2, <1>3, <1>4 DEF Next, Refresh, PostChecks, PostCreates, PostRecords,
     PostRecordFails, PostRecordsError, AbortReads, AbortMarks, RefreshReads, RefreshQueries,
     RefreshFails, RefreshWrites, Restart, EnvironmentDestroyed, vars

\* A refresh writes the row of a test whose launch was recorded.
LEMMA RefreshWritesKnown ==
  ASSUME Proc, NEW g \in Refreshes, RefreshWrites(g)
  PROVE  /\ refresh[g].test \in Tests
         /\ known[refresh[g].test]
         /\ row[refresh[g].test] # "none"
         /\ refresh[g].run \in RunStatuses
         /\ LocalStatus(refresh[g].run) \in Active \cup Terminal
         /\ \A u \in Tests :
              row'[u] = IF u = refresh[g].test /\ row[u] # "gone"
                        THEN LocalStatus(refresh[g].run) ELSE row[u]
<1>1. refresh[g].test \in Tests /\ known[refresh[g].test] /\ refresh[g].run \in RunStatuses
  BY DEF RefreshWrites, Proc, RefreshInv
<1>2. row[refresh[g].test] # "none"
  BY <1>1 DEF Proc, TestInv
<1>3. LocalStatus(refresh[g].run) \in Active \cup Terminal
  BY <1>1, LocalStatusType
<1> QED
  BY <1>1, <1>2, <1>3, UpdateEffect DEF RefreshWrites, Proc

LEMMA LaunchStep ==
  ASSUME Proc, [Next]_vars, NEW t \in Tests, LaunchInv(t)
  PROVE  LaunchInv(t)'
<1> USE Statuses
<1>t. /\ row \in [Tests -> {"none", "gone"} \cup Active \cup Terminal]
      /\ known \in [Tests -> BOOLEAN]
      /\ post \in [Tests -> {"idle", "create", "launch", "record", "error", "end"}]
      /\ TypeOK
  BY DEF Proc, TypeOK
<1>s. known[t] => known'[t]
  BY StableStep DEF Stable
<1>k. ASSUME post'[t] = post[t] \/ post'[t] \in {"idle", "create", "end"},
             known[t] \/ row'[t] \in {row[t], "aborted", "gone"}
      PROVE  LaunchInv(t)'
  BY <1>k, <1>s DEF LaunchInv
<1>1. ASSUME NEW u \in Tests, PostChecks(u) PROVE LaunchInv(t)'
  <2>1. row' = row /\ post' = [post EXCEPT ![u] = "create"]
    BY <1>1 DEF PostChecks, PGo
  <2> QED
    BY <1>t, <1>k, <2>1
<1>2. ASSUME NEW u \in Tests, PostCreates(u) PROVE LaunchInv(t)'
  <2>1. \E s \in {"launch", "end"} : post' = [post EXCEPT ![u] = s]
    BY <1>2 DEF PostCreates, PGo
  <2>2. (row' = row /\ post'[u] = "end") \/ row' = [row EXCEPT ![u] = "queued"]
    BY <1>2, <1>t DEF PostCreates, PGo
  <2> QED
    BY <1>t, <1>k, <2>1, <2>2 DEF LaunchInv
<1>3. ASSUME NEW u \in Tests, LaunchSucceeds(u) \/ LaunchFails(u) PROVE LaunchInv(t)'
  <2>1. /\ row' = row /\ known' = known /\ post[u] = "launch"
        /\ post' = [post EXCEPT ![u] = "record"] \/ post' = [post EXCEPT ![u] = "error"]
    BY <1>3 DEF LaunchSucceeds, LaunchFails, PGo
  <2> QED
    BY <1>t, <1>k, <2>1 DEF LaunchInv
<1>4. ASSUME NEW u \in Tests, PostRecords(u) \/ PostRecordFails(u) \/ PostRecordsError(u)
      PROVE  LaunchInv(t)'
  <2>1. (\E s \in Active \cup Terminal : Update(u, s)) \/ UNCHANGED <<row, slipped>>
    BY <1>4 DEF PostRecords, PostRecordFails, PostRecordsError
  <2>2. u # t => row'[t] = row[t]
    BY <1>t, <2>1, UpdateEffect
  <2>3. /\ u # t => post'[t] = post[t]
        /\ post'[u] = "end" \/ (post[u] = "record" /\ (known'[u] \/ row' = row))
    BY <1>4, <1>t DEF PostRecords, PostRecordFails, PostRecordsError, PGo
  <2>4. CASE u = t /\ post'[u] # "end"
    BY <1>s, <2>3, <2>4 DEF LaunchInv
  <2>5. CASE u # t \/ post'[u] = "end"
    BY <1>k, <2>2, <2>3, <2>5 DEF LaunchInv
  <2> QED
    BY <2>4, <2>5
<1>5. ASSUME NEW a \in Aborts, AbortMarks(a) PROVE LaunchInv(t)'
  <2>1. abort[a].test \in Tests
    BY <1>5 DEF AbortMarks, Proc, AbortInv
  <2>2. row'[t] \in {row[t], "aborted"} /\ post' = post
    BY <1>5, <1>t, <2>1, UpdateEffect DEF AbortMarks
  <2> QED
    BY <1>k, <2>2
<1>6. ASSUME NEW g \in Refreshes, RefreshWrites(g) PROVE LaunchInv(t)'
  <2>1. post' = post /\ (known[t] \/ row'[t] = row[t])
    BY <1>6, RefreshWritesKnown DEF RefreshWrites
  <2> QED
    BY <1>k, <2>1
<1>7. CASE EnvironmentDestroyed
  <2>1. post' = post /\ row'[t] \in {row[t], "gone"}
    BY <1>7 DEF EnvironmentDestroyed
  <2> QED
    BY <1>k, <2>1
<1>8. CASE UNCHANGED <<row, post>>
  BY <1>8, <1>k
<1>9. CASE Restart
  BY <1>9, <1>k DEF Restart
<1> QED
  BY <1>1, <1>2, <1>3, <1>4, <1>5, <1>6, <1>7, <1>8, <1>9 DEF Next, Refresh, RunMoves, AbortReads,
     AbortStops, RefreshReads, RefreshQueries, RefreshFails, vars

LEMMA SaidStep ==
  ASSUME Proc, [Next]_vars, NEW h \in Refreshes, SaidInv(h)
  PROVE  SaidInv(h)'
<1> DEFINE R == [step : {"idle", "query", "write"}, test : Tests \cup {Nobody},
                 seen : {"none"} \cup Active, run : {"none"} \cup RunStatuses]
<1>t. refresh \in [Refreshes -> R] /\ run \in [Tests -> {"none"} \cup RunStatuses]
  BY DEF Proc, TypeOK
<1>k. ASSUME refresh'[h] = refresh[h] PROVE SaidInv(h)'
  <2> SUFFICES ASSUME refresh[h].step = "write"
               PROVE  LocalStatus(refresh[h].run)
                        \in Sayable(refresh[h].test, run'[refresh[h].test])
    BY <1>k DEF SaidInv, Sayable, Lifecycle!MaySay
  <2>1. refresh[h].test \in Tests /\ run[refresh[h].test] # "none"
    BY DEF Proc, RefreshInv, TestInv
  <2>2. LocalStatus(refresh[h].run) \in Sayable(refresh[h].test, run[refresh[h].test])
    BY DEF SaidInv
  <2>3. Sayable(refresh[h].test, run[refresh[h].test])
          \subseteq Sayable(refresh[h].test, run'[refresh[h].test])
    BY <2>1, RunsGoOn
  <2> QED
    BY <2>2, <2>3
<1>e. ASSUME refresh'[h].step # "write" PROVE SaidInv(h)'
  BY <1>e DEF SaidInv
<1>1. ASSUME NEW g \in Refreshes, NEW t \in Tests, RefreshReads(g, t) PROVE SaidInv(h)'
  <2>1. refresh' = [refresh EXCEPT ![g] = [step |-> "query", test |-> t, seen |-> row[t],
                                           run |-> "none"]]
    BY <1>1 DEF RefreshReads
  <2>2. refresh'[h] = refresh[h] \/ refresh'[h].step = "query"
    BY <1>t, <2>1
  <2> QED
    BY <1>k, <1>e, <2>2
<1>2. ASSUME NEW g \in Refreshes, RefreshQueries(g) PROVE SaidInv(h)'
  <2> DEFINE t == refresh[g].test
  <2>1. t \in Tests /\ run[t] # "none" /\ run' = run
    BY <1>2 DEF RefreshQueries, Proc, RefreshInv, TestInv
  <2>2. \/ refresh' = [refresh EXCEPT ![g] = Idle]
        \/ refresh' = [refresh EXCEPT ![g] = [@ EXCEPT !.step = "write", !.run = run[t]]]
    BY <1>2, <1>t DEF RefreshQueries
  <2>3. CASE refresh'[h] = refresh[h]
    BY <1>k, <2>3
  <2>4. CASE refresh'[h] = Idle
    BY <1>e, <2>4 DEF Idle
  <2>5. CASE refresh'[h].test = t /\ refresh'[h].run = run[t]
    <3>1. run[t] \in RunStatuses
      BY <1>t, <2>1
    <3>2. LocalStatus(run[t]) \in Sayable(t, run[t])
      BY <2>1, <3>1, SayableTable
    <3> QED
      BY <2>1, <2>5, <3>2 DEF SaidInv, Sayable, Lifecycle!MaySay
  <2>6. CASE refresh' = [refresh EXCEPT ![g] = Idle]
    BY <1>t, <2>3, <2>4, <2>6
  <2>7. CASE refresh' = [refresh EXCEPT ![g] = [@ EXCEPT !.step = "write", !.run = run[t]]]
    <3>1. CASE g = h
      <4>1. refresh[h] \in R /\ refresh'[h] = [refresh[h] EXCEPT !.step = "write", !.run = run[t]]
        BY <1>t, <2>7, <3>1
      <4>2. refresh'[h].test = t /\ refresh'[h].run = run[t]
        BY <3>1, <4>1
      <4> QED
        BY <2>5, <4>2
    <3>2. CASE g # h
      BY <1>t, <2>3, <2>7, <3>2
    <3> QED
      BY <3>1, <3>2
  <2> QED
    BY <2>2, <2>6, <2>7
<1>3. ASSUME NEW g \in Refreshes, RefreshFails(g) \/ RefreshWrites(g) PROVE SaidInv(h)'
  <2>1. refresh' = [refresh EXCEPT ![g] = Idle]
    BY <1>3 DEF RefreshFails, RefreshWrites
  <2>2. refresh'[h] = Idle \/ refresh'[h] = refresh[h]
    BY <1>t, <2>1
  <2> QED
    BY <1>k, <1>e, <2>2 DEF Idle
<1>4. CASE UNCHANGED refresh
  BY <1>4, <1>k
<1>5. CASE Restart
  BY <1>5, <1>e DEF Restart, Idle
<1> QED
  BY <1>1, <1>2, <1>3, <1>4, <1>5 DEF Next, Refresh, PostChecks, PostCreates, LaunchSucceeds,
     LaunchFails, PostRecords, PostRecordFails, PostRecordsError, RunMoves, AbortReads, AbortStops,
     AbortMarks, EnvironmentDestroyed, clients, vars

LEMMA LifeInit == Init => LifeInv /\ \A t \in Tests : Lifecycle(t)!Init
<1> SUFFICES ASSUME Init PROVE LifeInv /\ \A t \in Tests : Lifecycle(t)!Init
  OBVIOUS
<1>1. LifeInv
  BY DEF Init, LifeInv, LaunchInv, SaidInv
<1>2. ASSUME NEW t \in Tests PROVE Lifecycle(t)!Init
  <2>1. ~Asked(t) /\ Launch(t) = "open"
    BY DEF Init, Asked, Launch
  <2> QED
    BY <2>1 DEF Init, Lifecycle!Init
<1> QED
  BY <1>1, <1>2

LEMMA LifeInvStep == Proc /\ LifeInv /\ [Next]_vars => LifeInv'
BY LaunchStep, SaidStep DEF LifeInv

\* Every step is a step of each test's lifecycle, or leaves it alone.
LEMMA LifecycleStep ==
  ASSUME Proc, LifeInv, [Next]_vars, NEW t \in Tests
  PROVE  Lifecycle(t)!Step
<1> USE Statuses
<1>t. /\ row \in [Tests -> {"none", "gone"} \cup Active \cup Terminal]
      /\ known \in [Tests -> BOOLEAN]
      /\ run \in [Tests -> {"none"} \cup RunStatuses]
      /\ post \in [Tests -> {"idle", "create", "launch", "record", "error", "end"}]
      /\ abort \in [Aborts -> [step : {"idle", "stop", "mark", "end"}, test : Tests \cup {Nobody}]]
      /\ TypeOK
  BY DEF Proc, TypeOK
<1>i. TestInv(t) /\ LaunchInv(t)
  BY DEF Proc, LifeInv
<1>l. post'[t] = post[t] => Launch(t)' = Launch(t)
  BY DEF Launch
<1>u. ASSUME row'[t] = row[t], run'[t] = run[t], known'[t] = known[t], Asked(t)' = Asked(t),
             Launch(t)' = Launch(t)
      PROVE  Lifecycle(t)!Step
  BY <1>u DEF Lifecycle!Step, Lifecycle!vars
<1>m. ASSUME UNCHANGED <<row, known>>, Asked(t)' = Asked(t), Launch(t)' = Launch(t), run[t] # "none"
      PROVE  Lifecycle(t)!Step
  <2>1. run'[t] \in DOMAIN Lifecycle(t)!MaySay
    BY <1>m, RunsGoOn, SayableTable
  <2>2. Lifecycle(t)!MaySay[run[t]] \subseteq Lifecycle(t)!MaySay[run'[t]]
    BY <1>m, RunsGoOn DEF Sayable
  <2>3. Lifecycle(t)!Move
    BY <1>m, <2>1, <2>2 DEF Lifecycle!Move
  <2> QED
    BY <2>3 DEF Lifecycle!Step, Lifecycle!Next
<1>g. ASSUME row'[t] = row[t], run'[t] = run[t], known'[t] = known[t], Asked(t)' = Asked(t),
             Launch(t) # "over",
             Launch(t)' = "over" \/ (Launch(t) = "open" /\ row[t] # "none" /\ Launch(t)' = "failed")
      PROVE  Lifecycle(t)!Step
  BY <1>g DEF Lifecycle!Step, Lifecycle!Next, Lifecycle!GiveUp
<1>a. abort' = abort => Asked(t)' = Asked(t)
  BY DEF Asked
<1>1. ASSUME NEW u \in Tests, PostChecks(u) PROVE Lifecycle(t)!Step
  <2>1. /\ UNCHANGED <<row, run, known, abort>>
        /\ post[u] = "idle" /\ post' = [post EXCEPT ![u] = "create"]
    BY <1>1 DEF PostChecks, PGo, clients
  <2>2. Launch(t)' = Launch(t)
    BY <1>t, <2>1 DEF Launch
  <2> QED
    BY <1>u, <1>a, <2>1, <2>2
<1>2. ASSUME NEW u \in Tests, PostCreates(u) PROVE Lifecycle(t)!Step
  <2>1. UNCHANGED <<known, run>> /\ Asked(t)' = Asked(t)
    BY <1>2, <1>a DEF PostCreates, clients
  <2>2. CASE u # t
    BY <1>2, <1>t, <1>u, <1>l, <2>1, <2>2 DEF PostCreates, PGo
  <2>3. CASE u = t
    <3>1. Launch(t) = "open" /\ row[t] = "none"
      BY <1>2, <1>i, <2>3 DEF PostCreates, Launch, TestInv
    <3>2. Launch(t)' \in {"open", "over"}
      BY <1>2, <1>t, <2>3 DEF PostCreates, PGo, Launch
    <3>3. row'[t] = "queued" \/ (row'[t] = row[t] /\ Launch(t)' = "over")
      BY <1>2, <1>t, <2>3 DEF PostCreates, PGo, Launch
    <3>4. CASE row'[t] = "queued"
      BY <2>1, <3>1, <3>2, <3>4 DEF Lifecycle!Step, Lifecycle!Next, Lifecycle!Create
    <3> QED
      BY <1>g, <2>1, <3>1, <3>3, <3>4
  <2> QED
    BY <2>2, <2>3
<1>3. ASSUME NEW u \in Tests, LaunchSucceeds(u) \/ LaunchFails(u) PROVE Lifecycle(t)!Step
  <2>1. UNCHANGED <<row, known>> /\ Asked(t)' = Asked(t)
    BY <1>3, <1>a DEF LaunchSucceeds, LaunchFails, clients
  <2>2. CASE u # t
    BY <1>3, <1>t, <1>u, <1>l, <2>1, <2>2 DEF LaunchSucceeds, LaunchFails, PGo
  <2>3. CASE u = t
    <3>1. Launch(t) = "open" /\ row[t] # "none" /\ run[t] = "none"
      BY <1>3, <1>i, <2>3 DEF LaunchSucceeds, LaunchFails, Launch, TestInv
    <3>2. Launch(t)' \in {"open", "failed"}
      BY <1>3, <1>t, <2>3 DEF LaunchSucceeds, LaunchFails, PGo, Launch
    <3>3. run'[t] = "created" \/ (run'[t] = run[t] /\ Launch(t)' = "failed")
      BY <1>3, <1>t, <2>3 DEF LaunchSucceeds, LaunchFails, PGo, Launch
    <3>4. CASE run'[t] = "created"
      BY <2>1, <3>1, <3>2, <3>4 DEF Lifecycle!Step, Lifecycle!Next, Lifecycle!Start
    <3> QED
      BY <1>g, <2>1, <3>1, <3>3, <3>4
  <2> QED
    BY <2>2, <2>3
<1>4. ASSUME NEW u \in Tests, PostRecords(u) \/ PostRecordFails(u) PROVE Lifecycle(t)!Step
  <2>1. run' = run /\ Asked(t)' = Asked(t)
    BY <1>4, <1>a DEF PostRecords, PostRecordFails, clients
  <2>2. \/ /\ row[u] # "gone" /\ Update(u, "initializing") /\ known' = [known EXCEPT ![u] = TRUE]
           /\ \E s \in {"error", "end"} : post' = [post EXCEPT ![u] = s]
        \/ UNCHANGED <<row, known>> /\ post' = [post EXCEPT ![u] = "error"]
    BY <1>4 DEF PostRecords, PostRecordFails, PGo
  <2>3. CASE u # t
    <3>1. row'[t] = row[t]
      BY <1>t, <2>2, <2>3, UpdateEffect
    <3>2. known'[t] = known[t] /\ post'[t] = post[t]
      BY <1>t, <2>2, <2>3
    <3> QED
      BY <1>u, <1>l, <2>1, <3>1, <3>2
  <2>4. CASE u = t
    <3>1. /\ Launch(t) = "open" /\ row[t] \in {"queued", "aborted", "gone"}
          /\ run[t] # "none" /\ known[t] = FALSE
      BY <1>4, <1>t, <1>i, <2>4 DEF PostRecords, PostRecordFails, LaunchInv, TestInv, Launch
    <3>2. CASE /\ row[u] # "gone" /\ Update(u, "initializing") /\ known' = [known EXCEPT ![u] = TRUE]
               /\ \E s \in {"error", "end"} : post' = [post EXCEPT ![u] = s]
      <4>1. row'[t] = "initializing"
        BY <1>t, <2>4, <3>2, UpdateEffect
      <4>2. known'[t] = TRUE /\ Launch(t)' \in {"over", "failed"}
        BY <1>t, <2>4, <3>2 DEF Launch
      <4>3. row[t] \in {"queued", "aborted"}
        BY <2>4, <3>1, <3>2
      <4> QED
        BY <2>1, <3>1, <4>1, <4>2, <4>3 DEF Lifecycle!Step, Lifecycle!Next, Lifecycle!Record
    <3>3. CASE UNCHANGED <<row, known>> /\ post' = [post EXCEPT ![u] = "error"]
      <4>1. Launch(t)' = "failed"
        BY <1>t, <2>4, <3>3 DEF Launch
      <4> QED
        BY <1>g, <2>1, <3>1, <3>3, <4>1
    <3> QED
      BY <2>2, <3>2, <3>3
  <2> QED
    BY <2>3, <2>4
<1>5. ASSUME NEW u \in Tests, PostRecordsError(u) PROVE Lifecycle(t)!Step
  <2>1. /\ UNCHANGED <<run, known>> /\ Asked(t)' = Asked(t)
        /\ post[u] = "error" /\ post' = [post EXCEPT ![u] = "end"]
    BY <1>5, <1>a DEF PostRecordsError, PGo, clients
  <2>2. UNCHANGED row \/ \A v \in Tests : row'[v] = IF v = u /\ row[u] # "gone" THEN "error" ELSE row[v]
    BY <1>5, <1>t, UpdateEffect DEF PostRecordsError
  <2>3. CASE u # t
    <3>1. row'[t] = row[t] /\ post'[t] = post[t]
      BY <1>t, <2>1, <2>2, <2>3
    <3> QED
      BY <1>u, <1>l, <2>1, <3>1
  <2>4. CASE u = t
    <3>1. Launch(t) = "failed" /\ Launch(t)' = "over"
      BY <1>t, <2>1, <2>4 DEF Launch
    <3>2. row[t] # "none" /\ (known[t] \/ row[t] \in {"queued", "aborted", "gone"})
      BY <1>i, <2>1, <2>4 DEF LaunchInv, TestInv
    <3>3. row'[t] = row[t] \/ (row[t] # "gone" /\ row'[t] = "error")
      BY <2>2, <2>4
    <3>4. CASE row[t] # "gone" /\ row'[t] = "error"
      BY <2>1, <3>1, <3>2, <3>4
         DEF Lifecycle!Step, Lifecycle!Next, Lifecycle!RecordError, Lifecycle!Exists
    <3> QED
      BY <1>g, <2>1, <3>1, <3>3, <3>4
  <2> QED
    BY <2>3, <2>4
<1>6. ASSUME NEW u \in Tests, RunMoves(u) PROVE Lifecycle(t)!Step
  <2>1. UNCHANGED <<row, known>> /\ Asked(t)' = Asked(t) /\ Launch(t)' = Launch(t)
    BY <1>6, <1>a, <1>l DEF RunMoves, clients
  <2>2. run'[t] = run[t] \/ run[t] # "none"
    BY <1>6, <1>t DEF RunMoves
  <2> QED
    BY <1>u, <1>m, <2>1, <2>2
<1>7. ASSUME NEW a \in Aborts, NEW u \in Tests, AbortReads(a, u) PROVE Lifecycle(t)!Step
  <2>1. UNCHANGED <<row, known, run>> /\ Launch(t)' = Launch(t)
    BY <1>7, <1>l DEF AbortReads
  <2>2. /\ row[u] \in Active /\ abort[a].step = "idle"
        /\ \E s \in {"stop", "mark"} : abort' = [abort EXCEPT ![a] = [step |-> s, test |-> u]]
    BY <1>7 DEF AbortReads
  <2>3. /\ abort'[a].step # "idle" /\ abort'[a].test = u
        /\ \A b \in Aborts : b # a => abort'[b] = abort[b]
    BY <1>t, <2>2
  <2>4. CASE u = t
    <3>1. Asked(t)' = TRUE /\ row[t] \notin {"none", "gone"}
      BY <2>2, <2>3, <2>4 DEF Asked
    <3>2. Lifecycle(t)!Ask
      BY <2>1, <3>1 DEF Lifecycle!Ask, Lifecycle!Exists
    <3> QED
      BY <3>2 DEF Lifecycle!Step, Lifecycle!Next
  <2>5. CASE u # t
    <3>1. Asked(t)' <=> Asked(t)
      BY <2>2, <2>3, <2>5 DEF Asked
    <3>2. Asked(t)' \in BOOLEAN /\ Asked(t) \in BOOLEAN
      BY DEF Asked
    <3> QED
      BY <1>u, <2>1, <3>1, <3>2
  <2> QED
    BY <2>4, <2>5
<1>8. ASSUME NEW a \in Aborts, AbortStops(a) \/ AbortMarks(a) PROVE Lifecycle(t)!Step
  <2> DEFINE u == abort[a].test
  <2>1. u \in Tests /\ row[u] # "none" /\ (abort[a].step = "stop" => run[u] # "none")
    BY <1>8 DEF AbortStops, AbortMarks, Proc, AbortInv
  <2>2. abort[a].step # "idle" /\ \E s \in {"mark", "end"} : abort' = [abort EXCEPT ![a].step = s]
    BY <1>8 DEF AbortStops, AbortMarks
  <2>3. \A b \in Aborts :
          /\ abort'[b].test = abort[b].test
          /\ abort'[b].step = "idle" <=> abort[b].step = "idle"
    BY <1>t, <2>2
  <2>4. Asked(t)' = Asked(t) /\ Launch(t)' = Launch(t)
    BY <1>8, <1>l, <2>3 DEF Asked, AbortStops, AbortMarks
  <2>5. CASE AbortStops(a)
    <3>1. UNCHANGED <<row, known>>
      BY <2>5 DEF AbortStops
    <3>2. run'[t] = run[t] \/ run[t] # "none"
      BY <1>t, <2>1, <2>5 DEF AbortStops
    <3> QED
      BY <1>u, <1>m, <2>4, <3>1, <3>2
  <2>6. CASE AbortMarks(a)
    <3>1. UNCHANGED <<run, known>>
      BY <2>6 DEF AbortMarks
    <3>2. \/ row' = row
          \/ \A v \in Tests : row'[v] = IF v = u /\ row[u] # "gone" THEN "aborted" ELSE row[v]
      BY <1>t, <2>1, <2>6, UpdateEffect DEF AbortMarks
    <3>3. CASE u = t /\ row[t] # "gone" /\ row' # row
      <4>1. row'[t] = "aborted" /\ row[t] \notin {"none", "gone"}
        BY <2>1, <3>2, <3>3
      <4>2. Asked(t)
        BY <2>2, <3>3 DEF Asked
      <4> QED
        BY <2>4, <3>1, <4>1, <4>2 DEF Lifecycle!Step, Lifecycle!Next, Lifecycle!Mark, Lifecycle!Exists
    <3>4. CASE ~(u = t /\ row[t] # "gone" /\ row' # row)
      BY <1>u, <2>4, <3>1, <3>2, <3>4
    <3> QED
      BY <3>3, <3>4
  <2> QED
    BY <1>8, <2>5, <2>6
<1>9. ASSUME NEW g \in Refreshes, Refresh(g) PROVE Lifecycle(t)!Step
  <2>1. UNCHANGED <<known, run>> /\ Asked(t)' = Asked(t) /\ Launch(t)' = Launch(t)
    BY <1>9, <1>a, <1>l DEF Refresh, RefreshReads, RefreshQueries, RefreshFails, RefreshWrites
  <2>2. CASE RefreshWrites(g)
    <3> DEFINE u == refresh[g].test
               s == LocalStatus(refresh[g].run)
    <3>1. /\ u \in Tests /\ known[u] /\ row[u] # "none"
          /\ \A v \in Tests : row'[v] = IF v = u /\ row[v] # "gone" THEN s ELSE row[v]
      BY <2>2, RefreshWritesKnown
    <3>2. s \in Sayable(u, run[u])
      BY <2>2 DEF RefreshWrites, LifeInv, SaidInv
    <3>3. CASE u = t /\ row[t] # "gone"
      <4>1. row'[t] = s /\ known[t] /\ row[t] \notin {"none", "gone"}
        BY <3>1, <3>3
      <4>2. row'[t] \in Lifecycle(t)!MaySay[run[t]]
        BY <3>2, <3>3, <4>1 DEF Sayable
      <4>3. Lifecycle(t)!Follow
        BY <2>1, <4>1, <4>2 DEF Lifecycle!Follow, Lifecycle!Exists
      <4> QED
        BY <4>3 DEF Lifecycle!Step, Lifecycle!Next
    <3>4. CASE ~(u = t /\ row[t] # "gone")
      BY <1>u, <2>1, <3>1, <3>4
    <3> QED
      BY <3>3, <3>4
  <2>3. CASE ~RefreshWrites(g)
    <3>1. row' = row
      BY <1>9, <2>3 DEF Refresh, RefreshReads, RefreshQueries, RefreshFails
    <3> QED
      BY <1>u, <2>1, <3>1
  <2> QED
    BY <2>2, <2>3
<1>10. CASE EnvironmentDestroyed
  <2>1. UNCHANGED <<known, run>> /\ Asked(t)' = Asked(t) /\ Launch(t)' = Launch(t)
    BY <1>10, <1>a, <1>l DEF EnvironmentDestroyed, clients
  <2>2. row'[t] = IF row[t] = "none" THEN "none" ELSE "gone"
    BY <1>10 DEF EnvironmentDestroyed
  <2>3. CASE row[t] \notin {"none", "gone"}
    <3>1. Lifecycle(t)!Delete
      BY <2>1, <2>2, <2>3 DEF Lifecycle!Delete, Lifecycle!Exists
    <3> QED
      BY <3>1 DEF Lifecycle!Step, Lifecycle!Next
  <2>4. CASE row[t] \in {"none", "gone"}
    BY <1>u, <2>1, <2>2, <2>4
  <2> QED
    BY <2>3, <2>4
<1>11. CASE Restart
  <2>1. UNCHANGED <<row, run, known>>
    BY <1>11 DEF Restart
  <2>2. \A b \in Aborts :
          /\ abort'[b].test = abort[b].test
          /\ abort'[b].step = "idle" <=> abort[b].step = "idle"
    BY <1>11, <1>t DEF Restart
  <2>3. Asked(t)' = Asked(t)
    BY <2>2 DEF Asked
  <2>4. post'[t] = IF post[t] = "idle" THEN "idle" ELSE "end"
    BY <1>11 DEF Restart
  <2>5. Launch(t)' = Launch(t) \/ (Launch(t) # "over" /\ Launch(t)' = "over")
    BY <2>4 DEF Launch
  <2> QED
    BY <1>u, <1>g, <2>1, <2>3, <2>5
<1>12. CASE UNCHANGED vars
  BY <1>12, <1>u, <1>a, <1>l DEF vars
<1> QED
  BY <1>1, <1>2, <1>3, <1>4, <1>5, <1>6, <1>7, <1>8, <1>9, <1>10, <1>11, <1>12 DEF Next

\* Every test goes through a TestLifecycle, whichever POSTs, aborts and refreshes overlap: a
\* refresh may be late, but what it writes was true of the run, and of a run that is known.
THEOREM TestsHaveLifecycles == Spec => ImplementsLifecycle
<1> DEFINE I == \A t \in Tests : Lifecycle(t)!Init
           A == \A t \in Tests : Lifecycle(t)!Step
<1>1. Init => Proc /\ LifeInv /\ I
  BY ProcInit, LifeInit
<1>2. Proc /\ LifeInv /\ [Next]_vars => Proc' /\ LifeInv'
  BY ProcStep, LifeInvStep
<1>3. Proc /\ LifeInv /\ [Next]_vars => A
  BY LifecycleStep
<1> HIDE DEF I, A
<1>4. Spec => I /\ [][A]_vars
  BY <1>1, <1>2, <1>3, PTL DEF Spec
<1> QED
  BY <1>4 DEF ImplementsLifecycle, I, A

\* The same, said of one test: the program implements its TestLifecycle.
THEOREM EachIsALifecycle == \A t \in Tests : Spec => Lifecycle(t)!Spec
<1> SUFFICES ASSUME NEW t \in Tests PROVE Spec => Lifecycle(t)!Spec
  OBVIOUS
<1>1. Init => Proc /\ LifeInv /\ Lifecycle(t)!Init
  BY ProcInit, LifeInit
<1>2. Proc /\ LifeInv /\ [Next]_vars => Proc' /\ LifeInv'
  BY ProcStep, LifeInvStep
<1>3. Proc /\ LifeInv /\ [Next]_vars => [Lifecycle(t)!Next]_(Lifecycle(t)!vars)
  BY LifecycleStep DEF Lifecycle!Step
<1> QED
  BY <1>1, <1>2, <1>3, PTL DEF Spec, Lifecycle!Spec

=============================================================================
