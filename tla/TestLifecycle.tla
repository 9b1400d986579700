---------------------------- MODULE TestLifecycle ----------------------------
(***************************************************************************)
(* What the load test routes promise of one test, without POSTs, aborts,   *)
(* refreshes or other tests.  Its row is created once, and its run starts  *)
(* once at most, while the launch is open and never before the row.  The   *)
(* row says of the run only what the run has been through, however late it *)
(* says so, and only once it knows the id of a run that was started;       *)
(* nothing makes it forget the id.  It says "error" only once, of a launch *)
(* that failed or was taken for failed because the recording of the id     *)
(* did, and "aborted" only if the run was, or somebody asked for it.  A    *)
(* row that is gone does not come back.                                    *)
(***************************************************************************)

VARIABLES
  row,     \* what the row says; "none" before it is created, "gone" after
  run,     \* the status of the run at k6; "none" before it starts
  known,   \* the row has the id of the run
  launch,  \* the launch is "open", "failed" to those who asked for it, or "over"
  asked    \* somebody asked to abort the test

\* What may be said of a run in each status: where it is, or where it was.
MaySay == [none         |-> {},
           created      |-> {"queued"},
           initializing |-> {"queued", "initializing"},
           running      |-> {"queued", "initializing", "running"},
           completed    |-> {"queued", "initializing", "running", "finished"},
           aborted      |-> {"queued", "initializing", "running", "aborted"}]

Exists == row \notin {"none", "gone"}

Init ==
  /\ row = "none"
  /\ run = "none"
  /\ known = FALSE
  /\ launch = "open"
  /\ asked = FALSE

Create ==
  /\ row = "none"
  /\ launch = "open"
  /\ row' = "queued"
  /\ launch' \in {"open", "over"}
  /\ UNCHANGED <<run, known, asked>>

Start ==
  /\ run = "none"
  /\ row # "none"
  /\ launch = "open"
  /\ run' = "created"
  /\ launch' \in {"open", "failed"}
  /\ UNCHANGED <<row, known, asked>>

\* The launch fails, or nobody works on it any more.
GiveUp ==
  /\ launch # "over"
  /\ \/ launch = "open" /\ row # "none" /\ launch' = "failed"
     \/ launch' = "over"
  /\ UNCHANGED <<row, run, known, asked>>

\* A run does not go back on what could be said of it.
Move ==
  /\ run # "none"
  /\ \E s \in DOMAIN MaySay : MaySay[run] \subseteq MaySay[s] /\ run' = s
  /\ UNCHANGED <<row, known, launch, asked>>

\* A launch is recorded once; an abort may have been first to write, a refresh may not.  The
\* recording may count as failed.
Record ==
  /\ row \in {"queued", "aborted"}
  /\ run # "none"
  /\ launch = "open"
  /\ ~known
  /\ known' = TRUE
  /\ row' = "initializing"
  /\ launch' \in {"over", "failed"}
  /\ UNCHANGED <<run, asked>>

RecordError ==
  /\ row \in {"queued", "aborted"} \/ (Exists /\ known)
  /\ launch = "failed"
  /\ row' = "error"
  /\ launch' = "over"
  /\ UNCHANGED <<run, known, asked>>

Follow ==
  /\ Exists
  /\ known
  /\ row' \in MaySay[run]
  /\ UNCHANGED <<run, known, launch, asked>>

Ask ==
  /\ Exists
  /\ asked' = TRUE
  /\ UNCHANGED <<row, run, known, launch>>

Mark ==
  /\ Exists
  /\ asked
  /\ row' = "aborted"
  /\ UNCHANGED <<run, known, launch, asked>>

Delete ==
  /\ Exists
  /\ row' = "gone"
  /\ UNCHANGED <<run, known, launch, asked>>

Next ==
  \/ Create \/ Start \/ GiveUp \/ Move \/ Record \/ RecordError
  \/ Follow \/ Ask \/ Mark \/ Delete

vars == <<row, run, known, launch, asked>>

Step == UNCHANGED vars \/ Next

Spec == Init /\ [][Next]_vars
=============================================================================
