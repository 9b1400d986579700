---------------------------- MODULE JobLifecycle ----------------------------
(***************************************************************************)
(* What a backtest job promises to whoever created it, without tasks,      *)
(* permits, retries, sandboxes or rows: it starts at most once, every      *)
(* trial settles at most once, the job finishes only when all trials have  *)
(* settled and with the verdict their results determine, and a job that is *)
(* abandoned (start-up error, cancellation) never finishes, although its   *)
(* trials may still settle.                                                *)
(***************************************************************************)
CONSTANT Trials

VARIABLES
  phase,    \* "pending", "running", "finished", "abandoned"
  result,   \* of each trial: "open", "ok", "err", "lost" (its task panicked)
  verdict   \* "none", "succeeded", "failed"

Init ==
  /\ phase = "pending"
  /\ result = [t \in Trials |-> "open"]
  /\ verdict = "none"

Start ==
  /\ phase = "pending"
  /\ phase' = "running"
  /\ UNCHANGED <<result, verdict>>

Settle(t) ==
  /\ phase \in {"running", "abandoned"}
  /\ result[t] = "open"
  /\ \E r \in {"ok", "err", "lost"} : result' = [result EXCEPT ![t] = r]
  /\ UNCHANGED <<phase, verdict>>

\* A job fails when some trial failed and none succeeded.
Finish ==
  /\ phase = "running"
  /\ \A t \in Trials : result[t] # "open"
  /\ phase' = "finished"
  /\ verdict' = IF (\E t \in Trials : result[t] = "err") /\ (\A t \in Trials : result[t] # "ok")
                THEN "failed" ELSE "succeeded"
  /\ UNCHANGED result

Abandon ==
  /\ phase \in {"pending", "running"}
  /\ phase' = "abandoned"
  /\ UNCHANGED <<result, verdict>>

Next == Start \/ (\E t \in Trials : Settle(t)) \/ Finish \/ Abandon

Spec == Init /\ [][Next]_<<phase, result, verdict>>
=============================================================================
