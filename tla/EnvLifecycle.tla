---------------------------- MODULE EnvLifecycle ----------------------------
(***************************************************************************)
(* What the environment manager promises of one environment, without       *)
(* calls, faults, requests or other environments.  Its provisioning comes  *)
(* to one end: it succeeds, fails or is cut off.  Resources are added      *)
(* while it is open and at no other time; one is given up only after it    *)
(* failed, or for somebody who asked to destroy the environment.           *)
(* The row says RUNNING once at most and never in the same life as ERROR,  *)
(* and ERROR only when nothing is held.  A row that is gone does not come  *)
(* back, and when it goes nothing is held and nothing will be, unless the  *)
(* destruction began while the environment was provisioned.                *)
(***************************************************************************)
CONSTANT Kinds   \* the kinds of resources of an environment

VARIABLES
  status,   \* of the row; "none" before it is created, "gone" after
  work,     \* the provisioning: "none", "open", "failing", "done", "failed", "cut"
  held,     \* the resources that are certainly there
  asked,    \* somebody asked to destroy the environment
  raced     \* its destruction began while it was provisioned

Init ==
  /\ status = "none"
  /\ work = "none"
  /\ held = {}
  /\ asked = FALSE
  /\ raced = FALSE

Request ==
  /\ status = "none"
  /\ status' = "PROVISIONING"
  /\ work' \in {"open", "cut"}
  /\ UNCHANGED <<held, asked, raced>>

Acquire ==
  /\ work = "open"
  /\ \E x \in Kinds : held' = held \cup {x}
  /\ work' \in {"open", "failing"}
  /\ UNCHANGED <<status, asked, raced>>

Succeed ==
  /\ work = "open"
  /\ status # "gone"
  /\ status' = "RUNNING"
  /\ work' = "done"
  /\ UNCHANGED <<held, asked, raced>>

\* A failure that is going to be rolled back, or one that is not.
Break ==
  /\ work = "open"
  /\ work' \in {"failing", "failed"}
  /\ UNCHANGED <<status, held, asked, raced>>

Release ==
  /\ work = "failing" \/ asked
  /\ \E x \in Kinds : held' = held \ {x}
  /\ UNCHANGED <<status, work, asked, raced>>

\* The error is written after a rollback, which may then be gone through once more, or cut
\* off if it is not known to be written.
WriteError ==
  /\ work = "failing"
  /\ held = {}
  /\ status' = IF status = "gone" THEN "gone" ELSE "ERROR"
  /\ work' \in {"failing", "failed", "cut"}
  /\ UNCHANGED <<held, asked, raced>>

CutOff ==
  /\ work \in {"open", "failing"}
  /\ work' = "cut"
  /\ UNCHANGED <<status, held, asked, raced>>

Ask ==
  /\ status \notin {"none", "gone"}
  /\ asked' = TRUE
  /\ UNCHANGED <<status, work, held, raced>>

BeginDestroy ==
  /\ asked
  /\ status \notin {"none", "gone"}
  /\ status' = "DESTROYING"
  /\ UNCHANGED <<work, held, asked, raced>>

Race ==
  /\ asked
  /\ work \in {"open", "failing"}
  /\ raced' = TRUE
  /\ UNCHANGED <<status, work, held, asked>>

Delete ==
  /\ asked
  /\ status \notin {"none", "PROVISIONING"}
  /\ raced \/ (held = {} /\ work \notin {"open", "failing"})
  /\ status' = "gone"
  /\ UNCHANGED <<work, held, asked, raced>>

Next ==
  \/ Request \/ Acquire \/ Succeed \/ Break \/ Release \/ WriteError \/ CutOff
  \/ Ask \/ BeginDestroy \/ Race \/ Delete

vars == <<status, work, held, asked, raced>>

Step == UNCHANGED vars \/ Next

Spec == Init /\ [][Next]_vars
=============================================================================
