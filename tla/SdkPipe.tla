------------------------------- MODULE SdkPipe -------------------------------
(***************************************************************************)
(* What the Chronicle SDK promises for each item an application tracks,    *)
(* without requests, retries or promises: items are queued in the order    *)
(* they are tracked; when the queue overflows its oldest item is dropped;  *)
(* a flush takes the whole queue, and only when no earlier batch is still  *)
(* being sent; an item of a batch is acknowledged or the whole rest of its *)
(* batch is given up with it; and what became of an item never changes.    *)
(***************************************************************************)
EXTENDS Naturals

CONSTANT Items    \* 1..n, in the order the application tracks them

VARIABLE stage    \* "new", "queued", "sending", "acked", "dropped", "lost"

Init == stage = [i \in Items |-> "new"]

At(s) == {i \in Items : stage[i] = s}
MovedTo(s) == {i \in Items : stage[i] # s /\ stage'[i] = s}

Moves == {<<"new", "queued">>, <<"new", "sending">>, <<"queued", "sending">>,
          <<"queued", "dropped">>, <<"sending", "acked">>, <<"sending", "lost">>}

InTrackOrder ==
  \A i \in MovedTo("queued") : \A j \in Items : j < i => stage[j] # "new"

OldestIsDropped ==
  \A i \in MovedTo("dropped") : \A j \in At("queued") : i <= j

WholeQueueIsTaken ==
  MovedTo("sending") # {} =>
    /\ At("sending") = {}
    /\ \A i \in Items : stage'[i] # "queued"

RestIsLostTogether ==
  MovedTo("lost") # {} => \A i \in At("sending") : stage'[i] = "lost"

Next ==
  /\ \A i \in Items : stage'[i] = stage[i] \/ <<stage[i], stage'[i]>> \in Moves
  /\ InTrackOrder
  /\ OldestIsDropped
  /\ WholeQueueIsTaken
  /\ RestIsLostTogether

Spec == Init /\ [][Next]_stage
=============================================================================
