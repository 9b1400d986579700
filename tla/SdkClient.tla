------------------------------ MODULE SdkClient ------------------------------
(***************************************************************************)
(* ChronicleBrowserClient (packages/sdk): the in-memory queue that track,  *)
(* identify and span calls fill, the flush that empties it, the timer, the *)
(* requests of one flush with their single retry, and the promise a caller *)
(* of flush() or shutdown() awaits.  JavaScript runs each action to its    *)
(* next await without interruption.                                        *)
(*                                                                         *)
(* An item is its position in the order of the application's calls, so a   *)
(* set of items stands for the array that holds them in that order: the    *)
(* code only appends, removes the oldest, or takes everything.  Which      *)
(* calls the application makes (kind and eventId of each) is chosen        *)
(* initially from the constant Scripts.                                    *)
(* Payloads, ids, metrics and logging are abstracted away.                 *)
(*                                                                         *)
(* The network and the server are not in this repository's TypeScript: a   *)
(* request may be received before or after the client has seen it fail, or *)
(* never; a 4xx answer means that it was not stored.                       *)
(***************************************************************************)
EXTENDS Naturals, FiniteSets

CONSTANTS
  MaxItems,   \* bound: how many items the application tracks
  MaxBatch,   \* options.maxBatchSize
  MaxQueue,   \* options.maxQueueSize
  Scripts,    \* what applications track: the kind and eventId of each item
  HasTimer,   \* options.flushIntervalMs > 0
  MaxLate     \* bound: how many failed requests the server may still receive at a time

Items == 1..MaxItems

\* The kinds of QueueItem.
Kinds == {"event", "identify", "signal", "trace"}

ASSUME SdkAssumption ==
  /\ MaxItems \in Nat
  /\ MaxBatch \in Nat
  /\ MaxQueue \in Nat \ {0}
  /\ HasTimer \in BOOLEAN
  /\ MaxLate \in Nat

\* A signal or trace names an event that was tracked before it, or none (0).
ASSUME ScriptAssumption ==
  \A s \in Scripts :
    /\ s.kind \in [Items -> Kinds]
    /\ s.about \in [Items -> 0..MaxItems]
    /\ \A i \in Items :
         s.about[i] # 0 => /\ s.kind[i] \in {"signal", "trace"}
                           /\ s.about[i] < i
                           /\ s.kind[s.about[i]] = "event"

VARIABLES
  script,     \* of each item, queued or still to come: its kind and the event it is about
  tracked,    \* how many items the application has tracked
  queue,      \* this.queue
  flushing,   \* this.flushing is set
  flights,    \* the runs of flushInternal that are not finished
  stopped,    \* shutdown() cleared the timer
  call,       \* the last flush() or shutdown() of the application, and the batch it joined
  wire,       \* copies of requests the server may still receive
  received,   \* how often the server received each item
  acked,      \* items of requests that were answered with ok
  dropped,    \* items shifted out of a full queue
  abandoned   \* items of a batch given up when a request failed

vars == <<script, tracked, queue, flushing, flights, stopped, call, wire, received,
          acked, dropped, abandoned>>

------------------------------------------------------------------------------
(* One run of flushInternal. *)

\* isEventItem and its siblings
OfKind(items, k) == {i \in items : script.kind[i] = k}

Oldest(items) == {i \in items : \A j \in items : i <= j}

\* Mutant of Request: the signals are sent before the events.
RequestSignalsFirst(items) ==
  IF OfKind(items, "signal") # {} THEN OfKind(items, "signal")
  ELSE IF OfKind(items, "event") # {} THEN OfKind(items, "event")
  ELSE IF OfKind(items, "identify") # {} THEN Oldest(OfKind(items, "identify"))
  ELSE OfKind(items, "trace")

\* What the next request carries, of the items of the batch still to be sent.  With none
\* left it is the trace "chronicle.sdk.flush", which carries no item.
Request(items) ==
  IF OfKind(items, "event") # {} THEN OfKind(items, "event")
  ELSE IF OfKind(items, "identify") # {} THEN Oldest(OfKind(items, "identify"))
  ELSE IF OfKind(items, "signal") # {} THEN OfKind(items, "signal")
  ELSE OfKind(items, "trace")

Copy(f) == [items |-> Request(f.todo), attempt |-> f.attempt]

\* Splicing an empty queue returns at once; only the finally callback is left to run.
NewFlight(q, waits) ==
  [batch |-> q, todo |-> q, attempt |-> 0, ok |-> TRUE, awaited |-> waits,
   phase |-> IF q = {} THEN "settled" ELSE "ready"]

\* The next request of the flight, or its end after the flush trace.
AfterOk(f) ==
  IF f.todo = {} THEN [f EXCEPT !.phase = "settled"]
  ELSE [f EXCEPT !.todo = @ \ Request(f.todo), !.attempt = 0, !.phase = "ready"]

\* Mutant of AfterError: the error does not reach whoever awaits the flush.
AfterErrorSwallowed(f) == [f EXCEPT !.phase = "settled"]

AfterError(f) == [f EXCEPT !.phase = "settled", !.ok = FALSE]

\* Mutant of RetriesLeft: one retry too many.
RetriesLeftOneMore(f) == f.attempt <= 1

RetriesLeft(f) == f.attempt = 0

Replace(f, g) == flights' = (flights \ {f}) \cup {g}

------------------------------------------------------------------------------
Init ==
  /\ script \in Scripts
  /\ tracked = 0
  /\ queue = {}
  /\ flushing = FALSE
  /\ flights = {}
  /\ stopped = FALSE
  /\ call = [state |-> "none", items |-> {}]
  /\ wire = {}
  /\ received = [i \in Items |-> 0]
  /\ acked = {}
  /\ dropped = {}
  /\ abandoned = {}

\* Mutant of MayStart: a flush starts although one is running.
MayStartAnyway == TRUE

MayStart == ~flushing

\* flush() on a queue q: starts flushInternal, which takes the whole queue, or joins the
\* flush that is running.
FlushOf(q, waits) ==
  IF MayStart
  THEN /\ queue' = {}
       /\ flushing' = TRUE
       /\ flights' = flights \cup {NewFlight(q, waits)}
  ELSE /\ queue' = q
       /\ flights' = IF waits THEN {[f EXCEPT !.awaited = TRUE] : f \in flights} ELSE flights
       /\ UNCHANGED flushing

\* Mutant of Victim: a full queue loses its newest item.
VictimIsNewest(q) == {i \in q : \A j \in q : j <= i}

\* this.queue.shift()
Victim(q) == Oldest(q)

\* events.track, ai.track, signals.track, users.identify, traces.track and traces.span
\* all end in enqueue.
Track ==
  /\ tracked < MaxItems
  /\ tracked' = tracked + 1
  /\ LET over == IF Cardinality(queue) >= MaxQueue THEN Victim(queue) ELSE {}
         q    == (queue \ over) \cup {tracked + 1}
     IN  /\ dropped' = dropped \cup over
         /\ IF Cardinality(q) >= MaxBatch
            THEN FlushOf(q, FALSE)
            ELSE queue' = q /\ UNCHANGED <<flushing, flights>>
  /\ UNCHANGED <<script, stopped, call, wire, received, acked, abandoned>>

TimerFires ==
  /\ HasTimer /\ ~stopped
  /\ FlushOf(queue, FALSE)
  /\ UNCHANGED <<script, tracked, stopped, call, wire, received, acked, dropped, abandoned>>

\* flush() by the application; it covers the batch it starts, or the one it joins.
AwaitFlush ==
  /\ call' = [state |-> "pending",
              items |-> IF MayStart THEN queue ELSE UNION {f.batch : f \in flights}]
  /\ FlushOf(queue, TRUE)
  /\ UNCHANGED <<script, tracked, wire, received, acked, dropped, abandoned>>

Flush == AwaitFlush /\ UNCHANGED stopped

Shutdown == AwaitFlush /\ stopped' = TRUE

------------------------------------------------------------------------------
(* The requests. *)

\* fetchImpl is called, for the first time or again.
Post(f) ==
  /\ f.phase = "ready"
  /\ wire' = wire \cup (IF f.todo = {} THEN {} ELSE {Copy(f)})
  /\ Replace(f, [f EXCEPT !.phase = "posted"])
  /\ UNCHANGED <<script, tracked, queue, flushing, stopped, call, received, acked,
                 dropped, abandoned>>

Receive(c) ==
  /\ wire' = wire \ {c}
  /\ received' = [i \in Items |-> received[i] + (IF i \in c.items THEN 1 ELSE 0)]
  /\ UNCHANGED <<script, tracked, queue, flushing, flights, stopped, call, acked, dropped,
                 abandoned>>

Ok(f) ==
  /\ f.phase = "posted"
  /\ Copy(f) \notin wire
  /\ acked' = acked \cup Request(f.todo)
  /\ Replace(f, AfterOk(f))
  /\ UNCHANGED <<script, tracked, queue, flushing, stopped, call, wire, received, dropped,
                 abandoned>>

\* request() throws, and flushInternal with it: what it had spliced and not sent is gone.
GiveUp(f) ==
  /\ abandoned' = abandoned \cup f.todo
  /\ Replace(f, AfterError(f))
  /\ UNCHANGED <<script, tracked, queue, flushing, stopped, call, received, acked, dropped>>

\* A response that is neither ok nor 5xx.
ClientError(f) ==
  /\ f.phase = "posted"
  /\ f.todo = {} \/ Copy(f) \in wire
  /\ wire' = wire \ {Copy(f)}
  /\ GiveUp(f)

\* The server may have received a request that fails, may still receive it, or never will.
FailureLeaves(c) ==
  \/ wire' = wire \ {c}
  \/ wire' = wire /\ Cardinality(wire) <= MaxLate

\* A 5xx response: the request is posted again once.
ServerError(f) ==
  /\ f.phase = "posted"
  /\ FailureLeaves(Copy(f))
  /\ IF RetriesLeft(f)
     THEN /\ Replace(f, [f EXCEPT !.attempt = @ + 1, !.phase = "ready"])
          /\ UNCHANGED <<script, tracked, queue, flushing, stopped, call, received, acked,
                         dropped, abandoned>>
     ELSE GiveUp(f)

\* fetch rejects: no retry.
NetworkError(f) ==
  /\ f.phase = "posted"
  /\ FailureLeaves(Copy(f))
  /\ GiveUp(f)

\* Mutant of PromiseAfter: the finally callback is missing.
PromiseAfterNever == flushing

PromiseAfter == FALSE

\* The finally callback; the promises that flush() returned settle with it.
Settle(f) ==
  /\ f.phase = "settled"
  /\ flights' = flights \ {f}
  /\ flushing' = PromiseAfter
  /\ call' = IF f.awaited THEN [call EXCEPT !.state = IF f.ok THEN "resolved" ELSE "rejected"]
             ELSE call
  /\ UNCHANGED <<script, tracked, queue, stopped, wire, received, acked, dropped, abandoned>>

Answer(f) == Ok(f) \/ ClientError(f) \/ ServerError(f) \/ NetworkError(f)

Next ==
  \/ Track \/ TimerFires \/ Flush \/ Shutdown
  \/ \E c \in wire : Receive(c)
  \/ \E f \in flights : Post(f) \/ Answer(f) \/ Settle(f)

\* The event loop runs what is ready, setInterval keeps firing, and every fetch settles
\* (the client sets no timeout, so this is a promise of the network).
Fairness ==
  /\ WF_vars(TimerFires)
  /\ WF_vars(\E f \in flights : Post(f))
  /\ WF_vars(\E f \in flights : Answer(f))
  /\ WF_vars(\E f \in flights : Settle(f))

Spec == Init /\ [][Next]_vars /\ Fairness

------------------------------------------------------------------------------
(* Properties. *)

\* A run of flushInternal when n items have been tracked.
Flight(n) ==
  [batch : SUBSET (1..n), todo : SUBSET (1..n), attempt : 0..1, ok : BOOLEAN,
   awaited : BOOLEAN, phase : {"ready", "posted", "settled"}]

\* Every variable has the type the code gives it.
TypeOK ==
  /\ script \in Scripts
  /\ tracked \in 0..MaxItems
  /\ queue \subseteq 1..tracked
  /\ flushing \in BOOLEAN
  /\ flights \subseteq Flight(tracked)
  /\ \A f \in flights : f.todo \subseteq f.batch
  /\ stopped \in BOOLEAN
  /\ call \in [state : {"none", "pending", "resolved", "rejected"}, items : SUBSET (1..tracked)]
  /\ wire \subseteq [items : SUBSET (1..tracked), attempt : 0..1]
  /\ received \in [Items -> Nat]
  /\ acked \subseteq 1..tracked
  /\ dropped \subseteq 1..tracked
  /\ abandoned \subseteq 1..tracked

\* What the client is done with.
Finished == acked \cup dropped \cup abandoned

\* Between two flushes, across retries and failures: when an item is put on the wire, every
\* item of its kind that was tracked before it is finished, or goes in the same request.
\* Only the flushing promise keeps two batches from overtaking each other.
KindsStayInOrder ==
  [][\A c \in wire' \ wire : \A i \in c.items : \A j \in 1..i :
       script.kind[j] = script.kind[i] => j \in c.items \cup Finished]_vars

\* A signal or trace about an event is put on the wire only after the event's own request
\* was answered with ok, or the event was dropped or given up: the order of the requests
\* of a flush, and of flushes.
EventGoesFirst ==
  [][\A c \in wire' \ wire : \A i \in c.items :
       script.about[i] # 0 => script.about[i] \in Finished]_vars

\* The single retry of a 5xx may store an item twice, and nothing stores it more often: an
\* item that failed is never queued again, and no two batches share an item.
AtMostTwice ==
  \A i \in Items : received[i] + Cardinality({c \in wire : i \in c.items}) <= 2

\* When the promise of flush() or shutdown() resolves, the server has received every item
\* of the batch that the call started or joined.  (Items tracked while that batch was on
\* its way are not part of it.)
ResolvedFlushDelivered ==
  call.state = "resolved" => \A i \in call.items : received[i] >= 1

\* With a timer the whole queue is taken again and again, whatever requests fail.
QueueDrains ==
  HasTimer => []<>(queue = {} \/ stopped)

\* What became of each item, as SdkPipe describes it.
StageOf(i) ==
  CASE i > tracked -> "new"
    [] i \in queue -> "queued"
    [] i \in acked -> "acked"
    [] i \in dropped -> "dropped"
    [] i \in abandoned -> "lost"
    [] OTHER -> "sending"

Pipe == INSTANCE SdkPipe WITH stage <- [i \in Items |-> StageOf(i)]

\* The client is an SdkPipe: first in, first out, one batch at a time, and every item in
\* exactly one stage.
ImplementsPipe == Pipe!Spec
=============================================================================
