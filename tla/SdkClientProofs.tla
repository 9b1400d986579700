--------------------------- MODULE SdkClientProofs ---------------------------
(***************************************************************************)
(* Safety of SdkClient for every queue, batch size and script, every       *)
(* bound on late requests, with and without a timer.                       *)
(***************************************************************************)
EXTENDS SdkClient, FiniteSetTheorems, TLAPS

------------------------------------------------------------------------------
(* Lemmas about the operators. *)

\* A request carries items of those that are left to be sent.
LEMMA RequestIsPart == ASSUME NEW items PROVE Request(items) \subseteq items
BY DEF Request, OfKind, Oldest

LEMMA RequestOfNone == Request({}) = {}
BY RequestIsPart

LEMMA VictimIsPart == ASSUME NEW items PROVE Victim(items) \subseteq items
BY DEF Victim, Oldest

LEMMA Bounds == TypeOK => tracked \in Nat /\ 1..tracked \subseteq Items
BY SdkAssumption DEF TypeOK, SdkAssumption, Items

LEMMA NewFlightType ==
  ASSUME NEW n, NEW q \in SUBSET (1..n), NEW waits \in BOOLEAN
  PROVE  NewFlight(q, waits) \in Flight(n) /\ NewFlight(q, waits).todo = NewFlight(q, waits).batch
BY DEF NewFlight, Flight

\* What the steps make of a flight.
LEMMA FlightUpdates ==
  ASSUME NEW n, NEW f \in Flight(n), f.todo \subseteq f.batch
  PROVE  /\ [f EXCEPT !.awaited = TRUE] \in {g \in Flight(n) : g.todo \subseteq g.batch}
         /\ [f EXCEPT !.phase = "posted"] \in {g \in Flight(n) : g.todo \subseteq g.batch}
         /\ AfterError(f) \in {g \in Flight(n) : g.todo \subseteq g.batch}
BY DEF Flight, AfterError

LEMMA FlightAfterOk ==
  ASSUME NEW n, NEW f \in Flight(n), f.todo \subseteq f.batch
  PROVE  AfterOk(f) \in {g \in Flight(n) : g.todo \subseteq g.batch}
<1>1. CASE f.todo = {}
  BY <1>1 DEF Flight, AfterOk
<1>2. CASE f.todo # {}
  <2> DEFINE R == Request(f.todo)
  <2>1. AfterOk(f) = [f EXCEPT !.todo = @ \ R, !.attempt = 0, !.phase = "ready"]
    BY <1>2 DEF AfterOk
  <2> HIDE DEF R
  <2> DEFINE g == AfterOk(f)
  <2>2. /\ g.batch = f.batch /\ g.todo = f.todo \ R /\ g.attempt = 0
        /\ g.ok = f.ok /\ g.awaited = f.awaited /\ g.phase = "ready"
        /\ g = [batch |-> g.batch, todo |-> g.todo, attempt |-> g.attempt, ok |-> g.ok,
                awaited |-> g.awaited, phase |-> g.phase]
    BY <2>1 DEF Flight
  <2> HIDE DEF g
  <2> QED
    BY <2>2 DEF Flight, g
<1> QED
  BY <1>1, <1>2

LEMMA FlightRetries ==
  ASSUME NEW n, NEW f \in Flight(n), f.todo \subseteq f.batch, RetriesLeft(f)
  PROVE  [f EXCEPT !.attempt = @ + 1, !.phase = "ready"]
           \in {g \in Flight(n) : g.todo \subseteq g.batch}
<1>1. f.attempt + 1 = 1
  BY DEF RetriesLeft
<1> DEFINE g == [f EXCEPT !.attempt = 1]
<1>2. g \in Flight(n) /\ g.todo \subseteq g.batch
  BY DEF Flight
<1> HIDE DEF g
<1>3. [g EXCEPT !.phase = "ready"] \in {h \in Flight(n) : h.todo \subseteq h.batch}
  BY <1>2 DEF Flight
<1> QED
  BY <1>1, <1>3 DEF g

LEMMA CopyType ==
  ASSUME NEW n, NEW f \in Flight(n)
  PROVE  Copy(f) \in [items : SUBSET (1..n), attempt : 0..1]
BY RequestIsPart DEF Flight, Copy

------------------------------------------------------------------------------
(* Type correctness. *)

\* The part of TypeOK that the flush changes.
FlightsOK == flights \subseteq Flight(tracked) /\ \A f \in flights : f.todo \subseteq f.batch

LEMMA FlightMore ==
  ASSUME NEW n \in Nat, NEW f \in Flight(n)
  PROVE  f \in Flight(n + 1)
<1>1. 1..n \subseteq 1..(n + 1)
  OBVIOUS
<1> QED
  BY <1>1 DEF Flight

\* A flush takes or keeps a queue of known items, and starts or joins a flight.
LEMMA FlushTypes ==
  ASSUME NEW n, NEW q \in SUBSET (1..n), NEW waits \in BOOLEAN, flushing \in BOOLEAN,
         flights \subseteq Flight(n), \A f \in flights : f.todo \subseteq f.batch,
         FlushOf(q, waits)
  PROVE  /\ queue' \subseteq 1..n
         /\ flushing' \in BOOLEAN
         /\ flights' \subseteq Flight(n)
         /\ \A f \in flights' : f.todo \subseteq f.batch
<1>1. CASE MayStart
  BY <1>1, NewFlightType DEF FlushOf
<1>2. CASE ~MayStart /\ waits
  <2>1. flights' = {[f EXCEPT !.awaited = TRUE] : f \in flights} /\ queue' = q /\ flushing' = flushing
    BY <1>2 DEF FlushOf
  <2>2. \A f \in flights : [f EXCEPT !.awaited = TRUE] \in {g \in Flight(n) : g.todo \subseteq g.batch}
    BY FlightUpdates
  <2> QED
    BY <2>1, <2>2
<1>3. CASE ~MayStart /\ ~waits
  BY <1>3 DEF FlushOf
<1> QED
  BY <1>1, <1>2, <1>3

LEMMA TypeInit == Init => TypeOK
<1> SUFFICES ASSUME Init PROVE TypeOK
  OBVIOUS
<1>1. tracked \in 0..MaxItems
  BY SdkAssumption DEF Init, SdkAssumption
<1>2. flushing \in BOOLEAN /\ stopped \in BOOLEAN
  BY DEF Init
<1>3. /\ call \in [state : {"none", "pending", "resolved", "rejected"}, items : SUBSET (1..tracked)]
      /\ received \in [Items -> Nat]
  BY DEF Init
<1> QED
  BY <1>1, <1>2, <1>3 DEF Init, TypeOK

LEMMA TypeStep == TypeOK /\ [Next]_vars => TypeOK'
<1> SUFFICES ASSUME TypeOK, [Next]_vars PROVE TypeOK'
  OBVIOUS
<1>b. tracked \in Nat /\ 1..tracked \subseteq Items
  BY Bounds
<1>r. ASSUME NEW f \in flights, NEW g \in {h \in Flight(tracked) : h.todo \subseteq h.batch},
             Replace(f, g)
      PROVE  flights' \subseteq Flight(tracked) /\ \A h \in flights' : h.todo \subseteq h.batch
  BY <1>r DEF Replace, TypeOK
<1>t. \A f \in flights : f \in Flight(tracked) /\ f.todo \subseteq f.batch
                         /\ f.batch \subseteq 1..tracked
  BY DEF TypeOK, Flight
<1>1. CASE Track
  <2> DEFINE n == tracked + 1
             over == IF Cardinality(queue) >= MaxQueue THEN Victim(queue) ELSE {}
             q == (queue \ over) \cup {tracked + 1}
  <2>1. /\ n \in 0..MaxItems /\ tracked' = n /\ 1..tracked \subseteq 1..n /\ n \in 1..n
    BY <1>1, <1>b, SdkAssumption DEF Track, SdkAssumption
  <2>2. over \subseteq 1..n /\ q \subseteq 1..n
    BY <2>1, VictimIsPart DEF TypeOK
  <2>3. flights \subseteq Flight(n)
    BY <1>b, <1>t, FlightMore
  <2>4. /\ dropped' = dropped \cup over
        /\ FlushOf(q, FALSE) \/ (queue' = q /\ flushing' = flushing /\ flights' = flights)
        /\ UNCHANGED <<script, stopped, call, wire, received, acked, abandoned>>
    BY <1>1 DEF Track
  <2>5. /\ queue' \subseteq 1..n
        /\ flushing' \in BOOLEAN
        /\ flights' \subseteq Flight(n)
        /\ \A f \in flights' : f.todo \subseteq f.batch
    <3>1. CASE FlushOf(q, FALSE)
      <4> HIDE DEF q, n
      <4>1. flushing \in BOOLEAN /\ \A f \in flights : f.todo \subseteq f.batch
        BY DEF TypeOK
      <4> QED
        BY <3>1, <4>1, <2>2, <2>3, FlushTypes
    <3>2. CASE queue' = q /\ flushing' = flushing /\ flights' = flights
      <4> HIDE DEF q, n
      <4> QED
        BY <3>2, <2>2, <2>3 DEF TypeOK
    <3> QED
      BY <2>4, <3>1, <3>2
  <2>6. call' \in [state : {"none", "pending", "resolved", "rejected"}, items : SUBSET (1..n)]
    BY <2>1, <2>4 DEF TypeOK
  <2>7. wire' \subseteq [items : SUBSET (1..n), attempt : 0..1]
    BY <2>1, <2>4 DEF TypeOK
  <2> HIDE DEF q, n, over
  <2> QED
    BY <2>1, <2>2, <2>4, <2>5, <2>6, <2>7 DEF TypeOK
<1>2. CASE TimerFires
  <2>1. /\ queue' \subseteq 1..tracked
        /\ flushing' \in BOOLEAN
        /\ flights' \subseteq Flight(tracked)
        /\ \A f \in flights' : f.todo \subseteq f.batch
    BY <1>2, FlushTypes DEF TimerFires, TypeOK
  <2> QED
    BY <1>2, <2>1 DEF TimerFires, TypeOK
<1>3. CASE Flush \/ Shutdown
  <2>0. AwaitFlush /\ stopped' \in BOOLEAN
    BY <1>3 DEF Flush, Shutdown, TypeOK
  <2>1. /\ queue' \subseteq 1..tracked
        /\ flushing' \in BOOLEAN
        /\ flights' \subseteq Flight(tracked)
        /\ \A f \in flights' : f.todo \subseteq f.batch
    BY <2>0, FlushTypes DEF AwaitFlush, TypeOK
  <2>2. call' \in [state : {"none", "pending", "resolved", "rejected"}, items : SUBSET (1..tracked)]
    <3>1. UNION {f.batch : f \in flights} \subseteq 1..tracked
      BY <1>t
    <3>2. queue \subseteq 1..tracked
      BY DEF TypeOK
    <3> QED
      BY <2>0, <3>1, <3>2 DEF AwaitFlush
  <2> QED
    BY <2>0, <2>1, <2>2 DEF AwaitFlush, TypeOK
<1>4. ASSUME NEW c \in wire, Receive(c) PROVE TypeOK'
  <2>1. received' \in [Items -> Nat]
    BY <1>4 DEF Receive, TypeOK
  <2> QED
    BY <1>4, <2>1 DEF Receive, TypeOK
<1>5. ASSUME NEW f \in flights, Post(f) PROVE TypeOK'
  <2>1. flights' \subseteq Flight(tracked) /\ \A h \in flights' : h.todo \subseteq h.batch
    BY <1>5, <1>r, <1>t, FlightUpdates DEF Post
  <2>2. wire' \subseteq [items : SUBSET (1..tracked), attempt : 0..1]
    BY <1>5, <1>t, CopyType DEF Post, TypeOK
  <2> QED
    BY <1>5, <2>1, <2>2 DEF Post, TypeOK
<1>6. ASSUME NEW f \in flights, Ok(f) PROVE TypeOK'
  <2>1. flights' \subseteq Flight(tracked) /\ \A h \in flights' : h.todo \subseteq h.batch
    BY <1>6, <1>r, <1>t, FlightAfterOk DEF Ok
  <2>2. Request(f.todo) \subseteq 1..tracked
    BY <1>t, RequestIsPart
  <2> QED
    BY <1>6, <2>1, <2>2 DEF Ok, TypeOK
<1>g. ASSUME NEW f \in flights, GiveUp(f), wire' \subseteq wire PROVE TypeOK'
  <2>1. flights' \subseteq Flight(tracked) /\ \A h \in flights' : h.todo \subseteq h.batch
    BY <1>g, <1>r, <1>t, FlightUpdates DEF GiveUp
  <2>2. f.todo \subseteq 1..tracked
    BY <1>t
  <2> QED
    BY <1>g, <2>1, <2>2 DEF GiveUp, TypeOK
<1>7. ASSUME NEW f \in flights, ClientError(f) \/ NetworkError(f) PROVE TypeOK'
  BY <1>7, <1>g DEF ClientError, NetworkError, FailureLeaves
<1>8. ASSUME NEW f \in flights, ServerError(f) PROVE TypeOK'
  <2>0. wire' \subseteq wire
    BY <1>8 DEF ServerError, FailureLeaves
  <2>1. CASE RetriesLeft(f)
    <3>1. flights' \subseteq Flight(tracked) /\ \A h \in flights' : h.todo \subseteq h.batch
      BY <1>8, <2>1, <1>r, <1>t, FlightRetries DEF ServerError
    <3> QED
      BY <1>8, <2>0, <2>1, <3>1 DEF ServerError, TypeOK
  <2> QED
    BY <1>8, <2>0, <2>1, <1>g DEF ServerError
<1>9. ASSUME NEW f \in flights, Settle(f) PROVE TypeOK'
  <2>1. call' \in [state : {"none", "pending", "resolved", "rejected"}, items : SUBSET (1..tracked)]
    BY <1>9 DEF Settle, TypeOK
  <2> QED
    BY <1>9, <2>1 DEF Settle, PromiseAfter, TypeOK
<1>10. CASE UNCHANGED vars
  BY <1>10 DEF vars, TypeOK
<1> QED
  BY <1>1, <1>2, <1>3, <1>4, <1>5, <1>6, <1>7, <1>8, <1>9, <1>10 DEF Next, Answer

\* Every reachable state is well typed.
THEOREM TypeCorrect == Spec => []TypeOK
BY TypeInit, TypeStep, PTL DEF Spec

------------------------------------------------------------------------------
(* One flight at a time. *)

SingleFlight ==
  /\ flights # {} => flushing
  /\ \A f, g \in flights : f = g

LEMMA FlushSingle ==
  ASSUME SingleFlight, NEW q, NEW waits \in BOOLEAN, FlushOf(q, waits)
  PROVE  SingleFlight'
<1>1. CASE MayStart
  <2>1. flights = {}
    BY <1>1 DEF MayStart, SingleFlight
  <2>2. flights' = {NewFlight(q, waits)} /\ flushing'
    BY <1>1, <2>1 DEF FlushOf
  <2> QED
    BY <2>2 DEF SingleFlight
<1>2. CASE ~MayStart
  <2>1. flushing' /\ (flights' = flights \/ flights' = {[f EXCEPT !.awaited = TRUE] : f \in flights})
    BY <1>2 DEF FlushOf, MayStart
  <2> QED
    BY <2>1 DEF SingleFlight
<1> QED
  BY <1>1, <1>2

LEMMA ReplaceSingle ==
  ASSUME SingleFlight, NEW f \in flights, NEW g, Replace(f, g)
  PROVE  flights = {f} /\ flights' = {g}
BY DEF SingleFlight, Replace

LEMMA SingleStep == SingleFlight /\ [Next]_vars => SingleFlight'
<1> SUFFICES ASSUME SingleFlight, [Next]_vars PROVE SingleFlight'
  OBVIOUS
<1>r. ASSUME NEW f \in flights, NEW g, Replace(f, g), UNCHANGED flushing PROVE SingleFlight'
  <2>1. flights = {f} /\ flights' = {g}
    BY <1>r, ReplaceSingle
  <2> QED
    BY <1>r, <2>1 DEF SingleFlight
<1>1. CASE Track
  <2>1. UNCHANGED <<flushing, flights>> \/ \E q : FlushOf(q, FALSE)
    BY <1>1 DEF Track
  <2> QED
    BY <2>1, FlushSingle DEF SingleFlight
<1>2. CASE TimerFires \/ Flush \/ Shutdown
  <2>1. FlushOf(queue, FALSE) \/ FlushOf(queue, TRUE)
    BY <1>2 DEF TimerFires, Flush, Shutdown, AwaitFlush
  <2> QED
    BY <2>1, FlushSingle
<1>3. ASSUME NEW c \in wire, Receive(c) PROVE SingleFlight'
  BY <1>3 DEF Receive, SingleFlight
<1>4. ASSUME NEW f \in flights, Post(f) \/ Answer(f) PROVE SingleFlight'
  <2>1. UNCHANGED flushing /\ \E g : Replace(f, g)
    BY <1>4 DEF Post, Answer, Ok, ClientError, ServerError, NetworkError, GiveUp
  <2> QED
    BY <2>1, <1>r
<1>5. ASSUME NEW f \in flights, Settle(f) PROVE SingleFlight'
  BY <1>5 DEF Settle, SingleFlight
<1>6. CASE UNCHANGED vars
  BY <1>6 DEF vars, SingleFlight
<1> QED
  BY <1>1, <1>2, <1>3, <1>4, <1>5, <1>6 DEF Next

------------------------------------------------------------------------------
(* Where an item is, and the order between the flight and the queue. *)

\* Every tracked item is queued, or finished, or still to be sent by the flight; and the
\* flight took its batch before anything that is queued was tracked.
OrderInv ==
  /\ \A f \in flights : \A i \in f.batch : \A j \in queue : i < j
  /\ \A i \in 1..tracked : i \in queue \cup Finished \/ \E f \in flights : i \in f.todo
  /\ \A f \in flights : f.phase = "settled" => f.todo \subseteq abandoned

\* Taking the queue, or joining the flight, keeps the order.
LEMMA FlushOrder ==
  ASSUME NEW n, NEW q \in SUBSET (1..n), NEW waits \in BOOLEAN, NEW done,
         SingleFlight,
         flights \subseteq Flight(n),
         \A f \in flights : \A i \in f.batch : \A j \in q : i < j,
         \A i \in 1..n : i \in q \cup done \/ \E f \in flights : i \in f.todo,
         \A f \in flights : f.phase = "settled" => f.todo \subseteq abandoned,
         FlushOf(q, waits)
  PROVE  /\ \A f \in flights' : \A i \in f.batch : \A j \in queue' : i < j
         /\ \A i \in 1..n : i \in queue' \cup done \/ \E f \in flights' : i \in f.todo
         /\ \A f \in flights' : f.phase = "settled" => f.todo \subseteq abandoned
<1>1. CASE MayStart
  <2>1. flights = {}
    BY <1>1 DEF MayStart, SingleFlight
  <2>2. flights' = {NewFlight(q, waits)} /\ queue' = {}
    BY <1>1, <2>1 DEF FlushOf
  <2>3. NewFlight(q, waits).todo = q /\ (NewFlight(q, waits).phase = "settled" => q = {})
    BY DEF NewFlight
  <2> QED
    BY <2>1, <2>2, <2>3
<1>2. CASE ~MayStart
  <2>1. queue' = q
    BY <1>2 DEF FlushOf
  <2>2. /\ \A g \in flights' : \E f \in flights :
             g.batch = f.batch /\ g.todo = f.todo /\ g.phase = f.phase
        /\ \A f \in flights : \E g \in flights' : g.todo = f.todo
    <3>1. CASE waits
      <4>1. flights' = {[f EXCEPT !.awaited = TRUE] : f \in flights}
        BY <1>2, <3>1 DEF FlushOf
      <4>2. \A f \in flights : /\ [f EXCEPT !.awaited = TRUE].batch = f.batch
                              /\ [f EXCEPT !.awaited = TRUE].todo = f.todo
                              /\ [f EXCEPT !.awaited = TRUE].phase = f.phase
        BY DEF Flight
      <4> QED
        BY <4>1, <4>2
    <3>2. CASE ~waits
      BY <1>2, <3>2 DEF FlushOf
    <3> QED
      BY <3>1, <3>2
  <2> QED
    BY <2>1, <2>2
<1> QED
  BY <1>1, <1>2

LEMMA OrderStep == TypeOK /\ SingleFlight /\ OrderInv /\ [Next]_vars => OrderInv'
<1> SUFFICES ASSUME TypeOK, SingleFlight, OrderInv, [Next]_vars PROVE OrderInv'
  OBVIOUS
<1>b. tracked \in Nat /\ 1..tracked \subseteq Items
  BY Bounds
<1>t. \A f \in flights : f \in Flight(tracked) /\ f.todo \subseteq f.batch
                         /\ f.batch \subseteq 1..tracked
  BY DEF TypeOK, Flight
\* A step of the flight that leaves the queue alone.
<1>r. ASSUME NEW f \in flights, NEW g, Replace(f, g), g.batch = f.batch,
             f.todo \subseteq g.todo \cup Finished', Finished \subseteq Finished',
             g.phase = "settled" => g.todo \subseteq abandoned',
             UNCHANGED <<queue, tracked>>
      PROVE  OrderInv'
  <2>1. flights = {f} /\ flights' = {g}
    BY <1>r, ReplaceSingle
  <2> QED
    BY <1>r, <2>1 DEF OrderInv
<1>1. CASE Track
  <2> DEFINE n == tracked + 1
             over == IF Cardinality(queue) >= MaxQueue THEN Victim(queue) ELSE {}
             q == (queue \ over) \cup {tracked + 1}
             done == acked \cup (dropped \cup over) \cup abandoned
  <2>1. /\ tracked' = n /\ 1..n = (1..tracked) \cup {n} /\ Finished' = done
        /\ Finished \subseteq done /\ UNCHANGED abandoned
        /\ FlushOf(q, FALSE) \/ (queue' = q /\ flights' = flights)
    <3>1. 1..n = (1..tracked) \cup {n}
      BY <1>b
    <3>2. /\ tracked' = n /\ dropped' = dropped \cup over
          /\ FlushOf(q, FALSE) \/ (queue' = q /\ flights' = flights)
          /\ UNCHANGED <<acked, abandoned>>
      BY <1>1 DEF Track
    <3> HIDE DEF n, over, q
    <3> QED
      BY <3>1, <3>2 DEF Finished
  <2>2. q \subseteq 1..n /\ queue \subseteq q \cup done /\ n \in q /\ q \subseteq queue \cup {n}
    BY <2>1 DEF TypeOK
  <2>3. \A f \in flights : \A i \in f.batch : \A j \in q : i < j
    BY <2>2, <1>b, <1>t DEF OrderInv
  <2>4. \A i \in 1..n : i \in q \cup done \/ \E f \in flights : i \in f.todo
    BY <2>1, <2>2 DEF OrderInv
  <2>5. flights \subseteq Flight(n)
    BY <1>b, <1>t, FlightMore
  <2> HIDE DEF q, done, n, over
  <2>6. CASE FlushOf(q, FALSE)
    <3>1. /\ \A f \in flights' : \A i \in f.batch : \A j \in queue' : i < j
          /\ \A i \in 1..n : i \in queue' \cup done \/ \E f \in flights' : i \in f.todo
          /\ \A f \in flights' : f.phase = "settled" => f.todo \subseteq abandoned
      BY <2>2, <2>3, <2>4, <2>5, <2>6, FlushOrder DEF OrderInv
    <3> QED
      BY <2>1, <3>1 DEF OrderInv
  <2>7. CASE queue' = q /\ flights' = flights
    BY <2>1, <2>3, <2>4, <2>7 DEF OrderInv
  <2> QED
    BY <2>1, <2>6, <2>7
<1>2. CASE TimerFires \/ Flush \/ Shutdown
  <2>1. PICK waits \in BOOLEAN : FlushOf(queue, waits)
    BY <1>2 DEF TimerFires, Flush, Shutdown, AwaitFlush
  <2>2. UNCHANGED <<tracked, acked, dropped, abandoned>>
    BY <1>2 DEF TimerFires, Flush, Shutdown, AwaitFlush
  <2>3. /\ \A f \in flights' : \A i \in f.batch : \A j \in queue' : i < j
        /\ \A i \in 1..tracked : i \in queue' \cup Finished \/ \E f \in flights' : i \in f.todo
        /\ \A f \in flights' : f.phase = "settled" => f.todo \subseteq abandoned
    <3> DEFINE done == Finished
    <3>1. /\ queue \in SUBSET (1..tracked)
          /\ flights \subseteq Flight(tracked)
      BY DEF TypeOK
    <3>2. /\ \A f \in flights : \A i \in f.batch : \A j \in queue : i < j
          /\ \A i \in 1..tracked : i \in queue \cup done \/ \E f \in flights : i \in f.todo
          /\ \A f \in flights : f.phase = "settled" => f.todo \subseteq abandoned
      BY DEF OrderInv
    <3> HIDE DEF done
    <3>3. /\ \A f \in flights' : \A i \in f.batch : \A j \in queue' : i < j
          /\ \A i \in 1..tracked : i \in queue' \cup done \/ \E f \in flights' : i \in f.todo
          /\ \A f \in flights' : f.phase = "settled" => f.todo \subseteq abandoned
      BY <2>1, <3>1, <3>2, FlushOrder
    <3> QED
      BY <3>3 DEF done
  <2> QED
    BY <2>2, <2>3 DEF OrderInv, Finished
<1>3. ASSUME NEW c \in wire, Receive(c) PROVE OrderInv'
  BY <1>3 DEF Receive, OrderInv, Finished
<1>4. ASSUME NEW f \in flights, Post(f) PROVE OrderInv'
  <2>1. /\ [f EXCEPT !.phase = "posted"].batch = f.batch
        /\ [f EXCEPT !.phase = "posted"].todo = f.todo
        /\ [f EXCEPT !.phase = "posted"].phase = "posted"
    BY <1>t DEF Flight
  <2> QED
    BY <1>4, <2>1, <1>r DEF Post, Finished
<1>5. ASSUME NEW f \in flights, Ok(f) PROVE OrderInv'
  <2>1. /\ AfterOk(f).batch = f.batch
        /\ f.todo \subseteq AfterOk(f).todo \cup Request(f.todo)
        /\ AfterOk(f).phase = "settled" => AfterOk(f).todo = {}
    BY <1>t DEF Flight, AfterOk
  <2> QED
    BY <1>5, <2>1, <1>r DEF Ok, Finished
<1>6. ASSUME NEW f \in flights, GiveUp(f) PROVE OrderInv'
  <2>1. AfterError(f).batch = f.batch /\ AfterError(f).todo = f.todo
    BY <1>t DEF Flight, AfterError
  <2> QED
    BY <1>6, <2>1, <1>r DEF GiveUp, Finished
<1>7. ASSUME NEW f \in flights, ServerError(f), RetriesLeft(f) PROVE OrderInv'
  <2> DEFINE g == [f EXCEPT !.attempt = @ + 1, !.phase = "ready"]
  <2>1. g.batch = f.batch /\ g.todo = f.todo /\ g.phase = "ready"
    BY <1>t DEF Flight
  <2>2. Replace(f, g) /\ UNCHANGED <<queue, tracked, acked, dropped, abandoned>>
    BY <1>7 DEF ServerError
  <2> HIDE DEF g
  <2> QED
    BY <2>1, <2>2, <1>r DEF Finished
<1>8. ASSUME NEW f \in flights, Settle(f) PROVE OrderInv'
  <2>1. f.todo \subseteq Finished
    BY <1>8 DEF Settle, OrderInv, Finished
  <2>2. flights' = flights \ {f} /\ flights = {f}
    BY <1>8 DEF Settle, SingleFlight
  <2> QED
    BY <1>8, <2>1, <2>2 DEF Settle, OrderInv, Finished
<1>9. CASE UNCHANGED vars
  BY <1>9 DEF vars, OrderInv, Finished
<1> QED
  <2>1. ASSUME NEW f \in flights, Answer(f) PROVE OrderInv'
    BY <2>1, <1>5, <1>6, <1>7 DEF Answer, ClientError, ServerError, NetworkError
  <2> QED
    BY <1>1, <1>2, <1>3, <1>4, <1>8, <1>9, <2>1 DEF Next

LEMMA OrderInvariant == Spec => [](TypeOK /\ SingleFlight /\ OrderInv)
<1>1. Init => TypeOK /\ SingleFlight /\ OrderInv
  BY TypeInit DEF Init, SingleFlight, OrderInv
<1>2. TypeOK /\ SingleFlight /\ OrderInv /\ [Next]_vars => (TypeOK /\ SingleFlight /\ OrderInv)'
  BY TypeStep, SingleStep, OrderStep
<1> QED
  BY <1>1, <1>2, PTL DEF Spec

\* Only Post puts anything on the wire.
LEMMA OnlyPost ==
  ASSUME [Next]_vars, NEW c \in wire' \ wire
  PROVE  \E f \in flights : f.phase = "ready" /\ f.todo # {} /\ c = Copy(f)
<1>1. CASE Track \/ TimerFires \/ Flush \/ Shutdown
  BY <1>1 DEF Track, TimerFires, Flush, Shutdown, AwaitFlush
<1>2. ASSUME NEW d \in wire, Receive(d) PROVE FALSE
  BY <1>2 DEF Receive
<1>3. ASSUME NEW f \in flights, Post(f)
      PROVE  f.phase = "ready" /\ f.todo # {} /\ c = Copy(f)
  BY <1>3 DEF Post
<1>4. ASSUME NEW f \in flights, Answer(f) \/ Settle(f) PROVE FALSE
  BY <1>4 DEF Answer, Ok, ClientError, ServerError, NetworkError, FailureLeaves, Settle
<1>5. CASE UNCHANGED vars
  BY <1>5 DEF vars
<1> QED
  BY <1>1, <1>2, <1>3, <1>4, <1>5 DEF Next

\* What a request leaves to be sent is of later kinds, or came later.
LEMMA RequestOrder ==
  ASSUME NEW items \in SUBSET Nat, NEW i \in Request(items), NEW j \in items
  PROVE  /\ script.kind[j] = script.kind[i] /\ j <= i => j \in Request(items)
         /\ script.kind[i] \in {"signal", "trace"} => script.kind[j] # "event"
<1>1. CASE OfKind(items, "event") # {}
  BY <1>1 DEF Request, OfKind
<1>2. CASE OfKind(items, "event") = {} /\ OfKind(items, "identify") # {}
  <2>1. Request(items) = Oldest(OfKind(items, "identify"))
    BY <1>2 DEF Request
  <2>2. script.kind[i] = "identify" /\ \A k \in items : script.kind[k] = "identify" => i <= k
    BY <2>1 DEF Oldest, OfKind
  <2>3. script.kind[j] = "identify" /\ j <= i => j = i
    <3>1. i \in Nat /\ j \in Nat
      BY RequestIsPart
    <3> QED
      BY <2>2, <3>1
  <2> QED
    BY <2>2, <2>3
<1>3. CASE OfKind(items, "event") = {} /\ OfKind(items, "identify") = {}
  BY <1>3 DEF Request, OfKind
<1> QED
  BY <1>1, <1>2, <1>3

\* An item is put on the wire after all items of its kind that were tracked before it.
THEOREM KindsKeepOrder == Spec => KindsStayInOrder
<1>1. TypeOK /\ SingleFlight /\ OrderInv /\ [Next]_vars =>
        [\A c \in wire' \ wire : \A i \in c.items : \A j \in 1..i :
           script.kind[j] = script.kind[i] => j \in c.items \cup Finished]_vars
  <2> SUFFICES ASSUME TypeOK, SingleFlight, OrderInv, [Next]_vars,
                      NEW c \in wire' \ wire, NEW i \in c.items, NEW j \in 1..i,
                      script.kind[j] = script.kind[i]
               PROVE  j \in c.items \cup Finished
    OBVIOUS
  <2>1. PICK f \in flights : c = Copy(f)
    BY OnlyPost
  <2>2. c.items = Request(f.todo) /\ f.todo \subseteq f.batch /\ f.batch \subseteq 1..tracked
    BY <2>1 DEF Copy, TypeOK, Flight
  <2>3. tracked \in Nat /\ i \in f.todo /\ i \in 1..tracked /\ j \in 1..tracked /\ j <= i
    BY <2>2, RequestIsPart, Bounds
  <2>4. j \notin queue
    BY <2>2, <2>3 DEF OrderInv
  <2>5. CASE j \in f.todo
    <3>1. f.todo \in SUBSET Nat
      BY <2>2, <2>3
    <3> QED
      BY <2>2, <2>3, <2>5, <3>1, RequestOrder
  <2>6. CASE j \notin f.todo
    BY <2>3, <2>4, <2>6 DEF OrderInv, SingleFlight
  <2> QED
    BY <2>5, <2>6
<1> QED
  BY <1>1, OrderInvariant, PTL DEF Spec, KindsStayInOrder

\* A signal or trace about an event is put on the wire after the event is finished.
THEOREM EventsGoFirst == Spec => EventGoesFirst
<1>1. TypeOK /\ SingleFlight /\ OrderInv /\ [Next]_vars =>
        [\A c \in wire' \ wire : \A i \in c.items :
           script.about[i] # 0 => script.about[i] \in Finished]_vars
  <2> SUFFICES ASSUME TypeOK, SingleFlight, OrderInv, [Next]_vars,
                      NEW c \in wire' \ wire, NEW i \in c.items, script.about[i] # 0
               PROVE  script.about[i] \in Finished
    OBVIOUS
  <2> DEFINE j == script.about[i]
  <2>1. PICK f \in flights : c = Copy(f)
    BY OnlyPost
  <2>2. c.items = Request(f.todo) /\ f.todo \subseteq f.batch /\ f.batch \subseteq 1..tracked
    BY <2>1 DEF Copy, TypeOK, Flight
  <2>3. tracked \in Nat /\ i \in f.todo /\ i \in 1..tracked /\ i \in Items
    BY <2>2, RequestIsPart, Bounds
  <2>4. /\ script.kind[i] \in {"signal", "trace"} /\ script.kind[j] = "event"
        /\ j \in 1..tracked /\ j < i
    <3>1. script \in Scripts /\ MaxItems \in Nat
      BY SdkAssumption DEF TypeOK, SdkAssumption
    <3> QED
      BY <2>3, <3>1, ScriptAssumption
  <2>5. j \notin queue
    BY <2>2, <2>3, <2>4 DEF OrderInv
  <2>6. j \notin f.todo
    <3>1. f.todo \in SUBSET Nat
      BY <2>2, <2>3
    <3> QED
      BY <2>2, <2>3, <2>4, <3>1, RequestOrder
  <2> QED
    BY <2>4, <2>5, <2>6 DEF OrderInv, SingleFlight
<1> QED
  BY <1>1, OrderInvariant, PTL DEF Spec, EventGoesFirst

------------------------------------------------------------------------------
(* What a resolved promise says. *)

Got(i) == received[i] # 0

\* What of its batch a flight has to send no more was received, and so was the request
\* whose answer it awaits unless a copy is still on the wire; who awaits the flight awaits
\* its batch, which was received when the promise resolves.
FlightDelivery(f) ==
  /\ \A i \in f.batch \ f.todo : Got(i)
  /\ f.phase = "posted" => Copy(f) \in wire \/ \A i \in Request(f.todo) : Got(i)
  /\ f.phase = "settled" /\ f.ok => f.todo = {}
  /\ f.awaited => call.items \subseteq f.batch

DeliveryInv ==
  /\ \A f \in flights : FlightDelivery(f)
  /\ ResolvedFlushDelivered

LEMMA SameScript == [Next]_vars => UNCHANGED script
BY DEF Next, Track, TimerFires, Flush, Shutdown, AwaitFlush, Receive, Post, Answer, Ok, ClientError,
   ServerError, NetworkError, GiveUp, Settle, vars

LEMMA SameRequest ==
  ASSUME UNCHANGED script, NEW x
  PROVE  Request(x)' = Request(x)
BY DEF Request, OfKind

LEMMA SameCopy ==
  ASSUME UNCHANGED script, NEW f
  PROVE  Copy(f)' = Copy(f)
BY SameRequest DEF Copy

\* A flight keeps what it promises while copies are only received and items only added.
LEMMA SameDelivery ==
  ASSUME UNCHANGED script, NEW f, FlightDelivery(f),
         \A i : Got(i) => Got(i)',
         f.phase = "posted" /\ Copy(f) \in wire =>
           Copy(f) \in wire' \/ \A i \in Request(f.todo) : Got(i)',
         NEW g, g.batch = f.batch, g.todo = f.todo, g.attempt = f.attempt,
         g.phase = f.phase, g.ok = f.ok, g.awaited => call'.items \subseteq f.batch
  PROVE  FlightDelivery(g)'
<1>1. Copy(g)' = Copy(f) /\ Request(g.todo)' = Request(f.todo)
  BY SameRequest, SameCopy DEF Copy
<1> QED
  BY <1>1 DEF FlightDelivery

LEMMA FlushDelivery ==
  ASSUME SingleFlight, DeliveryInv, NEW n, flights \subseteq Flight(n), NEW q, NEW waits \in BOOLEAN,
         FlushOf(q, waits), UNCHANGED <<script, wire, received>>,
         ResolvedFlushDelivered',
         IF waits THEN call'.items = IF MayStart THEN q ELSE UNION {f.batch : f \in flights}
         ELSE call' = call
  PROVE  DeliveryInv'
<1>1. CASE MayStart
  <2> DEFINE f == NewFlight(q, waits)
  <2>1. flights' = {f}
    BY <1>1 DEF MayStart, SingleFlight, FlushOf
  <2>2. /\ f.batch = q /\ f.todo = q /\ (f.awaited <=> waits) /\ f.phase # "posted"
        /\ f.phase = "settled" => q = {}
    BY DEF NewFlight
  <2>3. waits => call'.items = q
    BY <1>1
  <2> HIDE DEF f
  <2>4. FlightDelivery(f)'
    BY <2>2, <2>3 DEF FlightDelivery
  <2> QED
    BY <2>1, <2>4 DEF DeliveryInv
<1>2. CASE ~MayStart
  <2>g. \A i : Got(i) => Got(i)'
    BY DEF Got
  <2>1. ASSUME NEW g \in flights' PROVE FlightDelivery(g)'
    <3>1. PICK f \in flights : g = IF waits THEN [f EXCEPT !.awaited = TRUE] ELSE f
      BY <1>2 DEF FlushOf
    <3>2. /\ g.batch = f.batch /\ g.todo = f.todo /\ g.phase = f.phase
          /\ g.attempt = f.attempt /\ g.ok = f.ok
      BY <3>1 DEF Flight
    <3>3. flights = {f}
      BY DEF SingleFlight
    <3>4. waits => call'.items = f.batch
      BY <1>2, <3>3
    <3>5. ~waits => g = f /\ call' = call
      BY <3>1
    <3>6. g.awaited => call'.items \subseteq f.batch
      BY <3>4, <3>5 DEF DeliveryInv, FlightDelivery
    <3> QED
      BY <2>g, <3>2, <3>6, SameDelivery DEF DeliveryInv
  <2> QED
    BY <2>1 DEF DeliveryInv
<1> QED
  BY <1>1, <1>2

LEMMA DeliveryStep == TypeOK /\ SingleFlight /\ DeliveryInv /\ [Next]_vars => DeliveryInv'
<1> SUFFICES ASSUME TypeOK, SingleFlight, DeliveryInv, [Next]_vars PROVE DeliveryInv'
  OBVIOUS
<1>s. UNCHANGED script
  BY SameScript
<1>t. /\ flights \subseteq Flight(tracked)
      /\ \A f \in flights : f.todo \subseteq f.batch
      /\ received \in [Items -> Nat]
      /\ 1..tracked \subseteq Items
      /\ tracked \in Nat
  BY Bounds DEF TypeOK
<1>g. received' = received => \A i : Got(i) => Got(i)'
  BY DEF Got
<1>c. received' = received /\ call' = call => ResolvedFlushDelivered'
  BY DEF DeliveryInv, ResolvedFlushDelivered
\* A step of the flight that leaves the promise alone.
<1>r. ASSUME NEW f \in flights, NEW g, Replace(f, g), FlightDelivery(g)',
             UNCHANGED <<received, call>>
      PROVE  DeliveryInv'
  <2>1. flights' = {g}
    BY <1>r, ReplaceSingle
  <2> QED
    BY <1>r, <1>c, <2>1 DEF DeliveryInv
<1>1. CASE Track
  <2> DEFINE over == IF Cardinality(queue) >= MaxQueue THEN Victim(queue) ELSE {}
             q == (queue \ over) \cup {tracked + 1}
  <2>1. /\ FlushOf(q, FALSE) \/ flights' = flights
        /\ UNCHANGED <<script, call, wire, received>>
    BY <1>1 DEF Track
  <2> HIDE DEF q, over
  <2>2. CASE FlushOf(q, FALSE)
    BY <1>c, <1>t, <2>1, <2>2, FlushDelivery
  <2>3. CASE flights' = flights
    <3>1. ASSUME NEW f \in flights' PROVE FlightDelivery(f)'
      BY <1>g, <2>1, <2>3, SameDelivery DEF DeliveryInv, FlightDelivery
    <3> QED
      BY <1>c, <2>1, <3>1 DEF DeliveryInv
  <2> QED
    BY <2>1, <2>2, <2>3
<1>2. CASE TimerFires
  <2>1. FlushOf(queue, FALSE) /\ UNCHANGED <<script, call, wire, received>>
    BY <1>2 DEF TimerFires
  <2> QED
    BY <1>c, <1>t, <2>1, FlushDelivery
<1>3. CASE Flush \/ Shutdown
  <2>1. /\ FlushOf(queue, TRUE) /\ UNCHANGED <<script, wire, received>>
        /\ call'.state = "pending"
        /\ call'.items = IF MayStart THEN queue ELSE UNION {f.batch : f \in flights}
    <3> DEFINE joined == IF MayStart THEN queue ELSE UNION {f.batch : f \in flights}
    <3>1. FlushOf(queue, TRUE) /\ UNCHANGED <<script, wire, received>>
      BY <1>3 DEF Flush, Shutdown, AwaitFlush
    <3>2. call' = [state |-> "pending", items |-> joined]
      BY <1>3 DEF Flush, Shutdown, AwaitFlush
    <3> HIDE DEF joined
    <3>3. call'.state = "pending" /\ call'.items = joined
      BY <3>2
    <3> QED
      BY <3>1, <3>3 DEF joined
  <2>2. ResolvedFlushDelivered'
    BY <2>1 DEF ResolvedFlushDelivered
  <2> QED
    BY <1>t, <2>1, <2>2, FlushDelivery
<1>4. ASSUME NEW c \in wire, Receive(c) PROVE DeliveryInv'
  <2>1. /\ wire' = wire \ {c} /\ flights' = flights /\ call' = call
        /\ received' = [i \in Items |-> received[i] + (IF i \in c.items THEN 1 ELSE 0)]
    BY <1>4 DEF Receive
  <2>2. \A i \in Items : (i \in c.items \/ Got(i)) => Got(i)'
    BY <2>1, <1>t DEF Got
  <2>3. ASSUME NEW f \in flights PROVE FlightDelivery(f)'
    <3>1. f.batch \subseteq Items /\ Request(f.todo) \subseteq Items
      BY <1>t, RequestIsPart DEF Flight
    <3>2. Copy(f) = c => c.items = Request(f.todo)
      BY DEF Copy
    <3>3. f.phase = "posted" => Copy(f) \in wire' \/ \A i \in Request(f.todo) : Got(i)'
      BY <2>1, <2>2, <3>1, <3>2 DEF DeliveryInv, FlightDelivery
    <3>4. \A i \in f.batch \ f.todo : Got(i)'
      BY <2>2, <3>1 DEF DeliveryInv, FlightDelivery
    <3> QED
      BY <1>s, <2>1, <3>3, <3>4, SameRequest, SameCopy DEF DeliveryInv, FlightDelivery
  <2>4. ResolvedFlushDelivered'
    <3>1. call.items \subseteq Items
      BY <1>t DEF TypeOK
    <3> QED
      BY <1>4, <2>1, <2>2, <3>1, <1>t DEF Got, DeliveryInv, ResolvedFlushDelivered
  <2> QED
    BY <2>1, <2>3, <2>4 DEF DeliveryInv
<1>5. ASSUME NEW f \in flights, Post(f) PROVE DeliveryInv'
  <2> DEFINE g == [f EXCEPT !.phase = "posted"]
  <2>1. /\ g.batch = f.batch /\ g.todo = f.todo /\ g.attempt = f.attempt /\ g.phase = "posted"
        /\ g.awaited = f.awaited
    BY <1>t DEF Flight
  <2>2. /\ Replace(f, g) /\ UNCHANGED <<received, call>>
        /\ wire' = wire \cup (IF f.todo = {} THEN {} ELSE {Copy(f)})
    BY <1>5 DEF Post
  <2> HIDE DEF g
  <2>3. Copy(g)' = Copy(f) /\ Request(g.todo)' = Request(f.todo)
    BY <1>s, <2>1, SameRequest, SameCopy DEF Copy
  <2>4. FlightDelivery(g)'
    BY <2>1, <2>2, <2>3, RequestOfNone DEF DeliveryInv, FlightDelivery, Got
  <2> QED
    BY <2>2, <2>4, <1>r
<1>6. ASSUME NEW f \in flights, Ok(f) PROVE DeliveryInv'
  <2>0. PICK g : g = AfterOk(f)
    OBVIOUS
  <2>1. /\ Replace(f, g) /\ UNCHANGED <<received, call>>
    BY <1>6, <2>0 DEF Ok
  <2>2. /\ g.batch = f.batch /\ f.todo \subseteq g.todo \cup Request(f.todo)
        /\ g.phase # "posted" /\ (g.phase = "settled" => g.todo = {}) /\ g.awaited = f.awaited
    BY <1>t, <2>0 DEF Flight, AfterOk
  <2>3. \A i \in f.batch : i \notin f.todo \/ i \in Request(f.todo) => Got(i)
    BY <1>6 DEF Ok, DeliveryInv, FlightDelivery
  <2>4. FlightDelivery(g)'
    BY <2>1, <2>2, <2>3 DEF DeliveryInv, FlightDelivery, Got
  <2> QED
    BY <2>1, <2>4, <1>r
<1>7. ASSUME NEW f \in flights, GiveUp(f) PROVE DeliveryInv'
  <2> DEFINE g == AfterError(f)
  <2>1. Replace(f, g) /\ UNCHANGED <<received, call>>
    BY <1>7 DEF GiveUp
  <2>2. /\ g.batch = f.batch /\ g.todo = f.todo /\ g.phase = "settled" /\ ~g.ok
        /\ g.awaited = f.awaited
    BY <1>t DEF Flight, AfterError
  <2> HIDE DEF g
  <2>3. FlightDelivery(g)'
    BY <2>1, <2>2 DEF DeliveryInv, FlightDelivery, Got
  <2> QED
    BY <2>1, <2>3, <1>r
<1>8. ASSUME NEW f \in flights, ServerError(f), RetriesLeft(f) PROVE DeliveryInv'
  <2> DEFINE g == [f EXCEPT !.attempt = @ + 1, !.phase = "ready"]
  <2>1. Replace(f, g) /\ UNCHANGED <<received, call>>
    BY <1>8 DEF ServerError
  <2>2. /\ g.batch = f.batch /\ g.todo = f.todo /\ g.phase = "ready" /\ g.awaited = f.awaited
    BY <1>t DEF Flight
  <2> HIDE DEF g
  <2>3. FlightDelivery(g)'
    BY <2>1, <2>2 DEF DeliveryInv, FlightDelivery, Got
  <2> QED
    BY <2>1, <2>3, <1>r
<1>9. ASSUME NEW f \in flights, Settle(f) PROVE DeliveryInv'
  <2>1. flights' = {} /\ received' = received
    BY <1>9 DEF Settle, SingleFlight
  <2>2. CASE f.awaited /\ f.ok
    <3>1. f.todo = {} /\ call.items \subseteq f.batch /\ \A i \in f.batch \ f.todo : Got(i)
      BY <1>9, <2>2 DEF Settle, DeliveryInv, FlightDelivery
    <3>2. call'.items = call.items
      BY <1>9 DEF Settle, TypeOK
    <3>3. \A i \in call.items : received[i] >= 1
      BY <3>1, <1>t DEF Got, Flight
    <3> QED
      BY <2>1, <3>2, <3>3 DEF DeliveryInv, ResolvedFlushDelivered
  <2>3. CASE f.awaited /\ ~f.ok
    <3>1. call'.state = "rejected"
      BY <1>9, <2>3 DEF Settle, TypeOK
    <3> QED
      BY <2>1, <3>1 DEF DeliveryInv, ResolvedFlushDelivered
  <2>4. CASE ~f.awaited
    BY <1>9, <1>c, <2>1, <2>4 DEF Settle, DeliveryInv
  <2> QED
    BY <2>2, <2>3, <2>4
<1>10. CASE UNCHANGED vars
  <2>1. ASSUME NEW f \in flights PROVE FlightDelivery(f)'
    BY <1>10, <1>g, SameDelivery DEF vars, DeliveryInv, FlightDelivery
  <2> QED
    BY <1>10, <1>c, <2>1 DEF vars, DeliveryInv
<1> QED
  <2>1. ASSUME NEW f \in flights, Answer(f) PROVE DeliveryInv'
    BY <2>1, <1>6, <1>7, <1>8 DEF Answer, ClientError, ServerError, NetworkError
  <2> QED
    BY <1>1, <1>2, <1>3, <1>4, <1>5, <1>9, <1>10, <2>1 DEF Next

\* When flush() or shutdown() resolves, the server has the batch it started or joined.
THEOREM ResolvedMeansDelivered == Spec => []ResolvedFlushDelivered
<1>1. Init => TypeOK /\ SingleFlight /\ DeliveryInv
  BY TypeInit DEF Init, SingleFlight, DeliveryInv, ResolvedFlushDelivered
<1>2. TypeOK /\ SingleFlight /\ DeliveryInv /\ [Next]_vars
        => (TypeOK /\ SingleFlight /\ DeliveryInv)'
  BY TypeStep, SingleStep, DeliveryStep
<1>3. DeliveryInv => ResolvedFlushDelivered
  BY DEF DeliveryInv
<1> QED
  BY <1>1, <1>2, <1>3, PTL DEF Spec

------------------------------------------------------------------------------
(* How often an item is received. *)

On(i) == {c \in wire : i \in c.items}
Count(i) == received[i] + Cardinality(On(i))

\* The flight f still has to post i for the first time.
WillPost(f, i) ==
  /\ f.phase # "settled"
  /\ i \in f.todo
  /\ i \in Request(f.todo) => f.phase = "ready" /\ f.attempt = 0

\* No request with i was posted yet.
Fresh(i) == i > tracked \/ i \in queue \/ \E f \in flights : WillPost(f, i)

\* The request of f was posted once.
PostedOnce(f) ==
  \/ f.phase = "posted" /\ f.attempt = 0
  \/ f.phase = "ready" /\ f.attempt = 1

CountInv ==
  /\ IsFiniteSet(wire)
  /\ \A i \in Items : Count(i) <= 2
  /\ \A i \in Items : Fresh(i) => received[i] = 0 /\ On(i) = {}
  /\ \A f \in flights : PostedOnce(f) =>
       \A i \in Request(f.todo) : Count(i) <= 1 /\ \A c \in On(i) : c.attempt = 0

LEMMA CountIsNumber ==
  ASSUME IsFiniteSet(wire), received \in [Items -> Nat], NEW i \in Items
  PROVE  Cardinality(On(i)) \in Nat /\ Count(i) \in Nat /\ IsFiniteSet(On(i))
<1>1. IsFiniteSet(On(i))
  BY FS_Subset DEF On
<1>2. Cardinality(On(i)) \in Nat
  BY <1>1, FS_CardinalityType
<1>3. received[i] \in Nat
  OBVIOUS
<1> QED
  BY <1>1, <1>2, <1>3 DEF Count

\* Losing copies never raises a count.
LEMMA CountFalls ==
  ASSUME IsFiniteSet(wire), received \in [Items -> Nat], wire' \subseteq wire,
         UNCHANGED received, NEW i \in Items
  PROVE  Count(i)' <= Count(i) /\ On(i)' \subseteq On(i) /\ IsFiniteSet(wire') /\ Count(i)' \in Nat
<1>1. On(i)' \subseteq On(i) /\ IsFiniteSet(wire')
  BY FS_Subset DEF On
<1>2. Cardinality(On(i)') <= Cardinality(On(i)) /\ Cardinality(On(i)') \in Nat
  BY <1>1, CountIsNumber, FS_Subset, FS_CardinalityType
<1> QED
  BY <1>1, <1>2, CountIsNumber DEF Count

\* A step that posts nothing keeps what CountInv says of the items it leaves alone.
LEMMA CountKeeps ==
  ASSUME TypeOK, CountInv, wire' \subseteq wire, UNCHANGED <<script, received>>,
         \A i \in Items : Fresh(i)' => Fresh(i),
         \A f \in flights' : PostedOnce(f) => \E g \in flights : PostedOnce(g) /\ g.todo = f.todo
  PROVE  CountInv'
<1>1. received \in [Items -> Nat] /\ IsFiniteSet(wire)
  BY DEF TypeOK, CountInv
<1>2. IsFiniteSet(wire)'
  BY <1>1, FS_Subset
<1>3. ASSUME NEW i \in Items
      PROVE  /\ Count(i)' <= 2
             /\ Fresh(i)' => received'[i] = 0 /\ On(i)' = {}
             /\ Count(i) <= 1 => Count(i)' <= 1
             /\ On(i)' \subseteq On(i)
  <2>1. Count(i)' <= Count(i) /\ On(i)' \subseteq On(i) /\ Count(i)' \in Nat /\ Count(i) \in Nat
    BY <1>1, CountFalls, CountIsNumber
  <2>2. Fresh(i)' => received'[i] = 0 /\ On(i)' = {}
    BY <2>1 DEF CountInv
  <2> QED
    BY <2>1, <2>2 DEF CountInv
<1>4. ASSUME NEW f \in flights', PostedOnce(f), NEW i \in Request(f.todo)'
      PROVE  Count(i)' <= 1 /\ \A c \in On(i)' : c.attempt = 0
  <2>1. PICK g \in flights : PostedOnce(g) /\ g.todo = f.todo
    BY <1>4
  <2>2. i \in Request(g.todo)
    BY <2>1, SameRequest
  <2>3. i \in Items
    BY <2>2, RequestIsPart, Bounds DEF TypeOK, Flight
  <2> QED
    BY <2>1, <2>2, <2>3, <1>3 DEF CountInv
<1> QED
  BY <1>2, <1>3, <1>4 DEF CountInv, PostedOnce

LEMMA CountPost ==
  ASSUME TypeOK, SingleFlight, OrderInv, CountInv, NEW f \in flights, Post(f)
  PROVE  CountInv'
<1> DEFINE g == [f EXCEPT !.phase = "posted"]
           R == Request(f.todo)
<1>1. /\ f \in Flight(tracked) /\ f.todo \subseteq f.batch /\ f.batch \subseteq 1..tracked
      /\ 1..tracked \subseteq Items /\ tracked \in Nat
      /\ received \in [Items -> Nat] /\ IsFiniteSet(wire)
  BY Bounds DEF TypeOK, Flight, CountInv
<1>2. /\ g.todo = f.todo /\ g.attempt = f.attempt /\ g.phase = "posted" /\ f.phase = "ready"
      /\ g.attempt \in {0, 1}
  BY <1>1 DEF Flight, Post
<1>3. /\ flights = {f} /\ flights' = {g} /\ UNCHANGED <<script, received, tracked, queue>>
      /\ wire' = wire \cup (IF f.todo = {} THEN {} ELSE {Copy(f)})
  BY ReplaceSingle DEF Post
<1>4. Copy(f).items = R /\ Copy(f).attempt = f.attempt
  BY DEF Copy
<1>5. R \subseteq f.todo /\ R \subseteq Items /\ (R # {} => f.todo # {})
  BY <1>1, RequestIsPart
<1>6. Request(g.todo)' = R
  BY <1>2, <1>3, SameRequest
<1> HIDE DEF g, R
<1>7. IsFiniteSet(wire)'
  BY <1>1, <1>3, FS_AddElement
\* An item that is not in the request.
<1>8. ASSUME NEW i \in Items, i \notin R
      PROVE  /\ On(i)' = On(i) /\ Count(i)' = Count(i)
             /\ Fresh(i)' => Fresh(i)
  <2>1. On(i)' = On(i)
    BY <1>3, <1>4, <1>8 DEF On
  <2>2. Fresh(i)' => Fresh(i)
    BY <1>2, <1>3, <1>6, <1>8 DEF Fresh, WillPost, R
  <2> QED
    BY <1>3, <2>1, <2>2 DEF Count
\* An item of the request.
<1>9. ASSUME NEW i \in R
      PROVE  /\ Count(i)' <= 2 /\ ~Fresh(i)'
             /\ f.attempt = 0 => Count(i)' <= 1 /\ \A c \in On(i)' : c.attempt = 0
  <2>1. On(i)' = On(i) \cup {Copy(f)} /\ i \in Items
    BY <1>3, <1>4, <1>5 DEF On
  <2>2. Cardinality(On(i)') <= Cardinality(On(i)) + 1 /\ Cardinality(On(i)') \in Nat
    <3>1. IsFiniteSet(On(i)) /\ Cardinality(On(i)) \in Nat
      BY <1>1, <2>1, CountIsNumber
    <3>2. \A S, x : IsFiniteSet(S) => Cardinality(S \cup {x}) \in {Cardinality(S), Cardinality(S) + 1}
      BY FS_AddElement
    <3>3. Cardinality(On(i)') \in {Cardinality(On(i)), Cardinality(On(i)) + 1}
      BY <2>1, <3>1, <3>2
    <3> QED
      BY <3>1, <3>3
  <2>3. Count(i)' <= Count(i) + 1 /\ Count(i) \in Nat /\ Count(i)' \in Nat
    BY <1>1, <1>3, <2>1, <2>2, CountIsNumber DEF Count
  <2>4. ~Fresh(i)'
    <3>1. i \in f.batch /\ i \in 1..tracked /\ i \notin queue
      BY <1>1, <1>5 DEF OrderInv
    <3>2. i <= tracked
      BY <3>1, <1>1
    <3> QED
      BY <1>1, <1>2, <1>3, <1>6, <3>1, <3>2 DEF Fresh, WillPost
  <2>5. CASE f.attempt = 0
    <3>1. Fresh(i)
      BY <1>2, <1>5, <2>5 DEF Fresh, WillPost
    <3>2. On(i) = {} /\ Count(i) = 0
      BY <2>1, <3>1, FS_EmptySet DEF CountInv, Count
    <3> QED
      BY <1>4, <2>1, <2>3, <2>4, <2>5, <3>2
  <2>6. CASE f.attempt = 1
    <3>1. Count(i) <= 1
      BY <1>2, <2>6 DEF CountInv, PostedOnce, R
    <3> QED
      BY <2>3, <2>4, <2>6, <3>1
  <2> QED
    BY <1>2, <2>5, <2>6
<1>10. \A i \in Items : Count(i)' <= 2 /\ (Fresh(i)' => received'[i] = 0 /\ On(i)' = {})
  BY <1>3, <1>8, <1>9 DEF CountInv
<1>11. PostedOnce(g) => \A i \in R : Count(i)' <= 1 /\ \A c \in On(i)' : c.attempt = 0
  BY <1>2, <1>9 DEF PostedOnce
<1> QED
  <2>1. \A h \in flights' : PostedOnce(h) =>
          \A i \in Request(h.todo)' : Count(i)' <= 1 /\ \A c \in On(i)' : c.attempt = 0
    BY <1>2, <1>3, <1>6, <1>11, SameRequest DEF R
  <2> QED
    BY <1>7, <1>10, <2>1 DEF CountInv, PostedOnce

LEMMA CountReceive ==
  ASSUME TypeOK, CountInv, NEW c \in wire, Receive(c)
  PROVE  CountInv'
<1>1. /\ wire' = wire \ {c} /\ UNCHANGED <<script, tracked, queue, flights>>
      /\ received' = [i \in Items |-> received[i] + (IF i \in c.items THEN 1 ELSE 0)]
      /\ received \in [Items -> Nat] /\ IsFiniteSet(wire)
  BY DEF Receive, TypeOK, CountInv
<1>2. IsFiniteSet(wire)'
  BY <1>1, FS_Subset
<1>3. ASSUME NEW i \in Items
      PROVE  /\ Count(i)' = Count(i) /\ On(i)' \subseteq On(i)
             /\ i \in c.items => On(i) # {}
             /\ i \notin c.items => received'[i] = received[i]
  <2>1. On(i)' = IF i \in c.items THEN On(i) \ {c} ELSE On(i)
    BY <1>1 DEF On
  <2>2. IsFiniteSet(On(i)) /\ Cardinality(On(i)) \in Nat /\ received[i] \in Nat
    BY <1>1, CountIsNumber
  <2>3. CASE i \in c.items
    <3>1. c \in On(i) /\ received'[i] = received[i] + 1
      BY <1>1, <2>3 DEF On
    <3>2. \A S, x : IsFiniteSet(S) /\ x \in S => Cardinality(S \ {x}) = Cardinality(S) - 1
      BY FS_RemoveElement
    <3>3. Cardinality(On(i)') = Cardinality(On(i)) - 1
      BY <2>1, <2>2, <2>3, <3>1, <3>2
    <3> QED
      BY <2>1, <2>2, <2>3, <3>1, <3>3 DEF Count
  <2>4. CASE i \notin c.items
    <3>1. received'[i] = received[i]
      BY <1>1, <2>2, <2>4
    <3> QED
      BY <2>1, <2>4, <3>1 DEF Count
  <2> QED
    BY <2>3, <2>4
<1>4. \A i \in Items : Count(i)' <= 2
  BY <1>3 DEF CountInv
<1>5. ASSUME NEW i \in Items, Fresh(i)' PROVE received'[i] = 0 /\ On(i)' = {}
  <2>1. Fresh(i)
    BY <1>1, <1>5, SameRequest DEF Fresh, WillPost
  <2> QED
    BY <1>3, <2>1 DEF CountInv
<1>6. ASSUME NEW f \in flights', PostedOnce(f), NEW i \in Request(f.todo)'
      PROVE  Count(i)' <= 1 /\ \A d \in On(i)' : d.attempt = 0
  <2>1. i \in Request(f.todo) /\ f \in flights
    BY <1>1, <1>6, SameRequest
  <2>2. i \in Items
    BY <2>1, RequestIsPart, Bounds DEF TypeOK, Flight
  <2> QED
    BY <1>3, <1>6, <2>1, <2>2 DEF CountInv
<1> QED
  BY <1>2, <1>4, <1>5, <1>6 DEF CountInv, PostedOnce

\* Taking the queue, or joining the flight, posts nothing.
LEMMA FlushFresh ==
  ASSUME SingleFlight, UNCHANGED script, NEW n, flights \subseteq Flight(n), NEW q,
         NEW waits \in BOOLEAN, FlushOf(q, waits)
  PROVE  /\ queue' \subseteq q
         /\ \A i : (\E g \in flights' : WillPost(g, i)') => i \in q \/ \E f \in flights : WillPost(f, i)
         /\ \A g \in flights' : PostedOnce(g) => \E f \in flights : PostedOnce(f) /\ f.todo = g.todo
<1>1. CASE MayStart
  <2> DEFINE f == NewFlight(q, waits)
  <2>1. flights' = {f} /\ queue' = {}
    BY <1>1 DEF MayStart, SingleFlight, FlushOf
  <2>2. f.todo = q /\ f.phase # "posted" /\ f.attempt = 0
    BY DEF NewFlight
  <2> HIDE DEF f
  <2> QED
    BY <2>1, <2>2 DEF WillPost, PostedOnce
<1>2. CASE ~MayStart
  <2>1. queue' = q
    BY <1>2 DEF FlushOf
  <2>2. ASSUME NEW g \in flights'
        PROVE  \E f \in flights : g.todo = f.todo /\ g.phase = f.phase /\ g.attempt = f.attempt
    <3>1. PICK f \in flights : g = IF waits THEN [f EXCEPT !.awaited = TRUE] ELSE f
      BY <1>2 DEF FlushOf
    <3> QED
      BY <3>1 DEF Flight
  <2>3. \A i : (\E g \in flights' : WillPost(g, i)') => \E f \in flights : WillPost(f, i)
    BY <2>2, SameRequest DEF WillPost
  <2> QED
    BY <2>1, <2>2, <2>3 DEF PostedOnce
<1> QED
  BY <1>1, <1>2

LEMMA CountStep == TypeOK /\ SingleFlight /\ OrderInv /\ CountInv /\ [Next]_vars => CountInv'
<1> SUFFICES ASSUME TypeOK, SingleFlight, OrderInv, CountInv, [Next]_vars PROVE CountInv'
  OBVIOUS
<1>s. UNCHANGED script
  BY SameScript
<1>t. /\ flights \subseteq Flight(tracked)
      /\ tracked \in Nat /\ Items \subseteq Nat
  BY Bounds DEF TypeOK, Items
\* A step of the flight that posts nothing.
<1>r. ASSUME NEW f \in flights, NEW g, Replace(f, g), wire' \subseteq wire,
             UNCHANGED <<received, tracked, queue>>,
             \A i : WillPost(g, i)' => WillPost(f, i),
             PostedOnce(g) => PostedOnce(f) /\ g.todo = f.todo
      PROVE  CountInv'
  <2>1. flights' = {g}
    BY <1>r, ReplaceSingle
  <2>2. \A i \in Items : Fresh(i)' => Fresh(i)
    BY <1>r, <2>1 DEF Fresh
  <2> QED
    BY <1>s, <1>r, <2>1, <2>2, CountKeeps
<1>1. CASE Track
  <2> DEFINE over == IF Cardinality(queue) >= MaxQueue THEN Victim(queue) ELSE {}
             q == (queue \ over) \cup {tracked + 1}
  <2>1. /\ FlushOf(q, FALSE) \/ (queue' = q /\ flights' = flights)
        /\ tracked' = tracked + 1 /\ UNCHANGED <<wire, received>>
    BY <1>1 DEF Track
  <2>2. q \subseteq queue \cup {tracked + 1}
    OBVIOUS
  <2> HIDE DEF q, over
  <2>3. /\ queue' \subseteq q
        /\ \A i : (\E g \in flights' : WillPost(g, i)') => i \in q \/ \E f \in flights : WillPost(f, i)
        /\ \A g \in flights' : PostedOnce(g) => \E f \in flights : PostedOnce(f) /\ f.todo = g.todo
    <3>1. CASE FlushOf(q, FALSE)
      BY <1>s, <1>t, <3>1, FlushFresh
    <3>2. CASE queue' = q /\ flights' = flights
      <4>1. \A g \in flights' : \A i : WillPost(g, i)' => WillPost(g, i)
        BY <1>s, SameRequest DEF WillPost
      <4> QED
        BY <3>2, <4>1
    <3> QED
      BY <2>1, <3>1, <3>2
  <2>4. \A i \in Items : Fresh(i)' => Fresh(i)
    BY <1>t, <2>1, <2>2, <2>3 DEF Fresh
  <2> QED
    BY <1>s, <2>1, <2>3, <2>4, CountKeeps
<1>2. CASE TimerFires \/ Flush \/ Shutdown
  <2>1. /\ FlushOf(queue, FALSE) \/ FlushOf(queue, TRUE)
        /\ UNCHANGED <<tracked, wire, received>>
    BY <1>2 DEF TimerFires, Flush, Shutdown, AwaitFlush
  <2>2. /\ queue' \subseteq queue
        /\ \A i : (\E g \in flights' : WillPost(g, i)') =>
                  i \in queue \/ \E f \in flights : WillPost(f, i)
        /\ \A g \in flights' : PostedOnce(g) => \E f \in flights : PostedOnce(f) /\ f.todo = g.todo
    BY <1>s, <1>t, <2>1, FlushFresh
  <2>3. \A i \in Items : Fresh(i)' => Fresh(i)
    BY <2>1, <2>2 DEF Fresh
  <2> QED
    BY <1>s, <2>1, <2>2, <2>3, CountKeeps
<1>3. ASSUME NEW c \in wire, Receive(c) PROVE CountInv'
  BY <1>3, CountReceive
<1>4. ASSUME NEW f \in flights, Post(f) PROVE CountInv'
  BY <1>4, CountPost
<1>5. ASSUME NEW f \in flights, Ok(f) PROVE CountInv'
  <2>1. PICK g : g = AfterOk(f)
    OBVIOUS
  <2>2. Replace(f, g) /\ f.phase = "posted" /\ UNCHANGED <<wire, received, tracked, queue>>
    BY <1>5, <2>1 DEF Ok
  <2>3. g.phase = "settled" \/ (g.phase = "ready" /\ g.attempt = 0 /\ g.todo = f.todo \ Request(f.todo))
    BY <1>t, <2>1 DEF AfterOk, Flight
  <2>4. \A i : WillPost(g, i)' => WillPost(f, i)
    BY <2>2, <2>3 DEF WillPost
  <2>5. ~PostedOnce(g)
    BY <2>3 DEF PostedOnce
  <2> QED
    BY <1>r, <2>2, <2>4, <2>5
<1>6. ASSUME NEW f \in flights, GiveUp(f), wire' \subseteq wire PROVE CountInv'
  <2>1. PICK g : g = AfterError(f)
    OBVIOUS
  <2>2. Replace(f, g) /\ UNCHANGED <<received, tracked, queue>>
    BY <1>6, <2>1 DEF GiveUp
  <2>3. g.phase = "settled"
    BY <1>t, <2>1 DEF AfterError, Flight
  <2>4. ~PostedOnce(g) /\ \A i : ~WillPost(g, i)'
    BY <2>3 DEF WillPost, PostedOnce
  <2> QED
    BY <1>6, <1>r, <2>2, <2>4
<1>7. ASSUME NEW f \in flights, ServerError(f), RetriesLeft(f) PROVE CountInv'
  <2>1. PICK g : g = [f EXCEPT !.attempt = @ + 1, !.phase = "ready"]
    OBVIOUS
  <2>2. /\ Replace(f, g) /\ UNCHANGED <<received, tracked, queue>> /\ wire' \subseteq wire
        /\ f.phase = "posted" /\ f.attempt = 0
    BY <1>7, <2>1 DEF ServerError, FailureLeaves, RetriesLeft
  <2>3. g.phase = "ready" /\ g.attempt = 1 /\ g.todo = f.todo
    BY <1>t, <2>1, <2>2 DEF Flight
  <2>4. Request(g.todo)' = Request(f.todo)
    BY <1>s, <2>3, SameRequest
  <2>5. \A i : WillPost(g, i)' => WillPost(f, i)
    BY <2>2, <2>3, <2>4 DEF WillPost
  <2>6. PostedOnce(f)
    BY <2>2 DEF PostedOnce
  <2> QED
    BY <1>r, <2>2, <2>3, <2>5, <2>6
<1>8. ASSUME NEW f \in flights, Settle(f) PROVE CountInv'
  <2>1. flights' = {} /\ UNCHANGED <<wire, received, tracked, queue>>
    BY <1>8 DEF Settle, SingleFlight
  <2>2. \A i \in Items : Fresh(i)' => Fresh(i)
    BY <2>1 DEF Fresh
  <2> QED
    BY <1>s, <2>1, <2>2, CountKeeps
<1>9. CASE UNCHANGED vars
  <2>1. UNCHANGED <<wire, received, tracked, queue, flights>>
    BY <1>9 DEF vars
  <2>2. \A i \in Items : Fresh(i)' => Fresh(i)
    BY <1>s, <2>1, SameRequest DEF Fresh, WillPost
  <2> QED
    BY <1>s, <2>1, <2>2, CountKeeps
<1> QED
  <2>1. ASSUME NEW f \in flights, Answer(f) PROVE CountInv'
    BY <2>1, <1>5, <1>6, <1>7 DEF Answer, ClientError, ServerError, NetworkError, FailureLeaves
  <2> QED
    BY <1>1, <1>2, <1>3, <1>4, <1>8, <1>9, <2>1 DEF Next

\* The single retry of a 5xx answer may store an item twice, and nothing stores it more often.
THEOREM StoredAtMostTwice == Spec => []AtMostTwice
<1>1. Init => CountInv
  <2> SUFFICES ASSUME Init PROVE CountInv
    OBVIOUS
  <2>1. IsFiniteSet(wire) /\ \A i : On(i) = {}
    BY FS_EmptySet DEF Init, On
  <2>2. \A i \in Items : received[i] = 0 /\ Count(i) = 0
    BY <2>1, FS_EmptySet DEF Init, Count
  <2> QED
    BY <2>1, <2>2 DEF Init, CountInv
<1>2. TypeOK /\ SingleFlight /\ OrderInv /\ CountInv /\ [Next]_vars => CountInv'
  BY CountStep
<1>3. CountInv => AtMostTwice
  BY DEF CountInv, Count, On, AtMostTwice
<1> QED
  BY <1>1, <1>2, <1>3, OrderInvariant, PTL DEF Spec

------------------------------------------------------------------------------
(* The client is an SdkPipe. *)

\* No item is in two places: queued, still to be sent by a flight that goes on, or finished
\* in one of the three ways.
PlaceInv ==
  /\ queue \cap Finished = {}
  /\ acked \cap dropped = {} /\ acked \cap abandoned = {} /\ dropped \cap abandoned = {}
  /\ \A f \in flights : /\ f.todo \cap (acked \cup dropped) = {}
                        /\ f.phase # "settled" => f.todo \cap abandoned = {}

\* A flush starts with a queue that it empties, or leaves the flights as they are.
LEMMA FlushPlaces ==
  ASSUME SingleFlight, NEW n, flights \subseteq Flight(n), NEW q, NEW waits \in BOOLEAN,
         FlushOf(q, waits)
  PROVE  \/ /\ flights = {} /\ queue' = {}
            /\ \A g \in flights' : g.todo = q
         \/ /\ queue' = q
            /\ \A g \in flights' : \E f \in flights : g.todo = f.todo /\ g.phase = f.phase
<1>1. CASE MayStart
  <2>1. flights = {} /\ queue' = {} /\ flights' = {NewFlight(q, waits)}
    BY <1>1 DEF MayStart, SingleFlight, FlushOf
  <2> QED
    BY <2>1 DEF NewFlight
<1>2. CASE ~MayStart
  <2>1. \A g \in flights' : \E f \in flights : g = f \/ g = [f EXCEPT !.awaited = TRUE]
    BY <1>2 DEF FlushOf
  <2>2. \A f \in flights : /\ [f EXCEPT !.awaited = TRUE].todo = f.todo
                           /\ [f EXCEPT !.awaited = TRUE].phase = f.phase
    BY DEF Flight
  <2>3. queue' = q
    BY <1>2 DEF FlushOf
  <2> QED
    BY <2>1, <2>2, <2>3
<1> QED
  BY <1>1, <1>2

\* What Track does to the queue and to the dropped items.
LEMMA TrackPlaces ==
  ASSUME TypeOK, SingleFlight, Track
  PROVE  \E over \in SUBSET queue : \E q :
           /\ over \subseteq Oldest(queue)
           /\ q = (queue \ over) \cup {tracked + 1}
           /\ tracked' = tracked + 1
           /\ dropped' = dropped \cup over
           /\ UNCHANGED <<acked, abandoned>>
           /\ \/ /\ flights = {} /\ queue' = {}
                 /\ \A g \in flights' : g.todo = q
              \/ /\ queue' = q
                 /\ \A g \in flights' : \E f \in flights : g.todo = f.todo /\ g.phase = f.phase
<1> DEFINE over == IF Cardinality(queue) >= MaxQueue THEN Victim(queue) ELSE {}
           q == (queue \ over) \cup {tracked + 1}
<1>1. over \in SUBSET queue /\ over \subseteq Oldest(queue)
  BY VictimIsPart DEF Victim
<1>2. /\ tracked' = tracked + 1
      /\ dropped' = dropped \cup over
      /\ UNCHANGED <<acked, abandoned>>
      /\ FlushOf(q, FALSE) \/ (queue' = q /\ flights' = flights)
  BY DEF Track
<1>3. q = (queue \ over) \cup {tracked + 1}
  OBVIOUS
<1> HIDE DEF q, over
<1>4. CASE FlushOf(q, FALSE)
  <2>1. flights \subseteq Flight(tracked)
    BY DEF TypeOK
  <2>2. \/ /\ flights = {} /\ queue' = {}
           /\ \A g \in flights' : g.todo = q
        \/ /\ queue' = q
           /\ \A g \in flights' : \E f \in flights : g.todo = f.todo /\ g.phase = f.phase
    BY <1>4, <2>1, FlushPlaces
  <2> QED
    BY <1>1, <1>2, <1>3, <2>2
<1>5. CASE queue' = q /\ flights' = flights
  BY <1>1, <1>2, <1>3, <1>5
<1> QED
  BY <1>2, <1>4, <1>5

\* What a flush by the timer or the application does to the queue.
LEMMA TakePlaces ==
  ASSUME TypeOK, SingleFlight, TimerFires \/ Flush \/ Shutdown
  PROVE  /\ UNCHANGED <<tracked, acked, dropped, abandoned>>
         /\ \/ /\ flights = {} /\ queue' = {}
               /\ \A g \in flights' : g.todo = queue
            \/ /\ queue' = queue
               /\ \A g \in flights' : \E f \in flights : g.todo = f.todo /\ g.phase = f.phase
<1>1. UNCHANGED <<tracked, acked, dropped, abandoned>>
  BY DEF TimerFires, Flush, Shutdown, AwaitFlush
<1>2. PICK waits \in BOOLEAN : FlushOf(queue, waits)
  BY DEF TimerFires, Flush, Shutdown, AwaitFlush
<1>3. flights \subseteq Flight(tracked)
  BY DEF TypeOK
<1> QED
  BY <1>1, <1>2, <1>3, FlushPlaces

\* What an answer does to the items of the flight: nothing, or the request's are
\* acknowledged, or all that is left is given up.
LEMMA AnswerPlaces ==
  ASSUME TypeOK, SingleFlight, NEW f \in flights, Post(f) \/ Answer(f)
  PROVE  /\ UNCHANGED <<tracked, queue, dropped>>
         /\ flights = {f}
         /\ f.phase # "settled"
         /\ \/ /\ UNCHANGED <<acked, abandoned>>
               /\ \A g \in flights' : g.todo = f.todo
            \/ /\ acked' = acked \cup Request(f.todo)
               /\ UNCHANGED abandoned
               /\ \A g \in flights' : g.todo = f.todo \ Request(f.todo)
            \/ /\ abandoned' = abandoned \cup f.todo
               /\ UNCHANGED acked
               /\ \A g \in flights' : g.todo = f.todo /\ g.phase = "settled"
<1>t. f \in Flight(tracked) /\ f.todo \subseteq f.batch
  BY DEF TypeOK
<1>1. flights = {f} /\ UNCHANGED <<tracked, queue, dropped>> /\ f.phase # "settled"
  BY DEF SingleFlight, Post, Answer, Ok, ClientError, ServerError, NetworkError, GiveUp
<1>r. \A g : Replace(f, g) => flights' = {g}
  BY <1>1 DEF Replace
<1>2. ASSUME Post(f)
      PROVE  UNCHANGED <<acked, abandoned>> /\ \A g \in flights' : g.todo = f.todo
  <2>1. flights' = {[f EXCEPT !.phase = "posted"]} /\ UNCHANGED <<acked, abandoned>>
    BY <1>2, <1>r DEF Post
  <2> QED
    BY <2>1, <1>t DEF Flight
<1>3. ASSUME Ok(f)
      PROVE  /\ acked' = acked \cup Request(f.todo)
             /\ UNCHANGED abandoned
             /\ \A g \in flights' : g.todo = f.todo \ Request(f.todo)
  <2>1. /\ flights' = {AfterOk(f)} /\ UNCHANGED abandoned
        /\ acked' = acked \cup Request(f.todo)
    BY <1>3, <1>r DEF Ok
  <2>2. AfterOk(f).todo = f.todo \ Request(f.todo)
    BY <1>t DEF AfterOk, Flight
  <2> QED
    BY <2>1, <2>2
<1>4. ASSUME GiveUp(f)
      PROVE  /\ abandoned' = abandoned \cup f.todo
             /\ UNCHANGED acked
             /\ \A g \in flights' : g.todo = f.todo /\ g.phase = "settled"
  <2>1. /\ flights' = {AfterError(f)} /\ UNCHANGED acked
        /\ abandoned' = abandoned \cup f.todo
    BY <1>4, <1>r DEF GiveUp
  <2> QED
    BY <2>1, <1>t DEF AfterError, Flight
<1>5. ASSUME ServerError(f), RetriesLeft(f)
      PROVE  UNCHANGED <<acked, abandoned>> /\ \A g \in flights' : g.todo = f.todo
  <2> DEFINE h == [f EXCEPT !.attempt = @ + 1, !.phase = "ready"]
  <2>1. h.todo = f.todo
    BY <1>t DEF Flight
  <2>2. flights' = {h} /\ UNCHANGED <<acked, abandoned>>
    BY <1>5, <1>r DEF ServerError
  <2> HIDE DEF h
  <2> QED
    BY <2>1, <2>2
<1> QED
  BY <1>1, <1>2, <1>3, <1>4, <1>5 DEF Answer, ClientError, ServerError, NetworkError

\* The other steps move no item.
LEMMA RestPlaces ==
  ASSUME (\E c \in wire : Receive(c)) \/ (\E f \in flights : Settle(f)) \/ UNCHANGED vars
  PROVE  UNCHANGED <<tracked, queue, acked, dropped, abandoned>> /\ flights' \subseteq flights
BY DEF Receive, Settle, vars

LEMMA PlaceStep == TypeOK /\ SingleFlight /\ OrderInv /\ PlaceInv /\ [Next]_vars => PlaceInv'
<1> SUFFICES ASSUME TypeOK, SingleFlight, OrderInv, PlaceInv, [Next]_vars PROVE PlaceInv'
  OBVIOUS
<1>t. /\ tracked \in Nat /\ tracked + 1 \notin 1..tracked
      /\ queue \subseteq 1..tracked /\ Finished \subseteq 1..tracked
      /\ \A f \in flights : f.todo \subseteq 1..tracked
  BY Bounds DEF TypeOK, Flight, Finished
<1>q. \A f \in flights : f.todo \cap queue = {}
  <2>1. \A f \in flights : f.todo \subseteq f.batch
    BY DEF TypeOK
  <2>2. \A f \in flights : \A i \in f.todo : \A j \in queue : i < j /\ i \in Nat /\ j \in Nat
    BY <2>1, <1>t DEF OrderInv
  <2> QED
    BY <2>2
<1>1. CASE Track
  <2>1. PICK over \in SUBSET queue : \E q :
           /\ q = (queue \ over) \cup {tracked + 1}
           /\ dropped' = dropped \cup over
           /\ UNCHANGED <<acked, abandoned>>
           /\ \/ /\ flights = {} /\ queue' = {}
                 /\ \A g \in flights' : g.todo = q
              \/ /\ queue' = q
                 /\ \A g \in flights' : \E f \in flights : g.todo = f.todo /\ g.phase = f.phase
    BY <1>1, TrackPlaces
  <2>2. /\ ((queue \ over) \cup {tracked + 1}) \cap (Finished \cup over) = {}
        /\ \A f \in flights : f.todo \cap over = {}
    BY <1>t, <1>q DEF PlaceInv
  <2> QED
    BY <2>1, <2>2 DEF PlaceInv, Finished
<1>2. CASE TimerFires \/ Flush \/ Shutdown
  BY <1>2, TakePlaces DEF PlaceInv, Finished
<1>3. ASSUME NEW f \in flights, Post(f) \/ Answer(f) PROVE PlaceInv'
  <2>1. f.todo \cap Finished = {} /\ Request(f.todo) \subseteq f.todo
    BY <1>3, AnswerPlaces, RequestIsPart DEF PlaceInv, Finished
  <2> QED
    BY <1>3, <2>1, <1>q, AnswerPlaces DEF PlaceInv, Finished
<1>4. CASE (\E c \in wire : Receive(c)) \/ (\E f \in flights : Settle(f)) \/ UNCHANGED vars
  BY <1>4, RestPlaces DEF PlaceInv, Finished
<1> QED
  BY <1>1, <1>2, <1>3, <1>4 DEF Next

\* The places determine the stage.
StagesKnown ==
  \A i \in Items :
    /\ i > tracked => StageOf(i) = "new"
    /\ i \in queue => StageOf(i) = "queued"
    /\ i \in acked => StageOf(i) = "acked"
    /\ i \in dropped => StageOf(i) = "dropped"
    /\ i \in abandoned => StageOf(i) = "lost"
    /\ i <= tracked /\ i \notin queue \cup Finished => StageOf(i) = "sending"

LEMMA PlacesGiveStages == TypeOK /\ PlaceInv => StagesKnown
<1> SUFFICES ASSUME TypeOK, PlaceInv, NEW i \in Items
             PROVE  /\ i > tracked => StageOf(i) = "new"
                    /\ i \in queue => StageOf(i) = "queued"
                    /\ i \in acked => StageOf(i) = "acked"
                    /\ i \in dropped => StageOf(i) = "dropped"
                    /\ i \in abandoned => StageOf(i) = "lost"
                    /\ i <= tracked /\ i \notin queue \cup Finished => StageOf(i) = "sending"
  BY DEF StagesKnown
<1>1. tracked \in Nat /\ i \in Nat /\ (i > tracked => i \notin queue \cup Finished)
  BY Bounds, SdkAssumption DEF TypeOK, Items, SdkAssumption, Finished
<1> QED
  BY <1>1 DEF StageOf, PlaceInv, Finished

\* The abstract action, by what becomes of each item.
LEMMA PipeMoves ==
  ASSUME \A i \in Items : StageOf(i)' = StageOf(i) \/ <<StageOf(i), StageOf(i)'>> \in Pipe!Moves,
         \A i \in Items : StageOf(i)' = "queued" /\ StageOf(i) # "queued" =>
           \A j \in Items : j < i => StageOf(j) # "new",
         \A i \in Items : StageOf(i)' = "dropped" /\ StageOf(i) # "dropped" =>
           \A j \in Items : StageOf(j) = "queued" => i <= j,
         \A i \in Items : StageOf(i)' = "sending" /\ StageOf(i) # "sending" =>
           \A j \in Items : StageOf(j) # "sending" /\ StageOf(j)' # "queued",
         \A i \in Items : StageOf(i)' = "lost" /\ StageOf(i) # "lost" =>
           \A j \in Items : StageOf(j) = "sending" => StageOf(j)' = "lost"
  PROVE  Pipe!Next
BY DEF Pipe!Next, Pipe!InTrackOrder, Pipe!OldestIsDropped, Pipe!WholeQueueIsTaken,
   Pipe!RestIsLostTogether, Pipe!MovedTo, Pipe!At

\* Every step of the client is a step of the pipe, or moves no item.
LEMMA PipeStep ==
  TypeOK /\ SingleFlight /\ OrderInv /\ PlaceInv /\ StagesKnown /\ StagesKnown' /\ [Next]_vars =>
    [Pipe!Next]_([i \in Items |-> StageOf(i)])
<1> SUFFICES ASSUME TypeOK, SingleFlight, OrderInv, PlaceInv, StagesKnown, StagesKnown',
                    [Next]_vars
             PROVE  Pipe!Next \/ [i \in Items |-> StageOf(i)]' = [i \in Items |-> StageOf(i)]
  OBVIOUS
<1>t. /\ tracked \in Nat /\ Items \subseteq Nat /\ Items' = Items
      /\ queue \subseteq 1..tracked /\ Finished \subseteq 1..tracked
      /\ \A i \in Items : i >= 1
  BY Bounds, SdkAssumption DEF TypeOK, Finished, Items, SdkAssumption
\* What each item's place says of its stage, before and after.
<1>s. \A i \in Items : \/ i > tracked \/ i \in queue \/ i \in acked \/ i \in dropped
                       \/ i \in abandoned \/ (i <= tracked /\ i \notin queue \cup Finished)
  BY <1>t DEF Finished
<1>0. ASSUME UNCHANGED <<tracked, queue, acked, dropped, abandoned>>
      PROVE  [i \in Items |-> StageOf(i)]' = [i \in Items |-> StageOf(i)]
  BY <1>0 DEF StageOf, Items
<1>i. \A i \in Items : /\ StageOf(i) = "new" => i > tracked
                       /\ StageOf(i) = "queued" => i \in queue
                       /\ StageOf(i) = "sending" => i \notin queue \cup Finished
                       /\ StageOf(i) = "sending" => \E f \in flights : i \in f.todo
  <2>1. \A i \in Items : StageOf(i) = "sending" => i <= tracked /\ i \notin queue \cup Finished
    BY <1>s DEF StagesKnown
  <2> QED
    BY <1>s, <1>t, <2>1 DEF StagesKnown, OrderInv
\* Without a flight nothing is being sent.
<1>n. ASSUME flights = {} PROVE \A i \in Items : StageOf(i) # "sending"
  BY <1>n, <1>i
<1>1. CASE Track
  <2>1. PICK over \in SUBSET queue : \E q :
           /\ over \subseteq Oldest(queue)
           /\ q = (queue \ over) \cup {tracked + 1}
           /\ tracked' = tracked + 1
           /\ dropped' = dropped \cup over
           /\ UNCHANGED <<acked, abandoned>>
           /\ (flights = {} /\ queue' = {}) \/ queue' = q
    BY <1>1, TrackPlaces
  <2>f. Finished' = Finished \cup over
    BY <2>1 DEF Finished
  \* Where each item was, and where it is now.
  <2>2. \A i \in Items : i # tracked + 1 /\ i \notin queue => StageOf(i)' = StageOf(i)
    BY <2>1, <2>f, <1>t, <1>s DEF StagesKnown
  <2>3. \A i \in over : StageOf(i) = "queued" /\ StageOf(i)' = "dropped"
    <3>1. over \subseteq Items
      BY <1>t, Bounds
    <3> QED
      BY <2>1, <3>1 DEF StagesKnown
  <2>4. \A i \in (queue \ over) \cup {tracked + 1} : i \in Items =>
          /\ StageOf(i) = IF i = tracked + 1 THEN "new" ELSE "queued"
          /\ StageOf(i)' = IF queue' = {} THEN "sending" ELSE "queued"
    <3>1. ASSUME NEW i \in (queue \ over) \cup {tracked + 1}, i \in Items
          PROVE  StageOf(i) = IF i = tracked + 1 THEN "new" ELSE "queued"
      BY <3>1, <1>t DEF StagesKnown
    <3>2. ASSUME NEW i \in (queue \ over) \cup {tracked + 1}, i \in Items
          PROVE  StageOf(i)' = IF queue' = {} THEN "sending" ELSE "queued"
      <4>1. i <= tracked'
        BY <2>1, <1>t, <3>2
      <4>2. CASE queue' = {}
        <5>1. i \notin Finished'
          BY <2>f, <3>2, <1>t DEF PlaceInv
        <5>2. i \in Items' /\ i \notin queue'
          BY <1>t, <3>2, <4>2
        <5> QED
          BY <4>1, <4>2, <5>1, <5>2 DEF StagesKnown
      <4>3. CASE queue' # {}
        BY <2>1, <3>2, <4>3 DEF StagesKnown
      <4> QED
        BY <4>2, <4>3
    <3> QED
      BY <3>1, <3>2
  <2> DEFINE taken == (queue \ over) \cup {tracked + 1}
  <2>5. \A i \in Items : \/ i \notin taken \cup over /\ StageOf(i)' = StageOf(i) /\ StageOf(i) # "queued"
                         \/ i \in over /\ StageOf(i) = "queued" /\ StageOf(i)' = "dropped"
                         \/ /\ i \in taken
                            /\ StageOf(i) = IF i = tracked + 1 THEN "new" ELSE "queued"
                            /\ StageOf(i)' = IF queue' = {} THEN "sending" ELSE "queued"
    BY <2>2, <2>3, <2>4, <1>i
  <2>6. queue' = {} => flights = {}
    BY <2>1
  <2>7. tracked + 1 \in taken /\ \A i \in over : \A j \in queue : i <= j
    BY <2>1 DEF Oldest
  <2> HIDE DEF taken
  <2>8. \A i \in Items : StageOf(i)' = StageOf(i) \/ <<StageOf(i), StageOf(i)'>> \in Pipe!Moves
    BY <2>5 DEF Pipe!Moves
  <2>9. \A i \in Items : StageOf(i)' = "queued" /\ StageOf(i) # "queued" =>
          \A j \in Items : j < i => StageOf(j) # "new"
    <3>1. \A i \in Items : StageOf(i)' = "queued" /\ StageOf(i) # "queued" => i = tracked + 1
      BY <2>5
    <3>2. \A j \in Items : j < tracked + 1 => ~(j > tracked)
      BY <1>t
    <3>3. \A j \in Items : j < tracked + 1 => StageOf(j) # "new"
      BY <3>2, <1>i
    <3> QED
      BY <3>1, <3>3
  <2>10. \A i \in Items : StageOf(i)' = "dropped" /\ StageOf(i) # "dropped" =>
           \A j \in Items : StageOf(j) = "queued" => i <= j
    BY <2>5, <2>7, <1>i
  <2>11. \A i \in Items : StageOf(i)' = "sending" /\ StageOf(i) # "sending" =>
           \A j \in Items : StageOf(j) # "sending" /\ StageOf(j)' # "queued"
    BY <2>5, <2>6, <1>n
  <2>12. \A i \in Items : StageOf(i)' = "lost" => StageOf(i) = "lost"
    BY <2>5
  <2> QED
    BY <2>8, <2>9, <2>10, <2>11, <2>12, PipeMoves
<1>2. CASE TimerFires \/ Flush \/ Shutdown
  <2>1. UNCHANGED <<tracked, acked, dropped, abandoned>>
    BY <1>2, TakePlaces
  <2>2. CASE queue' = queue
    BY <2>1, <2>2, <1>0
  <2>3. CASE queue' # queue
    <3>1. flights = {} /\ queue' = {}
      BY <1>2, <2>3, TakePlaces
    <3>2. Finished' = Finished
      BY <2>1 DEF Finished
    <3>3. \A i \in Items : IF i \in queue THEN StageOf(i) = "queued" /\ StageOf(i)' = "sending"
                          ELSE StageOf(i)' = StageOf(i) /\ StageOf(i) # "queued"
      <4>1. ASSUME NEW i \in queue, i \in Items
            PROVE  StageOf(i) = "queued" /\ StageOf(i)' = "sending"
        <5>1. i \notin queue' \cup Finished' /\ i <= tracked'
          BY <2>1, <3>1, <3>2, <1>t DEF PlaceInv
        <5> QED
          BY <1>t, <4>1, <5>1 DEF StagesKnown
      <4>2. ASSUME NEW i \in Items, i \notin queue
            PROVE  StageOf(i)' = StageOf(i) /\ StageOf(i) # "queued"
        BY <1>t, <1>s, <1>i, <2>1, <3>1, <3>2, <4>2 DEF StagesKnown
      <4> QED
        BY <4>1, <4>2
    <3> QED
      BY <3>1, <3>3, <1>n, PipeMoves DEF Pipe!Moves
  <2> QED
    BY <2>2, <2>3
<1>3. ASSUME NEW f \in flights, Post(f) \/ Answer(f)
      PROVE  Pipe!Next \/ [i \in Items |-> StageOf(i)]' = [i \in Items |-> StageOf(i)]
  <2>1. UNCHANGED <<tracked, queue, dropped>> /\ flights = {f} /\ f.phase # "settled"
    BY <1>3, AnswerPlaces
  <2>2. f.todo \cap (queue \cup Finished) = {} /\ f.todo \subseteq 1..tracked /\ f.todo \subseteq Items
    <3>1. f.todo \subseteq f.batch /\ f.batch \subseteq 1..tracked
      BY DEF TypeOK, Flight
    <3>2. \A i \in f.todo : i \notin queue
      <4>1. \A i \in f.todo : \A j \in queue : i < j /\ i \in Nat /\ j \in Nat
        BY <3>1, <1>t DEF OrderInv
      <4> QED
        BY <4>1
    <3>3. 1..tracked \subseteq Items
      BY Bounds
    <3> QED
      BY <2>1, <3>1, <3>2, <3>3 DEF PlaceInv, Finished
  \* The items that leave the flight, and what becomes of them.
  <2>3. ASSUME NEW gone \in SUBSET f.todo, NEW s \in {"acked", "lost"},
               Finished' = Finished \cup gone,
               acked' = IF s = "acked" THEN acked \cup gone ELSE acked,
               abandoned' = IF s = "lost" THEN abandoned \cup gone ELSE abandoned,
               s = "lost" => gone = f.todo
        PROVE  Pipe!Next
    <3>1. \A i \in Items : IF i \in gone THEN StageOf(i) = "sending" /\ StageOf(i)' = s
                          ELSE StageOf(i)' = StageOf(i)
      <4>1. ASSUME NEW i \in gone PROVE StageOf(i) = "sending" /\ StageOf(i)' = s
        <5>1. i \in Items /\ i <= tracked /\ i \notin queue \cup Finished
          BY <2>2, <1>t
        <5>2. i \in Items' /\ (s = "acked" => i \in acked') /\ (s = "lost" => i \in abandoned')
          BY <2>3, <5>1, <1>t
        <5> QED
          BY <5>1, <5>2 DEF StagesKnown
      <4>2. ASSUME NEW i \in Items, i \notin gone PROVE StageOf(i)' = StageOf(i)
        BY <1>t, <1>s, <2>1, <2>3, <4>2 DEF StagesKnown
      <4> QED
        BY <4>1, <4>2
    <3>2. s = "lost" => \A j \in Items : StageOf(j) = "sending" => j \in gone
      BY <2>1, <2>3, <1>i
    <3> QED
      BY <3>1, <3>2, PipeMoves DEF Pipe!Moves
  <2>4. CASE UNCHANGED <<acked, abandoned>>
    BY <2>1, <2>4, <1>0
  <2>5. CASE acked' = acked \cup Request(f.todo) /\ UNCHANGED abandoned
    <3>1. Request(f.todo) \in SUBSET f.todo
      BY RequestIsPart
    <3>2. Finished' = Finished \cup Request(f.todo)
      BY <2>1, <2>5 DEF Finished
    <3> QED
      BY <2>3, <2>5, <3>1, <3>2
  <2>6. CASE abandoned' = abandoned \cup f.todo /\ UNCHANGED acked
    <3>1. Finished' = Finished \cup f.todo
      BY <2>1, <2>6 DEF Finished
    <3> QED
      BY <2>3, <2>6, <3>1
  <2> QED
    BY <1>3, <2>4, <2>5, <2>6, AnswerPlaces
<1>4. CASE (\E c \in wire : Receive(c)) \/ (\E f \in flights : Settle(f)) \/ UNCHANGED vars
  BY <1>4, <1>0, RestPlaces
<1> QED
  BY <1>1, <1>2, <1>3, <1>4 DEF Next

\* The client is an SdkPipe: first in, first out, one batch at a time, each item in one stage.
THEOREM ClientIsAPipe == Spec => ImplementsPipe
<1>1. Init => Pipe!Init
  <2> SUFFICES ASSUME Init PROVE Pipe!Init
    OBVIOUS
  <2>1. \A i \in Items : i > tracked
    BY SdkAssumption DEF Init, Items, SdkAssumption
  <2>2. \A i \in Items : StageOf(i) = "new"
    BY <2>1 DEF Init, StageOf
  <2> QED
    BY <2>2 DEF Pipe!Init
<1>2. Init => PlaceInv
  BY DEF Init, PlaceInv, Finished
<1>3. TypeOK /\ SingleFlight /\ OrderInv /\ PlaceInv /\ [Next]_vars => PlaceInv'
  BY PlaceStep
<1>4. TypeOK /\ PlaceInv => StagesKnown
  BY PlacesGiveStages
<1>5. TypeOK /\ SingleFlight /\ OrderInv /\ PlaceInv /\ StagesKnown /\ StagesKnown' /\ [Next]_vars =>
        [Pipe!Next]_([i \in Items |-> StageOf(i)])
  BY PipeStep
<1> QED
  BY <1>1, <1>2, <1>3, <1>4, <1>5, OrderInvariant, PTL DEF Spec, ImplementsPipe, Pipe!Spec
=============================================================================
