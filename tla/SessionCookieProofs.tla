------------------------- MODULE SessionCookieProofs -------------------------
(***************************************************************************)
(* Safety of SessionCookie for any finite set of requests of one browser.  *)
(***************************************************************************)
EXTENDS SessionCookie, FiniteSetTheorems, TLAPS

------------------------------------------------------------------------------
(* The inductive invariant. *)

\* Requests whose exchange, if they ran one, is over.
Answered == {r \in Requests : req[r].step \in {"reply", "logout", "end"}}

\* No generation is ahead of the last exchange, and each exchange answers a request.
GenInv ==
  /\ last <= Cardinality(Answered) + 1
  /\ jar <= last
  /\ expired \subseteq 1..last
  /\ \A r \in Requests :
       /\ req[r].cookie <= last
       /\ req[r].reply.gen <= last
       /\ req[r].step = "reply" /\ req[r].reply.act = "set" => req[r].reply.gen # NoCookie

\* The route's map holds who runs the exchange of a cookie, and nobody else.
HolderOf(g) ==
  inFlight[g] # Nobody => Is(inFlight[g], "refresh", "exchange") /\ Cookie(inFlight[g]) = g

\* Who runs the exchange is in the map, and who joined waits for somebody there.
RequestOf(r) ==
  /\ req[r].step \in {"auth", "join", "exchange"} => Cookie(r) # NoCookie
  /\ Is(r, "refresh", "exchange") => inFlight[Cookie(r)] = r
  /\ Is(r, "refresh", "join") => inFlight[Cookie(r)] # Nobody
  /\ req[r].step = "auth" => req[r].kind \in {"page", "switch"}
  /\ req[r].step = "exchange" => req[r].kind # "signOut"

MapInv == (\A g \in Gens : HolderOf(g)) /\ \A r \in Requests : RequestOf(r)

\* Whoever clears the cookie, or ended the session, has an excuse, or signs out.
KeepInv ==
  /\ CookieIsKept
  /\ revoked => excuses # {}
  /\ \A r \in Requests :
       /\ req[r].step = "logout" => excuses # {}
       /\ req[r].step = "reply" /\ req[r].reply.act = "clear" =>
            excuses # {} \/ req[r].kind = "signOut"

Inv == TypeOK /\ GenInv /\ MapInv /\ KeepInv /\ CookieIsLive

------------------------------------------------------------------------------
(* Lemmas about the operators. *)

Steps == {"idle", "sent", "auth", "join", "exchange", "reply", "logout", "end"}
Replies == [act : {"keep", "clear", "set"}, gen : 0..MaxGen]
Reqs == [Requests -> [kind : Kinds, step : Steps, cookie : 0..MaxGen, reply : Replies]]
ExcuseKinds == {"odd", "usedBefore", "denied", "lostAnswer", "overtaken", "signedOut"}

\* One request goes to a step, with a reply.
Moves(r, step, reply) ==
  /\ req' \in Reqs
  /\ req'[r].kind = req[r].kind /\ req'[r].cookie = req[r].cookie
  /\ req'[r].step = step /\ req'[r].reply = reply
  /\ \A s \in Requests \ {r} : req'[s] = req[s]

LEMMA Sizes ==
  /\ Cardinality(Requests) \in Nat /\ MaxGen \in Nat /\ 1 \in Gens
  /\ Gens = {g \in 0..MaxGen : g # NoCookie} /\ 0 \in 0..MaxGen
<1>1. Cardinality(Requests) \in Nat
  BY FS_CardinalityType, SessionAssumption DEF SessionAssumption
<1> QED
  BY <1>1 DEF MaxGen, Gens, NoCookie

LEMMA TypeParts ==
  TypeOK => /\ jar \in 0..MaxGen /\ last \in Gens /\ last \in Nat /\ jar \in Nat
            /\ req \in Reqs /\ inFlight \in [Gens -> Requests \cup {Nobody}]
            /\ \A r \in Requests : req[r].cookie \in Nat /\ req[r].reply.gen \in Nat
BY Sizes DEF TypeOK, Reqs, Steps, Replies, Gens

LEMMA ReplyTypes ==
  /\ Keep \in Replies /\ Clear \in Replies /\ \A g \in Gens : SetTo(g) \in Replies
  /\ Keep.act = "keep" /\ Keep.gen = 0 /\ Clear.act = "clear" /\ Clear.gen = 0
  /\ \A g : SetTo(g).act = "set" /\ SetTo(g).gen = g
BY Sizes DEF Keep, Clear, SetTo, Replies, Gens

LEMMA GoMoves ==
  ASSUME req \in Reqs, NEW r \in Requests, NEW step \in Steps, Go(r, step)
  PROVE  Moves(r, step, req[r].reply)
<1>1. req' = [req EXCEPT ![r] = [req[r] EXCEPT !.step = step]]
  BY DEF Go
<1>2. PICK x : x = [req[r] EXCEPT !.step = step]
  OBVIOUS
<1>3. /\ x \in [kind : Kinds, step : Steps, cookie : 0..MaxGen, reply : Replies]
      /\ x.kind = req[r].kind /\ x.cookie = req[r].cookie /\ x.step = step /\ x.reply = req[r].reply
  BY <1>2 DEF Reqs
<1>4. req' = [req EXCEPT ![r] = x]
  BY <1>1, <1>2
<1> QED
  BY <1>3, <1>4 DEF Moves, Reqs

\* A record with the step and the reply of an answer.
Answers(q, reply) == [q EXCEPT !.step = "reply", !.reply = reply]

LEMMA AnswerType ==
  ASSUME req \in Reqs, NEW r \in Requests, NEW reply \in Replies
  PROVE  /\ Answers(req[r], reply) \in [kind : Kinds, step : Steps, cookie : 0..MaxGen, reply : Replies]
         /\ Answers(req[r], reply).kind = req[r].kind
         /\ Answers(req[r], reply).cookie = req[r].cookie
         /\ Answers(req[r], reply).step = "reply" /\ Answers(req[r], reply).reply = reply
<1>1. PICK q \in [kind : Kinds, step : Steps, cookie : 0..MaxGen, reply : Replies] : q = req[r]
  BY DEF Reqs
<1>2. PICK x : x = [q EXCEPT !.step = "reply", !.reply = reply]
  OBVIOUS
<1>3. x.kind = q.kind /\ x.cookie = q.cookie /\ x.step = "reply" /\ x.reply = reply
  BY <1>2
<1>4. x = [kind |-> q.kind, step |-> "reply", cookie |-> q.cookie, reply |-> reply]
  BY <1>2
<1>5. x \in [kind : Kinds, step : Steps, cookie : 0..MaxGen, reply : Replies]
  BY <1>4 DEF Steps
<1>6. x = Answers(req[r], reply)
  BY <1>1, <1>2 DEF Answers
<1> QED
  BY <1>1, <1>3, <1>5, <1>6

LEMMA ReplyMoves ==
  ASSUME req \in Reqs, NEW r \in Requests, NEW reply \in Replies, Reply(r, reply)
  PROVE  Moves(r, "reply", reply)
<1>1. req' = [req EXCEPT ![r] = Answers(req[r], reply)]
  BY DEF Reply, Answers
<1> QED
  BY <1>1, AnswerType DEF Moves, Reqs

\* The request and those that joined it are answered; the others stay.
LEMMA SettlesEffect ==
  ASSUME req \in Reqs, NEW r \in Requests, NEW reply \in Replies, Settles(r, reply)
  PROVE  /\ req' \in Reqs
         /\ r \in Sharing(r) /\ Sharing(r) \subseteq Requests
         /\ \A s \in Sharing(r) : /\ req'[s].kind = req[s].kind /\ req'[s].cookie = req[s].cookie
                                  /\ req'[s].step = "reply" /\ req'[s].reply = reply
         /\ \A s \in Requests \ Sharing(r) : req'[s] = req[s]
<1>1. req' = [s \in Requests |-> IF s \in Sharing(r) THEN Answers(req[s], reply) ELSE req[s]]
  BY DEF Settles, Answers
<1>2. r \in Sharing(r) /\ Sharing(r) \subseteq Requests
  BY DEF Sharing
<1>3. \A s \in Requests : req'[s] = IF s \in Sharing(r) THEN Answers(req[s], reply) ELSE req[s]
  BY <1>1
<1>4. req' \in Reqs
  BY <1>1, AnswerType DEF Reqs
<1> QED
  BY <1>2, <1>3, <1>4, AnswerType

------------------------------------------------------------------------------
(* The generations. *)

\* Whoever was answered stays answered: the count never falls, and it grows with r.
LEMMA AnsweredGrows ==
  ASSUME Answered \subseteq Answered', NEW n \in Nat, n <= Cardinality(Answered)
  PROVE  /\ n <= Cardinality(Answered)'
         /\ \A r \in Answered' \ Answered : n + 1 <= Cardinality(Answered)'
<1>1. IsFiniteSet(Answered) /\ IsFiniteSet(Answered')
  BY FS_Subset, SessionAssumption DEF SessionAssumption, Answered
<1>2. Cardinality(Answered) \in Nat /\ Cardinality(Answered') \in Nat
  BY <1>1, FS_CardinalityType
<1>3. Cardinality(Answered) <= Cardinality(Answered')
  BY <1>1, FS_Subset
<1>4. ASSUME NEW r \in Answered' \ Answered
      PROVE  n + 1 <= Cardinality(Answered')
  <2>1. Cardinality(Answered \cup {r}) = Cardinality(Answered) + 1
    BY <1>1, <1>4, FS_AddElement
  <2>2. Cardinality(Answered \cup {r}) <= Cardinality(Answered')
    BY <1>1, <1>4, FS_Subset
  <2> QED
    BY <1>2, <2>1, <2>2
<1> QED
  BY <1>2, <1>3, <1>4

\* While a request is not answered there is a generation left.
LEMMA RoomForNext ==
  ASSUME TypeOK, GenInv, NEW r \in Requests, r \notin Answered
  PROVE  last + 1 \in Gens
<1>1. IsFiniteSet(Requests) /\ IsFiniteSet(Answered) /\ Answered \cup {r} \subseteq Requests
  BY FS_Subset, SessionAssumption DEF SessionAssumption, Answered
<1>2. Cardinality(Answered) + 1 <= Cardinality(Requests) /\ Cardinality(Answered) \in Nat
  <2>1. Cardinality(Answered \cup {r}) = Cardinality(Answered) + 1
    BY <1>1, FS_AddElement
  <2>2. Cardinality(Answered \cup {r}) <= Cardinality(Requests)
    BY <1>1, FS_Subset
  <2> QED
    BY <1>1, <2>1, <2>2, FS_CardinalityType
<1> QED
  BY <1>2, Sizes DEF GenInv, TypeOK, Gens, MaxGen

\* A request that moves, without an exchange.
LEMMA GenMove ==
  ASSUME TypeOK, GenInv, NEW r \in Requests, NEW step \in Steps, NEW reply \in Replies,
         Moves(r, step, reply), last' = last, jar' <= last, expired' = expired,
         r \in Answered => step \in {"reply", "logout", "end"},
         reply.gen <= last,
         step = "reply" /\ reply.act = "set" => reply.gen # NoCookie
  PROVE  GenInv'
<1>1. Answered \subseteq Answered'
  BY DEF Answered, Moves
<1>2. last' <= Cardinality(Answered)' + 1
  <2>1. last - 1 \in Nat /\ last - 1 <= Cardinality(Answered)
    <3>1. IsFiniteSet(Answered)
      BY FS_Subset, SessionAssumption DEF SessionAssumption, Answered
    <3> QED
      BY <3>1, FS_CardinalityType, TypeParts DEF GenInv, TypeOK, Gens
  <2>2. last - 1 <= Cardinality(Answered)' /\ Cardinality(Answered)' \in Nat
    <3>1. IsFiniteSet(Answered')
      BY FS_Subset, SessionAssumption DEF SessionAssumption, Answered
    <3> QED
      BY <1>1, <2>1, <3>1, AnsweredGrows, FS_CardinalityType
  <2> QED
    BY <2>1, <2>2, TypeParts
<1> QED
  BY <1>2 DEF GenInv, Moves


------------------------------------------------------------------------------
(* A request that moves by itself. *)

LEMMA MoveTypes ==
  ASSUME TypeOK, NEW r, NEW step, NEW reply, Moves(r, step, reply),
         UNCHANGED <<last, expired, inFlight>>, jar' \in 0..MaxGen, revoked' \in BOOLEAN,
         excuses' \subseteq ExcuseKinds
  PROVE  TypeOK'
BY DEF TypeOK, Moves, Reqs, Replies, Steps, ExcuseKinds

LEMMA MoveMap ==
  ASSUME TypeOK, MapInv, NEW r \in Requests, NEW step, NEW reply, Moves(r, step, reply),
         UNCHANGED inFlight, ~Is(r, "refresh", "exchange"), step # "join",
         step \in {"auth", "exchange"} => req[r].kind \in {"page", "switch"} /\ Cookie(r) # NoCookie
  PROVE  MapInv'
<1>1. \A g \in Gens : inFlight[g] \in Requests \cup {Nobody}
  BY DEF TypeOK
<1>2. \A s \in Requests \ {r} : req'[s] = req[s]
  BY DEF Moves
<1>3. /\ req'[r].kind = req[r].kind /\ req'[r].cookie = req[r].cookie /\ req'[r].step = step
  BY DEF Moves
<1>4. ASSUME NEW g \in Gens, inFlight'[g] # Nobody PROVE HolderOf(g)'
  <2>1. PICK q \in Requests : q = inFlight[g] /\ Is(q, "refresh", "exchange") /\ Cookie(q) = g
    BY <1>1, <1>4 DEF MapInv, HolderOf
  <2>2. req'[q] = req[q]
    BY <1>2, <2>1
  <2> QED
    BY <2>1, <2>2 DEF Is, Cookie, HolderOf
<1>5. ASSUME NEW s \in Requests PROVE RequestOf(s)'
  <2>1. CASE s = r
    BY <1>3, <2>1 DEF Is, Cookie, RequestOf
  <2>2. CASE s # r
    BY <1>2, <2>2 DEF RequestOf, Is, Cookie, MapInv
  <2> QED
    BY <2>1, <2>2
<1> QED
  BY <1>4, <1>5 DEF MapInv, HolderOf

LEMMA MoveKeep ==
  ASSUME KeepInv, NEW r \in Requests, NEW step, NEW reply, Moves(r, step, reply),
         excuses \subseteq excuses', CookieIsKept', revoked' => excuses' # {},
         step = "logout" => excuses' # {},
         step = "reply" /\ reply.act = "clear" => excuses' # {} \/ req[r].kind = "signOut"
  PROVE  KeepInv'
BY DEF KeepInv, Moves

LEMMA MoveLive ==
  ASSUME CookieIsLive, NEW r \in Requests, NEW step, NEW reply, Moves(r, step, reply),
         excuses \subseteq excuses', UNCHANGED <<jar, last>>,
         req[r].step = "reply" => req[r].reply # SetTo(last)
  PROVE  CookieIsLive'
<1>1. CASE jar # NoCookie /\ jar # last /\ excuses = {}
  <2>1. PICK s \in Requests : req[s].step = "reply" /\ req[s].reply = SetTo(last)
    BY <1>1 DEF CookieIsLive
  <2>2. req'[s] = req[s]
    BY <2>1 DEF Moves
  <2> QED
    BY <2>1, <2>2 DEF CookieIsLive, SetTo
<1>2. CASE ~(jar # NoCookie /\ jar # last /\ excuses = {})
  BY <1>2 DEF CookieIsLive
<1> QED
  BY <1>1, <1>2

\* A request moves to any step but a reply that sets the cookie.
LEMMA MoveStep ==
  ASSUME Inv, NEW r \in Requests, NEW step \in Steps, NEW reply \in Replies,
         Moves(r, step, reply), UNCHANGED <<jar, last, expired, inFlight>>,
         revoked' \in BOOLEAN, excuses' \subseteq ExcuseKinds, excuses \subseteq excuses',
         req[r].step \notin {"reply", "exchange"}, step # "join",
         r \in Answered => step = "end",
         revoked' => excuses' # {}, step = "logout" => excuses' # {},
         step \in {"auth", "exchange"} => req[r].kind \in {"page", "switch"} /\ Cookie(r) # NoCookie,
         reply = req[r].reply \/ reply \in {Keep, Clear},
         step = "reply" => reply \in {Keep, Clear},
         step = "reply" /\ reply = Clear => excuses' # {} \/ req[r].kind = "signOut"
  PROVE  Inv'
<1>t. TypeOK /\ GenInv /\ MapInv /\ KeepInv /\ CookieIsLive
  BY DEF Inv
<1>p. jar \in 0..MaxGen /\ last \in Nat /\ jar <= last /\ 0 <= last
  BY <1>t, TypeParts DEF GenInv
<1>r. /\ reply.gen <= last
      /\ step = "reply" => reply.act # "set"
      /\ step = "reply" /\ reply.act = "clear" => reply = Clear
  BY <1>t, <1>p, ReplyTypes DEF GenInv
<1>1. TypeOK'
  BY <1>t, <1>p, MoveTypes
<1>2. GenInv'
  BY <1>t, <1>p, <1>r, GenMove
<1>3. MapInv'
  BY <1>t, MoveMap DEF Is
<1>4. KeepInv'
  BY <1>t, <1>r, MoveKeep DEF KeepInv, CookieIsKept
<1>5. CookieIsLive'
  BY <1>t, MoveLive
<1> QED
  BY <1>1, <1>2, <1>3, <1>4, <1>5 DEF Inv

------------------------------------------------------------------------------
(* An exchange that settles. *)

LEMMA SettleMap ==
  ASSUME TypeOK, MapInv, NEW r \in Requests, req[r].step = "exchange", NEW reply \in Replies,
         Settles(r, reply)
  PROVE  MapInv'
<1>1. req \in Reqs /\ inFlight \in [Gens -> Requests \cup {Nobody}]
  BY TypeParts
<1>2. /\ r \in Sharing(r) /\ Sharing(r) \subseteq Requests
      /\ \A s \in Sharing(r) : req'[s].step = "reply"
      /\ \A s \in Requests \ Sharing(r) : req'[s] = req[s]
  BY <1>1, SettlesEffect
<1>3. \A s \in Sharing(r) \ {r} : Is(s, "refresh", "join")
  BY DEF Sharing
<1>4. CASE req[r].kind = "refresh"
  <2>1. inFlight' = [inFlight EXCEPT ![Cookie(r)] = Nobody] /\ inFlight[Cookie(r)] = r
    BY <1>4 DEF Settles, MapInv, Is, RequestOf
  <2>2. \A s \in Requests : Is(s, "refresh", "join") /\ Cookie(s) = Cookie(r) => s \in Sharing(r)
    BY <1>4 DEF Sharing
  <2>3. ASSUME NEW g \in Gens, inFlight'[g] # Nobody PROVE HolderOf(g)'
    <3>1. g # Cookie(r) /\ inFlight'[g] = inFlight[g]
      BY <1>1, <2>1, <2>3
    <3>2. PICK q \in Requests : q = inFlight[g] /\ Is(q, "refresh", "exchange") /\ Cookie(q) = g
      BY <1>1, <2>3, <3>1 DEF MapInv, HolderOf
    <3>3. q \notin Sharing(r)
      BY <1>3, <3>1, <3>2 DEF Is
    <3> QED
      BY <1>2, <3>1, <3>2, <3>3 DEF Is, Cookie, HolderOf
  <2>4. ASSUME NEW s \in Requests PROVE RequestOf(s)'
    <3>1. CASE s \in Sharing(r)
      BY <1>2, <3>1 DEF Is, RequestOf
    <3>2. CASE s \notin Sharing(r)
      <4>1. req'[s] = req[s] /\ s # r
        BY <1>2, <3>2
      <4>2. Is(s, "refresh", "exchange") \/ Is(s, "refresh", "join") =>
              Cookie(s) # Cookie(r) /\ inFlight'[Cookie(s)] = inFlight[Cookie(s)]
        <5>1. Is(s, "refresh", "exchange") \/ Is(s, "refresh", "join") => Cookie(s) # Cookie(r)
          BY <2>1, <2>2, <3>2, <4>1 DEF MapInv, RequestOf
        <5>2. req[s].step \in {"join", "exchange"} => Cookie(s) \in Gens
          BY Sizes, <1>1 DEF MapInv, Cookie, Reqs, RequestOf
        <5> QED
          BY <1>1, <2>1, <5>1, <5>2 DEF Is
      <4> QED
        BY <4>1, <4>2 DEF MapInv, RequestOf, Is, Cookie
    <3> QED
      BY <3>1, <3>2
  <2> QED
    BY <2>3, <2>4 DEF MapInv, HolderOf
<1>5. CASE req[r].kind # "refresh"
  <2>1. inFlight' = inFlight /\ Sharing(r) = {r}
    BY <1>5 DEF Settles, Sharing
  <2>2. ASSUME NEW g \in Gens, inFlight'[g] # Nobody PROVE HolderOf(g)'
    <3>1. PICK q \in Requests : q = inFlight[g] /\ Is(q, "refresh", "exchange") /\ Cookie(q) = g
      BY <1>1, <2>1, <2>2 DEF MapInv, HolderOf
    <3>2. req'[q] = req[q]
      BY <1>2, <1>5, <2>1, <3>1 DEF Is
    <3> QED
      BY <2>1, <3>1, <3>2 DEF Is, Cookie, HolderOf
  <2>3. ASSUME NEW s \in Requests PROVE RequestOf(s)'
    <3>1. CASE s = r
      BY <1>2, <3>1 DEF Is, RequestOf
    <3>2. CASE s # r
      <4>1. req'[s] = req[s]
        BY <1>2, <2>1, <3>2
      <4> QED
        BY <2>1, <4>1 DEF MapInv, RequestOf, Is, Cookie
    <3> QED
      BY <3>1, <3>2
  <2> QED
    BY <2>2, <2>3 DEF MapInv, HolderOf
<1> QED
  BY <1>4, <1>5

LEMMA SettleStep ==
  ASSUME Inv, NEW r \in Requests, req[r].step = "exchange", NEW reply \in Replies,
         Settles(r, reply), UNCHANGED <<jar, revoked, expired>>,
         last' \in {last, last + 1},
         excuses' \subseteq ExcuseKinds, excuses \subseteq excuses',
         reply \in {Keep, Clear} \/ (reply = SetTo(last + 1) /\ last' = last + 1),
         reply = Clear => excuses' # {},
         last' = last + 1 => reply = SetTo(last + 1) \/ excuses' # {}
  PROVE  Inv'
<1>t. TypeOK /\ GenInv /\ MapInv /\ KeepInv /\ CookieIsLive
  BY DEF Inv
<1>p. /\ jar \in 0..MaxGen /\ last \in Nat /\ jar \in Nat /\ jar <= last
      /\ req \in Reqs
      /\ \A s \in Requests : req[s].cookie \in Nat /\ req[s].reply.gen \in Nat
  BY <1>t, TypeParts DEF GenInv
<1>s. /\ req' \in Reqs
      /\ r \in Sharing(r) /\ Sharing(r) \subseteq Requests
      /\ \A s \in Sharing(r) : /\ req'[s].kind = req[s].kind /\ req'[s].cookie = req[s].cookie
                               /\ req'[s].step = "reply" /\ req'[s].reply = reply
      /\ \A s \in Requests \ Sharing(r) : req'[s] = req[s]
  BY <1>p, SettlesEffect
<1>a. /\ \A s \in Sharing(r) : req[s].step \in {"exchange", "join"}
      /\ Answered \subseteq Answered' /\ r \in Answered' \ Answered
  <2>1. \A s \in Sharing(r) : req[s].step \in {"exchange", "join"}
    BY DEF Sharing, Is
  <2> QED
    BY <1>s, <2>1 DEF Answered
<1>n. last + 1 \in Gens
  BY <1>t, <1>a, RoomForNext
<1>r. /\ reply.act = "clear" => reply = Clear
      /\ reply.act = "set" => reply = SetTo(last + 1) /\ last' = last + 1 /\ reply.gen = last + 1
      /\ reply.gen <= last' /\ last' \in Nat
  BY <1>p, ReplyTypes
<1>1. TypeOK'
  <2>1. inFlight' \in [Gens -> Requests \cup {Nobody}]
    BY <1>t DEF Settles, TypeOK
  <2>2. last' \in Gens
    BY <1>n, <1>t DEF TypeOK
  <2> QED
    BY <1>t, <1>s, <2>1, <2>2 DEF TypeOK, Reqs, Replies, Steps, ExcuseKinds
<1>2. GenInv'
  <2>1. last' <= Cardinality(Answered)' + 1
    <3>1. last - 1 \in Nat /\ last - 1 <= Cardinality(Answered)
      <4>1. IsFiniteSet(Answered)
        BY FS_Subset, SessionAssumption DEF SessionAssumption, Answered
      <4> QED
        BY <4>1, FS_CardinalityType, <1>t, TypeParts DEF GenInv, TypeOK, Gens
    <3>2. Cardinality(Answered)' \in Nat
      <4>1. IsFiniteSet(Answered')
        BY FS_Subset, SessionAssumption DEF SessionAssumption, Answered
      <4> QED
        BY <4>1, FS_CardinalityType
    <3>3. last - 1 + 1 <= Cardinality(Answered)'
      BY <1>a, <3>1, AnsweredGrows
    <3> QED
      BY <1>p, <3>1, <3>2, <3>3
  <2>2. expired' \subseteq 1..last'
    BY <1>t, <1>p DEF GenInv
  <2>3. ASSUME NEW s \in Requests
        PROVE  /\ req'[s].cookie <= last' /\ req'[s].reply.gen <= last'
               /\ req'[s].step = "reply" /\ req'[s].reply.act = "set" =>
                    req'[s].reply.gen # NoCookie
    <3>1. req[s].cookie <= last' /\ req[s].reply.gen <= last'
      BY <1>t, <1>p DEF GenInv
    <3>2. CASE s \in Sharing(r)
      BY <1>p, <1>r, <1>s, <3>1, <3>2 DEF NoCookie
    <3>3. CASE s \notin Sharing(r)
      BY <1>t, <1>s, <3>1, <3>3 DEF GenInv
    <3> QED
      BY <3>2, <3>3
  <2>4. jar' <= last'
    BY <1>p
  <2> QED
    BY <2>1, <2>2, <2>3, <2>4 DEF GenInv
<1>3. MapInv'
  BY <1>t, SettleMap
<1>4. KeepInv'
  BY <1>t, <1>r, <1>s DEF KeepInv, CookieIsKept
<1>5. CookieIsLive'
  <2>1. CASE last' = last + 1
    BY <1>s, <2>1 DEF CookieIsLive, SetTo
  <2>2. CASE last' = last
    <3>1. \A s \in Requests : req[s].step = "reply" => req'[s] = req[s]
      BY <1>a, <1>s
    <3> QED
      BY <1>t, <2>2, <3>1 DEF CookieIsLive, SetTo
  <2> QED
    BY <2>1, <2>2
<1> QED
  BY <1>1, <1>2, <1>3, <1>4, <1>5 DEF Inv


------------------------------------------------------------------------------
(* The steps. *)

LEMMA SendStep ==
  ASSUME Inv, NEW r \in Requests, NEW kind \in Kinds, Send(r, kind)
  PROVE  Inv'
<1> DEFINE x == [kind |-> kind, step |-> "sent", cookie |-> jar, reply |-> Keep]
<1>t. TypeOK /\ GenInv /\ MapInv /\ KeepInv /\ CookieIsLive
  BY DEF Inv
<1>p. /\ jar \in 0..MaxGen /\ last \in Nat /\ jar <= last /\ req \in Reqs
  BY <1>t, TypeParts DEF GenInv
<1>e. /\ req' = [req EXCEPT ![r] = x] /\ req[r].step = "idle"
      /\ UNCHANGED <<jar, last, revoked, expired, inFlight, excuses>>
  BY DEF Send
<1>x. /\ x \in [kind : Kinds, step : Steps, cookie : 0..MaxGen, reply : Replies]
      /\ x.kind = kind /\ x.step = "sent" /\ x.cookie = jar /\ x.reply = Keep
  BY <1>p, ReplyTypes DEF Steps
<1> HIDE DEF x
<1>s. req'[r] = x /\ (\A s \in Requests \ {r} : req'[s] = req[s]) /\ req' \in Reqs
  BY <1>p, <1>e, <1>x DEF Reqs
<1>1. TypeOK'
  BY <1>t, <1>e, <1>s DEF TypeOK, Reqs, Replies, Steps
<1>2. GenInv'
  <2>1. Answered' = Answered
    BY <1>e, <1>s, <1>x DEF Answered
  <2>2. x.cookie <= last /\ x.reply.gen <= last
    BY <1>p, <1>x, ReplyTypes
  <2> QED
    BY <1>t, <1>e, <1>s, <1>x, <2>1, <2>2 DEF GenInv
<1>3. MapInv'
  <2>1. ASSUME NEW g \in Gens, inFlight'[g] # Nobody PROVE HolderOf(g)'
    <3>1. PICK q \in Requests : q = inFlight[g] /\ Is(q, "refresh", "exchange") /\ Cookie(q) = g
      BY <1>t, <1>e, <2>1, TypeParts DEF MapInv, HolderOf
    <3>2. req'[q] = req[q]
      BY <1>e, <1>s, <3>1 DEF Is
    <3> QED
      BY <1>e, <3>1, <3>2 DEF Is, Cookie, HolderOf
  <2>2. ASSUME NEW s \in Requests PROVE RequestOf(s)'
    <3>1. CASE s = r
      BY <1>s, <1>x, <3>1 DEF RequestOf, Is
    <3>2. CASE s # r
      BY <1>t, <1>e, <1>s, <3>2 DEF MapInv, RequestOf, Is, Cookie
    <3> QED
      BY <3>1, <3>2
  <2> QED
    BY <2>1, <2>2 DEF MapInv, HolderOf
<1>4. KeepInv'
  BY <1>t, <1>e, <1>s, <1>x DEF KeepInv, CookieIsKept
<1>5. CookieIsLive'
  <2>1. \A s \in Requests : req[s].step = "reply" => req'[s] = req[s]
    BY <1>e, <1>s
  <2> QED
    BY <1>t, <1>e, <2>1 DEF CookieIsLive, SetTo
<1> QED
  BY <1>1, <1>2, <1>3, <1>4, <1>5 DEF Inv

\* A response that takes the session back has an excuse; one with the last generation is
\* what the browser waited for.
LEMMA DeliverStep ==
  ASSUME Inv, NEW r \in Requests, Deliver(r)
  PROVE  Inv'
<1>t. TypeOK /\ GenInv /\ MapInv /\ KeepInv /\ CookieIsLive
  BY DEF Inv
<1>p. /\ jar \in 0..MaxGen /\ last \in Nat /\ jar \in Nat /\ jar <= last
      /\ req \in Reqs /\ 0 \in 0..MaxGen
      /\ \A s \in Requests : req[s].reply \in Replies /\ req[s].reply.gen \in 0..MaxGen
                             /\ req[s].reply.gen \in Nat
  BY <1>t, TypeParts, Sizes DEF GenInv, Reqs, Replies
<1> DEFINE reply == req[r].reply
           more == (IF reply.act = "set" /\ reply.gen < jar THEN {"overtaken"} ELSE {}) \cup
                   (IF req[r].kind = "signOut" THEN {"signedOut"} ELSE {})
<1>e. /\ req[r].step = "reply"
      /\ UNCHANGED <<last, revoked, expired, inFlight>>
      /\ excuses' = excuses \cup more
  BY DEF Deliver
<1>j. /\ reply.act = "keep" => jar' = jar
      /\ reply.act = "clear" => jar' = NoCookie
      /\ reply.act = "set" => jar' = reply.gen
      /\ reply.act \in {"keep", "clear", "set"}
  BY <1>p DEF Deliver, Replies
<1>x. /\ excuses \subseteq excuses' /\ excuses' \subseteq ExcuseKinds
      /\ req[r].kind = "signOut" => excuses' # {}
      /\ reply.act = "set" /\ reply.gen < jar => excuses' # {}
  BY <1>t, <1>e DEF TypeOK, ExcuseKinds
<1>1. PICK step \in {"logout", "end"} :
        Moves(r, step, reply) /\ (step = "logout" => req[r].kind = "signOut")
  <2>1. PICK step \in {"logout", "end"} : Go(r, step) /\ (step = "logout" => req[r].kind = "signOut")
    BY DEF Deliver
  <2>2. step \in Steps
    BY DEF Steps
  <2> QED
    BY <1>p, <2>1, <2>2, GoMoves
<1>2. jar' \in 0..MaxGen /\ jar' <= last
  BY <1>t, <1>p, <1>e, <1>j DEF GenInv, NoCookie
<1>k. CookieIsKept'
  <2>1. CASE reply.act = "keep"
    BY <1>t, <1>j, <1>x, <2>1 DEF KeepInv, CookieIsKept
  <2>2. CASE reply.act = "clear"
    BY <1>t, <1>e, <1>x, <2>2 DEF KeepInv, CookieIsKept
  <2>3. CASE reply.act = "set"
    BY <1>t, <1>e, <1>j, <2>3 DEF GenInv, CookieIsKept
  <2> QED
    BY <1>j, <2>1, <2>2, <2>3
<1>l. CookieIsLive'
  <2> SUFFICES ASSUME excuses' = {}, jar' # NoCookie, jar' # last
               PROVE  \E s \in Requests : req'[s].step = "reply" /\ req'[s].reply = SetTo(last)
    BY <1>e DEF CookieIsLive, SetTo
  <2>1. excuses = {} /\ jar # NoCookie
    BY <1>t, <1>x DEF KeepInv, CookieIsKept
  <2>2. jar # last /\ reply # SetTo(last)
    <3>1. reply.act # "clear"
      BY <1>j
    <3>2. reply # SetTo(last)
      BY <1>j, ReplyTypes
    <3>3. jar # last
      BY <1>t, <1>p, <1>e, <1>j, <1>x, <3>1 DEF GenInv
    <3> QED
      BY <3>2, <3>3
  <2>3. PICK s \in Requests : req[s].step = "reply" /\ req[s].reply = SetTo(last)
    BY <1>t, <2>1, <2>2 DEF CookieIsLive
  <2>4. req'[s] = req[s]
    BY <1>1, <2>2, <2>3 DEF Moves
  <2> QED
    BY <2>3, <2>4
<1> HIDE DEF reply, more
<1>m. step \in Steps /\ step # "reply" /\ step # "join" /\ step \notin {"auth", "exchange"}
      /\ reply \in Replies /\ reply.gen <= last
  BY <1>t, <1>p DEF Steps, GenInv, reply
<1>3. TypeOK'
  BY <1>t, <1>e, <1>x, <1>1, <1>2, MoveTypes DEF TypeOK
<1>4. GenInv'
  BY <1>t, <1>e, <1>1, <1>2, <1>m, GenMove
<1>5. MapInv'
  BY <1>t, <1>e, <1>1, <1>m, MoveMap DEF Is
<1>6. KeepInv'
  <2>1. revoked' => excuses' # {}
    BY <1>t, <1>e, <1>x DEF KeepInv
  <2> QED
    BY <1>t, <1>x, <1>k, <1>1, <1>m, <2>1, MoveKeep
<1> QED
  BY <1>3, <1>4, <1>5, <1>6, <1>l DEF Inv

LEMMA InvStep == Inv /\ [Next]_vars => Inv'
<1> SUFFICES ASSUME Inv, [Next]_vars PROVE Inv'
  OBVIOUS
<1>t. TypeOK /\ GenInv /\ MapInv /\ KeepInv /\ CookieIsLive
  BY DEF Inv
<1>p. /\ jar \in 0..MaxGen /\ last \in Nat /\ jar <= last /\ req \in Reqs
      /\ Keep \in Replies /\ Clear \in Replies /\ Keep # Clear
      /\ revoked \in BOOLEAN /\ excuses \subseteq ExcuseKinds
      /\ revoked => excuses # {}
      /\ \A r \in Requests : req[r].reply \in Replies
  BY <1>t, TypeParts, ReplyTypes DEF GenInv, TypeOK, ExcuseKinds, KeepInv, Reqs
<1>m. {"reply", "auth", "join", "exchange", "logout", "end"} \subseteq Steps
  BY DEF Steps
\* Answers and steps of a request that take nothing but excuses with them.
<1>r. ASSUME NEW r \in Requests, NEW reply \in {Keep, Clear}, Reply(r, reply),
             UNCHANGED <<jar, last, revoked, expired, inFlight>>,
             excuses' \subseteq ExcuseKinds, excuses \subseteq excuses',
             req[r].step \in {"sent", "auth"},
             reply = Clear => excuses' # {} \/ req[r].kind = "signOut"
      PROVE  Inv'
  <2>1. Moves(r, "reply", reply)
    BY <1>p, <1>r, ReplyMoves
  <2>2. r \notin Answered
    BY <1>r DEF Answered
  <2>3. revoked' => excuses' # {}
    BY <1>p, <1>r
  <2> QED
    BY <1>p, <1>m, <1>r, <2>1, <2>2, <2>3, MoveStep
<1>g. ASSUME NEW r \in Requests, NEW step \in {"auth", "exchange", "end"}, Go(r, step),
             UNCHANGED <<jar, last, expired, inFlight, excuses>>,
             revoked' \in BOOLEAN, revoked' => excuses # {},
             req[r].step \notin {"reply", "exchange"}, r \in Answered => step = "end",
             step # "end" => req[r].kind \in {"page", "switch"} /\ Cookie(r) # NoCookie
      PROVE  Inv'
  <2>1. Moves(r, step, req[r].reply)
    BY <1>p, <1>m, <1>g, GoMoves
  <2> QED
    BY <1>p, <1>m, <1>g, <2>1, MoveStep
<1>1. CASE AccessTokenExpires
  <2>1. /\ UNCHANGED <<jar, last, revoked, inFlight, req, excuses>>
        /\ expired' \subseteq 1..last
    <3>1. PICK g \in 1..last : expired' = expired \cup 1..g
      BY <1>1 DEF AccessTokenExpires
    <3>2. 1..g \subseteq 1..last
      BY <1>p, <3>1
    <3> QED
      BY <1>1, <1>t, <3>1, <3>2 DEF AccessTokenExpires, GenInv
  <2>2. TypeOK'
    <3>1. 1..last \subseteq Gens
      BY <1>t, Sizes DEF TypeOK, Gens
    <3> QED
      BY <1>t, <2>1, <3>1 DEF TypeOK
  <2>3. Answered' = Answered
    BY <2>1 DEF Answered
  <2>4. MapInv'
    BY <1>t, <2>1 DEF MapInv, HolderOf, RequestOf, Is, Cookie
  <2> QED
    BY <1>t, <2>1, <2>2, <2>3, <2>4 DEF Inv, GenInv, KeepInv, CookieIsKept, CookieIsLive, SetTo
<1>2. ASSUME NEW r \in Requests, PageOrSwitchArrives(r) PROVE Inv'
  <2>1. /\ req[r].step = "sent" /\ req[r].kind \in {"page", "switch"}
        /\ UNCHANGED <<jar, last, revoked, expired, inFlight, excuses>>
        /\ Reply(r, Keep) \/ (Go(r, "auth") /\ Cookie(r) # NoCookie)
    BY <1>2 DEF PageOrSwitchArrives, Is
  <2>2. r \notin Answered
    BY <2>1 DEF Answered
  <2> QED
    BY <1>p, <1>r, <1>g, <2>1, <2>2
<1>3. ASSUME NEW r \in Requests, Authenticates(r) PROVE Inv'
  <2>1. /\ req[r].step = "auth" /\ req[r].kind \in {"page", "switch"} /\ Cookie(r) # NoCookie
        /\ UNCHANGED <<jar, last, revoked, expired, inFlight, excuses>>
        /\ Reply(r, Keep) \/ Go(r, "exchange")
    BY <1>t, <1>3 DEF Authenticates, MapInv, RequestOf
  <2>2. r \notin Answered
    BY <2>1 DEF Answered
  <2> QED
    BY <1>p, <1>r, <1>g, <2>1, <2>2
<1>4. ASSUME NEW r \in Requests, AuthenticateFails(r) PROVE Inv'
  <2>1. /\ req[r].step = "auth"
        /\ UNCHANGED <<jar, last, revoked, expired, inFlight>>
        /\ \/ Reply(r, Keep) /\ excuses' = excuses
           \/ Reply(r, OnOddError(r)) /\ excuses' = excuses \cup {"odd"}
    BY <1>4 DEF AuthenticateFails, OnNetworkError
  <2>2. OnOddError(r) \in {Keep, Clear} /\ "odd" \in ExcuseKinds
    BY DEF OnOddError, ExcuseKinds
  <2>3. CASE Reply(r, Keep) /\ excuses' = excuses
    BY <1>p, <1>r, <2>1, <2>3
  <2>4. CASE Reply(r, OnOddError(r)) /\ excuses' = excuses \cup {"odd"}
    <3>1. excuses' # {} /\ excuses' \subseteq ExcuseKinds /\ excuses \subseteq excuses'
      BY <1>p, <2>2, <2>4
    <3> QED
      BY <1>r, <2>1, <2>2, <2>4, <3>1
  <2> QED
    BY <2>1, <2>3, <2>4
<1>5. ASSUME NEW r \in Requests, RefreshArrives(r) PROVE Inv'
  <2>1. /\ req[r].step = "sent" /\ req[r].kind = "refresh"
        /\ UNCHANGED <<jar, last, revoked, expired, excuses>>
    BY <1>5 DEF RefreshArrives, Is
  <2>2. CASE Cookie(r) = NoCookie
    BY <1>5, <1>p, <1>r, <2>1, <2>2 DEF RefreshArrives
  <2>3. CASE Cookie(r) # NoCookie
    <3>1. PICK step \in {"join", "exchange"} :
            /\ Go(r, step)
            /\ step = "join" => inFlight[Cookie(r)] # Nobody /\ inFlight' = inFlight
            /\ step = "exchange" => inFlight[Cookie(r)] = Nobody
                                    /\ inFlight' = [inFlight EXCEPT ![Cookie(r)] = r]
      BY <1>5, <2>3 DEF RefreshArrives, MayJoin
    <3>2. Moves(r, step, req[r].reply)
      BY <1>p, <1>m, <3>1, GoMoves
    <3>3. Cookie(r) \in Gens /\ inFlight \in [Gens -> Requests \cup {Nobody}] /\ r # Nobody
      BY <1>t, <1>p, <2>3, Sizes, SessionAssumption DEF TypeOK, Cookie, Reqs, SessionAssumption, Nobody
    <3>4. inFlight' \in [Gens -> Requests \cup {Nobody}]
      BY <3>1, <3>3
    <3>5. TypeOK'
      BY <1>t, <2>1, <3>2, <3>4 DEF TypeOK, Moves, Reqs, Replies, Steps
    <3>6. GenInv'
      <4>1. step \in Steps /\ step # "reply" /\ r \notin Answered
        BY <1>m, <2>1 DEF Answered
      <4>2. req[r].reply.gen <= last
        BY <1>t DEF GenInv
      <4> QED
        BY <1>t, <1>p, <2>1, <3>2, <4>1, <4>2, GenMove
    <3>7. MapInv'
      <4>0. /\ req'[r].kind = "refresh" /\ req'[r].step = step /\ req'[r].cookie = req[r].cookie
            /\ \A s \in Requests \ {r} : req'[s] = req[s]
        BY <2>1, <3>2 DEF Moves
      <4>1. ASSUME NEW g \in Gens, inFlight'[g] # Nobody PROVE HolderOf(g)'
        <5>1. CASE inFlight'[g] = inFlight[g]
          <6>1. PICK q \in Requests : q = inFlight[g] /\ Is(q, "refresh", "exchange") /\ Cookie(q) = g
            BY <1>t, <3>3, <4>1, <5>1 DEF MapInv, HolderOf
          <6>2. req'[q] = req[q]
            BY <2>1, <4>0, <6>1 DEF Is
          <6> QED
            BY <5>1, <6>1, <6>2 DEF Is, Cookie, HolderOf
        <5>2. CASE inFlight'[g] # inFlight[g]
          <6>1. g = Cookie(r) /\ inFlight'[g] = r /\ step = "exchange"
            BY <3>1, <3>3, <5>2
          <6> QED
            BY <4>0, <6>1 DEF Is, Cookie, HolderOf
        <5> QED
          BY <5>1, <5>2
      <4>2. ASSUME NEW s \in Requests PROVE RequestOf(s)'
        <5>1. CASE s = r
          <6>1. Cookie(r)' = Cookie(r) /\ inFlight'[Cookie(r)] # Nobody
                /\ (step = "exchange" => inFlight'[Cookie(r)] = r)
            BY <3>1, <3>3, <4>0 DEF Cookie
          <6> QED
            BY <2>3, <4>0, <5>1, <6>1 DEF RequestOf, Is
        <5>2. CASE s # r
          <6>1. req'[s] = req[s] /\ Cookie(s)' = Cookie(s)
            BY <4>0, <5>2 DEF Cookie
          <6>g. req[s].step \in {"join", "exchange"} => Cookie(s) \in Gens
            BY <1>t, <1>p, Sizes DEF MapInv, RequestOf, Cookie, Reqs
          <6>2. Is(s, "refresh", "exchange") => inFlight'[Cookie(s)] = s
            <7>1. Is(s, "refresh", "exchange") => inFlight[Cookie(s)] = s /\ s # Nobody
              BY <1>t, SessionAssumption DEF MapInv, RequestOf, SessionAssumption, Nobody
            <7> QED
              BY <3>1, <3>3, <6>g, <7>1 DEF Is
          <6>3. Is(s, "refresh", "join") => inFlight'[Cookie(s)] # Nobody
            <7>1. Is(s, "refresh", "join") => inFlight[Cookie(s)] # Nobody
              BY <1>t DEF MapInv, RequestOf
            <7> QED
              BY <3>1, <3>3, <6>g, <7>1 DEF Is
          <6> QED
            BY <1>t, <6>1, <6>2, <6>3 DEF MapInv, RequestOf, Is
        <5> QED
          BY <5>1, <5>2
      <4> QED
        BY <4>1, <4>2 DEF MapInv, HolderOf
    <3>8. KeepInv'
      BY <1>t, <1>p, <2>1, <3>2, MoveKeep DEF KeepInv, CookieIsKept
    <3>9. CookieIsLive'
      BY <1>t, <2>1, <3>2, MoveLive
    <3> QED
      BY <3>5, <3>6, <3>7, <3>8, <3>9 DEF Inv
  <2> QED
    BY <2>2, <2>3
<1>6. ASSUME NEW r \in Requests, SignOutArrives(r) PROVE Inv'
  BY <1>6, <1>p, <1>r DEF SignOutArrives, Is
<1>7. ASSUME NEW r \in Requests, ExchangeSucceeds(r) PROVE Inv'
  <2>1. r \notin Answered
    BY <1>7 DEF ExchangeSucceeds, Answered
  <2>2. last + 1 \in Gens
    BY <1>t, <2>1, RoomForNext
  <2>3. SetTo(last + 1) \in Replies /\ SetTo(last + 1) # Clear
    BY <2>2, ReplyTypes
  <2> QED
    BY <1>7, <1>p, <2>3, SettleStep DEF ExchangeSucceeds, OnSuccess
<1>8. ASSUME NEW r \in Requests, ExchangeRefused(r) PROVE Inv'
  <2>1. /\ req[r].step = "exchange"
        /\ excuses' = excuses \cup (IF Cookie(r) = last /\ ~revoked THEN {"denied"} ELSE {})
                              \cup (IF Cookie(r) < last THEN {"usedBefore"} ELSE {})
        /\ Settles(r, OnRefusal(r))
        /\ UNCHANGED <<jar, last, revoked, expired>>
    BY <1>8 DEF ExchangeRefused, CanExchange
  <2>2. OnRefusal(r) \in {Keep, Clear}
    BY DEF OnRefusal
  <2>3. excuses' # {}
    <3>1. Cookie(r) \in Nat /\ Cookie(r) <= last
      BY <1>t, TypeParts DEF GenInv, Cookie
    <3> QED
      BY <1>p, <2>1, <3>1
  <2>4. excuses \subseteq excuses' /\ excuses' \subseteq ExcuseKinds
    BY <1>p, <2>1 DEF ExcuseKinds
  <2>5. last # last + 1
    BY <1>p
  <2> QED
    BY <1>p, <2>1, <2>2, <2>3, <2>4, <2>5, SettleStep
<1>9. ASSUME NEW r \in Requests, ExchangeFails(r) PROVE Inv'
  <2>1. PICK odd \in BOOLEAN, taken \in BOOLEAN :
          /\ last' = IF taken THEN last + 1 ELSE last
          /\ excuses' = excuses \cup (IF odd THEN {"odd"} ELSE {})
                                \cup (IF taken THEN {"lostAnswer"} ELSE {})
          /\ Settles(r, IF odd THEN OnOddError(r) ELSE OnNetworkError(r))
          /\ req[r].step = "exchange" /\ UNCHANGED <<jar, revoked, expired>>
    BY <1>9 DEF ExchangeFails
  <2>2. PICK reply \in {Keep, Clear} : Settles(r, reply) /\ (reply = Clear => odd)
    BY <1>p, <2>1 DEF OnOddError, OnNetworkError
  <2>3. /\ excuses \subseteq excuses' /\ excuses' \subseteq ExcuseKinds
        /\ odd => excuses' # {}
        /\ taken => excuses' # {}
    BY <1>p, <2>1 DEF ExcuseKinds
  <2>4. last' \in {last, last + 1} /\ (last' = last + 1 => taken)
    BY <1>p, <2>1
  <2> QED
    BY <1>p, <2>1, <2>2, <2>3, <2>4, SettleStep
<1>10. ASSUME NEW r \in Requests, LogOut(r) PROVE Inv'
  <2>1. /\ req[r].step = "logout" /\ Go(r, "end") /\ revoked' = TRUE
        /\ UNCHANGED <<jar, last, expired, inFlight, excuses>>
    BY <1>10 DEF LogOut
  <2>2. excuses # {}
    BY <1>t, <2>1 DEF KeepInv
  <2> QED
    BY <1>g, <2>1, <2>2
<1>11. CASE UNCHANGED vars
  <2>1. UNCHANGED <<jar, last, revoked, expired, inFlight, req, excuses>>
    BY <1>11 DEF vars
  <2>2. TypeOK' /\ KeepInv' /\ CookieIsLive'
    BY <1>t, <2>1 DEF TypeOK, KeepInv, CookieIsKept, CookieIsLive, SetTo
  <2>3. GenInv'
    <3>1. Answered' = Answered
      BY <2>1 DEF Answered
    <3> QED
      BY <1>t, <2>1, <3>1 DEF GenInv
  <2>4. MapInv'
    BY <1>t, <2>1 DEF MapInv, HolderOf, RequestOf, Is, Cookie
  <2> QED
    BY <2>2, <2>3, <2>4 DEF Inv
<1> QED
  BY <1>1, <1>2, <1>3, <1>4, <1>5, <1>6, <1>7, <1>8, <1>9, <1>10, <1>11, SendStep, DeliverStep
     DEF Next, Serve

LEMMA InvInit == Init => Inv
<1> SUFFICES ASSUME Init PROVE Inv
  OBVIOUS
<1> DEFINE x == [kind |-> "page", step |-> "idle", cookie |-> 0, reply |-> Keep]
<1>1. \A r \in Requests : req[r].kind = "page" /\ req[r].step = "idle" /\ req[r].cookie = 0 /\ req[r].reply = Keep
  BY DEF Init
<1>2. req \in Reqs
  <2>1. x \in [kind : Kinds, step : Steps, cookie : 0..MaxGen, reply : Replies]
    BY Sizes, ReplyTypes DEF Kinds, Steps
  <2>2. req = [r \in Requests |-> x]
    BY DEF Init
  <2> HIDE DEF x
  <2> QED
    BY <2>1, <2>2 DEF Reqs
<1>3. TypeOK
  <2>1. jar \in 0..MaxGen /\ last \in Gens /\ revoked \in BOOLEAN /\ expired \subseteq Gens
        /\ inFlight \in [Gens -> Requests \cup {Nobody}] /\ excuses = {}
    BY Sizes DEF Init, Gens
  <2> QED
    BY <1>2, <2>1 DEF TypeOK, Reqs, Steps, Replies
<1>4. GenInv
  <2>1. Answered = {} /\ Cardinality({}) = 0
    BY <1>1, FS_EmptySet DEF Answered
  <2> QED
    BY <1>1, <2>1, ReplyTypes DEF Init, GenInv
<1>5. MapInv
  BY <1>1 DEF Init, MapInv, HolderOf, RequestOf, Is
<1>6. KeepInv /\ CookieIsLive
  BY <1>1 DEF Init, KeepInv, CookieIsKept, CookieIsLive, NoCookie
<1> QED
  BY <1>3, <1>4, <1>5, <1>6 DEF Inv

LEMMA Invariant == Spec => []Inv
BY InvInit, InvStep, PTL DEF Spec

\* Every variable has the type the code gives it.
THEOREM TypeCorrect == Spec => []TypeOK
<1>1. Inv => TypeOK
  BY DEF Inv
<1> QED
  BY <1>1, Invariant, PTL

\* Parallel requests to the refresh route share one exchange of a cookie's refresh token.
THEOREM OneExchange == Spec => []OneExchangePerCookie
<1>1. Inv => OneExchangePerCookie
  BY DEF Inv, MapInv, RequestOf, OneExchangePerCookie
<1> QED
  BY <1>1, Invariant, PTL

\* An expired access token, or an outage, never costs the browser its cookie.
THEOREM KeptUnlessExcused == Spec => []CookieIsKept
<1>1. Inv => CookieIsKept
  BY DEF Inv, KeepInv
<1> QED
  BY <1>1, Invariant, PTL

\* The cookie of the browser can still be refreshed, or its successor is on its way.
THEOREM LiveUnlessExcused == Spec => []CookieIsLive
<1>1. Inv => CookieIsLive
  BY DEF Inv
<1> QED
  BY <1>1, Invariant, PTL

------------------------------------------------------------------------------
(* The refresh route is a SharedRefresh. *)

\* Only a sign-out is followed by the logout URL.
LogoutInv == \A r \in Requests : req[r].step = "logout" => req[r].kind = "signOut"

LEMMA LogoutMove ==
  ASSUME LogoutInv, NEW r \in Requests, NEW step, NEW reply, Moves(r, step, reply),
         step = "logout" => req[r].kind = "signOut"
  PROVE  LogoutInv'
BY DEF LogoutInv, Moves

LEMMA LogoutStep == TypeOK /\ LogoutInv /\ [Next]_vars => LogoutInv'
<1> SUFFICES ASSUME TypeOK, LogoutInv, [Next]_vars PROVE LogoutInv'
  OBVIOUS
<1>p. req \in Reqs /\ last \in Nat /\ Keep \in Replies /\ Clear \in Replies
  BY TypeParts, ReplyTypes
<1>m. {"reply", "auth", "join", "exchange", "logout", "end"} \subseteq Steps
  BY DEF Steps
<1>g. ASSUME NEW r \in Requests, NEW step \in Steps, Go(r, step),
             step = "logout" => req[r].kind = "signOut"
      PROVE  LogoutInv'
  BY <1>p, <1>g, GoMoves, LogoutMove
<1>a. ASSUME NEW r \in Requests, NEW reply \in {Keep, Clear}, Reply(r, reply) PROVE LogoutInv'
  BY <1>p, <1>a, ReplyMoves, LogoutMove
<1>1. CASE AccessTokenExpires \/ UNCHANGED vars
  BY <1>1 DEF AccessTokenExpires, vars, LogoutInv
<1>2. ASSUME NEW r \in Requests, NEW kind \in Kinds, Send(r, kind) PROVE LogoutInv'
  <2> DEFINE x == [kind |-> kind, step |-> "sent", cookie |-> jar, reply |-> Keep]
  <2>1. req' = [req EXCEPT ![r] = x] /\ x.step = "sent"
    BY <1>2 DEF Send
  <2>2. \A s \in Requests : req'[s] = IF s = r THEN x ELSE req[s]
    BY <1>p, <2>1 DEF Reqs
  <2> HIDE DEF x
  <2> QED
    BY <2>1, <2>2 DEF LogoutInv
<1>3. ASSUME NEW r \in Requests,
             PageOrSwitchArrives(r) \/ RefreshArrives(r) \/ SignOutArrives(r) \/ Authenticates(r)
      PROVE  LogoutInv'
  BY <1>3, <1>m, <1>g, <1>a DEF PageOrSwitchArrives, RefreshArrives, SignOutArrives, Authenticates
<1>4. ASSUME NEW r \in Requests, AuthenticateFails(r) PROVE LogoutInv'
  <2>1. OnOddError(r) \in {Keep, Clear} /\ OnNetworkError(r) \in {Keep, Clear}
    BY DEF OnOddError, OnNetworkError
  <2> QED
    BY <1>4, <1>a, <2>1 DEF AuthenticateFails
<1>5. ASSUME NEW r \in Requests, ExchangeSucceeds(r) \/ ExchangeRefused(r) \/ ExchangeFails(r)
      PROVE  LogoutInv'
  <2>1. PICK reply : Settles(r, reply)
    BY <1>5 DEF ExchangeSucceeds, ExchangeRefused, ExchangeFails
  <2>2. req' = [s \in Requests |-> IF s \in Sharing(r) THEN Answers(req[s], reply) ELSE req[s]]
    BY <2>1 DEF Settles, Answers
  <2>3. \A s \in Requests : Answers(req[s], reply).step = "reply"
    <3>1. ASSUME NEW s \in Requests PROVE Answers(req[s], reply).step = "reply"
      <4>1. PICK q \in [kind : Kinds, step : Steps, cookie : 0..MaxGen, reply : Replies] : q = req[s]
        BY <1>p DEF Reqs
      <4>2. Answers(q, reply).step = "reply"
        BY <4>1 DEF Answers
      <4> QED
        BY <4>1, <4>2
    <3> QED
      BY <3>1
  <2> QED
    BY <2>2, <2>3 DEF LogoutInv
<1>6. ASSUME NEW r \in Requests, Deliver(r) PROVE LogoutInv'
  <2>1. PICK step \in {"logout", "end"} : Go(r, step) /\ (step = "logout" => req[r].kind = "signOut")
    BY <1>6 DEF Deliver
  <2> QED
    BY <1>m, <1>g, <2>1
<1>7. ASSUME NEW r \in Requests, LogOut(r) PROVE LogoutInv'
  BY <1>7, <1>m, <1>g DEF LogOut
<1> QED
  BY <1>1, <1>2, <1>3, <1>4, <1>5, <1>6, <1>7 DEF Next, Serve

\* A step that SharedRefresh does not see in request s.
SameAsker(s) == WaitsFor(s)' = WaitsFor(s) /\ AnswerTo(s)' = AnswerTo(s)

LEMMA NoneAsked ==
  ASSUME \A s \in Requests : SameAsker(s)
  PROVE  /\ [r \in Requests |-> WaitsFor(r)]' = [r \in Requests |-> WaitsFor(r)]
         /\ [r \in Requests |-> AnswerTo(r)]' = [r \in Requests |-> AnswerTo(r)]
BY DEF SameAsker

LEMMA SameRecordSameAsker ==
  ASSUME NEW s, req'[s] = req[s] PROVE SameAsker(s)
BY DEF SameAsker, WaitsFor, AnswerTo, Is, Cookie

\* Requests to other routes ask nothing of the refresh route.
LEMMA OtherRoutes ==
  ASSUME NEW r \in Requests, NEW step, NEW reply, Moves(r, step, reply),
         \/ req[r].kind # "refresh"
         \/ req[r].step = "reply" /\ step = "end" /\ reply = req[r].reply
  PROVE  \A s \in Requests : SameAsker(s)
<1>1. ASSUME NEW s \in Requests, s # r PROVE SameAsker(s)
  BY <1>1, SameRecordSameAsker DEF Moves
<1>2. SameAsker(r)
  BY DEF SameAsker, WaitsFor, AnswerTo, Is, Moves
<1> QED
  BY <1>1, <1>2

\* Those who share a refresh are those who wait for its cookie.
LEMMA SharingIsWaiting ==
  ASSUME Inv, NEW r \in Requests, Is(r, "refresh", "exchange")
  PROVE  /\ Cookie(r) \in Gens /\ Cookie(r) # NoCookie
         /\ \A s \in Requests : s \in Sharing(r) <=> WaitsFor(s) = Cookie(r)
<1>1. Cookie(r) \in Gens /\ Cookie(r) # NoCookie
  BY Sizes DEF Inv, TypeOK, MapInv, RequestOf, Cookie, Is
<1>2. ASSUME NEW s \in Requests, Is(s, "refresh", "exchange"), Cookie(s) = Cookie(r) PROVE s = r
  BY <1>2 DEF Inv, MapInv, RequestOf
<1> QED
  BY <1>1, <1>2 DEF Sharing, WaitsFor, Is

\* A settled exchange, seen from the refresh route.
LEMMA SettleTells ==
  ASSUME Inv, NEW r \in Requests, Is(r, "refresh", "exchange"), NEW reply \in Replies,
         Settles(r, reply)
  PROVE  Shared!TellAll(Cookie(r), reply)
<1>1. /\ Cookie(r) \in Gens /\ Cookie(r) # NoCookie
      /\ \A s \in Requests : s \in Sharing(r) <=> WaitsFor(s) = Cookie(r)
  BY SharingIsWaiting
<1>2. /\ r \in Sharing(r)
      /\ \A s \in Sharing(r) : /\ req'[s].kind = req[s].kind /\ req'[s].step = "reply"
                               /\ req'[s].reply = reply
      /\ \A s \in Requests \ Sharing(r) : req'[s] = req[s]
  BY SettlesEffect, TypeParts DEF Inv
<1>3. ASSUME NEW s \in Requests
      PROVE  /\ WaitsFor(s)' = IF WaitsFor(s) = Cookie(r) THEN 0 ELSE WaitsFor(s)
             /\ AnswerTo(s)' = IF WaitsFor(s) = Cookie(r) THEN reply ELSE AnswerTo(s)
  <2>1. CASE s \in Sharing(r)
    <3>1. req[s].kind = "refresh"
      BY <2>1 DEF Sharing, Is
    <3> QED
      BY <1>1, <1>2, <2>1, <3>1 DEF WaitsFor, AnswerTo, Is, NoCookie
  <2>2. CASE s \notin Sharing(r)
    BY <1>1, <1>2, <2>2, SameRecordSameAsker DEF SameAsker
  <2> QED
    BY <2>1, <2>2
<1>4. WaitsFor(r) = Cookie(r)
  BY <1>1, <1>2
<1> QED
  BY <1>3, <1>4 DEF Shared!TellAll, Shared!Waiting

\* A settled exchange of another route is nothing to those who wait.
LEMMA SettleElsewhere ==
  ASSUME Inv, NEW r \in Requests, req[r].step = "exchange", req[r].kind # "refresh",
         NEW reply \in Replies, Settles(r, reply)
  PROVE  \A s \in Requests : SameAsker(s)
<1>1. Sharing(r) = {r}
  BY DEF Sharing
<1>2. /\ req'[r].kind = req[r].kind
      /\ \A s \in Requests \ {r} : req'[s] = req[s]
  BY <1>1, SettlesEffect, TypeParts DEF Inv
<1>3. SameAsker(r)
  BY <1>2 DEF SameAsker, WaitsFor, AnswerTo, Is
<1> QED
  BY <1>2, <1>3, SameRecordSameAsker

LEMMA SharedStep == Inv /\ LogoutInv /\ Inv' /\ [Next]_vars => [Shared!Next]_(Shared!svars)
<1> SUFFICES ASSUME Inv, LogoutInv, Inv', [Next]_vars PROVE [Shared!Next]_(Shared!svars)
  OBVIOUS
<1>p. /\ TypeOK /\ req \in Reqs /\ last \in Nat /\ revoked \in BOOLEAN
      /\ Keep \in Replies /\ Clear \in Replies
      /\ \A r \in Requests : RequestOf(r)
  BY TypeParts, ReplyTypes DEF Inv, MapInv, TypeOK
<1>m. {"reply", "auth", "join", "exchange", "logout", "end"} \subseteq Steps
  BY DEF Steps
\* What the refresh route does not see, with or without a token used up elsewhere.
<1>s. ASSUME \A s \in Requests : SameAsker(s), UNCHANGED <<last, revoked>>
      PROVE  UNCHANGED Shared!svars
  BY <1>s, NoneAsked DEF Shared!svars
<1>e. ASSUME \A s \in Requests : SameAsker(s),
             \/ ~revoked /\ last' = last + 1 /\ UNCHANGED revoked
             \/ revoked' = TRUE /\ UNCHANGED last
      PROVE  Shared!Next
  BY <1>e, NoneAsked DEF Shared!Next, Shared!Elsewhere
<1>1. CASE AccessTokenExpires \/ UNCHANGED vars
  <2>1. UNCHANGED <<req, last, revoked>>
    BY <1>1 DEF AccessTokenExpires, vars
  <2> QED
    BY <1>s, <2>1, SameRecordSameAsker
<1>2. ASSUME NEW r \in Requests, NEW kind \in Kinds, Send(r, kind) PROVE UNCHANGED Shared!svars
  <2>1. PICK x : x = [kind |-> kind, step |-> "sent", cookie |-> jar, reply |-> Keep]
    OBVIOUS
  <2>2. x.step = "sent" /\ req[r].step = "idle"
    BY <1>2, <2>1 DEF Send
  <2>3. req'[r] = x /\ \A s \in Requests \ {r} : req'[s] = req[s]
    BY <1>2, <1>p, <2>1 DEF Send, Reqs
  <2>4. SameAsker(r)
    BY <2>2, <2>3 DEF SameAsker, WaitsFor, AnswerTo, Is
  <2>5. UNCHANGED <<last, revoked>>
    BY <1>2 DEF Send
  <2> QED
    BY <1>s, <2>3, <2>4, <2>5, SameRecordSameAsker
<1>3. ASSUME NEW r \in Requests,
             PageOrSwitchArrives(r) \/ SignOutArrives(r) \/ Authenticates(r) \/ AuthenticateFails(r)
      PROVE  UNCHANGED Shared!svars
  <2>1. req[r].kind # "refresh"
    BY <1>3, <1>p DEF PageOrSwitchArrives, SignOutArrives, Authenticates, AuthenticateFails, Is, RequestOf
  <2>2. UNCHANGED <<last, revoked>>
    BY <1>3 DEF PageOrSwitchArrives, SignOutArrives, Authenticates, AuthenticateFails
  <2>3. OnOddError(r) \in Replies /\ OnNetworkError(r) \in Replies
    BY <1>p DEF OnOddError, OnNetworkError
  <2>4. \/ \E step \in Steps : Go(r, step)
        \/ \E reply \in Replies : Reply(r, reply)
    BY <1>3, <1>p, <1>m, <2>3 DEF PageOrSwitchArrives, SignOutArrives, Authenticates, AuthenticateFails
  <2>5. \E step, reply : Moves(r, step, reply)
    BY <1>p, <2>4, GoMoves, ReplyMoves
  <2> QED
    BY <1>s, <2>1, <2>2, <2>5, OtherRoutes
<1>4. ASSUME NEW r \in Requests, RefreshArrives(r) PROVE Shared!Next
  <2>1. Is(r, "refresh", "sent") /\ UNCHANGED <<last, revoked>>
    BY <1>4 DEF RefreshArrives
  <2>2. WaitsFor(r) = 0 /\ AnswerTo(r) = Shared!NoAnswer
    BY <2>1 DEF WaitsFor, AnswerTo, Is, NoCookie, Shared!NoAnswer
  <2>3. CASE Cookie(r) = NoCookie
    <3>1. Moves(r, "reply", Keep)
      BY <1>4, <1>p, <2>3, ReplyMoves DEF RefreshArrives
    <3>2. WaitsFor(r)' = 0 /\ AnswerTo(r)' = Keep
      BY <2>1, <3>1 DEF Moves, WaitsFor, AnswerTo, Is, NoCookie
    <3>3. \A s \in Requests \ {r} : SameAsker(s)
      BY <3>1, SameRecordSameAsker DEF Moves
    <3>4. Keep = Shared!Told("keep")
      BY DEF Keep, Shared!Told
    <3>5. [s \in Requests |-> WaitsFor(s)]' = [s \in Requests |-> WaitsFor(s)]
      BY <2>2, <3>2, <3>3 DEF SameAsker
    <3>6. [s \in Requests |-> AnswerTo(s)]' = [[s \in Requests |-> AnswerTo(s)] EXCEPT ![r] = Keep]
      BY <3>2, <3>3 DEF SameAsker
    <3> QED
      BY <2>1, <2>2, <3>4, <3>5, <3>6 DEF Shared!Next, Shared!Arrive
  <2>4. CASE Cookie(r) # NoCookie
    <3>1. PICK step \in {"join", "exchange"} : Moves(r, step, req[r].reply)
      BY <1>4, <1>p, <1>m, <2>4, GoMoves DEF RefreshArrives
    <3>2. Cookie(r)' = Cookie(r) /\ Cookie(r) \in Gens
      BY <1>p, <2>4, <3>1, Sizes DEF Moves, Cookie, Reqs
    <3>3. WaitsFor(r)' = Cookie(r)
      BY <2>1, <3>1, <3>2 DEF Moves, WaitsFor, Is
    <3>4. AnswerTo(r)' = AnswerTo(r)
      BY <2>1, <3>1 DEF Moves, AnswerTo, Is
    <3>5. \A s \in Requests \ {r} : SameAsker(s)
      BY <3>1, SameRecordSameAsker DEF Moves
    <3>6. [s \in Requests |-> WaitsFor(s)]' = [[s \in Requests |-> WaitsFor(s)] EXCEPT ![r] = Cookie(r)]
      BY <3>3, <3>5 DEF SameAsker
    <3>7. [s \in Requests |-> AnswerTo(s)]' = [s \in Requests |-> AnswerTo(s)]
      BY <3>4, <3>5 DEF SameAsker
    <3> QED
      BY <2>1, <2>2, <3>2, <3>6, <3>7 DEF Shared!Next, Shared!Arrive
  <2> QED
    BY <2>3, <2>4
<1>5. ASSUME NEW r \in Requests, ExchangeSucceeds(r) PROVE Shared!Next
  <2>1. /\ req[r].step = "exchange" /\ Cookie(r) = last /\ ~revoked
        /\ last' = last + 1 /\ revoked' = revoked /\ Settles(r, SetTo(last + 1))
    BY <1>5 DEF ExchangeSucceeds, CanExchange, OnSuccess
  <2>2. last + 1 \in Gens /\ SetTo(last + 1) \in Replies
    <3>1. last' \in Gens
      BY DEF Inv, TypeOK
    <3> QED
      BY <2>1, <3>1, ReplyTypes
  <2>3. CASE req[r].kind = "refresh"
    <3>1. Shared!TellAll(Cookie(r), SetTo(last + 1)) /\ Cookie(r) \in Gens
      BY <2>1, <2>2, <2>3, SettleTells, SharingIsWaiting DEF Is
    <3>2. SetTo(last + 1) = Shared!Renewed(Cookie(r))
      BY <2>1 DEF SetTo, Shared!Renewed
    <3> QED
      BY <2>1, <3>1, <3>2 DEF Shared!Next, Shared!Renew, Shared!CanExchange
  <2>4. CASE req[r].kind # "refresh"
    BY <1>e, <2>1, <2>2, <2>4, SettleElsewhere
  <2> QED
    BY <2>3, <2>4
<1>6. ASSUME NEW r \in Requests, ExchangeRefused(r) PROVE [Shared!Next]_(Shared!svars)
  <2>1. /\ req[r].step = "exchange"
        /\ UNCHANGED <<last, revoked>> /\ Settles(r, OnRefusal(r))
    BY <1>6 DEF ExchangeRefused
  <2>2. OnRefusal(r) \in Replies
    BY <1>p DEF OnRefusal
  <2>3. CASE req[r].kind = "refresh"
    <3>1. Shared!TellAll(Cookie(r), OnRefusal(r)) /\ Cookie(r) \in Gens
      BY <2>1, <2>2, <2>3, SettleTells, SharingIsWaiting DEF Is
    <3>2. OnRefusal(r) = Shared!Told("clear")
      BY <2>3 DEF OnRefusal, Clear, Shared!Told
    <3> QED
      BY <2>1, <3>1, <3>2 DEF Shared!Next, Shared!Refuse
  <2>4. CASE req[r].kind # "refresh"
    BY <1>s, <2>1, <2>2, <2>4, SettleElsewhere
  <2> QED
    BY <2>3, <2>4
<1>7. ASSUME NEW r \in Requests, ExchangeFails(r) PROVE [Shared!Next]_(Shared!svars)
  <2>1. PICK odd \in BOOLEAN, taken \in BOOLEAN :
          /\ taken => CanExchange(r)
          /\ last' = IF taken THEN last + 1 ELSE last
          /\ Settles(r, IF odd THEN OnOddError(r) ELSE OnNetworkError(r))
    BY <1>7 DEF ExchangeFails
  <2>2. /\ req[r].step = "exchange" /\ revoked' = revoked
        /\ last' = last \/ (Cookie(r) = last /\ ~revoked /\ last' = last + 1)
    BY <1>7, <2>1 DEF ExchangeFails, CanExchange
  <2>3. CASE req[r].kind = "refresh"
    <3>1. Settles(r, Keep)
      BY <2>1, <2>3 DEF OnOddError, OnNetworkError
    <3>2. Shared!TellAll(Cookie(r), Keep) /\ Cookie(r) \in Gens
      BY <1>p, <2>2, <2>3, <3>1, SettleTells, SharingIsWaiting DEF Is
    <3>3. Keep = Shared!Told("keep")
      BY DEF Keep, Shared!Told
    <3> QED
      BY <2>2, <3>2, <3>3 DEF Shared!Next, Shared!Fail, Shared!CanExchange
  <2>4. CASE req[r].kind # "refresh"
    <3>1. OnOddError(r) \in Replies /\ OnNetworkError(r) \in Replies
      BY <1>p DEF OnOddError, OnNetworkError
    <3>2. \A s \in Requests : SameAsker(s)
      BY <2>1, <2>2, <2>4, <3>1, SettleElsewhere
    <3> QED
      BY <1>s, <1>e, <2>2, <3>2
  <2> QED
    BY <2>3, <2>4
<1>8. ASSUME NEW r \in Requests, Deliver(r) PROVE UNCHANGED Shared!svars
  <2>1. /\ req[r].step = "reply" /\ UNCHANGED <<last, revoked>>
    BY <1>8 DEF Deliver
  <2>2. PICK step \in {"logout", "end"} : Go(r, step) /\ (step = "logout" => req[r].kind = "signOut")
    BY <1>8 DEF Deliver
  <2>3. Moves(r, step, req[r].reply)
    BY <1>p, <1>m, <2>2, GoMoves
  <2> QED
    BY <1>s, <2>1, <2>2, <2>3, OtherRoutes
<1>9. ASSUME NEW r \in Requests, LogOut(r) PROVE Shared!Next
  <2>1. req[r].step = "logout" /\ Go(r, "end") /\ revoked' = TRUE /\ UNCHANGED last
    BY <1>9 DEF LogOut
  <2>2. req[r].kind = "signOut"
    BY <2>1 DEF LogoutInv
  <2>3. Moves(r, "end", req[r].reply)
    BY <1>p, <1>m, <2>1, GoMoves
  <2> QED
    BY <1>e, <2>1, <2>2, <2>3, OtherRoutes
<1> QED
  BY <1>1, <1>2, <1>3, <1>4, <1>5, <1>6, <1>7, <1>8, <1>9 DEF Next, Serve

\* The refresh route is a SharedRefresh: everybody who waits for the refresh of a cookie is
\* told what the one exchange of its token came to, for any number of parallel requests
\* (app/api/auth/refresh/route.ts).
THEOREM RefreshIsShared == Spec => ImplementsShared
<1>1. Init => LogoutInv /\ Shared!Init
  <2> SUFFICES ASSUME Init PROVE LogoutInv /\ Shared!Init
    OBVIOUS
  <2>1. \A r \in Requests : req[r].kind = "page" /\ req[r].step = "idle"
    BY DEF Init
  <2>2. \A r \in Requests : WaitsFor(r) = 0 /\ AnswerTo(r) = Shared!NoAnswer
    BY <2>1 DEF WaitsFor, AnswerTo, Is, NoCookie, Shared!NoAnswer
  <2> QED
    BY <2>1, <2>2 DEF Init, LogoutInv, Shared!Init
<1>2. Inv /\ LogoutInv /\ [Next]_vars => LogoutInv'
  BY LogoutStep DEF Inv
<1>3. Inv /\ LogoutInv /\ Inv' /\ [Next]_vars => [Shared!Next]_(Shared!svars)
  BY SharedStep
<1> QED
  BY <1>1, <1>2, <1>3, Invariant, PTL DEF Spec, ImplementsShared, Shared!Spec

=============================================================================
