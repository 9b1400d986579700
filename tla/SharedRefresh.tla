--------------------------- MODULE SharedRefresh ---------------------------
(***************************************************************************)
(* What the refresh route promises to those who ask it, without a map, a   *)
(* promise or the steps of a request: requests that wait for the refresh   *)
(* of one cookie are answered together and alike, by one exchange of its   *)
(* refresh token.  Nobody keeps waiting behind them and no answer changes. *)
(* A token is exchanged once at most, and only its own exchange gives the  *)
(* next generation to those who wait for it; other routes, and answers     *)
(* that are lost, may use a token up.  A refusal, of a token that was used *)
(* or of one that WorkOS denies to exchange, uses nothing up.              *)
(***************************************************************************)
EXTENDS Naturals

CONSTANTS
  Requests,   \* the requests of the browser
  Gens        \* the generations of its cookie

VARIABLES
  last,       \* the generation whose refresh token has not been used
  revoked,    \* the session was ended
  waits,      \* of each request: the cookie whose refresh it waits for, 0 for none
  answer      \* of each request: what it was told to do with the cookie

NoAnswer == [act |-> "none", gen |-> 0]
Told(act) == [act |-> act, gen |-> 0]
Renewed(g) == [act |-> "set", gen |-> g + 1]

Waiting(g) == {r \in Requests : waits[r] = g}

Init ==
  /\ last = 1
  /\ revoked = FALSE
  /\ waits = [r \in Requests |-> 0]
  /\ answer = [r \in Requests |-> NoAnswer]

Arrive(r) ==
  /\ waits[r] = 0 /\ answer[r] = NoAnswer
  /\ \/ \E g \in Gens : waits' = [waits EXCEPT ![r] = g] /\ UNCHANGED answer
     \/ answer' = [answer EXCEPT ![r] = Told("keep")] /\ UNCHANGED waits
  /\ UNCHANGED <<last, revoked>>

\* Everybody who waits for g is told the same, and nobody else.
TellAll(g, told) ==
  /\ Waiting(g) # {}
  /\ waits' = [r \in Requests |-> IF waits[r] = g THEN 0 ELSE waits[r]]
  /\ answer' = [r \in Requests |-> IF waits[r] = g THEN told ELSE answer[r]]

CanExchange(g) == g = last /\ ~revoked

Renew(g) ==
  /\ CanExchange(g)
  /\ last' = last + 1
  /\ TellAll(g, Renewed(g))
  /\ UNCHANGED revoked

Refuse(g) ==
  /\ TellAll(g, Told("clear"))
  /\ UNCHANGED <<last, revoked>>

\* An error keeps the cookie, although the token may have been used up.
Fail(g) ==
  /\ TellAll(g, Told("keep"))
  /\ last' = last \/ (CanExchange(g) /\ last' = last + 1)
  /\ UNCHANGED revoked

\* Another route exchanges the token, or the session is ended.
Elsewhere ==
  /\ \/ ~revoked /\ last' = last + 1 /\ UNCHANGED revoked
     \/ revoked' = TRUE /\ UNCHANGED last
  /\ UNCHANGED <<waits, answer>>

Next ==
  \/ \E r \in Requests : Arrive(r)
  \/ \E g \in Gens : Renew(g) \/ Refuse(g) \/ Fail(g)
  \/ Elsewhere

svars == <<last, revoked, waits, answer>>

Spec == Init /\ [][Next]_svars
=============================================================================
