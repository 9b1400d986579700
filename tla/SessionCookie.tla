---------------------------- MODULE SessionCookie ----------------------------
(***************************************************************************)
(* The sealed WorkOS session of one browser of apps/frontend: page loads   *)
(* through proxy.ts, GET and POST /api/auth/refresh with its in-process    *)
(* deduplication, /api/auth/switch-org and /api/auth/sign-out.             *)
(*                                                                         *)
(* A sealed cookie is its generation: 1 is set at sign-in, and each        *)
(* successful exchange of the refresh token in cookie n makes the next.    *)
(* WorkOS is external: it takes each refresh token once, and refuses also  *)
(* an unused one when a policy asks for it (mfa_enrollment, sso_required,  *)
(* invalid_session_cookie).  An exchange may fail for network reasons,     *)
(* before or after it took place, or in a way the code does not classify   *)
(* as a network error ("odd").  A request carries the cookie the browser   *)
(* had when it was sent; responses arrive in any order.  Redirect targets, *)
(* organizations and error codes are abstracted away.                      *)
(***************************************************************************)
EXTENDS Naturals, FiniteSets

CONSTANTS
  Requests,   \* the requests the browser may send, of any kind
  NetFaults   \* whether calls to WorkOS may fail

ASSUME SessionAssumption ==
  /\ IsFiniteSet(Requests)
  /\ "nobody" \notin Requests
  /\ NetFaults \in BOOLEAN

MaxGen == Cardinality(Requests) + 1
Gens == 1..MaxGen
NoCookie == 0

VARIABLES
  jar,       \* the browser's wos-session cookie
  last,      \* at WorkOS: the generation whose refresh token has not been used
  revoked,   \* at WorkOS: the session was ended by its logout URL
  expired,   \* generations whose access token has expired
  inFlight,  \* the route's map: for each cookie the request that runs its refresh
  req,       \* each request: kind, step, the cookie it carries, and its Set-Cookie
  excuses    \* history: what may cost a browser a session that WorkOS would still serve

vars == <<jar, last, revoked, expired, inFlight, req, excuses>>

Kinds == {"page", "refresh", "switch", "signOut"}
Nobody == "nobody"

\* What a response does to the cookie: nothing, delete it, or set a generation.
Keep == [act |-> "keep", gen |-> 0]
Clear == [act |-> "clear", gen |-> 0]
SetTo(g) == [act |-> "set", gen |-> g]

Init ==
  /\ jar = 1
  /\ last = 1
  /\ revoked = FALSE
  /\ expired = {}
  /\ inFlight = [g \in Gens |-> Nobody]
  /\ req = [r \in Requests |-> [kind |-> "page", step |-> "idle", cookie |-> 0, reply |-> Keep]]
  /\ excuses = {}

Cookie(r) == req[r].cookie
Is(r, kind, step) == req[r].kind = kind /\ req[r].step = step
Go(r, step) == req' = [req EXCEPT ![r].step = step]
Reply(r, reply) == req' = [req EXCEPT ![r].step = "reply", ![r].reply = reply]

\* The access token in a cookie expires; older ones have expired before it.
AccessTokenExpires ==
  /\ \E g \in 1..last : g \notin expired /\ expired' = expired \cup 1..g
  /\ UNCHANGED <<jar, last, revoked, inFlight, req, excuses>>

Send(r, kind) ==
  /\ req[r].step = "idle"
  /\ req' = [req EXCEPT ![r] = [kind |-> kind, step |-> "sent", cookie |-> jar, reply |-> Keep]]
  /\ UNCHANGED <<jar, last, revoked, expired, inFlight, excuses>>

------------------------------------------------------------------------------
(* authenticate(): proxy.ts for pages, getSession() for the switch-org route. *)

\* Without a cookie both redirect to /login and set none.
PageOrSwitchArrives(r) ==
  /\ Is(r, "page", "sent") \/ Is(r, "switch", "sent")
  /\ IF Cookie(r) = NoCookie THEN Reply(r, Keep) ELSE Go(r, "auth")
  /\ UNCHANGED <<jar, last, revoked, expired, inFlight, excuses>>

\* A valid access token is not refreshed by a page; switch-org needs one to go on.
Authenticates(r) ==
  /\ req[r].step = "auth"
  /\ CASE Cookie(r) \notin expired /\ req[r].kind = "page" -> Reply(r, Keep)
       [] Cookie(r) \in expired /\ req[r].kind = "switch" -> Reply(r, Keep)
       [] OTHER -> Go(r, "exchange")
  /\ UNCHANGED <<jar, last, revoked, expired, inFlight, excuses>>

\* Mutant of OnNetworkError: the cookie is dropped when WorkOS cannot be reached.
OnNetworkErrorClears(r) == Clear

OnNetworkError(r) == Keep

\* The proxy drops the cookie on any error that is no network error; the routes keep it.
OnOddError(r) == IF req[r].kind = "page" THEN Clear ELSE Keep

AuthenticateFails(r) ==
  /\ NetFaults
  /\ req[r].step = "auth"
  /\ \/ Reply(r, OnNetworkError(r)) /\ UNCHANGED excuses
     \/ Reply(r, OnOddError(r)) /\ excuses' = excuses \cup {"odd"}
  /\ UNCHANGED <<jar, last, revoked, expired, inFlight>>

------------------------------------------------------------------------------
(* The exchange of the refresh token, and /api/auth/refresh. *)

\* Mutant of MayJoin: parallel refreshes are not coalesced.
MayJoinNever(r) == FALSE

MayJoin(r) == inFlight[Cookie(r)] # Nobody

RefreshArrives(r) ==
  /\ Is(r, "refresh", "sent")
  /\ IF Cookie(r) = NoCookie
     THEN Reply(r, Keep) /\ UNCHANGED inFlight
     ELSE IF MayJoin(r)
     THEN Go(r, "join") /\ UNCHANGED inFlight
     ELSE Go(r, "exchange") /\ inFlight' = [inFlight EXCEPT ![Cookie(r)] = r]
  /\ UNCHANGED <<jar, last, revoked, expired, excuses>>

\* AUTH_FAILURE_REASONS: the proxy and the refresh route drop the cookie, switch-org keeps it.
OnRefusal(r) == IF req[r].kind = "switch" THEN Keep ELSE Clear

\* Mutant of Sharing: those that joined are not told.
SharingOnlyItself(r) == {r}

\* Those who await the result: the request itself, and what joined it.
Sharing(r) ==
  {r} \cup (IF req[r].kind = "refresh"
            THEN {s \in Requests : Is(s, "refresh", "join") /\ Cookie(s) = Cookie(r)} ELSE {})

\* The promise settles and leaves the map; everybody who awaits it answers the same.
Settles(r, reply) ==
  /\ req' = [s \in Requests |-> IF s \in Sharing(r)
                                THEN [req[s] EXCEPT !.step = "reply", !.reply = reply]
                                ELSE req[s]]
  /\ inFlight' = IF req[r].kind = "refresh" THEN [inFlight EXCEPT ![Cookie(r)] = Nobody]
                 ELSE inFlight

CanExchange(r) == Cookie(r) = last /\ ~revoked

\* Mutant of OnSuccess: switch-org leaves the new session out of its redirect.
OnSuccessForgets(r) == IF req[r].kind = "switch" THEN Keep ELSE SetTo(last + 1)

OnSuccess(r) == SetTo(last + 1)

ExchangeSucceeds(r) ==
  /\ req[r].step = "exchange"
  /\ CanExchange(r)
  /\ last' = last + 1
  /\ Settles(r, OnSuccess(r))
  /\ UNCHANGED <<jar, revoked, expired, excuses>>

\* invalid_grant: the session has ended, or somebody used this refresh token before; or the
\* token is good and WorkOS denies the exchange for another of the AUTH_FAILURE_REASONS.
ExchangeRefused(r) ==
  /\ req[r].step = "exchange"
  /\ excuses' = excuses \cup (IF CanExchange(r) THEN {"denied"} ELSE {})
                        \cup (IF Cookie(r) < last THEN {"usedBefore"} ELSE {})
  /\ Settles(r, OnRefusal(r))
  /\ UNCHANGED <<jar, last, revoked, expired>>

\* The token may be used up without anybody learning the next one.
ExchangeFails(r) ==
  /\ NetFaults
  /\ req[r].step = "exchange"
  /\ \E odd \in BOOLEAN, taken \in BOOLEAN :
       /\ taken => CanExchange(r)
       /\ last' = IF taken THEN last + 1 ELSE last
       /\ excuses' = excuses \cup (IF odd THEN {"odd"} ELSE {})
                             \cup (IF taken THEN {"lostAnswer"} ELSE {})
       /\ Settles(r, IF odd THEN OnOddError(r) ELSE OnNetworkError(r))
  /\ UNCHANGED <<jar, revoked, expired>>

------------------------------------------------------------------------------
(* Sign-out, and the responses. *)

SignOutArrives(r) ==
  /\ Is(r, "signOut", "sent")
  /\ Reply(r, Clear)
  /\ UNCHANGED <<jar, last, revoked, expired, inFlight, excuses>>

\* A response reaches the browser; one that sets an older generation than the last one set
\* takes the session back.  The one to a sign-out leads to the logout URL, unless
\* getLogOutUrl, which authenticates the session first, could not compute it.
Deliver(r) ==
  /\ req[r].step = "reply"
  /\ LET reply == req[r].reply
     IN  /\ jar' = CASE reply.act = "keep" -> jar
                     [] reply.act = "clear" -> NoCookie
                     [] reply.act = "set" -> reply.gen
         /\ excuses' = excuses \cup
              (IF reply.act = "set" /\ reply.gen < jar THEN {"overtaken"} ELSE {}) \cup
              (IF req[r].kind = "signOut" THEN {"signedOut"} ELSE {})
  /\ \/ Go(r, "end")
     \/ req[r].kind = "signOut" /\ Cookie(r) # NoCookie /\ Go(r, "logout")
  /\ UNCHANGED <<last, revoked, expired, inFlight>>

\* The browser follows the redirect to the logout URL of the session.
LogOut(r) ==
  /\ req[r].step = "logout"
  /\ revoked' = TRUE
  /\ Go(r, "end")
  /\ UNCHANGED <<jar, last, expired, inFlight, excuses>>

Serve(r) ==
  \/ PageOrSwitchArrives(r) \/ RefreshArrives(r) \/ SignOutArrives(r)
  \/ Authenticates(r) \/ AuthenticateFails(r)
  \/ ExchangeSucceeds(r) \/ ExchangeRefused(r) \/ ExchangeFails(r)
  \/ Deliver(r) \/ LogOut(r)

Next ==
  \/ AccessTokenExpires
  \/ \E r \in Requests : Serve(r) \/ (\E kind \in Kinds : Send(r, kind))

\* Whatever was sent is served and answered.
Fairness == \A r \in Requests : WF_vars(Serve(r))

Spec == Init /\ [][Next]_vars /\ Fairness

------------------------------------------------------------------------------
(* Properties. *)

\* Every variable has the type the code gives it.
TypeOK ==
  /\ jar \in 0..MaxGen
  /\ last \in Gens
  /\ revoked \in BOOLEAN
  /\ expired \subseteq Gens
  /\ inFlight \in [Gens -> Requests \cup {Nobody}]
  /\ req \in [Requests ->
       [kind : Kinds, step : {"idle", "sent", "auth", "join", "exchange", "reply", "logout", "end"},
        cookie : 0..MaxGen, reply : [act : {"keep", "clear", "set"}, gen : 0..MaxGen]]]
  /\ excuses \subseteq {"odd", "usedBefore", "denied", "lostAnswer", "overtaken", "signedOut"}

\* A browser is left without its cookie only by a sign-out, by an error that is no network
\* error, by a refusal of WorkOS for a policy, by a refresh token whose exchange was
\* answered to nobody, or by a request that lost the race for a refresh token: an expired
\* access token or an outage never does.
CookieIsKept ==
  jar = NoCookie => excuses # {}

\* The browser's cookie can still be refreshed, or the response with its successor is on
\* its way, unless an answer was lost, or a response overtaken by a later one.
CookieIsLive ==
  jar # NoCookie =>
    \/ jar = last
    \/ \E r \in Requests : req[r].step = "reply" /\ req[r].reply = SetTo(last)
    \/ excuses # {}

\* Parallel requests to the refresh route share one exchange of a cookie's refresh token:
\* one of them runs it, and all that wait for it are in the map's reach.
OneExchangePerCookie ==
  \A r, s \in Requests :
    /\ Is(r, "refresh", "exchange") /\ Is(s, "refresh", "exchange") /\ Cookie(r) = Cookie(s)
       => r = s
    /\ Is(r, "refresh", "join") => inFlight[Cookie(r)] # Nobody

\* A request to the refresh route, as SharedRefresh describes it.
WaitsFor(r) ==
  IF Is(r, "refresh", "exchange") \/ Is(r, "refresh", "join") THEN Cookie(r) ELSE NoCookie

AnswerTo(r) ==
  IF req[r].kind = "refresh" /\ req[r].step \in {"reply", "end"} THEN req[r].reply
  ELSE [act |-> "none", gen |-> 0]

Shared == INSTANCE SharedRefresh WITH
  waits  <- [r \in Requests |-> WaitsFor(r)],
  answer <- [r \in Requests |-> AnswerTo(r)]

\* The refresh route is a SharedRefresh: the map and the promises in it coalesce parallel
\* requests without one being forgotten, told something else, or told twice.
ImplementsShared == Shared!Spec

\* Every request is answered; none waits for a refresh that has already settled.
EveryRequestEnds ==
  \A r \in Requests : req[r].step = "sent" ~> req[r].step = "end"
=============================================================================
