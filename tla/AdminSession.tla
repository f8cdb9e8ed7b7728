---------------------------- MODULE AdminSession ----------------------------
(***************************************************************************)
(* Being logged in to the admin console.  The browser keeps a token in     *)
(* localStorage, AppAPI (lib/api.ts) a loggedIn flag, App.svelte verifies  *)
(* the token and routes to the login page, login.svelte obtains a token,   *)
(* every doCall answered 401 logs out (store/apistore.ts).  Requests are   *)
(* sent with the token of that moment and answered in any order.           *)
(***************************************************************************)
EXTENDS Naturals, Console

CONSTANTS Channels,   \* requests in flight at a time, a bound
          MaxTokens,  \* tokens the server issues, a bound
          OtherTab    \* "yes" if another tab shares the localStorage

ASSUME SessionAssumption == MaxTokens \in Nat

VARIABLES
  jwt,            \* localStorage "jwt": a token, or 0 for none
  loggedIn,       \* AppAPI.loggedIn
  tokenVerified,  \* of App.svelte
  route,          \* "login", "page" for every other route, "none" before the first
  net,            \* the requests in flight
  issued,         \* the number of tokens issued so far
  expired,        \* tokens past their hour
  crossed         \* history: the token had changed under an answer, or in another tab

sessionVars == <<jwt, loggedIn, tokenVerified, route, net, issued, expired, crossed>>

Tokens == 0..MaxTokens
Answers == {"none", "pending", "ok", "unauthorized", "granted", "denied", "failed"}
Requests == [kind : {"none", "verify", "call", "login"}, tok : Tokens, answer : Answers]
NoRequest == [kind |-> "none", tok |-> 0, answer |-> "none"]

SessionTypeOK ==
  /\ jwt \in Tokens /\ issued \in Tokens
  /\ loggedIn \in BOOLEAN /\ tokenVerified \in BOOLEAN /\ crossed \in BOOLEAN
  /\ route \in {"none", "login", "page"}
  /\ net \in [Channels -> Requests]
  /\ expired \subseteq 1..MaxTokens

SessionInit ==
  /\ jwt = 0 /\ issued = 0 /\ expired = {}
  /\ loggedIn = FALSE /\ tokenVerified = FALSE /\ route = "none"
  /\ net = [s \in Channels |-> NoRequest]
  /\ crossed = FALSE

\* getHeaders takes the token that is stored when the request is sent.
Sent(k) == [kind |-> k, tok |-> jwt', answer |-> "pending"]

-----------------------------------------------------------------------------
(* What every store update sets off.  n: the requests that remain.         *)

\* The reactive statement of App.svelte and afterUpdate of login.svelte: an update
\* decides where the user is, until the next Browse.
Route == route' = IF loggedIn' THEN "page" ELSE "login"

\* An unverified token is verified (again); home.svelte asks for /status when shown.
React(n) ==
  /\ Route
  /\ \E v, c \in Channels :
       /\ v # c
       /\ ~tokenVerified' => n[v] = NoRequest
       /\ loggedIn' /\ route = "login" => n[c] = NoRequest
       /\ net' = [s \in Channels |->
                    IF s = v /\ ~tokenVerified' THEN Sent("verify")
                    ELSE IF s = c /\ loggedIn' /\ route = "login" THEN Sent("call")
                    ELSE n[s]]

MayGoOn == ~crossed \/ Beyond = "yes"

Done(s) == [net EXCEPT ![s] = NoRequest]

-----------------------------------------------------------------------------
(* The server.                                                             *)

\* authenticationMiddleware.  Without a token the header is "Bearer null", which
\* jwt.Parse turns into a nil token: the handler panics and the connection closes.
Authenticate(s) ==
  /\ net[s].kind \in {"verify", "call"} /\ net[s].answer = "pending"
  /\ net' = [net EXCEPT ![s].answer = IF net[s].tok = 0 THEN "failed"
                                      ELSE IF net[s].tok \in expired THEN "unauthorized"
                                      ELSE "ok"]
  /\ UNCHANGED <<jwt, loggedIn, tokenVerified, route, issued, expired, crossed>>

\* /api/auth/token: the password is right and a new token is made, or it is wrong.
CheckPassword(s) ==
  /\ net[s].kind = "login" /\ net[s].answer = "pending"
  /\ \/ /\ issued < MaxTokens
        /\ issued' = issued + 1
        /\ net' = [net EXCEPT ![s].answer = "granted", ![s].tok = issued + 1]
     \/ /\ net' = [net EXCEPT ![s].answer = "denied"]
        /\ UNCHANGED issued
  /\ UNCHANGED <<jwt, loggedIn, tokenVerified, route, expired, crossed>>

\* A request or its answer is lost.
NetworkFails(s) ==
  /\ net[s].kind # "none"
  /\ net' = [net EXCEPT ![s].answer = "failed"]
  /\ UNCHANGED <<jwt, loggedIn, tokenVerified, route, issued, expired, crossed>>

Expire(t) ==
  /\ t \in 1..issued /\ t \notin expired
  /\ expired' = expired \cup {t}
  /\ UNCHANGED <<jwt, loggedIn, tokenVerified, route, net, issued, crossed>>

-----------------------------------------------------------------------------
(* The browser.                                                            *)

\* App.svelte is set up: a token may be there from an earlier visit; it is verified
\* and, not being logged in, the user sees the login page.
Setup(s) ==
  /\ route = "none"
  /\ issued' \in {n \in 0..1 : n <= MaxTokens} /\ jwt' \in 0..issued'
  /\ expired' \in SUBSET (1..issued')
  /\ route' = "login"
  /\ net' = [net EXCEPT ![s] = Sent("verify")]
  /\ UNCHANGED <<loggedIn, tokenVerified, crossed>>

\* verifyToken's answer.  A failed one is an unhandled rejection.
Verified(s) ==
  /\ net[s].kind = "verify"
  /\ \/ /\ net[s].answer = "ok"
        /\ loggedIn' = TRUE /\ tokenVerified' = TRUE
        /\ crossed' = (crossed \/ jwt # net[s].tok)
        /\ UNCHANGED jwt
        /\ React(Done(s))
     \/ /\ net[s].answer = "unauthorized"
        /\ tokenVerified' = TRUE
        /\ UNCHANGED <<jwt, loggedIn, crossed>>
        /\ React(Done(s))
     \/ /\ net[s].answer = "failed"
        /\ net' = Done(s)
        /\ UNCHANGED <<jwt, loggedIn, tokenVerified, route, crossed>>
  /\ UNCHANGED <<issued, expired>>

\* setLoggedOut and the store update that follows it.
LogOut(n) ==
  /\ jwt' = 0 /\ loggedIn' = FALSE
  /\ UNCHANGED tokenVerified
  /\ React(n)

\* Mutation: any answer but success logs out.
CalledStrictly(s) ==
  /\ net[s].kind = "call" /\ net[s].answer \in {"ok", "unauthorized", "failed"}
  /\ IF net[s].answer # "ok"
     THEN LogOut(Done(s)) /\ crossed' = (crossed \/ jwt # net[s].tok)
     ELSE net' = Done(s) /\ UNCHANGED <<jwt, loggedIn, tokenVerified, route, crossed>>
  /\ UNCHANGED <<issued, expired>>

\* doCall's answer.
Called(s) ==
  /\ net[s].kind = "call" /\ net[s].answer \in {"ok", "unauthorized", "failed"}
  /\ IF net[s].answer = "unauthorized"
     THEN LogOut(Done(s)) /\ crossed' = (crossed \/ jwt # net[s].tok)
     ELSE net' = Done(s) /\ UNCHANGED <<jwt, loggedIn, tokenVerified, route, crossed>>
  /\ UNCHANGED <<issued, expired>>

\* Back, Forward or an address: no store is updated and App.svelte does not look again, so
\* that a user who is logged out may come to a page.  login.svelte sends one who is
\* logged in back to the home page.
Browse ==
  /\ route # "none" /\ MayGoOn
  /\ route' \in {"login", "page"} /\ (loggedIn => route' = "page")
  /\ UNCHANGED <<jwt, loggedIn, tokenVerified, net, issued, expired, crossed>>

\* A page loads or saves something.
PageCalls(s) ==
  /\ route = "page" /\ net[s] = NoRequest /\ MayGoOn
  /\ UNCHANGED <<jwt, loggedIn, tokenVerified, route, issued, expired, crossed>>
  /\ net' = [net EXCEPT ![s] = Sent("call")]

\* The form of login.svelte; its button stays enabled, so that a second login may follow.
LoginForm == route = "login"

\* handleLogin.
Submit(s) ==
  /\ LoginForm /\ net[s] = NoRequest /\ MayGoOn
  /\ UNCHANGED <<jwt, loggedIn, tokenVerified, route, issued, expired, crossed>>
  /\ net' = [net EXCEPT ![s] = Sent("login")]

\* Mutation: the token is not stored.
LoggedInUnstored(s) ==
  /\ net[s].kind = "login" /\ net[s].answer \in {"granted", "denied", "failed"}
  /\ IF net[s].answer = "granted"
     THEN /\ loggedIn' = TRUE
          /\ UNCHANGED <<jwt, tokenVerified>>
          /\ React(Done(s))
     ELSE net' = Done(s) /\ UNCHANGED <<jwt, loggedIn, tokenVerified, route>>
  /\ UNCHANGED <<issued, expired, crossed>>

\* Its answer; anything but a granted login leaves the form as it is.
LoggedIn(s) ==
  /\ net[s].kind = "login" /\ net[s].answer \in {"granted", "denied", "failed"}
  /\ IF net[s].answer = "granted"
     THEN /\ jwt' = net[s].tok /\ loggedIn' = TRUE
          /\ UNCHANGED tokenVerified
          /\ React(Done(s))
     ELSE net' = Done(s) /\ UNCHANGED <<jwt, loggedIn, tokenVerified, route>>
  /\ UNCHANGED <<issued, expired, crossed>>

\* onLogout of the header menu, shown while logged in.
UserLogsOut ==
  /\ loggedIn
  /\ LogOut(net)
  /\ UNCHANGED <<issued, expired, crossed>>

\* Another tab logs out, or in with a token of its own.
OtherTabWrites ==
  /\ OtherTab = "yes" /\ route # "none" /\ MayGoOn
  /\ \/ jwt' = 0 /\ UNCHANGED issued
     \/ issued < MaxTokens /\ issued' = issued + 1 /\ jwt' = issued'
  /\ crossed' = TRUE
  /\ UNCHANGED <<loggedIn, tokenVerified, route, net, expired>>

SessionNext ==
  \/ \E s \in Channels :
       \/ Setup(s) \/ Authenticate(s) \/ CheckPassword(s) \/ NetworkFails(s)
       \/ Verified(s) \/ Called(s) \/ PageCalls(s) \/ Submit(s) \/ LoggedIn(s)
  \/ \E t \in 1..MaxTokens : Expire(t)
  \/ UserLogsOut \/ OtherTabWrites \/ Browse

SessionSpec == SessionInit /\ [][SessionNext]_sessionVars

-----------------------------------------------------------------------------
(* Properties.                                                             *)

\* The console only believes to be logged in while it has a token to send, unless a
\* verification was answered about a token that had been replaced meanwhile.
SessionBacked == loggedIn /\ ~crossed => jwt # 0

\* A session ends by the user's wish or because its own token expired: not by a
\* failed request and, but for a late answer to an older token, not by a 401.
EndsForAReason ==
  [][jwt # 0 /\ jwt' = 0 /\ ~crossed' => jwt \in expired \/ UserLogsOut]_sessionVars
=============================================================================
