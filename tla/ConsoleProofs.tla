---------------------------- MODULE ConsoleProofs ----------------------------
(***************************************************************************)
(* Proofs about the admin console, for any number of requests in flight,   *)
(* of tokens, rows and users and any texts: the session (AdminSession),    *)
(* the pages that poll (LiveViews), and all pages together (MCConsole).    *)
(* What SettingsProofs and TableProofs show of a page holds in the console *)
(* as well.                                                                *)
(***************************************************************************)
EXTENDS MCConsole, SettingsProofs, TableProofs

-----------------------------------------------------------------------------
(* The session.                                                            *)

\* An answer speaks of its own request's token: a token that was sent, has expired, or
\* was made for the login.
AnswersTrue ==
  \A s \in Channels :
    /\ net[s].answer \in {"ok", "granted"} => net[s].tok # 0
    /\ net[s].answer = "unauthorized" => net[s].tok \in expired

\* Before App.svelte is set up nothing is sent or stored.
Fresh == route = "none" => jwt = 0 /\ issued = 0 /\ \A s \in Channels : net[s] = NoRequest

SInv == SessionTypeOK /\ AnswersTrue /\ Fresh /\ SessionBacked

LEMMA SConstants ==
  /\ Tokens \subseteq Nat /\ 0 \in Tokens /\ NoRequest \in Requests
  /\ \A k \in {"verify", "call", "login"} : jwt' \in Tokens => Sent(k) \in Requests
  /\ \A q \in Requests, a \in Answers : [q EXCEPT !.answer = a] \in Requests
BY SessionAssumption DEF Tokens, NoRequest, Requests, Answers, Sent

\* A step that changes one request.
LEMMA SOneSlot ==
  ASSUME SessionTypeOK, NEW s \in Channels, NEW r \in Requests, net' = [net EXCEPT ![s] = r],
         UNCHANGED <<loggedIn, tokenVerified, crossed>>, route' \in {"none", "login", "page"},
         jwt' \in Tokens, issued' \in Tokens, expired' \subseteq 1..MaxTokens
  PROVE  /\ SessionTypeOK' /\ net'[s] = r /\ net[s] \in Requests
         /\ \A t \in Channels \ {s} : net'[t] = net[t]
BY DEF SessionTypeOK

\* The requests React leaves: those it was given, and new ones without an answer.
LEMMA SReact ==
  ASSUME NEW n, \A s \in Channels : n[s] = net[s] \/ n[s] = NoRequest, React(n),
         SessionTypeOK, AnswersTrue, UNCHANGED <<issued, expired>>, jwt' \in Tokens,
         loggedIn' \in BOOLEAN, tokenVerified' \in BOOLEAN, crossed' \in BOOLEAN
  PROVE  /\ SessionTypeOK' /\ AnswersTrue' /\ Fresh'
<1>1. route' \in {"page", "login"} BY DEF React, Route
<1>2. PICK v, c \in Channels :
        net' = [s \in Channels |->
                  IF s = v /\ ~tokenVerified' THEN Sent("verify")
                  ELSE IF s = c /\ loggedIn' /\ route = "login" THEN Sent("call")
                  ELSE n[s]]
  BY DEF React
<1>3. Sent("verify") \in Requests /\ Sent("call") \in Requests /\ NoRequest \in Requests
  BY SConstants
<1>4. \A s \in Channels : net'[s] \in {Sent("verify"), Sent("call"), net[s], NoRequest}
  BY <1>2
<1>5. SessionTypeOK'
  <2>1. \A s \in Channels : net'[s] \in Requests BY <1>3, <1>4 DEF SessionTypeOK
  <2>2. net' \in [Channels -> Requests] BY <1>2, <2>1
  <2> QED BY <1>1, <2>2 DEF SessionTypeOK
<1>6. AnswersTrue' BY <1>4 DEF AnswersTrue, Sent, NoRequest
<1> QED BY <1>1, <1>5, <1>6 DEF Fresh

LEMMA SInitially == ASSUME SessionInit PROVE SInv
<1>1. SessionTypeOK BY SConstants DEF SessionInit, SessionTypeOK
<1>2. \A s \in Channels : net[s] = NoRequest BY DEF SessionInit
<1> QED BY <1>1, <1>2
        DEF SessionInit, SInv, AnswersTrue, Fresh, SessionBacked, NoRequest

\* The server's steps, and time.
LEMMA SServer ==
  ASSUME SInv, NEW s \in Channels,
         Authenticate(s) \/ CheckPassword(s) \/ NetworkFails(s) \/ \E t \in 1..MaxTokens : Expire(t)
  PROVE  SInv'
<1> USE DEF SInv
<1>1. CASE Authenticate(s)
  <2>1. SessionTypeOK'
    <3>1. PICK a \in Answers : net' = [net EXCEPT ![s].answer = a]
      BY <1>1 DEF Authenticate, Answers
    <3>2. net' = [net EXCEPT ![s] = [net[s] EXCEPT !.answer = a]] /\ net[s] \in Requests
      BY <3>1 DEF SessionTypeOK
    <3> QED BY <1>1, <3>2, SConstants, SOneSlot DEF Authenticate, SessionTypeOK
  <2>2. AnswersTrue' BY <1>1 DEF Authenticate, SessionTypeOK, AnswersTrue
  <2>3. Fresh' BY <1>1 DEF Authenticate, Fresh, NoRequest
  <2> QED BY <1>1, <2>1, <2>2, <2>3 DEF Authenticate, SessionBacked
<1>2. CASE CheckPassword(s)
  <2>0. net[s] \in Requests /\ "granted" \in Answers /\ "denied" \in Answers
    BY DEF SessionTypeOK, Answers
  <2>1. PICK r \in Requests :
          /\ net' = [net EXCEPT ![s] = r] /\ r.answer \in {"granted", "denied"}
          /\ r.answer = "granted" => r.tok # 0
          /\ issued' \in Tokens
    <3>1. CASE issued' = issued + 1
      <4> DEFINE q == [net[s] EXCEPT !.answer = "granted"]
      <4>1. q \in Requests /\ q.answer = "granted" BY <2>0, SConstants DEF Requests
      <4>2. /\ net' = [net EXCEPT ![s] = [q EXCEPT !.tok = issued + 1]]
            /\ issued + 1 \in Tokens /\ issued + 1 # 0
        <5>1. issued \in Nat /\ issued' # issued
          BY <3>1, SConstants DEF SessionTypeOK
        <5>2. /\ issued < MaxTokens
              /\ net' = [net EXCEPT ![s].answer = "granted", ![s].tok = issued + 1]
          BY <1>2, <5>1 DEF CheckPassword
        <5>3. issued + 1 \in Tokens /\ issued + 1 # 0
          BY <5>1, <5>2, SessionAssumption DEF Tokens
        <5>4. net' = [net EXCEPT ![s] = [q EXCEPT !.tok = issued + 1]]
          BY <5>2 DEF SessionTypeOK
        <5> QED BY <5>3, <5>4
      <4> HIDE DEF q
      <4>3. LET r == [q EXCEPT !.tok = issued + 1]
            IN  r \in Requests /\ r.answer = "granted" /\ r.tok = issued + 1
        BY <4>1, <4>2 DEF Requests
      <4> QED BY <3>1, <4>2, <4>3
    <3>2. CASE issued' # issued + 1
      <4> DEFINE q == [net[s] EXCEPT !.answer = "denied"]
      <4>1. q \in Requests /\ q.answer = "denied" BY <2>0, SConstants DEF Requests
      <4>2. net' = [net EXCEPT ![s] = q] /\ issued' \in Tokens
        BY <1>2, <3>2 DEF CheckPassword, SessionTypeOK
      <4> HIDE DEF q
      <4> QED BY <4>1, <4>2
    <3> QED BY <3>1, <3>2
  <2>2. /\ SessionTypeOK' /\ net'[s] = r
        /\ \A t \in Channels \ {s} : net'[t] = net[t]
    BY <1>2, <2>1, SOneSlot DEF CheckPassword, SessionTypeOK
  <2>3. AnswersTrue' BY <1>2, <2>1, <2>2 DEF CheckPassword, AnswersTrue
  <2>4. Fresh' BY <1>2 DEF CheckPassword, Fresh, NoRequest
  <2> QED BY <1>2, <2>2, <2>3, <2>4 DEF CheckPassword, SessionBacked
<1>3. CASE NetworkFails(s)
  <2>1. SessionTypeOK'
    <3>1. "failed" \in Answers BY DEF Answers
    <3>2. net' = [net EXCEPT ![s] = [net[s] EXCEPT !.answer = "failed"]] /\ net[s] \in Requests
      BY <1>3 DEF NetworkFails, SessionTypeOK
    <3> QED BY <1>3, <3>1, <3>2, SConstants, SOneSlot DEF NetworkFails, SessionTypeOK
  <2>2. AnswersTrue' BY <1>3 DEF NetworkFails, SessionTypeOK, AnswersTrue
  <2>3. Fresh' BY <1>3 DEF NetworkFails, Fresh, NoRequest
  <2> QED BY <1>3, <2>1, <2>2, <2>3 DEF NetworkFails, SessionBacked
<1>4. ASSUME NEW t \in 1..MaxTokens, Expire(t) PROVE SInv'
  BY <1>4 DEF Expire, SessionTypeOK, AnswersTrue, Fresh, SessionBacked
<1> QED BY <1>1, <1>2, <1>3, <1>4

\* The browser sends a request.
LEMMA SSends ==
  ASSUME SInv, NEW s \in Channels, Setup(s) \/ PageCalls(s) \/ Submit(s) PROVE SInv'
<1> USE DEF SInv
<1>1. CASE Setup(s)
  <2>1. jwt' \in Tokens /\ issued' \in Tokens /\ expired' \subseteq 1..MaxTokens
    BY <1>1, SessionAssumption DEF Setup, Tokens
  <2>2. SessionTypeOK' BY <1>1, <2>1, SConstants, SOneSlot DEF Setup
  <2>3. AnswersTrue' BY <1>1 DEF Setup, AnswersTrue, Fresh, NoRequest, Sent
  <2> QED BY <1>1, <2>2, <2>3 DEF Setup, Fresh, SessionBacked
<1>2. CASE PageCalls(s)
  <2>1. SessionTypeOK' BY <1>2, SConstants, SOneSlot DEF PageCalls, SessionTypeOK
  <2>2. AnswersTrue' BY <1>2 DEF PageCalls, SessionTypeOK, AnswersTrue, Sent
  <2> QED BY <1>2, <2>1, <2>2 DEF PageCalls, Fresh, SessionBacked
<1>3. CASE Submit(s)
  <2>1. SessionTypeOK' BY <1>3, SConstants, SOneSlot DEF Submit, SessionTypeOK
  <2>2. AnswersTrue' BY <1>3 DEF Submit, SessionTypeOK, AnswersTrue, Sent
  <2>3. Fresh' BY <1>3 DEF Submit, LoginForm, Fresh
  <2> QED BY <1>3, <2>1, <2>2, <2>3 DEF Submit, SessionBacked
<1> QED BY <1>1, <1>2, <1>3

\* Answers, which may log in or out, and the user's own wish.
LEMMA SAnswers ==
  ASSUME SInv, NEW s \in Channels, Verified(s) \/ Called(s) \/ LoggedIn(s) \/ UserLogsOut
  PROVE  SInv'
<1> USE DEF SInv
<1>0. \A t \in Channels : Done(s)[t] = net[t] \/ Done(s)[t] = NoRequest
  BY DEF Done, SessionTypeOK
<1>1. ASSUME net' = Done(s),
             UNCHANGED <<jwt, loggedIn, tokenVerified, route, issued, expired, crossed>>
      PROVE  SInv'
  <2>1. SessionTypeOK' BY <1>1, SConstants, SOneSlot DEF SessionTypeOK, Done
  <2>2. AnswersTrue' BY <1>0, <1>1 DEF AnswersTrue, NoRequest
  <2>3. Fresh' BY <1>0, <1>1 DEF Fresh
  <2> QED BY <1>1, <2>1, <2>2, <2>3 DEF SessionBacked
<1>2. ASSUME NEW n, n \in {net, Done(s)}, LogOut(n), UNCHANGED <<issued, expired>>,
             crossed' \in BOOLEAN
      PROVE  SInv'
  <2>1. React(n) /\ jwt' \in Tokens /\ loggedIn' = FALSE /\ tokenVerified' \in BOOLEAN
    BY <1>2, SConstants DEF LogOut, SessionTypeOK
  <2>2. SessionTypeOK' /\ AnswersTrue' /\ Fresh' BY <1>0, <1>2, <2>1, SReact
  <2> QED BY <2>1, <2>2 DEF SessionBacked
<1>3. CASE Verified(s)
  <2>1. CASE net[s].answer = "ok" /\ React(Done(s))
    <3>1. SessionTypeOK' /\ AnswersTrue' /\ Fresh'
      BY <1>0, <1>3, <2>1, SReact DEF Verified, SessionTypeOK
    <3>2. SessionBacked' BY <1>3, <2>1 DEF Verified, SessionBacked, AnswersTrue
    <3> QED BY <3>1, <3>2
  <2>2. CASE net[s].answer = "unauthorized" /\ React(Done(s))
    <3>1. SessionTypeOK' /\ AnswersTrue' /\ Fresh'
      BY <1>0, <1>3, <2>2, SReact DEF Verified, SessionTypeOK
    <3>2. SessionBacked' BY <1>3, <2>2 DEF Verified, SessionBacked
    <3> QED BY <3>1, <3>2
  <2> QED BY <1>1, <1>3, <2>1, <2>2 DEF Verified
<1>4. CASE Called(s)
  <2>1. crossed' \in BOOLEAN BY <1>4 DEF Called, SessionTypeOK
  <2> QED BY <1>1, <1>2, <1>4, <2>1 DEF Called
<1>5. CASE LoggedIn(s)
  <2>1. CASE net[s].answer = "granted"
    <3>0. /\ jwt' = net[s].tok /\ net[s] \in Requests /\ loggedIn' = TRUE
          /\ UNCHANGED <<tokenVerified, issued, expired, crossed>> /\ React(Done(s))
          /\ tokenVerified \in BOOLEAN /\ crossed \in BOOLEAN
      BY <1>5, <2>1 DEF LoggedIn, SessionTypeOK
    <3>1. SessionTypeOK' /\ AnswersTrue' /\ Fresh'
      BY <1>0, <3>0, SReact DEF Requests
    <3>2. SessionBacked' BY <1>5, <2>1 DEF LoggedIn, SessionBacked, AnswersTrue
    <3> QED BY <3>1, <3>2
  <2> QED BY <1>1, <1>5, <2>1 DEF LoggedIn
<1>6. CASE UserLogsOut BY <1>2, <1>6 DEF UserLogsOut, SessionTypeOK
<1> QED BY <1>3, <1>4, <1>5, <1>6

LEMMA SOtherTab == ASSUME SInv, OtherTabWrites \/ Browse PROVE SInv'
<1>0. CASE Browse BY <1>0 DEF Browse, SInv, SessionTypeOK, AnswersTrue, Fresh, SessionBacked
<1> SUFFICES ASSUME OtherTabWrites PROVE SInv' BY <1>0
<1>1. jwt' \in Tokens /\ issued' \in Tokens
  BY SessionAssumption DEF OtherTabWrites, SInv, SessionTypeOK, Tokens
<1>2. SessionTypeOK' BY <1>1 DEF OtherTabWrites, SInv, SessionTypeOK
<1> QED BY <1>2 DEF OtherTabWrites, SInv, AnswersTrue, Fresh, SessionBacked

\* Every step keeps the invariant.  UserLogsOut, which concerns no request, is taken
\* with some channel's answers; without channels it has none to react with.
LEMMA SStep == ASSUME SInv, [SessionNext]_sessionVars PROVE SInv'
<1>1. CASE UNCHANGED sessionVars
  BY <1>1 DEF sessionVars, SInv, SessionTypeOK, AnswersTrue, Fresh, SessionBacked
<1>2. CASE UserLogsOut
  <2>1. PICK s \in Channels : TRUE BY <1>2 DEF UserLogsOut, LogOut, React
  <2> QED BY <1>2, <2>1, SAnswers
<1>3. ASSUME NEW t \in 1..MaxTokens, Expire(t) PROVE SInv'
  BY <1>3 DEF Expire, SInv, SessionTypeOK, AnswersTrue, Fresh, SessionBacked
<1> QED BY <1>1, <1>2, <1>3, SServer, SSends, SAnswers, SOtherTab DEF SessionNext

LEMMA SInvariant == SessionSpec => []SInv
BY SInitially, SStep, PTL DEF SessionSpec

\* Until a verification answers about a replaced token, or another tab writes the
\* token, being logged in means having one to send.
THEOREM LoggedInHasToken == SessionSpec => []SessionBacked
<1>1. SInv => SessionBacked BY DEF SInv
<1> QED BY <1>1, SInvariant, PTL

\* doCall logs out on 401 only: the token it removes is then the expired one it sent,
\* or the answer was late.
THEOREM SessionsEndForAReason == SessionSpec => EndsForAReason
<1> DEFINE E == jwt # 0 /\ jwt' = 0 /\ ~crossed' => jwt \in expired \/ UserLogsOut
<1>1. ASSUME SInv, [SessionNext]_sessionVars PROVE [E]_sessionVars
  <2> SUFFICES ASSUME SessionNext, jwt # 0, jwt' = 0, ~crossed' PROVE jwt \in expired \/ UserLogsOut
    BY <1>1
  <2> USE <1>1 DEF SInv
  <2>1. CASE \E s \in Channels : Called(s) BY <2>1 DEF Called, AnswersTrue
  <2>2. CASE \E s \in Channels : LoggedIn(s) BY <2>2 DEF LoggedIn, AnswersTrue
  <2>3. CASE \E s \in Channels : Setup(s) BY <2>3 DEF Setup, Fresh
  <2>4. CASE OtherTabWrites \/ Browse BY <2>4 DEF OtherTabWrites, Browse
  <2>5. CASE \E t \in 1..MaxTokens : Expire(t) BY <2>5 DEF Expire
  <2>6. CASE \E s \in Channels : Verified(s) BY <2>6 DEF Verified
  <2>7. CASE \E s \in Channels : \/ Authenticate(s) \/ CheckPassword(s) \/ NetworkFails(s)
                                 \/ PageCalls(s) \/ Submit(s)
    BY <2>7 DEF Authenticate, CheckPassword, NetworkFails, PageCalls, Submit
  <2> QED BY <2>1, <2>2, <2>3, <2>4, <2>5, <2>6, <2>7 DEF SessionNext
<1> QED BY <1>1, SInvariant, PTL DEF SessionSpec, EndsForAReason

-----------------------------------------------------------------------------
(* The pages that poll.                                                    *)

\* A request whose answer still goes to a page is of the page that is open.
AnswersOfView ==
  \A s \in Slots :
    /\ vnet[s].phase = "idle" => vnet[s] = NoVRequest
    /\ vnet[s].of \in {"logs", "stats"} => vnet[s].of = view
    /\ vnet[s].of = "early" => "leave" \in hasty

\* Until the box changes under an answer, every answer out is about its present x,
\* and one is out unless the rows already are.
SearchesOfBox ==
  view = "logs" /\ "search" \notin hasty =>
    /\ \A s \in Slots : vnet[s].of = "logs" => vnet[s].search = search
    /\ rendered = search \/ \E s \in Slots : vnet[s].of = "logs"

\* A chart the page knows is one of those drawn.
ChartOfStats == chart => view = "stats" /\ charts > 0

VInv == ViewTypeOK /\ AnswersOfView /\ SearchesOfBox /\ ChartOfStats /\ OneChart

LEMMA VInitially == ASSUME ViewInit PROVE VInv
BY DEF ViewInit, VInv, ViewTypeOK, AnswersOfView, SearchesOfBox, ChartOfStats, OneChart,
       NoVRequest, Texts

\* A page is opened.
LEMMA VOpen == ASSUME VInv, NEW s \in Slots, OpenLogs(s) \/ OpenStats(s) PROVE VInv'
<1> USE DEF VInv, Ask, StartInterval
<1>1. CASE OpenLogs(s)
  <2>1. ViewTypeOK' BY <1>1 DEF OpenLogs, ViewTypeOK, Texts
  <2>2. AnswersOfView' BY <1>1 DEF OpenLogs, AnswersOfView, ViewTypeOK
  <2>3. SearchesOfBox' BY <1>1 DEF OpenLogs, SearchesOfBox, AnswersOfView, ViewTypeOK
  <2>4. ChartOfStats' BY <1>1 DEF OpenLogs, ChartOfStats
  <2>5. OneChart' BY <1>1 DEF OpenLogs, OneChart
  <2> QED BY <2>1, <2>2, <2>3, <2>4, <2>5
<1>2. CASE OpenStats(s)
  <2>1. ViewTypeOK' BY <1>2 DEF OpenStats, ViewTypeOK, Texts
  <2>2. AnswersOfView' BY <1>2 DEF OpenStats, AnswersOfView, ViewTypeOK
  <2>3. SearchesOfBox' BY <1>2 DEF OpenStats, SearchesOfBox
  <2>4. ChartOfStats' BY <1>2 DEF OpenStats, ChartOfStats
  <2>5. OneChart' BY <1>2 DEF OpenStats, OneChart
  <2> QED BY <2>1, <2>2, <2>3, <2>4, <2>5
<1> QED BY <1>1, <1>2

\* The search box, and the timer.
LEMMA VAsk ==
  ASSUME VInv, NEW s \in Slots, Poll(s) \/ \E x \in Texts : Search(x, s) PROVE VInv'
<1> USE DEF VInv, Ask, StartInterval
<1>1. CASE Poll(s)
  <2>1. ViewTypeOK' BY <1>1 DEF Poll, ViewTypeOK
  <2>2. AnswersOfView' BY <1>1 DEF Poll, AnswersOfView, ViewTypeOK
  <2>3. SearchesOfBox' BY <1>1 DEF Poll, SearchesOfBox, ViewTypeOK
  <2> QED BY <1>1, <2>1, <2>2, <2>3 DEF Poll, ChartOfStats, OneChart
<1>2. ASSUME NEW x \in Texts, Search(x, s) PROVE VInv'
  <2>1. ViewTypeOK' BY <1>2 DEF Search, ViewTypeOK
  <2>2. AnswersOfView' BY <1>2 DEF Search, AnswersOfView, ViewTypeOK
  <2>3. SearchesOfBox'
    <3> SUFFICES ASSUME "search" \notin hasty' PROVE SearchesOfBox' BY DEF SearchesOfBox
    <3>1. VQuiet BY <1>2 DEF Search
    <3>2. vnet' = [vnet EXCEPT ![s] = [phase |-> "asked", of |-> "logs", search |-> x]]
          /\ search' = x
      BY <1>2 DEF Search
    <3> QED BY <3>1, <3>2 DEF SearchesOfBox, ViewTypeOK, VQuiet, NoVRequest
  <2>4. OneChart' BY <1>2 DEF Search, OneChart
  <2> QED BY <1>2, <2>1, <2>2, <2>3, <2>4 DEF Search, ChartOfStats
<1> QED BY <1>1, <1>2

\* onDestroy.
LEMMA VLeave == ASSUME VInv, LeaveView PROVE VInv'
<1> USE DEF VInv
<1>1. ViewTypeOK'
  <2>1. charts' \in Nat BY DEF LeaveView, ViewTypeOK, ChartOfStats
  <2>2. vnet' \in [Slots -> [phase : {"idle", "asked", "answered"},
                             of : {"logs", "stats", "early", "other"}, search : Texts]]
    BY DEF LeaveView, ViewTypeOK, NoVRequest, Texts
  <2> QED BY <2>1, <2>2 DEF LeaveView, ViewTypeOK, Texts
<1>2. AnswersOfView' BY DEF LeaveView, AnswersOfView, ViewTypeOK, NoVRequest
<1>3. SearchesOfBox' BY DEF LeaveView, SearchesOfBox
<1>4. OneChart' BY DEF LeaveView, OneChart, ViewTypeOK
<1> QED BY <1>1, <1>2, <1>3, <1>4 DEF LeaveView, ChartOfStats

\* An answer is made, drawn or lost.
LEMMA VAnswer ==
  ASSUME VInv, NEW s \in Slots, ServeView(s) \/ Render(s) \/ ViewFails(s) PROVE VInv'
<1> USE DEF VInv
<1>1. CASE ServeView(s)
  <2>1. ViewTypeOK' BY <1>1 DEF ServeView, ViewTypeOK
  <2>2. AnswersOfView' BY <1>1 DEF ServeView, AnswersOfView, ViewTypeOK
  <2>3. SearchesOfBox' BY <1>1 DEF ServeView, SearchesOfBox, ViewTypeOK
  <2> QED BY <1>1, <2>1, <2>2, <2>3 DEF ServeView, ChartOfStats, OneChart
<1>2. CASE Render(s)
  <2>1. ViewTypeOK' BY <1>2 DEF Render, ViewTypeOK, NoVRequest, Texts
  <2>2. AnswersOfView' BY <1>2 DEF Render, AnswersOfView, ViewTypeOK, NoVRequest
  <2>3. SearchesOfBox' BY <1>2 DEF Render, SearchesOfBox, ViewTypeOK, NoVRequest
  <2>4. /\ chart' <=> (chart \/ vnet[s].of = "stats")
        /\ view' = view /\ hasty' = hasty /\ charts \in Nat
        /\ vnet[s].of = "stats" => view = "stats"
        /\ vnet[s].of = "early" => "leave" \in hasty
    BY <1>2 DEF Render, AnswersOfView, ViewTypeOK
  <2>5. CASE vnet[s].of = "early" \/ (vnet[s].of = "stats" /\ ~chart)
    <3>1. charts' = charts + 1 BY <1>2, <2>5 DEF Render
    <3> QED BY <1>2, <2>1, <2>2, <2>3, <2>4, <2>5, <3>1 DEF Render, ChartOfStats, OneChart
  <2>6. CASE ~(vnet[s].of = "early" \/ (vnet[s].of = "stats" /\ ~chart))
    <3>1. charts' = charts /\ (chart' <=> chart) BY <1>2, <2>4, <2>6 DEF Render
    <3> QED BY <1>2, <2>1, <2>2, <2>3, <2>4, <3>1 DEF Render, ChartOfStats, OneChart
  <2> QED BY <2>5, <2>6
<1>3. CASE ViewFails(s)
  <2>1. ViewTypeOK' BY <1>3 DEF ViewFails, ViewTypeOK, NoVRequest, Texts
  <2>2. AnswersOfView' BY <1>3 DEF ViewFails, AnswersOfView, ViewTypeOK, NoVRequest
  <2>3. SearchesOfBox' BY <1>3 DEF ViewFails, SearchesOfBox
  <2>4. OneChart' BY <1>3 DEF ViewFails, OneChart
  <2> QED BY <1>3, <2>1, <2>2, <2>3, <2>4 DEF ViewFails, ChartOfStats
<1> QED BY <1>1, <1>2, <1>3

\* Every step keeps the invariant.
LEMMA VStep == ASSUME VInv, [ViewNext]_viewVars PROVE VInv'
<1>1. CASE UNCHANGED viewVars
  BY <1>1 DEF viewVars, VInv, ViewTypeOK, AnswersOfView, SearchesOfBox, ChartOfStats, OneChart
<1>2. CASE ViewNext BY <1>2, VOpen, VAsk, VLeave, VAnswer DEF ViewNext
<1> QED BY <1>1, <1>2

LEMMA VInvariant == ViewSpec => []VInv
BY VInitially, VStep, PTL DEF ViewSpec

\* Answers are rendered in any order: with all of them in, the log viewer shows the
\* search in its box, unless the box changed while one was out.
THEOREM RowsAnswerSearch == ViewSpec => []RowsOfSearch
<1>1. VInv => RowsOfSearch
  BY DEF VInv, RowsOfSearch, SearchesOfBox, VQuiet, NoVRequest
<1> QED BY <1>1, VInvariant, PTL

\* However many answers updateChartData has out, one chart is drawn, and onDestroy
\* destroys it, unless the page is left before the first answer.
THEOREM ChartsBounded == ViewSpec => []OneChart
<1>1. VInv => OneChart BY DEF VInv
<1> QED BY <1>1, VInvariant, PTL

-----------------------------------------------------------------------------
(* All pages.                                                              *)

consoleVars == <<page, sessionVars, generalVars, widgetVars, filterVars,
                 recordVars, listVars, userVars, viewVars>>

\* A step of the console is a step of one page and leaves the others alone.
LEMMA PageSteps ==
  [ConsoleNext]_consoleVars =>
    /\ [SessionNext]_sessionVars /\ [GeneralNext]_generalVars /\ [WidgetNext]_widgetVars
    /\ [FilterNext]_filterVars /\ [RecordNext]_recordVars /\ [ListNext]_listVars
    /\ [UserNext]_userVars /\ [ViewNext]_viewVars
BY DEF ConsoleNext, consoleVars

\* MCConsole puts the pages side by side: what is proved of one holds there as well.
LEMMA PagesApart ==
  ConsoleSpec => /\ SessionSpec /\ GeneralSpec /\ WidgetSpec /\ FilterSpec
                 /\ RecordSpec /\ ListSpec /\ UserSpec /\ ViewSpec
<1>1. ConsoleSpec => ConsoleInit /\ [][ConsoleNext]_consoleVars BY DEF ConsoleSpec, consoleVars
<1>2. ConsoleInit => /\ SessionInit /\ GeneralInit /\ WidgetInit /\ FilterInit
                     /\ RecordInit /\ ListInit /\ UserInit /\ ViewInit
  BY DEF ConsoleInit
<1> QED BY <1>1, <1>2, PageSteps, PTL
        DEF SessionSpec, GeneralSpec, WidgetSpec, FilterSpec, RecordSpec, ListSpec, UserSpec, ViewSpec

\* The dialog of the password, which no other proof is about.
ModalOK == modalOpen \in BOOLEAN

LEMMA ModalType == GeneralSpec => []ModalOK
<1>1. GeneralInit => ModalOK BY DEF GeneralInit, ModalOK
<1>2. ModalOK /\ [GeneralNext]_generalVars => ModalOK'
  BY DEF ModalOK, GeneralNext, generalVars, Mount, EditLog, Proceed, Loaded, Saved, GeneralFails, GetGeneral,
         PostGeneral, StoreGeneral, OpenModal, TypePassword, OtherEdit
<1> QED BY <1>1, <1>2, PTL DEF GeneralSpec

\* Every page keeps its shape, whatever order its answers come in.
THEOREM ConsoleTypes == ConsoleSpec => []ConsoleTypeOK
<1> DEFINE P == page \in {"none", "session", "general", "widget", "filter", "records", "lists",
                          "users", "views"}
<1>1. ConsoleSpec => []P
  <2>1. ConsoleInit => P BY DEF ConsoleInit
  <2>2. P /\ [ConsoleNext]_consoleVars => P' BY DEF ConsoleNext, consoleVars, Opens
  <2>3. ConsoleSpec => ConsoleInit /\ [][ConsoleNext]_consoleVars BY DEF ConsoleSpec, consoleVars
  <2> QED BY <2>1, <2>2, <2>3, PTL
<1>2. GInv /\ ModalOK => GeneralTypeOK BY DEF GInv, Shape, ModalOK, GeneralTypeOK
<1>3. /\ SInv => SessionTypeOK
      /\ WInv => WidgetTypeOK
      /\ FInv => FilterTypeOK
      /\ DInv => RecordTypeOK
      /\ LInv => ListTypeOK
      /\ UInv => UserTypeOK
      /\ VInv => ViewTypeOK
  BY DEF SInv, WInv, WShape, FInv, DInv, LInv, UInv, VInv
<1>4. /\ P /\ SessionTypeOK /\ GeneralTypeOK /\ WidgetTypeOK /\ FilterTypeOK
      /\ RecordTypeOK /\ ListTypeOK /\ UserTypeOK /\ ViewTypeOK
      => ConsoleTypeOK
  BY DEF ConsoleTypeOK
<1> QED BY <1>1, <1>2, <1>3, <1>4, PagesApart, ModalType, SInvariant, GInvariant, WInvariant,
           FInvariant, DInvariant, LInvariant, UInvariant, VInvariant, PTL

\* The safety properties of the pages, of the specification that the run checks: each
\* with the exceptions it names.
THEOREM ConsoleCorrect ==
  ConsoleSpec =>
    /\ []SessionBacked
    /\ [](PasswordNeverBlank /\ UserNameKept /\ EditsKept /\ WidgetHonest)
    /\ [](SavedIsShown /\ OthersKept /\ TableIsStored /\ ListsShown)
    /\ [](UsersShown /\ CopiesAgree /\ RowsOfSearch /\ OneChart)
    /\ EndsForAReason /\ ConsumptionSaved
BY PagesApart, LoggedInHasToken, PasswordStays, NameStays, EditsStay, WidgetsHonest,
   SavesShown, RowsStay, RecordsTableTrue, ListsStayShown, UsersPageTrue, CopiesFollow,
   RowsAnswerSearch, ChartsBounded, SessionsEndForAReason, CountsSaved, PTL
=============================================================================
