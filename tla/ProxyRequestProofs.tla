------------------------- MODULE ProxyRequestProofs -------------------------
(***************************************************************************)
(* Proofs about ProxyRequest: the isolation of plain requests for every    *)
(* setting of the constants, and a single response and the filters' word   *)
(* for the configurations in which they hold.                              *)
(***************************************************************************)
EXTENDS ProxyRequest, TLAPS

\* The stages from the forwarding block on.
Forwarded == {"upgrade", "fetch", "type", "read", "media", "text", "write"}

-----------------------------------------------------------------------------
(* Types.                                                                  *)

\* Append and Write keep the replies a sequence of replies.
LEMMA WriteType ==
  ASSUME TypeOK, NEW r \in Replies, Write(r) PROVE out' \in Seq(Replies)
BY DEF TypeOK, Write

\* Each stage of the handler preserves the types.
LEMMA TypeStep == TypeOK /\ [Next]_vars => TypeOK'
<1> SUFFICES ASSUME TypeOK, [Next]_vars PROVE TypeOK'
  OBVIOUS
<1> USE DEF adminVars
<1>0. \A r \in Replies : Write(r) => out' \in Seq(Replies) BY WriteType
<1>r. "page" \in Replies BY DEF Replies
<1>1. ASSUME NEW r \in Requests, NEW bad \in BOOLEAN, Accept(r, bad) PROVE TypeOK'
  BY <1>0, <1>1 DEF TypeOK, Accept, Finish, Stages, Replies
<1>2. CASE Authenticate
  BY <1>0, <1>r, <1>2 DEF TypeOK, Authenticate, Block, Finish, Stages, Replies
<1>3. CASE TimeAccess BY <1>3 DEF TypeOK, TimeAccess, Stages
<1>4. ASSUME NEW b \in BOOLEAN, UrlAccess(b) PROVE TypeOK'
  BY <1>0, <1>r, <1>4 DEF TypeOK, UrlAccess, Block, Finish, Stages
<1>5. ASSUME NEW b \in BOOLEAN, ExtensionType(b) PROVE TypeOK'
  BY <1>0, <1>5 DEF TypeOK, ExtensionType, Finish, Stages, Replies
<1>6. ASSUME NEW b \in BOOLEAN, NEW c \in BOOLEAN, Route(b, c) PROVE TypeOK'
  BY <1>0, <1>6 DEF TypeOK, Route, Finish, Stages, Replies
<1>7. CASE Navigate BY <1>0, <1>7 DEF TypeOK, Navigate, Finish, Stages, Replies
<1>8. CASE Forward BY <1>0, <1>8 DEF TypeOK, Forward, Finish, Stages, Replies
<1>9. ASSUME NEW b \in BOOLEAN, NEW c \in BOOLEAN, Upgrade(b, c) PROVE TypeOK'
  BY <1>0, <1>9 DEF TypeOK, Upgrade, Finish, Stages, Replies
<1>10. CASE RoundTrip
  BY <1>0, <1>r, <1>10 DEF TypeOK, RoundTrip, Finish, Stages
<1>11. ASSUME NEW b \in BOOLEAN, ContentType(b) PROVE TypeOK'
  BY <1>0, <1>r, <1>11 DEF TypeOK, ContentType, Block, Finish, Stages
<1>12. CASE ReadBody
  <2>1. out \o <<"body", "page">> \in Seq(Replies)
    <3>1. <<"body", "page">> \in Seq(Replies) BY <1>r DEF Replies
    <3> QED BY <3>1 DEF TypeOK
  <2> QED BY <1>0, <1>12, <2>1 DEF TypeOK, ReadBody, Finish, Stages, Replies
<1>13. CASE ScanMedia BY <1>0, <1>13 DEF TypeOK, ScanMedia, Finish, Stages, Replies
<1>14. CASE ScanText BY <1>0, <1>r, <1>14 DEF TypeOK, ScanText, Block, Finish, Stages
<1>15. CASE WriteBody BY <1>0, <1>15 DEF TypeOK, WriteBody, Finish, Stages, Replies
<1>16. CASE SetUsers BY <1>16 DEF TypeOK, SetUsers
<1>17. ASSUME NEW a \in {"active", "inactive", "removed"}, SetAccount(a) PROVE TypeOK'
  BY <1>17 DEF TypeOK, SetAccount
<1>18. CASE UNCHANGED vars BY <1>18 DEF TypeOK, vars
<1> QED
  BY <1>1, <1>2, <1>3, <1>4, <1>5, <1>6, <1>7, <1>8, <1>9, <1>10, <1>11, <1>12, <1>13,
     <1>14, <1>15, <1>16, <1>17, <1>18 DEF Next, HandlerStep

\* The handler's state has its type.
THEOREM RequestTypes == Spec => []TypeOK
<1>1. Init => TypeOK
  BY DEF Init, TypeOK, Stages, Requests, Tags, Askers
<1> QED BY <1>1, TypeStep, PTL DEF Spec

-----------------------------------------------------------------------------
(* Isolation.                                                              *)

\* Until the forwarding block no upstream has been given a plain request; after it,
\* the target of an isolated host, and of no other, is its container.
IsolationInv ==
  /\ stage = "idle" => contacted = {} /\ target = "origin"
  /\ req.method # "CONNECT" /\ stage \notin Forwarded \cup {"done"} =>
       contacted \subseteq {"preview"}
  /\ req.method # "CONNECT" /\ Has("isolated") /\ stage \in Forwarded =>
       target = "container"
  /\ ~Has("isolated") => target = "origin"
  /\ IsolatedOnlyContainer

\* Every stage keeps it.
LEMMA IsolationStep == TypeOK /\ IsolationInv /\ [Next]_vars => IsolationInv'
<1> SUFFICES ASSUME TypeOK, IsolationInv, [Next]_vars PROVE IsolationInv'
  OBVIOUS
<1> USE DEF adminVars, IsolationInv, IsolatedOnlyContainer, Has, Isolating, Forwarded
<1>1. ASSUME NEW r \in Requests, NEW bad \in BOOLEAN, Accept(r, bad) PROVE IsolationInv'
  <2>1. contacted = {} /\ target = "origin"
    BY <1>1 DEF Accept
  <2> QED BY <1>1, <2>1 DEF Accept, Finish
<1>2. CASE Authenticate BY <1>2 DEF Authenticate, Block, Finish
<1>3. CASE TimeAccess BY <1>3 DEF TimeAccess
<1>4. ASSUME NEW b \in BOOLEAN, UrlAccess(b) \/ ExtensionType(b) \/ ContentType(b)
      PROVE IsolationInv'
  BY <1>4 DEF UrlAccess, ExtensionType, ContentType, Block, Finish
<1>6. ASSUME NEW b \in BOOLEAN, NEW c \in BOOLEAN, Route(b, c) PROVE IsolationInv'
  BY <1>6 DEF Route, Finish
<1>7. CASE Navigate BY <1>7 DEF Navigate, Finish
<1>8. CASE Forward BY <1>8 DEF Forward, Finish
<1>9. ASSUME NEW b \in BOOLEAN, NEW c \in BOOLEAN, Upgrade(b, c) PROVE IsolationInv'
  <2>1. target = IF Has("isolated") THEN target ELSE "origin" OBVIOUS
  <2>2. target = "container" => Has("isolated") BY <2>1
  <2>3. target # "preview" BY DEF TypeOK
  <2> QED BY <1>9, <2>2, <2>3 DEF Upgrade, Finish
<1>10. CASE RoundTrip
  <2>1. target = "container" => Has("isolated") OBVIOUS
  <2>2. target # "preview" BY DEF TypeOK
  <2> QED BY <1>10, <2>1, <2>2 DEF RoundTrip, Finish
<1>12. CASE ReadBody BY <1>12 DEF ReadBody, Finish
<1>13. CASE ScanMedia \/ ScanText \/ WriteBody
  BY <1>13 DEF ScanMedia, ScanText, WriteBody, Block, Finish
<1>16. CASE SetUsers BY <1>16 DEF SetUsers
<1>17. ASSUME NEW a \in {"active", "inactive", "removed"}, SetAccount(a) PROVE IsolationInv'
  BY <1>17 DEF SetAccount
<1>18. CASE UNCHANGED vars BY <1>18 DEF vars
<1> QED
  BY <1>1, <1>2, <1>3, <1>4, <1>6, <1>7, <1>8, <1>9, <1>10, <1>12, <1>13, <1>16, <1>17, <1>18
  DEF Next, HandlerStep

\* Whatever the filters, the scanner and Docker do: no plain request for a host
\* on the isolation list is passed to the site itself, none for another host to a
\* container, and the proxy asks a site for title and icon for isolated navigations
\* only.
THEOREM PlainRequestsIsolated == Spec => []IsolatedOnlyContainer
<1>1. Init => IsolationInv
  BY DEF Init, IsolationInv, IsolatedOnlyContainer, Has, Isolating, Forwarded
<1>2. IsolationInv => IsolatedOnlyContainer BY DEF IsolationInv
<1> QED BY <1>1, <1>2, IsolationStep, RequestTypes, PTL DEF Spec

-----------------------------------------------------------------------------
(* One response, and the word of the filters.                              *)

\* Nothing is written before the handler is done, and what was refused is not
\* among what was written.  With the image scanner, ScanMedia breaks this.
SilentInv ==
  /\ stage # "done" => out = <<>> /\ refused = "no"
  /\ stage = "done" => Len(out) = 1
  /\ stage = "done" /\ refused # "no" => out[1] \in {"error", "page", "redirect"}
  /\ stage \in {"idle", "auth", "time", "url", "ext"} => contacted = {}
  /\ refused \in {"user", "url", "ext"} => contacted = {}

\* The first and only reply.
LEMMA FirstReply ==
  ASSUME NEW r, out = <<>>, Write(r) PROVE Len(out') = 1 /\ out'[1] = r
<1>1. Append(<<>>, r) = <<r>> OBVIOUS
<1> QED BY <1>1 DEF Write

\* Every stage keeps it when neither the image scanner nor a broken copy is there.
LEMMA SilentStep ==
  ASSUME ~AiFilter, "copy" \notin Faults, TypeOK, SilentInv, [Next]_vars
  PROVE  SilentInv'
<1> USE DEF adminVars, SilentInv
<1>0. \A r : stage # "done" /\ Write(r) => Len(out') = 1 /\ out'[1] = r
  BY FirstReply
<1>1. ASSUME NEW r \in Requests, NEW bad \in BOOLEAN, Accept(r, bad) PROVE SilentInv'
  BY <1>0, <1>1 DEF Accept, Finish
<1>2. CASE Authenticate BY <1>0, <1>2 DEF Authenticate, Block, Finish
<1>3. CASE TimeAccess BY <1>3 DEF TimeAccess
<1>4. ASSUME NEW b \in BOOLEAN, UrlAccess(b) PROVE SilentInv'
  BY <1>0, <1>4 DEF UrlAccess, Block, Finish
<1>5. ASSUME NEW b \in BOOLEAN, ExtensionType(b) PROVE SilentInv'
  BY <1>0, <1>5 DEF ExtensionType, Finish
<1>6. ASSUME NEW b \in BOOLEAN, NEW c \in BOOLEAN, Route(b, c) PROVE SilentInv'
  BY <1>0, <1>6 DEF Route, Finish
<1>7. CASE Navigate BY <1>0, <1>7 DEF Navigate, Finish
<1>8. CASE Forward BY <1>0, <1>8 DEF Forward, Finish
<1>9. ASSUME NEW b \in BOOLEAN, NEW c \in BOOLEAN, Upgrade(b, c) PROVE SilentInv'
  BY <1>0, <1>9 DEF Upgrade, Finish
<1>10. CASE RoundTrip BY <1>0, <1>10 DEF RoundTrip, Finish
<1>11. ASSUME NEW b \in BOOLEAN, ContentType(b) PROVE SilentInv'
  BY <1>0, <1>11 DEF ContentType, Block, Finish
<1>12. CASE ReadBody BY <1>0, <1>12 DEF ReadBody, Finish
<1>13. CASE ScanMedia BY <1>0, <1>13 DEF ScanMedia, Finish
<1>14. CASE ScanText BY <1>0, <1>14 DEF ScanText, Block, Finish
<1>15. CASE WriteBody BY <1>0, <1>15 DEF WriteBody, Finish
<1>16. CASE SetUsers BY <1>16 DEF SetUsers
<1>17. ASSUME NEW a \in {"active", "inactive", "removed"}, SetAccount(a) PROVE SilentInv'
  BY <1>17 DEF SetAccount
<1>18. CASE UNCHANGED vars BY <1>18 DEF vars
<1> QED
  BY <1>1, <1>2, <1>3, <1>4, <1>5, <1>6, <1>7, <1>8, <1>9, <1>10, <1>11, <1>12, <1>13,
     <1>14, <1>15, <1>16, <1>17, <1>18 DEF Next, HandlerStep

\* The inductive form in every reachable state.
LEMMA Silent ==
  ASSUME ~AiFilter, "copy" \notin Faults PROVE Spec => [](TypeOK /\ SilentInv)
<1>1. Init => SilentInv BY DEF Init, SilentInv
<1>2. TypeOK /\ SilentInv /\ [Next]_vars => SilentInv' BY SilentStep
<1> QED BY <1>1, <1>2, RequestTypes, PTL DEF Spec

\* Without the image scanner and with copies that do not break off, every
\* request is answered once, for all sizes and kinds of responses.
THEOREM AnsweredOnce == ASSUME ~AiFilter, "copy" \notin Faults PROVE Spec => []OneResponse
<1>1. TypeOK /\ SilentInv => OneResponse
  <2> SUFFICES ASSUME TypeOK, SilentInv PROVE Len(out) <= 1 BY DEF OneResponse
  <2>1. CASE stage = "done"
    <3>1. Len(out) = 1 BY <2>1 DEF SilentInv
    <3> QED BY <3>1
  <2>2. CASE stage # "done"
    <3>1. out = <<>> BY <2>2 DEF SilentInv
    <3> QED BY <3>1
  <2> QED BY <2>1, <2>2
<1> QED BY <1>1, Silent, PTL

\* In the same configurations what a filter refused is not served, and what was
\* refused before the fetch reached no upstream, while accounts change.
THEOREM FiltersObeyed ==
  ASSUME ~AiFilter, "copy" \notin Faults PROVE Spec => []RefusedNotServed
<1>1. ASSUME TypeOK, SilentInv PROVE RefusedNotServed
  <2>1. ASSUME refused # "no" PROVE ~Served
    <3>1. stage = "done" /\ Len(out) = 1 BY <2>1, <1>1 DEF SilentInv
    <3>2. out[1] \in {"error", "page", "redirect"} BY <2>1, <3>1, <1>1 DEF SilentInv
    <3>3. DOMAIN out = {1} BY <3>1, <1>1 DEF TypeOK
    <3> QED BY <3>2, <3>3 DEF Served, Sent
  <2> QED BY <2>1, <1>1 DEF RefusedNotServed, SilentInv
<1> QED BY <1>1, Silent, PTL

-----------------------------------------------------------------------------
(* Pages with blocked words.                                               *)

Flagged == resp.kind = "html" /\ resp.flagged /\ resp.size # "over"

\* No response and no body before RoundTrip, no body while the response is looked
\* at, and a page with blocked words never comes to be written.
TextInv ==
  /\ stage \notin {"type", "read", "media", "text", "write", "done"} => resp = NoResponse
  /\ stage # "done" => ~Sent("body")
  /\ Flagged => stage # "write" /\ ~Sent("body")

\* Writing something else is not writing the body.
LEMMA NotTheBody ==
  ASSUME TypeOK, ~Sent("body"), NEW r, r # "body", Write(r) PROVE ~Sent("body")'
<1>1. out' = Append(out, r) /\ out \in Seq(Replies) BY DEF Write, TypeOK
<1>2. \A i \in DOMAIN out' : out'[i] = r \/ (i \in DOMAIN out /\ out'[i] = out[i]) BY <1>1
<1> QED BY <1>2 DEF Sent

\* Every stage keeps it when no body has exactly the size of the scan limit.
LEMMA TextStep ==
  ASSUME "equal" \notin Sizes, TypeOK, TextInv, [Next]_vars PROVE TextInv'
<1> USE DEF adminVars, TextInv, Flagged
<1>0. ASSUME NEW r \in Replies \ {"body"}, Finish(r), UNCHANGED resp, stage # "done" PROVE TextInv'
  <2>1. ~Sent("body")' BY <1>0, NotTheBody DEF Finish
  <2> QED BY <1>0, <2>1 DEF Finish
<1>a. ASSUME UNCHANGED <<out, resp>>, stage # "done",
             stage' \in Stages \ {"write", "done"},
             stage' \in {"type", "read", "media", "text"} \/ resp = NoResponse
      PROVE  TextInv'
  BY <1>a DEF Sent, NoResponse
<1>b. /\ {"error", "page", "redirect", "tunnel", "bump", "socket", "image"} \subseteq Replies
      /\ {"auth", "time", "url", "ext", "route", "nav", "forward", "upgrade", "fetch", "read",
          "media", "text"} \subseteq Stages
  BY DEF Replies, Stages
<1>1. ASSUME NEW r \in Requests, NEW bad \in BOOLEAN, Accept(r, bad) PROVE TextInv'
  BY <1>0, <1>a, <1>b, <1>1 DEF Accept
<1>2. CASE Authenticate BY <1>0, <1>a, <1>b, <1>2 DEF Authenticate, Block
<1>3. CASE TimeAccess BY <1>a, <1>b, <1>3 DEF TimeAccess
<1>4. ASSUME NEW b \in BOOLEAN, UrlAccess(b) PROVE TextInv'
  BY <1>0, <1>a, <1>b, <1>4 DEF UrlAccess, Block
<1>5. ASSUME NEW b \in BOOLEAN, ExtensionType(b) PROVE TextInv'
  BY <1>0, <1>a, <1>b, <1>5 DEF ExtensionType
<1>6. ASSUME NEW b \in BOOLEAN, NEW c \in BOOLEAN, Route(b, c) PROVE TextInv'
  BY <1>0, <1>a, <1>b, <1>6 DEF Route
<1>7. CASE Navigate BY <1>0, <1>a, <1>b, <1>7 DEF Navigate
<1>8. CASE Forward BY <1>0, <1>a, <1>b, <1>8 DEF Forward
<1>9. ASSUME NEW b \in BOOLEAN, NEW c \in BOOLEAN, Upgrade(b, c) PROVE TextInv'
  BY <1>0, <1>a, <1>b, <1>9 DEF Upgrade
<1>10. CASE RoundTrip
  <2>1. CASE stage' = "type" /\ UNCHANGED out BY <1>10, <2>1 DEF RoundTrip, Sent
  <2>2. CASE Finish("page") /\ UNCHANGED resp BY <1>0, <1>b, <1>10, <2>2 DEF RoundTrip
  <2> QED BY <1>10, <2>1, <2>2 DEF RoundTrip
<1>11. ASSUME NEW b \in BOOLEAN, ContentType(b) PROVE TextInv'
  BY <1>0, <1>a, <1>b, <1>11 DEF ContentType, Block
<1>12. CASE ReadBody
  <2>1. CASE resp.size = "under" BY <1>a, <1>b, <1>12, <2>1 DEF ReadBody
  <2>2. CASE resp.size # "under"
    <3>1. resp.kind = "html" => resp.size \in Sizes BY DEF TypeOK, Responses, NoResponse
    <3>2. ~Flagged BY <2>2, <3>1, ConstAssumption
    <3>3. UNCHANGED resp /\ stage' = "done" BY <1>12, <2>2 DEF ReadBody, Finish
    <3> QED BY <3>2, <3>3
  <2> QED BY <2>1, <2>2
<1>13. CASE ScanMedia
  <2>1. CASE resp.kind = "media" /\ stage' = "text" /\ Write("image")
    <3>1. ~Sent("body")' BY <1>13, <2>1, NotTheBody DEF ScanMedia
    <3> QED BY <1>13, <2>1, <3>1 DEF ScanMedia
  <2>2. CASE resp.kind = "media" /\ Finish("body") BY <1>13, <2>2 DEF ScanMedia, Finish
  <2>3. CASE stage' = "text" /\ UNCHANGED out BY <1>a, <1>b, <1>13, <2>3 DEF ScanMedia
  <2> QED BY <1>13, <2>1, <2>2, <2>3 DEF ScanMedia
<1>14. CASE ScanText
  <2>1. CASE Block("content") BY <1>0, <1>b, <1>14, <2>1 DEF ScanText, Block
  <2>2. CASE ~(resp.kind = "html" /\ resp.flagged) BY <1>14, <2>2 DEF ScanText, Sent
  <2> QED BY <1>14, <2>1, <2>2 DEF ScanText
<1>15. CASE WriteBody BY <1>15 DEF WriteBody, Finish
<1>16. CASE SetUsers BY <1>16 DEF SetUsers, Sent
<1>17. ASSUME NEW a \in {"active", "inactive", "removed"}, SetAccount(a) PROVE TextInv'
  BY <1>17 DEF SetAccount, Sent
<1>18. CASE UNCHANGED vars BY <1>18 DEF vars, Sent
<1> QED
  BY <1>1, <1>2, <1>3, <1>4, <1>5, <1>6, <1>7, <1>8, <1>9, <1>10, <1>11, <1>12, <1>13,
     <1>14, <1>15, <1>16, <1>17, <1>18 DEF Next, HandlerStep

\* Unless a body has exactly MaxContentScanSize bytes, a page with blocked words that
\* fits into the scan buffer is not delivered, with the image scanner on or off and
\* however copies, launches and origins fail.
THEOREM FlaggedWithheld ==
  ASSUME "equal" \notin Sizes PROVE Spec => []FlaggedTextWithheld
<1>1. Init => TextInv BY DEF Init, TextInv, Flagged, Sent, NoResponse
<1>2. TypeOK /\ TextInv /\ [Next]_vars => TextInv' BY TextStep
<1>3. TextInv => FlaggedTextWithheld BY DEF TextInv, Flagged, FlaggedTextWithheld
<1> QED BY <1>1, <1>2, <1>3, RequestTypes, PTL DEF Spec
=============================================================================
