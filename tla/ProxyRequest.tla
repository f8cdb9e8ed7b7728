---------------------------- MODULE ProxyRequest ----------------------------
(***************************************************************************)
(* One request through ProxyHandler.ServeHTTP (gatesentryproxy/proxy.go),  *)
(* with the credentials check of auth.go, the scanners of                  *)
(* contentscanner.go and the handlers RunGateSentry installs (mymain.go).  *)
(*                                                                         *)
(* Each stage of the handler is an action.  What a filter answers is       *)
(* chosen when the filter is asked; the administrator may change the       *)
(* accounts and the user switch between any two stages.  `out' is what has *)
(* been written to the client, in order.                                   *)
(***************************************************************************)
EXTENDS Naturals, Sequences

CONSTANTS AiFilter,  \* enable_ai_image_filtering with a scanner URL
          Sizes,     \* response sizes, relative to MaxContentScanSize
          Faults     \* which of FaultKinds may happen

FaultKinds == {"copy", "launch", "origin"}

ASSUME ConstAssumption ==
  /\ AiFilter \in BOOLEAN
  /\ Sizes \subseteq {"under", "equal", "over"}
  /\ Faults \subseteq FaultKinds

\* What the request's URL and headers say: a LAN host, a host on the isolation
\* list, a top-level navigation, a path that is not the root.
Tags == {"lan", "isolated", "document", "subpath"}

\* Who asks: nobody, a wrong or a right password, or a request inside a bumped
\* tunnel whose CONNECT came from a user or from an address only.
Askers == {"nobody", "wrong", "user", "tunnelUser", "tunnelAddress"}

Requests  == [method : {"GET", "CONNECT"}, who : Askers, tags : SUBSET Tags]
Responses == [kind : {"html", "media", "other"}, flagged : BOOLEAN, size : Sizes]
NoResponse == [kind |-> "none", flagged |-> FALSE, size |-> "none"]

Stages == {"idle", "auth", "time", "url", "ext", "route", "nav", "forward", "upgrade",
           "fetch", "type", "read", "media", "text", "write", "done"}

Replies == {"error", "page", "redirect", "tunnel", "bump", "socket", "image", "body"}

VARIABLES
  stage,      \* where ServeHTTP is
  req,        \* the request
  target,     \* where r.URL.Host points: the site or the host's container
  resp,       \* what RoundTrip returned
  contacted,  \* who was asked: the site or a container with the client's request,
              \* the site with the proxy's own for a preview (title and icon)
  refused,    \* the filter that said no
  out,        \* what was written to the client
  usersOn,    \* setting EnableUsers
  account     \* the user's entry in R.AuthUsers

adminVars == <<usersOn, account>>
vars == <<stage, req, target, resp, contacted, refused, out, adminVars>>

TypeOK ==
  /\ stage \in Stages
  /\ req \in Requests
  /\ target \in {"origin", "container"}
  /\ resp \in Responses \cup {NoResponse}
  /\ contacted \subseteq {"origin", "container", "preview"}
  /\ refused \in {"no", "user", "url", "ext", "type", "content"}
  /\ out \in Seq(Replies)
  /\ usersOn \in BOOLEAN
  /\ account \in {"active", "inactive", "removed"}

Init ==
  /\ stage = "idle"
  /\ req = [method |-> "GET", who |-> "nobody", tags |-> {}]
  /\ target = "origin"
  /\ resp = NoResponse
  /\ contacted = {}
  /\ refused = "no"
  /\ out = <<>>
  /\ usersOn \in BOOLEAN
  /\ account = "active"

-----------------------------------------------------------------------------
(* Writing to the client.                                                  *)

Has(t) == t \in req.tags

Write(reply) == out' = Append(out, reply)

\* http.Error, http.Redirect, a tunnel or a stream: the last thing the handler
\* does.
Finish(reply) ==
  /\ Write(reply)
  /\ stage' = "done"

\* sendBlockMessageBytes: the page itself, or through a TLS handshake if the URL
\* has ":443" in it.
Block(filter) ==
  /\ refused' = filter
  /\ Finish("page")

-----------------------------------------------------------------------------
(* Before anything is fetched.                                             *)

\* A URL of more than 10000 bytes, or without a host, is answered at once.
Accept(r, bad) ==
  /\ stage = "idle"
  /\ req' = r
  /\ IF bad THEN Finish("error") ELSE stage' = "auth" /\ UNCHANGED out
  /\ UNCHANGED <<target, resp, contacted, refused, adminVars>>

\* HandleAuthAndAssignUser: the name the request runs under.  Without credentials
\* it is the client's address, which is nobody's account.
Known == req.who \in {"user", "tunnelUser"} /\ account # "removed"

\* IsAuthEnabled is asked once; UserAccessHandler looks the account up now.
Authenticate ==
  /\ stage = "auth"
  /\ \/ /\ usersOn /\ ~Known
        /\ refused' = "user"
        /\ Finish("error")
     \/ /\ usersOn /\ Known /\ account = "inactive" /\ ~Has("lan")
        /\ Block("user")
     \/ /\ usersOn => Known /\ (account = "active" \/ Has("lan"))
        /\ stage' = "time"
        /\ UNCHANGED <<refused, out>>
  /\ UNCHANGED <<req, target, resp, contacted, adminVars>>

\* TimeAccessHandler runs the time filter and drops its answer.
TimeAccess ==
  /\ stage = "time"
  /\ stage' = "url"
  /\ UNCHANGED <<req, target, resp, contacted, refused, out, adminVars>>

UrlAccess(blocked) ==
  /\ stage = "url"
  /\ IF blocked THEN Block("url") ELSE stage' = "ext" /\ UNCHANGED <<refused, out>>
  /\ UNCHANGED <<req, target, resp, contacted, adminVars>>

\* Mutation: the redirect is written and the handler goes on.
ExtensionTypeFallsThrough(blocked) ==
  /\ stage = "ext"
  /\ stage' = "route"
  /\ out' = IF blocked THEN Append(out, "redirect") ELSE out
  /\ refused' = IF blocked THEN "ext" ELSE refused
  /\ UNCHANGED <<req, target, resp, contacted, adminVars>>

\* The MIME type of the URL's extension is blocked: redirect to the blocked page.
ExtensionType(blocked) ==
  /\ stage = "ext"
  /\ IF blocked THEN refused' = "ext" /\ Finish("redirect")
                ELSE stage' = "route" /\ UNCHANGED <<refused, out>>
  /\ UNCHANGED <<req, target, resp, contacted, adminVars>>

\* CONNECT: bump the isolated hosts that are not exempt, tunnel the others.
Route(dontBump, exception) ==
  /\ stage = "route"
  /\ \/ /\ req.method # "CONNECT"
        /\ stage' = "nav"
        /\ UNCHANGED <<contacted, out>>
     \/ /\ req.method = "CONNECT"
        /\ IF Has("isolated") /\ ~dontBump /\ ~Has("lan") /\ ~exception
           THEN Finish("bump") /\ UNCHANGED contacted
           ELSE Finish("tunnel") /\ contacted' = contacted \cup {"origin"}
  /\ UNCHANGED <<req, target, resp, refused, adminVars>>

\* modifyURL: a top-level navigation of an isolated host.
Isolating == {"isolated", "document"} \subseteq req.tags

\* For an isolated navigation fetchPageMetadata and fetchFaviconBase64 first get
\* the title and the icon from the site itself; one to a sub-path then starts the
\* session and sends the client to the root.
Navigate ==
  /\ stage = "nav"
  /\ contacted' = IF Isolating THEN contacted \cup {"preview"} ELSE contacted
  /\ \/ /\ Isolating /\ Has("subpath")
        /\ \/ Finish("redirect")
           \/ "launch" \in Faults /\ Finish("error")
     \/ /\ ~(Isolating /\ Has("subpath"))
        /\ stage' = "forward"
        /\ UNCHANGED out
  /\ UNCHANGED <<req, target, resp, refused, adminVars>>

\* Mutation: only navigations are forwarded to the container.
ForwardNavigations ==
  /\ stage = "forward"
  /\ target' = IF Isolating THEN "container" ELSE target
  /\ stage' = "upgrade"
  /\ UNCHANGED <<req, resp, contacted, refused, out, adminVars>>

\* PROXY-FORWARD: every request for an isolated host goes to its container.
Forward ==
  /\ stage = "forward"
  /\ \/ /\ Has("isolated")
        /\ target' = "container"
        /\ stage' = "upgrade"
        /\ UNCHANGED out
     \/ /\ Has("isolated") /\ "launch" \in Faults
        /\ Finish("error")
        /\ UNCHANGED target
     \/ /\ ~Has("isolated")
        /\ stage' = "upgrade"
        /\ UNCHANGED <<target, out>>
  /\ UNCHANGED <<req, resp, contacted, refused, adminVars>>

\* A WebSocket is copied both ways; a request that passed ten proxies is refused.
Upgrade(websocket, looping) ==
  /\ stage = "upgrade"
  /\ \/ /\ websocket
        /\ contacted' = contacted \cup {target}
        /\ Finish("socket")
     \/ /\ ~websocket /\ looping
        /\ Finish("error")
        /\ UNCHANGED contacted
     \/ /\ ~websocket /\ ~looping
        /\ stage' = "fetch"
        /\ UNCHANGED <<contacted, out>>
  /\ UNCHANGED <<req, target, resp, refused, adminVars>>

-----------------------------------------------------------------------------
(* RoundTrip and what is done with the response.                           *)

RoundTrip ==
  /\ stage = "fetch"
  /\ contacted' = contacted \cup {target}
  /\ \/ /\ \E a \in Responses : resp' = a
        /\ stage' = "type"
        /\ UNCHANGED out
     \/ /\ "origin" \in Faults
        /\ Finish("page")
        /\ UNCHANGED resp
  /\ UNCHANGED <<req, target, refused, adminVars>>

ContentType(blocked) ==
  /\ stage = "type"
  /\ IF blocked THEN Block("type") ELSE stage' = "read" /\ UNCHANGED <<refused, out>>
  /\ UNCHANGED <<req, target, resp, contacted, adminVars>>

\* Mutation: an oversize body is streamed and then scanned and sent as well.
ReadBodyFallsThrough ==
  /\ stage = "read"
  /\ stage' = "media"
  /\ out' = IF resp.size = "under" THEN out ELSE Append(out, "body")
  /\ UNCHANGED <<req, target, resp, contacted, refused, adminVars>>

\* The limited reader is used up: stream head and remainder without scanning.
\* If the copy breaks off, an error page is written after what was sent.
ReadBody ==
  /\ stage = "read"
  /\ \/ /\ resp.size = "under"
        /\ stage' = "media"
        /\ UNCHANGED out
     \/ /\ resp.size # "under"
        /\ \/ Finish("body")
           \/ "copy" \in Faults /\ out' = out \o <<"body", "page">> /\ stage' = "done"
  /\ UNCHANGED <<req, target, resp, contacted, refused, adminVars>>

\* ScanMedia: the replacement image is written, but only the other branch sets
\* httpResponseSent.
ScanMedia ==
  /\ stage = "media"
  /\ \/ /\ resp.kind = "media" /\ AiFilter /\ resp.flagged
        /\ refused' = "content"
        /\ Write("image")
        /\ stage' = "text"
     \/ /\ resp.kind = "media" /\ ~(AiFilter /\ resp.flagged)
        /\ Finish("body")
        /\ UNCHANGED refused
     \/ /\ resp.kind # "media"
        /\ stage' = "text"
        /\ UNCHANGED <<out, refused>>
  /\ UNCHANGED <<req, target, resp, contacted, adminVars>>

\* Mutation: the word filter's answer is not looked at.
ScanTextIgnored ==
  /\ stage = "text"
  /\ stage' = "write"
  /\ UNCHANGED <<req, target, resp, contacted, refused, out, adminVars>>

ScanText ==
  /\ stage = "text"
  /\ IF resp.kind = "html" /\ resp.flagged
     THEN Block("content")
     ELSE stage' = "write" /\ UNCHANGED <<out, refused>>
  /\ UNCHANGED <<req, target, resp, contacted, adminVars>>

\* The scanned body, gzipped or not.
WriteBody ==
  /\ stage = "write"
  /\ Finish("body")
  /\ UNCHANGED <<req, target, resp, contacted, refused, adminVars>>

-----------------------------------------------------------------------------
(* The administrator.                                                      *)

SetUsers ==
  /\ usersOn' = ~usersOn
  /\ UNCHANGED <<stage, req, target, resp, contacted, refused, out, account>>

SetAccount(a) ==
  /\ account' = a
  /\ UNCHANGED <<stage, req, target, resp, contacted, refused, out, usersOn>>

HandlerStep ==
  \/ Authenticate \/ TimeAccess \/ Navigate \/ Forward \/ RoundTrip \/ ReadBody
  \/ ScanMedia \/ ScanText \/ WriteBody
  \/ \E b \in BOOLEAN : UrlAccess(b) \/ ExtensionType(b) \/ ContentType(b)
  \/ \E b, c \in BOOLEAN : Route(b, c) \/ Upgrade(b, c)

Next ==
  \/ \E r \in Requests, bad \in BOOLEAN : Accept(r, bad)
  \/ HandlerStep
  \/ SetUsers
  \/ \E a \in {"active", "inactive", "removed"} : SetAccount(a)

Spec == Init /\ [][Next]_vars

-----------------------------------------------------------------------------
(* Properties.                                                             *)

\* No request is answered twice: no stage writes a response and lets a later
\* stage write another one into the same connection.
OneResponse == Len(out) <= 1

Sent(reply) == \E i \in DOMAIN out : out[i] = reply

Served == Sent("body") \/ Sent("socket") \/ Sent("tunnel")

\* What a filter refused is not served, and for what was refused before the fetch
\* nobody is asked, not even for a title, whatever the administrator changes meanwhile.
RefusedNotServed ==
  /\ refused # "no" => ~Served
  /\ refused \in {"user", "url", "ext"} => contacted = {}

\* A plain request for an isolated host is passed to the host's container and never
\* to the site, and that of another host is never passed to a container (it would
\* start a session of its own).  The proxy itself does ask the site, for a title and
\* an icon which go into the client's page, but for navigations of isolated hosts only.
IsolatedOnlyContainer ==
  /\ Has("isolated") /\ req.method # "CONNECT" => "origin" \notin contacted
  /\ "container" \in contacted => Has("isolated")
  /\ "preview" \in contacted => Isolating

\* A page with blocked words that is small enough to be scanned is not delivered.
FlaggedTextWithheld ==
  resp.kind = "html" /\ resp.flagged /\ resp.size # "over" => ~Sent("body")
=============================================================================
