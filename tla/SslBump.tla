------------------------------ MODULE SslBump ------------------------------
(***************************************************************************)
(* What happens to a CONNECT that ServeHTTP decides to bump: SSLBump and   *)
(* ConnectDirect of gatesentryproxy/ssl.go with the certificate cache of   *)
(* certificatecache.go.  Every connection here is for an isolated host;    *)
(* the other CONNECTs go to ConnectDirect at once (ProxyRequest!Route).    *)
(*                                                                         *)
(* A minted certificate is named by the server name and the address of the *)
(* upstream it copies.  tls.Client verifies the upstream against both, so  *)
(* validCert and the default-root check that follow always agree with it.  *)
(***************************************************************************)
EXTENDS Naturals

CONSTANTS Conns,    \* client connections
          Names,    \* server names (SNI, or the CONNECT host)
          Addrs,    \* CONNECT addresses
          Trusted,  \* the <<name, addr>> whose certificate verifies
          None,     \* no name, no address, no certificate
          Faults    \* which of FaultKinds may happen

FaultKinds == {"hello", "dial", "sign", "config"}

Keys == Names \X Addrs

ASSUME ConstAssumption ==
  /\ Trusted \subseteq Keys
  /\ None \notin Names \cup Addrs \cup Keys
  /\ Faults \subseteq FaultKinds

VARIABLES
  pc,        \* where the goroutine of a connection is
  name,      \* serverName
  addr,      \* serverAddr
  cert,      \* the certificate shown to the client
  cache,     \* CertCache: entries are absent, within the TTL, or expired
  cleanDue,  \* now - lastCleaned > TTL; lastCleaned is never moved on
  client,    \* is the client's side of the connection open?
  server,    \* is a tunnel's upstream side open?
  down,      \* the copying goroutine of ConnectDirect
  stuck      \* the copiers of a tunnel blocked in Write: the peer does not read

connVars == <<pc, name, addr, cert>>
tunnelVars == <<client, server, down, stuck>>
vars == <<connVars, cache, cleanDue, tunnelVars>>

Phases == {"idle", "hello", "lookup", "dial", "handshake", "mint", "config", "accept",
           "serving", "direct", "tunnel", "drain", "closed"}

TypeOK ==
  /\ pc \in [Conns -> Phases]
  /\ name \in [Conns -> Names \cup {None}]
  /\ addr \in [Conns -> Addrs \cup {None}]
  /\ cert \in [Conns -> Keys \cup {None}]
  /\ cache \in [Keys -> {"none", "fresh", "expired"}]
  /\ cleanDue \in BOOLEAN
  /\ client \in [Conns -> BOOLEAN]
  /\ server \in [Conns -> BOOLEAN]
  /\ down \in [Conns -> {"off", "copy", "send", "done"}]
  /\ stuck \in [Conns -> SUBSET {"up", "down"}]

Init ==
  /\ pc = [c \in Conns |-> "idle"]
  /\ name = [c \in Conns |-> None]
  /\ addr = [c \in Conns |-> None]
  /\ cert = [c \in Conns |-> None]
  /\ cache = [k \in Keys |-> "none"]
  /\ cleanDue = FALSE
  /\ client = [c \in Conns |-> FALSE]
  /\ server = [c \in Conns |-> FALSE]
  /\ down = [c \in Conns |-> "off"]
  /\ stuck = [c \in Conns |-> {}]

Key(c) == <<name[c], addr[c]>>

Goto(c, l) == pc' = [pc EXCEPT ![c] = l]

\* conn.Close() and return.
Hangup(c) ==
  /\ Goto(c, "closed")
  /\ client' = [client EXCEPT ![c] = FALSE]
  /\ UNCHANGED <<name, addr, cert, cache, cleanDue, server, down, stuck>>

-----------------------------------------------------------------------------
(* SSLBump.                                                                *)

\* HandleSSLBump hijacks the connection and answers 200.
Connect(c, n, a) ==
  /\ pc[c] = "idle"
  /\ Goto(c, "hello")
  /\ name' = [name EXCEPT ![c] = n]
  /\ addr' = [addr EXCEPT ![c] = a]
  /\ client' = [client EXCEPT ![c] = TRUE]
  /\ UNCHANGED <<cert, cache, cleanDue, server, down, stuck>>

\* ReadClientHello within its 10 s deadline.
HelloRead(c) ==
  /\ pc[c] = "hello"
  /\ Goto(c, "lookup")
  /\ UNCHANGED <<name, addr, cert, cache, cleanDue, tunnelVars>>

\* A timeout, an obsolete version, or a panic of the parser, which SSLBump's
\* recover turns into a close.
HelloRejected(c) == pc[c] = "hello" /\ Hangup(c)

\* Anything else that is not a client hello is tunnelled as it is.
HelloUnknown(c) ==
  /\ pc[c] = "hello"
  /\ "hello" \in Faults
  /\ Goto(c, "direct")
  /\ UNCHANGED <<name, addr, cert, cache, cleanDue, tunnelVars>>

\* Mutation: the cache is keyed by the address only.
LookupByAddress(c) ==
  /\ pc[c] = "lookup"
  /\ \/ \E n \in Names :
          /\ cache[<<n, addr[c]>>] = "fresh"
          /\ cert' = [cert EXCEPT ![c] = <<n, addr[c]>>]
          /\ Goto(c, "config")
     \/ /\ \A n \in Names : cache[<<n, addr[c]>>] # "fresh"
        /\ Goto(c, "dial")
        /\ UNCHANGED cert
  /\ UNCHANGED <<name, addr, cache, cleanDue, tunnelVars>>

\* CertCache.Get: an entry within its TTL saves the upstream handshake.
Lookup(c) ==
  /\ pc[c] = "lookup"
  /\ IF cache[Key(c)] = "fresh"
     THEN cert' = [cert EXCEPT ![c] = Key(c)] /\ Goto(c, "config")
     ELSE Goto(c, "dial") /\ UNCHANGED cert
  /\ UNCHANGED <<name, addr, cache, cleanDue, tunnelVars>>

Dial(c) ==
  /\ pc[c] = "dial"
  /\ \/ Goto(c, "handshake")
     \/ "dial" \in Faults /\ Goto(c, "direct")
  /\ UNCHANGED <<name, addr, cert, cache, cleanDue, tunnelVars>>

\* The upstream is authenticated, or the client is connected to it directly.
Handshake(c) ==
  /\ pc[c] = "handshake"
  /\ Goto(c, IF Key(c) \in Trusted THEN "mint" ELSE "direct")
  /\ UNCHANGED <<name, addr, cert, cache, cleanDue, tunnelVars>>

\* CertCache.Put: sweep the expired entries once a TTL has passed since the first
\* Put, then enter the new one.
Put(k) ==
  cache' = [j \in Keys |->
              IF j = k THEN "fresh"
              ELSE IF cleanDue /\ cache[j] = "expired" THEN "none" ELSE cache[j]]

\* signCertificate and Put.
Mint(c) ==
  /\ pc[c] = "mint"
  /\ \/ /\ Put(Key(c))
        /\ cert' = [cert EXCEPT ![c] = Key(c)]
        /\ Goto(c, "config")
     \/ /\ "sign" \in Faults
        /\ Goto(c, "direct")
        /\ UNCHANGED <<cert, cache>>
  /\ UNCHANGED <<name, addr, cleanDue, tunnelVars>>

LoadConfig(c) ==
  /\ pc[c] = "config"
  /\ Goto(c, "accept")
  /\ UNCHANGED <<name, addr, cert, cache, cleanDue, tunnelVars>>

\* config.json cannot be read: log.Fatalf ends the process, and with it every
\* other connection and the cache; the supervisor starts it again.
ConfigUnreadable(c) ==
  /\ pc[c] = "config"
  /\ "config" \in Faults
  /\ pc' = [d \in Conns |-> IF pc[d] = "idle" THEN "idle" ELSE "closed"]
  /\ client' = [d \in Conns |-> FALSE]
  /\ server' = [d \in Conns |-> FALSE]
  /\ down' = [d \in Conns |-> "off"]
  /\ stuck' = [d \in Conns |-> {}]
  /\ cache' = [k \in Keys |-> "none"]
  /\ cleanDue' = FALSE
  /\ UNCHANGED <<name, addr, cert>>

\* The client's handshake against the minted certificate, and the inner server.
AcceptClient(c) ==
  /\ pc[c] = "accept"
  /\ \/ Goto(c, "serving") /\ UNCHANGED <<name, addr, cert, cache, cleanDue, tunnelVars>>
     \/ Hangup(c)

ClientLeaves(c) == pc[c] = "serving" /\ Hangup(c)

-----------------------------------------------------------------------------
(* ConnectDirect: one goroutine copies downstream, the caller upstream.    *)

DialDirect(c) ==
  /\ pc[c] = "direct"
  /\ \/ /\ Goto(c, "tunnel")
        /\ server' = [server EXCEPT ![c] = TRUE]
        /\ down' = [down EXCEPT ![c] = "copy"]
        /\ UNCHANGED <<name, addr, cert, cache, cleanDue, client, stuck>>
     \/ "dial" \in Faults /\ Hangup(c)

\* The peers close their ends when they like.
PeerCloses(c) ==
  /\ pc[c] = "tunnel"
  /\ \/ client[c] /\ client' = [client EXCEPT ![c] = FALSE] /\ UNCHANGED server
     \/ server[c] /\ server' = [server EXCEPT ![c] = FALSE] /\ UNCHANGED client
  /\ UNCHANGED <<connVars, cache, cleanDue, down, stuck>>

\* There is something to copy and the peer it is for does not read: no Write has a
\* deadline.
Blocks(c) ==
  /\ \/ pc[c] = "tunnel" /\ client[c] /\ stuck' = [stuck EXCEPT ![c] = @ \cup {"up"}]
     \/ down[c] = "copy" /\ server[c] /\ stuck' = [stuck EXCEPT ![c] = @ \cup {"down"}]
  /\ UNCHANGED <<connVars, cache, cleanDue, client, server, down>>

\* The peer reads again, or resets the connection.
Unblocks(c) ==
  /\ \E d \in stuck[c] : stuck' = [stuck EXCEPT ![c] = @ \ {d}]
  /\ UNCHANGED <<connVars, cache, cleanDue, client, server, down>>

\* Mutation: the upstream connection is left to the goroutine.
UpstreamEndsOpen(c) ==
  /\ pc[c] = "tunnel" /\ "up" \notin stuck[c]
  /\ ~client[c] \/ ~server[c]
  /\ Goto(c, "drain")
  /\ UNCHANGED <<name, addr, cert, cache, cleanDue, tunnelVars>>

\* The client's end is closed, or a write to the closed upstream fails: the caller
\* closes the upstream end and waits for the goroutine.
UpstreamEnds(c) ==
  /\ pc[c] = "tunnel" /\ "up" \notin stuck[c]
  /\ ~client[c] \/ ~server[c]
  /\ Goto(c, "drain")
  /\ server' = [server EXCEPT ![c] = FALSE]
  /\ UNCHANGED <<name, addr, cert, cache, cleanDue, client, down, stuck>>

\* The upstream end is closed, or a write to the closed client fails: after a second
\* the goroutine closes the client's end and sends its count.
DownstreamEnds(c) ==
  /\ down[c] = "copy" /\ "down" \notin stuck[c]
  /\ ~server[c] \/ ~client[c]
  /\ client' = [client EXCEPT ![c] = FALSE]
  /\ down' = [down EXCEPT ![c] = "send"]
  /\ UNCHANGED <<connVars, cache, cleanDue, server, stuck>>

\* The unbuffered channel ulChan: both sides meet.
TunnelReturns(c) ==
  /\ pc[c] = "drain" /\ down[c] = "send"
  /\ Goto(c, "closed")
  /\ down' = [down EXCEPT ![c] = "done"]
  /\ UNCHANGED <<name, addr, cert, cache, cleanDue, client, server, stuck>>

-----------------------------------------------------------------------------
\* The TTL of an entry passes; by then it has passed since the first Put too, so
\* that the next Put sweeps.
TtlPasses(k) ==
  /\ cache[k] = "fresh"
  /\ cache' = [cache EXCEPT ![k] = "expired"]
  /\ cleanDue' = TRUE
  /\ UNCHANGED <<connVars, tunnelVars>>

Next ==
  \/ \E c \in Conns :
       \/ \E n \in Names, a \in Addrs : Connect(c, n, a)
       \/ HelloRead(c) \/ HelloRejected(c) \/ HelloUnknown(c)
       \/ Lookup(c) \/ Dial(c) \/ Handshake(c) \/ Mint(c)
       \/ LoadConfig(c) \/ ConfigUnreadable(c) \/ AcceptClient(c) \/ ClientLeaves(c)
       \/ DialDirect(c) \/ PeerCloses(c) \/ Blocks(c) \/ Unblocks(c)
       \/ UpstreamEnds(c) \/ DownstreamEnds(c) \/ TunnelReturns(c)
  \/ \E k \in Keys : TtlPasses(k)

Spec == Init /\ [][Next]_vars

\* Goroutines run, and a read of a closed socket returns.  Nothing is assumed of the
\* peers: neither need write (so that a failing Write need not happen) or read (a
\* blocked Write need not return), and the upstream need not finish its handshake.
Fairness ==
  \A c \in Conns :
    /\ WF_vars(~client[c] /\ UpstreamEnds(c))
    /\ WF_vars(~server[c] /\ DownstreamEnds(c))
    /\ WF_vars(TunnelReturns(c))

FairSpec == Spec /\ Fairness

-----------------------------------------------------------------------------
(* Properties.                                                             *)

\* A client that gets a certificate signed by the gateway gets it for the name it
\* asked for, and the upstream at that address has proved that name: neither the
\* cache nor a concurrent connection lends it another one's certificate.
VouchedFor ==
  \A c \in Conns :
    pc[c] \in {"config", "accept", "serving"} => cert[c] = Key(c) /\ Key(c) \in Trusted

\* A client of an isolated host is never connected to the site itself.
IsolatedNeverDirect == \A c \in Conns : pc[c] # "tunnel"

\* A tunnel in which either peer has closed ends with both sides closed and its
\* two goroutines gone, unless a copier stays blocked for ever in writing to a peer
\* that keeps its end open and does not read.
TunnelEnds ==
  \A c \in Conns :
    \/ <>[](stuck[c] # {})
    \/ (pc[c] = "tunnel" /\ ~(client[c] /\ server[c]))
         ~> (pc[c] = "closed" /\ ~client[c] /\ ~server[c] /\ down[c] \in {"done", "off"})
=============================================================================
