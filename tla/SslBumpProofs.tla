--------------------------- MODULE SslBumpProofs ---------------------------
(***************************************************************************)
(* Proofs about SslBump: types, and that every certificate the gateway     *)
(* signs is for the name its client asked for and its upstream has proved. *)
(***************************************************************************)
EXTENDS SslBump, TLAPS

\* Past the CONNECT a connection has a name and an address.
Addressed == \A c \in Conns : pc[c] \notin {"idle", "closed"} => Key(c) \in Keys

\* The cache holds certificates of verified upstreams only, and a connection
\* that is about to mint one has verified its own.
CacheTrusted ==
  /\ \A k \in Keys : cache[k] # "none" => k \in Trusted
  /\ \A c \in Conns : pc[c] = "mint" => Key(c) \in Trusted

\* Types, with the fact that makes them inductive: the cache is written at a key.
LEMMA TypeStep == TypeOK /\ Addressed /\ [Next]_vars => TypeOK' /\ Addressed'
<1> SUFFICES ASSUME TypeOK, Addressed, [Next]_vars PROVE TypeOK' /\ Addressed'
  OBVIOUS
<1> USE DEF connVars, tunnelVars, TypeOK, Addressed, Goto, Phases, Key
<1>1. ASSUME NEW c \in Conns, NEW n \in Names, NEW a \in Addrs, Connect(c, n, a)
      PROVE TypeOK' /\ Addressed'
  BY <1>1 DEF Connect, Keys
<1>2. ASSUME NEW c \in Conns,
             HelloRead(c) \/ HelloUnknown(c) \/ Dial(c) \/ Handshake(c) \/ LoadConfig(c)
      PROVE TypeOK' /\ Addressed'
  BY <1>2 DEF HelloRead, HelloUnknown, Dial, Handshake, LoadConfig
<1>3. ASSUME NEW c \in Conns, HelloRejected(c) \/ ClientLeaves(c)
      PROVE TypeOK' /\ Addressed'
  BY <1>3 DEF HelloRejected, ClientLeaves, Hangup
<1>4. ASSUME NEW c \in Conns, AcceptClient(c) PROVE TypeOK' /\ Addressed'
  BY <1>4 DEF AcceptClient, Hangup
<1>5. ASSUME NEW c \in Conns, Lookup(c) PROVE TypeOK' /\ Addressed'
  BY <1>5 DEF Lookup
<1>6. ASSUME NEW c \in Conns, Mint(c) PROVE TypeOK' /\ Addressed'
  BY <1>6 DEF Mint, Put
<1>7. ASSUME NEW c \in Conns, ConfigUnreadable(c) PROVE TypeOK' /\ Addressed'
  BY <1>7 DEF ConfigUnreadable
<1>8. ASSUME NEW c \in Conns, DialDirect(c) PROVE TypeOK' /\ Addressed'
  BY <1>8 DEF DialDirect, Hangup
<1>9. ASSUME NEW c \in Conns, PeerCloses(c) \/ Blocks(c) \/ Unblocks(c)
      PROVE TypeOK' /\ Addressed'
  <2>1. CASE PeerCloses(c) BY <2>1 DEF PeerCloses
  <2>2. CASE Blocks(c) \/ Unblocks(c)
    <3>1. UNCHANGED <<pc, name, addr, cert, cache, cleanDue, client, server, down>>
      BY <2>2 DEF Blocks, Unblocks
    <3>2. PICK s : stuck' = [stuck EXCEPT ![c] = s] /\ s \subseteq {"up", "down"}
      BY <2>2 DEF Blocks, Unblocks
    <3>3. stuck' \in [Conns -> SUBSET {"up", "down"}] BY <3>2
    <3> QED BY <3>1, <3>3
  <2> QED BY <1>9, <2>1, <2>2
<1>10. ASSUME NEW c \in Conns, UpstreamEnds(c) \/ DownstreamEnds(c) \/ TunnelReturns(c)
       PROVE TypeOK' /\ Addressed'
  BY <1>10 DEF UpstreamEnds, DownstreamEnds, TunnelReturns
<1>11. ASSUME NEW k \in Keys, TtlPasses(k) PROVE TypeOK' /\ Addressed'
  BY <1>11 DEF TtlPasses
<1>12. CASE UNCHANGED vars BY <1>12 DEF vars
<1> QED
  BY <1>1, <1>2, <1>3, <1>4, <1>5, <1>6, <1>7, <1>8, <1>9, <1>10, <1>11, <1>12 DEF Next

\* Types in every reachable state.
LEMMA Typing == Spec => [](TypeOK /\ Addressed)
<1>1. Init => TypeOK /\ Addressed
  <2>1. Init => /\ pc \in [Conns -> Phases]
                /\ Addressed
    BY DEF Init, Addressed, Phases
  <2>2. Init => /\ name \in [Conns -> Names \cup {None}]
                /\ addr \in [Conns -> Addrs \cup {None}]
                /\ cert \in [Conns -> Keys \cup {None}]
                /\ cache \in [Keys -> {"none", "fresh", "expired"}]
    BY DEF Init
  <2>3. Init => cleanDue \in BOOLEAN
    BY DEF Init
  <2>4. Init => /\ client \in [Conns -> BOOLEAN]
                /\ server \in [Conns -> BOOLEAN]
    BY DEF Init
  <2>5. Init => down \in [Conns -> {"off", "copy", "send", "done"}]
    BY DEF Init
  <2>6. Init => stuck \in [Conns -> SUBSET {"up", "down"}]
    BY DEF Init
  <2> QED BY <2>1, <2>2, <2>3, <2>4, <2>5, <2>6 DEF TypeOK
<1> QED BY <1>1, TypeStep, PTL DEF Spec

\* The connections, the tunnels and the cache have their types.
THEOREM BumpTypes == Spec => []TypeOK
BY Typing, PTL

\* Steps that do not touch the cache or a certificate keep what they are for.
LEMMA TrustStep ==
  TypeOK /\ Addressed /\ CacheTrusted /\ VouchedFor /\ [Next]_vars
    => CacheTrusted' /\ VouchedFor'
<1> SUFFICES ASSUME TypeOK, Addressed, CacheTrusted, VouchedFor, [Next]_vars
             PROVE CacheTrusted' /\ VouchedFor'
  OBVIOUS
<1> USE DEF connVars, tunnelVars, TypeOK, CacheTrusted, VouchedFor, Goto, Key
<1>1. ASSUME NEW c \in Conns, NEW n \in Names, NEW a \in Addrs, Connect(c, n, a)
      PROVE CacheTrusted' /\ VouchedFor'
  BY <1>1 DEF Connect
<1>2. ASSUME NEW c \in Conns, HelloRead(c) \/ HelloUnknown(c) \/ Dial(c) \/ LoadConfig(c)
      PROVE CacheTrusted' /\ VouchedFor'
  BY <1>2 DEF HelloRead, HelloUnknown, Dial, LoadConfig
<1>3. ASSUME NEW c \in Conns, HelloRejected(c) \/ ClientLeaves(c)
      PROVE CacheTrusted' /\ VouchedFor'
  BY <1>3 DEF HelloRejected, ClientLeaves, Hangup
<1>4. ASSUME NEW c \in Conns, AcceptClient(c) PROVE CacheTrusted' /\ VouchedFor'
  BY <1>4 DEF AcceptClient, Hangup
<1>5. ASSUME NEW c \in Conns, Lookup(c) PROVE CacheTrusted' /\ VouchedFor'
  <2>1. Key(c) \in Keys BY <1>5 DEF Lookup, Addressed
  <2> QED BY <1>5, <2>1 DEF Lookup
<1>6. ASSUME NEW c \in Conns, Mint(c) PROVE CacheTrusted' /\ VouchedFor'
  <2>1. Key(c) \in Trusted BY <1>6 DEF Mint
  <2>2. \A k \in Keys : cache'[k] # "none" => k \in Trusted BY <1>6, <2>1 DEF Mint, Put
  <2> QED BY <1>6, <2>1, <2>2 DEF Mint
<1>7. ASSUME NEW c \in Conns, Handshake(c) PROVE CacheTrusted' /\ VouchedFor'
  BY <1>7 DEF Handshake
<1>8. ASSUME NEW c \in Conns, ConfigUnreadable(c) PROVE CacheTrusted' /\ VouchedFor'
  BY <1>8 DEF ConfigUnreadable
<1>9. ASSUME NEW c \in Conns, DialDirect(c) PROVE CacheTrusted' /\ VouchedFor'
  BY <1>9 DEF DialDirect, Hangup
<1>10. ASSUME NEW c \in Conns,
              \/ PeerCloses(c) \/ Blocks(c) \/ Unblocks(c)
              \/ UpstreamEnds(c) \/ DownstreamEnds(c) \/ TunnelReturns(c)
       PROVE CacheTrusted' /\ VouchedFor'
  BY <1>10 DEF PeerCloses, Blocks, Unblocks, UpstreamEnds, DownstreamEnds, TunnelReturns
<1>11. ASSUME NEW k \in Keys, TtlPasses(k) PROVE CacheTrusted' /\ VouchedFor'
  BY <1>11 DEF TtlPasses
<1>12. CASE UNCHANGED vars BY <1>12 DEF vars
<1> QED
  BY <1>1, <1>2, <1>3, <1>4, <1>5, <1>6, <1>7, <1>8, <1>9, <1>10, <1>11, <1>12 DEF Next

\* For any number of connections, names and addresses and whatever fails: the
\* certificate a client is shown is for its name, and its upstream proved it.
THEOREM CertificatesVouchedFor == Spec => []VouchedFor
<1>1. Init => CacheTrusted /\ VouchedFor BY DEF Init, CacheTrusted, VouchedFor
<1> QED BY <1>1, Typing, TrustStep, PTL DEF Spec
=============================================================================
