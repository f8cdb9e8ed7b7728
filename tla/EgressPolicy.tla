---------------------------- MODULE EgressPolicy ----------------------------
(***************************************************************************)
(* What the egress listener may rely on: a host is permitted exactly while *)
(* some session for it is open, and a closed session never opens again.    *)
(* The abstract specification of the allowlist kept by the Manager of      *)
(* gatesentryproxy/controller/session.go.                                  *)
(***************************************************************************)
CONSTANTS Ids, Hosts

VARIABLES open,       \* the sessions that are open
          hostOf,     \* the host each session was asked for
          spent,      \* the sessions that were open once
          permitted   \* the hosts isolated browsers may reach

vars == <<open, hostOf, spent, permitted>>

HostsOf(ids) == {hostOf[i] : i \in ids}

Init ==
  /\ open = {}
  /\ spent = {}
  /\ permitted = {}

Open(i) ==
  /\ i \notin spent
  /\ open' = open \cup {i}
  /\ spent' = spent \cup {i}
  /\ permitted' = permitted \cup {hostOf[i]}
  /\ UNCHANGED hostOf

Close(i) ==
  /\ i \in open
  /\ open' = open \ {i}
  /\ permitted' = HostsOf(open \ {i})
  /\ UNCHANGED <<spent, hostOf>>

\* A session chooses its host before it opens.
Choose(i) ==
  /\ i \notin spent
  /\ \E h \in Hosts : hostOf' = [hostOf EXCEPT ![i] = h]
  /\ UNCHANGED <<open, spent, permitted>>

Next == \E i \in Ids : Open(i) \/ Close(i) \/ Choose(i)

Spec == Init /\ [][Next]_vars
=============================================================================
