----------------------------- MODULE Controller -----------------------------
(***************************************************************************)
(* The session Manager of gatesentryproxy/controller/session.go: it starts *)
(* one throwaway container per session, keeps the reference-counted egress *)
(* allowlist and tears sessions down from four places at once: a launch    *)
(* that did not become ready, the client, the idle collector and Shutdown. *)
(*                                                                         *)
(* Every critical section of m.mu is one action; Docker calls happen       *)
(* outside it and are actions of their own.                                *)
(***************************************************************************)
EXTENDS Naturals, FiniteSets

CONSTANTS Ids,      \* session identifiers (randID), each used by one Launch
          Hosts,    \* values of AllowedHost
          None,     \* no host, no session
          MayStop,  \* may Shutdown be called?
          Faults    \* which of FaultKinds may happen

FaultKinds == {"run", "rm"}

ASSUME ConstAssumption ==
  /\ IsFiniteSet(Ids)
  /\ None \notin Ids \cup Hosts
  /\ MayStop \in BOOLEAN
  /\ Faults \subseteq FaultKinds

\* The goroutines that call Teardown for a list of sessions, one at a time.
Workers == {"gc", "shutdown", "client"}

VARIABLES
  pc,         \* where the Launch of a session is
  hostOf,     \* Session.AllowedHost
  sessions,   \* the keys of m.sessions
  allowed,    \* m.allowed; 0 stands for a missing key
  idle,       \* now - lastActive > IdleTimeout
  container,  \* Docker's view of a session's container
  todo,       \* the sessions a worker still has to tear down
  busy,       \* the session a worker is in docker rm for
  stop,       \* Shutdown: m.stop is open, closed, and the list is taken
  gcRuns      \* has gcLoop not returned yet?

vars == <<pc, hostOf, sessions, allowed, idle, container, todo, busy, stop, gcRuns>>

\* The phases of a Launch from register() on.
Begun == {"wait", "undo", "rm", "done", "undone"}
Phases == {"none", "run", "register", "failed"} \cup Begun

TypeOK ==
  /\ pc        \in [Ids -> Phases]
  /\ hostOf    \in [Ids -> Hosts \cup {None}]
  /\ sessions  \subseteq Ids
  /\ allowed   \in [Hosts -> Nat]
  /\ idle      \in [Ids -> BOOLEAN]
  /\ container \in [Ids -> {"none", "up", "gone"}]
  /\ todo      \in [Workers -> SUBSET Ids]
  /\ busy      \in [Workers -> Ids \cup {None}]
  /\ stop      \in {"open", "closed", "listed"}
  /\ gcRuns    \in BOOLEAN

Init ==
  /\ pc        = [i \in Ids |-> "none"]
  /\ hostOf    = [i \in Ids |-> None]
  /\ sessions  = {}
  /\ allowed   = [h \in Hosts |-> 0]
  /\ idle      = [i \in Ids |-> FALSE]
  /\ container = [i \in Ids |-> "none"]
  /\ todo      = [w \in Workers |-> {}]
  /\ busy      = [w \in Workers |-> None]
  /\ stop      = "open"
  /\ gcRuns    = TRUE

-----------------------------------------------------------------------------
Goto(i, l) == pc' = [pc EXCEPT ![i] = l]

\* Mutation: the allowlist is a set, not a count.
AddSessionOnce(i) ==
  /\ sessions' = sessions \cup {i}
  /\ allowed' = [allowed EXCEPT ![hostOf[i]] = 1]

\* register(): the session and its host, in one critical section.
AddSession(i) ==
  /\ sessions' = sessions \cup {i}
  /\ allowed' = [allowed EXCEPT ![hostOf[i]] = @ + 1]

\* Mutation: Teardown does not look whether the session is still there.
DropSessionUnchecked(i) ==
  /\ sessions' = sessions \ {i}
  /\ allowed' = [allowed EXCEPT ![hostOf[i]] = IF @ > 0 THEN @ - 1 ELSE 0]

\* Mutation: the first session of a host to end closes the host.
DropSessionAndHost(i) ==
  /\ i \in sessions
  /\ sessions' = sessions \ {i}
  /\ allowed' = [allowed EXCEPT ![hostOf[i]] = 0]

\* The critical section of Teardown when it finds the session.
DropSession(i) ==
  /\ i \in sessions
  /\ sessions' = sessions \ {i}
  /\ allowed' = [allowed EXCEPT ![hostOf[i]] = IF @ > 0 THEN @ - 1 ELSE 0]

\* docker rm -f with a 10 s timeout; an error is only logged.
RemoveContainer(i) ==
  \/ container' = [container EXCEPT ![i] = IF @ = "up" THEN "gone" ELSE @]
  \/ "rm" \in Faults /\ UNCHANGED container

-----------------------------------------------------------------------------
(* Launch.                                                                 *)

Launch(i, h) ==
  /\ pc[i] = "none"
  /\ hostOf' = [hostOf EXCEPT ![i] = h]
  /\ Goto(i, "run")
  /\ UNCHANGED <<sessions, allowed, idle, container, todo, busy, stop, gcRuns>>

\* No host in the URL, or a browser the image table does not know.
LaunchRejected(i) ==
  /\ pc[i] = "none"
  /\ Goto(i, "failed")
  /\ UNCHANGED <<hostOf, sessions, allowed, idle, container, todo, busy, stop, gcRuns>>

DockerRun(i) ==
  /\ pc[i] = "run"
  /\ container' = [container EXCEPT ![i] = "up"]
  /\ Goto(i, "register")
  /\ UNCHANGED <<hostOf, sessions, allowed, idle, todo, busy, stop, gcRuns>>

\* docker run failed, or its 25 s context ended after the container was started.
DockerRunFails(i) ==
  /\ pc[i] = "run"
  /\ \/ UNCHANGED container
     \/ "run" \in Faults /\ container' = [container EXCEPT ![i] = "up"]
  /\ Goto(i, "failed")
  /\ UNCHANGED <<hostOf, sessions, allowed, idle, todo, busy, stop, gcRuns>>

Register(i) ==
  /\ pc[i] = "register"
  /\ AddSession(i)
  /\ Goto(i, "wait")
  /\ UNCHANGED <<hostOf, idle, container, todo, busy, stop, gcRuns>>

Ready(i) ==
  /\ pc[i] = "wait"
  /\ container[i] = "up"
  /\ Goto(i, "done")
  /\ UNCHANGED <<hostOf, sessions, allowed, idle, container, todo, busy, stop, gcRuns>>

\* ReadyTimeout passed or the caller's context was cancelled.
NotReady(i) ==
  /\ pc[i] = "wait"
  /\ Goto(i, "undo")
  /\ UNCHANGED <<hostOf, sessions, allowed, idle, container, todo, busy, stop, gcRuns>>

\* Teardown(id) by the failed launch; somebody else may have been faster.
Undo(i) ==
  /\ pc[i] = "undo"
  /\ \/ DropSession(i) /\ Goto(i, "rm")
     \/ i \notin sessions /\ Goto(i, "undone") /\ UNCHANGED <<sessions, allowed>>
  /\ UNCHANGED <<hostOf, idle, container, todo, busy, stop, gcRuns>>

\* Mutation: the failed launch leaves its container to nobody.
UndoRmForgotten(i) ==
  /\ pc[i] = "rm"
  /\ Goto(i, "undone")
  /\ UNCHANGED <<hostOf, sessions, allowed, idle, container, todo, busy, stop, gcRuns>>

UndoRm(i) ==
  /\ pc[i] = "rm"
  /\ RemoveContainer(i)
  /\ Goto(i, "undone")
  /\ UNCHANGED <<hostOf, sessions, allowed, idle, todo, busy, stop, gcRuns>>

-----------------------------------------------------------------------------
(* Touch, and the passage of time.                                         *)

Touch(i) ==
  /\ i \in sessions
  /\ idle' = [idle EXCEPT ![i] = FALSE]
  /\ UNCHANGED <<pc, hostOf, sessions, allowed, container, todo, busy, stop, gcRuns>>

IdlePasses(i) ==
  /\ i \in sessions
  /\ idle' = [idle EXCEPT ![i] = TRUE]
  /\ UNCHANGED <<pc, hostOf, sessions, allowed, container, todo, busy, stop, gcRuns>>

ContainerDies(i) ==
  /\ container[i] = "up"
  /\ container' = [container EXCEPT ![i] = "gone"]
  /\ UNCHANGED <<pc, hostOf, sessions, allowed, idle, todo, busy, stop, gcRuns>>

-----------------------------------------------------------------------------
(* The workers and the lists they tear down.                               *)

\* The client disconnects: its owner calls Teardown for a session it was given.
ClientLeaves(i) ==
  /\ pc[i] = "done"
  /\ i \notin todo["client"]
  /\ todo' = [todo EXCEPT !["client"] = @ \cup {i}]
  /\ UNCHANGED <<pc, hostOf, sessions, allowed, idle, container, busy, stop, gcRuns>>

\* Mutation: the idle comparison is the wrong way round.
GcScanInverted ==
  /\ gcRuns
  /\ todo["gc"] = {} /\ busy["gc"] = None
  /\ \E i \in sessions : ~idle[i]
  /\ todo' = [todo EXCEPT !["gc"] = {i \in sessions : ~idle[i]}]
  /\ UNCHANGED <<pc, hostOf, sessions, allowed, idle, container, busy, stop, gcRuns>>

\* One tick of gcLoop: note the idle sessions, then release m.mu.
GcScan ==
  /\ gcRuns
  /\ todo["gc"] = {} /\ busy["gc"] = None
  /\ \E i \in sessions : idle[i]
  /\ todo' = [todo EXCEPT !["gc"] = {i \in sessions : idle[i]}]
  /\ UNCHANGED <<pc, hostOf, sessions, allowed, idle, container, busy, stop, gcRuns>>

\* gcLoop sees the closed channel; a tick that is ready too may still win.
GcExit ==
  /\ gcRuns /\ stop # "open"
  /\ todo["gc"] = {} /\ busy["gc"] = None
  /\ gcRuns' = FALSE
  /\ UNCHANGED <<pc, hostOf, sessions, allowed, idle, container, todo, busy, stop>>

Shutdown ==
  /\ MayStop /\ stop = "open"
  /\ stop' = "closed"
  /\ UNCHANGED <<pc, hostOf, sessions, allowed, idle, container, todo, busy, gcRuns>>

ShutdownList ==
  /\ stop = "closed"
  /\ stop' = "listed"
  /\ todo' = [todo EXCEPT !["shutdown"] = sessions]
  /\ UNCHANGED <<pc, hostOf, sessions, allowed, idle, container, busy, gcRuns>>

\* Teardown(id) from a worker's list: the critical section ...
TeardownDrop(w, i) ==
  /\ busy[w] = None
  /\ i \in todo[w]
  /\ todo' = [todo EXCEPT ![w] = @ \ {i}]
  /\ \/ DropSession(i) /\ busy' = [busy EXCEPT ![w] = i]
     \/ i \notin sessions /\ UNCHANGED <<sessions, allowed, busy>>
  /\ UNCHANGED <<pc, hostOf, idle, container, stop, gcRuns>>

\* ... and then docker rm, without the lock.
TeardownRm(w) ==
  /\ busy[w] # None
  /\ RemoveContainer(busy[w])
  /\ busy' = [busy EXCEPT ![w] = None]
  /\ UNCHANGED <<pc, hostOf, sessions, allowed, idle, todo, stop, gcRuns>>

-----------------------------------------------------------------------------
LaunchStep(i) ==
  \/ DockerRun(i) \/ DockerRunFails(i) \/ Register(i)
  \/ Ready(i) \/ NotReady(i) \/ Undo(i) \/ UndoRm(i)

WorkerStep(w) == TeardownRm(w) \/ \E i \in Ids : TeardownDrop(w, i)

Next ==
  \/ \E i \in Ids :
       \/ LaunchRejected(i) \/ \E h \in Hosts : Launch(i, h)
       \/ LaunchStep(i)
       \/ Touch(i) \/ IdlePasses(i) \/ ContainerDies(i) \/ ClientLeaves(i)
  \/ GcScan \/ GcExit \/ Shutdown \/ ShutdownList
  \/ \E w \in Workers : WorkerStep(w)

Spec == Init /\ [][Next]_vars

\* Docker calls have timeouts, waitReady a deadline; goroutines and the ticker
\* are scheduled.  Touch, clients, Shutdown and container deaths may not happen.
Fairness ==
  /\ \A i \in Ids : WF_vars(LaunchStep(i))
  /\ \A w \in Workers : WF_vars(WorkerStep(w))
  /\ WF_vars(GcScan) /\ WF_vars(GcExit) /\ WF_vars(ShutdownList)

FairSpec == Spec /\ Fairness

-----------------------------------------------------------------------------
(* Properties.                                                             *)

\* The reference count of a host is the number of its sessions: two goroutines
\* that tear the same session down release its host once, and a host shared by
\* two sessions stays open until the second one ends.
AllowlistExact ==
  \A h \in Hosts : allowed[h] = Cardinality({i \in sessions : hostOf[i] = h})

\* The hosts IsEgressAllowed permits (it also permits their subdomains).
Permitted == {h \in Hosts : allowed[h] > 0}

Policy == INSTANCE EgressPolicy WITH
  open <- sessions, permitted <- Permitted,
  spent <- {i \in Ids : pc[i] \in Begun}

\* A host is permitted exactly while a session for it is open, and a session
\* that was torn down never opens again.
PolicySpec == Policy!Spec

BeingRemoved(i) == pc[i] = "rm" \/ \E w \in Workers : busy[w] = i

\* "Fail closed": a running container belongs to a registered session, is about
\* to be registered, or is being removed; in particular a Launch that returned
\* an error left nothing running.
NoHalfUpSession ==
  \A i \in Ids : container[i] = "up" =>
    i \in sessions \/ pc[i] = "register" \/ BeingRemoved(i)

\* At most one goroutine removes a given session's container.
RemovedOnce ==
  \A i \in Ids : BeingRemoved(i) =>
    /\ i \notin sessions
    /\ Cardinality({w \in Workers : busy[w] = i}) + (IF pc[i] = "rm" THEN 1 ELSE 0) = 1

\* A session that stays idle is taken out of the registry.
IdleReaped ==
  \A i \in Ids : (i \in sessions /\ idle[i]) ~> (i \notin sessions \/ ~idle[i])
=============================================================================
