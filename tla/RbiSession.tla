----------------------------- MODULE RbiSession -----------------------------
(***************************************************************************)
(* The per-session browser containers of the isolation proxy               *)
(* (gatesentryproxy/rbi_session.go, and the viewer WebSocket that holds a  *)
(* container alive, gatesentryproxy/websocket.go).                         *)
(*                                                                         *)
(* A request for an isolated host launches, or reuses, the one throwaway   *)
(* container of that host.  The viewer's WebSocket is counted on the       *)
(* session; when the last one closes a grace timer destroys the container. *)
(* A garbage collector reaps dead and idle sessions.  The actors are the   *)
(* request goroutines, the timer callbacks, the teardown goroutines, the   *)
(* collector and Docker; every access to the session map happens in one    *)
(* critical section of rbiMu and is one action here.                       *)
(*                                                                         *)
(* A session object is named by its sequence number (rbiSeq), 0 is nil.    *)
(***************************************************************************)
EXTENDS Naturals, FiniteSets

CONSTANTS Hosts,      \* isolated hosts, the keys of rbiSessionsByHost
          Reqs,       \* request goroutines of the proxy
          Ports,      \* ephemeral TCP ports of the machine
          None,       \* no host, no port, no lock owner
          MaxSeq,     \* bound: containers launched in one behaviour
          MaxLate,    \* bound: timer callbacks of one session waiting for rbiMu
          MaxViewers, \* bound: viewers counted on one session
          Graces,     \* rbiCloseGrace() = 0 ("instant"), > 0 ("delayed"): it is read each time
          PortReuse,  \* may the OS hand out a port an earlier session had?
          Faults      \* which of FaultKinds may happen

FaultKinds == {"run", "inspect", "rm", "restart"}

ASSUME ConstAssumption ==
  /\ MaxSeq \in Nat /\ MaxLate \in Nat /\ MaxViewers \in Nat
  /\ None \notin Hosts \cup Reqs \cup Ports
  /\ Graces \subseteq {"instant", "delayed"} /\ PortReuse \in BOOLEAN
  /\ Faults \subseteq FaultKinds

Sessions == 1..MaxSeq

VARIABLES
  launchMu,   \* rbiLaunchMu: which request holds the launch lock of a host
  pc,         \* where a request goroutine is
  host,       \* the host it asks for
  held,       \* the session it is launching, or was given
  attached,   \* did rbiViewerAttach return a session to its WebSocket?
  rbiSeq,
  byHost,     \* rbiSessionsByHost
  hostOf,     \* the host a session was launched for
  port,       \* rbiSession.tcpPort
  viewers,    \* rbiSession.viewers
  timer,      \* rbiSession.teardownTimer and what became of it
  late,       \* fired callbacks whose timer was stopped too late
  idle,       \* now - lastActive > rbiIdleTTL()
  container,  \* Docker's view of the session's container
  tearing,    \* sessions whose rbiTeardown goroutine is running
  gcDead,     \* sessions the collector removed and has yet to tear down
  gcOn        \* has rbiStartGC run?

reqVars  == <<launchMu, pc, host, held, attached>>
sessVars == <<hostOf, port, viewers, timer, late, idle>>
tdVars   == <<tearing, gcDead, gcOn>>
vars     == <<reqVars, rbiSeq, byHost, sessVars, container, tdVars>>

\* From taking the host's launch lock to releasing it.
Fresh == {"alloc", "run", "wait", "undo", "register"}
Launching == {"check"} \cup Fresh
Phases == {"idle", "lock", "got", "viewing"} \cup Launching

TypeOK ==
  /\ launchMu  \in [Hosts -> Reqs \cup {None}]
  /\ pc        \in [Reqs -> Phases]
  /\ host      \in [Reqs -> Hosts \cup {None}]
  /\ held      \in [Reqs -> 0..MaxSeq]
  /\ attached  \in [Reqs -> BOOLEAN]
  /\ rbiSeq    \in 0..MaxSeq
  /\ byHost    \in [Hosts -> 0..MaxSeq]
  /\ hostOf    \in [Sessions -> Hosts \cup {None}]
  /\ port      \in [Sessions -> Ports \cup {None}]
  /\ viewers   \in [Sessions -> Nat]
  /\ timer     \in [Sessions -> {"nil", "armed", "fired", "done"}]
  /\ late      \in [Sessions -> Nat]
  /\ idle      \in [Sessions -> BOOLEAN]
  /\ container \in [Sessions -> {"none", "up", "gone"}]
  /\ tearing   \subseteq Sessions
  /\ gcDead    \subseteq Sessions
  /\ gcOn      \in BOOLEAN

Init ==
  /\ launchMu  = [h \in Hosts |-> None]
  /\ pc        = [r \in Reqs |-> "idle"]
  /\ host      = [r \in Reqs |-> None]
  /\ held      = [r \in Reqs |-> 0]
  /\ attached  = [r \in Reqs |-> FALSE]
  /\ rbiSeq    = 0
  /\ byHost    = [h \in Hosts |-> 0]
  /\ hostOf    = [s \in Sessions |-> None]
  /\ port      = [s \in Sessions |-> None]
  /\ viewers   = [s \in Sessions |-> 0]
  /\ timer     = [s \in Sessions |-> "nil"]
  /\ late      = [s \in Sessions |-> 0]
  /\ idle      = [s \in Sessions |-> FALSE]
  /\ container = [s \in Sessions |-> "none"]
  /\ tearing   = {}
  /\ gcDead    = {}
  /\ gcOn      = FALSE

-----------------------------------------------------------------------------
(* Helpers.                                                                *)

Registered(s) == \E h \in Hosts : byHost[h] = s

\* The sessions a lookup by port may return: the code walks the map in Go's
\* random order and takes the first hit.
OnPort(p) == {s \in Sessions : Registered(s) /\ port[s] = p}

PortBusy(p) == \E s \in Sessions : container[s] = "up" /\ port[s] = p

\* What docker inspect answers: an error counts as "not running".
MayLookDown(s) == container[s] # "up" \/ "inspect" \in Faults

\* s.teardownTimer.Stop(): a callback that has fired is not stopped by it.
StopTimer(s) ==
  late' = IF timer[s] = "fired" THEN [late EXCEPT ![s] = @ + 1] ELSE late

\* docker rm -f, with its 10 s timeout; the result is only logged.
RemoveContainer(s) ==
  \/ container' = [container EXCEPT ![s] = IF @ = "up" THEN "gone" ELSE @]
  \/ "rm" \in Faults /\ UNCHANGED container

\* Mutation: an error path that forgets the launch lock.
ReleaseLaunchForgotten(r) == launchMu' = launchMu

\* rbiLaunchSession returns: the deferred lm.Unlock().
ReleaseLaunch(r) == launchMu' = [launchMu EXCEPT ![host[r]] = None]

\* ... with an error: the client gets a 502 and the goroutine ends.
LaunchError(r) ==
  /\ ReleaseLaunch(r)
  /\ pc' = [pc EXCEPT ![r] = "idle"]
  /\ host' = [host EXCEPT ![r] = None]
  /\ held' = [held EXCEPT ![r] = 0]
  /\ UNCHANGED attached

Goto(r, l) == pc' = [pc EXCEPT ![r] = l]

-----------------------------------------------------------------------------
(* rbiLaunchSession, one action per critical section or Docker call.       *)

\* A request for isolated host h reaches the PROXY-FORWARD block of ServeHTTP.
Arrive(r, h) ==
  /\ pc[r] = "idle"
  /\ Goto(r, "lock")
  /\ host' = [host EXCEPT ![r] = h]
  /\ UNCHANGED <<launchMu, held, attached, rbiSeq, byHost, sessVars, container, tdVars>>

\* Mutation: no lock around check and launch.
TakeLaunchLockUnheld(r) ==
  /\ pc[r] = "lock"
  /\ launchMu' = [launchMu EXCEPT ![host[r]] = r]
  /\ Goto(r, "check")
  /\ UNCHANGED <<host, held, attached, rbiSeq, byHost, sessVars, container, tdVars>>

TakeLaunchLock(r) ==
  /\ pc[r] = "lock"
  /\ launchMu[host[r]] = None
  /\ launchMu' = [launchMu EXCEPT ![host[r]] = r]
  /\ Goto(r, "check")
  /\ UNCHANGED <<host, held, attached, rbiSeq, byHost, sessVars, container, tdVars>>

\* The host's container runs: cancel its pending teardown and return it.
Reuse(r) ==
  LET s == byHost[host[r]] IN
  /\ pc[r] = "check"
  /\ s # 0
  /\ container[s] = "up"
  /\ StopTimer(s)
  /\ timer' = [timer EXCEPT ![s] = "nil"]
  /\ idle' = [idle EXCEPT ![s] = FALSE]
  /\ held' = [held EXCEPT ![r] = s]
  /\ Goto(r, "got")
  /\ ReleaseLaunch(r)
  /\ UNCHANGED <<host, attached, rbiSeq, byHost, hostOf, port, viewers, container, tdVars>>

\* No session for the host, or docker inspect does not say it is running.
NextSeq(r) ==
  LET s == byHost[host[r]] IN
  /\ pc[r] = "check"
  /\ s # 0 => MayLookDown(s)
  /\ rbiSeq < MaxSeq
  /\ rbiSeq' = rbiSeq + 1
  /\ held' = [held EXCEPT ![r] = rbiSeq + 1]
  /\ hostOf' = [hostOf EXCEPT ![rbiSeq + 1] = host[r]]
  /\ Goto(r, "alloc")
  /\ UNCHANGED <<launchMu, host, attached, byHost, port, viewers, timer, late, idle,
                 container, tdVars>>

\* Bound: past MaxSeq launches the machine is out of ports and a launch fails.
LastSeq(r) ==
  LET s == byHost[host[r]] IN
  /\ pc[r] = "check"
  /\ s # 0 => MayLookDown(s)
  /\ rbiSeq = MaxSeq
  /\ LaunchError(r)
  /\ UNCHANGED <<rbiSeq, byHost, sessVars, container, tdVars>>

\* rbiFreeTCPPort: listen on port 0, note the port, close.  Nothing reserves it.
AllocPort(r, p) ==
  /\ pc[r] = "alloc"
  /\ ~PortBusy(p)
  /\ PortReuse \/ \A s \in Sessions : port[s] # p
  /\ port' = [port EXCEPT ![held[r]] = p]
  /\ Goto(r, "run")
  /\ UNCHANGED <<launchMu, host, held, attached, rbiSeq, byHost, hostOf, viewers, timer,
                 late, idle, container, tdVars>>

AllocFails(r) ==
  /\ pc[r] = "alloc"
  /\ LaunchError(r)
  /\ UNCHANGED <<rbiSeq, byHost, sessVars, container, tdVars>>

\* docker run -d succeeds; publishing a port needs it to be free still.
DockerRun(r) ==
  /\ pc[r] = "run"
  /\ ~PortBusy(port[held[r]])
  /\ container' = [container EXCEPT ![held[r]] = "up"]
  /\ Goto(r, "wait")
  /\ UNCHANGED <<launchMu, host, held, attached, rbiSeq, byHost, sessVars, tdVars>>

DockerRunFails(r) ==
  /\ pc[r] = "run"
  /\ LaunchError(r)
  /\ UNCHANGED <<rbiSeq, byHost, sessVars, container, tdVars>>

\* The 30 s context kills the docker CLI after the daemon started the container.
DockerRunTimesOut(r) ==
  /\ pc[r] = "run"
  /\ "run" \in Faults
  /\ ~PortBusy(port[held[r]])
  /\ container' = [container EXCEPT ![held[r]] = "up"]
  /\ LaunchError(r)
  /\ UNCHANGED <<rbiSeq, byHost, sessVars, tdVars>>

\* rbiWaitReady polls the published port, whoever answers there.
Ready(r) ==
  /\ pc[r] = "wait"
  /\ PortBusy(port[held[r]])
  /\ Goto(r, "register")
  /\ UNCHANGED <<launchMu, host, held, attached, rbiSeq, byHost, sessVars, container, tdVars>>

NotReady(r) ==
  /\ pc[r] = "wait"
  /\ Goto(r, "undo")
  /\ UNCHANGED <<launchMu, host, held, attached, rbiSeq, byHost, sessVars, container, tdVars>>

\* Mutation: a container that never answered is not removed.
UndoNothing(r) ==
  /\ pc[r] = "undo"
  /\ LaunchError(r)
  /\ UNCHANGED <<rbiSeq, byHost, sessVars, container, tdVars>>

\* rbiTeardown of the half-up container, then the error is returned.
Undo(r) ==
  /\ pc[r] = "undo"
  /\ RemoveContainer(held[r])
  /\ LaunchError(r)
  /\ UNCHANGED <<rbiSeq, byHost, sessVars, tdVars>>

\* Mutation: the collector is not started.
RegisterNoGc(r) ==
  /\ pc[r] = "register"
  /\ byHost' = [byHost EXCEPT ![host[r]] = held[r]]
  /\ Goto(r, "got")
  /\ ReleaseLaunch(r)
  /\ UNCHANGED <<host, held, attached, rbiSeq, sessVars, container, tdVars>>

\* rbiTuneContainer's docker exec calls, whose results are ignored; then the session
\* enters the map, over whatever entry the host had, and the collector is started.
Register(r) ==
  /\ pc[r] = "register"
  /\ byHost' = [byHost EXCEPT ![host[r]] = held[r]]
  /\ gcOn' = TRUE
  /\ Goto(r, "got")
  /\ ReleaseLaunch(r)
  /\ UNCHANGED <<host, held, attached, rbiSeq, sessVars, container, tearing, gcDead>>

-----------------------------------------------------------------------------
(* The request goes on with the session: plain HTTP, or the viewer's       *)
(* WebSocket (HandleWebsocketConnection).                                  *)

\* The goroutine ends and its name may serve another request.
EndRequest(r) ==
  /\ Goto(r, "idle")
  /\ host' = [host EXCEPT ![r] = None]
  /\ held' = [held EXCEPT ![r] = 0]
  /\ attached' = [attached EXCEPT ![r] = FALSE]
  /\ UNCHANGED launchMu

ServeHttp(r) ==
  /\ pc[r] = "got"
  /\ EndRequest(r)
  /\ UNCHANGED <<rbiSeq, byHost, sessVars, container, tdVars>>

\* rbiViewerAttach: the first map entry with this port gets the viewer.
ViewerAttach(r) ==
  /\ pc[r] = "got"
  /\ Goto(r, "viewing")
  /\ LET found == OnPort(port[held[r]]) IN
     \/ /\ found = {}
        /\ UNCHANGED <<attached, sessVars>>
     \/ \E s \in found :
          /\ viewers[s] < MaxViewers
          /\ StopTimer(s)
          /\ timer' = [timer EXCEPT ![s] = "nil"]
          /\ viewers' = [viewers EXCEPT ![s] = @ + 1]
          /\ idle' = [idle EXCEPT ![s] = FALSE]
          /\ attached' = [attached EXCEPT ![r] = TRUE]
          /\ UNCHANGED <<hostOf, port>>
  /\ UNCHANGED <<launchMu, host, held, rbiSeq, byHost, container, tdVars>>

\* The last viewer of s has gone: instant teardown, or (re)arm the grace timer.
LastViewerLeft(s) ==
  \/ /\ "instant" \in Graces
     /\ byHost' = [h \in Hosts |-> IF byHost[h] = s THEN 0 ELSE byHost[h]]
     /\ tearing' = tearing \cup {s}
     /\ UNCHANGED <<timer, late>>
  \/ /\ "delayed" \in Graces
     /\ StopTimer(s)
     /\ timer' = [timer EXCEPT ![s] = "armed"]
     /\ UNCHANGED <<byHost, tearing>>

\* Mutation: every detach is taken for the last one.
ViewerDetachAlwaysLast(p) ==
  \/ /\ OnPort(p) = {}
     /\ UNCHANGED <<byHost, viewers, timer, late, tearing>>
  \/ \E s \in OnPort(p) :
       /\ viewers' = [viewers EXCEPT ![s] = IF @ > 0 THEN @ - 1 ELSE 0]
       /\ LastViewerLeft(s)

\* rbiViewerDetach(port)
ViewerDetach(p) ==
  \/ /\ OnPort(p) = {}
     /\ UNCHANGED <<byHost, viewers, timer, late, tearing>>
  \/ \E s \in OnPort(p) :
       /\ viewers' = [viewers EXCEPT ![s] = IF @ > 0 THEN @ - 1 ELSE 0]
       /\ IF viewers[s] > 1 THEN UNCHANGED <<byHost, timer, late, tearing>>
                            ELSE LastViewerLeft(s)

\* The tab closes, the backend cannot be dialled, or either side's read fails:
\* HandleWebsocketConnection returns and runs its deferred detach.
ViewerClose(r) ==
  /\ pc[r] = "viewing"
  /\ EndRequest(r)
  /\ IF attached[r] THEN ViewerDetach(port[held[r]])
                    ELSE UNCHANGED <<byHost, viewers, timer, late, tearing>>
  /\ UNCHANGED <<rbiSeq, hostOf, port, idle, container, gcDead, gcOn>>

-----------------------------------------------------------------------------
(* Grace timers.  A callback first waits for rbiMu: firing and running are *)
(* two steps, and a Stop in between has no effect.                         *)

TimerFires(s) ==
  /\ timer[s] = "armed"
  /\ late[s] < MaxLate
  /\ timer' = [timer EXCEPT ![s] = "fired"]
  /\ UNCHANGED <<reqVars, rbiSeq, byHost, hostOf, port, viewers, late, idle, container, tdVars>>

\* Mutation: the callback tears down but leaves the map entry.
GraceExpiredKeepsEntry(s) ==
  \E h \in Hosts :
    /\ h = hostOf[s]
    /\ tearing' = IF byHost[h] = s /\ viewers[s] = 0 THEN tearing \cup {s} ELSE tearing
    /\ UNCHANGED byHost

\* Mutation: the callback does not look for a viewer that came back.
GraceExpiredBlind(s) ==
  \E h \in Hosts :
    /\ h = hostOf[s]
    /\ IF byHost[h] = s
       THEN /\ byHost' = [byHost EXCEPT ![h] = 0]
            /\ tearing' = tearing \cup {s}
       ELSE UNCHANGED <<byHost, tearing>>

\* The callback, closed over the host and the session: bail out if the session
\* was replaced or has a viewer again.
GraceExpired(s) ==
  \E h \in Hosts :
    /\ h = hostOf[s]
    /\ IF byHost[h] = s /\ viewers[s] = 0
       THEN /\ byHost' = [byHost EXCEPT ![h] = 0]
            /\ tearing' = tearing \cup {s}
       ELSE UNCHANGED <<byHost, tearing>>

TimerCallback(s) ==
  /\ timer[s] = "fired"
  /\ timer' = [timer EXCEPT ![s] = "done"]
  /\ GraceExpired(s)
  /\ UNCHANGED <<reqVars, rbiSeq, hostOf, port, viewers, late, idle, container, gcDead, gcOn>>

LateCallback(s) ==
  /\ late[s] > 0
  /\ late' = [late EXCEPT ![s] = @ - 1]
  /\ GraceExpired(s)
  /\ UNCHANGED <<reqVars, rbiSeq, hostOf, port, viewers, timer, idle, container, gcDead, gcOn>>

\* rbiTeardown(name), in the timer's or in its own goroutine.
Teardown(s) ==
  /\ s \in tearing
  /\ tearing' = tearing \ {s}
  /\ RemoveContainer(s)
  /\ UNCHANGED <<reqVars, rbiSeq, byHost, sessVars, gcDead, gcOn>>

-----------------------------------------------------------------------------
(* The garbage collector of rbiStartGC.                                    *)

\* Mutation: idle sessions are reaped under their viewers.
ReapableWatched(unseen) ==
  {s \in Sessions : Registered(s) /\ (container[s] # "up" \/ s \in unseen \/ idle[s])}

\* What one sweep removes when inspect wrongly says "down" of the set unseen.
Reapable(unseen) ==
  {s \in Sessions :
     /\ Registered(s)
     /\ \/ container[s] # "up"
        \/ s \in unseen
        \/ viewers[s] = 0 /\ idle[s]}

\* Every 30 s, in one critical section; the previous round must be over.
GcSweep(unseen) ==
  /\ gcOn
  /\ gcDead = {}
  /\ unseen # {} => "inspect" \in Faults
  /\ Reapable(unseen) # {}
  /\ gcDead' = Reapable(unseen)
  /\ byHost' = [h \in Hosts |-> IF byHost[h] \in Reapable(unseen) THEN 0 ELSE byHost[h]]
  /\ timer' = [s \in Sessions |->
                 IF s \in Reapable(unseen) /\ timer[s] = "armed" THEN "done" ELSE timer[s]]
  /\ UNCHANGED <<reqVars, rbiSeq, hostOf, port, viewers, late, idle, container, tearing, gcOn>>

GcTeardown(s) ==
  /\ s \in gcDead
  /\ gcDead' = gcDead \ {s}
  /\ RemoveContainer(s)
  /\ UNCHANGED <<reqVars, rbiSeq, byHost, sessVars, tearing, gcOn>>

-----------------------------------------------------------------------------
(* The environment.                                                        *)

\* lastActive grows older than rbiIdleTTL().
IdlePasses(s) ==
  /\ Registered(s)
  /\ ~idle[s]
  /\ idle' = [idle EXCEPT ![s] = TRUE]
  /\ UNCHANGED <<reqVars, rbiSeq, byHost, hostOf, port, viewers, timer, late, container, tdVars>>

\* The container stops by itself; --rm removes it.
ContainerDies(s) ==
  /\ container[s] = "up"
  /\ container' = [container EXCEPT ![s] = "gone"]
  /\ UNCHANGED <<reqVars, rbiSeq, byHost, sessVars, tdVars>>

\* The proxy process dies and starts again: everything but Docker's state is
\* lost.  rbiSeq really restarts at 0, but a container's name also carries the
\* clock, so the names, which the numbers stand for, stay distinct.
ProxyRestart ==
  /\ "restart" \in Faults
  /\ launchMu' = [h \in Hosts |-> None]
  /\ pc'       = [r \in Reqs |-> "idle"]
  /\ host'     = [r \in Reqs |-> None]
  /\ held'     = [r \in Reqs |-> 0]
  /\ attached' = [r \in Reqs |-> FALSE]
  /\ byHost'   = [h \in Hosts |-> 0]
  /\ viewers'  = [s \in Sessions |-> 0]
  /\ timer'    = [s \in Sessions |-> "nil"]
  /\ late'     = [s \in Sessions |-> 0]
  /\ idle'     = [s \in Sessions |-> FALSE]
  /\ tearing'  = {}
  /\ gcDead'   = {}
  /\ gcOn'     = FALSE
  /\ UNCHANGED <<rbiSeq, hostOf, port, container>>

-----------------------------------------------------------------------------
LaunchStep(r) ==
  \/ TakeLaunchLock(r)
  \/ Reuse(r) \/ NextSeq(r) \/ LastSeq(r)
  \/ (\E p \in Ports : AllocPort(r, p)) \/ AllocFails(r)
  \/ DockerRun(r) \/ DockerRunFails(r) \/ DockerRunTimesOut(r)
  \/ Ready(r) \/ NotReady(r) \/ Undo(r)
  \/ Register(r)

SessionStep(s) ==
  \/ TimerFires(s) \/ TimerCallback(s) \/ LateCallback(s)
  \/ Teardown(s) \/ GcTeardown(s)

Next ==
  \/ \E r \in Reqs :
       \/ \E h \in Hosts : Arrive(r, h)
       \/ LaunchStep(r)
       \/ ServeHttp(r) \/ ViewerAttach(r) \/ ViewerClose(r)
  \/ \E s \in Sessions : SessionStep(s) \/ IdlePasses(s) \/ ContainerDies(s)
  \/ \E unseen \in SUBSET Sessions : GcSweep(unseen)
  \/ ProxyRestart

Spec == Init /\ [][Next]_vars

(***************************************************************************)
(* Fairness.  sync.Mutex hands a lock over in FIFO order once a waiter     *)
(* starves, hence SF for the launch lock; docker run, docker rm and the    *)
(* readiness poll carry timeouts; timers, goroutines and the collector are *)
(* run by the Go scheduler; a viewer's read fails once its container is    *)
(* gone.  Clients and container deaths are not assumed to happen, and a    *)
(* docker inspect or docker exec of a launch, which have no timeout, is    *)
(* not assumed to return (Untimed).  The collector's inspect is.           *)
(***************************************************************************)
Untimed(r) == pc[r] = "register" \/ (pc[r] = "check" /\ byHost[host[r]] # 0)

BackendGone(r) == pc[r] = "viewing" /\ container[held[r]] # "up" /\ ViewerClose(r)

Fairness ==
  /\ \A r \in Reqs :
       /\ SF_vars(TakeLaunchLock(r))
       /\ WF_vars(~Untimed(r) /\ LaunchStep(r))
       /\ WF_vars(ServeHttp(r) \/ ViewerAttach(r))
       /\ WF_vars(BackendGone(r))
  /\ \A s \in Sessions :
       /\ WF_vars(TimerFires(s))
       /\ WF_vars(TimerCallback(s))
       /\ WF_vars(LateCallback(s))
       /\ WF_vars(Teardown(s))
       /\ WF_vars(GcTeardown(s))
       /\ WF_vars(IdlePasses(s))
  /\ WF_vars(\E unseen \in SUBSET Sessions : GcSweep(unseen))

FairSpec == Spec /\ Fairness

-----------------------------------------------------------------------------
(* Properties.                                                             *)

Doomed == tearing \cup gcDead

\* A session whose container is about to be removed by a teardown goroutine or
\* by the collector is out of rbiSessionsByHost for good, so rbiLaunchSession
\* cannot hand it to a request: whoever decides to tear down deletes the map
\* entry in the same critical section, whatever Docker or the clients do.
DoomedNeverServed == \A s \in Doomed : ~Registered(s)

\* A pending grace timer means that nobody is counted as watching: attach stops
\* it, and only the detach of the last counted viewer arms it.
ArmedMeansEmpty == \A s \in Sessions : timer[s] = "armed" => viewers[s] = 0

\* A request that holds s between launching it and entering it in the map.
BeingLaunched(s) ==
  \E r \in Reqs : held[r] = s /\ pc[r] \in {"wait", "register", "undo"}

\* No orphan: a running container is reachable from the session map, or a
\* goroutine that will register or remove it is under way.  This is what lets
\* the collector and the viewers' teardown find every container.
NoOrphan ==
  \A s \in Sessions :
    container[s] = "up" =>
      Registered(s) \/ s \in Doomed \/ BeingLaunched(s)

\* The promise of rbiLaunchMu: the launches for one host never leave two
\* containers running for it, other than one that is being torn down.
OneContainerPerHost ==
  \A s, t \in Sessions :
    /\ container[s] = "up" /\ container[t] = "up"
    /\ s \notin Doomed /\ t \notin Doomed
    /\ hostOf[s] = hostOf[t]
    => s = t

Watched(s) == \E r \in Reqs : pc[r] = "viewing" /\ attached[r] /\ held[r] = s

\* No step takes a running session out of the map while a viewer stays attached:
\* neither a grace timer, nor another viewer's detach, nor the collector pulls
\* the container of an open tab.
WatchedNeverReaped ==
  [][\A s \in Sessions :
       Registered(s) /\ ~(Registered(s))' /\ container[s] = "up" => ~(Watched(s))']_vars

\* A grace timer that rbiLaunchSession or rbiViewerAttach has stopped no longer
\* takes the session out of the map.
StoppedTimerNeverKills ==
  [][\A s \in Sessions : late'[s] < late[s] => byHost' = byHost]_vars

\* A docker call without a timeout never returns: the inspect of some launch, which
\* holds rbiMu, or an exec of a launch for host h, which holds the host's lock.
DockerHangs(h) ==
  \E q \in Reqs : <>[](pc[q] = "check") \/ <>[](pc[q] = "register" /\ host[q] = h)

\* Every request for an isolated host gets a session or an error: no launch waits for
\* ever for the host's lock, whoever launches, fails or hangs before it, unless a docker
\* exec for the same host or a docker inspect under rbiMu never returns.  A hung exec
\* for one host does not hold up the launches of another.
LaunchReturns ==
  \A r \in Reqs, h \in Hosts :
    DockerHangs(h) \/ ((pc[r] = "lock" /\ host[r] = h) ~> pc[r] \in {"got", "idle"})

\* Once all requests and viewers are gone for good, no container keeps running:
\* the grace timers and the collector together leave nothing behind.
NothingLingers ==
  <>[](\A r \in Reqs : pc[r] = "idle") => <>[](\A s \in Sessions : container[s] # "up")
=============================================================================
