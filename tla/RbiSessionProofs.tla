-------------------------- MODULE RbiSessionProofs --------------------------
(* Proofs about RbiSession, for any hosts, requests, ports and bounds. *)
EXTENDS RbiSession, FiniteSetTheorems, TLAPS

-----------------------------------------------------------------------------
(* Inductive invariants behind the proofs.                                 *)

\* Session numbers in use have been handed out by rbiSeq.
Numbered ==
  /\ \A h \in Hosts : byHost[h] <= rbiSeq
  /\ \A s \in Doomed : s <= rbiSeq

\* A map entry is the session of the host it is filed under.
FiledUnderHost == \A h \in Hosts : byHost[h] # 0 => hostOf[byHost[h]] = h

\* A session under construction belongs to one request only and is not yet
\* known to the map, to a teardown or to the collector.
PrivateUntilRegistered ==
  /\ \A r \in Reqs : pc[r] \in Fresh =>
       /\ held[r] \in 1..rbiSeq
       /\ host[r] \in Hosts
       /\ hostOf[held[r]] = host[r]
       /\ ~Registered(held[r])
       /\ held[r] \notin Doomed
  /\ \A q, r \in Reqs :
       pc[q] \in Fresh /\ pc[r] \in Fresh /\ held[q] = held[r] => q = r

HostKnown == \A r \in Reqs : pc[r] # "idle" => host[r] \in Hosts

MapInv ==
  /\ TypeOK
  /\ HostKnown
  /\ Numbered
  /\ FiledUnderHost
  /\ PrivateUntilRegistered
  /\ DoomedNeverServed

\* The launch lock of a host is held by whoever is launching for it.
LockHeld ==
  \A r \in Reqs : pc[r] \in Launching => launchMu[host[r]] = r

\* No container exists before docker run.
NotBeforeRun ==
  /\ \A s \in Sessions : s > rbiSeq => container[s] = "none"
  /\ \A r \in Reqs : pc[r] \in {"alloc", "run"} => container[held[r]] = "none"

\* While a host's container is being replaced, the one in the map is down.
ReplacesDeadOnly ==
  \A r \in Reqs : pc[r] \in Fresh /\ byHost[host[r]] # 0 =>
    container[byHost[host[r]]] # "up"

ContainerInv ==
  /\ MapInv
  /\ LockHeld
  /\ NotBeforeRun
  /\ ReplacesDeadOnly
  /\ NoOrphan

-----------------------------------------------------------------------------
(* Type correctness.                                                       *)

\* The phase sets the proofs below keep folded.
LEMMA Labels ==
  /\ \A l \in {"idle", "lock", "check", "alloc", "run", "wait", "undo",
               "register", "got", "viewing"} : l \in Phases
  /\ 0 \in 0..MaxSeq
  /\ Sessions \subseteq 0..MaxSeq
BY ConstAssumption DEF Phases, Launching, Fresh, Sessions

\* A request that is not idle knows its host.
LEMMA HostKnownStep == TypeOK /\ HostKnown /\ [Next]_vars => HostKnown'
<1> SUFFICES ASSUME TypeOK, HostKnown, [Next]_vars PROVE HostKnown'
  OBVIOUS
<1>1. CASE UNCHANGED <<pc, host>>
  BY <1>1 DEF HostKnown
<1>2. ASSUME NEW r \in Reqs, NEW h \in Hosts, Arrive(r, h) PROVE HostKnown'
  BY <1>2 DEF Arrive, Goto, HostKnown, TypeOK
<1>3. ASSUME NEW r \in Reqs, pc[r] # "idle", UNCHANGED host,
             \E l \in Phases : Goto(r, l)
      PROVE  HostKnown'
  BY <1>3 DEF Goto, HostKnown, TypeOK
<1>4. ASSUME NEW r \in Reqs, Goto(r, "idle"), host' = [host EXCEPT ![r] = None]
      PROVE  HostKnown'
  BY <1>4 DEF Goto, HostKnown, TypeOK
<1>5. ASSUME NEW r \in Reqs, LaunchError(r) PROVE HostKnown'
  BY <1>5, <1>4 DEF LaunchError, Goto
<1>6. ASSUME NEW r \in Reqs, LaunchStep(r) PROVE HostKnown'
  <2>1. CASE TakeLaunchLock(r) \/ Ready(r) \/ NotReady(r) \/ Register(r)
             \/ Reuse(r) \/ NextSeq(r) \/ DockerRun(r) \/ \E p \in Ports : AllocPort(r, p)
    BY <2>1, <1>3, Labels DEF TakeLaunchLock, Ready, NotReady, Register, Reuse, NextSeq,
                              DockerRun, AllocPort
  <2>2. CASE LastSeq(r) \/ AllocFails(r) \/ DockerRunFails(r) \/ DockerRunTimesOut(r) \/ Undo(r)
    BY <2>2, <1>5 DEF LastSeq, AllocFails, DockerRunFails, DockerRunTimesOut, Undo
  <2>3. QED
    BY <1>6, <2>1, <2>2 DEF LaunchStep
<1>7. ASSUME NEW r \in Reqs, ServeHttp(r) \/ ViewerClose(r) PROVE HostKnown'
  BY <1>7, <1>4 DEF ServeHttp, ViewerClose, EndRequest
<1>8. ASSUME NEW r \in Reqs, ViewerAttach(r) PROVE HostKnown'
  BY <1>8, <1>3, Labels DEF ViewerAttach
<1>9. ASSUME NEW s \in Sessions, SessionStep(s) \/ IdlePasses(s) \/ ContainerDies(s)
      PROVE  HostKnown'
  BY <1>9, <1>1 DEF SessionStep, TimerFires, TimerCallback, LateCallback, Teardown,
                    GcTeardown, IdlePasses, ContainerDies, reqVars
<1>10. ASSUME NEW unseen \in SUBSET Sessions, GcSweep(unseen) PROVE HostKnown'
  BY <1>10, <1>1 DEF GcSweep, reqVars
<1>11. ASSUME ProxyRestart PROVE HostKnown'
  BY <1>11 DEF ProxyRestart, HostKnown
<1>12. QED
  BY <1>1, <1>2, <1>6, <1>7, <1>8, <1>9, <1>10, <1>11 DEF Next, vars, reqVars

\* Types, together with what is needed to make them inductive.
LEMMA Typing == Spec => [](TypeOK /\ HostKnown)
<1> USE Labels DEF reqVars, sessVars, tdVars
<1>1. Init => TypeOK
  <2> SUFFICES ASSUME Init PROVE TypeOK
    OBVIOUS
  <2>1. attached \in [Reqs -> BOOLEAN] /\ idle \in [Sessions -> BOOLEAN] /\ gcOn \in BOOLEAN
    BY DEF Init
  <2>2. held \in [Reqs -> 0..MaxSeq] /\ byHost \in [Hosts -> 0..MaxSeq] /\ rbiSeq \in 0..MaxSeq
    BY DEF Init
  <2>3. viewers \in [Sessions -> Nat] /\ late \in [Sessions -> Nat]
    BY DEF Init
  <2>4. QED
    BY <2>1, <2>2, <2>3 DEF Init, TypeOK
<1>2. TypeOK /\ HostKnown /\ [Next]_vars => TypeOK'
  <2> SUFFICES ASSUME TypeOK, HostKnown, [Next]_vars PROVE TypeOK'
    OBVIOUS
  <2> USE DEF TypeOK
  <2>1. CASE UNCHANGED vars
    BY <2>1 DEF vars
  <2>2. ASSUME NEW r \in Reqs, NEW h \in Hosts, Arrive(r, h) PROVE TypeOK'
    BY <2>2 DEF Arrive, Goto
  <2>3. ASSUME NEW r \in Reqs, TakeLaunchLock(r) PROVE TypeOK'
    BY <2>3 DEF TakeLaunchLock, Goto, LaunchError, ReleaseLaunch
  <2>4. ASSUME NEW r \in Reqs, Reuse(r) PROVE TypeOK'
    <3> DEFINE s == byHost[host[r]]
    <3>0. s \in Sessions
      BY <2>4, ConstAssumption DEF Reuse, HostKnown, Sessions
    <3>1. late' \in [Sessions -> Nat]
      <4>1. StopTimer(s)
        BY <2>4 DEF Reuse
      <4> HIDE DEF s
      <4>2. QED
        BY <3>0, <4>1 DEF StopTimer
    <3>2. launchMu' \in [Hosts -> Reqs \cup {None}] /\ held' \in [Reqs -> 0..MaxSeq]
      BY <3>0, <2>4 DEF Reuse, ReleaseLaunch
    <3>3. QED
      BY <3>1, <3>2, <2>4 DEF Reuse, Goto
  <2>5. ASSUME NEW r \in Reqs, NextSeq(r) PROVE TypeOK'
    BY <2>5, ConstAssumption DEF NextSeq, Goto, Sessions
  <2>6. ASSUME NEW r \in Reqs, LastSeq(r) PROVE TypeOK'
    BY <2>6 DEF LastSeq, Goto, LaunchError, ReleaseLaunch
  <2>7. ASSUME NEW r \in Reqs, NEW p \in Ports, AllocPort(r, p) PROVE TypeOK'
    BY <2>7 DEF AllocPort, Goto, LaunchError, ReleaseLaunch
  <2>8. ASSUME NEW r \in Reqs, AllocFails(r) PROVE TypeOK'
    BY <2>8 DEF AllocFails, Goto, LaunchError, ReleaseLaunch
  <2>9. ASSUME NEW r \in Reqs, DockerRun(r) PROVE TypeOK'
    BY <2>9 DEF DockerRun, Goto, LaunchError, ReleaseLaunch
  <2>10. ASSUME NEW r \in Reqs, DockerRunFails(r) PROVE TypeOK'
    BY <2>10 DEF DockerRunFails, Goto, LaunchError, ReleaseLaunch
  <2>11. ASSUME NEW r \in Reqs, DockerRunTimesOut(r) PROVE TypeOK'
    BY <2>11 DEF DockerRunTimesOut, Goto, LaunchError, ReleaseLaunch
  <2>12. ASSUME NEW r \in Reqs, Ready(r) PROVE TypeOK'
    BY <2>12 DEF Ready, Goto, LaunchError, ReleaseLaunch
  <2>13. ASSUME NEW r \in Reqs, NotReady(r) PROVE TypeOK'
    BY <2>13 DEF NotReady, Goto, LaunchError, ReleaseLaunch
  <2>14. ASSUME NEW r \in Reqs, Undo(r) PROVE TypeOK'
    BY <2>14 DEF Undo, RemoveContainer, LaunchError, ReleaseLaunch
  <2>15. ASSUME NEW r \in Reqs, Register(r) PROVE TypeOK'
    BY <2>15 DEF Register, Goto, ReleaseLaunch
  <2>16. ASSUME NEW r \in Reqs, ServeHttp(r) PROVE TypeOK'
    BY <2>16 DEF ServeHttp, EndRequest, Goto
  <2>17. ASSUME NEW r \in Reqs, ViewerAttach(r) PROVE TypeOK'
    <3>1. late' \in [Sessions -> Nat] /\ viewers' \in [Sessions -> Nat]
      BY <2>17 DEF ViewerAttach, StopTimer
    <3>2. timer' \in [Sessions -> {"nil", "armed", "fired", "done"}]
      BY <2>17 DEF ViewerAttach
    <3>3. idle' \in [Sessions -> BOOLEAN] /\ attached' \in [Reqs -> BOOLEAN]
      BY <2>17 DEF ViewerAttach
    <3>4. /\ pc' \in [Reqs -> Phases]
          /\ hostOf' = hostOf /\ port' = port
      BY <2>17 DEF ViewerAttach, Goto, Phases, Launching, Fresh
    <3>5. UNCHANGED <<launchMu, host, held, rbiSeq, byHost, container, tdVars>>
      BY <2>17 DEF ViewerAttach
    <3>6. QED
      BY <3>1, <3>2, <3>3, <3>4, <3>5 DEF tdVars
  <2>18. ASSUME NEW r \in Reqs, ViewerClose(r) PROVE TypeOK'
    <3>a. viewers' \in [Sessions -> Nat]
      BY <2>18 DEF ViewerClose, ViewerDetach
    <3>b. ASSUME NEW s \in Sessions, LastViewerLeft(s) PROVE late' \in [Sessions -> Nat]
      BY <3>b DEF LastViewerLeft, StopTimer
    <3>1. late' \in [Sessions -> Nat] /\ viewers' \in [Sessions -> Nat]
      BY <2>18, <3>a, <3>b DEF ViewerClose, ViewerDetach, OnPort
    <3>2. timer' \in [Sessions -> {"nil", "armed", "fired", "done"}]
      BY <2>18 DEF ViewerClose, ViewerDetach, LastViewerLeft
    <3>3. byHost' \in [Hosts -> 0..MaxSeq] /\ tearing' \subseteq Sessions
      <4>1. CASE UNCHANGED <<byHost, tearing>>
        BY <4>1
      <4>2. ASSUME NEW s \in Sessions, LastViewerLeft(s)
            PROVE  byHost' \in [Hosts -> 0..MaxSeq] /\ tearing' \subseteq Sessions
        BY <4>2 DEF LastViewerLeft
      <4>3. QED
        BY <2>18, <4>1, <4>2 DEF ViewerClose, ViewerDetach, OnPort
    <3>4. QED
      BY <3>1, <3>2, <3>3, <2>18 DEF ViewerClose, EndRequest, Goto
  <2>19. ASSUME NEW s \in Sessions, TimerFires(s) PROVE TypeOK'
    BY <2>19 DEF TimerFires
  <2>20. ASSUME NEW s \in Sessions, TimerCallback(s) PROVE TypeOK'
    BY <2>20 DEF TimerCallback, GraceExpired
  <2>21. ASSUME NEW s \in Sessions, LateCallback(s) PROVE TypeOK'
    <3>1. late' \in [Sessions -> Nat]
      BY <2>21 DEF LateCallback
    <3>2. byHost' \in [Hosts -> 0..MaxSeq] /\ tearing' \subseteq Sessions
      BY <2>21 DEF LateCallback, GraceExpired
    <3>3. QED
      BY <3>1, <3>2, <2>21 DEF LateCallback
  <2>22. ASSUME NEW s \in Sessions, Teardown(s) PROVE TypeOK'
    BY <2>22 DEF Teardown, RemoveContainer
  <2>23. ASSUME NEW s \in Sessions, GcTeardown(s) PROVE TypeOK'
    BY <2>23 DEF GcTeardown, RemoveContainer
  <2>24. ASSUME NEW s \in Sessions, IdlePasses(s) PROVE TypeOK'
    BY <2>24 DEF IdlePasses
  <2>25. ASSUME NEW s \in Sessions, ContainerDies(s) PROVE TypeOK'
    BY <2>25 DEF ContainerDies
  <2>26. ASSUME NEW unseen \in SUBSET Sessions, GcSweep(unseen) PROVE TypeOK'
    BY <2>26 DEF GcSweep, Reapable
  <2>27. ASSUME ProxyRestart PROVE TypeOK'
    BY <2>27 DEF ProxyRestart
  <2>28. QED
    BY <2>1, <2>2, <2>3, <2>4, <2>5, <2>6, <2>7, <2>8, <2>9, <2>10,
        <2>11, <2>12, <2>13, <2>14, <2>15, <2>16, <2>17, <2>18, <2>19,
        <2>20, <2>21, <2>22, <2>23, <2>24, <2>25, <2>26, <2>27
    DEF Next, LaunchStep, SessionStep
<1>3. Init => HostKnown
  BY DEF Init, HostKnown
<1>4. QED
  BY <1>1, <1>2, <1>3, HostKnownStep, PTL DEF Spec

\* The variables of every state the proxy reaches have their declared types.
THEOREM TypeCorrect == Spec => []TypeOK
BY Typing, PTL

-----------------------------------------------------------------------------
(* The session map.                                                        *)

MapParts ==
  Numbered /\ FiledUnderHost /\ PrivateUntilRegistered /\ DoomedNeverServed

\* What every step but a launch's first and last does to the map: entries only
\* go away, and a newly doomed session goes away with the step that dooms it.
OnlyRemoves ==
  /\ UNCHANGED <<rbiSeq, hostOf>>
  /\ \A h \in Hosts : byHost'[h] \in {0, byHost[h]}
  /\ \A r \in Reqs : pc'[r] \in Fresh =>
       pc[r] \in Fresh /\ held'[r] = held[r] /\ host'[r] = host[r]
  /\ \A s \in Doomed' : s \in Doomed \/ (Registered(s) /\ ~(Registered(s))')

\* Taking entries out of the map keeps the rest of it consistent.
LEMMA OnlyRemovesKeeps ==
  ASSUME TypeOK, TypeOK', MapParts, OnlyRemoves
  PROVE  MapParts'
<1> USE DEF MapParts, OnlyRemoves, TypeOK
<1>1. \A s \in Sessions : (Registered(s))' => Registered(s)
  BY DEF Registered, Sessions
<1>2. \A s \in Doomed' : s \in Sessions
  BY DEF Doomed
<1>3. Numbered'
  <2>1. \A h \in Hosts : byHost'[h] <= rbiSeq'
    BY DEF Numbered
  <2>2. \A s \in Sessions : Registered(s) => s <= rbiSeq
    BY DEF Numbered, Registered
  <2>3. \A s \in Doomed' : s <= rbiSeq'
    BY <1>2, <2>2 DEF Numbered
  <2>4. QED
    BY <2>1, <2>3 DEF Numbered
<1>4. FiledUnderHost'
  BY DEF FiledUnderHost
<1>5. DoomedNeverServed'
  BY <1>1, <1>2 DEF DoomedNeverServed
<1>6. PrivateUntilRegistered'
  <2> USE DEF PrivateUntilRegistered
  <2>1. ASSUME NEW r \in Reqs, pc'[r] \in Fresh
        PROVE  /\ held'[r] \in 1..rbiSeq'
               /\ host'[r] \in Hosts
               /\ hostOf'[held'[r]] = host'[r]
               /\ ~(Registered(held[r]))'
               /\ held'[r] \notin Doomed'
    <3>1. pc[r] \in Fresh /\ held'[r] = held[r] /\ host'[r] = host[r]
      BY <2>1
    <3>2. held[r] \in Sessions /\ ~Registered(held[r]) /\ held[r] \notin Doomed
      BY <3>1, ConstAssumption DEF Sessions
    <3>3. held'[r] \notin Doomed'
      BY <3>1, <3>2
    <3>4. ~(Registered(held[r]))'
      BY <3>1, <3>2, <1>1 DEF Registered
    <3>5. QED
      BY <3>1, <3>3, <3>4
  <2>2. ASSUME NEW q \in Reqs, NEW r \in Reqs,
               pc'[q] \in Fresh, pc'[r] \in Fresh, held'[q] = held'[r]
        PROVE  q = r
    BY <2>2
  <2>3. QED
    BY <2>1, <2>2
<1>7. QED
  BY <1>3, <1>4, <1>5, <1>6

\* A step of one request that leaves Fresh alone, or leaves it for another phase.
LEMMA RequestSteps ==
  ASSUME TypeOK, NEW r \in Reqs,
         UNCHANGED <<rbiSeq, hostOf, byHost, tearing, gcDead>>,
         \/ \E l \in Phases : /\ Goto(r, l)
                              /\ l \notin Fresh
         \/ \E l \in Phases : /\ Goto(r, l)
                              /\ pc[r] \in Fresh
                              /\ UNCHANGED <<held, host>>,
         \A q \in Reqs : q # r => held'[q] = held[q] /\ host'[q] = host[q]
  PROVE  OnlyRemoves
<1>1. \A q \in Reqs : pc'[q] \in Fresh =>
        pc[q] \in Fresh /\ held'[q] = held[q] /\ host'[q] = host[q]
  <2> SUFFICES ASSUME NEW q \in Reqs, pc'[q] \in Fresh
               PROVE  pc[q] \in Fresh /\ held'[q] = held[q] /\ host'[q] = host[q]
    OBVIOUS
  <2>1. CASE q = r
    BY <2>1 DEF Goto, TypeOK
  <2>2. CASE q # r
    BY <2>2 DEF Goto, TypeOK
  <2>3. QED
    BY <2>1, <2>2
<1>2. QED
  BY <1>1 DEF OnlyRemoves, Doomed, TypeOK

\* Every step but NextSeq and Register only removes entries from the map.
LEMMA Removals ==
  ASSUME TypeOK, HostKnown, MapParts, [Next]_vars
  PROVE  OnlyRemoves \/ \E r \in Reqs : NextSeq(r) \/ Register(r)
<1> USE Labels DEF reqVars, sessVars, tdVars
<1>1. CASE UNCHANGED vars
  BY <1>1 DEF vars, OnlyRemoves, Doomed, TypeOK
<1>2. ASSUME NEW r \in Reqs, NEW h \in Hosts, Arrive(r, h) PROVE OnlyRemoves
  BY <1>2, RequestSteps DEF Arrive, TypeOK, Fresh
<1>3. ASSUME NEW r \in Reqs,
             TakeLaunchLock(r) \/ ServeHttp(r) \/ ViewerAttach(r)
      PROVE  OnlyRemoves
  <2>1. \E l \in Phases \ Fresh : Goto(r, l)
    BY <1>3 DEF TakeLaunchLock, ServeHttp, EndRequest, ViewerAttach, Fresh
  <2>2. \A q \in Reqs : q # r => held'[q] = held[q] /\ host'[q] = host[q]
    BY <1>3 DEF TakeLaunchLock, ServeHttp, EndRequest, ViewerAttach, TypeOK
  <2>3. UNCHANGED <<rbiSeq, hostOf, byHost, tearing, gcDead>>
    BY <1>3 DEF TakeLaunchLock, ServeHttp, ViewerAttach
  <2>4. QED
    BY <2>1, <2>2, <2>3, RequestSteps
<1>4. ASSUME NEW r \in Reqs, Reuse(r) PROVE OnlyRemoves
  BY <1>4, RequestSteps DEF Reuse, TypeOK, Fresh
<1>5. ASSUME NEW r \in Reqs,
             LastSeq(r) \/ AllocFails(r) \/ DockerRunFails(r) \/ DockerRunTimesOut(r) \/ Undo(r)
      PROVE  OnlyRemoves
  <2>1. LaunchError(r) /\ UNCHANGED <<rbiSeq, byHost, hostOf, tearing, gcDead>>
    BY <1>5 DEF LastSeq, AllocFails, DockerRunFails, DockerRunTimesOut, Undo
  <2>2. QED
    <3>1. Goto(r, "idle") /\ "idle" \notin Fresh
      BY <2>1 DEF LaunchError, Goto, Fresh
    <3>2. \A q \in Reqs : q # r => held'[q] = held[q] /\ host'[q] = host[q]
      BY <2>1 DEF LaunchError, TypeOK
    <3>3. QED
      BY <2>1, <3>1, <3>2, RequestSteps
<1>6. ASSUME NEW r \in Reqs, DockerRun(r) \/ Ready(r) \/ NotReady(r) PROVE OnlyRemoves
  BY <1>6, RequestSteps DEF DockerRun, Ready, NotReady, Fresh
<1>7. ASSUME NEW r \in Reqs, NEW p \in Ports, AllocPort(r, p) PROVE OnlyRemoves
  BY <1>7, RequestSteps DEF AllocPort, Fresh
<1>8. ASSUME NEW r \in Reqs, ViewerClose(r) PROVE OnlyRemoves
  <2>1. UNCHANGED <<rbiSeq, hostOf, gcDead>> /\ Goto(r, "idle") /\ "idle" \notin Fresh
    BY <1>8 DEF ViewerClose, EndRequest, Fresh
  <2>2. \A q \in Reqs : q # r => held'[q] = held[q] /\ host'[q] = host[q]
    BY <1>8 DEF ViewerClose, EndRequest, TypeOK
  <2>3. CASE UNCHANGED <<byHost, tearing>>
    BY <2>1, <2>2, <2>3, RequestSteps
  <2>4. ASSUME NEW s \in Sessions, Registered(s),
               byHost' = [h \in Hosts |-> IF byHost[h] = s THEN 0 ELSE byHost[h]],
               tearing' = tearing \cup {s}
        PROVE  OnlyRemoves
    <3>1. ~(Registered(s))'
      BY <2>4 DEF Registered, Sessions
    <3>2. \A t \in Doomed' : t \in Doomed \/ t = s
      BY <2>1, <2>4 DEF Doomed
    <3>3. \A q \in Reqs : pc'[q] \in Fresh =>
            pc[q] \in Fresh /\ held'[q] = held[q] /\ host'[q] = host[q]
      BY <2>1, <2>2 DEF Goto, TypeOK
    <3>4. QED
      BY <2>1, <2>4, <3>1, <3>2, <3>3 DEF OnlyRemoves
  <2>5. QED
    BY <1>8, <2>3, <2>4 DEF ViewerClose, ViewerDetach, LastViewerLeft, OnPort
<1>9. ASSUME NEW s \in Sessions, TimerFires(s) \/ IdlePasses(s) \/ ContainerDies(s)
       PROVE  OnlyRemoves
  BY <1>9 DEF TimerFires, IdlePasses, ContainerDies, OnlyRemoves, Doomed, TypeOK
<1>10. ASSUME NEW s \in Sessions, TimerCallback(s) \/ LateCallback(s) PROVE OnlyRemoves
  <2>1. UNCHANGED <<pc, held, host, rbiSeq, hostOf, gcDead>> /\ GraceExpired(s)
    BY <1>10 DEF TimerCallback, LateCallback
  <2>2. CASE UNCHANGED <<byHost, tearing>>
    BY <2>1, <2>2 DEF OnlyRemoves, Doomed, TypeOK
  <2>3. CASE /\ hostOf[s] \in Hosts /\ byHost[hostOf[s]] = s
             /\ byHost' = [byHost EXCEPT ![hostOf[s]] = 0]
             /\ tearing' = tearing \cup {s}
    <3>1. \A h \in Hosts : byHost[h] = s => h = hostOf[s]
      BY DEF MapParts, FiledUnderHost, Sessions
    <3>2. ~(Registered(s))'
      BY <2>3, <3>1 DEF Registered, TypeOK, Sessions
    <3>3. \A t \in Doomed' : t \in Doomed \/ t = s
      BY <2>1, <2>3 DEF Doomed
    <3>4. QED
      BY <2>1, <2>3, <3>2, <3>3 DEF OnlyRemoves, TypeOK, Registered
  <2>4. QED
    BY <2>1, <2>2, <2>3 DEF GraceExpired
<1>11. ASSUME NEW s \in Sessions, Teardown(s) \/ GcTeardown(s) PROVE OnlyRemoves
  BY <1>11 DEF Teardown, GcTeardown, OnlyRemoves, Doomed, TypeOK
<1>12. ASSUME NEW unseen \in SUBSET Sessions, GcSweep(unseen) PROVE OnlyRemoves
  <2>1. \A s \in Reapable(unseen) : s \in Sessions /\ Registered(s)
    BY DEF Reapable
  <2>2. \A s \in Reapable(unseen) : ~(Registered(s))'
    BY <1>12, <2>1 DEF GcSweep, Registered, Sessions
  <2>3. \A s \in Doomed' : s \in Doomed \/ s \in Reapable(unseen)
    BY <1>12 DEF GcSweep, Doomed
  <2>4. QED
    BY <1>12, <2>1, <2>2, <2>3 DEF GcSweep, OnlyRemoves
<1>13. ASSUME ProxyRestart PROVE OnlyRemoves
  BY <1>13 DEF ProxyRestart, OnlyRemoves, Doomed, TypeOK, Fresh
<1>14. QED
  BY <1>1, <1>2, <1>3, <1>4, <1>5, <1>6, <1>7, <1>8, <1>9, <1>10, <1>11, <1>12, <1>13
  DEF Next, LaunchStep, SessionStep

\* Each step keeps the map consistent.
LEMMA MapStep ==
  ASSUME TypeOK, TypeOK', HostKnown, MapParts, [Next]_vars
  PROVE  MapParts'
<1> USE Labels DEF reqVars, sessVars, tdVars
<1>1. ASSUME NEW r \in Reqs, NextSeq(r) PROVE MapParts'
  <2> DEFINE n == rbiSeq + 1
  <2>1. n \in Sessions /\ rbiSeq \in Nat /\ n > rbiSeq /\ host[r] \in Hosts
    BY <1>1, ConstAssumption DEF NextSeq, TypeOK, Sessions, HostKnown
  <2>2. /\ UNCHANGED <<byHost, host, tearing, gcDead>> /\ rbiSeq' = n
        /\ held' = [held EXCEPT ![r] = n] /\ hostOf' = [hostOf EXCEPT ![n] = host[r]]
        /\ pc' = [pc EXCEPT ![r] = "alloc"] /\ pc[r] \notin Fresh
    BY <1>1 DEF NextSeq, Goto, Fresh
  <2> HIDE DEF n
  <2>3. Doomed' = Doomed /\ \A s \in Sessions : (Registered(s))' <=> Registered(s)
    BY <2>2 DEF Doomed, Registered
  <2>4. ~Registered(n) /\ n \notin Doomed
    BY <2>1 DEF MapParts, Numbered, Registered, TypeOK
  <2>5. Numbered'
    BY <2>1, <2>2, <2>3 DEF MapParts, Numbered, TypeOK, Doomed, Sessions, n
  <2>6. FiledUnderHost'
    BY <2>1, <2>2, <2>4 DEF MapParts, FiledUnderHost, Registered, TypeOK
  <2>7. DoomedNeverServed'
    BY <2>3 DEF MapParts, DoomedNeverServed, Doomed, TypeOK
  <2>8. PrivateUntilRegistered'
    <3>1. ASSUME NEW q \in Reqs, q # r, pc'[q] \in Fresh
          PROVE  pc[q] \in Fresh /\ held'[q] = held[q] /\ held[q] \in 1..rbiSeq /\ held[q] # n
      BY <3>1, <2>1, <2>2 DEF MapParts, PrivateUntilRegistered, TypeOK
    <3>2. held'[r] = n
      BY <2>2 DEF TypeOK
    <3>3. ASSUME NEW q \in Reqs, pc'[q] \in Fresh
          PROVE  /\ held'[q] \in 1..rbiSeq' /\ host'[q] \in Hosts
                 /\ hostOf'[held'[q]] = host'[q]
                 /\ ~(Registered(held[q]))' /\ held'[q] \notin Doomed'
      <4>1. CASE q = r
        <5>1. n \in 1..rbiSeq' /\ hostOf'[n] = host[r]
          BY <2>1, <2>2 DEF TypeOK, n
        <5>2. QED
          BY <4>1, <5>1, <3>2, <2>1, <2>2, <2>3, <2>4 DEF Registered
      <4>2. CASE q # r
        <5>1. held[q] \in Sessions /\ held[q] \in 1..rbiSeq'
          BY <4>2, <3>3, <3>1, <2>1, <2>2 DEF Sessions, TypeOK, n
        <5>2. QED
          BY <4>2, <5>1, <3>3, <3>1, <2>2, <2>3
          DEF MapParts, PrivateUntilRegistered, TypeOK, Registered
      <4>3. QED
        BY <4>1, <4>2
    <3>4. ASSUME NEW p \in Reqs, NEW q \in Reqs,
                 pc'[p] \in Fresh, pc'[q] \in Fresh, held'[p] = held'[q]
          PROVE  p = q
      BY <3>4, <3>1, <3>2 DEF MapParts, PrivateUntilRegistered
    <3>5. QED
      BY <3>3, <3>4 DEF PrivateUntilRegistered
  <2>9. QED
    BY <2>5, <2>6, <2>7, <2>8 DEF MapParts
<1>2. ASSUME NEW r \in Reqs, Register(r) PROVE MapParts'
  <2>1. /\ UNCHANGED <<rbiSeq, hostOf, held, host, tearing, gcDead>>
        /\ byHost' = [byHost EXCEPT ![host[r]] = held[r]]
        /\ pc' = [pc EXCEPT ![r] = "got"] /\ pc[r] \in Fresh
    BY <1>2 DEF Register, Goto, Fresh
  <2>2. /\ held[r] \in 1..rbiSeq /\ host[r] \in Hosts /\ hostOf[held[r]] = host[r]
        /\ held[r] \notin Doomed
    BY <2>1 DEF MapParts, PrivateUntilRegistered
  <2>3. \A s : (Registered(s))' => Registered(s) \/ s = held[r]
    BY <2>1, <2>2 DEF Registered, TypeOK
  <2>4. \A q \in Reqs : pc'[q] \in Fresh => q # r /\ pc[q] \in Fresh
    BY <2>1 DEF TypeOK, Fresh
  <2>5. Doomed' = Doomed
    BY <2>1 DEF Doomed
  <2>6. Numbered'
    BY <2>1, <2>2, <2>5 DEF MapParts, Numbered, TypeOK
  <2>7. FiledUnderHost'
    BY <2>1, <2>2 DEF MapParts, FiledUnderHost, TypeOK
  <2>8. DoomedNeverServed'
    BY <2>2, <2>3, <2>5 DEF MapParts, DoomedNeverServed
  <2>9. PrivateUntilRegistered'
    BY <2>1, <2>2, <2>3, <2>4, <2>5 DEF MapParts, PrivateUntilRegistered, Registered
  <2>10. QED
    BY <2>6, <2>7, <2>8, <2>9 DEF MapParts
<1>3. QED
  BY <1>1, <1>2, Removals, OnlyRemovesKeeps

\* The inductive invariant of the session map holds in every reachable state.
LEMMA MapInvariant == Spec => []MapInv
<1>1. Init => MapParts
  <2> SUFFICES ASSUME Init PROVE MapParts
    OBVIOUS
  <2>1. Doomed = {} /\ \A r \in Reqs : pc[r] \notin Fresh
    BY DEF Init, Doomed, Fresh
  <2>2. QED
    BY <2>1 DEF Init, MapParts, Numbered, FiledUnderHost, PrivateUntilRegistered,
                DoomedNeverServed
<1>2. TypeOK /\ TypeOK' /\ HostKnown /\ MapParts /\ [Next]_vars => MapParts'
  BY MapStep
<1>3. MapInv <=> TypeOK /\ HostKnown /\ MapParts
  BY DEF MapInv, MapParts
<1>4. QED
  BY <1>1, <1>2, <1>3, Typing, PTL DEF Spec

\* A session that is about to be torn down is never handed to a request again,
\* however Docker, the timers, the collector, the viewers and restarts of the
\* proxy interleave.
THEOREM DoomedSessions == Spec => []DoomedNeverServed
<1>1. MapInv => DoomedNeverServed
  BY DEF MapInv
<1>2. QED
  BY <1>1, MapInvariant, PTL

-----------------------------------------------------------------------------
(* The containers, when Docker answers truthfully and the proxy stays up.  *)

\* A request is launching for its host only while it holds that host's lock.
LEMMA LockStep ==
  ASSUME TypeOK, HostKnown, LockHeld, [Next]_vars
  PROVE  LockHeld'
<1> USE DEF reqVars
<1>1. ASSUME UNCHANGED launchMu,
             \A q \in Reqs : pc'[q] \in Launching =>
               pc[q] \in Launching /\ host'[q] = host[q]
      PROVE  LockHeld'
  BY <1>1 DEF LockHeld
<1>2. ASSUME NEW r \in Reqs, ReleaseLaunch(r), pc[r] \in Launching,
             NEW l \in {"got", "idle"}, Goto(r, l),
             \A q \in Reqs : q # r => host'[q] = host[q]
      PROVE  LockHeld'
  <2> SUFFICES ASSUME NEW q \in Reqs, pc'[q] \in Launching
               PROVE  launchMu'[host'[q]] = q
    BY DEF LockHeld
  <2>1. q # r /\ pc[q] \in Launching /\ host'[q] = host[q] /\ host[q] \in Hosts
    BY <1>2 DEF Goto, Launching, Fresh, TypeOK, HostKnown
  <2>2. launchMu[host[q]] = q /\ launchMu[host[r]] = r
    BY <1>2, <2>1 DEF LockHeld
  <2>3. QED
    BY <1>2, <2>1, <2>2 DEF ReleaseLaunch, TypeOK
<1>3. ASSUME NEW r \in Reqs, TakeLaunchLock(r) PROVE LockHeld'
  <2> SUFFICES ASSUME NEW q \in Reqs, pc'[q] \in Launching
               PROVE  launchMu'[host[q]] = q
    BY <1>3 DEF LockHeld, TakeLaunchLock
  <2>1. CASE q = r
    BY <1>3, <2>1 DEF TakeLaunchLock, TypeOK, HostKnown
  <2>2. CASE q # r
    <3>1. pc[q] \in Launching /\ launchMu[host[q]] = q
      BY <1>3, <2>2 DEF TakeLaunchLock, Goto, TypeOK, LockHeld
    <3>2. host[q] # host[r]
      BY <1>3, <3>1, ConstAssumption DEF TakeLaunchLock
    <3>3. QED
      BY <1>3, <3>1, <3>2 DEF TakeLaunchLock
  <2>3. QED
    BY <2>1, <2>2
<1>4. ASSUME NEW r \in Reqs, NEW h \in Hosts, Arrive(r, h) PROVE LockHeld'
  BY <1>4, <1>1 DEF Arrive, Goto, TypeOK, Launching, Fresh
<1>5. ASSUME NEW r \in Reqs, Reuse(r) \/ Register(r) PROVE LockHeld'
  BY <1>5, <1>2 DEF Reuse, Register, Launching, Fresh
<1>6. ASSUME NEW r \in Reqs,
             LastSeq(r) \/ AllocFails(r) \/ DockerRunFails(r) \/ DockerRunTimesOut(r) \/ Undo(r)
      PROVE  LockHeld'
  <2>1. LaunchError(r) /\ pc[r] \in Launching
    BY <1>6 DEF LastSeq, AllocFails, DockerRunFails, DockerRunTimesOut, Undo, Launching, Fresh
  <2>2. QED
    BY <2>1, <1>2 DEF LaunchError, Goto, TypeOK
<1>7. ASSUME NEW r \in Reqs,
             NextSeq(r) \/ DockerRun(r) \/ Ready(r) \/ NotReady(r) \/ \E p \in Ports : AllocPort(r, p)
      PROVE  LockHeld'
  BY <1>7, <1>1 DEF NextSeq, DockerRun, Ready, NotReady, AllocPort, Goto, TypeOK, Launching, Fresh
<1>8. ASSUME NEW r \in Reqs, ServeHttp(r) \/ ViewerAttach(r) \/ ViewerClose(r) PROVE LockHeld'
  <2>1. UNCHANGED launchMu /\ (Goto(r, "idle") \/ Goto(r, "viewing"))
    BY <1>8 DEF ServeHttp, ViewerAttach, ViewerClose, EndRequest
  <2>2. \A q \in Reqs : q # r => host'[q] = host[q]
    BY <1>8 DEF ServeHttp, ViewerAttach, ViewerClose, EndRequest, TypeOK
  <2>3. QED
    BY <2>1, <2>2, <1>1 DEF Goto, TypeOK, Launching, Fresh
<1>9. ASSUME NEW s \in Sessions, SessionStep(s) \/ IdlePasses(s) \/ ContainerDies(s)
      PROVE  LockHeld'
  BY <1>9, <1>1 DEF SessionStep, TimerFires, TimerCallback, LateCallback, Teardown,
                    GcTeardown, IdlePasses, ContainerDies
<1>10. ASSUME NEW unseen \in SUBSET Sessions, GcSweep(unseen) PROVE LockHeld'
  BY <1>10, <1>1 DEF GcSweep
<1>11. ASSUME ProxyRestart PROVE LockHeld'
  BY <1>11 DEF ProxyRestart, LockHeld, Launching, Fresh
<1>12. CASE UNCHANGED vars
  BY <1>12, <1>1 DEF vars
<1>13. QED
  BY <1>3, <1>4, <1>5, <1>6, <1>7, <1>8, <1>9, <1>10, <1>11, <1>12 DEF Next, LaunchStep

\* What every step but docker run and the final registration does to the
\* containers: none appears, and whoever looks after a running one still does.
KeepsTrack ==
  /\ \A s \in Sessions : container'[s] = "up" => container[s] = "up"
  /\ \A s \in Sessions : container[s] = "none" => container'[s] = "none"
  /\ \A s \in Sessions : container'[s] = "up" /\ Registered(s) =>
       (Registered(s))' \/ s \in Doomed'
  /\ \A s \in Sessions : container'[s] = "up" /\ s \in Doomed => s \in Doomed'
  /\ \A s \in Sessions : container'[s] = "up" /\ BeingLaunched(s) => (BeingLaunched(s))'

\* The steps of a request that does not leave a started container behind.
LEMMA RequestKeepsTrack ==
  ASSUME TypeOK, NEW r \in Reqs, UNCHANGED <<byHost, tearing, gcDead, container>>,
         \A q \in Reqs : q # r => held'[q] = held[q] /\ pc'[q] = pc[q],
         \/ pc[r] \notin {"wait", "register", "undo"}
         \/ held'[r] = held[r] /\ pc'[r] \in {"wait", "register", "undo"}
  PROVE  KeepsTrack
<1>1. \A s \in Sessions : BeingLaunched(s) => (BeingLaunched(s))'
  <2> SUFFICES ASSUME NEW s \in Sessions, NEW q \in Reqs, held[q] = s,
                      pc[q] \in {"wait", "register", "undo"}
               PROVE  held'[q] = s /\ pc'[q] \in {"wait", "register", "undo"}
    BY DEF BeingLaunched
  <2>1. QED
    OBVIOUS
<1>2. QED
  BY <1>1 DEF KeepsTrack, Registered, Doomed

\* The steps of requests that have not started, or have finished, a launch.
LEMMA TrackSteps ==
  ASSUME TypeOK, Faults = {}, NotBeforeRun, NEW r \in Reqs
  PROVE  /\ \A h \in Hosts : Arrive(r, h) => KeepsTrack
         /\ TakeLaunchLock(r) \/ Reuse(r) \/ NextSeq(r) => KeepsTrack
         /\ LastSeq(r) \/ AllocFails(r) \/ DockerRunFails(r) => KeepsTrack
         /\ \A p \in Ports : AllocPort(r, p) => KeepsTrack
         /\ Ready(r) \/ NotReady(r) => KeepsTrack
         /\ ServeHttp(r) \/ ViewerAttach(r) => KeepsTrack
         /\ Undo(r) \/ ViewerClose(r) => KeepsTrack
<1> USE DEF reqVars, sessVars, tdVars
<1>1. ASSUME NEW h \in Hosts, Arrive(r, h) PROVE KeepsTrack
  BY <1>1, RequestKeepsTrack DEF Arrive, Goto, TypeOK
<1>2. ASSUME TakeLaunchLock(r) \/ Reuse(r) \/ NextSeq(r) PROVE KeepsTrack
  <2>1. UNCHANGED <<byHost, tearing, gcDead, container>> /\ pc[r] \in {"lock", "check"}
    BY <1>2 DEF TakeLaunchLock, Reuse, NextSeq
  <2>2. \A q \in Reqs : q # r => held'[q] = held[q] /\ pc'[q] = pc[q]
    BY <1>2 DEF TakeLaunchLock, Reuse, NextSeq, Goto, TypeOK
  <2>3. QED
    BY <2>1, <2>2, RequestKeepsTrack
<1>3. ASSUME LastSeq(r) \/ AllocFails(r) \/ DockerRunFails(r) PROVE KeepsTrack
  <2>1. UNCHANGED <<byHost, tearing, gcDead, container>> /\ pc[r] \in {"check", "alloc", "run"}
    BY <1>3 DEF LastSeq, AllocFails, DockerRunFails
  <2>2. LaunchError(r)
    BY <1>3 DEF LastSeq, AllocFails, DockerRunFails
  <2>3. \A q \in Reqs : q # r => held'[q] = held[q] /\ pc'[q] = pc[q]
    BY <2>2 DEF LaunchError, TypeOK
  <2>4. QED
    BY <2>1, <2>3, RequestKeepsTrack
<1>4. ASSUME NEW p \in Ports, AllocPort(r, p) PROVE KeepsTrack
  BY <1>4, RequestKeepsTrack DEF AllocPort, Goto, TypeOK
<1>5. ASSUME Ready(r) \/ NotReady(r) PROVE KeepsTrack
  BY <1>5, RequestKeepsTrack DEF Ready, NotReady, Goto, TypeOK
<1>6. ASSUME ServeHttp(r) \/ ViewerAttach(r) PROVE KeepsTrack
  <2>1. UNCHANGED <<byHost, tearing, gcDead, container>> /\ pc[r] = "got"
    BY <1>6 DEF ServeHttp, ViewerAttach
  <2>2. \A q \in Reqs : q # r => held'[q] = held[q] /\ pc'[q] = pc[q]
    BY <1>6 DEF ServeHttp, ViewerAttach, EndRequest, Goto, TypeOK
  <2>3. QED
    BY <2>1, <2>2, RequestKeepsTrack
<1>7. ASSUME Undo(r) PROVE KeepsTrack
  <2>1. /\ UNCHANGED <<byHost, tearing, gcDead>> /\ LaunchError(r)
        /\ container' = [container EXCEPT ![held[r]] = IF @ = "up" THEN "gone" ELSE @]
    BY <1>7 DEF Undo, RemoveContainer
  <2>2. \A q \in Reqs : q # r => held'[q] = held[q] /\ pc'[q] = pc[q]
    BY <2>1 DEF LaunchError, TypeOK
  <2>3. \A s \in Sessions : container'[s] = "up" => container[s] = "up" /\ s # held[r]
    BY <2>1 DEF TypeOK
  <2>4. \A s \in Sessions : container[s] = "none" => container'[s] = "none"
    BY <2>1 DEF TypeOK
  <2>5. QED
    BY <2>1, <2>2, <2>3, <2>4 DEF KeepsTrack, BeingLaunched, Registered, Doomed
<1>8. ASSUME ViewerClose(r) PROVE KeepsTrack
  <2>1. UNCHANGED <<container, gcDead>> /\ pc[r] = "viewing"
    BY <1>8 DEF ViewerClose
  <2>2. \A q \in Reqs : q # r => held'[q] = held[q] /\ pc'[q] = pc[q]
    BY <1>8 DEF ViewerClose, EndRequest, Goto, TypeOK
  <2>3. CASE UNCHANGED <<byHost, tearing>>
    BY <2>1, <2>2, <2>3, RequestKeepsTrack
  <2>4. ASSUME NEW s \in Sessions,
               byHost' = [h \in Hosts |-> IF byHost[h] = s THEN 0 ELSE byHost[h]],
               tearing' = tearing \cup {s}
        PROVE  KeepsTrack
    <3>1. \A t \in Sessions : Registered(t) => (Registered(t))' \/ t \in Doomed'
      BY <2>4 DEF Registered, Doomed
    <3>2. \A t \in Sessions : BeingLaunched(t) => (BeingLaunched(t))'
      BY <2>1, <2>2 DEF BeingLaunched
    <3>3. QED
      BY <2>1, <2>4, <3>1, <3>2 DEF KeepsTrack, Doomed
  <2>5. QED
    BY <1>8, <2>3, <2>4 DEF ViewerClose, ViewerDetach, LastViewerLeft, OnPort
<1>9. QED
  BY <1>1, <1>2, <1>3, <1>4, <1>5, <1>6, <1>7, <1>8

\* The timers, teardowns and the collector keep track of the containers too.
LEMMA TrackSessionSteps ==
  ASSUME TypeOK, Faults = {}
  PROVE  /\ \A s \in Sessions : SessionStep(s) \/ IdlePasses(s) \/ ContainerDies(s) => KeepsTrack
         /\ \A unseen \in SUBSET Sessions : GcSweep(unseen) => KeepsTrack
<1> USE DEF reqVars, sessVars, tdVars
<1>1. ASSUME NEW s \in Sessions, TimerFires(s) \/ IdlePasses(s) PROVE KeepsTrack
  BY <1>1 DEF TimerFires, IdlePasses, KeepsTrack, Registered, Doomed, BeingLaunched
<1>2. ASSUME NEW s \in Sessions, TimerCallback(s) \/ LateCallback(s) PROVE KeepsTrack
  <2>1. UNCHANGED <<pc, held, container, gcDead>> /\ GraceExpired(s)
    BY <1>2 DEF TimerCallback, LateCallback
  <2>2. \A t \in Sessions : Registered(t) => (Registered(t))' \/ t \in Doomed'
    <3>1. CASE UNCHANGED <<byHost, tearing>>
      BY <3>1 DEF Registered
    <3>2. ASSUME NEW h \in Hosts, byHost[h] = s, byHost' = [byHost EXCEPT ![h] = 0],
                 tearing' = tearing \cup {s}
          PROVE  \A t \in Sessions : Registered(t) => (Registered(t))' \/ t \in Doomed'
      BY <3>2 DEF Registered, Doomed, TypeOK
    <3>3. QED
      BY <2>1, <3>1, <3>2 DEF GraceExpired
  <2>3. QED
    BY <2>1, <2>2 DEF KeepsTrack, Doomed, BeingLaunched, GraceExpired
<1>3. ASSUME NEW s \in Sessions, ContainerDies(s) PROVE KeepsTrack
  BY <1>3 DEF ContainerDies, KeepsTrack, Registered, Doomed, BeingLaunched, TypeOK
<1>4. ASSUME NEW s \in Sessions, Teardown(s) \/ GcTeardown(s) PROVE KeepsTrack
  <2>1. /\ UNCHANGED <<pc, held, byHost>>
        /\ container' = [container EXCEPT ![s] = IF @ = "up" THEN "gone" ELSE @]
        /\ \A t \in Doomed : t # s => t \in Doomed'
    BY <1>4 DEF Teardown, GcTeardown, RemoveContainer, Doomed
  <2>2. \A t \in Sessions : container'[t] = "up" => container[t] = "up" /\ t # s
    BY <2>1 DEF TypeOK
  <2>3. \A t \in Sessions : container[t] = "none" => container'[t] = "none"
    BY <2>1 DEF TypeOK
  <2>4. QED
    BY <2>1, <2>2, <2>3 DEF KeepsTrack, Registered, BeingLaunched
<1>5. ASSUME NEW unseen \in SUBSET Sessions, GcSweep(unseen) PROVE KeepsTrack
  <2>1. UNCHANGED <<pc, held, container, tearing>> /\ gcDead = {} /\ gcDead' = Reapable(unseen)
    BY <1>5 DEF GcSweep
  <2>2. \A t \in Sessions : Registered(t) => (Registered(t))' \/ t \in Doomed'
    BY <1>5, <2>1 DEF GcSweep, Registered, Doomed
  <2>3. QED
    BY <2>1, <2>2 DEF KeepsTrack, Doomed, BeingLaunched
<1>6. QED
  BY <1>1, <1>2, <1>3, <1>4, <1>5 DEF SessionStep

TrackParts == NotBeforeRun /\ ReplacesDeadOnly /\ NoOrphan

\* A step that keeps track and starts no new session preserves the invariant.
LEMMA TrackKept ==
  ASSUME TypeOK, TypeOK', MapParts, TrackParts, KeepsTrack, OnlyRemoves,
         \A r \in Reqs : pc'[r] \in {"alloc", "run"} => pc[r] \in {"alloc", "run"}
  PROVE  TrackParts'
<1>1. NotBeforeRun'
  <2>1. \A s \in Sessions : s > rbiSeq' => container'[s] = "none"
    BY DEF TrackParts, NotBeforeRun, KeepsTrack, OnlyRemoves
  <2>2. ASSUME NEW r \in Reqs, pc'[r] \in {"alloc", "run"} PROVE container'[held'[r]] = "none"
    <3>1. pc[r] \in {"alloc", "run"} /\ held'[r] = held[r] /\ held[r] \in 1..rbiSeq
      BY <2>2 DEF OnlyRemoves, Fresh, MapParts, PrivateUntilRegistered
    <3>2. held[r] \in Sessions
      BY <3>1, ConstAssumption DEF TypeOK, Sessions
    <3>3. QED
      BY <3>1, <3>2 DEF TrackParts, NotBeforeRun, KeepsTrack
  <2>3. QED
    BY <2>1, <2>2 DEF NotBeforeRun
<1>2. ReplacesDeadOnly'
  <2> SUFFICES ASSUME NEW r \in Reqs, pc'[r] \in Fresh, byHost'[host'[r]] # 0
               PROVE  container'[byHost'[host'[r]]] # "up"
    BY DEF ReplacesDeadOnly
  <2>1. pc[r] \in Fresh /\ host'[r] = host[r] /\ host[r] \in Hosts
    BY DEF OnlyRemoves, MapParts, PrivateUntilRegistered
  <2>2. byHost'[host[r]] = byHost[host[r]] /\ byHost[host[r]] \in Sessions
    BY <2>1, ConstAssumption DEF OnlyRemoves, TypeOK, Sessions
  <2>3. container[byHost[host[r]]] # "up"
    BY <2>1, <2>2 DEF TrackParts, ReplacesDeadOnly
  <2>4. QED
    BY <2>1, <2>2, <2>3 DEF KeepsTrack
<1>3. NoOrphan'
  BY DEF TrackParts, NoOrphan, KeepsTrack
<1>4. QED
  BY <1>1, <1>2, <1>3 DEF TrackParts

\* Each step keeps track of the containers.
LEMMA ContainerStep ==
  ASSUME TypeOK, TypeOK', HostKnown, MapParts, LockHeld, TrackParts, [Next]_vars, Faults = {}
  PROVE  TrackParts'
<1> USE DEF reqVars, sessVars, tdVars
<1>1. ASSUME NEW r \in Reqs, NextSeq(r) PROVE TrackParts'
  <2> DEFINE n == rbiSeq + 1
  <2>1. n \in Sessions /\ rbiSeq \in Nat /\ n > rbiSeq /\ host[r] \in Hosts
    BY <1>1, ConstAssumption DEF NextSeq, TypeOK, Sessions, HostKnown
  <2>2. /\ UNCHANGED <<byHost, host, container, tearing, gcDead>> /\ rbiSeq' = n
        /\ held' = [held EXCEPT ![r] = n]
        /\ pc' = [pc EXCEPT ![r] = "alloc"] /\ pc[r] \notin Fresh
    BY <1>1 DEF NextSeq, Goto, Fresh
  <2>3. byHost[host[r]] # 0 => container[byHost[host[r]]] # "up"
    BY <1>1 DEF NextSeq, MayLookDown
  <2> HIDE DEF n
  <2>4. NotBeforeRun'
    <3>1. \A s \in Sessions : s > n => s > rbiSeq
      BY <2>1 DEF Sessions, n
    <3>2. container[n] = "none"
      BY <2>1 DEF TrackParts, NotBeforeRun
    <3>3. ASSUME NEW q \in Reqs, pc'[q] \in {"alloc", "run"} PROVE container[held'[q]] = "none"
      <4>1. CASE q = r
        BY <4>1, <3>2, <2>2 DEF TypeOK
      <4>2. CASE q # r
        BY <4>2, <3>3, <2>2 DEF TypeOK, TrackParts, NotBeforeRun
      <4>3. QED
        BY <4>1, <4>2
    <3>4. QED
      BY <3>1, <3>3, <2>2 DEF TrackParts, NotBeforeRun
  <2>5. ReplacesDeadOnly'
    <3> SUFFICES ASSUME NEW q \in Reqs, pc'[q] \in Fresh, byHost[host[q]] # 0
                 PROVE  container[byHost[host[q]]] # "up"
      BY <2>2 DEF ReplacesDeadOnly
    <3>1. CASE q = r
      BY <3>1, <2>3
    <3>2. CASE q # r
      BY <3>2, <2>2 DEF TypeOK, TrackParts, ReplacesDeadOnly
    <3>3. QED
      BY <3>1, <3>2
  <2>6. NoOrphan'
    <3>1. \A s \in Sessions : BeingLaunched(s) => (BeingLaunched(s))'
      BY <2>2 DEF BeingLaunched, Fresh, TypeOK
    <3>2. QED
      BY <3>1, <2>2 DEF TrackParts, NoOrphan, Registered, Doomed
  <2>7. QED
    BY <2>4, <2>5, <2>6 DEF TrackParts
<1>2. ASSUME NEW r \in Reqs, DockerRun(r) PROVE TrackParts'
  <2>1. /\ UNCHANGED <<byHost, host, held, rbiSeq, tearing, gcDead>>
        /\ container' = [container EXCEPT ![held[r]] = "up"]
        /\ pc' = [pc EXCEPT ![r] = "wait"] /\ pc[r] \in Fresh /\ pc[r] = "run"
    BY <1>2 DEF DockerRun, Goto, Fresh
  <2>2. held[r] \in 1..rbiSeq /\ held[r] \in Sessions /\ ~Registered(held[r])
    BY <2>1, ConstAssumption DEF MapParts, PrivateUntilRegistered, Sessions, TypeOK
  <2>3. \A s \in Sessions : s # held[r] => container'[s] = container[s]
    BY <2>1 DEF TypeOK
  <2>4. NotBeforeRun'
    <3>1. \A s \in Sessions : s > rbiSeq => s # held[r]
      BY <2>2, ConstAssumption DEF TypeOK, Sessions
    <3>2. ASSUME NEW q \in Reqs, pc'[q] \in {"alloc", "run"} PROVE container'[held[q]] = "none"
      <4>1. q # r /\ pc[q] \in {"alloc", "run"} /\ pc[q] \in Fresh
        BY <3>2, <2>1 DEF TypeOK, Fresh
      <4>2. held[q] # held[r] /\ held[q] \in Sessions
        BY <4>1, <2>1, ConstAssumption DEF MapParts, PrivateUntilRegistered, Sessions, TypeOK
      <4>3. QED
        BY <4>1, <4>2, <2>3 DEF TrackParts, NotBeforeRun
    <3>3. QED
      BY <3>1, <3>2, <2>1, <2>3 DEF TrackParts, NotBeforeRun
  <2>5. ReplacesDeadOnly'
    <3> SUFFICES ASSUME NEW q \in Reqs, pc'[q] \in Fresh, byHost[host[q]] # 0
                 PROVE  container'[byHost[host[q]]] # "up"
      BY <2>1 DEF ReplacesDeadOnly
    <3>1. pc[q] \in Fresh
      BY <2>1 DEF TypeOK
    <3>2. host[q] \in Hosts /\ byHost[host[q]] \in Sessions
      BY <3>1, ConstAssumption DEF MapParts, PrivateUntilRegistered, TypeOK, Sessions
    <3>3. byHost[host[q]] # held[r]
      BY <3>2, <2>2 DEF Registered
    <3>4. QED
      BY <3>1, <3>2, <3>3, <2>3 DEF TrackParts, ReplacesDeadOnly
  <2>6. NoOrphan'
    <3>1. \A s \in Sessions : BeingLaunched(s) => (BeingLaunched(s))'
      BY <2>1 DEF BeingLaunched, TypeOK
    <3>2. (BeingLaunched(held[r]))'
      BY <2>1 DEF BeingLaunched, TypeOK
    <3>3. QED
      BY <3>1, <3>2, <2>1, <2>3 DEF TrackParts, NoOrphan, Registered, Doomed
  <2>7. QED
    BY <2>4, <2>5, <2>6 DEF TrackParts
<1>3. ASSUME NEW r \in Reqs, Register(r) PROVE TrackParts'
  <2>1. /\ UNCHANGED <<rbiSeq, held, host, container, tearing, gcDead>>
        /\ byHost' = [byHost EXCEPT ![host[r]] = held[r]]
        /\ pc' = [pc EXCEPT ![r] = "got"] /\ pc[r] \in Fresh
    BY <1>3 DEF Register, Goto, Fresh
  <2>2. host[r] \in Hosts /\ launchMu[host[r]] = r
    BY <2>1 DEF MapParts, PrivateUntilRegistered, LockHeld, Launching
  <2>3. \A q \in Reqs : pc'[q] \in Fresh => pc[q] \in Fresh /\ q # r
    BY <2>1 DEF TypeOK, Fresh
  <2>4. \A q \in Reqs : pc'[q] \in Fresh => host[q] \in Hosts /\ host[q] # host[r]
    BY <2>2, <2>3 DEF LockHeld, Launching, MapParts, PrivateUntilRegistered
  <2>5. NotBeforeRun'
    BY <2>1, <2>3 DEF TrackParts, NotBeforeRun, TypeOK, Fresh
  <2>6. ReplacesDeadOnly'
    BY <2>1, <2>3, <2>4 DEF TrackParts, ReplacesDeadOnly, TypeOK
  <2>7. NoOrphan'
    <3> SUFFICES ASSUME NEW s \in Sessions, container[s] = "up"
                 PROVE  (Registered(s))' \/ s \in Doomed \/ (BeingLaunched(s))'
      BY <2>1 DEF NoOrphan, Doomed
    <3>1. CASE Registered(s)
      <4>1. PICK h \in Hosts : byHost[h] = s
        BY <3>1 DEF Registered
      <4>2. h # host[r]
        BY <4>1, <2>1 DEF TrackParts, ReplacesDeadOnly, Sessions
      <4>3. QED
        BY <4>1, <4>2, <2>1 DEF Registered, TypeOK
    <3>2. CASE BeingLaunched(s)
      <4>1. CASE s = held[r]
        BY <4>1, <2>1, <2>2 DEF Registered, TypeOK
      <4>2. CASE s # held[r]
        BY <4>2, <3>2, <2>1 DEF BeingLaunched, TypeOK
      <4>3. QED
        BY <4>1, <4>2
    <3>3. QED
      BY <3>1, <3>2 DEF TrackParts, NoOrphan
  <2>8. QED
    BY <2>5, <2>6, <2>7 DEF TrackParts
<1>4. ASSUME KeepsTrack, OnlyRemoves,
             \A q \in Reqs : pc'[q] \in {"alloc", "run"} => pc[q] \in {"alloc", "run"}
      PROVE  TrackParts'
  BY <1>4, TrackKept
<1>5. CASE UNCHANGED vars
  BY <1>5, <1>4 DEF vars, KeepsTrack, OnlyRemoves, Registered, Doomed, BeingLaunched, TypeOK
<1>6. ASSUME OnlyRemoves, NEW r \in Reqs, ~NextSeq(r), ~Register(r), ~DockerRun(r),
             \/ \E h \in Hosts : Arrive(r, h)
             \/ LaunchStep(r)
             \/ ServeHttp(r) \/ ViewerAttach(r) \/ ViewerClose(r)
      PROVE  TrackParts'
  <2>1. KeepsTrack
    BY <1>6, TrackSteps DEF LaunchStep, DockerRunTimesOut, TrackParts
  <2>2. \/ pc[r] = "alloc" /\ Goto(r, "run")
        \/ \E l \in {"lock", "check", "got", "idle", "register", "undo", "viewing"} : Goto(r, l)
    BY <1>6 DEF LaunchStep, Arrive, TakeLaunchLock, Reuse, LastSeq, AllocPort, AllocFails,
                DockerRunFails, DockerRunTimesOut, Ready, NotReady, Undo, ServeHttp,
                ViewerAttach, ViewerClose, EndRequest, LaunchError, Goto
  <2>3. \A q \in Reqs : pc'[q] \in {"alloc", "run"} => pc[q] \in {"alloc", "run"}
    BY <2>2 DEF Goto, TypeOK
  <2>4. QED
    BY <2>1, <2>3, <1>4, <1>6
<1>7. ASSUME OnlyRemoves, NEW s \in Sessions,
             SessionStep(s) \/ IdlePasses(s) \/ ContainerDies(s)
      PROVE  TrackParts'
  <2>1. UNCHANGED pc
    BY <1>7 DEF SessionStep, TimerFires, TimerCallback, LateCallback, Teardown, GcTeardown,
                IdlePasses, ContainerDies
  <2>2. QED
    BY <2>1, <1>7, <1>4, TrackSessionSteps
<1>8. ASSUME OnlyRemoves, NEW unseen \in SUBSET Sessions, GcSweep(unseen) PROVE TrackParts'
  BY <1>8, <1>4, TrackSessionSteps DEF GcSweep
<1>9. ~ProxyRestart
  BY DEF ProxyRestart
<1>10. CASE \A r \in Reqs : ~NextSeq(r) /\ ~Register(r)
  BY <1>2, <1>5, <1>6, <1>7, <1>8, <1>9, <1>10, Removals DEF Next
<1>11. QED
  BY <1>1, <1>3, <1>10

\* The inductive invariant over containers, for a Docker daemon that answers and
\* a proxy that is not restarted.
LEMMA ContainerInvariant == ASSUME Faults = {} PROVE Spec => []ContainerInv
<1>1. Init => LockHeld /\ TrackParts
  <2> SUFFICES ASSUME Init PROVE LockHeld /\ TrackParts
    OBVIOUS
  <2>1. \A r \in Reqs : pc[r] \notin Launching
    BY DEF Init, Launching, Fresh
  <2>2. QED
    BY <2>1 DEF Init, LockHeld, TrackParts, NotBeforeRun, ReplacesDeadOnly, NoOrphan,
                Launching, Fresh
<1>2. TypeOK /\ HostKnown /\ LockHeld /\ [Next]_vars => LockHeld'
  BY LockStep
<1>3. TypeOK /\ TypeOK' /\ HostKnown /\ MapParts /\ LockHeld /\ TrackParts /\ [Next]_vars
        => TrackParts'
  BY ContainerStep
<1>4. MapInv <=> TypeOK /\ HostKnown /\ MapParts
  BY DEF MapInv, MapParts
<1>5. ContainerInv <=> MapInv /\ LockHeld /\ TrackParts
  BY DEF ContainerInv, TrackParts
<1>6. QED
  BY <1>1, <1>2, <1>3, <1>4, <1>5, MapInvariant, PTL DEF Spec

\* With a Docker daemon that answers and a proxy that is not restarted, every
\* running container is in the session map or has a goroutine that will register
\* or remove it: nothing is left behind by the launch, grace, teardown and
\* collector code, whatever its interleaving.
THEOREM NoOrphans == ASSUME Faults = {} PROVE Spec => []NoOrphan
<1>1. ContainerInv => NoOrphan
  BY DEF ContainerInv
<1>2. QED
  BY <1>1, ContainerInvariant, PTL

\* Under the same assumption the launch lock does what its comment promises: two
\* containers never run for one host, unless one of them is being removed.
THEOREM SingleContainer == ASSUME Faults = {} PROVE Spec => []OneContainerPerHost
<1>1. ContainerInv => OneContainerPerHost
  <2> SUFFICES ASSUME ContainerInv, NEW s \in Sessions, NEW t \in Sessions,
                      container[s] = "up", container[t] = "up", s \notin Doomed,
                      t \notin Doomed, hostOf[s] = hostOf[t]
               PROVE  s = t
    BY DEF OneContainerPerHost
  <2> USE DEF ContainerInv, MapInv
  <2>1. ASSUME NEW u \in Sessions, NEW h \in Hosts, byHost[h] = u PROVE hostOf[u] = h
    BY <2>1 DEF FiledUnderHost, Sessions
  <2>2. ASSUME NEW u \in Sessions, NEW r \in Reqs, held[r] = u,
               pc[r] \in {"wait", "register", "undo"}
        PROVE  /\ pc[r] \in Fresh /\ hostOf[u] = host[r]
               /\ launchMu[host[r]] = r
    BY <2>2 DEF PrivateUntilRegistered, LockHeld, Launching, Fresh
  <2>3. ASSUME NEW u \in Sessions, NEW v \in Sessions, container[u] = "up",
               Registered(u), BeingLaunched(v), hostOf[u] = hostOf[v]
        PROVE  FALSE
    <3>1. PICK h \in Hosts : byHost[h] = u
      BY <2>3 DEF Registered
    <3>2. PICK r \in Reqs : held[r] = v /\ pc[r] \in {"wait", "register", "undo"}
      BY <2>3 DEF BeingLaunched
    <3>3. pc[r] \in Fresh /\ host[r] = h
      BY <3>1, <3>2, <2>1, <2>2, <2>3
    <3>4. QED
      BY <3>1, <3>3, <2>3 DEF ReplacesDeadOnly, Sessions
  <2>4. CASE Registered(s) /\ Registered(t)
    BY <2>4, <2>1 DEF Registered
  <2>5. CASE BeingLaunched(s) /\ BeingLaunched(t)
    BY <2>5, <2>2 DEF BeingLaunched
  <2>6. QED
    BY <2>3, <2>4, <2>5 DEF NoOrphan
<1>2. QED
  BY <1>1, ContainerInvariant, PTL

-----------------------------------------------------------------------------
(* Viewers and grace timers.                                               *)

\* Each step keeps a pending grace timer and a counted viewer apart.
LEMMA ArmedStep ==
  ASSUME TypeOK, HostKnown, ArmedMeansEmpty, [Next]_vars
  PROVE  ArmedMeansEmpty'
<1> USE DEF reqVars, sessVars, tdVars
<1>1. ASSUME UNCHANGED viewers,
             \A s \in Sessions : timer'[s] = "armed" => timer[s] = "armed"
      PROVE  ArmedMeansEmpty'
  BY <1>1 DEF ArmedMeansEmpty
<1>2. CASE UNCHANGED <<viewers, timer>>
  BY <1>1, <1>2
<1>3. ASSUME NEW r \in Reqs, NEW h \in Hosts, Arrive(r, h) PROVE ArmedMeansEmpty'
  BY <1>2, <1>3 DEF Arrive
<1>4. ASSUME NEW r \in Reqs, Reuse(r) PROVE ArmedMeansEmpty'
  BY <1>1, <1>4 DEF Reuse, TypeOK
<1>5. ASSUME NEW r \in Reqs, LaunchStep(r), ~Reuse(r) PROVE ArmedMeansEmpty'
  BY <1>2, <1>5 DEF LaunchStep, TakeLaunchLock, NextSeq, LastSeq, AllocPort, AllocFails, DockerRun,
                    DockerRunFails, DockerRunTimesOut, Ready, NotReady, Undo, Register
<1>6. ASSUME NEW r \in Reqs, ServeHttp(r) PROVE ArmedMeansEmpty'
  BY <1>2, <1>6 DEF ServeHttp
<1>7. ASSUME NEW r \in Reqs, ViewerAttach(r) PROVE ArmedMeansEmpty'
  <2>1. ASSUME NEW s \in Sessions, timer' = [timer EXCEPT ![s] = "nil"],
               viewers' = [viewers EXCEPT ![s] = @ + 1]
        PROVE  ArmedMeansEmpty'
    BY <2>1 DEF ArmedMeansEmpty, TypeOK
  <2> QED BY <1>2, <1>7, <2>1 DEF ViewerAttach, OnPort
<1>8. ASSUME NEW r \in Reqs, ViewerClose(r) PROVE ArmedMeansEmpty'
  <2>1. ASSUME NEW s \in Sessions,
               viewers' = [viewers EXCEPT ![s] = IF @ > 0 THEN @ - 1 ELSE 0],
               \/ UNCHANGED timer
               \/ viewers[s] <= 1 /\ timer' = [timer EXCEPT ![s] = "armed"]
        PROVE  ArmedMeansEmpty'
    <3> SUFFICES ASSUME NEW t \in Sessions, timer'[t] = "armed" PROVE viewers'[t] = 0
      BY DEF ArmedMeansEmpty
    <3>1. viewers \in [Sessions -> Nat] /\ timer \in [Sessions -> {"nil", "armed", "fired", "done"}]
      BY DEF TypeOK
    <3>2. CASE t = s
      BY <2>1, <3>1, <3>2 DEF ArmedMeansEmpty
    <3>3. CASE t # s
      BY <2>1, <3>1, <3>3 DEF ArmedMeansEmpty
    <3> QED BY <3>2, <3>3
  <2>2. CASE UNCHANGED <<viewers, timer>>
    BY <1>2, <2>2
  <2>3. \A s \in Sessions : viewers[s] \in Nat
    BY DEF TypeOK
  <2> QED BY <1>8, <2>1, <2>2, <2>3 DEF ViewerClose, ViewerDetach, LastViewerLeft, OnPort
<1>9. ASSUME NEW s \in Sessions, SessionStep(s) \/ IdlePasses(s) \/ ContainerDies(s)
      PROVE  ArmedMeansEmpty'
  BY <1>1, <1>9 DEF SessionStep, TimerFires, TimerCallback, LateCallback, Teardown, GcTeardown,
                    IdlePasses, ContainerDies, TypeOK
<1>10. ASSUME NEW unseen \in SUBSET Sessions, GcSweep(unseen) PROVE ArmedMeansEmpty'
  BY <1>1, <1>10 DEF GcSweep
<1>11. CASE ProxyRestart BY <1>11 DEF ProxyRestart, ArmedMeansEmpty
<1>12. CASE UNCHANGED vars BY <1>2, <1>12 DEF vars
<1> QED
  BY <1>3, <1>4, <1>5, <1>6, <1>7, <1>8, <1>9, <1>10, <1>11, <1>12 DEF Next

\* A grace timer is pending only while no viewer is counted on its session, under
\* every fault and with recycled ports: rbiViewerAttach and rbiViewerDetach keep
\* count and timer in step even if they pick the wrong one of two sessions.
THEOREM ArmedSessions == Spec => []ArmedMeansEmpty
<1>1. Init => ArmedMeansEmpty BY DEF Init, ArmedMeansEmpty
<1>2. TypeOK /\ HostKnown /\ ArmedMeansEmpty /\ [Next]_vars => ArmedMeansEmpty' BY ArmedStep
<1> QED BY <1>1, <1>2, Typing, PTL DEF Spec

-----------------------------------------------------------------------------
(* The viewer count.                                                       *)

Watchers(s) == {r \in Reqs : pc[r] = "viewing" /\ attached[r] /\ held[r] = s}

Given == {"got", "viewing"}
WithPort == {"run", "wait", "undo", "register"} \cup Given

\* No two sessions have had the same port.
PortsApart == \A s, t \in Sessions : port[s] = port[t] /\ port[s] # None => s = t

\* A session that is handed out or on its way has a port.
HasPort ==
  /\ \A r \in Reqs : pc[r] \in WithPort => held[r] \in 1..rbiSeq /\ port[held[r]] \in Ports
  /\ \A s \in Sessions : Registered(s) => port[s] \in Ports

\* Nobody was given a session that is still under construction, and nobody is
\* counted on it.
UnseenUntilRegistered ==
  /\ \A q, r \in Reqs : pc[q] \in Given /\ pc[r] \in Fresh => held[q] # held[r]
  /\ \A r \in Reqs : pc[r] \in Fresh => viewers[held[r]] = 0
  /\ \A s \in Sessions : s > rbiSeq => viewers[s] = 0

\* The count of a session in the map is the number of its open tabs.
Counted ==
  \A s \in Sessions : Registered(s) =>
    IsFiniteSet(Watchers(s)) /\ viewers[s] = Cardinality(Watchers(s))

CountInv == PortsApart /\ HasPort /\ UnseenUntilRegistered /\ Counted

\* What a step does that neither opens nor closes a tab and gives nobody a session.
KeepsCount ==
  /\ UNCHANGED <<viewers, port, rbiSeq>>
  /\ \A s \in Sessions : (Registered(s))' => Registered(s)
  /\ \A q \in Reqs : pc'[q] = "viewing" <=> pc[q] = "viewing"
  /\ \A q \in Reqs : pc[q] = "viewing" => attached'[q] = attached[q]
  /\ \A q \in Reqs : pc'[q] \in Given => pc[q] \in Given
  /\ \A q \in Reqs : pc'[q] \in WithPort => pc[q] \in WithPort
  /\ \A q \in Reqs : pc'[q] \in Fresh => pc[q] \in Fresh
  /\ \A q \in Reqs : pc'[q] \in WithPort \cup Fresh => held'[q] = held[q]

\* Such a step keeps the count.
LEMMA CountKept == ASSUME CountInv, KeepsCount PROVE CountInv'
<1> USE DEF CountInv, KeepsCount
<1>1. PortsApart' BY DEF PortsApart
<1>2. HasPort' BY DEF HasPort
<1>3. UnseenUntilRegistered' BY DEF UnseenUntilRegistered, WithPort
<1>4. Counted'
  <2> SUFFICES ASSUME NEW s \in Sessions, (Registered(s))'
               PROVE  (IsFiniteSet(Watchers(s)) /\ viewers[s] = Cardinality(Watchers(s)))'
    BY DEF Counted
  <2>1. Watchers(s)' = Watchers(s) BY DEF Watchers, WithPort, Given
  <2> QED BY <2>1 DEF Counted
<1> QED BY <1>1, <1>2, <1>3, <1>4

\* Who keeps the count without looking at it.
LEMMA CountSteps ==
  ASSUME TypeOK, HostKnown, [Next]_vars, ~ProxyRestart,
         \A r \in Reqs : ~NextSeq(r) /\ ~Register(r) /\ ~Reuse(r) /\ ~ViewerAttach(r)
                         /\ ~ViewerClose(r) /\ \A p \in Ports : ~AllocPort(r, p)
  PROVE  KeepsCount
<1> USE DEF reqVars, sessVars, tdVars
<1>1. ASSUME NEW r \in Reqs, UNCHANGED <<viewers, port, rbiSeq, byHost>>, NEW l \in Phases,
             Goto(r, l),
             \/ l \notin WithPort \cup Fresh
             \/ held'[r] = held[r] /\ l \notin Given /\ pc[r] \in WithPort \cap Fresh,
             \A q \in Reqs : q # r => held'[q] = held[q] /\ attached'[q] = attached[q],
             pc[r] # "viewing"
      PROVE  KeepsCount
  <2>1. \A q \in Reqs : q # r => pc'[q] = pc[q] /\ held'[q] = held[q] /\ attached'[q] = attached[q]
    BY <1>1 DEF Goto, TypeOK
  <2>2. pc'[r] = l BY <1>1 DEF Goto, TypeOK
  <2>3. l # "viewing" BY <1>1 DEF Given, WithPort
  <2>4. \A s \in Sessions : (Registered(s))' => Registered(s) BY <1>1 DEF Registered
  <2> QED BY <1>1, <2>1, <2>2, <2>3, <2>4 DEF KeepsCount, Given, WithPort
<1>2. ASSUME NEW r \in Reqs, LaunchError(r), UNCHANGED <<viewers, port, rbiSeq, byHost>>,
             pc[r] # "viewing"
      PROVE  KeepsCount
  BY <1>1, <1>2, Labels DEF LaunchError, Goto, WithPort, Given, Fresh, TypeOK
<1>3. ASSUME NEW r \in Reqs, NEW h \in Hosts, Arrive(r, h) PROVE KeepsCount
  BY <1>1, <1>3, Labels DEF Arrive, WithPort, Given, Fresh
<1>4. ASSUME NEW r \in Reqs, TakeLaunchLock(r) PROVE KeepsCount
  BY <1>1, <1>4, Labels DEF TakeLaunchLock, WithPort, Given, Fresh
<1>5. ASSUME NEW r \in Reqs, DockerRun(r) \/ Ready(r) \/ NotReady(r) PROVE KeepsCount
  BY <1>1, <1>5, Labels DEF DockerRun, Ready, NotReady, WithPort, Given, Fresh
<1>6. ASSUME NEW r \in Reqs,
             LastSeq(r) \/ AllocFails(r) \/ DockerRunFails(r) \/ DockerRunTimesOut(r) \/ Undo(r)
      PROVE  KeepsCount
  BY <1>2, <1>6 DEF LastSeq, AllocFails, DockerRunFails, DockerRunTimesOut, Undo
<1>7. ASSUME NEW r \in Reqs, ServeHttp(r) PROVE KeepsCount
  BY <1>1, <1>7, Labels DEF ServeHttp, EndRequest, WithPort, Given, Fresh, TypeOK
<1>8. ASSUME UNCHANGED <<pc, held, attached, viewers, port, rbiSeq>>,
             \A s \in Sessions : (Registered(s))' => Registered(s)
      PROVE  KeepsCount
  BY <1>8 DEF KeepsCount
<1>9. ASSUME NEW s \in Sessions, TimerCallback(s) \/ LateCallback(s) PROVE KeepsCount
  <2>1. \A t \in Sessions : (Registered(t))' => Registered(t)
    BY <1>9 DEF TimerCallback, LateCallback, GraceExpired, Registered, TypeOK, Sessions
  <2> QED BY <1>8, <1>9, <2>1 DEF TimerCallback, LateCallback
<1>10. ASSUME NEW s \in Sessions,
              TimerFires(s) \/ Teardown(s) \/ GcTeardown(s) \/ IdlePasses(s) \/ ContainerDies(s)
       PROVE  KeepsCount
  BY <1>8, <1>10 DEF TimerFires, Teardown, GcTeardown, IdlePasses, ContainerDies, Registered
<1>11. ASSUME NEW unseen \in SUBSET Sessions, GcSweep(unseen) PROVE KeepsCount
  <2>1. \A t \in Sessions : (Registered(t))' => Registered(t)
    BY <1>11 DEF GcSweep, Registered, TypeOK, Sessions
  <2> QED BY <1>8, <1>11, <2>1 DEF GcSweep
<1>12. CASE UNCHANGED vars BY <1>8, <1>12 DEF vars, Registered
<1> QED
  BY <1>3, <1>4, <1>5, <1>6, <1>7, <1>9, <1>10, <1>11, <1>12 DEF Next, LaunchStep, SessionStep

\* The launch of a session, up to its entry in the map, and its reuse.
LEMMA CountLaunch ==
  ASSUME TypeOK, HostKnown, MapParts, CountInv, PortReuse = FALSE, NEW r \in Reqs,
         Reuse(r) \/ NextSeq(r) \/ Register(r) \/ \E p \in Ports : AllocPort(r, p)
  PROVE  CountInv'
<1> USE DEF reqVars, sessVars, tdVars, CountInv
<1>1. CASE Reuse(r)
  <2> DEFINE s == byHost[host[r]]
  <2>1. /\ UNCHANGED <<viewers, port, rbiSeq, byHost, attached>>
        /\ pc[r] = "check" /\ pc' = [pc EXCEPT ![r] = "got"] /\ held' = [held EXCEPT ![r] = s]
    BY <1>1 DEF Reuse, Goto
  <2>2. host[r] \in Hosts BY <2>1 DEF HostKnown
  <2>3. s \in Sessions /\ s \in 1..rbiSeq /\ Registered(s)
    BY <1>1, <2>2, ConstAssumption DEF Reuse, TypeOK, Sessions, MapParts, Numbered, Registered
  <2> HIDE DEF s
  <2>4. \A q \in Reqs : q # r => pc'[q] = pc[q] /\ held'[q] = held[q] BY <2>1 DEF TypeOK
  <2>5. pc'[r] = "got" /\ held'[r] = s BY <2>1 DEF TypeOK
  <2>6. \A t \in Sessions : (Registered(t))' <=> Registered(t) BY <2>1 DEF Registered
  <2>7. PortsApart' BY <2>1 DEF PortsApart
  <2>8. HasPort' BY <2>1, <2>3, <2>4, <2>5, <2>6 DEF HasPort
  <2>9. UnseenUntilRegistered'
    <3>1. \A q \in Reqs : pc[q] \in Fresh => held[q] # s
      BY <2>3 DEF MapParts, PrivateUntilRegistered
    <3>2. "got" \notin Fresh BY DEF Fresh
    <3> QED BY <2>1, <2>4, <2>5, <3>1, <3>2 DEF UnseenUntilRegistered
  <2>10. \A t \in Sessions : Watchers(t)' = Watchers(t)
    BY <2>1, <2>4, <2>5 DEF Watchers
  <2>11. Counted' BY <2>1, <2>6, <2>10 DEF Counted
  <2> QED BY <2>7, <2>8, <2>9, <2>11
<1>2. CASE NextSeq(r)
  <2> DEFINE n == rbiSeq + 1
  <2>1. /\ UNCHANGED <<viewers, port, byHost, attached>> /\ rbiSeq' = n
        /\ pc[r] = "check" /\ pc' = [pc EXCEPT ![r] = "alloc"] /\ held' = [held EXCEPT ![r] = n]
    BY <1>2 DEF NextSeq, Goto
  <2>2. n \in Sessions /\ n > rbiSeq /\ rbiSeq \in Nat
    BY <1>2, ConstAssumption DEF NextSeq, TypeOK, Sessions
  <2>3. 1..rbiSeq \subseteq 1..n /\ n \notin 1..rbiSeq BY <2>2
  <2>4. \A t \in Sessions : t > n => t > rbiSeq BY <2>2 DEF Sessions
  <2>5. \A q \in Reqs : q # r => pc'[q] = pc[q] /\ held'[q] = held[q] BY <2>1 DEF TypeOK
  <2>6. pc'[r] = "alloc" /\ held'[r] = n BY <2>1 DEF TypeOK
  <2> HIDE DEF n
  <2>7. \A t \in Sessions : (Registered(t))' <=> Registered(t) BY <2>1 DEF Registered
  <2>8. "alloc" \notin WithPort BY DEF WithPort, Given
  <2>9. PortsApart' BY <2>1 DEF PortsApart
  <2>10. HasPort' BY <2>1, <2>3, <2>5, <2>6, <2>7, <2>8 DEF HasPort
  <2>11. UnseenUntilRegistered'
    <3>1. viewers[n] = 0 BY <2>2 DEF UnseenUntilRegistered
    <3>2. \A q \in Reqs : pc[q] \in Given => held[q] # n
      BY <2>3 DEF HasPort, WithPort
    <3>3. "alloc" \notin Given BY DEF Given
    <3>4. \A q, u \in Reqs : pc'[q] \in Given /\ pc'[u] \in Fresh => held'[q] # held'[u]
      <4> SUFFICES ASSUME NEW q \in Reqs, NEW u \in Reqs, pc'[q] \in Given, pc'[u] \in Fresh
                   PROVE  held'[q] # held'[u]
        OBVIOUS
      <4>1. q # r /\ pc[q] \in Given /\ held'[q] = held[q] BY <2>5, <2>6, <3>3
      <4>2. CASE u = r BY <2>6, <3>2, <4>1, <4>2
      <4>3. CASE u # r BY <2>5, <4>1, <4>3 DEF UnseenUntilRegistered
      <4> QED BY <4>2, <4>3
    <3>5. \A q \in Reqs : pc'[q] \in Fresh => viewers[held'[q]] = 0
      BY <2>5, <2>6, <3>1 DEF UnseenUntilRegistered
    <3> QED BY <2>1, <2>4, <3>4, <3>5 DEF UnseenUntilRegistered
  <2>12. \A t \in Sessions : Watchers(t)' = Watchers(t)
    BY <2>1, <2>5, <2>6 DEF Watchers
  <2>13. Counted' BY <2>1, <2>7, <2>12 DEF Counted
  <2> QED BY <2>9, <2>10, <2>11, <2>13
<1>3. ASSUME NEW p \in Ports, AllocPort(r, p) PROVE CountInv'
  <2>1. /\ UNCHANGED <<viewers, byHost, attached, held, rbiSeq>>
        /\ pc[r] = "alloc" /\ pc' = [pc EXCEPT ![r] = "run"] /\ pc[r] \in Fresh
        /\ port' = [port EXCEPT ![held[r]] = p] /\ \A s \in Sessions : port[s] # p
    BY <1>3 DEF AllocPort, Goto, Fresh
  <2>2. held[r] \in 1..rbiSeq /\ held[r] \in Sessions /\ ~Registered(held[r])
    BY <2>1, ConstAssumption DEF MapParts, PrivateUntilRegistered, TypeOK, Sessions
  <2>3. port'[held[r]] = p /\ \A s \in Sessions : s # held[r] => port'[s] = port[s]
    BY <2>1, <2>2 DEF TypeOK
  <2>4. pc'[r] = "run" /\ \A q \in Reqs : q # r => pc'[q] = pc[q] BY <2>1 DEF TypeOK
  <2>5. \A s \in Sessions : (Registered(s))' <=> Registered(s) BY <2>1 DEF Registered
  <2>6. PortsApart' BY <2>1, <2>3 DEF PortsApart
  <2>7. HasPort'
    <3>1. ASSUME NEW q \in Reqs, q # r, pc[q] \in WithPort
          PROVE  held[q] \in 1..rbiSeq /\ port'[held[q]] \in Ports
      <4>1. held[q] \in 1..rbiSeq /\ port[held[q]] \in Ports BY <3>1 DEF HasPort
      <4>2. held[q] \in Sessions BY <4>1, ConstAssumption DEF TypeOK, Sessions
      <4> QED BY <2>3, <4>1, <4>2
    <3>2. \A s \in Sessions : Registered(s) => port'[s] \in Ports BY <2>2, <2>3 DEF HasPort
    <3> QED BY <2>1, <2>2, <2>3, <2>4, <2>5, <3>1, <3>2 DEF HasPort
  <2>8. UnseenUntilRegistered'
    BY <2>1, <2>4 DEF UnseenUntilRegistered, Given
  <2>9. \A t \in Sessions : Watchers(t)' = Watchers(t)
    BY <2>1, <2>4 DEF Watchers
  <2>10. Counted' BY <2>1, <2>5, <2>9 DEF Counted
  <2> QED BY <2>6, <2>7, <2>8, <2>10
<1>4. CASE Register(r)
  <2>1. /\ UNCHANGED <<viewers, port, attached, held, rbiSeq>>
        /\ pc[r] = "register" /\ pc' = [pc EXCEPT ![r] = "got"] /\ pc[r] \in Fresh
        /\ byHost' = [byHost EXCEPT ![host[r]] = held[r]]
    BY <1>4 DEF Register, Goto, Fresh
  <2>2. held[r] \in 1..rbiSeq /\ held[r] \in Sessions /\ port[held[r]] \in Ports
    BY <2>1, ConstAssumption DEF HasPort, WithPort, TypeOK, Sessions
  <2>3. pc'[r] = "got" /\ \A q \in Reqs : q # r => pc'[q] = pc[q] BY <2>1 DEF TypeOK
  <2>4. \A s \in Sessions : (Registered(s))' => Registered(s) \/ s = held[r]
    BY <2>1 DEF Registered, TypeOK
  <2>5. PortsApart' BY <2>1 DEF PortsApart
  <2>6. HasPort' BY <2>1, <2>2, <2>3, <2>4 DEF HasPort
  <2>7. UnseenUntilRegistered'
    <3>1. "got" \notin Fresh BY DEF Fresh
    <3>2. \A q \in Reqs : q # r /\ pc[q] \in Fresh => held[q] # held[r]
      BY <2>1 DEF MapParts, PrivateUntilRegistered
    <3> QED BY <2>1, <2>3, <3>1, <3>2 DEF UnseenUntilRegistered
  <2>8. \A t \in Sessions : Watchers(t)' = Watchers(t)
    BY <2>1, <2>3 DEF Watchers
  <2>9. Watchers(held[r]) = {} /\ viewers[held[r]] = 0
    BY <2>1 DEF UnseenUntilRegistered, Watchers, Given
  <2>10. IsFiniteSet({}) /\ Cardinality({}) = 0 BY FS_EmptySet
  <2>11. Counted' BY <2>1, <2>2, <2>4, <2>8, <2>9, <2>10 DEF Counted
  <2> QED BY <2>5, <2>6, <2>7, <2>11
<1> QED BY <1>1, <1>2, <1>3, <1>4

\* With ports that are never reused a lookup by a viewer's port finds its own
\* session or none.
LEMMA OwnSession ==
  ASSUME TypeOK, CountInv, NEW r \in Reqs, pc[r] \in Given
  PROVE  /\ held[r] \in Sessions
         /\ OnPort(port[held[r]]) = IF Registered(held[r]) THEN {held[r]} ELSE {}
<1>1. held[r] \in Sessions /\ port[held[r]] \in Ports
  BY ConstAssumption DEF CountInv, HasPort, WithPort, TypeOK, Sessions
<1>2. \A s \in Sessions : port[s] = port[held[r]] => s = held[r]
  BY <1>1, ConstAssumption DEF CountInv, PortsApart
<1> QED BY <1>1, <1>2 DEF OnPort

\* A tab opens.
LEMMA CountAttach ==
  ASSUME TypeOK, MapParts, CountInv, NEW r \in Reqs, ViewerAttach(r) PROVE CountInv'
<1> USE DEF sessVars, tdVars, CountInv
<1> DEFINE s == held[r]
<1>0. pc[r] = "got" /\ pc[r] \in Given BY DEF ViewerAttach, Given
<1>1. s \in Sessions /\ OnPort(port[s]) = IF Registered(s) THEN {s} ELSE {}
  BY <1>0, OwnSession
<1>2. /\ UNCHANGED <<port, byHost, held, rbiSeq>> /\ pc' = [pc EXCEPT ![r] = "viewing"]
  BY DEF ViewerAttach, Goto
<1>3. pc'[r] = "viewing" /\ \A q \in Reqs : q # r => pc'[q] = pc[q] BY <1>2 DEF TypeOK
<1>4. \A t \in Sessions : (Registered(t))' <=> Registered(t) BY <1>2 DEF Registered
<1>5. PortsApart' BY <1>2 DEF PortsApart
<1>6. HasPort' BY <1>0, <1>2, <1>3, <1>4 DEF HasPort, WithPort, Given
<1>7. \/ ~Registered(s) /\ UNCHANGED <<viewers, attached>>
      \/ Registered(s) /\ viewers' = [viewers EXCEPT ![s] = @ + 1]
                       /\ attached' = [attached EXCEPT ![r] = TRUE]
  BY <1>1 DEF ViewerAttach
<1>8. s \in 1..rbiSeq BY <1>0 DEF HasPort, WithPort
<1> HIDE DEF s
<1>9. \A t \in Sessions : t # s => viewers'[t] = viewers[t] BY <1>7 DEF TypeOK
<1>10. UnseenUntilRegistered'
  <2>1. "viewing" \notin Fresh BY DEF Fresh
  <2>2. \A q \in Reqs : pc[q] \in Fresh => held[q] # s
    BY <1>0 DEF UnseenUntilRegistered, s
  <2>3. \A q \in Reqs : pc[q] \in Fresh => held[q] \in Sessions
    BY ConstAssumption DEF MapParts, PrivateUntilRegistered, TypeOK, Sessions
  <2>4. \A t \in Sessions : t > rbiSeq => t # s BY <1>8, ConstAssumption DEF TypeOK, Sessions
  <2> QED BY <1>0, <1>2, <1>3, <1>9, <2>1, <2>2, <2>3, <2>4 DEF UnseenUntilRegistered
<1>11. Counted'
  <2> SUFFICES ASSUME NEW t \in Sessions, Registered(t)
               PROVE  (IsFiniteSet(Watchers(t)) /\ viewers[t] = Cardinality(Watchers(t)))'
    BY <1>4 DEF Counted
  <2>1. IsFiniteSet(Watchers(t)) /\ viewers[t] = Cardinality(Watchers(t)) BY DEF Counted
  <2>2. CASE t = s
    <3>1. r \notin Watchers(t) BY <1>0 DEF Watchers
    <3>2. attached'[r] = TRUE /\ \A q \in Reqs : q # r => attached'[q] = attached[q]
      BY <1>7, <2>2 DEF TypeOK
    <3>3. Watchers(t)' = Watchers(t) \cup {r}
      BY <1>2, <1>3, <2>2, <3>2 DEF Watchers, s
    <3>4. IsFiniteSet(Watchers(t) \cup {r})
          /\ Cardinality(Watchers(t) \cup {r}) = Cardinality(Watchers(t)) + 1
      BY <2>1, <3>1, FS_AddElement
    <3>5. viewers'[t] = viewers[t] + 1 BY <1>7, <2>2 DEF TypeOK
    <3> QED BY <2>1, <3>3, <3>4, <3>5
  <2>3. CASE t # s
    <3>1. \A q \in Reqs : q # r => attached'[q] = attached[q] BY <1>7 DEF TypeOK
    <3>2. Watchers(t)' = Watchers(t)
      BY <1>0, <1>2, <1>3, <2>3, <3>1 DEF Watchers, s
    <3> QED BY <1>9, <2>1, <2>3, <3>2
  <2> QED BY <2>2, <2>3
<1> QED BY <1>5, <1>6, <1>10, <1>11

\* A tab closes: what the deferred rbiViewerDetach does to the map and the counts.
LEMMA Detached ==
  ASSUME TypeOK, CountInv, NEW r \in Reqs, ViewerClose(r)
  PROVE  /\ pc[r] = "viewing" /\ held[r] \in Sessions
         /\ UNCHANGED <<port, rbiSeq>>
         /\ pc'[r] = "idle"
         /\ \A q \in Reqs : q # r =>
              pc'[q] = pc[q] /\ held'[q] = held[q] /\ attached'[q] = attached[q]
         /\ \/ ~(attached[r] /\ Registered(held[r])) /\ UNCHANGED <<viewers, byHost>>
            \/ /\ attached[r] /\ Registered(held[r])
               /\ viewers' = [viewers EXCEPT ![held[r]] = IF @ > 0 THEN @ - 1 ELSE 0]
               /\ \/ UNCHANGED byHost
                  \/ /\ viewers[held[r]] <= 1
                     /\ byHost' = [h \in Hosts |-> IF byHost[h] = held[r] THEN 0 ELSE byHost[h]]
<1>1. pc[r] = "viewing" /\ pc[r] \in Given BY DEF ViewerClose, Given
<1>2. held[r] \in Sessions /\ OnPort(port[held[r]]) = IF Registered(held[r]) THEN {held[r]} ELSE {}
  BY <1>1, OwnSession
<1>3. viewers[held[r]] \in Nat BY <1>2 DEF TypeOK
<1>4. pc'[r] = "idle" /\ \A q \in Reqs : q # r =>
        pc'[q] = pc[q] /\ held'[q] = held[q] /\ attached'[q] = attached[q]
  BY DEF ViewerClose, EndRequest, Goto, TypeOK
<1>5. CASE ~attached[r] BY <1>1, <1>2, <1>4, <1>5 DEF ViewerClose
<1>6. CASE attached[r] /\ ~Registered(held[r])
  BY <1>1, <1>2, <1>4, <1>6 DEF ViewerClose, ViewerDetach
<1>7. CASE attached[r] /\ Registered(held[r])
  <2>1. ViewerDetach(port[held[r]]) /\ UNCHANGED <<port, rbiSeq>> BY <1>7 DEF ViewerClose
  <2>2. /\ viewers' = [viewers EXCEPT ![held[r]] = IF @ > 0 THEN @ - 1 ELSE 0]
        /\ IF viewers[held[r]] > 1 THEN UNCHANGED byHost ELSE LastViewerLeft(held[r])
    BY <1>2, <1>7, <2>1 DEF ViewerDetach
  <2>3. \/ UNCHANGED byHost
        \/ /\ viewers[held[r]] <= 1
           /\ byHost' = [h \in Hosts |-> IF byHost[h] = held[r] THEN 0 ELSE byHost[h]]
    BY <1>3, <2>2 DEF LastViewerLeft
  <2> QED BY <1>1, <1>2, <1>4, <1>7, <2>1, <2>2, <2>3
<1> QED BY <1>5, <1>6, <1>7

LEMMA CountClose ==
  ASSUME TypeOK, MapParts, CountInv, NEW r \in Reqs, ViewerClose(r) PROVE CountInv'
<1> USE DEF CountInv
<1> DEFINE s == held[r]
<1>1. /\ pc[r] = "viewing" /\ s \in Sessions /\ UNCHANGED <<port, rbiSeq>> /\ pc'[r] = "idle"
      /\ \A q \in Reqs : q # r => pc'[q] = pc[q] /\ held'[q] = held[q] /\ attached'[q] = attached[q]
  BY Detached
<1>2. \/ ~(attached[r] /\ Registered(s)) /\ UNCHANGED viewers
      \/ /\ attached[r] /\ Registered(s)
         /\ viewers' = [viewers EXCEPT ![s] = IF @ > 0 THEN @ - 1 ELSE 0]
  BY Detached
<1>3. \A t \in Sessions : (Registered(t))' => Registered(t)
  BY Detached DEF Registered, Sessions
<1>4. s \in 1..rbiSeq BY <1>1 DEF HasPort, WithPort, Given
<1>5. PortsApart' BY <1>1 DEF PortsApart
<1>6. HasPort' BY <1>1, <1>3 DEF HasPort, WithPort, Given
<1>7. \A q \in Reqs : pc[q] \in Fresh => held[q] # s /\ held[q] \in Sessions
  BY <1>1, ConstAssumption DEF UnseenUntilRegistered, Given, MapParts, PrivateUntilRegistered,
                               TypeOK, Sessions
<1> HIDE DEF s
<1>8. \A t \in Sessions : t # s => viewers'[t] = viewers[t] BY <1>2 DEF TypeOK
<1>9. UnseenUntilRegistered'
  <2>1. "idle" \notin Fresh /\ "idle" \notin Given BY DEF Fresh, Given
  <2>2. \A t \in Sessions : t > rbiSeq => t # s BY <1>4, ConstAssumption DEF TypeOK, Sessions
  <2> QED BY <1>1, <1>7, <1>8, <2>1, <2>2 DEF UnseenUntilRegistered
<1>10. Counted'
  <2> SUFFICES ASSUME NEW t \in Sessions, Registered(t)
               PROVE  (IsFiniteSet(Watchers(t)) /\ viewers[t] = Cardinality(Watchers(t)))'
    BY <1>3 DEF Counted
  <2>1. IsFiniteSet(Watchers(t)) /\ viewers[t] = Cardinality(Watchers(t)) BY DEF Counted
  <2>2. CASE t = s /\ attached[r]
    <3>1. r \in Watchers(t) BY <1>1, <2>2 DEF Watchers, s
    <3>2. Watchers(t)' = Watchers(t) \ {r} BY <1>1 DEF Watchers
    <3>3. IsFiniteSet(Watchers(t) \ {r})
          /\ Cardinality(Watchers(t) \ {r}) = Cardinality(Watchers(t)) - 1
      BY <2>1, <3>1, FS_RemoveElement
    <3>4. viewers[t] \in Nat /\ viewers[t] # 0
      BY <2>1, <3>1, FS_EmptySet DEF TypeOK
    <3>5. viewers'[t] = viewers[t] - 1 BY <1>2, <2>2, <3>4 DEF TypeOK
    <3> QED BY <2>1, <3>2, <3>3, <3>5
  <2>3. CASE ~(t = s /\ attached[r])
    <3>1. r \notin Watchers(t) BY <2>3 DEF Watchers, s
    <3>2. Watchers(t)' = Watchers(t) BY <1>1, <3>1 DEF Watchers
    <3>3. viewers'[t] = viewers[t] BY <1>2, <1>8, <2>3
    <3> QED BY <2>1, <3>2, <3>3
  <2> QED BY <2>2, <2>3
<1> QED BY <1>5, <1>6, <1>9, <1>10

\* The count is right in every reachable state, docker's faults and restarts of the
\* proxy included, if no port is used twice.
LEMMA CountInvariant == ASSUME PortReuse = FALSE PROVE Spec => []CountInv
<1>1. Init => CountInv
  <2> SUFFICES ASSUME Init PROVE CountInv
    OBVIOUS
  <2>1. \A r \in Reqs : pc[r] \notin WithPort /\ pc[r] \notin Fresh /\ pc[r] \notin Given
    BY DEF Init, WithPort, Fresh, Given
  <2>2. \A s \in Sessions : ~Registered(s) BY DEF Init, Registered, Sessions
  <2> QED
    BY <2>1, <2>2 DEF Init, CountInv, PortsApart, HasPort, UnseenUntilRegistered, Counted
<1>2. TypeOK /\ HostKnown /\ MapParts /\ CountInv /\ [Next]_vars => CountInv'
  <2> SUFFICES ASSUME TypeOK, HostKnown, MapParts, CountInv, [Next]_vars PROVE CountInv'
    OBVIOUS
  <2>1. CASE ProxyRestart
    <3>1. \A r \in Reqs : pc'[r] \notin WithPort /\ pc'[r] \notin Fresh /\ pc'[r] \notin Given
      BY <2>1 DEF ProxyRestart, WithPort, Fresh, Given
    <3>2. \A s \in Sessions : ~(Registered(s))' BY <2>1 DEF ProxyRestart, Registered, Sessions
    <3>3. UNCHANGED <<port, rbiSeq>> /\ \A s \in Sessions : viewers'[s] = 0
      BY <2>1 DEF ProxyRestart
    <3> QED
      BY <3>1, <3>2, <3>3 DEF CountInv, PortsApart, HasPort, UnseenUntilRegistered, Counted
  <2> QED BY <2>1, CountKept, CountSteps, CountLaunch, CountAttach, CountClose
<1>3. MapInv <=> TypeOK /\ HostKnown /\ MapParts
  BY DEF MapInv, MapParts
<1> QED BY <1>1, <1>2, <1>3, MapInvariant, PTL DEF Spec

\* A session in the map without counted viewers has no open tab.
LEMMA NoneCounted ==
  ASSUME CountInv, NEW s \in Sessions, Registered(s), viewers[s] = 0 PROVE ~Watched(s)
<1>1. Watchers(s) = {} BY FS_EmptySet DEF CountInv, Counted
<1> QED BY <1>1 DEF Watchers, Watched

\* Only the last tab's own closing, the grace callback and the collector take a
\* running session out of the map, and each has seen that nobody else watches.
LEMMA ReapsUnwatched ==
  ASSUME Faults = {}, ContainerInv, CountInv, [Next]_vars, NEW s \in Sessions,
         Registered(s), ~(Registered(s))', container[s] = "up"
  PROVE  ~(Watched(s))'
<1> USE DEF reqVars, sessVars, tdVars, ContainerInv, MapInv
<1>1. byHost' # byHost BY DEF Registered
<1>2. ASSUME NEW r \in Reqs, Register(r) PROVE FALSE
  <2>1. /\ byHost' = [byHost EXCEPT ![host[r]] = held[r]] /\ pc[r] \in Fresh
    BY <1>2 DEF Register, Fresh
  <2>2. PICK h \in Hosts : byHost[h] = s BY DEF Registered
  <2>3. h = host[r] BY <2>1, <2>2 DEF Registered, TypeOK
  <2> QED BY <2>1, <2>2, <2>3 DEF ReplacesDeadOnly, Sessions
<1>3. ASSUME NEW r \in Reqs, ViewerClose(r) PROVE ~(Watched(s))'
  <2>1. /\ pc[r] = "viewing" /\ pc'[r] = "idle" /\ attached[r]
        /\ \A q \in Reqs : q # r => pc'[q] = pc[q] /\ held'[q] = held[q] /\ attached'[q] = attached[q]
        /\ viewers[held[r]] <= 1
        /\ byHost' = [h \in Hosts |-> IF byHost[h] = held[r] THEN 0 ELSE byHost[h]]
    BY <1>1, <1>3, Detached
  <2>2. held[r] = s BY <2>1 DEF Registered
  <2>3. IsFiniteSet(Watchers(s)) /\ viewers[s] = Cardinality(Watchers(s))
    BY DEF CountInv, Counted
  <2>4. r \in Watchers(s) BY <2>1, <2>2 DEF Watchers
  <2>5. IsFiniteSet(Watchers(s) \ {r})
        /\ Cardinality(Watchers(s) \ {r}) = Cardinality(Watchers(s)) - 1
    BY <2>3, <2>4, FS_RemoveElement
  <2>6. Cardinality(Watchers(s) \ {r}) \in Nat BY <2>5, FS_CardinalityType
  <2>7. viewers[s] \in Nat BY DEF TypeOK
  <2>8. Cardinality(Watchers(s) \ {r}) = 0 BY <2>1, <2>2, <2>3, <2>5, <2>6, <2>7
  <2>9. Watchers(s) \ {r} = {} BY <2>5, <2>8, FS_EmptySet
  <2> QED BY <2>1, <2>9 DEF Watched, Watchers
<1>4. ASSUME UNCHANGED <<pc, attached, held>>, viewers[s] = 0 PROVE ~(Watched(s))'
  BY <1>4, NoneCounted DEF Watched
<1>5. ASSUME NEW t \in Sessions, TimerCallback(t) \/ LateCallback(t) PROVE ~(Watched(s))'
  <2>1. GraceExpired(t) /\ UNCHANGED <<pc, attached, held>>
    BY <1>5 DEF TimerCallback, LateCallback
  <2>2. viewers[t] = 0 /\ \E h \in Hosts : byHost[h] = t /\ byHost' = [byHost EXCEPT ![h] = 0]
    BY <1>1, <2>1 DEF GraceExpired
  <2>3. t = s BY <2>2 DEF Registered, TypeOK
  <2> QED BY <1>4, <2>1, <2>2, <2>3
<1>6. ASSUME NEW unseen \in SUBSET Sessions, GcSweep(unseen) PROVE ~(Watched(s))'
  <2>1. unseen = {} /\ UNCHANGED <<pc, attached, held>> BY <1>6 DEF GcSweep
  <2>2. s \in Reapable(unseen) BY <1>6 DEF GcSweep, Registered
  <2>3. viewers[s] = 0 BY <2>1, <2>2 DEF Reapable
  <2> QED BY <1>4, <2>1, <2>3
<1>7. ASSUME NEW r \in Reqs, LaunchStep(r) \/ ServeHttp(r) \/ ViewerAttach(r) \/ \E h \in Hosts : Arrive(r, h)
      PROVE  FALSE
  BY <1>1, <1>2, <1>7 DEF LaunchStep, TakeLaunchLock, Reuse, NextSeq, LastSeq, AllocPort, AllocFails,
       DockerRun, DockerRunFails, DockerRunTimesOut, Ready, NotReady, Undo, ServeHttp, ViewerAttach, Arrive
<1>8. ASSUME NEW t \in Sessions,
             TimerFires(t) \/ Teardown(t) \/ GcTeardown(t) \/ IdlePasses(t) \/ ContainerDies(t)
      PROVE  FALSE
  BY <1>1, <1>8 DEF TimerFires, Teardown, GcTeardown, IdlePasses, ContainerDies
<1>9. ~ProxyRestart /\ ~UNCHANGED vars BY <1>1 DEF ProxyRestart, vars
<1> QED BY <1>3, <1>5, <1>6, <1>7, <1>8, <1>9 DEF Next, SessionStep

\* With ports that are not reused, a Docker daemon that answers and a proxy that is
\* not restarted, nothing takes the running container of an open tab out of the map,
\* however many tabs of however many hosts come and go.
THEOREM TabsKept ==
  ASSUME Faults = {}, PortReuse = FALSE PROVE Spec => WatchedNeverReaped
<1>1. ContainerInv /\ CountInv /\ [Next]_vars
        => [\A s \in Sessions :
              Registered(s) /\ ~(Registered(s))' /\ container[s] = "up" => ~(Watched(s))']_vars
  BY ReapsUnwatched
<1> QED BY <1>1, ContainerInvariant, CountInvariant, PTL DEF Spec, WatchedNeverReaped
=============================================================================
