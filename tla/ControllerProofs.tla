-------------------------- MODULE ControllerProofs --------------------------
(***************************************************************************)
(* Proofs about Controller: type correctness, the exact reference counts   *)
(* of the allowlist, the removal of every container by one goroutine, and  *)
(* that the Manager implements EgressPolicy.                               *)
(***************************************************************************)
EXTENDS Controller, FiniteSetTheorems, TLAPS

\* A registered session has passed register(), and so has one that is being
\* removed; a session has a host from the moment Launch derived it.
Lifecycle ==
  /\ \A i \in sessions : pc[i] \in Begun
  /\ \A i \in Ids : BeingRemoved(i) => pc[i] \in Begun
  /\ \A i \in Ids : pc[i] \in {"run", "register"} \cup Begun => hostOf[i] \in Hosts

\* Whoever removes a session's container is alone, and the session is out of
\* the registry.
SoleRemover ==
  /\ \A w \in Workers : busy[w] # None => busy[w] \notin sessions /\ pc[busy[w]] # "rm"
  /\ \A v, w \in Workers : busy[v] = busy[w] /\ busy[v] # None => v = w
  /\ \A i \in Ids : pc[i] = "rm" => i \notin sessions

\* The constants of the model as the provers need them.
LEMMA WorkersAreThree == IsFiniteSet(Workers) /\ None \notin Ids /\ None \notin Hosts
<1>1. IsFiniteSet({"gc", "shutdown", "client"})
  <2>1. IsFiniteSet({}) BY FS_EmptySet
  <2>2. IsFiniteSet({} \cup {"gc"}) BY <2>1, FS_AddElement
  <2>3. IsFiniteSet(({} \cup {"gc"}) \cup {"shutdown"}) BY <2>2, FS_AddElement
  <2>4. IsFiniteSet((({} \cup {"gc"}) \cup {"shutdown"}) \cup {"client"}) BY <2>3, FS_AddElement
  <2>5. (({} \cup {"gc"}) \cup {"shutdown"}) \cup {"client"} = {"gc", "shutdown", "client"}
    OBVIOUS
  <2> QED BY <2>4, <2>5
<1> QED BY <1>1, ConstAssumption DEF Workers

-----------------------------------------------------------------------------
(* Type correctness.                                                       *)

\* Every step of the Manager preserves the types and the life cycle together:
\* a reference count is taken and released for a host in the domain of the map.
LEMMA Typing == TypeOK /\ Lifecycle /\ [Next]_vars => TypeOK' /\ Lifecycle'
<1> SUFFICES ASSUME TypeOK, Lifecycle, [Next]_vars PROVE TypeOK' /\ Lifecycle'
  OBVIOUS
<1> USE WorkersAreThree
<1>1. ASSUME NEW i \in Ids, NEW h \in Hosts, Launch(i, h) PROVE TypeOK' /\ Lifecycle'
  BY <1>1 DEF TypeOK, Lifecycle, Launch, Goto, Phases, Begun, BeingRemoved
<1>2. ASSUME NEW i \in Ids, LaunchRejected(i) PROVE TypeOK' /\ Lifecycle'
  BY <1>2 DEF TypeOK, Lifecycle, LaunchRejected, Goto, Phases, Begun, BeingRemoved
<1>3. ASSUME NEW i \in Ids, DockerRun(i) PROVE TypeOK' /\ Lifecycle'
  BY <1>3 DEF TypeOK, Lifecycle, DockerRun, Goto, Phases, Begun, BeingRemoved
<1>4. ASSUME NEW i \in Ids, DockerRunFails(i) PROVE TypeOK' /\ Lifecycle'
  BY <1>4 DEF TypeOK, Lifecycle, DockerRunFails, Goto, Phases, Begun, BeingRemoved
<1>5. ASSUME NEW i \in Ids, Register(i) PROVE TypeOK' /\ Lifecycle'
  BY <1>5 DEF TypeOK, Lifecycle, Register, AddSession, Goto, Phases, Begun, BeingRemoved
<1>6. ASSUME NEW i \in Ids, Ready(i) PROVE TypeOK' /\ Lifecycle'
  BY <1>6 DEF TypeOK, Lifecycle, Ready, Goto, Phases, Begun, BeingRemoved
<1>7. ASSUME NEW i \in Ids, NotReady(i) PROVE TypeOK' /\ Lifecycle'
  BY <1>7 DEF TypeOK, Lifecycle, NotReady, Goto, Phases, Begun, BeingRemoved
<1>8. ASSUME NEW i \in Ids, Undo(i) PROVE TypeOK' /\ Lifecycle'
  BY <1>8 DEF TypeOK, Lifecycle, Undo, DropSession, Goto, Phases, Begun, BeingRemoved
<1>9. ASSUME NEW i \in Ids, UndoRm(i) PROVE TypeOK' /\ Lifecycle'
  BY <1>9 DEF TypeOK, Lifecycle, UndoRm, RemoveContainer, Goto, Phases, Begun, BeingRemoved
<1>10. ASSUME NEW i \in Ids, Touch(i) \/ IdlePasses(i) PROVE TypeOK' /\ Lifecycle'
  BY <1>10 DEF TypeOK, Lifecycle, Touch, IdlePasses, BeingRemoved
<1>11. ASSUME NEW i \in Ids, ContainerDies(i) PROVE TypeOK' /\ Lifecycle'
  BY <1>11 DEF TypeOK, Lifecycle, ContainerDies, BeingRemoved
<1>12. ASSUME NEW i \in Ids, ClientLeaves(i) PROVE TypeOK' /\ Lifecycle'
  BY <1>12 DEF TypeOK, Lifecycle, ClientLeaves, BeingRemoved
<1>13. CASE GcScan BY <1>13 DEF TypeOK, Lifecycle, GcScan, BeingRemoved
<1>14. CASE GcExit BY <1>14 DEF TypeOK, Lifecycle, GcExit, BeingRemoved
<1>15. CASE Shutdown BY <1>15 DEF TypeOK, Lifecycle, Shutdown, BeingRemoved
<1>16. CASE ShutdownList BY <1>16 DEF TypeOK, Lifecycle, ShutdownList, BeingRemoved
<1>17. ASSUME NEW w \in Workers, NEW i \in Ids, TeardownDrop(w, i)
       PROVE TypeOK' /\ Lifecycle'
  BY <1>17 DEF TypeOK, Lifecycle, TeardownDrop, DropSession, BeingRemoved
<1>18. ASSUME NEW w \in Workers, TeardownRm(w) PROVE TypeOK' /\ Lifecycle'
  BY <1>18 DEF TypeOK, Lifecycle, TeardownRm, RemoveContainer, BeingRemoved
<1>19. CASE UNCHANGED vars BY <1>19 DEF TypeOK, Lifecycle, vars, BeingRemoved
<1> QED
  BY <1>1, <1>2, <1>3, <1>4, <1>5, <1>6, <1>7, <1>8, <1>9, <1>10, <1>11, <1>12, <1>13,
     <1>14, <1>15, <1>16, <1>17, <1>18, <1>19
  DEF Next, LaunchStep, WorkerStep

\* The Manager's state has its type, for any sessions, hosts and faults: no
\* interleaving of launches and teardowns makes a reference count negative.
THEOREM ManagerTypes == Spec => []TypeOK
<1>1. Init => TypeOK /\ Lifecycle
  BY WorkersAreThree DEF Init, TypeOK, Lifecycle, Phases, Begun, BeingRemoved
<1> QED BY <1>1, Typing, PTL DEF Spec

\* The life cycle of sessions, for the proofs below.
LEMMA LifecycleInvariant == Spec => [](TypeOK /\ Lifecycle)
<1>1. Init => TypeOK /\ Lifecycle
  BY WorkersAreThree DEF Init, TypeOK, Lifecycle, Phases, Begun, BeingRemoved
<1> QED BY <1>1, Typing, PTL DEF Spec

-----------------------------------------------------------------------------
(* Reference counts.                                                       *)

\* The sessions of a host.
SessionsOf(h) == {i \in sessions : hostOf[i] = h}

\* They are finitely many.
LEMMA FewSessions == TypeOK => IsFiniteSet(sessions) /\ \A h : IsFiniteSet(SessionsOf(h))
<1> SUFFICES ASSUME TypeOK PROVE IsFiniteSet(sessions) /\ \A h : IsFiniteSet(SessionsOf(h))
  OBVIOUS
<1>1. IsFiniteSet(sessions) BY ConstAssumption, FS_Subset DEF TypeOK
<1>2. \A h : SessionsOf(h) \subseteq sessions BY DEF SessionsOf
<1> QED BY <1>1, <1>2, FS_Subset

\* register() adds one to the count of the session's host and no other.
LEMMA CountUp ==
  ASSUME TypeOK, Lifecycle, AllowlistExact, NEW i \in Ids, pc[i] = "register",
         AddSession(i), UNCHANGED hostOf
  PROVE  AllowlistExact'
<1> SUFFICES ASSUME NEW h \in Hosts
             PROVE allowed'[h] = Cardinality({j \in sessions' : hostOf'[j] = h})
  BY DEF AllowlistExact
<1> DEFINE T == {j \in sessions' : hostOf'[j] = h}
<1>1. i \notin sessions BY DEF Lifecycle, Begun
<1>2. IsFiniteSet(SessionsOf(h)) BY FewSessions
<1>3. allowed[h] = Cardinality(SessionsOf(h)) BY DEF AllowlistExact, SessionsOf
<1>4. CASE hostOf[i] = h
  <2>1. T = SessionsOf(h) \cup {i} BY <1>4 DEF AddSession, SessionsOf
  <2>2. Cardinality(SessionsOf(h) \cup {i}) = Cardinality(SessionsOf(h)) + 1
    BY <1>1, <1>2, FS_AddElement DEF SessionsOf
  <2>3. allowed'[h] = allowed[h] + 1 BY <1>4 DEF AddSession, TypeOK
  <2> HIDE DEF T
  <2>4. allowed'[h] = Cardinality(T) BY <2>1, <2>2, <2>3, <1>3
  <2> QED BY <2>4 DEF T
<1>5. CASE hostOf[i] # h
  <2>1. T = SessionsOf(h) BY <1>5 DEF AddSession, SessionsOf
  <2>2. allowed'[h] = allowed[h] BY <1>5 DEF AddSession, TypeOK
  <2> HIDE DEF T
  <2>3. allowed'[h] = Cardinality(T) BY <2>1, <2>2, <1>3
  <2> QED BY <2>3 DEF T
<1> QED BY <1>4, <1>5

\* Teardown takes one from the count of the session's host and no other; the
\* test that the count is positive never fails.
LEMMA CountDown ==
  ASSUME TypeOK, Lifecycle, AllowlistExact, NEW i \in Ids, DropSession(i), UNCHANGED hostOf
  PROVE  AllowlistExact'
<1> SUFFICES ASSUME NEW h \in Hosts
             PROVE allowed'[h] = Cardinality({j \in sessions' : hostOf'[j] = h})
  BY DEF AllowlistExact
<1> DEFINE T == {j \in sessions' : hostOf'[j] = h}
<1>2. IsFiniteSet(SessionsOf(h)) BY FewSessions
<1>3. allowed[h] = Cardinality(SessionsOf(h)) BY DEF AllowlistExact, SessionsOf
<1>4. CASE hostOf[i] = h
  <2>1. T = SessionsOf(h) \ {i} BY <1>4 DEF DropSession, SessionsOf
  <2>2. i \in SessionsOf(h) BY <1>4 DEF DropSession, SessionsOf
  <2>3. Cardinality(SessionsOf(h) \ {i}) = Cardinality(SessionsOf(h)) - 1
    BY <1>2, <2>2, FS_RemoveElement
  <2>4. Cardinality(SessionsOf(h)) > 0
    BY <1>2, <2>2, FS_EmptySet, FS_CardinalityType
  <2>5. allowed'[h] = allowed[h] - 1 BY <1>3, <1>4, <2>4 DEF DropSession, TypeOK
  <2> HIDE DEF T
  <2>6. allowed'[h] = Cardinality(T) BY <2>1, <2>3, <2>5, <1>3
  <2> QED BY <2>6 DEF T
<1>5. CASE hostOf[i] # h
  <2>1. T = SessionsOf(h) BY <1>5 DEF DropSession, SessionsOf
  <2>2. allowed'[h] = allowed[h] BY <1>5 DEF DropSession, TypeOK
  <2> HIDE DEF T
  <2>3. allowed'[h] = Cardinality(T) BY <2>1, <2>2, <1>3
  <2> QED BY <2>3 DEF T
<1> QED BY <1>4, <1>5

\* What a step can do to the registry: open a session, close one, choose the
\* host of a session that has not begun, or nothing.
RegistryKept == UNCHANGED <<sessions, allowed, hostOf>>

\* The four kinds of steps, with what each leaves of the set of sessions begun.
LEMMA StepKinds ==
  ASSUME TypeOK, Lifecycle, [Next]_vars
  PROVE  \/ \E i \in Ids : Register(i)
         \/ \E i \in Ids : /\ DropSession(i) /\ UNCHANGED hostOf
                           /\ {j \in Ids : pc'[j] \in Begun} = {j \in Ids : pc[j] \in Begun}
         \/ \E i \in Ids, h \in Hosts : Launch(i, h)
         \/ /\ RegistryKept
            /\ {j \in Ids : pc'[j] \in Begun} = {j \in Ids : pc[j] \in Begun}
<1> DEFINE BegunKept == {j \in Ids : pc'[j] \in Begun} = {j \in Ids : pc[j] \in Begun}
           Goal == \/ \E i \in Ids : Register(i)
                   \/ \E i \in Ids : DropSession(i) /\ UNCHANGED hostOf /\ BegunKept
                   \/ \E i \in Ids, h \in Hosts : Launch(i, h)
                   \/ RegistryKept /\ BegunKept
<1>1. ASSUME NEW i \in Ids, LaunchRejected(i) \/ DockerRun(i) \/ DockerRunFails(i)
      PROVE Goal
  BY <1>1 DEF LaunchRejected, DockerRun, DockerRunFails, RegistryKept, Goto, TypeOK, Begun
<1>2. ASSUME NEW i \in Ids, Ready(i) \/ NotReady(i) \/ UndoRm(i) PROVE Goal
  BY <1>2 DEF Ready, NotReady, UndoRm, RegistryKept, Goto, TypeOK, Begun
<1>3. ASSUME NEW i \in Ids, Undo(i) PROVE Goal
  <2>1. BegunKept BY <1>3 DEF Undo, Goto, TypeOK, Begun
  <2> QED BY <1>3, <2>1 DEF Undo, RegistryKept
<1>4. ASSUME NEW i \in Ids,
             Touch(i) \/ IdlePasses(i) \/ ContainerDies(i) \/ ClientLeaves(i)
      PROVE Goal
  BY <1>4 DEF Touch, IdlePasses, ContainerDies, ClientLeaves, RegistryKept
<1>5. ASSUME GcScan \/ GcExit \/ Shutdown \/ ShutdownList \/ UNCHANGED vars PROVE Goal
  BY <1>5 DEF GcScan, GcExit, Shutdown, ShutdownList, vars, RegistryKept
<1>6. ASSUME NEW w \in Workers, NEW i \in Ids, TeardownDrop(w, i) PROVE Goal
  <2>1. BegunKept BY <1>6 DEF TeardownDrop
  <2> QED BY <1>6, <2>1 DEF TeardownDrop, RegistryKept
<1>7. ASSUME NEW w \in Workers, TeardownRm(w) PROVE Goal
  BY <1>7 DEF TeardownRm, RegistryKept
<1> QED
  BY <1>1, <1>2, <1>3, <1>4, <1>5, <1>6, <1>7 DEF Next, LaunchStep, WorkerStep

\* The counts stay exact in every step.
LEMMA CountStep ==
  TypeOK /\ Lifecycle /\ AllowlistExact /\ [Next]_vars => AllowlistExact'
<1> SUFFICES ASSUME TypeOK, Lifecycle, AllowlistExact, [Next]_vars PROVE AllowlistExact'
  OBVIOUS
<1>1. ASSUME NEW i \in Ids, Register(i) PROVE AllowlistExact'
  BY <1>1, CountUp DEF Register
<1>2. ASSUME NEW i \in Ids, DropSession(i), UNCHANGED hostOf PROVE AllowlistExact'
  BY <1>2, CountDown
<1>3. ASSUME NEW i \in Ids, NEW h \in Hosts, Launch(i, h) PROVE AllowlistExact'
  <2>1. i \notin sessions BY <1>3 DEF Launch, Lifecycle, Begun
  <2>2. \A k \in Hosts : {j \in sessions' : hostOf'[j] = k} = SessionsOf(k)
    BY <1>3, <2>1 DEF Launch, SessionsOf, TypeOK
  <2> QED BY <1>3, <2>2 DEF Launch, AllowlistExact, SessionsOf
<1>4. CASE RegistryKept BY <1>4 DEF RegistryKept, AllowlistExact
<1> QED BY <1>1, <1>2, <1>3, <1>4, StepKinds

\* For any number of sessions and hosts, the count of a host in m.allowed is the
\* number of its registered sessions, whatever order the launches, the failed
\* launches, the clients, the collector and Shutdown take.
THEOREM ExactCounts == Spec => []AllowlistExact
<1>1. Init => AllowlistExact
  <2> SUFFICES ASSUME Init, NEW h \in Hosts
               PROVE allowed[h] = Cardinality({i \in sessions : hostOf[i] = h})
    BY DEF AllowlistExact
  <2>1. {i \in sessions : hostOf[i] = h} = {} BY DEF Init
  <2>2. Cardinality({}) = 0 BY FS_EmptySet
  <2> QED BY <2>1, <2>2 DEF Init
<1> QED BY <1>1, LifecycleInvariant, CountStep, PTL DEF Spec

-----------------------------------------------------------------------------
(* The Manager implements EgressPolicy.                                    *)

\* With exact counts, the permitted hosts are the hosts of the open sessions.
LEMMA PermittedAre ==
  ASSUME TypeOK, Lifecycle, AllowlistExact
  PROVE  Permitted = {hostOf[i] : i \in sessions}
<1>1. \A i \in sessions : hostOf[i] \in Hosts BY DEF Lifecycle, TypeOK
<1>2. ASSUME NEW h \in Hosts PROVE allowed[h] > 0 <=> \E i \in sessions : hostOf[i] = h
  <2>1. IsFiniteSet(SessionsOf(h)) BY FewSessions
  <2>2. allowed[h] = Cardinality(SessionsOf(h)) BY DEF AllowlistExact, SessionsOf
  <2>3. Cardinality(SessionsOf(h)) = 0 <=> SessionsOf(h) = {} BY <2>1, FS_EmptySet
  <2>4. SessionsOf(h) = {} <=> ~ \E i \in sessions : hostOf[i] = h BY DEF SessionsOf
  <2>5. allowed[h] \in Nat BY DEF TypeOK
  <2> QED BY <2>2, <2>3, <2>4, <2>5
<1> QED BY <1>1, <1>2 DEF Permitted

\* Every step of the Manager is a step of the policy or leaves it unchanged.
LEMMA PolicyStep ==
  ASSUME TypeOK, Lifecycle, AllowlistExact, TypeOK', Lifecycle', AllowlistExact', [Next]_vars
  PROVE  [Policy!Next]_(Policy!vars)
<1> DEFINE spent == {j \in Ids : pc[j] \in Begun}
<1>1. Permitted = {hostOf[i] : i \in sessions} BY PermittedAre
<1>2. Permitted' = {hostOf'[i] : i \in sessions'}
  <2>1. \A i \in sessions' : hostOf'[i] \in Hosts BY DEF Lifecycle, TypeOK
  <2>2. (TypeOK /\ Lifecycle /\ AllowlistExact => Permitted = {hostOf[i] : i \in sessions})'
    BY PermittedAre, PTL
  <2> QED BY <2>2
<1>3. ASSUME NEW i \in Ids, Register(i) PROVE Policy!Open(i)
  <2>1. i \notin spent BY <1>3 DEF Register, Begun
  <2>2. spent' = spent \cup {i} BY <1>3 DEF Register, Goto, TypeOK, Begun
  <2>3. sessions' = sessions \cup {i} /\ UNCHANGED hostOf BY <1>3 DEF Register, AddSession
  <2>4. Permitted' = Permitted \cup {hostOf[i]} BY <1>1, <1>2, <2>3
  <2> QED BY <2>1, <2>2, <2>3, <2>4 DEF Policy!Open
<1>4. ASSUME NEW i \in Ids, DropSession(i), UNCHANGED hostOf, spent' = spent
      PROVE Policy!Close(i)
  <2>1. Permitted' = {hostOf[j] : j \in sessions \ {i}} BY <1>2, <1>4 DEF DropSession
  <2> QED BY <1>4, <2>1 DEF DropSession, Policy!Close, Policy!HostsOf
<1>5. ASSUME NEW i \in Ids, NEW h \in Hosts, Launch(i, h) PROVE Policy!Choose(i)
  <2>1. i \notin spent BY <1>5 DEF Launch, Begun
  <2>2. spent' = spent BY <1>5 DEF Launch, Goto, TypeOK, Begun
  <2>3. Permitted' = Permitted BY <1>5 DEF Launch, Permitted
  <2> QED BY <1>5, <2>1, <2>2, <2>3 DEF Policy!Choose, Launch
<1>6. ASSUME RegistryKept, spent' = spent PROVE UNCHANGED Policy!vars
  BY <1>6 DEF RegistryKept, Policy!vars, Permitted
<1> QED BY <1>3, <1>4, <1>5, <1>6, StepKinds DEF Policy!Next

\* For any sessions, hosts and faults, the Manager implements EgressPolicy: a
\* host is permitted exactly while a session for it is open, and a session that
\* was torn down never opens again.
THEOREM ImplementsPolicy == Spec => PolicySpec
<1>1. Init => Policy!Init
  BY DEF Init, Policy!Init, Permitted, Begun
<1>2. Spec => [](TypeOK /\ Lifecycle /\ AllowlistExact)
  BY LifecycleInvariant, ExactCounts, PTL
<1>3. (TypeOK /\ Lifecycle /\ AllowlistExact) /\ (TypeOK /\ Lifecycle /\ AllowlistExact)'
        /\ [Next]_vars => [Policy!Next]_(Policy!vars)
  BY PolicyStep
<1> QED BY <1>1, <1>2, <1>3, PTL DEF Spec, Policy!Spec, PolicySpec

-----------------------------------------------------------------------------
(* Teardown from several goroutines.                                       *)

\* A session enters docker rm through the critical section of Teardown, which
\* only one goroutine can pass; a removal does not put it back.
LEMMA RemoverStep ==
  TypeOK /\ Lifecycle /\ SoleRemover /\ [Next]_vars => SoleRemover'
<1> SUFFICES ASSUME TypeOK, Lifecycle, SoleRemover, [Next]_vars PROVE SoleRemover'
  OBVIOUS
<1> USE WorkersAreThree
<1>1. ASSUME NEW i \in Ids, Undo(i) PROVE SoleRemover'
  BY <1>1 DEF Undo, DropSession, Goto, TypeOK, SoleRemover
<1>2. ASSUME NEW i \in Ids, UndoRm(i) PROVE SoleRemover'
  BY <1>2 DEF UndoRm, Goto, TypeOK, SoleRemover
<1>3. ASSUME NEW i \in Ids, Register(i) PROVE SoleRemover'
  BY <1>3 DEF Register, AddSession, Goto, TypeOK, SoleRemover, Lifecycle, BeingRemoved, Begun
<1>4. ASSUME NEW w \in Workers, NEW i \in Ids, TeardownDrop(w, i) PROVE SoleRemover'
  BY <1>4 DEF TeardownDrop, DropSession, TypeOK, SoleRemover
<1>5. ASSUME NEW w \in Workers, TeardownRm(w) PROVE SoleRemover'
  BY <1>5 DEF TeardownRm, TypeOK, SoleRemover
<1>6. ASSUME NEW i \in Ids,
             \/ LaunchRejected(i) \/ DockerRun(i) \/ DockerRunFails(i)
             \/ Ready(i) \/ NotReady(i) \/ \E h \in Hosts : Launch(i, h)
      PROVE SoleRemover'
  BY <1>6 DEF LaunchRejected, DockerRun, DockerRunFails, Ready, NotReady, Launch, Goto,
              TypeOK, SoleRemover
<1>7. ASSUME UNCHANGED <<pc, busy, sessions>> PROVE SoleRemover'
  BY <1>7 DEF SoleRemover
<1>8. ASSUME NEW i \in Ids,
             Touch(i) \/ IdlePasses(i) \/ ContainerDies(i) \/ ClientLeaves(i)
      PROVE UNCHANGED <<pc, busy, sessions>>
  BY <1>8 DEF Touch, IdlePasses, ContainerDies, ClientLeaves
<1>9. ASSUME GcScan \/ GcExit \/ Shutdown \/ ShutdownList \/ UNCHANGED vars
      PROVE UNCHANGED <<pc, busy, sessions>>
  BY <1>9 DEF GcScan, GcExit, Shutdown, ShutdownList, vars
<1> QED
  BY <1>1, <1>2, <1>3, <1>4, <1>5, <1>6, <1>7, <1>8, <1>9 DEF Next, LaunchStep, WorkerStep

\* The inductive form says what RemovedOnce says by counting.
LEMMA SoleRemoverCounts == ASSUME TypeOK, SoleRemover PROVE RemovedOnce
<1> SUFFICES ASSUME NEW i \in Ids, BeingRemoved(i)
             PROVE /\ i \notin sessions
                   /\ Cardinality({w \in Workers : busy[w] = i})
                        + (IF pc[i] = "rm" THEN 1 ELSE 0) = 1
  BY DEF RemovedOnce
<1> DEFINE W == {w \in Workers : busy[w] = i}
<1>0. i # None BY WorkersAreThree
<1>1. CASE pc[i] = "rm"
  <2>1. W = {} BY <1>0, <1>1 DEF SoleRemover
  <2>2. Cardinality(W) = 0 BY <2>1, FS_EmptySet
  <2> QED BY <1>1, <2>2 DEF SoleRemover
<1>2. CASE pc[i] # "rm"
  <2>1. PICK w \in Workers : busy[w] = i BY <1>2 DEF BeingRemoved
  <2>2. W = {w} BY <1>0, <2>1 DEF SoleRemover
  <2>3. Cardinality({w}) = 1 BY FS_Singleton
  <2>4. i \notin sessions BY <1>0, <2>1 DEF SoleRemover
  <2>5. Cardinality(W) = 1 BY <2>2, <2>3
  <2> QED BY <1>2, <2>4, <2>5
<1> QED BY <1>1, <1>2

\* For any sessions, hosts and faults: while a session's container is being
\* removed exactly one goroutine does it, and the session is out of the map.
THEOREM OneRemover == Spec => []RemovedOnce
<1>1. Init => SoleRemover BY DEF Init, SoleRemover
<1>2. Spec => []SoleRemover BY <1>1, LifecycleInvariant, RemoverStep, PTL DEF Spec
<1> QED BY <1>2, LifecycleInvariant, SoleRemoverCounts, PTL

\* The kinds of steps NoHalfUpSession depends on.
LEMMA HalfUpStep ==
  ASSUME Faults = {}, TypeOK, Lifecycle, NoHalfUpSession, [Next]_vars
  PROVE  NoHalfUpSession'
<1> USE WorkersAreThree
<1>1. ASSUME NEW i \in Ids, DockerRun(i) \/ DockerRunFails(i) \/ Register(i)
      PROVE NoHalfUpSession'
  BY <1>1 DEF DockerRun, DockerRunFails, Register, AddSession, Goto, TypeOK, BeingRemoved,
              NoHalfUpSession
<1>2. ASSUME NEW i \in Ids, Ready(i) \/ NotReady(i) \/ LaunchRejected(i)
      PROVE NoHalfUpSession'
  BY <1>2 DEF Ready, NotReady, LaunchRejected, Goto, TypeOK, BeingRemoved, NoHalfUpSession
<1>3. ASSUME NEW i \in Ids, NEW h \in Hosts, Launch(i, h) PROVE NoHalfUpSession'
  BY <1>3 DEF Launch, Goto, TypeOK, BeingRemoved, NoHalfUpSession
<1>4. ASSUME NEW i \in Ids, Undo(i) PROVE NoHalfUpSession'
  BY <1>4 DEF Undo, DropSession, Goto, TypeOK, BeingRemoved, NoHalfUpSession
<1>5. ASSUME NEW i \in Ids, UndoRm(i) PROVE NoHalfUpSession'
  BY <1>5 DEF UndoRm, RemoveContainer, Goto, TypeOK, BeingRemoved, NoHalfUpSession
<1>6. ASSUME NEW i \in Ids, ContainerDies(i) PROVE NoHalfUpSession'
  BY <1>6 DEF ContainerDies, TypeOK, BeingRemoved, NoHalfUpSession
<1>7. ASSUME NEW w \in Workers, NEW i \in Ids, TeardownDrop(w, i) PROVE NoHalfUpSession'
  BY <1>7 DEF TeardownDrop, DropSession, TypeOK, BeingRemoved, NoHalfUpSession
<1>8. ASSUME NEW w \in Workers, TeardownRm(w) PROVE NoHalfUpSession'
  BY <1>8 DEF TeardownRm, RemoveContainer, TypeOK, BeingRemoved, NoHalfUpSession
<1>9. ASSUME UNCHANGED <<pc, busy, sessions, container>> PROVE NoHalfUpSession'
  BY <1>9 DEF BeingRemoved, NoHalfUpSession
<1>10. ASSUME NEW i \in Ids, Touch(i) \/ IdlePasses(i) \/ ClientLeaves(i)
       PROVE UNCHANGED <<pc, busy, sessions, container>>
  BY <1>10 DEF Touch, IdlePasses, ClientLeaves
<1>11. ASSUME GcScan \/ GcExit \/ Shutdown \/ ShutdownList \/ UNCHANGED vars
       PROVE UNCHANGED <<pc, busy, sessions, container>>
  BY <1>11 DEF GcScan, GcExit, Shutdown, ShutdownList, vars
<1> QED
  BY <1>1, <1>2, <1>3, <1>4, <1>5, <1>6, <1>7, <1>8, <1>9, <1>10, <1>11
  DEF Next, LaunchStep, WorkerStep

\* While Docker's calls do what they say, no running container is ever out of
\* reach of the Manager: the launch that gave up has removed its own.
THEOREM FailClosed == ASSUME Faults = {} PROVE Spec => []NoHalfUpSession
<1>1. Init => NoHalfUpSession BY DEF Init, NoHalfUpSession
<1>2. TypeOK /\ Lifecycle /\ NoHalfUpSession /\ [Next]_vars => NoHalfUpSession'
  BY HalfUpStep
<1> QED BY <1>1, <1>2, LifecycleInvariant, PTL DEF Spec
=============================================================================
