----------------------------- MODULE AndroidProofs -----------------------------
(***************************************************************************)
(* Theorems of AndroidService, for any number of callers, servers, clients *)
(* and events.                                                             *)
(***************************************************************************)
EXTENDS AndroidService, TLAPS

USE DEF Servers, Conns

\* The variables of the service keep their types: the first state.
THEOREM InitServiceTypeOK == Init => ServiceTypeOK
<1> SUFFICES ASSUME Init PROVE ServiceTypeOK
  OBVIOUS
<1>1. backlog \in [Servers -> Seq(Conns \cup {Wake})]
  BY DEF Init
<1>2. copy \in [Conns -> [Directions -> {"none", "copying", "ended"}]]
  BY DEF Init
<1>3. events \in 0 .. MaxEvents
  BY ServiceAssumption DEF Init
<1> QED
  BY <1>1, <1>2, <1>3 DEF Init, ServiceTypeOK

Busy == {"connect", "mark", "wake", "join"}
Free == {"idle", "startTest", "create", "listen", "bind", "stopTest", "test", "forget",
         "destroyTest", "destroyStop", "quit", "joinLooper", "destroyed"}

\* The part of ServiceTypeOK that is about the actors.
ActorsTypeOK ==
  /\ pc \in [Actors -> Busy \cup Free]
  /\ target \in [Actors -> Servers \cup {None}]
  /\ \A a \in Actors : pc[a] \in Busy <=> target[a] # None

LEMMA ActorMoves ==
  ASSUME ServiceTypeOK, NEW a \in Actors
  PROVE  /\ ActorsTypeOK
         /\ \A p \in Free : Leaves(a, p) => ActorsTypeOK'
         /\ \A p \in Free : pc[a] \in Free /\ GoesTo(a, p) => ActorsTypeOK'
         /\ \A p \in Busy : pc[a] \in Busy /\ GoesTo(a, p) => ActorsTypeOK'
         /\ \A p \in Busy, s \in Servers : Targets(a, p, s) => ActorsTypeOK'
<1> USE DEF ActorsTypeOK, Busy, Free
<1>1. ActorsTypeOK
  BY DEF ServiceTypeOK
<1>2. \A s \in Servers : s # None
  BY ServiceAssumption
<1>3. ASSUME NEW p \in Free, Leaves(a, p) PROVE ActorsTypeOK'
  BY <1>1, <1>3 DEF Leaves, Targets
<1>4. ASSUME NEW p \in Free, pc[a] \in Free, GoesTo(a, p) PROVE ActorsTypeOK'
  BY <1>1, <1>4 DEF GoesTo
<1>5. ASSUME NEW p \in Busy, pc[a] \in Busy, GoesTo(a, p) PROVE ActorsTypeOK'
  BY <1>1, <1>5 DEF GoesTo
<1>6. ASSUME NEW p \in Busy, NEW s \in Servers, Targets(a, p, s)
      PROVE  ActorsTypeOK'
  BY <1>1, <1>2, <1>6 DEF Targets
<1> QED
  BY <1>1, <1>3, <1>4, <1>5, <1>6

\* The two reads of isStarted() change only where the actor is.
LEMMA ReadsMThread ==
  ASSUME ServiceTypeOK, NEW a \in Actors, pc[a] \in Free, NEW p \in Free, NEW q \in Free
  PROVE  /\ IsStarted(a, p, q) => ActorsTypeOK'
         /\ IsStartedStill(a, p, q) => ActorsTypeOK' /\ alive' \in BOOLEAN
<1>1. ASSUME IsStarted(a, p, q) PROVE ActorsTypeOK'
  BY <1>1, ActorMoves DEF IsStarted
<1>2. ASSUME IsStartedStill(a, p, q) PROVE ActorsTypeOK' /\ alive' \in BOOLEAN
  <2>1. ActorsTypeOK'
    BY <1>2, ActorMoves DEF IsStartedStill, Throws, Free
  <2>2. alive' \in BOOLEAN
    BY <1>2 DEF IsStartedStill, Throws, ServiceTypeOK
  <2> QED
    BY <2>1, <2>2
<1> QED
  BY <1>1, <1>2

LEMMA ActorTypes ==
  ASSUME ServiceTypeOK, NEW a \in Actors, ActorStep(a)
  PROVE  ServiceTypeOK'
<1> USE ServiceAssumption DEF ServiceTypeOK, serviceVars, actorVars, serverVars,
        connVars, GoesTo, Targets, Leaves, Throws
<1>1. CASE Bind(a)
  <2>1. ActorsTypeOK'
    BY <1>1, ActorMoves DEF Bind, Busy, Free
  <2>2. /\ mThread' \in Servers \cup {None}
        /\ mServer' \in [Servers -> {"null", "open", "closed"}]
        /\ alive' \in BOOLEAN
    BY <1>1 DEF Bind
  <2> QED
    BY <1>1, <2>1, <2>2 DEF Bind, ActorsTypeOK, Busy, Free
<1>2. CASE BtConnect(a)
  <2>1. ActorsTypeOK'
    BY <1>2, ActorMoves DEF BtConnect, Busy, Free
  <2>2. mThread' \in Servers \cup {None}
    BY <1>2 DEF BtConnect
  <2>3. /\ mBtSock' = mBtSock \/ mBtSock' = [mBtSock EXCEPT ![target[a]] = "open"]
        /\ thread' = thread \/ thread' = [thread EXCEPT ![target[a]] = "started"]
    BY <1>2 DEF BtConnect
  <2>4. /\ mBtSock' \in [Servers -> {"null", "open", "closed"}]
        /\ thread' \in [Servers -> {"none", "new", "started", "loop", "accept",
                                   "serve", "await", "signalled", "join", "exit",
                                   "closed", "ended"}]
    BY <2>3
  <2>5. alive' \in BOOLEAN
    BY <1>2 DEF BtConnect
  <2> QED
    BY <1>2, <2>1, <2>2, <2>4, <2>5 DEF BtConnect, ActorsTypeOK, Busy, Free
<1>3. CASE Forget(a)
  <2>1. ActorsTypeOK'
    BY <1>3, ActorMoves DEF Forget, Returned, Busy, Free
  <2> QED
    BY <1>3, <2>1 DEF Forget, ActorsTypeOK, Busy, Free
<1>8. CASE StartTest(a)
  <2>1. ActorsTypeOK' /\ alive' \in BOOLEAN
    BY <1>8, ReadsMThread DEF StartTest, Free
  <2> QED
    BY <1>8, <2>1 DEF StartTest, ActorsTypeOK, Busy, Free
<1>9. CASE Create(a)
  <2>1. ActorsTypeOK'
    BY <1>9, ActorMoves DEF Create, Busy, Free
  <2>2. PICK s \in Servers : thread' = [thread EXCEPT ![s] = "new"] /\ mThread' = s
    BY <1>9 DEF Create
  <2> QED
    BY <1>9, <2>1, <2>2 DEF Create, ActorsTypeOK, Busy, Free
<1>10. CASE Listen(a)
  <2>1. ActorsTypeOK' /\ alive' \in BOOLEAN
    BY <1>10, ActorMoves DEF Listen, Busy, Free
  <2> QED
    BY <1>10, <2>1 DEF Listen, ActorsTypeOK, Busy, Free
<1>11. CASE StopTest(a)
  <2>1. ActorsTypeOK' /\ alive' \in BOOLEAN
    BY <1>11, ReadsMThread DEF StopTest, Returned, Free
  <2> QED
    BY <1>11, <2>1 DEF StopTest, ActorsTypeOK, Busy, Free
<1>4. CASE TestRunning(a)
  <2>1. ActorsTypeOK'
    BY <1>4, ActorMoves DEF TestRunning, Cancelled, Busy, Free
  <2>2. alive' \in BOOLEAN
    BY <1>4 DEF TestRunning
  <2> QED
    BY <1>4, <2>1, <2>2 DEF TestRunning, ActorsTypeOK, Busy, Free
<1>5. CASE MarkStopping(a)
  BY <1>5 DEF MarkStopping, Signalled
<1>6. CASE WakeServer(a)
  <2>1. ActorsTypeOK'
    BY <1>6, ActorMoves DEF WakeServer, Cancelled, Busy, Free
  <2>2. target[a] \in Servers
    BY <1>6 DEF WakeServer
  <2>3. alive' \in BOOLEAN
    BY <1>6 DEF WakeServer
  <2>4. backlog' \in [Servers -> Seq(Conns \cup {Wake})]
    <3>1. \/ backlog' = backlog
          \/ backlog' = [backlog EXCEPT ![target[a]] = Append(@, Wake)]
      BY <1>6 DEF WakeServer
    <3>2. Append(backlog[target[a]], Wake) \in Seq(Conns \cup {Wake})
      BY <2>2
    <3> QED
      BY <3>1, <3>2
  <2>5. mRunning' \in [Servers -> BOOLEAN]
    <3>1. \/ mRunning' = mRunning
          \/ mRunning' = [mRunning EXCEPT ![target[a]] = FALSE]
      BY <1>6 DEF WakeServer
    <3>2. mRunning \in [Servers -> BOOLEAN]
      OBVIOUS
    <3> QED
      BY ONLY <3>1, <3>2
  <2> QED
    BY <1>6, <2>1, <2>3, <2>4, <2>5 DEF WakeServer, ActorsTypeOK, Busy, Free
<1>7. CASE JoinServer(a)
  BY <1>7 DEF JoinServer, Cancelled
<1> QED
  BY <1>1, <1>2, <1>3, <1>4, <1>5, <1>6, <1>7, <1>8, <1>9, <1>10, <1>11 DEF ActorStep

LEMMA ServiceTypes ==
  ASSUME ServiceTypeOK, ServiceStep
  PROVE  ServiceTypeOK'
<1> USE ServiceAssumption DEF ServiceTypeOK, serviceVars, actorVars, serverVars,
        connVars, GoesTo, Actors
<1>1. CASE RunPosted
  <2>1. ActorsTypeOK'
    BY <1>1, ActorMoves DEF RunPosted, Busy, Free
  <2>2. posted' \in Nat
    BY <1>1 DEF RunPosted
  <2> QED
    BY <1>1, <2>1, <2>2 DEF RunPosted, ActorsTypeOK, Busy, Free
<1>2. CASE QuitLooper
  <2>1. ActorsTypeOK'
    BY <1>2, ActorMoves DEF QuitLooper, Busy, Free
  <2> QED
    BY <1>2, <2>1 DEF QuitLooper, ActorsTypeOK, Busy, Free
<1>3. CASE JoinLooper
  <2>1. ActorsTypeOK'
    BY <1>3, ActorMoves DEF JoinLooper, Busy, Free
  <2> QED
    BY <1>3, <2>1 DEF JoinLooper, ActorsTypeOK, Busy, Free
<1>4. CASE DestroyTest
  <2>1. ActorsTypeOK' /\ alive' \in BOOLEAN
    BY <1>4, ReadsMThread DEF DestroyTest, Free
  <2> QED
    BY <1>4, <2>1 DEF DestroyTest, ActorsTypeOK, Busy, Free
<1>5. CASE DestroyStop
  <2>1. ActorsTypeOK'
    BY <1>5, ReadsMThread DEF DestroyStop, Free
  <2> QED
    BY <1>5, <2>1 DEF DestroyStop, ActorsTypeOK, Busy, Free
<1> QED
  BY <1>1, <1>2, <1>3, <1>4, <1>5 DEF ServiceStep

LEMMA AcceptEffect ==
  ASSUME NEW s, Accept(s)
  PROVE  \/ /\ thread' = [thread EXCEPT ![s] = "exit"]
               \/ thread' = [thread EXCEPT ![s] = "loop"]
            /\ Refuse({Head(backlog[s])})
            /\ UNCHANGED server
         \/ /\ Head(backlog[s]) \in Conns
            /\ ~mStopping[s]
            /\ thread' = [thread EXCEPT ![s] = "serve"]
            /\ server' = [server EXCEPT ![Head(backlog[s])] = s]
            /\ connection' = [connection EXCEPT ![Head(backlog[s])] = "new"]
  BY DEF Accept, ServerGoes

LEMMA ServerTypes ==
  ASSUME ServiceTypeOK, NEW s \in Servers, ServerStep(s)
  PROVE  ServiceTypeOK'
<1> USE ServiceAssumption DEF ServiceTypeOK, serviceVars, actorVars, serverVars,
        connVars, ServerGoes, Refuse
<1>1. CASE RunServer(s)
  BY <1>1 DEF RunServer
<1>2. CASE Loop(s)
  BY <1>2 DEF Loop
<1>3. CASE Accept(s)
  <2> DEFINE peer == Head(backlog[s])
  <2>1. /\ peer \in Conns \cup {Wake}
        /\ Tail(backlog[s]) \in Seq(Conns \cup {Wake})
    BY <1>3 DEF Accept
  <2>2. /\ backlog' \in [Servers -> Seq(Conns \cup {Wake})]
        /\ UNCHANGED <<alive, events, serviceVars, actorVars, mRunning,
                       mStopping, mServer, mBtSock, socket, copy>>
    BY <1>3, <2>1 DEF Accept
  <2>3. CASE /\ thread' = [thread EXCEPT ![s] = "exit"]
                \/ thread' = [thread EXCEPT ![s] = "loop"]
             /\ Refuse({peer})
             /\ UNCHANGED server
    BY <2>2, <2>3
  <2>4. CASE /\ peer \in Conns
             /\ thread' = [thread EXCEPT ![s] = "serve"]
             /\ server' = [server EXCEPT ![peer] = s]
             /\ connection' = [connection EXCEPT ![peer] = "new"]
    BY <2>2, <2>4
  <2> QED
    BY <1>3, <2>3, <2>4, AcceptEffect
<1>4. CASE AwaitSignal(s)
  BY <1>4 DEF AwaitSignal
<1>5. CASE SignalConnection(s)
  BY <1>5 DEF SignalConnection
<1>6. CASE JoinConnection(s)
  BY <1>6 DEF JoinConnection
<1>7. CASE CloseServer(s)
  BY <1>7 DEF CloseServer
<1>8. CASE EndServer(s)
  BY <1>8 DEF EndServer
<1> QED
  BY <1>1, <1>2, <1>3, <1>4, <1>5, <1>6, <1>7, <1>8 DEF ServerStep

LEMMA ConnectionTypes ==
  ASSUME ServiceTypeOK, NEW c \in Conns,
         ConnectionStep(c) \/ \E d \in Directions : CopyEnds(c, d)
  PROVE  ServiceTypeOK'
<1> USE ServiceAssumption DEF ServiceTypeOK, serviceVars, actorVars, serverVars,
        connVars, ConnectionGoes, Post
<1>1. CASE AwaitStop(c)
  BY <1>1 DEF AwaitStop
<1>2. CASE Shut(c)
  BY <1>2 DEF Shut
<1>3. CASE JoinCopies(c)
  BY <1>3 DEF JoinCopies
<1>5. CASE StartCopies(c)
  BY <1>5 DEF StartCopies
<1>4. ASSUME NEW d \in Directions, CopyEnds(c, d) PROVE ServiceTypeOK'
  <2>1. /\ copy' = [copy EXCEPT ![c][d] = "ended"]
        /\ socket' = [socket EXCEPT ![c] = "closed"]
        /\ mBtSock' = [mBtSock EXCEPT ![server[c]] = "closed"]
    BY <1>4 DEF CopyEnds, CopyExits
  <2>2. copy' \in [Conns -> [Directions -> {"none", "copying", "ended"}]]
    BY <2>1
  <2>3. posted' \in Nat
    BY <1>4 DEF CopyEnds
  <2>4. alive' \in BOOLEAN
    BY <1>4 DEF CopyEnds
  <2> QED
    BY <1>4, <2>1, <2>2, <2>3, <2>4 DEF CopyEnds
<1> QED
  BY <1>1, <1>2, <1>3, <1>4, <1>5 DEF ConnectionStep

LEMMA EnvironmentTypes ==
  ASSUME ServiceTypeOK, Environment
  PROVE  ServiceTypeOK'
<1> USE ServiceAssumption DEF ServiceTypeOK, serviceVars, actorVars, serverVars,
        connVars, GoesTo, ConnectionGoes, Happens, Actors
<1>1. ASSUME NEW a \in Callers, Start(a) PROVE ServiceTypeOK'
  <2>1. ActorsTypeOK' /\ events' \in 0 .. MaxEvents
    BY <1>1, ReadsMThread DEF Start, Free
  <2> QED
    BY <1>1, <2>1 DEF Start, ActorsTypeOK, Busy, Free
<1>2. ASSUME NEW a \in Callers, Stop(a) PROVE ServiceTypeOK'
  <2>1. ActorsTypeOK' /\ events' \in 0 .. MaxEvents
    BY <1>2, ReadsMThread DEF Stop, Free
  <2> QED
    BY <1>2, <2>1 DEF Stop, ActorsTypeOK, Busy, Free
<1>3. CASE Destroy
  <2>1. ActorsTypeOK'
    BY <1>3, ReadsMThread DEF Destroy, Free
  <2> QED
    BY <1>3, <2>1 DEF Destroy, ActorsTypeOK, Busy, Free
<1>4. ASSUME NEW c \in Conns, Connect(c) PROVE ServiceTypeOK'
  BY <1>4 DEF Connect
<1>5. ASSUME NEW c \in Conns, ClientCloses(c) PROVE ServiceTypeOK'
  BY <1>5 DEF ClientCloses
<1>6. ASSUME NEW s \in Servers, BtLost(s) PROVE ServiceTypeOK'
  BY <1>6 DEF BtLost
<1>7. ASSUME Dies PROVE ServiceTypeOK'
  BY <1>7 DEF Dies
<1> QED
  BY <1>1, <1>2, <1>3, <1>4, <1>5, <1>6, <1>7 DEF Environment, AcceptFails, StreamsFail

\* The variables of the service keep their types.
THEOREM ServiceTypeCorrect == Spec => []ServiceTypeOK
<1>1. ServiceTypeOK /\ [Next]_vars => ServiceTypeOK'
  <2> SUFFICES ASSUME ServiceTypeOK, [Next]_vars PROVE ServiceTypeOK'
    OBVIOUS
  <2>1. CASE UNCHANGED vars
    BY <2>1
    DEF vars, ServiceTypeOK, serviceVars, actorVars, serverVars, connVars
  <2> QED
    BY <2>1, ActorTypes, ServiceTypes, ServerTypes, ConnectionTypes,
       EnvironmentTypes
    DEF Next
<1> QED
  BY <1>1, InitServiceTypeOK, PTL DEF Spec

----------------------------------------------------------------------------
\* A server that has a connection serves it, or has been told to stop: the
\* signal that ends the service comes with mStopping.
StopsAfterFirst ==
  \A c \in Conns :
    server[c] # None => \/ mStopping[server[c]]
                        \/ thread[server[c]] \in {"serve", "await"}

UsedOnceInvariant == BluetoothUsedOnce /\ StopsAfterFirst

\* A step that opens no connection, and does not end a service without mStopping.
Harmless ==
  /\ UNCHANGED server
  /\ \A s \in Servers :
       /\ mStopping[s] => mStopping'[s]
       /\ thread[s] \in {"serve", "await"} =>
            thread'[s] \in {"serve", "await"} \/ mStopping'[s]

LEMMA HarmlessKeeps ==
  ASSUME ServiceTypeOK, UsedOnceInvariant, Harmless
  PROVE  UsedOnceInvariant'
<1>1. \A c \in Conns : server[c] \in Servers \cup {None}
  BY DEF ServiceTypeOK
<1>2. BluetoothUsedOnce'
  BY DEF UsedOnceInvariant, BluetoothUsedOnce, Harmless
<1>3. StopsAfterFirst'
  BY <1>1 DEF UsedOnceInvariant, StopsAfterFirst, Harmless
<1> QED
  BY <1>2, <1>3 DEF UsedOnceInvariant

\* Nothing that a server thread depends on changes.
LEMMA NothingChanges ==
  ASSUME UNCHANGED server, UNCHANGED thread, UNCHANGED mStopping
  PROVE  Harmless
  BY DEF Harmless

\* A server thread moves on from where it does not serve.
LEMMA ServerMoves ==
  ASSUME ServiceTypeOK, NEW s \in Servers, NEW p,
         thread[s] \notin {"serve", "await"} \/ p = "await",
         thread' = [thread EXCEPT ![s] = p],
         UNCHANGED server, UNCHANGED mStopping
  PROVE  Harmless
  BY DEF ServiceTypeOK, Harmless

LEMMA ActorsHarmless ==
  ASSUME ServiceTypeOK, NEW a \in Actors, ActorStep(a)
  PROVE  Harmless
<1> USE DEF serverVars, connVars
<1>1. CASE Bind(a)
  BY <1>1, NothingChanges DEF Bind
<1>2. CASE BtConnect(a)
  <2>1. \/ UNCHANGED thread
        \/ /\ thread[target[a]] = "new"
           /\ thread' = [thread EXCEPT ![target[a]] = "started"]
    BY <1>2 DEF BtConnect
  <2>2. UNCHANGED server /\ UNCHANGED mStopping
    BY <1>2 DEF BtConnect
  <2>3. target[a] \in Servers
    BY <1>2 DEF BtConnect, ServiceTypeOK
  <2> QED
    BY <2>1, <2>2, <2>3, NothingChanges, ServerMoves
<1>3. CASE Forget(a)
  BY <1>3, NothingChanges DEF Forget
<1>4. CASE TestRunning(a)
  BY <1>4, NothingChanges DEF TestRunning
<1>5. CASE MarkStopping(a)
  <2> DEFINE s == target[a]
  <2>1. /\ mStopping' = [mStopping EXCEPT ![s] = TRUE]
        /\ thread' = thread \/ thread' = [thread EXCEPT ![s] = "signalled"]
    BY <1>5 DEF MarkStopping, Signalled
  <2>2. UNCHANGED server
    BY <1>5 DEF MarkStopping
  <2>3. \A r \in Servers : (mStopping[r] => mStopping'[r]) /\ (r = s => mStopping'[r])
    BY <2>1 DEF ServiceTypeOK
  <2>4. \A r \in Servers : r # s => thread'[r] = thread[r]
    BY <2>1 DEF ServiceTypeOK
  <2> QED
    BY <2>2, <2>3, <2>4 DEF Harmless
<1>6. CASE WakeServer(a)
  BY <1>6, NothingChanges DEF WakeServer
<1>7. CASE JoinServer(a)
  BY <1>7, NothingChanges DEF JoinServer
<1>8. CASE StartTest(a) \/ Listen(a) \/ StopTest(a)
  BY <1>8, NothingChanges DEF StartTest, Listen, StopTest
<1>9. CASE Create(a)
  <2>1. PICK s \in Servers : /\ thread[s] = "none"
                             /\ thread' = [thread EXCEPT ![s] = "new"]
    BY <1>9 DEF Create
  <2>2. UNCHANGED server /\ UNCHANGED mStopping
    BY <1>9 DEF Create
  <2> QED
    BY <2>1, <2>2, ServerMoves
<1> QED
  BY <1>1, <1>2, <1>3, <1>4, <1>5, <1>6, <1>7, <1>8, <1>9 DEF ActorStep

LEMMA OthersHarmless ==
  ASSUME ServiceTypeOK,
         \/ ServiceStep
         \/ \E c \in Conns : ConnectionStep(c) \/ \E d \in Directions : CopyEnds(c, d)
         \/ Environment
  PROVE  Harmless
<1> USE DEF serverVars, connVars
<1>1. CASE ServiceStep
  BY <1>1, NothingChanges
  DEF ServiceStep, RunPosted, DestroyTest, DestroyStop, QuitLooper, JoinLooper
<1>2. ASSUME NEW c \in Conns, ConnectionStep(c) PROVE Harmless
  BY <1>2, NothingChanges DEF ConnectionStep, StartCopies, AwaitStop, Shut, JoinCopies
<1>3. ASSUME NEW c \in Conns, NEW d \in Directions, CopyEnds(c, d) PROVE Harmless
  BY <1>3, NothingChanges DEF CopyEnds
<1>4. ASSUME NEW a \in Callers, Start(a) \/ Stop(a) PROVE Harmless
  BY <1>4, NothingChanges DEF Start, Stop
<1>5. CASE Dies
  BY <1>5, NothingChanges DEF Dies
<1>6. CASE Destroy
  BY <1>6, NothingChanges DEF Destroy
<1>7. ASSUME NEW c \in Conns, Connect(c) \/ ClientCloses(c) PROVE Harmless
  BY <1>7, NothingChanges DEF Connect, ClientCloses
<1>8. ASSUME NEW s \in Servers, BtLost(s) PROVE Harmless
  BY <1>8, NothingChanges DEF BtLost
<1> QED
  BY <1>1, <1>2, <1>3, <1>4, <1>5, <1>6, <1>7, <1>8
  DEF Environment, AcceptFails, StreamsFail

LEMMA ServersUseOnce ==
  ASSUME ServiceTypeOK, UsedOnceInvariant, NEW s \in Servers, ServerStep(s)
  PROVE  UsedOnceInvariant'
<1> USE DEF connVars, ServerGoes
<1>1. CASE RunServer(s)
  BY <1>1, ServerMoves, HarmlessKeeps DEF RunServer
<1>2. CASE Loop(s)
  BY <1>2, ServerMoves, HarmlessKeeps DEF Loop
<1>3. CASE Accept(s)
  <2>1. thread[s] = "accept" /\ UNCHANGED mStopping
    BY <1>3 DEF Accept
  <2>2. CASE /\ thread' = [thread EXCEPT ![s] = "exit"]
                \/ thread' = [thread EXCEPT ![s] = "loop"]
             /\ UNCHANGED server
    BY <2>1, <2>2, ServerMoves, HarmlessKeeps
  <2>3. ASSUME NEW peer \in Conns,
               ~mStopping[s],
               thread' = [thread EXCEPT ![s] = "serve"],
               server' = [server EXCEPT ![peer] = s]
        PROVE  UsedOnceInvariant'
    <3>1. \A c \in Conns : server[c] # s
      BY <2>1, <2>3, ServiceAssumption DEF UsedOnceInvariant, StopsAfterFirst
    <3>2. /\ server'[peer] = s
          /\ \A c \in Conns : c # peer => server'[c] = server[c]
          /\ thread'[s] = "serve"
          /\ \A r \in Servers : r # s => thread'[r] = thread[r]
      BY <2>3 DEF ServiceTypeOK
    <3>3. BluetoothUsedOnce'
      BY <3>1, <3>2 DEF UsedOnceInvariant, BluetoothUsedOnce
    <3>4. StopsAfterFirst'
      BY <2>1, <3>1, <3>2 DEF UsedOnceInvariant, StopsAfterFirst, ServiceTypeOK
    <3> QED
      BY <3>3, <3>4 DEF UsedOnceInvariant
  <2> QED
    BY <1>3, <2>2, <2>3, AcceptEffect
<1>4. CASE AwaitSignal(s)
  BY <1>4, ServerMoves, HarmlessKeeps DEF AwaitSignal
<1>5. CASE SignalConnection(s)
  BY <1>5, ServerMoves, HarmlessKeeps DEF SignalConnection
<1>6. CASE JoinConnection(s)
  BY <1>6, ServerMoves, HarmlessKeeps DEF JoinConnection
<1>7. CASE CloseServer(s)
  BY <1>7, ServerMoves, HarmlessKeeps DEF CloseServer
<1>8. CASE EndServer(s)
  BY <1>8, ServerMoves, HarmlessKeeps DEF EndServer
<1> QED
  BY <1>1, <1>2, <1>3, <1>4, <1>5, <1>6, <1>7, <1>8 DEF ServerStep

\* No Bluetooth socket is given to a second connection.
THEOREM BluetoothCorrect == Spec => []BluetoothUsedOnce
<1>1. Init => UsedOnceInvariant
  BY DEF Init, UsedOnceInvariant, BluetoothUsedOnce, StopsAfterFirst
<1>2. ServiceTypeOK /\ UsedOnceInvariant /\ [Next]_vars => UsedOnceInvariant'
  <2> SUFFICES ASSUME ServiceTypeOK, UsedOnceInvariant, [Next]_vars
               PROVE  UsedOnceInvariant'
    OBVIOUS
  <2>1. CASE UNCHANGED vars
    <3>1. UNCHANGED server /\ UNCHANGED thread /\ UNCHANGED mStopping
      BY <2>1 DEF vars, serverVars, connVars
    <3> QED
      BY <3>1, NothingChanges, HarmlessKeeps
  <2> QED
    BY <2>1, ActorsHarmless, OthersHarmless, ServersUseOnce, HarmlessKeeps DEF Next
<1>3. UsedOnceInvariant => BluetoothUsedOnce
  BY DEF UsedOnceInvariant
<1> QED
  BY <1>1, <1>2, <1>3, ServiceTypeCorrect, PTL DEF Spec
=============================================================================
