---------------------------- MODULE AndroidService ----------------------------
(***************************************************************************)
(* The Android service of PCSCProxyService.java, which joins a Bluetooth   *)
(* socket and the Unix socket of a client.  Its threads: those of callers  *)
(* of start() and stop(), the main thread, which destroys the service, the *)
(* looper, which runs what has been posted to mHandler, one ServerThread   *)
(* for each start(), one ConnectionThread for each client accepted, and    *)
(* its two ReadWriteThreads, one for each direction.                       *)
(*                                                                         *)
(* A step is a region between two points where another thread can make a   *)
(* difference: each read of mThread is one, with the flags of the server   *)
(* thread it holds.  The fields are read and written in program order.     *)
(* The name of the socket, mSocketName, only tells clients where to        *)
(* connect: here they connect to any server socket that is open.           *)
(***************************************************************************)
EXTENDS Naturals, Sequences, FiniteSets

CONSTANTS Callers,     \* threads that call start() and stop()
          Main, Looper,
          MaxStarts,   \* bound: server threads
          MaxConns,    \* bound: connections of clients
          MaxEvents,   \* bound: steps of the environment
          None, Wake   \* Wake is the connection that wakes accept()

Actors == Callers \cup {Main, Looper}
Servers == 1 .. MaxStarts
Conns == 1 .. MaxConns
Directions == {"BTtoUN", "UNtoBT"}

ASSUME ServiceAssumption == /\ MaxStarts \in Nat /\ MaxConns \in Nat
                            /\ MaxEvents \in Nat
                            /\ None \notin Servers
                            /\ Main \notin Callers /\ Looper \notin Callers
                            /\ Main # Looper
                            /\ Wake \notin Conns

VARIABLES alive,        \* no exception has ended the process
          events,       \* how many steps the environment has taken
          mThread,
          mHandler,     \* "up", "quit" once its looper has quit, or null
          posted,       \* how many runnables it has to run
          pc,           \* where each actor is
          target,       \* the server thread its call is about
          thread,       \* where each server thread is
          mRunning, mStopping,
          mServer,      \* the server socket of each
          mBtSock,      \* and its Bluetooth socket
          backlog,      \* connections a server socket has not accepted
          server,       \* ghost: the server thread that serves a connection
          connection,   \* where each connection thread is
          socket,       \* the Unix socket of each
          copy          \* where each copy thread is

serviceVars == <<mThread, mHandler, posted>>
actorVars == <<pc, target>>
serverVars == <<thread, mRunning, mStopping, mServer, mBtSock, backlog>>
connVars == <<server, connection, socket, copy>>
vars == <<alive, events, serviceVars, actorVars, serverVars, connVars>>

ServiceTypeOK ==
  /\ alive \in BOOLEAN
  /\ events \in 0 .. MaxEvents
  /\ mThread \in Servers \cup {None}
  /\ mHandler \in {"up", "quit", "null"}
  /\ posted \in Nat
  /\ pc \in [Actors -> {"idle", "startTest", "create", "listen", "bind", "connect",
                        "stopTest", "test", "mark", "wake", "join", "forget",
                        "destroyTest", "destroyStop", "quit", "joinLooper",
                        "destroyed"}]
  /\ target \in [Actors -> Servers \cup {None}]
  /\ thread \in [Servers -> {"none", "new", "started", "loop", "accept", "serve",
                             "await", "signalled", "join", "exit", "closed", "ended"}]
  /\ mRunning \in [Servers -> BOOLEAN]
  /\ mStopping \in [Servers -> BOOLEAN]
  /\ mServer \in [Servers -> {"null", "open", "closed"}]
  /\ mBtSock \in [Servers -> {"null", "open", "closed"}]
  /\ backlog \in [Servers -> Seq(Conns \cup {Wake})]
  /\ server \in [Conns -> Servers \cup {None}]
  /\ connection \in [Conns -> {"none", "queued", "new", "copying", "await", "signalled",
                               "join", "ended"}]
  /\ socket \in [Conns -> {"open", "eof", "closed"}]
  /\ copy \in [Conns -> [Directions -> {"none", "copying", "ended"}]]
  /\ \A a \in Actors :
       pc[a] \in {"connect", "mark", "wake", "join"} <=> target[a] # None

Init ==
  /\ alive = TRUE
  /\ events = 0
  /\ mThread = None
  /\ mHandler = "up"
  /\ posted = 0
  /\ pc = [a \in Actors |-> "idle"]
  /\ target = [a \in Actors |-> None]
  /\ thread = [s \in Servers |-> "none"]
  /\ mRunning = [s \in Servers |-> FALSE]
  /\ mStopping = [s \in Servers |-> FALSE]
  /\ mServer = [s \in Servers |-> "null"]
  /\ mBtSock = [s \in Servers |-> "null"]
  /\ backlog = [s \in Servers |-> << >>]
  /\ server = [c \in Conns |-> None]
  /\ connection = [c \in Conns |-> "none"]
  /\ socket = [c \in Conns |-> "open"]
  /\ copy = [c \in Conns |-> [d \in Directions |-> "none"]]

\* A step of the environment, whose number is bounded.
Happens == /\ events < MaxEvents
           /\ events' = events + 1

IsRunning(s) == mRunning[s] /\ ~mStopping[s]

----------------------------------------------------------------------------
(***************************************************************************)
(* start() and stop().                                                     *)
(***************************************************************************)
GoesTo(a, p) == pc' = [pc EXCEPT ![a] = p] /\ UNCHANGED target

Targets(a, p, s) == /\ pc' = [pc EXCEPT ![a] = p]
                    /\ target' = [target EXCEPT ![a] = s]

\* Mutant: the call keeps hold of the server it was about.
LeavesHolding(a, p) == GoesTo(a, p)

Leaves(a, p) == Targets(a, p, None)

\* An exception: the binder hands it to a caller in another process,
\* elsewhere it ends this one.
Throws(a) ==
  /\ Leaves(a, "idle")
  /\ alive' \in IF a \in Callers THEN BOOLEAN ELSE {FALSE}

\* isStarted() reads mThread twice, and the second time it may be null.
IsStarted(a, test, no) == GoesTo(a, IF mThread = None THEN no ELSE test)

IsStartedStill(a, yes, no) ==
  \/ /\ mThread = None
     /\ Throws(a)
  \/ /\ mThread # None
     /\ GoesTo(a, IF IsRunning(mThread) THEN yes ELSE no)
     /\ UNCHANGED alive

\* Server threads are bounded: there is one left for every start().
ServersLeft ==
  Cardinality({s \in Servers : thread[s] = "none"})
    > Cardinality({a \in Callers : pc[a] \in {"startTest", "create"}})

\* The binder has made the same test before: this one decides.
Start(a) ==
  /\ Happens
  /\ pc[a] = "idle"
  /\ ServersLeft
  /\ IsStarted(a, "startTest", "create")
  /\ UNCHANGED <<alive, serviceVars, serverVars, connVars>>

StartTest(a) ==
  /\ pc[a] = "startTest"
  /\ IsStartedStill(a, "idle", "create")
  /\ UNCHANGED <<events, serviceVars, serverVars, connVars>>

\* Another start() that has passed the test may set mThread as well.
Create(a) ==
  /\ pc[a] = "create"
  /\ \E s \in Servers :
       /\ thread[s] = "none"
       /\ \A r \in 1 .. s - 1 : thread[r] # "none"
       /\ thread' = [thread EXCEPT ![s] = "new"]
       /\ mThread' = s
  /\ GoesTo(a, "listen")
  /\ UNCHANGED <<alive, events, mHandler, posted, mRunning, mStopping, mServer,
                 mBtSock, backlog, connVars>>

\* mThread.setTerminatedListener(): of whatever server mThread is by now.  That
\* another start() has that server running before it has a listener is left out.
Listen(a) ==
  /\ pc[a] = "listen"
  /\ \/ /\ mThread = None
        /\ Throws(a)
     \/ /\ mThread # None
        /\ GoesTo(a, "bind")
        /\ UNCHANGED alive
  /\ UNCHANGED <<events, serviceVars, serverVars, connVars>>

\* mThread.startServer(): of whatever server mThread is by now.  An address
\* that is in use is an IOException.
Bind(a) ==
  /\ pc[a] = "bind"
  /\ \/ /\ mThread = None
        /\ Throws(a)
        /\ UNCHANGED <<mThread, mServer>>
     \/ /\ mThread # None
        /\ mServer[mThread] # "open"
        /\ mServer' = [mServer EXCEPT ![mThread] = "open"]
        /\ Targets(a, "connect", mThread)
        /\ UNCHANGED <<alive, mThread>>
     \/ /\ mThread # None
        /\ mServer[mThread] = "open"
        /\ mThread' = None
        /\ GoesTo(a, "idle")
        /\ UNCHANGED <<alive, mServer>>
  /\ UNCHANGED <<events, mHandler, posted, thread, mRunning, mStopping,
                 mBtSock, backlog, connVars>>

\* The Bluetooth device is connected and the thread is started; or it is not
\* connected, and the server socket stays open.  A thread starts only once.
BtConnect(a) ==
  LET s == target[a]
  IN  /\ pc[a] = "connect"
      /\ \/ /\ thread[s] = "new"
            /\ mBtSock' = [mBtSock EXCEPT ![s] = "open"]
            /\ thread' = [thread EXCEPT ![s] = "started"]
            /\ Leaves(a, "idle")
            /\ UNCHANGED <<alive, mThread>>
         \/ /\ thread[s] # "new"
            /\ mBtSock' = [mBtSock EXCEPT ![s] = "open"]
            /\ Throws(a)
            /\ UNCHANGED <<thread, mThread>>
         \/ /\ mThread' = None
            /\ Leaves(a, "idle")
            /\ UNCHANGED <<alive, mBtSock, thread>>
      /\ UNCHANGED <<events, mHandler, posted, mRunning, mStopping, mServer,
                     backlog, connVars>>

\* A stop() that finds no server returns at once.  The binder has made the
\* same test before.
Stop(a) ==
  /\ Happens
  /\ pc[a] = "idle"
  /\ mThread # None
  /\ IsStarted(a, "stopTest", "idle")
  /\ UNCHANGED <<alive, serviceVars, serverVars, connVars>>

\* Where a call of stop() comes back to.
Returned(a) == IF a = Main THEN "quit" ELSE "idle"

StopTest(a) ==
  /\ pc[a] = "stopTest"
  /\ IsStartedStill(a, "test", Returned(a))
  /\ UNCHANGED <<events, serviceVars, serverVars, connVars>>

Forget(a) ==
  /\ pc[a] = "forget"
  /\ mThread' = None
  /\ GoesTo(a, Returned(a))
  /\ UNCHANGED <<alive, events, mHandler, posted, serverVars, connVars>>

----------------------------------------------------------------------------
(***************************************************************************)
(* mThread.cancelAndJoin(), in any thread.                                 *)
(***************************************************************************)
Cancelled(a) == IF a = Looper THEN "idle" ELSE "forget"

\* mThread is read again, and is null if another stop() has been quicker.
TestRunning(a) ==
  /\ pc[a] = "test"
  /\ \/ /\ mThread = None
        /\ Throws(a)
     \/ /\ mThread # None
        /\ IsRunning(mThread)
        /\ Targets(a, "mark", mThread)
        /\ UNCHANGED alive
     \/ /\ mThread # None
        /\ ~IsRunning(mThread)
        /\ GoesTo(a, Cancelled(a))
        /\ UNCHANGED alive
  /\ UNCHANGED <<events, serviceVars, serverVars, connVars>>

Signalled(s) == IF thread[s] = "await" THEN [thread EXCEPT ![s] = "signalled"]
                                       ELSE thread

\* Mutant: the signal is sent, and mStopping is not set.
SignalOnly(a) ==
  /\ pc[a] = "mark"
  /\ thread' = Signalled(target[a])
  /\ GoesTo(a, "wake")
  /\ UNCHANGED <<alive, events, serviceVars, mRunning, mStopping, mServer,
                 mBtSock, backlog, connVars>>

\* Mutant: nothing is signalled.
MarkSilently(a) ==
  /\ pc[a] = "mark"
  /\ mStopping' = [mStopping EXCEPT ![target[a]] = TRUE]
  /\ GoesTo(a, "wake")
  /\ UNCHANGED <<alive, events, serviceVars, thread, mRunning, mServer,
                 mBtSock, backlog, connVars>>

\* mStopping is set and the signal sent.  A thread that does not wait for it
\* yet will not hear it.
MarkStopping(a) ==
  /\ pc[a] = "mark"
  /\ mStopping' = [mStopping EXCEPT ![target[a]] = TRUE]
  /\ thread' = Signalled(target[a])
  /\ GoesTo(a, "wake")
  /\ UNCHANGED <<alive, events, serviceVars, mRunning, mServer, mBtSock,
                 backlog, connVars>>

\* Connects to the server socket, which the server thread may have closed, or
\* set to null.
WakeServer(a) ==
  LET s == target[a]
  IN  /\ pc[a] = "wake"
      /\ \/ /\ mServer[s] = "open"
            /\ backlog' = [backlog EXCEPT ![s] = Append(@, Wake)]
            /\ GoesTo(a, "join")
            /\ UNCHANGED <<alive, mRunning>>
         \/ /\ mServer[s] = "closed"
            /\ mRunning' = [mRunning EXCEPT ![s] = FALSE]
            /\ Leaves(a, Cancelled(a))
            /\ UNCHANGED <<alive, backlog>>
         \/ /\ mServer[s] = "null"
            /\ mRunning' = [mRunning EXCEPT ![s] = FALSE]
            /\ Throws(a)
            /\ UNCHANGED backlog
      /\ UNCHANGED <<events, serviceVars, thread, mStopping, mServer, mBtSock,
                     connVars>>

\* Mutant: the join has no timeout.
JoinServerForever(a) ==
  /\ pc[a] = "join"
  /\ thread[target[a]] = "ended"
  /\ mRunning' = [mRunning EXCEPT ![target[a]] = FALSE]
  /\ Leaves(a, Cancelled(a))
  /\ UNCHANGED <<alive, events, serviceVars, thread, mStopping, mServer,
                 mBtSock, backlog, connVars>>

\* The server thread has ended, or the time is up.
JoinServer(a) ==
  /\ pc[a] = "join"
  /\ mRunning' = [mRunning EXCEPT ![target[a]] = FALSE]
  /\ Leaves(a, Cancelled(a))
  /\ UNCHANGED <<alive, events, serviceVars, thread, mStopping, mServer,
                 mBtSock, backlog, connVars>>

----------------------------------------------------------------------------
(***************************************************************************)
(* The looper, and the end of the service.                                 *)
(***************************************************************************)
\* The runnable of onTerminated() is about whatever server mThread is by now.
RunPosted ==
  /\ pc[Looper] = "idle"
  /\ mHandler = "up"
  /\ posted > 0
  /\ posted' = posted - 1
  /\ GoesTo(Looper, "test")
  /\ UNCHANGED <<alive, events, mThread, mHandler, serverVars, connVars>>

\* onDestroy(), which comes once, and waits for no call of start() or stop()
\* that is under way.
Destroy ==
  /\ pc[Main] = "idle"
  /\ IsStarted(Main, "destroyTest", "quit")
  /\ UNCHANGED <<alive, events, serviceVars, serverVars, connVars>>

DestroyTest ==
  /\ pc[Main] = "destroyTest"
  /\ IsStartedStill(Main, "destroyStop", "quit")
  /\ UNCHANGED <<events, serviceVars, serverVars, connVars>>

\* It calls stop(), which tests again.
DestroyStop ==
  /\ pc[Main] = "destroyStop"
  /\ IsStarted(Main, "stopTest", "quit")
  /\ UNCHANGED <<alive, events, serviceVars, serverVars, connVars>>

\* The looper runs nothing more; it finishes what it is running.
QuitLooper ==
  /\ pc[Main] = "quit"
  /\ mHandler' = "quit"
  /\ posted' = 0
  /\ GoesTo(Main, "joinLooper")
  /\ UNCHANGED <<alive, events, mThread, serverVars, connVars>>

\* The looper has ended, or the time is up.
JoinLooper ==
  /\ pc[Main] = "joinLooper"
  /\ mHandler' = "null"
  /\ GoesTo(Main, "destroyed")
  /\ UNCHANGED <<alive, events, mThread, posted, serverVars, connVars>>

\* onTerminated(): a runnable is posted.  There may be no handler any more.
Post ==
  /\ posted' = IF mHandler = "up" THEN posted + 1 ELSE posted
  /\ alive' = (mHandler # "null")

----------------------------------------------------------------------------
(***************************************************************************)
(* A server thread.                                                        *)
(***************************************************************************)
ServerGoes(s, p) == thread' = [thread EXCEPT ![s] = p]

RunServer(s) ==
  /\ thread[s] = "started"
  /\ mRunning' = [mRunning EXCEPT ![s] = TRUE]
  /\ ServerGoes(s, "loop")
  /\ UNCHANGED <<alive, events, serviceVars, actorVars, mStopping, mServer,
                 mBtSock, backlog, connVars>>

Loop(s) ==
  /\ thread[s] = "loop"
  /\ ServerGoes(s, IF mStopping[s] THEN "exit" ELSE "accept")
  /\ UNCHANGED <<alive, events, serviceVars, actorVars, mRunning, mStopping,
                 mServer, mBtSock, backlog, connVars>>

\* The clients of these connections see them closed.
Refuse(peers) ==
  connection' = [c \in Conns |-> IF c \in peers THEN "ended" ELSE connection[c]]

\* accept(), the test of mStopping that follows, and the permission check.  A
\* connection that is served gets the Bluetooth socket and a thread.
Accept(s) ==
  LET peer == Head(backlog[s])
  IN  /\ thread[s] = "accept"
      /\ backlog[s] # << >>
      /\ backlog' = [backlog EXCEPT ![s] = Tail(@)]
      /\ \/ /\ mStopping[s]
            /\ ServerGoes(s, "exit")
            /\ Refuse({peer})
            /\ UNCHANGED server
         \/ /\ ~mStopping[s]
            /\ ServerGoes(s, "loop")
            /\ Refuse({peer})
            /\ UNCHANGED server
         \/ /\ ~mStopping[s]
            /\ peer \in Conns
            /\ ServerGoes(s, "serve")
            /\ server' = [server EXCEPT ![peer] = s]
            /\ connection' = [connection EXCEPT ![peer] = "new"]
      /\ UNCHANGED <<alive, events, serviceVars, actorVars, mRunning,
                     mStopping, mServer, mBtSock, socket, copy>>

\* An exception of a thread that catches none ends the process.
Dies ==
  /\ alive' = FALSE
  /\ UNCHANGED <<events, serviceVars, actorVars, serverVars, connVars>>

\* accept(), getPeerCredentials() or close() fails.
AcceptFails(s) == thread[s] = "accept" /\ Dies

\* stop.await(), which tests no condition.
AwaitSignal(s) ==
  /\ thread[s] = "serve"
  /\ ServerGoes(s, "await")
  /\ UNCHANGED <<alive, events, serviceVars, actorVars, mRunning, mStopping,
                 mServer, mBtSock, backlog, connVars>>

\* cancelAndJoinConnection(): the connection thread may not wait yet.
SignalConnection(s) ==
  /\ thread[s] = "signalled"
  /\ connection' = [c \in Conns |-> IF server[c] = s /\ connection[c] = "await"
                                      THEN "signalled"
                                      ELSE connection[c]]
  /\ ServerGoes(s, "join")
  /\ UNCHANGED <<alive, events, serviceVars, actorVars, mRunning, mStopping,
                 mServer, mBtSock, backlog, server, socket, copy>>

\* The connection thread has ended, or the time is up.
JoinConnection(s) ==
  /\ thread[s] = "join"
  /\ ServerGoes(s, "loop")
  /\ UNCHANGED <<alive, events, serviceVars, actorVars, mRunning, mStopping,
                 mServer, mBtSock, backlog, connVars>>

\* onExit(): closes the server socket, and then sets the fields to null.
CloseServer(s) ==
  /\ thread[s] = "exit"
  /\ mServer' = [mServer EXCEPT ![s] = "closed"]
  /\ backlog' = [backlog EXCEPT ![s] = << >>]
  /\ Refuse({backlog[s][n] : n \in 1 .. Len(backlog[s])})
  /\ ServerGoes(s, "closed")
  /\ UNCHANGED <<alive, events, serviceVars, actorVars, mRunning, mStopping,
                 mBtSock, server, socket, copy>>

EndServer(s) ==
  /\ thread[s] = "closed"
  /\ mServer' = [mServer EXCEPT ![s] = "null"]
  /\ mBtSock' = [mBtSock EXCEPT ![s] = "closed"]
  /\ ServerGoes(s, "ended")
  /\ UNCHANGED <<alive, events, serviceVars, actorVars, mRunning, mStopping,
                 backlog, connVars>>

----------------------------------------------------------------------------
(***************************************************************************)
(* A connection thread.                                                    *)
(***************************************************************************)
ConnectionGoes(c, p) == connection' = [connection EXCEPT ![c] = p]

\* A stream of one of the sockets cannot be had.
StreamsFail(c) == connection[c] = "new" /\ Dies

StartCopies(c) ==
  /\ connection[c] = "new"
  /\ copy' = [copy EXCEPT ![c] = [d \in Directions |-> "copying"]]
  /\ ConnectionGoes(c, "copying")
  /\ UNCHANGED <<alive, events, serviceVars, actorVars, serverVars, server,
                 socket>>

\* stop.await(): a signal that comes before is lost.
AwaitStop(c) ==
  /\ connection[c] = "copying"
  /\ ConnectionGoes(c, "await")
  /\ UNCHANGED <<alive, events, serviceVars, actorVars, serverVars, server,
                 socket, copy>>

\* The copy threads are told to exit, socket.shutdownInput(), btSock.close().
Shut(c) ==
  /\ connection[c] = "signalled"
  /\ socket' = [socket EXCEPT ![c] = IF @ = "open" THEN "eof" ELSE @]
  /\ mBtSock' = [mBtSock EXCEPT ![server[c]] = "closed"]
  /\ ConnectionGoes(c, "join")
  /\ UNCHANGED <<alive, events, serviceVars, actorVars, thread, mRunning,
                 mStopping, mServer, backlog, server, copy>>

\* The copy threads have ended, or the time is up.
JoinCopies(c) ==
  /\ connection[c] = "join"
  /\ ConnectionGoes(c, "ended")
  /\ Post
  /\ UNCHANGED <<events, mThread, mHandler, actorVars, serverVars, server,
                 socket, copy>>

ShouldExit(c) == connection[c] \in {"join", "ended"}

----------------------------------------------------------------------------
(***************************************************************************)
(* A copy thread.  It ends at the end of its input, and tells; it ends     *)
(* after an error, or when data comes and it should exit, and is silent    *)
(* when it should.                                                         *)
(***************************************************************************)
BtGone(c) == mBtSock[server[c]] # "open"
UnixGone(c) == socket[c] # "open"

InputGone(c, d) == IF d = "BTtoUN" THEN BtGone(c) ELSE UnixGone(c)

\* onExit() closes both sockets, whichever way the thread ends.
CopyExits(c, d) ==
  /\ copy[c][d] = "copying"
  /\ copy' = [copy EXCEPT ![c][d] = "ended"]
  /\ socket' = [socket EXCEPT ![c] = "closed"]
  /\ mBtSock' = [mBtSock EXCEPT ![server[c]] = "closed"]

\* Mutant: a copy thread that ends does not tell.
CopyEndsSilently(c, d) ==
  /\ CopyExits(c, d)
  /\ ShouldExit(c) \/ BtGone(c) \/ UnixGone(c)
  /\ UNCHANGED <<alive, events, serviceVars, actorVars, thread, mRunning,
                 mStopping, mServer, backlog, server, connection>>

CopyEnds(c, d) ==
  /\ CopyExits(c, d)
  /\ \/ /\ ShouldExit(c)
        /\ UNCHANGED <<posted, alive>>
     \/ /\ InputGone(c, d) \/ (~ShouldExit(c) /\ (BtGone(c) \/ UnixGone(c)))
        /\ Post
  /\ UNCHANGED <<events, mThread, mHandler, actorVars, thread, mRunning,
                 mStopping, mServer, backlog, server, connection>>

----------------------------------------------------------------------------
(***************************************************************************)
(* The clients and the Bluetooth device.                                   *)
(***************************************************************************)
Connect(c) ==
  /\ Happens
  /\ connection[c] = "none"
  /\ \A e \in 1 .. c - 1 : connection[e] # "none"
  /\ \E s \in Servers :
       /\ mServer[s] = "open"
       /\ backlog' = [backlog EXCEPT ![s] = Append(@, c)]
  /\ ConnectionGoes(c, "queued")
  /\ UNCHANGED <<alive, serviceVars, actorVars, thread, mRunning, mStopping,
                 mServer, mBtSock, server, socket, copy>>

ClientCloses(c) ==
  /\ Happens
  /\ server[c] # None
  /\ socket[c] = "open"
  /\ socket' = [socket EXCEPT ![c] = "eof"]
  /\ UNCHANGED <<alive, serviceVars, actorVars, serverVars, server, connection,
                 copy>>

BtLost(s) ==
  /\ Happens
  /\ mBtSock[s] = "open"
  /\ mBtSock' = [mBtSock EXCEPT ![s] = "closed"]
  /\ UNCHANGED <<alive, serviceVars, actorVars, thread, mRunning, mStopping,
                 mServer, backlog, connVars>>

----------------------------------------------------------------------------
InCall(a) == pc[a] \notin {"idle", "destroyed"}

ActorStep(a) ==
  /\ InCall(a)
  /\ \/ StartTest(a) \/ Create(a) \/ Listen(a) \/ Bind(a) \/ BtConnect(a)
     \/ StopTest(a) \/ Forget(a)
     \/ TestRunning(a) \/ MarkStopping(a) \/ WakeServer(a) \/ JoinServer(a)

ServiceStep == \/ RunPosted \/ DestroyTest \/ DestroyStop \/ QuitLooper
               \/ JoinLooper

ServerStep(s) ==
  \/ RunServer(s) \/ Loop(s) \/ Accept(s) \/ AwaitSignal(s) \/ SignalConnection(s)
  \/ JoinConnection(s) \/ CloseServer(s) \/ EndServer(s)

ConnectionStep(c) == StartCopies(c) \/ AwaitStop(c) \/ Shut(c) \/ JoinCopies(c)

\* Who uses the service, and what it is used with.
Environment ==
  \/ \E a \in Callers : Start(a) \/ Stop(a)
  \/ Destroy
  \/ \E c \in Conns : Connect(c) \/ ClientCloses(c) \/ StreamsFail(c)
  \/ \E s \in Servers : BtLost(s) \/ AcceptFails(s)

Next ==
  /\ alive
  /\ \/ \E a \in Actors : ActorStep(a)
     \/ ServiceStep
     \/ \E s \in Servers : ServerStep(s)
     \/ \E c \in Conns : ConnectionStep(c)
     \/ \E c \in Conns, d \in Directions : CopyEnds(c, d)
     \/ Environment

Spec == Init /\ [][Next]_vars

(***************************************************************************)
(* Threads that can run are scheduled, and a read returns when its socket  *)
(* has come to its end.  A read of a Unix socket that another thread of    *)
(* the process has closed need not return.                                 *)
(***************************************************************************)
Fairness ==
  /\ \A a \in Actors : WF_vars(alive /\ ActorStep(a))
  /\ WF_vars(alive /\ ServiceStep)
  /\ \A s \in Servers : WF_vars(alive /\ ServerStep(s))
  /\ \A c \in Conns : WF_vars(alive /\ ConnectionStep(c))
  /\ \A c \in Conns :
       /\ WF_vars(alive /\ CopyEnds(c, "BTtoUN") /\ BtGone(c))
       /\ WF_vars(alive /\ CopyEnds(c, "UNtoBT") /\ socket[c] = "eof")

FairSpec == Spec /\ Fairness

----------------------------------------------------------------------------
(***************************************************************************)
(* The Bluetooth socket of a server, which a connection thread closes when *)
(* it ends, is never given to a second connection: the server stops after  *)
(* its first one.                                                          *)
(***************************************************************************)
BluetoothUsedOnce ==
  \A c, d \in Conns : server[c] # None /\ server[c] = server[d] => c = d

(***************************************************************************)
(* start(), stop(), onDestroy() and a runnable return, though the signal   *)
(* they send may be lost and the thread they join may never end.           *)
(***************************************************************************)
StopReturns ==
  \A a \in Actors : InCall(a) ~> ~InCall(a) \/ ~alive

(***************************************************************************)
(* When a side hangs up, the server is stopped, so that start() is         *)
(* possible again: the copy thread that notices has it cancelled.  Unless  *)
(* the service has moved on, to another server or to its end.              *)
(***************************************************************************)
SideGone(s) == \E c \in Conns, d \in Directions : server[c] = s /\ copy[c][d] = "ended"

HangUpStops ==
  \A s \in Servers :
    SideGone(s) /\ mThread = s
      ~> ~IsRunning(s) \/ mThread # s \/ mHandler # "up" \/ ~alive

(***************************************************************************)
(* A server that is told to stop ends: if it waits for the signal when it  *)
(* is sent, and if it has no client, because then the connection wakes it. *)
(* One that has a client and does not wait yet may never end.              *)
(***************************************************************************)
Awaits(s) == thread[s] = "await" /\ ~mStopping[s]

Ends(s) == thread[s] = "ended" \/ ~alive

ServerEnds ==
  \A s \in Servers :
    /\ [](Awaits(s) => [](mStopping[s] => <>Ends(s)))
    /\ mStopping[s] /\ thread[s] \notin {"serve", "await"} ~> Ends(s)

(***************************************************************************)
(* PCSCProxyService.java:451: to cancel a server that has stopped already  *)
(* is worth a warning.  So the runnable of onTerminated() needs a server,  *)
(* be it a stopped one.                                                    *)
(***************************************************************************)
CancelFindsServer == pc[Looper] = "test" => mThread # None
=============================================================================
