-------------------------------- MODULE Daemon --------------------------------
(***************************************************************************)
(* The proxy daemon of src/server/server.c: main() up to its loop, the     *)
(* loop, which accepts connections and forks a child for each, its signal  *)
(* handler, and which processes have which connection open.                *)
(*                                                                         *)
(* A connection names the child that serves it.  What a child does until   *)
(* it exits is in ServerChild.                                             *)
(***************************************************************************)
EXTENDS Naturals, Sequences, FiniteSets

CONSTANTS Conns,       \* connections to the daemon
          NoConn,
          Main,        \* the daemon's own process, beside its children
          MaxFds,      \* how many connections a process can have open
          Faults,      \* system calls that may fail
          Stops        \* how the daemon may be told to stop

ASSUME DaemonAssumption == /\ NoConn \notin Conns
                           /\ Main \notin Conns
                           /\ MaxFds \in Nat \ {0}
                           /\ Faults \subseteq {"startup", "accept", "fork"}
                           /\ Stops \subseteq {"signal", "pp_stop"}

VARIABLES phase,       \* where main() is
          newS,        \* the connection it has accepted
          abort,       \* pp_daemon_abort
          wakeable,    \* the wake pipe is readable
          backlog,     \* connections that have not been accepted
          holders,     \* the processes that have a connection open
          child,       \* the children
          sigchld      \* a SIGCHLD is pending in the daemon

vars == <<phase, newS, abort, wakeable, backlog, holders, child, sigchld>>

DaemonTypeOK ==
  /\ phase \in {"start", "setup", "check", "prepare", "select", "ready",
               "accepted", "forked", "stopped"}
  /\ newS \in Conns \cup {NoConn}
  /\ phase \in {"accepted", "forked"} => newS \in Conns
  /\ abort \in BOOLEAN
  /\ wakeable \in BOOLEAN
  /\ backlog \in Seq(Conns)
  /\ holders \in [Conns -> SUBSET (Conns \cup {Main})]
  /\ child \in [Conns -> {"none", "running", "zombie", "reaped"}]
  /\ sigchld \in BOOLEAN

Init ==
  /\ phase = "start"
  /\ newS = NoConn
  /\ abort = FALSE
  /\ wakeable = FALSE
  /\ backlog = << >>
  /\ holders = [c \in Conns |-> {}]
  /\ child = [c \in Conns |-> "none"]
  /\ sigchld = FALSE

Zombies == {c \in Conns : child[c] = "zombie"}

Closes(p) == [c \in Conns |-> holders[c] \ {p}]

\* main() leaves its loop, closes the listening socket and returns.  What is
\* in the backlog is reset, and the process has nothing open any more.
Leave ==
  /\ phase' = "stopped"
  /\ backlog' = << >>
  /\ holders' = Closes(Main)

----------------------------------------------------------------------------
(***************************************************************************)
(* Before the loop.  main() returns when something fails.                  *)
(***************************************************************************)
Reaches(p) == phase' \in IF "startup" \in Faults THEN {p, "stopped"} ELSE {p}

\* The wake pipe and the signal handler.
SetUp ==
  /\ phase = "start"
  /\ Reaches("setup")
  /\ UNCHANGED <<newS, abort, wakeable, backlog, holders, child, sigchld>>

\* The options, the TLS methods and their server context, the listening socket.
Listen ==
  /\ phase = "setup"
  /\ Reaches("check")
  /\ UNCHANGED <<newS, abort, wakeable, backlog, holders, child, sigchld>>

----------------------------------------------------------------------------
(***************************************************************************)
(* The loop.                                                               *)
(***************************************************************************)
Check ==
  /\ phase = "check"
  /\ \/ /\ abort
        /\ Leave
     \/ /\ ~abort
        /\ phase' = "prepare"
        /\ UNCHANGED <<backlog, holders>>
  /\ UNCHANGED <<newS, abort, wakeable, child, sigchld>>

\* The sets are built, and select() blocks.
Prepare ==
  /\ phase = "prepare"
  /\ phase' = "select"
  /\ UNCHANGED <<newS, abort, wakeable, backlog, holders, child, sigchld>>

\* Mutant: the listening socket is not in the set.
SelectWakePipe ==
  /\ phase = "select"
  /\ wakeable
  /\ phase' = "check"
  /\ UNCHANGED <<newS, abort, wakeable, backlog, holders, child, sigchld>>

\* select() returns.  Nothing reads the byte in the wake pipe.
Select ==
  /\ phase = "select"
  /\ \/ /\ wakeable
        /\ phase' = "check"
     \/ /\ ~wakeable
        /\ backlog # << >>
        /\ phase' = "ready"
  /\ UNCHANGED <<newS, abort, wakeable, backlog, holders, child, sigchld>>

NoDescriptor == Cardinality({c \in Conns : Main \in holders[c]}) >= MaxFds

\* Mutant: the result of accept() is not looked at.
AcceptUnchecked ==
  /\ phase = "ready"
  /\ backlog # << >>
  /\ backlog' = Tail(backlog)
  /\ phase' = "accepted"
  /\ \/ /\ newS' = Head(backlog)
        /\ holders' = [holders EXCEPT ![Head(backlog)] = @ \cup {Main}]
     \/ /\ "accept" \in Faults
        /\ UNCHANGED <<newS, holders>>
  /\ UNCHANGED <<abort, wakeable, child, sigchld>>

\* accept() gives the connection, or the error that has ended it meanwhile;
\* without a descriptor to give it leaves it in the backlog, and select() will
\* return at once.
Accept ==
  /\ phase = "ready"
  /\ backlog # << >>
  /\ \/ /\ ~NoDescriptor
        /\ newS' = Head(backlog)
        /\ holders' = [holders EXCEPT ![Head(backlog)] = @ \cup {Main}]
        /\ backlog' = Tail(backlog)
        /\ phase' = "accepted"
     \/ /\ "accept" \in Faults
        /\ backlog' = Tail(backlog)
        /\ phase' = "check"
        /\ UNCHANGED <<newS, holders>>
     \/ /\ NoDescriptor
        /\ phase' = "check"
        /\ UNCHANGED <<newS, holders, backlog>>
  /\ UNCHANGED <<abort, wakeable, child, sigchld>>

\* The child has everything open that the daemon has.  When fork() fails, the
\* daemon forgets the connection, and does not close it.
Fork ==
  /\ phase = "accepted"
  /\ \/ /\ child' = [child EXCEPT ![newS] = "running"]
        /\ holders' = [c \in Conns |-> IF Main \in holders[c]
                                         THEN holders[c] \cup {newS}
                                         ELSE holders[c]]
        /\ phase' = "forked"
        /\ UNCHANGED newS
     \/ /\ "fork" \in Faults
        /\ phase' = "check"
        /\ newS' = NoConn
        /\ UNCHANGED <<child, holders>>
  /\ UNCHANGED <<abort, wakeable, backlog, sigchld>>

\* Mutant: the parent keeps the connection open.
HandOverOpen ==
  /\ phase = "forked"
  /\ newS' = NoConn
  /\ phase' = "check"
  /\ UNCHANGED <<abort, wakeable, backlog, holders, child, sigchld>>

\* The parent closes newS.
HandOver ==
  /\ phase = "forked"
  /\ holders' = [holders EXCEPT ![newS] = @ \ {Main}]
  /\ newS' = NoConn
  /\ phase' = "check"
  /\ UNCHANGED <<abort, wakeable, backlog, child, sigchld>>

----------------------------------------------------------------------------
(***************************************************************************)
(* Signals, handled by signalHandler() wherever main() is.  A select()     *)
(* they interrupt fails, and main() leaves its loop.                       *)
(***************************************************************************)
Interrupted ==
  IF phase = "select" THEN Leave
                      ELSE UNCHANGED <<phase, backlog, holders>>

\* SIGINT, SIGTERM or SIGHUP, which end a process that has no handler yet.
Terminate ==
  /\ "signal" \in Stops
  /\ phase # "stopped"
  /\ \/ /\ phase = "start"
        /\ phase' = "stopped"
        /\ UNCHANGED <<abort, backlog, holders>>
     \/ /\ phase # "start"
        /\ abort' = TRUE
        /\ Interrupted
  /\ UNCHANGED <<newS, wakeable, child, sigchld>>

\* Mutant: one child is reaped for each signal.
ReapOne ==
  /\ phase # "stopped"
  /\ sigchld
  /\ sigchld' = FALSE
  /\ \E c \in Zombies : child' = [child EXCEPT ![c] = "reaped"]
  /\ Interrupted
  /\ UNCHANGED <<newS, abort, wakeable>>

\* SIGCHLD: one signal may stand for several children.
Reap ==
  /\ phase # "stopped"
  /\ sigchld
  /\ sigchld' = FALSE
  /\ child' = [c \in Conns |-> IF c \in Zombies THEN "reaped" ELSE child[c]]
  /\ Interrupted
  /\ UNCHANGED <<newS, abort, wakeable>>

\* pp_stop(), which nothing in the repository calls.
Stop ==
  /\ "pp_stop" \in Stops
  /\ phase \notin {"start", "stopped"}
  /\ abort' = TRUE
  /\ wakeable' = TRUE
  /\ UNCHANGED <<phase, newS, backlog, holders, child, sigchld>>

----------------------------------------------------------------------------
(***************************************************************************)
(* The clients and the children.                                           *)
(***************************************************************************)
Queued(c) == \E n \in 1 .. Len(backlog) : backlog[n] = c

Connect(c) ==
  /\ phase \notin {"start", "setup", "stopped"}
  /\ child[c] = "none"
  /\ holders[c] = {}
  /\ ~Queued(c)
  /\ backlog' = Append(backlog, c)
  /\ UNCHANGED <<phase, newS, abort, wakeable, holders, child, sigchld>>

\* The child of c exits: its client has closed the connection, the TLS
\* handshake has failed, a signal has interrupted it.
ChildExits(c) ==
  /\ child[c] = "running"
  /\ child' = [child EXCEPT ![c] = "zombie"]
  /\ holders' = Closes(c)
  /\ sigchld' = (phase # "stopped")
  /\ UNCHANGED <<phase, newS, abort, wakeable, backlog>>

MainStep == SetUp \/ Listen \/ Check \/ Prepare \/ Select \/ Accept \/ Fork \/ HandOver

Next ==
  \/ MainStep
  \/ Terminate
  \/ Reap
  \/ Stop
  \/ \E c \in Conns : Connect(c) \/ ChildExits(c)

Spec == Init /\ [][Next]_vars

\* The daemon's process is scheduled, and signals are delivered to it.
FairSpec == Spec /\ WF_vars(MainStep) /\ WF_vars(Reap)

----------------------------------------------------------------------------
(***************************************************************************)
(* Signals of several children are one signal, but no child stays a zombie *)
(* that the daemon will not be told about.                                 *)
(***************************************************************************)
ZombiesNoticed == phase # "stopped" /\ Zombies # {} => sigchld

(***************************************************************************)
(* When a child is gone its client is told so: no other process has the    *)
(* connection open, not the daemon, once it has closed newS, and not the   *)
(* children forked later, which have open whatever the daemon had.  A      *)
(* client in recv() would wait forever otherwise.                          *)
(***************************************************************************)
HungUp ==
  \A c \in Conns :
    child[c] \in {"zombie", "reaped"} /\ newS # c => holders[c] = {}

(***************************************************************************)
(* Why HungUp holds.  The daemon handles one connection at a time; what it *)
(* forgets to close has no child; and so a child inherits, beside its own  *)
(* connection, only connections without a child.                           *)
(***************************************************************************)
BacklogFresh ==
  /\ \A n \in 1 .. Len(backlog) :
       child[backlog[n]] = "none" /\ holders[backlog[n]] = {}
  /\ \A m, n \in 1 .. Len(backlog) : backlog[m] = backlog[n] => m = n

HandlingOne ==
  /\ phase = "accepted" => /\ newS \in Conns
                           /\ child[newS] = "none"
                           /\ holders[newS] = {Main}
  /\ phase = "forked" => /\ newS \in Conns
                         /\ child[newS] # "none"
                         /\ holders[newS] \subseteq
                              IF child[newS] = "running" THEN {Main, newS} ELSE {Main}
  /\ phase \notin {"accepted", "forked"} => newS = NoConn

ServedByOne ==
  \A c \in Conns :
    newS # c /\ child[c] # "none" =>
      holders[c] \subseteq IF child[c] = "running" THEN {c} ELSE {}

HoldersInvariant == BacklogFresh /\ HandlingOne /\ ServedByOne

(***************************************************************************)
(* A client that has connected is accepted or, when the daemon stops,      *)
(* reset.  Whatever signals come in between, and until the connections     *)
(* that failing forks have left open take up all descriptors: these, and   *)
(* nothing else, can use them up.                                          *)
(***************************************************************************)
Forgotten == {c \in Conns : Main \in holders[c] /\ child[c] = "none" /\ newS # c}

BacklogServed ==
  \A c \in Conns : Queued(c) ~> ~Queued(c) \/ Cardinality(Forgotten) >= MaxFds

(***************************************************************************)
(* The log message of pp_stop() and of the signal handler, server.c:74 and *)
(* server.c:98: the daemon terminates.                                     *)
(***************************************************************************)
AbortStops == abort ~> phase = "stopped"

(***************************************************************************)
(* README, section 2.1: the daemon is started at boot and then available.  *)
(* It stops only when told to.                                             *)
(***************************************************************************)
StopsOnlyWhenTold == phase = "stopped" => abort
=============================================================================
