----------------------------- MODULE DaemonProofs -----------------------------
(***************************************************************************)
(* Theorems of Daemon, for any set of connections.                         *)
(***************************************************************************)
EXTENDS Daemon, TLAPS

USE DEF MainStep

\* The daemon's variables keep their types: the first state.
THEOREM InitDaemonTypeOK == Init => DaemonTypeOK
<1> SUFFICES ASSUME Init PROVE DaemonTypeOK
  OBVIOUS
<1>1. holders \in [Conns -> SUBSET (Conns \cup {Main})]
  BY DEF Init
<1>2. backlog \in Seq(Conns)
  BY DEF Init
<1> QED
  BY <1>1, <1>2 DEF Init, DaemonTypeOK

LEMMA ClosesType ==
  ASSUME DaemonTypeOK, NEW p
  PROVE  Closes(p) \in [Conns -> SUBSET (Conns \cup {Main})]
<1>1. \A c \in Conns : holders[c] \ {p} \in SUBSET (Conns \cup {Main})
  BY DEF DaemonTypeOK
<1> QED
  BY <1>1 DEF Closes

\* A signal leaves main() where it is, or makes it leave its loop.
LEMMA InterruptedType ==
  ASSUME DaemonTypeOK, Leave \/ UNCHANGED <<phase, backlog, holders>>
  PROVE  /\ phase' \in {"start", "setup", "check", "prepare", "select", "ready",
                        "accepted", "forked", "stopped"}
         /\ phase' \in {"accepted", "forked"} => newS \in Conns
         /\ backlog' \in Seq(Conns)
         /\ holders' \in [Conns -> SUBSET (Conns \cup {Main})]
<1>1. CASE Leave
  BY <1>1, ClosesType DEF Leave
<1>2. CASE UNCHANGED <<phase, backlog, holders>>
  BY <1>2 DEF DaemonTypeOK
<1> QED
  BY <1>1, <1>2

\* The daemon's variables keep their types: a step.
THEOREM NextDaemonTypeOK == DaemonTypeOK /\ [Next]_vars => DaemonTypeOK'
<1> SUFFICES ASSUME DaemonTypeOK, [Next]_vars PROVE DaemonTypeOK'
  OBVIOUS
<1> USE DaemonAssumption DEF DaemonTypeOK
<1>1. CASE Check
  <2>1. CASE Leave
    BY <1>1, <2>1, InterruptedType DEF Check, Leave
  <2>2. CASE phase' = "prepare" /\ UNCHANGED <<backlog, holders>>
    BY <1>1, <2>2 DEF Check
  <2> QED
    BY <1>1, <2>1, <2>2 DEF Check
<1>2. CASE Prepare
  BY <1>2 DEF Prepare
<1>3. CASE Select
  BY <1>3 DEF Select
<1>4. CASE Accept
  BY <1>4 DEF Accept
<1>5. CASE Fork
  <2>1. CASE UNCHANGED <<child, holders>>
    BY <1>5, <2>1 DEF Fork
  <2>2. CASE holders' = [c \in Conns |-> IF Main \in holders[c]
                                           THEN holders[c] \cup {newS}
                                           ELSE holders[c]]
             /\ child' = [child EXCEPT ![newS] = "running"]
             /\ newS \in Conns
    <3>1. \A c \in Conns : holders'[c] \in SUBSET (Conns \cup {Main})
      BY <2>2
    <3>2. holders' \in [Conns -> SUBSET (Conns \cup {Main})]
      BY <2>2, <3>1
    <3> QED
      BY <1>5, <2>2, <3>2 DEF Fork
  <2> QED
    BY <1>5, <2>1, <2>2 DEF Fork
<1>6. CASE HandOver
  BY <1>6 DEF HandOver
<1>7. CASE Terminate
  BY <1>7, InterruptedType DEF Terminate, Interrupted
<1>8. CASE Reap
  <2>1. child' \in [Conns -> {"none", "running", "zombie", "reaped"}]
    BY <1>8 DEF Reap
  <2> QED
    BY <1>8, <2>1, InterruptedType DEF Reap, Interrupted
<1>9. CASE Stop
  BY <1>9 DEF Stop
<1>10. ASSUME NEW c \in Conns, Connect(c) PROVE DaemonTypeOK'
  BY <1>10 DEF Connect
<1>11. ASSUME NEW c \in Conns, ChildExits(c) PROVE DaemonTypeOK'
  BY <1>11 DEF ChildExits, Closes
<1>12. CASE SetUp \/ Listen
  BY <1>12 DEF SetUp, Listen, Reaches
<1>13. CASE UNCHANGED vars
  BY <1>13 DEF vars
<1> QED
  BY <1>1, <1>2, <1>3, <1>4, <1>5, <1>6, <1>7, <1>8, <1>9, <1>10, <1>11, <1>12,
     <1>13
  DEF Next

\* The daemon's variables keep their types.
THEOREM DaemonTypeCorrect == Spec => []DaemonTypeOK
<1> QED
  BY InitDaemonTypeOK, NextDaemonTypeOK, PTL DEF Spec

----------------------------------------------------------------------------
\* No child stays a zombie the daemon will not be told about.
THEOREM ZombiesCorrect == Spec => []ZombiesNoticed
<1>1. Init => ZombiesNoticed
  BY DEF Init, ZombiesNoticed, Zombies
<1>2. DaemonTypeOK /\ ZombiesNoticed /\ [Next]_vars => ZombiesNoticed'
  <2> SUFFICES ASSUME DaemonTypeOK, ZombiesNoticed, [Next]_vars,
                      phase' # "stopped", NEW z \in Conns, child'[z] = "zombie"
               PROVE  sigchld'
    BY DEF ZombiesNoticed, Zombies
  <2> USE DEF DaemonTypeOK, ZombiesNoticed, Zombies
  <2>1. CASE Check
    BY <2>1 DEF Check, Leave
  <2>2. CASE Prepare
    BY <2>2 DEF Prepare
  <2>3. CASE Select
    BY <2>3 DEF Select
  <2>4. CASE Accept
    BY <2>4 DEF Accept
  <2>5. CASE Fork
    BY <2>5 DEF Fork
  <2>6. CASE HandOver
    BY <2>6 DEF HandOver
  <2>7. CASE Terminate
    BY <2>7 DEF Terminate, Interrupted, Leave
  <2>8. CASE Reap
    BY <2>8 DEF Reap
  <2>9. CASE Stop
    BY <2>9 DEF Stop
  <2>10. ASSUME NEW c \in Conns, Connect(c) PROVE sigchld'
    BY <2>10 DEF Connect
  <2>11. ASSUME NEW c \in Conns, ChildExits(c) PROVE sigchld'
    BY <2>11 DEF ChildExits
  <2>12. CASE SetUp \/ Listen
    BY <2>12 DEF SetUp, Listen, Reaches
  <2>13. CASE UNCHANGED vars
    BY <2>13 DEF vars
  <2> QED
    BY <2>1, <2>2, <2>3, <2>4, <2>5, <2>6, <2>7, <2>8, <2>9, <2>10, <2>11, <2>12,
       <2>13
    DEF Next
<1> QED
  BY <1>1, <1>2, DaemonTypeCorrect, PTL DEF Spec

----------------------------------------------------------------------------
\* The invariant behind HungUp: the first state.
THEOREM InitHolders == Init => HoldersInvariant
  BY DEF Init, HoldersInvariant, BacklogFresh, HandlingOne, ServedByOne

\* A step that closes the daemon's connections and empties the backlog.
LEMMA LeaveHolders ==
  ASSUME DaemonTypeOK, HoldersInvariant, Leave, phase = "select" \/ phase = "check",
         UNCHANGED newS,
         \A c \in Conns : \/ child'[c] = child[c]
                          \/ /\ child[c] = "zombie"
                             /\ child'[c] = "reaped"
  PROVE  HoldersInvariant'
<1> USE DaemonAssumption DEF DaemonTypeOK, HoldersInvariant
<1>1. BacklogFresh'
  BY DEF Leave, BacklogFresh
<1>2. HandlingOne'
  BY DEF Leave, HandlingOne
<1>3. ServedByOne'
  BY DEF Leave, Closes, ServedByOne
<1> QED
  BY <1>1, <1>2, <1>3

\* The invariant behind HungUp: a step.
THEOREM NextHolders ==
  DaemonTypeOK /\ HoldersInvariant /\ [Next]_vars => HoldersInvariant'
<1> SUFFICES ASSUME DaemonTypeOK, HoldersInvariant, [Next]_vars
             PROVE  HoldersInvariant'
  OBVIOUS
<1> USE DaemonAssumption DEF DaemonTypeOK, HoldersInvariant
<1>1. CASE Check
  <2>1. CASE Leave
    BY <1>1, <2>1, LeaveHolders DEF Check
  <2>2. CASE phase' = "prepare" /\ UNCHANGED <<backlog, holders>>
    BY <1>1, <2>2 DEF Check, BacklogFresh, HandlingOne, ServedByOne
  <2> QED
    BY <1>1, <2>1, <2>2 DEF Check
<1>2. CASE Prepare
  BY <1>2 DEF Prepare, BacklogFresh, HandlingOne, ServedByOne
<1>3. CASE Select
  BY <1>3 DEF Select, BacklogFresh, HandlingOne, ServedByOne
<1>4. CASE Accept
  <2>1. CASE phase' = "check"
    BY <1>4, <2>1 DEF Accept, BacklogFresh, HandlingOne, ServedByOne
  <2>2. CASE phase' = "accepted"
    <3> DEFINE c == Head(backlog)
    <3>1. /\ backlog # << >>
          /\ c \in Conns
          /\ newS = NoConn
          /\ newS' = c
          /\ holders' = [holders EXCEPT ![c] = @ \cup {Main}]
          /\ UNCHANGED child
          /\ backlog' = Tail(backlog)
      BY <1>4, <2>2 DEF Accept, HandlingOne
    <3>2. /\ c = backlog[1]
          /\ Len(backlog) \in Nat
          /\ Len(backlog) >= 1
          /\ Len(backlog') = Len(backlog) - 1
          /\ \A n \in 1 .. Len(backlog') : backlog'[n] = backlog[n + 1]
      BY <3>1
    <3>3. child[c] = "none" /\ holders[c] = {}
      BY <3>2 DEF BacklogFresh
    <3>4. \A n \in 1 .. Len(backlog') : backlog'[n] # c /\ backlog'[n] \in Conns
      BY <3>2 DEF BacklogFresh
    <3>5. BacklogFresh'
      <4> SUFFICES ASSUME NEW m \in 1 .. Len(backlog'), NEW n \in 1 .. Len(backlog')
                   PROVE  /\ child'[backlog'[n]] = "none"
                          /\ holders'[backlog'[n]] = {}
                          /\ backlog'[m] = backlog'[n] => m = n
        BY DEF BacklogFresh
      <4>1. m + 1 \in 1 .. Len(backlog) /\ n + 1 \in 1 .. Len(backlog)
        BY <3>2
      <4> QED
        BY <3>1, <3>2, <3>4, <4>1 DEF BacklogFresh
    <3>6. HandlingOne'
      BY <2>2, <3>1, <3>3 DEF HandlingOne
    <3>7. ServedByOne'
      BY <3>1, <3>3 DEF ServedByOne
    <3> QED
      BY <3>5, <3>6, <3>7
  <2> QED
    BY <1>4, <2>1, <2>2 DEF Accept
<1>5. CASE Fork
  <2>1. newS \in Conns /\ child[newS] = "none" /\ holders[newS] = {Main}
    BY <1>5 DEF Fork, HandlingOne
  <2>2. \A n \in 1 .. Len(backlog) : backlog[n] \in Conns /\ backlog[n] # newS
    BY <2>1 DEF BacklogFresh
  <2>3. CASE phase' = "forked"
    <3>1. BacklogFresh'
      BY <1>5, <2>2, <2>3 DEF Fork, BacklogFresh
    <3>2. HandlingOne'
      <4>1. /\ newS' = newS
            /\ child'[newS] = "running"
            /\ holders'[newS] = {Main, newS}
        BY <1>5, <2>1, <2>3 DEF Fork
      <4> QED
        BY <2>1, <2>3, <4>1 DEF HandlingOne
    <3>3. ServedByOne'
      <4> SUFFICES ASSUME NEW c \in Conns, newS # c, child[c] # "none"
                   PROVE  holders'[c] = holders[c] /\ child'[c] = child[c]
        BY <1>5, <2>3 DEF Fork, ServedByOne
      <4>1. Main \notin holders[c]
        BY DEF ServedByOne
      <4> QED
        BY <1>5, <2>3, <4>1 DEF Fork
    <3> QED
      BY <3>1, <3>2, <3>3
  <2>4. CASE phase' = "check"
    BY <1>5, <2>1, <2>4 DEF Fork, BacklogFresh, HandlingOne, ServedByOne
  <2> QED
    BY <1>5, <2>3, <2>4 DEF Fork
<1>6. CASE HandOver
  <2>1. /\ newS \in Conns
        /\ child[newS] # "none"
        /\ holders'[newS] \subseteq IF child[newS] = "running" THEN {newS} ELSE {}
        /\ newS' = NoConn
        /\ phase' = "check"
        /\ UNCHANGED <<child, backlog>>
        /\ \A c \in Conns \ {newS} : holders'[c] = holders[c]
    BY <1>6 DEF HandOver, HandlingOne
  <2>2. \A n \in 1 .. Len(backlog) : backlog[n] \in Conns /\ backlog[n] # newS
    BY <2>1 DEF BacklogFresh
  <2>3. BacklogFresh'
    BY <2>1, <2>2 DEF BacklogFresh
  <2>4. HandlingOne'
    BY <2>1 DEF HandlingOne
  <2>5. ServedByOne'
    BY <2>1 DEF ServedByOne
  <2> QED
    BY <2>3, <2>4, <2>5
<1>7. CASE Terminate
  <2>1. CASE phase = "select"
    BY <1>7, <2>1, LeaveHolders DEF Terminate, Interrupted
  <2>2. CASE phase # "select"
    BY <1>7, <2>2 DEF Terminate, Interrupted, BacklogFresh, HandlingOne, ServedByOne
  <2> QED
    BY <2>1, <2>2
<1>8. CASE Reap
  <2>1. CASE phase = "select"
    BY <1>8, <2>1, LeaveHolders DEF Reap, Interrupted, Zombies
  <2>2. CASE phase # "select"
    <3>1. /\ UNCHANGED <<phase, newS, backlog, holders>>
          /\ \A c \in Conns : \/ child'[c] = child[c]
                              \/ /\ child[c] = "zombie"
                                 /\ child'[c] = "reaped"
      BY <1>8, <2>2 DEF Reap, Interrupted, Zombies
    <3>2. \A n \in 1 .. Len(backlog) : backlog[n] \in Conns
      OBVIOUS
    <3>3. BacklogFresh'
      BY <3>1, <3>2 DEF BacklogFresh
    <3>4. HandlingOne'
      BY <3>1 DEF HandlingOne
    <3>5. ServedByOne'
      BY <3>1 DEF ServedByOne
    <3> QED
      BY <3>3, <3>4, <3>5
  <2> QED
    BY <2>1, <2>2
<1>9. CASE Stop
  BY <1>9 DEF Stop, BacklogFresh, HandlingOne, ServedByOne
<1>10. ASSUME NEW c \in Conns, Connect(c) PROVE HoldersInvariant'
  <2>1. /\ child[c] = "none"
        /\ holders[c] = {}
        /\ \A n \in 1 .. Len(backlog) : backlog[n] # c
        /\ UNCHANGED <<phase, newS, holders, child>>
    BY <1>10 DEF Connect, Queued
  <2>2. /\ Len(backlog) \in Nat
        /\ Len(backlog') = Len(backlog) + 1
        /\ \A n \in 1 .. Len(backlog) : backlog'[n] = backlog[n]
        /\ backlog'[Len(backlog')] = c
    BY <1>10 DEF Connect
  <2>3. BacklogFresh'
    <3> SUFFICES ASSUME NEW m \in 1 .. Len(backlog'), NEW n \in 1 .. Len(backlog')
                 PROVE  /\ child'[backlog'[n]] = "none"
                        /\ holders'[backlog'[n]] = {}
                        /\ backlog'[m] = backlog'[n] => m = n
      BY DEF BacklogFresh
    <3>1. /\ m \in 1 .. Len(backlog) \/ m = Len(backlog')
          /\ n \in 1 .. Len(backlog) \/ n = Len(backlog')
      BY <2>2
    <3> QED
      BY <2>1, <2>2, <3>1 DEF BacklogFresh
  <2>4. HandlingOne' /\ ServedByOne'
    BY <2>1 DEF HandlingOne, ServedByOne
  <2> QED
    BY <2>3, <2>4
<1>11. ASSUME NEW c \in Conns, ChildExits(c) PROVE HoldersInvariant'
  <2>1. /\ child[c] = "running"
        /\ child' = [child EXCEPT ![c] = "zombie"]
        /\ \A d \in Conns : holders'[d] = holders[d] \ {c}
        /\ UNCHANGED <<phase, newS, backlog>>
    BY <1>11 DEF ChildExits, Closes
  <2>2. \A n \in 1 .. Len(backlog) : backlog[n] \in Conns /\ backlog[n] # c
    BY <2>1 DEF BacklogFresh
  <2>3. BacklogFresh'
    BY <2>1, <2>2 DEF BacklogFresh
  <2>4. HandlingOne'
    BY <2>1 DEF HandlingOne
  <2>5. ServedByOne'
    BY <2>1 DEF ServedByOne
  <2> QED
    BY <2>3, <2>4, <2>5
<1>12. CASE SetUp \/ Listen
  BY <1>12 DEF SetUp, Listen, Reaches, BacklogFresh, HandlingOne, ServedByOne
<1>13. CASE UNCHANGED vars
  BY <1>13 DEF vars, BacklogFresh, HandlingOne, ServedByOne
<1> QED
  BY <1>1, <1>2, <1>3, <1>4, <1>5, <1>6, <1>7, <1>8, <1>9, <1>10, <1>11, <1>12,
     <1>13
  DEF Next

\* Who has which connection open, always.
THEOREM HoldersCorrect == Spec => []HoldersInvariant
<1> QED
  BY InitHolders, NextHolders, DaemonTypeCorrect, PTL DEF Spec

\* When a child is gone, nobody has its connection open.
THEOREM HungUpCorrect == Spec => []HungUp
<1>1. HoldersInvariant => HungUp
  BY DEF HoldersInvariant, ServedByOne, HungUp
<1> QED
  BY <1>1, HoldersCorrect, PTL
=============================================================================
