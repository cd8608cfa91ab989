---------------------------- MODULE SessionProofs ----------------------------
(***************************************************************************)
(* Three inductive invariants about sessions, for an application whose     *)
(* threads use the handles they hold, or share them: ConnectionInvariant   *)
(* and StrayInvariant whatever fails, SharingInvariant unless a recv() is  *)
(* interrupted.                                                            *)
(***************************************************************************)
EXTENDS ReplyProofs, FiniteSetTheorems

LEMMA ExchangedResult ==
  ASSUME TypeOK, NEW t \in Threads, NEW rv, NEW m, NEW a, Exchanged(t, rv, m, a)
  PROVE  /\ call'[t].rv = rv
         /\ call'[t].session = call[t].session
<1>1. call[t] \in Calls
  BY DEF TypeOK, ClientTypeOK, ClientDomains
<1>2. call' = [call EXCEPT ![t] = [call[t] EXCEPT !.rv = rv, !.msg = m, !.answer = a]]
  BY DEF Exchanged
<1>3. call'[t] = [call[t] EXCEPT !.rv = rv, !.msg = m, !.answer = a]
  BY <1>2 DEF TypeOK, ClientTypeOK, ClientDomains
<1> QED
  BY <1>1, <1>3 DEF Calls

LEMMA TableTypes ==
  ASSUME TypeOK
  PROVE  /\ \A i \in Slots : contextArray[i].session \in Sessions \cup {NoSession}
         /\ \A u \in Threads : Active(u) => call[u].id \in Sessions /\ call[u].ctx \in Slots
         /\ \A u \in Threads : pc[u] = "recv" => call[u].session \in Sessions
         /\ NoSession \notin Sessions
         /\ DOMAIN clientEnd = Sessions /\ DOMAIN serverEnd = Sessions
BY SlotTypes
DEF Contexts, TypeOK, ClientTypeOK, ClientDomains, CallsPointOK, ConnTypeOK, Sessions,
    CallIds, Handles, NoCall, NoSession, Active

\* The steps that neither open nor close a session.
TableKept == \A i \in Slots : contextArray'[i].session = contextArray[i].session

LEMMA TableKeptEffect ==
  ASSUME TypeOK, TableKept
  PROVE  \A u \in Threads : Active(u) /\ call'[u].ctx = call[u].ctx =>
                              SessionOf(u)' = SessionOf(u)
BY TableTypes DEF TableKept, SessionOf

----------------------------------------------------------------------------
\* SessionsOpen.
LEMMA ClientKeepsOpen ==
  ASSUME TypeOK, SlotInvariant, SessionInvariant, SessionsOpen, NEW t \in Threads,
         Call(t) \/ Continue(t)
  PROVE  SessionsOpen'
<1>1. CASE Die
  BY <1>1 DEF Die, SessionsOpen
<1>2. ASSUME alive' = alive, TableKept, clientEnd' = clientEnd PROVE SessionsOpen'
  BY <1>2 DEF SessionsOpen, TableKept
<1>3. CASE Call(t)
  <2>1. CASE EstablishContext(t)
    <3>1. TableKept
      BY <2>1, SlotTypes DEF EstablishContext, TableKept, Contexts
    <3> QED
      BY <1>2, <2>1, <3>1 DEF EstablishContext, connVars
  <2> QED
    BY <1>1, <1>2, <1>3, <2>1
    DEF Call, NoEnvironment, TlsInitFails, NoContext, BlockOnMutex, ContextCall,
        CardCall, CancelContext, tableVars, connVars, TableKept
<1>4. CASE OpenConnection(t)
  <2> DEFINE i == call[t].ctx
             c == call[t].id
  <2>1. i \in Slots /\ c \in Sessions /\ clientEnd[c] = "none"
    BY <1>4, TableTypes
    DEF OpenConnection, Active, SessionInvariant, SessionsFresh, SessionOf
  <2>2. /\ contextArray'[i].session = c
        /\ \A j \in Slots \ {i} : contextArray'[j].session = contextArray[j].session
        /\ \A s \in Sessions \ {c} : clientEnd'[s] = clientEnd[s]
        /\ clientEnd'[c] = "open"
        /\ alive' = alive
    BY <1>4, <2>1, SlotTypes, TableTypes DEF OpenConnection, Contexts
  <2>3. \A j \in Slots : contextArray[j].session # c
    BY <2>1, TableTypes DEF SessionInvariant, SessionsApart
  <2> QED
    BY <2>1, <2>2, <2>3, TableTypes DEF SessionsOpen
<1>5. CASE CloseSession(t) /\ SessionOf(t) # NoSession
  <2> DEFINE i == call[t].ctx
             c == SessionOf(t)
  <2>1. i \in Slots /\ c \in Sessions /\ c = contextArray[i].session
    BY <1>5, TableTypes DEF CloseSession, Finishing, Active, SessionOf
  <2>2. /\ contextArray'[i].session = NoSession
        /\ \A j \in Slots \ {i} : contextArray'[j].session = contextArray[j].session
        /\ \A s \in Sessions \ {c} : clientEnd'[s] = clientEnd[s]
        /\ alive' = alive
    BY <1>5, <2>1, SlotTypes, TableTypes DEF CloseSession, Contexts
  <2>3. \A j \in Slots \ {i} : contextArray[j].session # c
    BY <2>1, TableTypes DEF SessionInvariant, SessionsApart
  <2> QED
    BY <2>1, <2>2, <2>3, TableTypes DEF SessionsOpen
<1>6. CASE FinishEstablish(t) \/ FinishRelease(t)
  <2>1. TableKept
    BY <1>6, SlotTypes DEF FinishEstablish, FinishRelease, TableKept, Contexts
  <2> QED
    BY <1>2, <1>6, <2>1 DEF FinishEstablish, FinishRelease, connVars
<1>7. CASE CreateCard(t) \/ NotConnected(t) \/ Send(t) \/ SendFails(t) \/ EnterRecv(t)
             \/ ReceiveReply(t) \/ ReceiveEnd(t) \/ ReceiveError(t)
             \/ ReceiveInterrupted(t) \/ FinishConnect(t) \/ Return(t)
  BY <1>1, <1>2, <1>7
  DEF CreateCard, NotConnected, Send, SendFails, EnterRecv, ReceiveReply, ReceiveEnd,
      ReceiveError, ReceiveInterrupted, FinishConnect, Return, tableVars, connVars,
      TableKept
<1>8. CASE CloseSession(t) /\ SessionOf(t) = NoSession
  BY <1>1, <1>8 DEF CloseSession
<1> QED
  BY <1>3, <1>4, <1>5, <1>6, <1>7, <1>8 DEF Continue

----------------------------------------------------------------------------
\* SessionsHeld.  What an active call needs of its session.
Needs(u) ==
  /\ Active(u)
  /\ pc[u] # "unlock"
  /\ \/ call[u].op # "EstablishContext"
     \/ pc[u] \in {"enter", "recv"}
     \/ pc[u] = "finish" /\ call[u].rv = "ok"

LEMMA HeldKept ==
  ASSUME TypeOK, SessionsHeld, NEW t \in Threads, OthersKeep(t), TableKept,
         \A i \in Slots : contextOwner'[i] # None =>
           contextOwner[i] # None \/ contextArray[i].session # NoSession,
         Needs(t)' => /\ call'[t].ctx \in Slots
                      /\ contextArray[call'[t].ctx].session # NoSession
  PROVE  SessionsHeld'
<1>1. \A i \in Slots : contextOwner'[i] # None => contextArray'[i].session # NoSession
  BY DEF SessionsHeld, TableKept
<1>2. ASSUME NEW u \in Threads, Needs(u)' PROVE SessionOf(u)' # NoSession
  <2>1. CASE u = t
    BY <1>2, <2>1 DEF SessionOf, TableKept
  <2>2. CASE u # t
    <3>1. Needs(u) /\ Active(u) /\ call'[u] = call[u]
      BY <1>2, <2>2 DEF Needs, Active, OthersKeep
    <3>2. SessionOf(u) # NoSession
      BY <3>1 DEF SessionsHeld, Needs
    <3> QED
      BY <3>1, <3>2, TableKeptEffect
  <2> QED
    BY <2>1, <2>2
<1> QED
  BY <1>1, <1>2 DEF SessionsHeld, Needs

LEMMA CallKeepsHeld ==
  ASSUME TypeOK, SlotInvariant, SessionsHeld, Discipline # "any", NEW t \in Threads,
         Call(t)
  PROVE  SessionsHeld'
<1>0. ASSUME NEW op, NEW rv, Refuse(t, op, rv), TableKept,
             \A i \in Slots : contextOwner'[i] \in {contextOwner[i], None}
      PROVE  SessionsHeld'
  BY <1>0, RefuseEffect, HeldKept DEF Needs, Active
<1>1. CASE Die
  BY <1>1 DEF Die, SessionsHeld, Active, SessionOf, tableVars, threadVars, ownerVars
<1>2. CASE TlsInitFails(t) \/ NoContext(t) \/ \E i \in Slots : CancelContext(t, i)
  BY <1>0, <1>2
  DEF TlsInitFails, NoContext, CancelContext, tableVars, ownerVars, TableKept
<1>3. CASE EstablishContext(t)
  <2>1. TableKept
    BY <1>3, SlotTypes DEF EstablishContext, TableKept, Contexts
  <2>2. /\ OthersKeep(t) /\ pc'[t] = "send" /\ call'[t].op = "EstablishContext"
    BY <1>3, BeginEffect DEF EstablishContext, NewCall
  <2> QED
    BY <1>3, <2>1, <2>2, HeldKept DEF EstablishContext, Needs, ownerVars
<1>4. ASSUME NEW op \in AllOps, BlockOnMutex(t, op) PROVE SessionsHeld'
  <2>1. OthersKeep(t) /\ pc'[t] = "blocked"
    BY <1>4, BeginEffect DEF BlockOnMutex
  <2> QED
    BY <1>4, <2>1, HeldKept
    DEF BlockOnMutex, Needs, Active, tableVars, ownerVars, TableKept
<1>5. ASSUME NEW op \in AllOps, NEW i \in Slots, ContextCall(t, op, i)
      PROVE  SessionsHeld'
  <2>1. /\ contextOwner[i] # None
        /\ TableKept
        /\ \A j \in Slots : contextOwner'[j] \in {contextOwner[j], None}
    BY <1>5, SlotTypes, HeldOwner DEF ContextCall, MayUseContext, tableVars, TableKept
  <2>2. CASE \E rv : Refuse(t, op, rv)
    BY <1>0, <2>1, <2>2
  <2>3. CASE Begin(t, IF op = "Connect" THEN "card" ELSE "send",
                   NewCall(nextCall, op, i, NoSlot, contextArray[i].pcsc))
    <3>1. OthersKeep(t) /\ call'[t].ctx = i
      BY <2>3, BeginEffect DEF NewCall
    <3>2. contextArray[i].session # NoSession
      BY <2>1 DEF SessionsHeld
    <3> QED
      BY <2>1, <3>1, <3>2, HeldKept
  <2> QED
    BY <1>5, <2>2, <2>3 DEF ContextCall
<1>6. ASSUME NEW op \in AllOps, NEW k \in Slots, CardCall(t, op, k)
      PROVE  SessionsHeld'
  <2> DEFINE i == cardArray[k].ctx
  <2>1. /\ i \in Slots /\ contextOwner[i] # None
        /\ TableKept /\ contextOwner' = contextOwner
    BY <1>6, HeldOwner DEF CardCall, MayUseCard, tableVars, TableKept
  <2>2. CASE \E rv : Refuse(t, op, rv)
    BY <1>0, <2>1, <2>2
  <2>3. CASE Begin(t, "send", NewCall(nextCall, op, cardArray[k].ctx, k,
                   IF op = "Cancel" THEN NoCall ELSE cardArray[k].pcsc))
    <3>1. OthersKeep(t) /\ call'[t].ctx = i
      BY <2>3, BeginEffect DEF NewCall
    <3>2. contextArray[i].session # NoSession
      BY <2>1 DEF SessionsHeld
    <3> QED
      BY <2>1, <3>1, <3>2, HeldKept
  <2> QED
    BY <1>6, <2>2, <2>3 DEF CardCall
<1>7. CASE NoEnvironment(t)
  BY <1>1, <1>7 DEF NoEnvironment
<1> QED
  BY <1>2, <1>3, <1>4, <1>5, <1>6, <1>7 DEF Call

LEMMA ContinueKeepsHeld ==
  ASSUME TypeOK, SlotInvariant, SessionInvariant, SessionsHeld, NEW t \in Threads,
         Continue(t)
  PROVE  SessionsHeld'
<1>c. Active(t) => call[t].ctx \in Slots
  BY TableTypes
<1>0. ASSUME NEW rv, NEW m, NEW a, Exchanged(t, rv, m, a), pc[t] \in {"send", "recv"},
             rv = "ok" => pc[t] = "recv",
             UNCHANGED <<contextArray, contextOwner>>
      PROVE  SessionsHeld'
  <2>1. /\ OthersKeep(t) /\ pc'[t] = AfterExchange(call[t].op) /\ call'[t].rv = rv
        /\ call'[t].ctx = call[t].ctx /\ call'[t].op = call[t].op
    BY <1>0, ExchangedEffect, ExchangedResult DEF KeepsCall
  <2>2. Active(t) /\ call[t].ctx \in Slots
    BY <1>c, <1>0 DEF Active
  <2>3. Needs(t)' => SessionOf(t) # NoSession
    BY <1>0, <2>1, <2>2 DEF Needs, SessionsHeld, AfterExchange
  <2> QED
    BY <1>0, <2>1, <2>2, <2>3, HeldKept DEF TableKept, SessionOf
<1>1. CASE Die
  BY <1>1 DEF Die, SessionsHeld, Active, SessionOf, tableVars, threadVars, ownerVars
<1>2. CASE CreateCard(t)
  <2>1. /\ OthersKeep(t) /\ call'[t].ctx = call[t].ctx /\ call'[t].op = call[t].op
        /\ pc[t] = "card" /\ Active(t)
    BY <1>2, CreateCardEffect DEF CreateCard, KeepsCall, Active
  <2>2. call[t].op = "Connect"
    BY <2>1 DEF SlotInvariant, SlotsClaimed
  <2>3. SessionOf(t) # NoSession
    BY <2>1, <2>2 DEF SessionsHeld
  <2> QED
    BY <1>c, <1>2, <2>1, <2>3, HeldKept DEF CreateCard, TableKept, SessionOf, ownerVars
<1>3. CASE NotConnected(t) \/ ReceiveReply(t) \/ ReceiveEnd(t) \/ ReceiveError(t)
             \/ ReceiveInterrupted(t)
  BY <1>0, <1>3
  DEF NotConnected, ReceiveReply, ReceiveEnd, ReceiveError, ReceiveInterrupted,
      ExchangeFails, tableVars, ownerVars
<1>4. CASE SendFails(t)
  BY <1>0, <1>1, <1>4 DEF SendFails, ExchangeFails, tableVars, ownerVars
<1>5. CASE OpenConnection(t)
  <2> DEFINE i == call[t].ctx
  <2>1. /\ i \in Slots /\ call[t].id \in Sessions
        /\ contextArray'[i].session = call[t].id
        /\ \A j \in Slots \ {i} : contextArray'[j].session = contextArray[j].session
        /\ UNCHANGED <<pc, call, contextOwner>>
    BY <1>5, SlotTypes, TableTypes
    DEF OpenConnection, Active, Contexts, threadVars, ownerVars
  <2>2. \A j \in Slots : contextArray[j].session # NoSession =>
                           contextArray'[j].session # NoSession
    BY <2>1, TableTypes
  <2>3. \A u \in Threads : Active(u) /\ SessionOf(u) # NoSession =>
                             SessionOf(u)' # NoSession
    BY <2>1, <2>2, TableTypes DEF SessionOf
  <2> QED
    BY <2>1, <2>2, <2>3 DEF SessionsHeld, Active
<1>6. CASE Send(t)
  <2>1. /\ OthersKeep(t) /\ call' = call /\ Active(t)
        /\ SessionOf(t) # NoSession
    BY <1>6, MoveEffect DEF Send, KeepsCall, Active
  <2> QED
    BY <1>c, <1>6, <2>1, HeldKept DEF Send, TableKept, SessionOf, tableVars, ownerVars
<1>7. CASE EnterRecv(t)
  <2>1. CASE SessionOf(t) = NoSession
    BY <1>1, <1>7, <2>1 DEF EnterRecv
  <2>2. CASE SessionOf(t) # NoSession
    <3>1. /\ OthersKeep(t) /\ call'[t].ctx = call[t].ctx /\ Active(t)
          /\ UNCHANGED <<contextArray, contextOwner>>
      BY <1>7, <2>2, EnterRecvEffect
      DEF EnterRecv, KeepsCall, Active, tableVars, ownerVars
    <3> QED
      BY <1>c, <2>2, <3>1, HeldKept DEF TableKept, SessionOf
  <2> QED
    BY <2>1, <2>2
<1>8. CASE FinishEstablish(t)
  <2> DEFINE i == call[t].ctx
  <2>1. /\ OthersKeep(t) /\ pc'[t] = "done" /\ pc[t] = "finish" /\ i \in Slots
    BY <1>c, <1>8, MoveEffect DEF FinishEstablish, Finishing, KeepsCall, Active
  <2>2. TableKept
    BY <1>8, SlotTypes DEF FinishEstablish, TableKept, Contexts
  <2>3. call[t].rv = "ok" => contextArray[i].session # NoSession
    BY <2>1 DEF SessionsHeld, Active, SessionOf
  <2>4. \A j \in Slots : contextOwner'[j] # None =>
          contextOwner[j] # None \/ contextArray[j].session # NoSession
    BY <1>8, <2>1, <2>3, SlotTypes DEF FinishEstablish
  <2> QED
    BY <2>1, <2>2, <2>4, HeldKept DEF Needs, Active
<1>9. CASE CloseSession(t) /\ SessionOf(t) # NoSession
  <2> DEFINE i == call[t].ctx
  <2>1. /\ OthersKeep(t) /\ pc[t] = "finish" /\ pc'[t] = "unlock" /\ i \in Slots
        /\ call' = call /\ contextOwner' = contextOwner
        /\ \A j \in Slots \ {i} : contextArray'[j].session = contextArray[j].session
    BY <1>c, <1>9, MoveEffect, SlotTypes
    DEF CloseSession, Finishing, KeepsCall, Active, Contexts, ownerVars
  <2>2. contextOwner[i] = None /\ Alone(t)
    BY <1>9, <2>1
    DEF CloseSession, Finishing, SlotInvariant, SlotsClaimed, Active, Alone
  <2>3. ASSUME NEW u \in Threads, Needs(u)' PROVE SessionOf(u)' # NoSession
    <3>1. u # t /\ pc'[u] = pc[u] /\ Needs(u) /\ Active(u)
      BY <2>1, <2>3 DEF Needs, Active, OthersKeep
    <3>2. call[u].ctx \in Slots \ {i}
      BY <2>1, <2>2, <3>1, TableTypes DEF SlotInvariant, SlotsExclusive, Active
    <3>3. SessionOf(u) # NoSession
      BY <3>1 DEF SessionsHeld, Needs
    <3> QED
      BY <2>1, <3>2, <3>3 DEF SessionOf
  <2> QED
    BY <2>1, <2>2, <2>3 DEF SessionsHeld, Needs
<1>10. CASE FinishRelease(t)
  <2>1. OthersKeep(t) /\ pc'[t] = "done"
    BY <1>10, MoveEffect DEF FinishRelease, KeepsCall
  <2>2. TableKept
    BY <1>10, SlotTypes DEF FinishRelease, TableKept, Contexts
  <2> QED
    BY <1>10, <2>1, <2>2, HeldKept DEF FinishRelease, Needs, Active, ownerVars
<1>11. CASE FinishConnect(t)
  <2>1. OthersKeep(t) /\ pc'[t] = "done"
    BY <1>11, MoveEffect DEF FinishConnect, KeepsCall
  <2> QED
    BY <1>11, <2>1, HeldKept DEF FinishConnect, Needs, Active, TableKept
<1>12. CASE Return(t)
  <2>1. OthersKeep(t) /\ pc'[t] = "idle"
    BY <1>12 DEF Return, OthersKeep, TypeOK, ClientTypeOK, ClientDomains
  <2> QED
    BY <1>12, <2>1, HeldKept DEF Return, Needs, Active, TableKept, tableVars, ownerVars
<1>13. CASE CloseSession(t) /\ SessionOf(t) = NoSession
  BY <1>1, <1>13 DEF CloseSession
<1> QED
  BY <1>2, <1>3, <1>4, <1>5, <1>6, <1>7, <1>8, <1>9, <1>10, <1>11, <1>12, <1>13
  DEF Continue

----------------------------------------------------------------------------
\* RepliesNumbered.
LEMMA ElementsOfTail ==
  ASSUME NEW S, NEW q \in Seq(S), q # << >>
  PROVE  /\ Tail(q) \in Seq(S)
         /\ \A n \in 1 .. Len(Tail(q)) : n + 1 \in 1 .. Len(q) /\ Tail(q)[n] = q[n + 1]
OBVIOUS

LEMMA ElementsOfAppend ==
  ASSUME NEW S, NEW q \in Seq(S), NEW x \in S
  PROVE  \A n \in 1 .. Len(Append(q, x)) :
           \/ n \in 1 .. Len(q) /\ Append(q, x)[n] = q[n]
           \/ Append(q, x)[n] = x
OBVIOUS

LEMMA ClientKeepsNumbers ==
  ASSUME TypeOK, RepliesNumbered, NEW t \in Threads, Call(t) \/ Continue(t),
         UNCHANGED serverVars
  PROVE  RepliesNumbered'
<1>1. ASSUME \A s \in Sessions : toClient'[s] = toClient[s] \/ toClient'[s] = << >>
      PROVE  RepliesNumbered'
  BY <1>1 DEF RepliesNumbered, serverVars
<1>2. CASE Call(t)
  BY <1>1, <1>2
  DEF Call, NoEnvironment, TlsInitFails, NoContext, EstablishContext, BlockOnMutex,
      ContextCall, CardCall, CancelContext, Die, connVars
<1>3. CASE ReceiveReply(t)
  <2> DEFINE q == toClient[call[t].session]
  <2>1. /\ q \in Seq(Messages) /\ q # << >>
        /\ toClient'[call[t].session] = Tail(q)
        /\ \A s \in Sessions : s # call[t].session => toClient'[s] = toClient[s]
    BY <1>3, TableTypes DEF ReceiveReply, TypeOK, ConnTypeOK
  <2> HIDE DEF q
  <2>2. \A n \in 1 .. Len(Tail(q)) : n + 1 \in 1 .. Len(q) /\ Tail(q)[n] = q[n + 1]
    BY <2>1, ElementsOfTail
  <2>3. \A s \in Sessions : \A n \in 1 .. Len(toClient'[s]) : toClient'[s][n].call # NoCall
    BY <1>3, <2>1, <2>2, TableTypes DEF q, ReceiveReply, RepliesNumbered
  <2> QED
    BY <2>3 DEF RepliesNumbered, serverVars
<1>4. CASE ReceiveError(t)
  <2>1. \A s \in Sessions : toClient'[s] = toClient[s] \/ toClient'[s] = << >>
    BY <1>4 DEF ReceiveError, Break, TypeOK, ConnTypeOK
  <2> QED
    BY <1>1, <2>1
<1> QED
  BY <1>1, <1>2, <1>3, <1>4
  DEF Continue, CreateCard, NotConnected, OpenConnection, Send, SendFails, EnterRecv,
      ReceiveEnd, ReceiveInterrupted, FinishEstablish, CloseSession, FinishRelease,
      FinishConnect, Return, Die, connVars

LEMMA ServerKeepsNumbers ==
  ASSUME TypeOK, OnceInvariant, RepliesNumbered, NEW s \in Sessions, ServerStep(s)
  PROVE  RepliesNumbered'
<1>1. ASSUME NEW r \in Sessions, r # s
      PROVE  /\ child'[r] = "send" => request'[r].call # NoCall
             /\ \A n \in 1 .. Len(toClient'[r]) : toClient'[r][n].call # NoCall
  <2>1. toClient'[r] = toClient[r] /\ child'[r] = child[r] /\ request'[r] = request[r]
    <3> USE DEF TypeOK, ConnTypeOK, ServerTypeOK
    <3>1. CASE Exit(s)
      BY <1>1, <3>1 DEF Exit, Break
    <3>2. CASE ReceiveRequest(s)
      BY <1>1, <3>2 DEF ReceiveRequest
    <3>3. CASE Execute(s)
      BY <1>1, <3>3 DEF Execute, connVars
    <3>4. CASE SendReply(s)
      BY <1>1, <3>4 DEF SendReply
    <3> QED
      BY <3>1, <3>2, <3>3, <3>4
      DEF ServerStep, ChildStep, EndOfRequests, ReplyFails, ChildDies
  <2> QED
    BY <2>1 DEF RepliesNumbered
<1>2. ASSUME Exit(s) PROVE RepliesNumbered'
  <2>1. child'[s] = "exited" /\ (toClient'[s] = toClient[s] \/ toClient'[s] = << >>)
    BY <1>2 DEF Exit, Break, TypeOK, ConnTypeOK, ServerTypeOK
  <2> QED
    BY <1>1, <2>1 DEF RepliesNumbered
<1>3. CASE ReceiveRequest(s)
  <2>1. child'[s] = "execute" /\ toClient'[s] = toClient[s]
    BY <1>3 DEF ReceiveRequest, TypeOK, ServerTypeOK
  <2> QED
    BY <1>1, <2>1 DEF RepliesNumbered
<1>4. CASE Execute(s)
  <2>1. request[s] \in Messages /\ request[s].call \in Handles
    BY DEF TypeOK, ServerTypeOK, Messages
  <2>2. request[s].call # NoCall
    BY <1>4, <2>1
    DEF Execute, OnceInvariant, SentNumbered, InHand, NoCall
  <2>3. request'[s].call = request[s].call /\ toClient' = toClient
    <3>1. \A ok \in BOOLEAN : Reply(request[s], ok).call = request[s].call
      BY <2>1 DEF Reply, Messages
    <3>2. \/ request' = request
          \/ \E ok \in BOOLEAN : request' = [request EXCEPT ![s] = Reply(request[s], ok)]
      BY <1>4 DEF Execute
    <3>3. toClient' = toClient /\ request \in [Sessions -> Messages]
      BY <1>4 DEF Execute, connVars, TypeOK, ServerTypeOK
    <3> QED
      BY <3>1, <3>2, <3>3
  <2> QED
    BY <1>1, <2>2, <2>3 DEF RepliesNumbered
<1>5. CASE SendReply(s)
  <2>1. /\ child'[s] = "recv"
        /\ request[s] \in Messages /\ request[s].call # NoCall
        /\ toClient[s] \in Seq(Messages)
        /\ \/ toClient'[s] = toClient[s]
           \/ toClient'[s] = Append(toClient[s], request[s])
    BY <1>5 DEF SendReply, RepliesNumbered, TypeOK, ServerTypeOK, ConnTypeOK
  <2>2. \A n \in 1 .. Len(toClient'[s]) : toClient'[s][n].call # NoCall
    BY <2>1, ElementsOfAppend DEF RepliesNumbered
  <2> QED
    BY <1>1, <2>1, <2>2 DEF RepliesNumbered
<1> QED
  BY <1>2, <1>3, <1>4, <1>5
  DEF ServerStep, ChildStep, EndOfRequests, ReplyFails, ChildDies

----------------------------------------------------------------------------
\* OpenedByClient, and that a closed session stays closed.
EndsStay == \A s \in Sessions : serverEnd[s] = "closed" => serverEnd'[s] = "closed"

LEMMA ClientKeepsEnds ==
  ASSUME TypeOK, SessionInvariant, OpenedByClient, NEW t \in Threads,
         Call(t) \/ Continue(t)
  PROVE  OpenedByClient' /\ EndsStay
<1>1. ASSUME serverEnd' = serverEnd,
             \A s \in Sessions : clientEnd'[s] = "none" => clientEnd[s] = "none"
      PROVE  OpenedByClient' /\ EndsStay
  BY <1>1 DEF OpenedByClient, EndsStay
<1>2. CASE Die
  BY <1>1, <1>2 DEF Die
<1>3. CASE OpenConnection(t)
  <2>1. call[t].id \in Sessions /\ clientEnd[call[t].id] = "none"
    BY <1>3, TableTypes
    DEF OpenConnection, Active, SessionInvariant, SessionsFresh, SessionOf
  <2>2. serverEnd[call[t].id] = "none"
    BY <2>1 DEF OpenedByClient
  <2>3. /\ clientEnd'[call[t].id] = "open" /\ serverEnd'[call[t].id] = "open"
        /\ \A s \in Sessions \ {call[t].id} : /\ clientEnd'[s] = clientEnd[s]
                                               /\ serverEnd'[s] = serverEnd[s]
    BY <1>3, <2>1, TableTypes DEF OpenConnection
  <2> QED
    BY <2>2, <2>3 DEF OpenedByClient, EndsStay
<1>4. CASE CloseSession(t) /\ SessionOf(t) # NoSession
  <2>1. \A s \in Sessions : clientEnd'[s] = "none" => clientEnd[s] = "none"
    BY <1>4, TableTypes DEF CloseSession
  <2> QED
    BY <1>1, <1>4, <2>1 DEF CloseSession
<1>5. CASE CloseSession(t) /\ SessionOf(t) = NoSession
  BY <1>2, <1>5 DEF CloseSession
<1>6. CASE Call(t)
  BY <1>1, <1>2, <1>6
  DEF Call, NoEnvironment, TlsInitFails, NoContext, EstablishContext, BlockOnMutex,
      ContextCall, CardCall, CancelContext, connVars
<1> QED
  BY <1>1, <1>2, <1>3, <1>4, <1>5, <1>6
  DEF Continue, CreateCard, NotConnected, Send, SendFails, EnterRecv, ReceiveReply,
      ReceiveEnd, ReceiveError, ReceiveInterrupted, FinishEstablish, FinishRelease,
      FinishConnect, Return, connVars

LEMMA ServerKeepsEnds ==
  ASSUME TypeOK, OpenedByClient, NEW s \in Sessions, ServerStep(s)
  PROVE  OpenedByClient' /\ EndsStay
<1>1. clientEnd' = clientEnd
  BY DEF ServerStep, ChildStep, ReceiveRequest, Execute, SendReply, EndOfRequests,
         ReplyFails, ChildDies, Exit, connVars
<1>2. CASE serverEnd' = serverEnd
  BY <1>1, <1>2 DEF OpenedByClient, EndsStay
<1>3. CASE Running(s) /\ serverEnd' = [serverEnd EXCEPT ![s] = "closed"]
  <2>1. clientEnd[s] # "none"
    BY <1>3 DEF Running, OpenedByClient
  <2> QED
    BY <1>1, <1>3, <2>1, TableTypes DEF OpenedByClient, EndsStay
<1> QED
  BY <1>2, <1>3
  DEF ServerStep, ChildStep, ReceiveRequest, Execute, SendReply, EndOfRequests,
      ReplyFails, ChildDies, Exit, connVars

----------------------------------------------------------------------------
\* UnopenedEmpty.
LEMMA ClientKeepsUnopened ==
  ASSUME TypeOK, UnopenedEmpty, NEW t \in Threads, Call(t) \/ Continue(t),
         UNCHANGED serverVars
  PROVE  UnopenedEmpty'
<1>0. ASSUME \A s \in Sessions : clientEnd'[s] = "none" => clientEnd[s] = "none",
             \A s \in Sessions : clientEnd[s] = "none" =>
               /\ toServer'[s] \in {toServer[s], << >>}
               /\ toClient'[s] \in {toClient[s], << >>}
      PROVE  UnopenedEmpty'
  BY <1>0 DEF UnopenedEmpty, serverVars
<1>1. CASE Die
  BY <1>0, <1>1 DEF Die
<1>2. CASE OpenConnection(t)
  <2>1. \A s \in Sessions : clientEnd'[s] = "none" => clientEnd[s] = "none"
    BY <1>2, TableTypes DEF OpenConnection
  <2> QED
    BY <1>0, <1>2, <2>1 DEF OpenConnection
<1>3. CASE CloseSession(t) /\ SessionOf(t) # NoSession
  <2>1. \A s \in Sessions : clientEnd'[s] = "none" => clientEnd[s] = "none"
    BY <1>3, TableTypes DEF CloseSession
  <2> QED
    BY <1>0, <1>3, <2>1 DEF CloseSession
<1>4. CASE Send(t)
  <2>1. \A s \in Sessions : clientEnd[s] = "none" => toServer'[s] = toServer[s]
    BY <1>4 DEF Send, Usable, TypeOK, ConnTypeOK
  <2> QED
    BY <1>0, <1>4, <2>1 DEF Send
<1>5. CASE ReceiveReply(t)
  <2>1. \A s \in Sessions : clientEnd[s] = "none" => toClient'[s] = toClient[s]
    BY <1>5 DEF ReceiveReply, UnopenedEmpty, TypeOK, ConnTypeOK
  <2> QED
    BY <1>0, <1>5, <2>1 DEF ReceiveReply
<1>6. CASE ReceiveError(t)
  <2>1. \A s \in Sessions : /\ toServer'[s] \in {toServer[s], << >>}
                            /\ toClient'[s] \in {toClient[s], << >>}
    BY <1>6 DEF ReceiveError, Break, TypeOK, ConnTypeOK
  <2> QED
    BY <1>0, <1>6, <2>1 DEF ReceiveError
<1>7. CASE Call(t)
  BY <1>0, <1>1, <1>7
  DEF Call, NoEnvironment, TlsInitFails, NoContext, EstablishContext, BlockOnMutex,
      ContextCall, CardCall, CancelContext, connVars
<1>8. CASE CloseSession(t) /\ SessionOf(t) = NoSession
  BY <1>1, <1>8 DEF CloseSession
<1> QED
  BY <1>0, <1>1, <1>2, <1>3, <1>4, <1>5, <1>6, <1>7, <1>8
  DEF Continue, CreateCard, NotConnected, SendFails, EnterRecv, ReceiveEnd,
      ReceiveInterrupted, FinishEstablish, FinishRelease, FinishConnect, Return, connVars

\* A child only does something on a connection it has accepted.
LEMMA ServerKeepsUnopened ==
  ASSUME TypeOK, OpenedByClient, UnopenedEmpty, NEW s \in Sessions, ServerStep(s)
  PROVE  UnopenedEmpty'
<1>1. clientEnd[s] # "none"
  BY DEF OpenedByClient, Running, ServerStep, ChildStep, ReceiveRequest, Execute, SendReply,
         EndOfRequests, ReplyFails, ChildDies
<1>2. clientEnd' = clientEnd
  BY DEF ServerStep, ChildStep, ReceiveRequest, Execute, SendReply, EndOfRequests,
         ReplyFails, ChildDies, Exit, connVars
<1>3. ASSUME NEW r \in Sessions, r # s
      PROVE  /\ child'[r] = child[r] /\ service'[r] = service[r]
             /\ toServer'[r] = toServer[r] /\ toClient'[r] = toClient[r]
  <2> USE DEF TypeOK, ConnTypeOK, ServerTypeOK
  <2>1. CASE Exit(s)
    BY <1>3, <2>1 DEF Exit, Break
  <2>2. CASE ReceiveRequest(s)
    BY <1>3, <2>2 DEF ReceiveRequest
  <2>3. CASE Execute(s)
    BY <1>3, <2>3 DEF Execute, connVars
  <2>4. CASE SendReply(s)
    BY <1>3, <2>4 DEF SendReply
  <2> QED
    BY <2>1, <2>2, <2>3, <2>4
    DEF ServerStep, ChildStep, EndOfRequests, ReplyFails, ChildDies
<1> QED
  BY <1>1, <1>2, <1>3 DEF UnopenedEmpty

----------------------------------------------------------------------------
\* UnansweredClosed.
Unanswered(u) ==
  /\ pc[u] \in {"finish", "unlock", "done"}
  /\ call[u].rv \in {"ok", "error"}
  /\ call[u].answer = NoCall

EndFound(u) == call[u].session \in Sessions /\ serverEnd[call[u].session] = "closed"

LEMMA UnansweredKept ==
  ASSUME UnansweredClosed, EndsStay, NEW t \in Threads, OthersKeep(t),
         Unanswered(t)' =>
           \/ Unanswered(t) /\ call'[t].session = call[t].session
           \/ EndFound(t)'
  PROVE  UnansweredClosed'
<1>1. ASSUME NEW u \in Threads, Unanswered(u)' PROVE EndFound(u)'
  <2>1. CASE u = t /\ EndFound(t)'
    BY <2>1
  <2>2. CASE Unanswered(u) /\ call'[u].session = call[u].session
    BY <2>2 DEF UnansweredClosed, Unanswered, EndFound, EndsStay
  <2>3. u # t => Unanswered(u) /\ call'[u].session = call[u].session
    BY <1>1 DEF OthersKeep, Unanswered
  <2> QED
    BY <1>1, <2>1, <2>2, <2>3
<1> QED
  BY <1>1 DEF UnansweredClosed, Unanswered, EndFound

LEMMA ClientKeepsUnanswered ==
  ASSUME TypeOK, RepliesNumbered, UnansweredClosed, EndsStay, NEW t \in Threads,
         Call(t) \/ Continue(t)
  PROVE  UnansweredClosed'
<1>1. CASE UNCHANGED threadVars
  BY <1>1 DEF threadVars, UnansweredClosed, EndsStay
<1>2. ASSUME NEW op, NEW rv \in {"internal", "invalid"}, Refuse(t, op, rv)
      PROVE  UnansweredClosed'
  <2>1. OthersKeep(t) /\ call'[t].rv = rv
    BY <1>2, BeginEffect DEF Refuse, NewCall
  <2> QED
    BY <2>1, UnansweredKept DEF Unanswered
<1>3. ASSUME NEW to \in {"blocked", "card", "send"}, NEW c, Begin(t, to, c)
      PROVE  UnansweredClosed'
  BY <1>3, BeginEffect, UnansweredKept DEF Unanswered
<1>4. CASE Call(t)
  <2>1. \A op : BadArguments(op) \subseteq {"internal", "invalid"}
    BY LibraryChecks
  <2> QED
    BY <1>1, <1>2, <1>3, <1>4, <2>1
    DEF Call, NoEnvironment, TlsInitFails, NoContext, EstablishContext, BlockOnMutex,
        ContextCall, CardCall, CancelContext, Die
<1>5. CASE ExchangeFails(t)
  <2>1. OthersKeep(t) /\ call'[t].rv = "internal"
    BY <1>5, ExchangedEffect, ExchangedResult DEF ExchangeFails, KeepsCall
  <2> QED
    BY <2>1, UnansweredKept DEF Unanswered
<1>6. CASE CreateCard(t)
  <2>1. /\ OthersKeep(t)
        /\ pc'[t] = "done" => call' = [call EXCEPT ![t].rv = "internal"]
    BY <1>6, CreateCardEffect
    DEF CreateCard, KeepsCall, TypeOK, ClientTypeOK, ClientDomains
  <2>2. pc'[t] \in {"send", "done"}
    BY <1>6, CreateCardEffect
  <2>3. pc'[t] = "done" => call'[t].rv = "internal"
    BY <2>1 DEF TypeOK, ClientTypeOK, ClientDomains, Calls
  <2> QED
    BY <2>1, <2>2, <2>3, UnansweredKept DEF Unanswered
<1>7. CASE ReceiveReply(t)
  <2>1. PICK rv, m : /\ m = Head(toClient[call[t].session])
                     /\ Exchanged(t, rv, m, m.call)
    BY <1>7 DEF ReceiveReply
  <2>2. toClient[call[t].session] \in Seq(Messages) /\ toClient[call[t].session] # << >>
        /\ call[t].session \in Sessions
    BY <1>7, TableTypes DEF ReceiveReply, TypeOK, ConnTypeOK
  <2>3. /\ 1 \in 1 .. Len(toClient[call[t].session])
        /\ m = toClient[call[t].session][1]
    BY <2>1, <2>2
  <2>4. m.call # NoCall
    BY <2>2, <2>3 DEF RepliesNumbered
  <2>5. OthersKeep(t) /\ call'[t].answer # NoCall
    BY <2>1, <2>4, ExchangedEffect DEF KeepsCall
  <2> QED
    BY <2>5, UnansweredKept DEF Unanswered
<1>8. CASE ReceiveEnd(t)
  <2>1. CASE ExchangeFails(t)
    BY <1>5, <2>1
  <2>2. CASE Exchanged(t, call[t].msg.rv, call[t].msg, NoCall)
    <3>1. OthersKeep(t) /\ call'[t].session = call[t].session
      BY <2>2, ExchangedEffect, ExchangedResult DEF KeepsCall
    <3>2. /\ call[t].session \in Sessions
          /\ serverEnd[call[t].session] = "closed"
      BY <1>8, TableTypes DEF ReceiveEnd
    <3>3. EndFound(t)'
      BY <3>1, <3>2 DEF EndFound, EndsStay
    <3> QED
      BY <3>1, <3>3, UnansweredKept
  <2> QED
    BY <1>8, <2>1, <2>2 DEF ReceiveEnd
<1>9. CASE NotConnected(t) \/ SendFails(t) \/ ReceiveError(t) \/ ReceiveInterrupted(t)
  BY <1>1, <1>5, <1>9
  DEF NotConnected, SendFails, ReceiveError, ReceiveInterrupted, Die
<1>10. CASE EnterRecv(t)
  <2>1. CASE SessionOf(t) = NoSession
    BY <1>1, <1>10, <2>1 DEF EnterRecv, Die
  <2>2. CASE SessionOf(t) # NoSession
    BY <1>10, <2>2, EnterRecvEffect, UnansweredKept DEF KeepsCall, Unanswered
  <2> QED
    BY <2>1, <2>2
<1>11. ASSUME NEW to, pc' = [pc EXCEPT ![t] = to], call' = call,
              pc[t] \in {"finish", "unlock"} \/ to = "enter"
       PROVE  UnansweredClosed'
  BY <1>11, MoveEffect, UnansweredKept DEF KeepsCall, Unanswered
<1>12. CASE FinishEstablish(t) \/ FinishRelease(t) \/ FinishConnect(t) \/ Send(t)
  BY <1>11, <1>12 DEF FinishEstablish, FinishRelease, FinishConnect, Send, Finishing
<1>13. CASE CloseSession(t) \/ OpenConnection(t)
  BY <1>1, <1>11, <1>13 DEF CloseSession, OpenConnection, Finishing, Die
<1>14. CASE Return(t)
  <2>1. OthersKeep(t) /\ pc'[t] = "idle"
    BY <1>14 DEF Return, OthersKeep, TypeOK, ClientTypeOK, ClientDomains
  <2> QED
    BY <2>1, UnansweredKept DEF Unanswered
<1> QED
  BY <1>4, <1>6, <1>7, <1>8, <1>9, <1>10, <1>12, <1>13, <1>14 DEF Continue

----------------------------------------------------------------------------
THEOREM InitConnectionInvariant == Init => ConnectionInvariant
<1> SUFFICES ASSUME Init PROVE ConnectionInvariant
  OBVIOUS
<1> USE DEF Init, ClientInit, ServerInit, ConnInit
<1>1. SlotInvariant /\ SessionInvariant
  BY InitReplyInvariant DEF ReplyInvariant
<1>2. SessionsOpen /\ SessionsHeld
  BY DEF SessionsOpen, SessionsHeld, Active
<1>3. RepliesNumbered
  BY DEF RepliesNumbered
<1>4. OpenedByClient /\ UnopenedEmpty /\ UnansweredClosed
  BY DEF OpenedByClient, UnopenedEmpty, UnansweredClosed
<1> QED
  BY <1>1, <1>2, <1>3, <1>4 DEF ConnectionInvariant

\* What the children and the network leave alone.
LEMMA ConnectionKept ==
  ASSUME ConnectionInvariant, UNCHANGED clientVars, clientEnd' = clientEnd, EndsStay
  PROVE  /\ SlotInvariant' /\ SessionInvariant' /\ SessionsOpen' /\ SessionsHeld'
         /\ UnansweredClosed'
<1> USE DEF ConnectionInvariant, clientVars, tableVars, threadVars, ownerVars
<1>1. SlotInvariant' /\ SessionInvariant'
  BY ClientKept
<1>2. SessionsOpen'
  BY DEF SessionsOpen
<1>3. SessionsHeld'
  BY DEF SessionsHeld, Active, SessionOf
<1>4. UnansweredClosed'
  BY DEF UnansweredClosed, EndsStay
<1> QED
  BY <1>1, <1>2, <1>3, <1>4

LEMMA ConnectionInvariantInductive ==
  ASSUME TypeOK, OnceInvariant, ConnectionInvariant, Discipline # "any", [Next]_vars
  PROVE  ConnectionInvariant'
<1> USE DEF ConnectionInvariant
<1>1. ASSUME NEW t \in Threads, ClientStep(t) PROVE ConnectionInvariant'
  <2>0. (Call(t) \/ Continue(t)) /\ UNCHANGED serverVars
    BY <1>1 DEF ClientStep
  <2>1. SlotInvariant'
    BY <2>0, CallKeepsSlots, ContinueKeepsSlots
  <2>2. SessionInvariant'
    BY <2>0, CallKeepsSessions, ContinueKeepsSessions
  <2>3. SessionsOpen'
    BY <2>0, ClientKeepsOpen
  <2>4. SessionsHeld'
    BY <2>0, CallKeepsHeld, ContinueKeepsHeld
  <2>5. RepliesNumbered'
    BY <2>0, ClientKeepsNumbers
  <2>6. OpenedByClient' /\ EndsStay
    BY <2>0, ClientKeepsEnds
  <2>7. UnansweredClosed'
    BY <2>0, <2>6, ClientKeepsUnanswered
  <2>8. UnopenedEmpty'
    BY <2>0, ClientKeepsUnopened
  <2> QED
    BY <2>1, <2>2, <2>3, <2>4, <2>5, <2>6, <2>7, <2>8
<1>2. ASSUME NEW s \in Sessions, ServerStep(s) PROVE ConnectionInvariant'
  <2>1. UNCHANGED clientVars /\ clientEnd' = clientEnd
    BY <1>2
    DEF ServerStep, ChildStep, ReceiveRequest, Execute, SendReply, EndOfRequests,
        ReplyFails, ChildDies, Exit, connVars
  <2>2. OpenedByClient' /\ EndsStay
    BY <1>2, ServerKeepsEnds
  <2> QED
    BY <1>2, <2>1, <2>2, ConnectionKept, ServerKeepsNumbers, ServerKeepsUnopened
<1>3. ASSUME NEW s \in Sessions, NetworkStep(s) PROVE ConnectionInvariant'
  <2>1. UNCHANGED clientVars /\ UNCHANGED serverVars
        /\ clientEnd' = clientEnd /\ serverEnd' = serverEnd
    BY <1>3 DEF NetworkStep, NetworkReset
  <2>2. \A r \in Sessions : toClient'[r] = toClient[r] \/ toClient'[r] = << >>
    BY <1>3 DEF NetworkStep, NetworkReset, Break, TypeOK, ConnTypeOK
  <2>3. RepliesNumbered'
    BY <2>1, <2>2 DEF RepliesNumbered, serverVars
  <2>4. OpenedByClient' /\ EndsStay
    BY <2>1 DEF OpenedByClient, EndsStay
  <2>5. \A r \in Sessions : toServer'[r] = toServer[r] \/ toServer'[r] = << >>
    BY <1>3 DEF NetworkStep, NetworkReset, Break, TypeOK, ConnTypeOK
  <2>6. UnopenedEmpty'
    BY <2>1, <2>2, <2>5 DEF UnopenedEmpty, serverVars
  <2> QED
    BY <2>1, <2>3, <2>4, <2>6, ConnectionKept
<1>4. CASE UNCHANGED vars
  <2>1. UNCHANGED clientVars /\ UNCHANGED serverVars /\ UNCHANGED connVars
    BY <1>4 DEF vars
  <2>2. RepliesNumbered'
    BY <2>1 DEF RepliesNumbered, serverVars, connVars
  <2>3. OpenedByClient' /\ EndsStay
    BY <2>1 DEF OpenedByClient, EndsStay, connVars
  <2>4. UnopenedEmpty'
    BY <2>1 DEF UnopenedEmpty, serverVars, connVars
  <2> QED
    BY <2>1, <2>2, <2>3, <2>4, ConnectionKept DEF connVars
<1> QED
  BY <1>1, <1>2, <1>3, <1>4 DEF Next

(***************************************************************************)
(* The slots and sessions of a disciplined application stay apart and the  *)
(* sessions it uses are there and open, whatever fails.                    *)
(***************************************************************************)
THEOREM ConnectionInvariantCorrect ==
  ASSUME Discipline # "any"
  PROVE  Spec => []ConnectionInvariant
<1>1. TypeOK /\ OnceInvariant /\ ConnectionInvariant /\ [Next]_vars =>
        ConnectionInvariant'
  BY ConnectionInvariantInductive
<1> QED
  BY InitConnectionInvariant, TypeCorrect, OnceInvariantCorrect, <1>1, PTL DEF Spec

(***************************************************************************)
(* No two slots of the context table have a session in common, and none    *)
(* refers to one the library has closed, whatever fails, as long as the    *)
(* threads use the handles they hold.                                      *)
(***************************************************************************)
THEOREM SessionsCorrect ==
  ASSUME Discipline # "any"
  PROVE  Spec => []SessionsNotShared
<1>1. ConnectionInvariant => SessionsNotShared
  BY DEF ConnectionInvariant, SessionInvariant, SessionsApart, SessionsOpen,
         SessionsNotShared
<1> QED
  BY ConnectionInvariantCorrect, <1>1, PTL

(***************************************************************************)
(* A disciplined application does not make the library dereference a null  *)
(* session, where PCSC_NULLENC is set and SIGPIPE ignored.                 *)
(***************************************************************************)
THEOREM NoCrashCorrect ==
  ASSUME Discipline # "any", "environment" \notin Faults, "sigpipe" \notin Faults
  PROVE  Spec => []NoCrash
<1>1. Init => NoCrash
  BY DEF Init, ClientInit, NoCrash
<1>2. TypeOK /\ ConnectionInvariant /\ NoCrash /\ [Next]_vars => NoCrash'
  <2> SUFFICES ASSUME TypeOK, ConnectionInvariant, NoCrash, [Next]_vars PROVE NoCrash'
    OBVIOUS
  <2> USE DEF NoCrash
  <2>1. ASSUME NEW t \in Threads, EnterRecv(t) \/ CloseSession(t)
        PROVE  SessionOf(t) # NoSession
    <3>1. Active(t) /\ pc[t] \in {"enter", "finish"}
          /\ (pc[t] = "finish" => call[t].op = "ReleaseContext")
      BY <2>1 DEF EnterRecv, CloseSession, Finishing, Active
    <3> QED
      BY <3>1 DEF ConnectionInvariant, SessionsHeld
  <2>2. ASSUME NEW t \in Threads, ClientStep(t) PROVE alive' = alive
    <3>1. CASE Call(t)
      BY <3>1
      DEF Call, NoEnvironment, TlsInitFails, NoContext, EstablishContext, BlockOnMutex,
          ContextCall, CardCall, CancelContext
    <3>2. CASE EnterRecv(t) \/ CloseSession(t)
      BY <2>1, <3>2 DEF EnterRecv, CloseSession
    <3>3. CASE Continue(t) /\ ~EnterRecv(t) /\ ~CloseSession(t)
      BY <3>3
      DEF Continue, CreateCard, NotConnected, OpenConnection, Send, SendFails,
          ReceiveReply, ReceiveEnd, ReceiveError, ReceiveInterrupted, FinishEstablish,
          FinishRelease, FinishConnect, Return
    <3> QED
      BY <2>2, <3>1, <3>2, <3>3 DEF ClientStep
  <2>3. CASE UNCHANGED clientVars
    BY <2>3 DEF clientVars
  <2> QED
    BY <2>2, <2>3 DEF Next, ServerStep, NetworkStep, vars
<1> QED
  BY <1>1, <1>2, TypeCorrect, ConnectionInvariantCorrect, PTL DEF Spec

(***************************************************************************)
(* A call of a disciplined application that reports a result without a     *)
(* reply found its child gone, whatever fails.                             *)
(***************************************************************************)
THEOREM UnansweredCorrect ==
  ASSUME Discipline # "any"
  PROVE  Spec => []UnansweredOnlyAfterExit
<1>1. ConnectionInvariant => UnansweredOnlyAfterExit
  BY DEF ConnectionInvariant, UnansweredClosed, UnansweredOnlyAfterExit, Answered, Done
<1> QED
  BY ConnectionInvariantCorrect, <1>1, PTL

----------------------------------------------------------------------------
(***************************************************************************)
(* StrayInvariant.  The steps that put nothing on a session: a call begins *)
(* with a number later than any, goes on, gives up or is over.             *)
(***************************************************************************)
NothingCarried == \A s \in Sessions, c \in Handles : Carries(s, c)' => Carries(s, c)

NewNumber(t) == call'[t].id = nextCall /\ nextCall' = nextCall + 1

SameNumber(t) ==
  /\ call'[t].id = call[t].id
  /\ nextCall' = nextCall
  /\ \A s \in Sessions : Active(t)' /\ SessionOf(t)' = s =>
       \/ Active(t) /\ SessionOf(t) = s
       \/ \A c \in Handles : ~Carries(s, c)
  /\ call'[t].rv = "none" =>
       /\ call[t].rv = "none"
       /\ \A s \in Sessions : Awaits(t, s) => Awaits(t, s)'

NoNumber(t) == call'[t] = Idle /\ pc'[t] = "idle" /\ nextCall' = nextCall

LEMMA StraysKept ==
  ASSUME TypeOK, StrayInvariant, NEW t \in Threads, OthersKeep(t), NothingCarried,
         \A u \in Threads \ {t} : Active(u) => SessionOf(u)' = SessionOf(u),
         pc'[t] = "idle" => pc[t] = "idle" \/ NoNumber(t),
         (NewNumber(t) /\ pc'[t] # "idle") \/ SameNumber(t) \/ NoNumber(t)
  PROVE  StrayInvariant'
<1> USE DEF StrayInvariant, OthersKeep
<1>0. nextCall \in Nat /\ Handles \subseteq Nat
      /\ \A u \in Threads : call[u].id \in Nat
  <2>1. Handles \subseteq Nat
    BY DEF Handles, CallIds, NoCall
  <2> QED
    BY <2>1, NextCallType DEF TypeOK, ClientTypeOK, ClientDomains, Calls
<1>1. Idle.id = NoCall
  BY DEF Idle, NewCall
<1>2. \A u \in Threads \ {t} : /\ Active(u)' <=> Active(u)
                               /\ \A s \in Sessions : Awaits(u, s) => Awaits(u, s)'
  BY DEF Active, Awaits
<1>3. IdleUnnumbered'
  BY <1>1 DEF IdleUnnumbered, NoNumber, SameNumber
<1>4. ASSUME NEW s \in Sessions, NEW c \in Handles, Carries(s, c)'
      PROVE  /\ c \in 1 .. nextCall' - 1
             /\ \A u \in Threads :
                  /\ Active(u)' /\ SessionOf(u)' = s => c <= call'[u].id
                  /\ call'[u].id = c /\ call'[u].rv = "none" => Awaits(u, s)'
  <2>1. /\ Carries(s, c) /\ c \in 1 .. nextCall - 1
        /\ \A u \in Threads :
             /\ Active(u) /\ SessionOf(u) = s => c <= call[u].id
             /\ call[u].id = c /\ call[u].rv = "none" => Awaits(u, s)
    BY <1>4 DEF NothingCarried, CarriedEarlier, CarriedAwaited
  <2>2. c \in 1 .. nextCall' - 1
    BY <1>0, <2>1 DEF NewNumber, SameNumber, NoNumber
  <2>3. ASSUME NEW u \in Threads \ {t}
        PROVE  /\ Active(u)' /\ SessionOf(u)' = s => c <= call'[u].id
               /\ call'[u].id = c /\ call'[u].rv = "none" => Awaits(u, s)'
    BY <1>2, <2>1
  <2>4. /\ Active(t)' /\ SessionOf(t)' = s => c <= call'[t].id
        /\ call'[t].id = c /\ call'[t].rv = "none" => Awaits(t, s)'
    <3>1. CASE NewNumber(t)
      BY <1>0, <2>1, <3>1 DEF NewNumber
    <3>2. CASE SameNumber(t)
      BY <2>1, <3>2 DEF SameNumber
    <3>3. CASE NoNumber(t)
      BY <1>1, <2>1, <3>3 DEF NoNumber, Active, NoCall
    <3> QED
      BY <3>1, <3>2, <3>3
  <2> QED
    BY <2>2, <2>3, <2>4
<1> QED
  BY <1>3, <1>4 DEF CarriedEarlier, CarriedAwaited

LEMMA CallKeepsStrays ==
  ASSUME TypeOK, StrayInvariant, NEW t \in Threads, Call(t), UNCHANGED serverVars
  PROVE  StrayInvariant'
<1>1. NothingCarried
  BY DEF Call, NoEnvironment, TlsInitFails, NoContext, EstablishContext, BlockOnMutex,
         ContextCall, CardCall, CancelContext, Die, connVars, serverVars, NothingCarried,
         Carries, Serving
<1>2. ASSUME OthersKeep(t), NewNumber(t), pc'[t] # "idle", TableKept
      PROVE  StrayInvariant'
  <2>1. \A u \in Threads \ {t} : Active(u) => SessionOf(u)' = SessionOf(u)
    BY <1>2, TableKeptEffect DEF OthersKeep
  <2> QED
    BY <1>1, <1>2, <2>1, StraysKept
<1>3. ASSUME NEW op, NEW rv, Refuse(t, op, rv), TableKept PROVE StrayInvariant'
  BY <1>2, <1>3, RefuseEffect DEF NewNumber
<1>4. ASSUME NEW to \in {"blocked", "card", "send"}, NEW op, NEW i, NEW k, NEW arg,
             Begin(t, to, NewCall(nextCall, op, i, k, arg)), TableKept
      PROVE  StrayInvariant'
  <2>1. /\ OthersKeep(t) /\ pc'[t] = to /\ nextCall' = nextCall + 1
        /\ call'[t].id = nextCall
    BY <1>4, BeginEffect DEF NewCall
  <2> QED
    BY <1>2, <1>4, <2>1 DEF NewNumber
<1>5. CASE NoEnvironment(t)
  BY <1>5
  DEF NoEnvironment, Die, tableVars, threadVars, serverVars, StrayInvariant,
      IdleUnnumbered, CarriedEarlier, CarriedAwaited, Carries, Serving, Awaits, Active,
      SessionOf
<1>6. CASE EstablishContext(t)
  <2>1. TableKept
    BY <1>6, SlotTypes DEF EstablishContext, TableKept, Contexts
  <2> QED
    BY <1>4, <1>6, <2>1 DEF EstablishContext
<1>7. contextArray' = contextArray => TableKept
  BY DEF TableKept
<1> QED
  BY <1>3, <1>4, <1>5, <1>6, <1>7
  DEF Call, TlsInitFails, NoContext, BlockOnMutex, ContextCall, CardCall, CancelContext,
      tableVars

\* The request carries the number of the call, which awaits the reply.
LEMMA SendKeepsStrays ==
  ASSUME TypeOK, SlotInvariant, SessionInvariant, StrayInvariant, Discipline = "own",
         NEW t \in Threads, Send(t), UNCHANGED serverVars
  PROVE  StrayInvariant'
<1> DEFINE id == call[t].id
<1>1. /\ pc[t] = "send" /\ SessionOf(t) \in Sessions /\ call[t].msg.call = id
      /\ call[t].msg \in Messages
      /\ id \in 1 .. nextCall - 1 /\ Active(t)
      /\ UNCHANGED <<contextArray, call, nextCall, toClient, child, request>>
  BY TableTypes
  DEF Send, tableVars, serverVars, SessionInvariant, CallsDistinct, Active, SessionOf,
      TypeOK, ClientTypeOK, ClientDomains, Calls
<1>2. OthersKeep(t) /\ pc'[t] = "enter"
  BY MoveEffect DEF Send, KeepsCall
<1>3. ASSUME NEW s \in Sessions, NEW c \in Handles, Carries(s, c)'
      PROVE  Carries(s, c) \/ (s = SessionOf(t) /\ c = id)
  <2>1. CASE toServer'[s] = toServer[s]
    BY <1>1, <1>3, <2>1 DEF Carries, Serving
  <2>2. CASE s = SessionOf(t) /\ toServer'[s] = Append(toServer[s], call[t].msg)
    <3>1. \A n \in 1 .. Len(toServer'[s]) :
            \/ n \in 1 .. Len(toServer[s]) /\ toServer'[s][n] = toServer[s][n]
            \/ toServer'[s][n] = call[t].msg
      BY <1>1, <2>2, ElementsOfAppend DEF TypeOK, ConnTypeOK
    <3> QED
      BY <1>1, <1>3, <2>2, <3>1 DEF Carries, Serving
  <2> QED
    BY <2>1, <2>2 DEF Send, TypeOK, ConnTypeOK
<1>4. \A u \in Threads : /\ Active(u)' <=> Active(u)
                         /\ SessionOf(u)' = SessionOf(u)
                         /\ \A s \in Sessions : Awaits(u, s) => Awaits(u, s)'
  BY <1>1, <1>2 DEF Active, Awaits, SessionOf, OthersKeep
<1>5. IdleUnnumbered'
  BY <1>1, <1>2 DEF StrayInvariant, IdleUnnumbered, OthersKeep
<1>6. Awaits(t, SessionOf(t))'
  BY <1>1, <1>2, <1>4 DEF Awaits, SessionOf
<1>7. \A u \in Threads : Active(u) /\ SessionOf(u) = SessionOf(t) => u = t
  BY <1>1, OneThreadPerSession DEF Alone
<1>8. \A u \in Threads : call[u].id = id => u = t
  BY <1>1
  DEF StrayInvariant, IdleUnnumbered, SessionInvariant, CallsDistinct, NoCall
<1>9. CarriedEarlier'
  <2>1. id \in Nat
    BY <1>1
  <2> QED
    BY <1>1, <1>3, <1>4, <1>7, <2>1 DEF StrayInvariant, CarriedEarlier
<1>10. CarriedAwaited'
  BY <1>1, <1>3, <1>4, <1>6, <1>8 DEF StrayInvariant, CarriedAwaited
<1> QED
  BY <1>5, <1>9, <1>10 DEF StrayInvariant

LEMMA ContinueKeepsStrays ==
  ASSUME TypeOK, ConnectionInvariant, StrayInvariant, Discipline = "own",
         NEW t \in Threads, Continue(t), UNCHANGED serverVars
  PROVE  StrayInvariant'
<1> USE DEF ConnectionInvariant
<1>1. CASE Die
  BY <1>1
  DEF Die, tableVars, threadVars, serverVars, StrayInvariant, IdleUnnumbered,
      CarriedEarlier, CarriedAwaited, Carries, Serving, Awaits, Active, SessionOf
<1>2. UNCHANGED connVars => NothingCarried
  BY DEF connVars, serverVars, NothingCarried, Carries, Serving
<1>3. ASSUME OthersKeep(t), TableKept, NothingCarried,
             pc'[t] = "idle" => NoNumber(t),
             (KeepsCall(t) /\ nextCall' = nextCall) \/ NoNumber(t),
             Active(t)' => Active(t),
             ~NoNumber(t) /\ call'[t].rv = "none" =>
               /\ call[t].rv = "none"
               /\ pc[t] \in {"enter", "recv"} => pc'[t] \in {"enter", "recv"}
      PROVE  StrayInvariant'
  <2>1. \A u \in Threads \ {t} : Active(u) => SessionOf(u)' = SessionOf(u)
    BY <1>3, TableKeptEffect DEF OthersKeep
  <2>2. KeepsCall(t) /\ Active(t) => SessionOf(t)' = SessionOf(t)
    BY <1>3, TableKeptEffect DEF KeepsCall
  <2>3. SameNumber(t) \/ NoNumber(t)
    BY <1>3, <2>2 DEF SameNumber, KeepsCall, Awaits, Active
  <2> QED
    BY <1>3, <2>1, <2>3, StraysKept
<1>4. ASSUME NEW rv \in {"ok", "error", "internal"}, NEW m, NEW a,
             Exchanged(t, rv, m, a), pc[t] \in {"send", "recv"}, NothingCarried,
             UNCHANGED <<contextArray, nextCall>>
      PROVE  StrayInvariant'
  <2>1. /\ KeepsCall(t) /\ pc'[t] \in {"finish", "done"} /\ call'[t].rv = rv
        /\ OthersKeep(t)
    BY <1>4, ExchangedEffect, ExchangedResult DEF AfterExchange, KeepsCall
  <2> QED
    BY <1>3, <1>4, <2>1 DEF TableKept, Active
<1>5. CASE CreateCard(t)
  <2>1. /\ KeepsCall(t) /\ OthersKeep(t) /\ pc'[t] \in {"send", "done"}
        /\ pc[t] = "card" /\ nextCall' = nextCall /\ TableKept
    BY <1>5, CreateCardEffect DEF CreateCard, KeepsCall, TableKept
  <2>2. call'[t].rv \in {call[t].rv, "internal"}
    <3>1. call[t] \in Calls /\ call \in [Threads -> Calls]
      BY DEF TypeOK, ClientTypeOK, ClientDomains
    <3>2. \/ call' = [call EXCEPT ![t] = [call[t] EXCEPT !.rv = "internal"]]
          \/ \E k \in Slots : call' = [call EXCEPT ![t] = [call[t] EXCEPT !.card = k]]
      BY <1>5 DEF CreateCard
    <3> QED
      BY <3>1, <3>2 DEF Calls
  <2> QED
    BY <1>2, <1>3, <1>5, <2>1, <2>2 DEF CreateCard, Active
<1>6. CASE NotConnected(t) \/ SendFails(t) \/ ReceiveInterrupted(t)
  BY <1>1, <1>2, <1>4, <1>6
  DEF NotConnected, SendFails, ReceiveInterrupted, ExchangeFails, tableVars
<1>7. CASE ReceiveReply(t)
  <2>0. PICK s \in Sessions : s = call[t].session
    BY <1>7, TableTypes DEF ReceiveReply
  <2>1. s \in Sessions /\ toClient[s] \in Seq(Messages) /\ toClient[s] # << >>
    BY <1>7, <2>0 DEF ReceiveReply, TypeOK, ConnTypeOK
  <2>2. /\ toClient'[s] = Tail(toClient[s])
        /\ \A r \in Sessions \ {s} : toClient'[r] = toClient[r]
        /\ UNCHANGED <<toServer, child, request>>
    BY <1>7, <2>0, <2>1 DEF ReceiveReply, serverVars, TypeOK, ConnTypeOK
  <2>3. \A n \in 1 .. Len(toClient'[s]) :
          n + 1 \in 1 .. Len(toClient[s]) /\ toClient'[s][n] = toClient[s][n + 1]
    BY <2>1, <2>2, ElementsOfTail
  <2>4. NothingCarried
    <3>1. ASSUME NEW c \in Handles, Carries(s, c)' PROVE Carries(s, c)
      BY <2>2, <2>3, <3>1 DEF Carries, Serving
    <3>2. ASSUME NEW r \in Sessions \ {s}, NEW c \in Handles, Carries(r, c)'
          PROVE  Carries(r, c)
      BY <2>2, <3>2 DEF Carries, Serving
    <3> QED
      BY <3>1, <3>2 DEF NothingCarried
  <2>5. Head(toClient[s]).rv \in {"ok", "error"}
    <3>1. Head(toClient[s]) \in Messages
      BY <2>1
    <3> QED
      BY <3>1 DEF Messages
  <2> QED
    BY <1>4, <1>7, <2>0, <2>4, <2>5 DEF ReceiveReply, tableVars
<1>8. CASE ReceiveEnd(t)
  <2>1. call[t].msg.rv \in {"ok", "error"}
    BY DEF TypeOK, ClientTypeOK, ClientDomains, Calls, Messages
  <2> QED
    BY <1>2, <1>4, <1>8, <2>1 DEF ReceiveEnd, ExchangeFails, tableVars
<1>9. CASE ReceiveError(t)
  <2>1. \A s \in Sessions : /\ toServer'[s] \in {toServer[s], << >>}
                            /\ toClient'[s] \in {toClient[s], << >>}
    BY <1>9 DEF ReceiveError, Break, TypeOK, ConnTypeOK
  <2>2. NothingCarried
    BY <2>1 DEF NothingCarried, Carries, Serving, serverVars
  <2> QED
    BY <1>4, <1>9, <2>2 DEF ReceiveError, ExchangeFails, tableVars
<1>10. CASE OpenConnection(t)
  <2> DEFINE i == call[t].ctx
             c == call[t].id
  <2>1. i \in Slots /\ c \in Sessions /\ clientEnd[c] = "none" /\ pc[t] = "send"
    BY <1>10, TableTypes
    DEF OpenConnection, Active, SessionInvariant, SessionsFresh, SessionOf
  <2>2. /\ contextArray'[i].session = c
        /\ \A j \in Slots \ {i} : contextArray'[j].session = contextArray[j].session
        /\ UNCHANGED <<pc, call, nextCall>> /\ OthersKeep(t)
        /\ SessionOf(t)' = c
    BY <1>10, <2>1, SlotTypes
    DEF OpenConnection, Contexts, threadVars, SessionOf, OthersKeep
  <2>3. \A d \in Handles : ~Carries(c, d)
    BY <2>1 DEF UnopenedEmpty, Carries, Serving
  <2>4. \A u \in Threads \ {t} : Active(u) => SessionOf(u)' = SessionOf(u)
    BY <2>1, <2>2, TableTypes
    DEF SlotInvariant, SlotsExclusive, Active, Alone, SessionOf
  <2>5. NothingCarried
    BY <1>10 DEF OpenConnection, NothingCarried, Carries, Serving, serverVars
  <2>6. SameNumber(t)
    BY <2>1, <2>2, <2>3 DEF SameNumber, Awaits
  <2> QED
    BY <2>1, <2>2, <2>4, <2>5, <2>6, StraysKept
<1>11. CASE Send(t)
  BY <1>11, SendKeepsStrays
<1>12. CASE EnterRecv(t) /\ SessionOf(t) # NoSession
  <2>1. call'[t].rv = call[t].rv
    BY <1>12 DEF EnterRecv, TypeOK, ClientTypeOK, ClientDomains, Calls
  <2>2. KeepsCall(t) /\ OthersKeep(t) /\ pc[t] = "enter" /\ pc'[t] = "recv"
        /\ TableKept /\ nextCall' = nextCall /\ UNCHANGED connVars
    BY <1>12, EnterRecvEffect DEF EnterRecv, KeepsCall, TableKept, tableVars
  <2> QED
    BY <1>2, <1>3, <2>1, <2>2 DEF Active
<1>13. CASE FinishEstablish(t) \/ FinishRelease(t) \/ FinishConnect(t)
  <2>1. TableKept
    BY <1>13, SlotTypes
    DEF FinishEstablish, FinishRelease, FinishConnect, TableKept, Contexts
  <2>2. /\ KeepsCall(t) /\ OthersKeep(t) /\ call'[t] = call[t] /\ pc'[t] = "done"
        /\ pc[t] \in {"finish", "unlock"} /\ nextCall' = nextCall /\ UNCHANGED connVars
    BY <1>13, MoveEffect
    DEF FinishEstablish, FinishRelease, FinishConnect, Finishing, KeepsCall
  <2> QED
    BY <1>2, <1>3, <2>1, <2>2 DEF Active
<1>14. CASE CloseSession(t) /\ SessionOf(t) # NoSession
  <2> DEFINE i == call[t].ctx
  <2>1. /\ pc[t] = "finish" /\ pc'[t] = "unlock" /\ OthersKeep(t)
        /\ call' = call /\ nextCall' = nextCall /\ i \in Slots
    BY <1>14, MoveEffect, TableTypes DEF CloseSession, Finishing, KeepsCall, Active
  <2>2. /\ contextArray'[i].session = NoSession
        /\ \A j \in Slots \ {i} : contextArray'[j].session = contextArray[j].session
    BY <1>14, <2>1, SlotTypes DEF CloseSession, Contexts
  <2>3. \A u \in Threads \ {t} : Active(u) => SessionOf(u)' = SessionOf(u)
    BY <2>1, <2>2, TableTypes
    DEF SlotInvariant, SlotsExclusive, Active, Alone, SessionOf, OthersKeep
  <2>4. NothingCarried
    BY <1>14 DEF CloseSession, NothingCarried, Carries, Serving, serverVars
  <2>5. SameNumber(t)
    BY <2>1, <2>2, TableTypes DEF SameNumber, Awaits, SessionOf
  <2> QED
    BY <2>1, <2>3, <2>4, <2>5, StraysKept
<1>15. CASE Return(t)
  <2>1. /\ OthersKeep(t) /\ pc'[t] = "idle" /\ call'[t] = Idle /\ nextCall' = nextCall
        /\ TableKept /\ UNCHANGED connVars
    BY <1>15
    DEF Return, OthersKeep, TableKept, tableVars, TypeOK, ClientTypeOK, ClientDomains
  <2> QED
    BY <1>2, <1>3, <2>1 DEF Active, NoNumber
<1> QED
  BY <1>1, <1>5, <1>6, <1>7, <1>8, <1>9, <1>10, <1>11, <1>12, <1>13, <1>14, <1>15
  DEF Continue, EnterRecv, CloseSession

----------------------------------------------------------------------------
LEMMA ServerCarriesNothing ==
  ASSUME TypeOK, NEW s \in Sessions, ServerStep(s)
  PROVE  NothingCarried
<1>1. ASSUME NEW r \in Sessions, r # s
      PROVE  /\ child'[r] = child[r] /\ request'[r] = request[r]
             /\ toServer'[r] = toServer[r] /\ toClient'[r] = toClient[r]
  <2> USE DEF TypeOK, ConnTypeOK, ServerTypeOK
  <2>1. CASE Exit(s)
    BY <1>1, <2>1 DEF Exit, Break
  <2>2. CASE ReceiveRequest(s)
    BY <1>1, <2>2 DEF ReceiveRequest
  <2>3. CASE Execute(s)
    BY <1>1, <2>3 DEF Execute, connVars
  <2>4. CASE SendReply(s)
    BY <1>1, <2>4 DEF SendReply
  <2> QED
    BY <2>1, <2>2, <2>3, <2>4
    DEF ServerStep, ChildStep, EndOfRequests, ReplyFails, ChildDies
<1>2. ASSUME \A c \in Handles : Carries(s, c)' => Carries(s, c) PROVE NothingCarried
  BY <1>1, <1>2 DEF NothingCarried, Carries, Serving
<1>3. ASSUME Exit(s) PROVE NothingCarried
  <2>1. /\ child'[s] = "exited"
        /\ toServer'[s] \in {toServer[s], << >>} /\ toClient'[s] \in {toClient[s], << >>}
    BY <1>3 DEF Exit, Break, TypeOK, ConnTypeOK, ServerTypeOK
  <2> QED
    BY <1>2, <2>1 DEF Carries, Serving
<1>4. CASE ReceiveRequest(s)
  <2>1. toServer[s] \in Seq(Messages) /\ toServer[s] # << >>
    BY <1>4 DEF ReceiveRequest, TypeOK, ConnTypeOK
  <2>2. /\ 1 \in 1 .. Len(toServer[s]) /\ Head(toServer[s]) = toServer[s][1]
        /\ toServer'[s] = Tail(toServer[s]) /\ toClient'[s] = toClient[s]
        /\ request'[s] = Head(toServer[s])
    BY <1>4, <2>1 DEF ReceiveRequest, TypeOK, ConnTypeOK, ServerTypeOK
  <2>3. \A n \in 1 .. Len(toServer'[s]) :
          n + 1 \in 1 .. Len(toServer[s]) /\ toServer'[s][n] = toServer[s][n + 1]
    BY <2>1, <2>2, ElementsOfTail
  <2> QED
    BY <1>2, <2>2, <2>3 DEF Carries
<1>5. CASE Execute(s)
  <2>1. request'[s].call = request[s].call /\ UNCHANGED <<toServer, toClient>>
    <3>1. \A ok \in BOOLEAN : Reply(request[s], ok).call = request[s].call
      BY DEF Reply, Messages, TypeOK, ServerTypeOK
    <3>2. \/ request' = request
          \/ \E ok \in BOOLEAN : request' = [request EXCEPT ![s] = Reply(request[s], ok)]
      BY <1>5 DEF Execute
    <3>3. UNCHANGED <<toServer, toClient>> /\ request \in [Sessions -> Messages]
      BY <1>5 DEF Execute, connVars, TypeOK, ServerTypeOK
    <3> QED
      BY <3>1, <3>2, <3>3
  <2> QED
    BY <1>2, <1>5, <2>1 DEF Carries, Serving, Execute
<1>6. CASE SendReply(s)
  <2>1. /\ child[s] = "send" /\ child'[s] = "recv" /\ toServer'[s] = toServer[s]
        /\ request[s] \in Messages /\ toClient[s] \in Seq(Messages)
        /\ toClient'[s] \in {toClient[s], Append(toClient[s], request[s])}
    BY <1>6 DEF SendReply, TypeOK, ServerTypeOK, ConnTypeOK
  <2>2. \A n \in 1 .. Len(toClient'[s]) :
          \/ n \in 1 .. Len(toClient[s]) /\ toClient'[s][n] = toClient[s][n]
          \/ toClient'[s][n] = request[s]
    BY <2>1, ElementsOfAppend
  <2> QED
    BY <1>2, <2>1, <2>2 DEF Carries, Serving
<1> QED
  BY <1>3, <1>4, <1>5, <1>6
  DEF ServerStep, ChildStep, EndOfRequests, ReplyFails, ChildDies

LEMMA StrayInvariantInductive ==
  ASSUME TypeOK, ConnectionInvariant, StrayInvariant, Discipline = "own", [Next]_vars
  PROVE  StrayInvariant'
<1>1. ASSUME NEW t \in Threads, ClientStep(t) PROVE StrayInvariant'
  BY <1>1, CallKeepsStrays, ContinueKeepsStrays DEF ClientStep
<1>2. ASSUME UNCHANGED clientVars, NothingCarried PROVE StrayInvariant'
  BY <1>2
  DEF clientVars, tableVars, threadVars, NothingCarried, StrayInvariant, IdleUnnumbered,
      CarriedEarlier, CarriedAwaited, Active, Awaits, SessionOf
<1>3. ASSUME NEW s \in Sessions, ServerStep(s) PROVE StrayInvariant'
  BY <1>2, <1>3, ServerCarriesNothing DEF ServerStep
<1>4. ASSUME NEW s \in Sessions, NetworkStep(s) PROVE StrayInvariant'
  <2>1. \A r \in Sessions : /\ toServer'[r] \in {toServer[r], << >>}
                            /\ toClient'[r] \in {toClient[r], << >>}
    BY <1>4 DEF NetworkStep, NetworkReset, Break, TypeOK, ConnTypeOK
  <2>2. NothingCarried
    BY <1>4, <2>1 DEF NetworkStep, NothingCarried, Carries, Serving, serverVars
  <2> QED
    BY <1>2, <1>4, <2>2 DEF NetworkStep
<1>5. CASE UNCHANGED vars
  <2>1. UNCHANGED clientVars /\ NothingCarried
    BY <1>5 DEF vars, serverVars, connVars, NothingCarried, Carries, Serving
  <2> QED
    BY <1>2, <2>1
<1> QED
  BY <1>1, <1>3, <1>4, <1>5 DEF Next

(***************************************************************************)
(* What a session carries is about the call that uses it or about earlier  *)
(* ones, and a call that has not given up awaits its reply: for threads    *)
(* that do not share, whatever fails, interrupted calls included.          *)
(***************************************************************************)
THEOREM StrayInvariantCorrect ==
  ASSUME Discipline = "own"
  PROVE  Spec => []StrayInvariant
<1>1. Init => StrayInvariant
  BY DEF Init, ClientInit, ServerInit, ConnInit, StrayInvariant, IdleUnnumbered, Idle,
         NewCall, CarriedEarlier, CarriedAwaited, Carries, Serving
<1>2. TypeOK /\ ConnectionInvariant /\ StrayInvariant /\ [Next]_vars => StrayInvariant'
  BY StrayInvariantInductive
<1>3. Spec => []ConnectionInvariant
  BY ConnectionInvariantCorrect
<1> QED
  BY <1>1, <1>2, <1>3, TypeCorrect, PTL DEF Spec

\* Only a reply tells a call of another call.
LEMMA AnswersFromReplies ==
  ASSUME TypeOK, NEW t \in Threads, ClientStep(t), NEW u \in Threads,
         call'[u].answer \notin {NoCall, call[u].answer}
  PROVE  u = t /\ ReceiveReply(t)
<1>1. ASSUME OthersKeep(t), call'[t].answer \in {NoCall, call[t].answer} PROVE FALSE
  BY <1>1 DEF OthersKeep
<1>2. ASSUME NEW op, NEW rv, Refuse(t, op, rv) PROVE FALSE
  BY <1>1, <1>2, RefuseEffect
<1>3. ASSUME NEW to, NEW op, NEW i, NEW k, NEW arg,
             Begin(t, to, NewCall(nextCall, op, i, k, arg))
      PROVE  FALSE
  BY <1>1, <1>3, BeginEffect DEF NewCall
<1>4. ASSUME NEW rv, NEW m, Exchanged(t, rv, m, NoCall) PROVE FALSE
  BY <1>1, <1>4, ExchangedEffect DEF KeepsCall
<1>5. call' # call
  OBVIOUS
<1>6. ~Call(t)
  BY <1>2, <1>3, <1>5
  DEF Call, NoEnvironment, TlsInitFails, NoContext, EstablishContext, BlockOnMutex,
      ContextCall, CardCall, CancelContext, Die, threadVars
<1>7. ~CreateCard(t)
  BY <1>1, CreateCardEffect DEF KeepsCall
<1>8. ~EnterRecv(t)
  BY <1>1, <1>5, EnterRecvEffect DEF EnterRecv, Die, threadVars, KeepsCall
<1>9. ~Return(t)
  <2>1. Return(t) => OthersKeep(t) /\ call'[t] = Idle
    BY DEF Return, OthersKeep, TypeOK, ClientTypeOK, ClientDomains
  <2> QED
    BY <1>1, <2>1 DEF Idle, NewCall
<1>10. CASE ReceiveReply(t)
  <2>1. OthersKeep(t)
    BY <1>10, ExchangedEffect DEF ReceiveReply, KeepsCall
  <2> QED
    BY <1>10, <2>1 DEF OthersKeep
<1> QED
  BY <1>4, <1>5, <1>6, <1>7, <1>8, <1>9, <1>10
  DEF ClientStep, Continue, NotConnected, SendFails, ReceiveEnd, ReceiveError,
      ReceiveInterrupted, ExchangeFails, OpenConnection, Send, FinishEstablish,
      CloseSession, FinishRelease, FinishConnect, Die, threadVars

(***************************************************************************)
(* A thread that takes a reply not its own takes one of an earlier call,   *)
(* which has given up: for threads that do not share, whatever fails.      *)
(***************************************************************************)
THEOREM StraysCorrect ==
  ASSUME Discipline = "own"
  PROVE  Spec => StraysAreLate
<1> DEFINE Late(t) == call'[t].answer \notin {NoCall, call'[t].id, call[t].answer} =>
             /\ call'[t].answer < call'[t].id
             /\ \A u \in Threads : call[u].id = call'[t].answer => call[u].rv # "none"
<1>1. TypeOK /\ ConnectionInvariant /\ StrayInvariant /\ [Next]_vars =>
        [\A t \in Threads : Late(t)]_vars
  <2> SUFFICES ASSUME TypeOK, ConnectionInvariant, StrayInvariant, [Next]_vars,
                      NEW t \in Threads,
                      call'[t].answer \notin {NoCall, call'[t].id, call[t].answer}
               PROVE  /\ call'[t].answer < call'[t].id
                      /\ \A u \in Threads : call[u].id = call'[t].answer =>
                                             call[u].rv # "none"
    OBVIOUS
  <2>1. PICK v \in Threads : ClientStep(v)
    BY DEF Next, ServerStep, NetworkStep, vars, clientVars, threadVars
  <2>2. ReceiveReply(t)
    BY <2>1, AnswersFromReplies
  <2> DEFINE s == call[t].session
             c == Head(toClient[s]).call
  <2>3. /\ s \in Sessions /\ s = SessionOf(t) /\ Active(t)
        /\ \A u \in Threads : Awaits(u, s) => u = t
    BY <2>2, ReceiverAlone DEF ReceiveReply, ConnectionInvariant, Active
  <2>4. call'[t].answer = c /\ call'[t].id = call[t].id
    BY <2>2, ExchangedEffect DEF ReceiveReply, KeepsCall
  <2>5. c \in Handles /\ Carries(s, c)
    <3>1. toClient[s] \in Seq(Messages) /\ toClient[s] # << >>
      BY <2>2, <2>3 DEF ReceiveReply, TypeOK, ConnTypeOK
    <3>2. /\ 1 \in 1 .. Len(toClient[s]) /\ Head(toClient[s]) = toClient[s][1]
          /\ Head(toClient[s]) \in Messages
      BY <3>1
    <3> QED
      BY <3>2 DEF Carries, Messages
  <2>6. c <= call[t].id /\ c # call[t].id /\ c \in Nat /\ call[t].id \in Nat
    <3>1. Handles \subseteq Nat
      BY DEF Handles, CallIds, NoCall
    <3>2. c <= call[t].id
      BY <2>3, <2>5 DEF StrayInvariant, CarriedEarlier
    <3> QED
      BY <2>4, <2>5, <3>1, <3>2 DEF TypeOK, ClientTypeOK, ClientDomains, Calls
  <2>7. \A u \in Threads : call[u].id = c => call[u].rv # "none"
    BY <2>3, <2>5, <2>6 DEF StrayInvariant, CarriedAwaited
  <2> QED
    BY <2>4, <2>6, <2>7
<1>2. Spec => []ConnectionInvariant
  BY ConnectionInvariantCorrect
<1> QED
  BY <1>1, <1>2, TypeCorrect, StrayInvariantCorrect, PTL DEF Spec, StraysAreLate

----------------------------------------------------------------------------
(***************************************************************************)
(* A step of a thread leaves the others where they are, on their sessions. *)
(***************************************************************************)
OthersStay(t) ==
  /\ OthersKeep(t)
  /\ \A u \in Threads \ {t} : Active(u) => SessionOf(u)' = SessionOf(u)

LEMMA ClientLeavesOthers ==
  ASSUME TypeOK, SlotInvariant, NEW t \in Threads, Call(t) \/ Continue(t)
  PROVE  OthersStay(t)
<1>1. UNCHANGED <<pc, call>> => OthersKeep(t)
  BY DEF OthersKeep
<1>2. ASSUME NEW to, NEW c, Begin(t, to, c) PROVE OthersKeep(t)
  BY <1>2, BeginEffect
<1>3. ASSUME NEW rv, NEW m, NEW a, Exchanged(t, rv, m, a) PROVE OthersKeep(t)
  BY <1>3, ExchangedEffect DEF KeepsCall
<1>4. ASSUME NEW to, pc' = [pc EXCEPT ![t] = to], call' = call PROVE OthersKeep(t)
  BY <1>4, MoveEffect DEF KeepsCall
<1>5. CASE Call(t)
  <2>1. OthersKeep(t)
    BY <1>1, <1>2, <1>5
    DEF Call, NoEnvironment, TlsInitFails, NoContext, EstablishContext, BlockOnMutex,
        ContextCall, CardCall, CancelContext, Refuse, Die, threadVars
  <2>2. TableKept
    <3>1. CASE EstablishContext(t)
      BY <3>1, SlotTypes DEF EstablishContext, TableKept, Contexts
    <3> QED
      BY <1>5, <3>1
      DEF Call, NoEnvironment, TlsInitFails, NoContext, BlockOnMutex, ContextCall,
          CardCall, CancelContext, Die, tableVars, TableKept
  <2> QED
    BY <2>1, <2>2, TableKeptEffect DEF OthersStay, OthersKeep
<1>6. CASE Continue(t)
  <2>1. OthersKeep(t)
    <3>1. CASE CreateCard(t) \/ EnterRecv(t) \/ Return(t)
      BY <1>1, <3>1, CreateCardEffect, EnterRecvEffect
      DEF KeepsCall, EnterRecv, Return, Die, threadVars, OthersKeep, TypeOK,
          ClientTypeOK, ClientDomains
    <3> QED
      BY <1>1, <1>3, <1>4, <1>6, <3>1
      DEF Continue, NotConnected, OpenConnection, Send, SendFails, ReceiveReply,
          ReceiveEnd, ReceiveError, ReceiveInterrupted, ExchangeFails, FinishEstablish,
          CloseSession, FinishRelease, FinishConnect, Die, threadVars
  <2>2. ASSUME OpenConnection(t) \/ CloseSession(t), ~Die PROVE OthersStay(t)
    <3>1. Active(t) /\ Alone(t) /\ call[t].ctx \in Slots
      BY <2>2, TableTypes DEF OpenConnection, CloseSession, Finishing, Active, Alone
    <3>2. /\ call' = call
          /\ \A j \in Slots \ {call[t].ctx} :
               contextArray'[j].session = contextArray[j].session
      BY <2>2, <3>1, SlotTypes DEF OpenConnection, CloseSession, threadVars
    <3> QED
      BY <2>1, <3>1, <3>2, TableTypes
      DEF OthersStay, SlotInvariant, SlotsExclusive, SessionOf
  <2>3. CASE TableKept
    BY <2>1, <2>3, TableKeptEffect DEF OthersStay, OthersKeep
  <2>4. FinishEstablish(t) \/ FinishRelease(t) => TableKept
    BY SlotTypes DEF FinishEstablish, FinishRelease, TableKept, Contexts
  <2> QED
    BY <1>6, <2>2, <2>3, <2>4
    DEF Continue, CreateCard, NotConnected, Send, SendFails, EnterRecv, ReceiveReply,
        ReceiveEnd, ReceiveError, ReceiveInterrupted, FinishConnect, Return, CloseSession,
        Die, tableVars, TableKept
<1> QED
  BY <1>5, <1>6

----------------------------------------------------------------------------
(***************************************************************************)
(* WaitersCounted.                                                         *)
(***************************************************************************)
Counted(s) ==
  Usable(s) => IsFiniteSet(Waiting(s)) /\ Cardinality(Waiting(s)) = UnderWay(s)

Busy(s) == IF Serving(s) THEN 1 ELSE 0

LEMMA UnderWayParts ==
  ASSUME TypeOK, NEW s \in Sessions
  PROVE  /\ toServer[s] \in Seq(Messages) /\ toClient[s] \in Seq(Messages)
         /\ \E a \in Nat, b \in Nat, c \in Nat :
              /\ a = Len(toServer[s]) /\ b = Len(toClient[s]) /\ c = Busy(s)
              /\ UnderWay(s) = a + b + c
<1>1. toServer[s] \in Seq(Messages) /\ toClient[s] \in Seq(Messages)
  BY DEF TypeOK, ConnTypeOK
<1>2. Len(toServer[s]) \in Nat /\ Len(toClient[s]) \in Nat
  BY <1>1
<1>3. Busy(s) \in Nat
  BY DEF Busy
<1>4. UnderWay(s) = Len(toServer[s]) + Len(toClient[s]) + Busy(s)
  BY Zenon DEF UnderWay, Busy, Serving
<1> QED
  BY <1>1, <1>2, <1>3, <1>4

LEMMA UnderWayNext ==
  ASSUME NEW s \in Sessions
  PROVE  UnderWay(s)' = Len(toServer'[s]) + Len(toClient'[s]) + Busy(s)'
BY Zenon DEF UnderWay, Busy, Serving

\* Two of a request, its service and a reply are two messages.
LEMMA UnderWayBounds ==
  ASSUME TypeOK, NEW s \in Sessions
  PROVE  /\ UnderWay(s) \in Nat
         /\ toServer[s] # << >> \/ toClient[s] # << >> \/ Serving(s) => UnderWay(s) >= 1
         /\ toServer[s] # << >> /\ toClient[s] # << >> => UnderWay(s) >= 2
         /\ Serving(s) /\ toClient[s] # << >> => UnderWay(s) >= 2
         /\ toServer[s] # << >> /\ Serving(s) => UnderWay(s) >= 2
<1>1. PICK a \in Nat, b \in Nat, c \in Nat :
       /\ a = Len(toServer[s]) /\ b = Len(toClient[s]) /\ c = Busy(s)
       /\ UnderWay(s) = a + b + c
  BY UnderWayParts
<1>2. toServer[s] # << >> => a >= 1
  BY <1>1, UnderWayParts
<1>3. toClient[s] # << >> => b >= 1
  BY <1>1, UnderWayParts
<1>4. Serving(s) => c = 1
  BY <1>1 DEF Busy
<1>5. UnderWay(s) = a + b + c
  BY <1>1
<1> QED
  BY <1>2, <1>3, <1>4, <1>5

LEMMA OthersWait ==
  ASSUME NEW t \in Threads, OthersStay(t), NEW s \in Sessions
  PROVE  /\ Waiting(s)' \ {t} = Waiting(s) \ {t}
         /\ \A u \in Threads \ {t} : Awaits(u, s)' <=> Awaits(u, s)
BY DEF OthersStay, OthersKeep, Waiting, Awaits, Active

\* Nothing changes for those who wait on s.
LEMMA CountKept ==
  ASSUME NEW t \in Threads, OthersStay(t), NEW s \in Sessions, Counted(s),
         UNCHANGED serverVars,
         Usable(s)' => /\ Usable(s)
                       /\ toServer'[s] = toServer[s]
                       /\ toClient'[s] = toClient[s]
                       /\ Awaits(t, s)' <=> Awaits(t, s)
  PROVE  Counted(s)'
<1> SUFFICES ASSUME Usable(s)' PROVE Counted(s)'
  BY DEF Counted
<1>1. Waiting(s)' = Waiting(s)
  BY OthersWait DEF Waiting, Awaits
<1>2. UnderWay(s)' = UnderWay(s)
  BY Zenon DEF UnderWay, serverVars
<1> QED
  BY <1>1, <1>2 DEF Counted

LEMMA CallKeepsCount ==
  ASSUME TypeOK, SlotInvariant, WaitersCounted, NEW t \in Threads, Call(t),
         UNCHANGED serverVars
  PROVE  WaitersCounted'
<1>1. OthersStay(t)
  BY ClientLeavesOthers
<1>2. CASE Die
  BY <1>2 DEF Die, Usable, WaitersCounted
<1>3. CASE pc[t] = "idle" /\ pc'[t] \in {"done", "blocked", "card", "send"} /\ UNCHANGED connVars
  <2>1. ASSUME NEW s \in Sessions PROVE Counted(s)'
    BY <1>1, <1>3, CountKept DEF WaitersCounted, Counted, connVars, Usable, Awaits
  <2> QED
    BY <2>1 DEF WaitersCounted, Counted
<1>4. ASSUME NEW to, NEW c, Begin(t, to, c) PROVE pc'[t] = to
  BY <1>4, BeginEffect
<1> QED
  BY <1>2, <1>3, <1>4
  DEF Call, NoEnvironment, TlsInitFails, NoContext, EstablishContext, BlockOnMutex,
      ContextCall, CardCall, CancelContext, Refuse, MayCall

\* Who sends waits, and its request is under way.
LEMMA SendKeepsCount ==
  ASSUME TypeOK, SlotInvariant, WaitersCounted, NEW t \in Threads, Send(t),
         UNCHANGED serverVars
  PROVE  WaitersCounted'
<1>1. OthersStay(t)
  BY ClientLeavesOthers DEF Continue
<1>2. PICK s \in Sessions : s = SessionOf(t)
  BY TableTypes DEF Send, Active, SessionOf
<1>3. /\ pc[t] = "send" /\ pc'[t] = "enter"
      /\ \A r \in Sessions : /\ SessionOf(t)' = r <=> r = s
                             /\ Usable(r)' <=> Usable(r)
      /\ toClient' = toClient
      /\ \A r \in Sessions \ {s} : toServer'[r] = toServer[r]
      /\ Usable(s) => toServer'[s] = Append(toServer[s], call[t].msg)
  BY <1>2, MoveEffect
  DEF Send, tableVars, Usable, SessionOf, TypeOK, ConnTypeOK
<1>4. ASSUME NEW r \in Sessions \ {s} PROVE Counted(r)'
  BY <1>1, <1>3, CountKept DEF WaitersCounted, Counted, Awaits
<1>5. ASSUME Usable(s)'
      PROVE  IsFiniteSet(Waiting(s)') /\ Cardinality(Waiting(s)') = UnderWay(s)'
  <2>1. IsFiniteSet(Waiting(s)) /\ Cardinality(Waiting(s)) = UnderWay(s)
    BY <1>3, <1>5 DEF WaitersCounted
  <2>2. t \notin Waiting(s) /\ Waiting(s)' = Waiting(s) \cup {t}
    BY <1>1, <1>3, OthersWait DEF Waiting
  <2>3. PICK a \in Nat, b \in Nat, c \in Nat :
         /\ a = Len(toServer[s]) /\ b = Len(toClient[s]) /\ c = Busy(s)
         /\ UnderWay(s) = a + b + c
    BY UnderWayParts
  <2>4. Len(toServer'[s]) = a + 1 /\ Len(toClient'[s]) = b /\ Busy(s)' = c
    BY <1>3, <1>5, <2>3, UnderWayParts DEF serverVars, Busy, Serving
  <2>5. UnderWay(s)' = UnderWay(s) + 1
    <3>1. UnderWay(s) = a + b + c /\ UnderWay(s)' = (a + 1) + b + c
      BY <2>3, <2>4, UnderWayNext
    <3> QED
      BY <3>1
  <2> QED
    BY <2>1, <2>2, <2>5, FS_AddElement
<1> QED
  BY <1>4, <1>5 DEF WaitersCounted, Counted

\* Who takes a reply waits no more.
LEMMA ReceiveKeepsCount ==
  ASSUME TypeOK, SlotInvariant, SessionInvariant, WaitersCounted, NEW t \in Threads,
         ReceiveReply(t), UNCHANGED serverVars
  PROVE  WaitersCounted'
<1>1. OthersStay(t)
  BY ClientLeavesOthers DEF Continue
<1>2. PICK s \in Sessions : s = call[t].session /\ s = SessionOf(t)
  BY TableTypes DEF ReceiveReply, SessionInvariant, SessionKept
<1>3. pc'[t] \in {"finish", "done"}
  BY ExchangedEffect DEF ReceiveReply, AfterExchange
<1>4. /\ pc[t] = "recv"
      /\ toClient[s] # << >>
      /\ toServer' = toServer
      /\ \A r \in Sessions : Usable(r)' <=> Usable(r)
      /\ \A r \in Sessions \ {s} : toClient'[r] = toClient[r]
      /\ toClient'[s] = Tail(toClient[s])
  BY <1>2 DEF ReceiveReply, Usable, TypeOK, ConnTypeOK
<1>5. ASSUME NEW r \in Sessions \ {s} PROVE Counted(r)'
  BY <1>1, <1>2, <1>3, <1>4, CountKept DEF WaitersCounted, Counted, Awaits
<1>6. ASSUME Usable(s)'
      PROVE  IsFiniteSet(Waiting(s)') /\ Cardinality(Waiting(s)') = UnderWay(s)'
  <2>1. IsFiniteSet(Waiting(s)) /\ Cardinality(Waiting(s)) = UnderWay(s)
    BY <1>4, <1>6 DEF WaitersCounted
  <2>2. t \in Waiting(s) /\ Waiting(s)' = Waiting(s) \ {t}
    BY <1>1, <1>2, <1>3, <1>4, OthersWait DEF Waiting
  <2>3. PICK a \in Nat, b \in Nat, c \in Nat :
         /\ a = Len(toServer[s]) /\ b = Len(toClient[s]) /\ c = Busy(s)
         /\ UnderWay(s) = a + b + c
    BY UnderWayParts
  <2>4. b >= 1 /\ Len(toServer'[s]) = a /\ Len(toClient'[s]) = b - 1 /\ Busy(s)' = c
    BY <1>4, <2>3, UnderWayParts DEF serverVars, Busy, Serving
  <2>5. UnderWay(s)' = UnderWay(s) - 1
    <3>1. b >= 1 /\ UnderWay(s) = a + b + c /\ UnderWay(s)' = a + (b - 1) + c
      BY <2>3, <2>4, UnderWayNext
    <3> QED
      BY <3>1
  <2> QED
    BY <2>1, <2>2, <2>5, FS_RemoveElement
<1> QED
  BY <1>5, <1>6 DEF WaitersCounted, Counted

\* A session begins with nobody waiting.
LEMMA OpenKeepsCount ==
  ASSUME TypeOK, SlotInvariant, SessionInvariant, UnopenedEmpty, WaitersCounted,
         NEW t \in Threads, OpenConnection(t), UNCHANGED serverVars
  PROVE  WaitersCounted'
<1>1. OthersStay(t)
  BY ClientLeavesOthers DEF Continue
<1>2. PICK s \in Sessions : s = call[t].id /\ clientEnd[s] = "none" /\ pc[t] = "send"
  BY TableTypes
  DEF OpenConnection, Active, SessionInvariant, SessionsFresh, SessionOf
<1>3. /\ pc' = pc
      /\ UNCHANGED <<toServer, toClient>>
      /\ \A r \in Sessions \ {s} : Usable(r)' <=> Usable(r)
  BY <1>2, TableTypes DEF OpenConnection, threadVars, Usable
<1>4. ASSUME NEW r \in Sessions \ {s} PROVE Counted(r)'
  BY <1>1, <1>2, <1>3, CountKept DEF WaitersCounted, Counted, Awaits
<1>5. Waiting(s)' = {}
  <2>1. ASSUME NEW u \in Threads, u # t, Active(u) PROVE SessionOf(u)' # s
    <3>1. SessionOf(u)' = SessionOf(u) /\ call[u].ctx \in Slots
      BY <1>1, <2>1, TableTypes DEF OthersStay
    <3> QED
      BY <1>2, <3>1, TableTypes DEF SessionOf, SessionInvariant, SessionsApart
  <2> QED
    BY <1>2, <1>3, <2>1 DEF Waiting, Active
<1>6. UnderWay(s)' = 0
  <2>1. toServer'[s] = << >> /\ toClient'[s] = << >> /\ child'[s] = "recv"
    BY <1>2, <1>3 DEF UnopenedEmpty, serverVars
  <2>2. Len(toServer'[s]) = 0 /\ Len(toClient'[s]) = 0 /\ Busy(s)' = 0
    BY <2>1 DEF Busy, Serving
  <2>3. UnderWay(s)' = 0 + 0 + 0
    BY <2>2, UnderWayNext
  <2> QED
    BY <2>3
<1> QED
  BY <1>4, <1>5, <1>6, FS_EmptySet DEF WaitersCounted, Counted

LEMMA ContinueKeepsCount ==
  ASSUME TypeOK, SlotInvariant, SessionInvariant, UnopenedEmpty, WaitersCounted,
         "interrupt" \notin Faults, NEW t \in Threads, Continue(t), UNCHANGED serverVars
  PROVE  WaitersCounted'
<1>1. OthersStay(t)
  BY ClientLeavesOthers
<1>2. CASE Die
  BY <1>2 DEF Die, Usable, WaitersCounted
<1>3. ASSUME \A s \in Sessions :
               Usable(s)' => /\ Usable(s)
                             /\ toServer'[s] = toServer[s]
                             /\ toClient'[s] = toClient[s]
                             /\ Awaits(t, s)' <=> Awaits(t, s)
      PROVE  WaitersCounted'
  BY <1>1, <1>3, CountKept DEF WaitersCounted, Counted
<1>4. ASSUME pc[t] \notin {"enter", "recv"}, pc'[t] \notin {"enter", "recv"},
             UNCHANGED <<serverEnd, broken, toServer, toClient>>,
             \A s \in Sessions : clientEnd'[s] = "open" => clientEnd[s] = "open"
      PROVE  WaitersCounted'
  BY <1>3, <1>4 DEF Usable, Awaits
<1>5. CASE CreateCard(t)
  BY <1>4, <1>5, CreateCardEffect DEF CreateCard, connVars
<1>6. ASSUME NEW rv, NEW m, NEW a, Exchanged(t, rv, m, a)
      PROVE  pc'[t] \in {"finish", "done"}
  BY <1>6, ExchangedEffect DEF AfterExchange
<1>7. CASE NotConnected(t) \/ SendFails(t)
  BY <1>2, <1>4, <1>6, <1>7 DEF NotConnected, SendFails, ExchangeFails, connVars
<1>8. CASE EnterRecv(t) /\ SessionOf(t) # NoSession
  <2>1. /\ KeepsCall(t) /\ pc[t] = "enter" /\ pc'[t] = "recv"
        /\ UNCHANGED <<contextArray, connVars>>
    BY <1>8, EnterRecvEffect DEF EnterRecv, tableVars
  <2>2. \A s \in Sessions : Awaits(t, s)' <=> Awaits(t, s)
    BY <2>1 DEF KeepsCall, Awaits, SessionOf
  <2> QED
    BY <1>3, <2>1, <2>2 DEF connVars, Usable
<1>9. CASE ReceiveEnd(t) \/ ReceiveError(t)
  <2>1. PICK s \in Sessions : s = call[t].session /\ s = SessionOf(t) /\ ~Usable(s)
    BY <1>9, TableTypes
    DEF ReceiveEnd, ReceiveError, SessionInvariant, SessionKept, Usable
  <2>2. /\ \A r \in Sessions \ {s} : /\ toServer'[r] = toServer[r]
                                     /\ toClient'[r] = toClient[r]
        /\ \A r \in Sessions : Usable(r)' => Usable(r)
    <3>1. CASE ReceiveEnd(t)
      BY <3>1 DEF ReceiveEnd, connVars, Usable
    <3>2. CASE ReceiveError(t)
      BY <2>1, <3>2 DEF ReceiveError, Break, Usable, TypeOK, ConnTypeOK
    <3> QED
      BY <1>9, <3>1, <3>2
  <2>3. \A r \in Sessions \ {s} : ~Awaits(t, r) /\ ~Awaits(t, r)'
    BY <1>6, <1>9, <2>1 DEF ReceiveEnd, ReceiveError, ExchangeFails, Awaits
  <2> QED
    BY <1>3, <2>1, <2>2, <2>3
<1>10. CASE FinishEstablish(t) \/ FinishRelease(t) \/ FinishConnect(t)
  <2>1. pc'[t] = "done" /\ pc[t] \in {"finish", "unlock"}
    BY <1>10, MoveEffect DEF FinishEstablish, FinishRelease, FinishConnect, Finishing
  <2> QED
    BY <1>4, <1>10, <2>1 DEF FinishEstablish, FinishRelease, FinishConnect, connVars
<1>11. CASE CloseSession(t) /\ SessionOf(t) # NoSession
  <2>1. pc'[t] = "unlock" /\ pc[t] = "finish"
    BY <1>11, MoveEffect DEF CloseSession, Finishing
  <2>2. \A s \in Sessions : clientEnd'[s] = "open" => clientEnd[s] = "open"
    BY <1>11 DEF CloseSession, TypeOK, ConnTypeOK
  <2> QED
    BY <1>4, <1>11, <2>1, <2>2 DEF CloseSession
<1>12. CASE Return(t)
  <2>1. pc'[t] = "idle"
    BY <1>12 DEF Return, TypeOK, ClientTypeOK, ClientDomains
  <2> QED
    BY <1>4, <1>12, <2>1 DEF Return, connVars
<1> QED
  BY <1>2, <1>5, <1>7, <1>8, <1>9, <1>10, <1>11, <1>12, SendKeepsCount,
     ReceiveKeepsCount, OpenKeepsCount
  DEF Continue, EnterRecv, CloseSession, ReceiveInterrupted

\* A child leaves the other connections, and the library, alone.
LEMMA ServerLeavesOthers ==
  ASSUME TypeOK, NEW s \in Sessions, ServerStep(s)
  PROVE  /\ UNCHANGED <<clientVars, clientEnd>>
         /\ \A r \in Sessions \ {s} :
              /\ Usable(r)' <=> Usable(r)
              /\ child'[r] = child[r] /\ request'[r] = request[r]
              /\ service'[r] = service[r]
              /\ toServer'[r] = toServer[r] /\ toClient'[r] = toClient[r]
<1> USE DEF TypeOK, ConnTypeOK, ServerTypeOK, Usable
<1>1. CASE Exit(s)
  BY <1>1 DEF Exit, Break, ServerStep
<1>2. CASE ReceiveRequest(s)
  BY <1>2 DEF ReceiveRequest, ServerStep
<1>3. CASE Execute(s)
  BY <1>3 DEF Execute, connVars, ServerStep
<1>4. CASE SendReply(s)
  BY <1>4 DEF SendReply, ServerStep
<1> QED
  BY <1>1, <1>2, <1>3, <1>4
  DEF ServerStep, ChildStep, EndOfRequests, ReplyFails, ChildDies

\* A request becomes its service, and that the reply.
LEMMA ServerKeepsCount ==
  ASSUME TypeOK, WaitersCounted, NEW s \in Sessions, ServerStep(s)
  PROVE  WaitersCounted'
<1>1. \A r \in Sessions : Waiting(r)' = Waiting(r)
  BY ServerLeavesOthers DEF clientVars, tableVars, threadVars, Waiting, SessionOf
<1>2. ASSUME NEW r \in Sessions \ {s} PROVE Counted(r)'
  <2>1. UnderWay(r)' = UnderWay(r)
    BY <1>2, ServerLeavesOthers DEF UnderWay
  <2> QED
    BY <1>1, <1>2, <2>1, ServerLeavesOthers DEF WaitersCounted, Counted
<1>3. PICK a \in Nat, b \in Nat, c \in Nat :
       /\ a = Len(toServer[s]) /\ b = Len(toClient[s]) /\ c = Busy(s)
       /\ UnderWay(s) = a + b + c
  BY UnderWayParts
<1>4. ASSUME UnderWay(s)' = UnderWay(s), Usable(s)' <=> Usable(s) PROVE WaitersCounted'
  BY <1>1, <1>2, <1>4 DEF WaitersCounted, Counted
<1>5. CASE Exit(s)
  <2>1. ~Usable(s)'
    BY <1>5 DEF Exit, Usable, TypeOK, ConnTypeOK
  <2> QED
    BY <1>2, <2>1 DEF WaitersCounted, Counted
<1>6. CASE ReceiveRequest(s)
  <2>1. /\ toServer[s] # << >> /\ toServer'[s] = Tail(toServer[s])
        /\ toClient'[s] = toClient[s]
        /\ ~Serving(s) /\ Serving(s)'
    BY <1>6 DEF ReceiveRequest, Serving, TypeOK, ServerTypeOK, ConnTypeOK
  <2>2. a >= 1 /\ c = 0 /\ Len(toServer'[s]) = a - 1 /\ Len(toClient'[s]) = b
        /\ Busy(s)' = 1
    BY <1>3, <2>1, UnderWayParts DEF Busy
  <2>3. UnderWay(s)' = (a - 1) + b + 1
    BY <2>2, UnderWayNext
  <2>4. UnderWay(s)' = UnderWay(s)
    BY <1>3, <2>2, <2>3
  <2> QED
    BY <1>4, <1>6, <2>4 DEF ReceiveRequest, Usable
<1>7. CASE Execute(s)
  <2>1. Serving(s) /\ Serving(s)' /\ UNCHANGED connVars
    BY <1>7 DEF Execute, Serving, TypeOK, ServerTypeOK
  <2>2. UnderWay(s)' = UnderWay(s)
    BY <1>3, <2>1, UnderWayNext DEF Busy, connVars
  <2> QED
    BY <1>4, <2>1, <2>2 DEF connVars, Usable
<1>8. CASE SendReply(s)
  <2>1. /\ toServer'[s] = toServer[s]
        /\ Usable(s) => toClient'[s] = Append(toClient[s], request[s])
        /\ Serving(s) /\ ~Serving(s)'
        /\ Usable(s)' <=> Usable(s)
    BY <1>8 DEF SendReply, Serving, Usable, TypeOK, ServerTypeOK, ConnTypeOK
  <2>2. ASSUME Usable(s) PROVE UnderWay(s)' = UnderWay(s)
    <3>1. /\ c = 1 /\ Len(toServer'[s]) = a /\ Len(toClient'[s]) = b + 1
          /\ Busy(s)' = 0
      BY <1>3, <2>1, <2>2, UnderWayParts DEF Busy, TypeOK, ServerTypeOK
    <3>2. UnderWay(s) = a + b + 1 /\ UnderWay(s)' = a + (b + 1) + 0
      BY <1>3, <3>1, UnderWayNext
    <3> QED
      BY <3>2
  <2> QED
    BY <1>1, <1>2, <2>1, <2>2 DEF WaitersCounted, Counted
<1> QED
  BY <1>5, <1>6, <1>7, <1>8
  DEF ServerStep, ChildStep, EndOfRequests, ReplyFails, ChildDies

LEMMA NetworkKeepsCount ==
  ASSUME TypeOK, WaitersCounted, NEW s \in Sessions, NetworkStep(s)
  PROVE  WaitersCounted'
<1>1. \A r \in Sessions : Waiting(r)' = Waiting(r)
  BY DEF NetworkStep, clientVars, tableVars, threadVars, Waiting, SessionOf
<1>2. ~Usable(s)'
  BY DEF NetworkStep, NetworkReset, Break, Usable, TypeOK, ConnTypeOK
<1>3. ASSUME NEW r \in Sessions \ {s}
      PROVE  (Usable(r)' <=> Usable(r)) /\ UnderWay(r)' = UnderWay(r)
  <2>1. /\ Usable(r)' <=> Usable(r)
        /\ toServer'[r] = toServer[r] /\ toClient'[r] = toClient[r] /\ child' = child
    BY <1>3 DEF NetworkStep, NetworkReset, Break, Usable, TypeOK, ConnTypeOK, serverVars
  <2> QED
    BY <2>1 DEF UnderWay
<1> QED
  BY <1>1, <1>2, <1>3 DEF WaitersCounted

----------------------------------------------------------------------------
(***************************************************************************)
(* EstablishFromEmpty.  Who sets up or releases a context is the only one  *)
(* to wait on its session.                                                 *)
(***************************************************************************)
LEMMA SoleUser ==
  ASSUME TypeOK, SlotInvariant, SessionInvariant, WaitersCounted, NEW t \in Threads,
         NEW s \in Sessions, Active(t), Alone(t), SessionOf(t) = s, Usable(s)
  PROVE  /\ ~(toServer[s] # << >> /\ toClient[s] # << >>)
         /\ ~(Serving(s) /\ toClient[s] # << >>)
         /\ ~(toServer[s] # << >> /\ Serving(s))
         /\ toServer[s] # << >> \/ toClient[s] # << >> \/ Serving(s) => Awaits(t, s)
<1>1. \A u \in Waiting(s) : u = t
  BY OneThreadPerSession DEF Waiting, Active
<1>2. Cardinality(Waiting(s)) = UnderWay(s)
  BY DEF WaitersCounted
<1>3. CASE t \in Waiting(s)
  <2>1. Waiting(s) = {t}
    BY <1>1, <1>3
  <2>2. UnderWay(s) = 1
    BY <1>2, <2>1, FS_Singleton
  <2>3. Awaits(t, s)
    BY <1>3 DEF Waiting, Awaits
  <2> QED
    BY <2>2, <2>3, UnderWayBounds
<1>4. CASE t \notin Waiting(s)
  <2>1. Waiting(s) = {}
    BY <1>1, <1>4
  <2>2. UnderWay(s) = 0
    BY <1>2, <2>1, FS_EmptySet
  <2> QED
    BY <2>2, UnderWayBounds
<1> QED
  BY <1>3, <1>4

\* t sets up a context on s, whose child has something open.
Setting(t, s) ==
  /\ Active(t)
  /\ call[t].op = "EstablishContext"
  /\ SessionOf(t) = s
  /\ Usable(s)
  /\ service[s] # Empty

\* A step of the library opens no connection that has been opened before, and
\* takes no reply from another thread's session.
LEMMA ClientLeavesSessions ==
  ASSUME TypeOK, SlotInvariant, SessionInvariant, NEW t \in Threads,
         Call(t) \/ Continue(t), NEW s \in Sessions, Usable(s)', clientEnd[s] # "none"
  PROVE  /\ Usable(s)
         /\ toClient'[s] = toClient[s] \/ (Active(t) /\ SessionOf(t) = s)
<1>2. CASE Die
  BY <1>2 DEF Die, Usable
<1>3. CASE OpenConnection(t)
  <2>1. PICK r \in Sessions : r = call[t].id /\ clientEnd[r] = "none"
    BY <1>3, TableTypes
    DEF OpenConnection, Active, SessionInvariant, SessionsFresh, SessionOf
  <2>2. s # r
    BY <2>1
  <2> QED
    BY <1>3, <2>1, <2>2, TableTypes DEF OpenConnection, Usable
<1>4. CASE CloseSession(t) /\ SessionOf(t) # NoSession
  BY <1>4, TableTypes DEF CloseSession, Usable
<1>5. CASE ReceiveReply(t) \/ ReceiveError(t)
  <2>1. PICK r \in Sessions : r = call[t].session /\ r = SessionOf(t) /\ Active(t)
    BY <1>5, TableTypes
    DEF ReceiveReply, ReceiveError, SessionInvariant, SessionKept, Active
  <2> QED
    BY <1>5, <2>1 DEF ReceiveReply, ReceiveError, Break, Usable, TypeOK, ConnTypeOK
<1>6. CASE Send(t)
  BY <1>6 DEF Send, Usable
<1>7. CASE UNCHANGED connVars
  BY <1>7 DEF connVars, Usable
<1>8. CASE CloseSession(t) /\ SessionOf(t) = NoSession
  BY <1>2, <1>8 DEF CloseSession
<1> QED
  BY <1>2, <1>3, <1>4, <1>5, <1>6, <1>7, <1>8
  DEF Call, NoEnvironment, TlsInitFails, NoContext, EstablishContext, BlockOnMutex,
      ContextCall, CardCall, CancelContext, Continue, CreateCard, NotConnected,
      SendFails, EnterRecv, ReceiveEnd, ReceiveInterrupted, FinishEstablish,
      FinishRelease, FinishConnect, Return, connVars

\* The other threads.
LEMMA OthersGranted ==
  ASSUME TypeOK, SlotInvariant, SessionInvariant, UnopenedEmpty, EstablishFromEmpty,
         NEW t \in Threads, Call(t) \/ Continue(t), UNCHANGED serverVars,
         NEW u \in Threads \ {t}, NEW s \in Sessions, Setting(u, s)'
  PROVE  GrantReported(u, s)'
<1>1. /\ pc'[u] = pc[u] /\ call'[u] = call[u]
      /\ Active(u) /\ SessionOf(u)' = SessionOf(u)
  BY ClientLeavesOthers DEF OthersStay, OthersKeep, Setting, Active
<1>2. Usable(s)' /\ service[s] # Empty /\ call[u].op = "EstablishContext"
  BY <1>1 DEF Setting, serverVars
<1>3. /\ Usable(s)
      /\ toClient'[s] = toClient[s] \/ (Active(t) /\ SessionOf(t) = s)
  BY <1>2, ClientLeavesSessions DEF UnopenedEmpty
<1>4. SessionOf(u) = s /\ Setting(u, s) /\ Alone(u)
  BY <1>1, <1>2, <1>3 DEF Setting, Alone
<1>5. toClient'[s] = toClient[s]
  BY <1>1, <1>3, <1>4, OneThreadPerSession
<1>6. GrantReported(u, s)
  BY <1>4 DEF EstablishFromEmpty, Setting
<1> QED
  BY <1>1, <1>5, <1>6 DEF GrantReported, Awaits, serverVars

\* The thread itself: a slot it takes has no session with anything open.
LEMMA CallerGranted ==
  ASSUME TypeOK, SlotInvariant, SessionInvariant, UnopenedEmpty, NothingLeftOpen,
         NEW t \in Threads, Call(t), UNCHANGED serverVars,
         NEW s \in Sessions, Setting(t, s)'
  PROVE  FALSE
<1>1. ~Die
  BY DEF Die, Setting, Usable
<1>2. ASSUME NEW to, NEW op, NEW i, NEW k, NEW arg, op # "EstablishContext",
             Begin(t, to, NewCall(nextCall, op, i, k, arg))
      PROVE  FALSE
  BY <1>2, BeginEffect DEF NewCall, Setting
<1>3. ASSUME NEW op, NEW rv, Refuse(t, op, rv) PROVE FALSE
  BY <1>3, RefuseEffect DEF Setting, Active
<1>4. CASE \E op \in AllOps : BlockOnMutex(t, op)
  BY <1>4, BeginEffect DEF BlockOnMutex, Setting, Active
<1>5. CASE EstablishContext(t)
  <2>1. PICK i \in Slots : /\ ~contextArray[i].used
                           /\ contextArray' = [contextArray EXCEPT ![i].used = TRUE]
                           /\ call'[t].ctx = i
    <3>1. PICK i \in Slots :
            /\ First(i, FreeContexts)
            /\ contextArray' = [contextArray EXCEPT ![i].used = TRUE]
            /\ Begin(t, "send", NewCall(nextCall, "EstablishContext", i, NoSlot, NoCall))
      BY <1>5 DEF EstablishContext
    <3>2. call'[t].ctx = i
      BY <3>1, BeginEffect DEF NewCall
    <3> QED
      BY <3>1, <3>2 DEF First, FreeContexts
  <2>2. contextArray[i].session = s
    BY <2>1, SlotTypes DEF Setting, SessionOf, Contexts
  <2>3. Usable(s) /\ service[s] # Empty
    BY <1>5 DEF EstablishContext, connVars, serverVars, Setting, Usable
  <2>4. PICK j \in Slots : contextArray[j].used /\ contextArray[j].session = s
    BY <2>3 DEF NothingLeftOpen, InUse
  <2>5. i # j /\ s # NoSession
    BY <2>1, <2>4, TableTypes
  <2> QED
    BY <2>2, <2>4, <2>5 DEF SessionInvariant, SessionsApart
<1> QED
  BY <1>1, <1>2, <1>3, <1>4, <1>5
  DEF Call, NoEnvironment, TlsInitFails, NoContext, ContextCall, CardCall,
      CancelContext, ContextOps, CardOps

LEMMA GoerGranted ==
  ASSUME TypeOK, SlotInvariant, SessionInvariant, UnopenedEmpty, WaitersCounted,
         EstablishFromEmpty, "interrupt" \notin Faults, NEW t \in Threads, Continue(t),
         UNCHANGED serverVars, NEW s \in Sessions, Setting(t, s)'
  PROVE  GrantReported(t, s)'
<1>1. service[s] # Empty /\ ~Die
  BY DEF Die, Setting, Usable, serverVars
<1>2. Usable(s)
  BY <1>1, ClientLeavesSessions DEF Setting, UnopenedEmpty
<1>3. ASSUME KeepsCall(t), TableKept, Active(t) PROVE Setting(t, s) /\ GrantReported(t, s)
  <2>1. SessionOf(t)' = SessionOf(t)
    BY <1>3, TableKeptEffect DEF KeepsCall
  <2>2. Setting(t, s)
    BY <1>1, <1>2, <1>3, <2>1 DEF Setting, KeepsCall
  <2> QED
    BY <2>2 DEF EstablishFromEmpty, Setting
<1>4. contextArray' = contextArray => TableKept
  BY DEF TableKept
<1>5. ASSUME CreateCard(t) PROVE FALSE
  <2>1. call'[t].op = "Connect"
    BY <1>5, CreateCardEffect
    DEF CreateCard, KeepsCall, SlotInvariant, SlotsClaimed, Active
  <2> QED
    BY <2>1 DEF Setting
<1>6. ASSUME OpenConnection(t) PROVE FALSE
  <2>1. PICK r \in Sessions : r = call[t].id /\ clientEnd[r] = "none"
    BY <1>6, TableTypes
    DEF OpenConnection, Active, SessionInvariant, SessionsFresh, SessionOf
  <2>2. s = r
    BY <1>6, <2>1, SlotTypes, TableTypes
    DEF OpenConnection, Setting, SessionOf, Active, Contexts, threadVars
  <2> QED
    BY <1>1, <2>1, <2>2 DEF UnopenedEmpty
<1>7. ASSUME NEW rv, NEW m, NEW a, Exchanged(t, rv, m, a), pc[t] \in {"send", "recv"},
             contextArray' = contextArray
      PROVE  /\ SessionOf(t) = s /\ Setting(t, s) /\ GrantReported(t, s)
             /\ pc'[t] = "finish" /\ call'[t].rv = rv
  <2>1. KeepsCall(t) /\ Active(t) /\ pc'[t] = AfterExchange(call[t].op) /\ call'[t].rv = rv
    BY <1>7, ExchangedEffect, ExchangedResult DEF Active
  <2>2. Setting(t, s) /\ GrantReported(t, s)
    BY <1>3, <1>4, <1>7, <2>1
  <2> QED
    BY <2>1, <2>2 DEF Setting, AfterExchange
<1>8. ASSUME NotConnected(t) \/ SendFails(t) PROVE FALSE
  <2>1. SessionOf(t) = s /\ Usable(s) /\ s # NoSession
    BY <1>1, <1>2, <1>7, <1>8, TableTypes
    DEF NotConnected, SendFails, ExchangeFails, tableVars
  <2> QED
    BY <1>1, <1>8, <2>1 DEF NotConnected, SendFails
<1>9. ASSUME Send(t) PROVE FALSE
  <2>1. KeepsCall(t) /\ Active(t) /\ TableKept /\ pc[t] = "send"
    BY <1>4, <1>9, MoveEffect DEF Send, Active, tableVars
  <2>2. GrantReported(t, s)
    BY <1>3, <2>1
  <2> QED
    BY <2>1, <2>2 DEF GrantReported, Awaits
<1>10. CASE EnterRecv(t)
  <2>1. SessionOf(t) # NoSession
    BY <1>1, <1>10 DEF EnterRecv
  <2>2. /\ KeepsCall(t) /\ Active(t) /\ TableKept /\ pc[t] = "enter" /\ pc'[t] = "recv"
        /\ SessionOf(t)' = SessionOf(t) /\ UNCHANGED connVars
    <3>1. /\ KeepsCall(t) /\ Active(t) /\ TableKept /\ pc[t] = "enter" /\ pc'[t] = "recv"
          /\ UNCHANGED connVars
      BY <1>4, <1>10, <2>1, EnterRecvEffect DEF EnterRecv, Active, tableVars
    <3> QED
      BY <3>1, TableKeptEffect DEF KeepsCall
  <2>3. GrantReported(t, s)
    BY <1>3, <2>2
  <2> QED
    BY <2>2, <2>3 DEF GrantReported, Awaits, serverVars, connVars
<1>11. CASE ReceiveReply(t)
  <2>1. SessionOf(t) = s /\ call[t].session = s /\ Active(t) /\ Alone(t)
        /\ GrantReported(t, s) /\ pc[t] = "recv" /\ call[t].op = "EstablishContext"
    BY <1>7, <1>11
    DEF ReceiveReply, SessionInvariant, SessionKept, Active, Alone, Setting, tableVars
  <2>2. ~Serving(s)
    BY <1>2, <1>11, <2>1, SoleUser DEF ReceiveReply
  <2>3. Head(toClient[s]).rv = "ok"
    BY <2>1, <2>2 DEF GrantReported, Serving
  <2>4. PICK m, a : Exchanged(t, "ok", m, a)
    BY <1>11, <2>1, <2>3, LibraryChecks DEF ReceiveReply
  <2>5. pc'[t] = "finish" /\ call'[t].rv = "ok"
    BY <1>7, <1>11, <2>4 DEF ReceiveReply, tableVars
  <2> QED
    BY <2>5 DEF GrantReported
<1>12. ASSUME ReceiveEnd(t) \/ ReceiveError(t) PROVE FALSE
  <2>1. ~Usable(call[t].session) /\ pc[t] = "recv"
    BY <1>12 DEF ReceiveEnd, ReceiveError, Usable
  <2>2. SessionOf(t) = s
    BY <1>7, <1>12 DEF ReceiveEnd, ReceiveError, ExchangeFails, tableVars
  <2> QED
    BY <1>2, <2>1, <2>2 DEF SessionInvariant, SessionKept
<1>13. ASSUME FinishEstablish(t) \/ FinishRelease(t) \/ FinishConnect(t) \/ Return(t)
       PROVE  FALSE
  <2>1. pc'[t] \in {"done", "idle"}
    BY <1>13, MoveEffect
    DEF FinishEstablish, FinishRelease, FinishConnect, Return, TypeOK, ClientTypeOK,
        ClientDomains
  <2> QED
    BY <2>1 DEF Setting, Active
<1>14. ASSUME CloseSession(t) PROVE FALSE
  <2>1. call'[t].op = "ReleaseContext"
    BY <1>1, <1>14 DEF CloseSession, Finishing
  <2> QED
    BY <2>1 DEF Setting
<1> QED
  BY <1>5, <1>6, <1>8, <1>9, <1>10, <1>11, <1>12, <1>13, <1>14
  DEF Continue, ReceiveInterrupted

\* A child has something open only after it has carried out the request.
LEMMA ServerKeepsEstablish ==
  ASSUME TypeOK, SlotInvariant, SessionInvariant, WaitersCounted, EstablishFromEmpty,
         NEW r \in Sessions, ServerStep(r)
  PROVE  EstablishFromEmpty'
<1>1. SUFFICES ASSUME NEW t \in Threads, NEW s \in Sessions, Setting(t, s)'
               PROVE  GrantReported(t, s)'
  BY DEF EstablishFromEmpty, Setting
<1>2. UNCHANGED <<pc, call, contextArray>>
  BY ServerLeavesOthers DEF clientVars, threadVars, tableVars
<1>3. /\ Active(t) /\ Alone(t) /\ SessionOf(t) = s
      /\ call[t].op = "EstablishContext"
      /\ Awaits(t, s)' <=> Awaits(t, s)
  BY <1>1, <1>2 DEF Setting, Active, Alone, SessionOf, Awaits
<1>4. Setting(t, s) => GrantReported(t, s)
  BY DEF EstablishFromEmpty, Setting
<1>5. CASE s # r
  <2>1. /\ Usable(s) /\ child'[s] = child[s] /\ request'[s] = request[s]
        /\ service'[s] = service[s] /\ toClient'[s] = toClient[s]
    BY <1>1, <1>5, ServerLeavesOthers DEF Setting
  <2>2. Setting(t, s)
    BY <1>1, <1>3, <2>1 DEF Setting
  <2> QED
    BY <1>2, <1>3, <1>4, <2>1, <2>2 DEF GrantReported
<1>6. ASSUME Exit(s) PROVE FALSE
  BY <1>1, <1>6 DEF Exit, Setting, Usable, TypeOK, ConnTypeOK
<1>7. CASE ReceiveRequest(s)
  <2>1. /\ Usable(s) /\ child[s] = "recv" /\ toServer[s] # << >>
        /\ Setting(t, s)
    BY <1>1, <1>3, <1>7 DEF ReceiveRequest, Setting, Usable
  <2>2. toClient[s] = << >>
    BY <1>3, <2>1, SoleUser
  <2> QED
    BY <1>2, <1>4, <2>1, <2>2 DEF GrantReported
<1>8. CASE Execute(s)
  <2>1. Usable(s) /\ child[s] = "execute" /\ child'[s] = "send"
    BY <1>1, <1>8
    DEF Execute, Setting, Usable, connVars, TypeOK, ServerTypeOK
  <2>2. Awaits(t, s) /\ toClient[s] = << >>
    BY <1>3, <2>1, SoleUser DEF Serving
  <2>3. service[s] = Empty
    BY <1>3, <1>4, <2>1, <2>2 DEF GrantReported, Setting, Awaits
  <2>4. request'[s] = Reply(request[s], TRUE)
    <3>1. service' # service
      BY <1>1, <2>3 DEF Setting
    <3> QED
      BY <1>8, <3>1 DEF Execute, TypeOK, ServerTypeOK
  <2>5. request'[s].rv = "ok"
    BY <2>4 DEF Reply, TypeOK, ServerTypeOK, Messages
  <2> QED
    BY <1>3, <2>1, <2>2, <2>5 DEF GrantReported
<1>9. CASE SendReply(s)
  <2>1. /\ Usable(s) /\ child[s] = "send" /\ Setting(t, s)
        /\ request[s] \in Messages
        /\ toClient'[s] = Append(toClient[s], request[s])
    BY <1>1, <1>3, <1>9
    DEF SendReply, Setting, Usable, TypeOK, ServerTypeOK, ConnTypeOK
  <2>2. Awaits(t, s) /\ toClient[s] = << >>
    BY <1>3, <2>1, SoleUser DEF Serving
  <2>3. request[s].rv = "ok"
    BY <1>4, <2>1, <2>2 DEF GrantReported, Awaits
  <2>4. toClient'[s] # << >> /\ Head(toClient'[s]) = request[s]
    BY <2>1, <2>2
  <2> QED
    BY <1>3, <2>2, <2>3, <2>4 DEF GrantReported
<1> QED
  BY <1>5, <1>6, <1>7, <1>8, <1>9
  DEF ServerStep, ChildStep, EndOfRequests, ReplyFails, ChildDies

----------------------------------------------------------------------------
(***************************************************************************)
(* ReleasedSlotEmpty and NothingLeftOpen.                                  *)
(***************************************************************************)
LEMMA ClientKeepsReleased ==
  ASSUME TypeOK, SlotInvariant, ReleasedSlotEmpty, NEW t \in Threads,
         Call(t) \/ Continue(t)
  PROVE  ReleasedSlotEmpty'
<1>1. ASSUME NEW u \in Threads \ {t}, pc'[u] = "unlock" PROVE SessionOf(u)' = NoSession
  BY <1>1, ClientLeavesOthers
  DEF OthersStay, OthersKeep, ReleasedSlotEmpty, Active
<1>2. CASE Die
  BY <1>2 DEF Die, ReleasedSlotEmpty, SessionOf, tableVars, threadVars
<1>3. CASE CloseSession(t) /\ SessionOf(t) # NoSession
  <2>1. call[t].ctx \in Slots /\ call' = call
    BY <1>3, TableTypes DEF CloseSession, Finishing, Active
  <2>2. SessionOf(t)' = NoSession
    BY <1>3, <2>1, SlotTypes DEF CloseSession, SessionOf, Contexts
  <2> QED
    BY <1>1, <2>2 DEF ReleasedSlotEmpty
<1>4. CASE pc'[t] # "unlock"
  BY <1>1, <1>4 DEF ReleasedSlotEmpty
<1>5. CASE Call(t)
  <2>1. ASSUME NEW to, NEW c, Begin(t, to, c) PROVE pc'[t] = to
    BY <2>1, BeginEffect
  <2> QED
    BY <1>2, <1>4, <1>5, <2>1
    DEF Call, NoEnvironment, TlsInitFails, NoContext, EstablishContext, BlockOnMutex,
        ContextCall, CardCall, CancelContext, Refuse
<1>6. CASE Continue(t)
  <2>1. ASSUME NEW to, pc' = [pc EXCEPT ![t] = to] PROVE pc'[t] = to
    BY <2>1 DEF TypeOK, ClientTypeOK, ClientDomains
  <2>2. OpenConnection(t) => pc'[t] = "send"
    BY DEF OpenConnection, threadVars
  <2> QED
    BY <1>2, <1>3, <1>4, <1>6, <2>1, <2>2
    DEF Continue, CreateCard, NotConnected, Send, SendFails, EnterRecv, ReceiveReply,
        ReceiveEnd, ReceiveError, ReceiveInterrupted, ExchangeFails, Exchanged,
        AfterExchange, FinishEstablish, CloseSession, FinishRelease, FinishConnect, Return
<1> QED
  BY <1>5, <1>6

LEMMA ClientLeavesNothing ==
  ASSUME TypeOK, SlotInvariant, SessionInvariant, UnopenedEmpty, EstablishFromEmpty,
         ReleasedSlotEmpty, NothingLeftOpen, NEW t \in Threads, Call(t) \/ Continue(t),
         UNCHANGED serverVars
  PROVE  NothingLeftOpen'
<1>1. SUFFICES ASSUME NEW s \in Sessions, Usable(s)', service[s] # Empty
               PROVE  InUse(s)'
  BY DEF NothingLeftOpen, serverVars
<1>2. Usable(s) /\ s # NoSession
  BY <1>1, ClientLeavesSessions, TableTypes DEF UnopenedEmpty
<1>3. PICK i \in Slots : contextArray[i].used /\ contextArray[i].session = s
  BY <1>1, <1>2 DEF NothingLeftOpen, InUse
<1>4. SUFFICES contextArray'[i] = contextArray[i]
               \/ (contextArray'[i].used /\ contextArray'[i].session = s)
  BY <1>3 DEF InUse
<1>5. CASE EstablishContext(t)
  BY <1>3, <1>5, SlotTypes DEF EstablishContext, Contexts
<1>6. CASE OpenConnection(t)
  <2>1. i # call[t].ctx
    BY <1>2, <1>3, <1>6 DEF OpenConnection, SessionOf
  <2> QED
    BY <1>6, <2>1, SlotTypes DEF OpenConnection
<1>7. CASE FinishEstablish(t)
  <2>1. CASE i = call[t].ctx
    <3>1. GrantReported(t, s)
      BY <1>1, <1>2, <1>3, <1>7, <2>1
      DEF FinishEstablish, Finishing, EstablishFromEmpty, Active, SessionOf
    <3>2. call[t].rv = "ok"
      BY <1>7, <3>1 DEF FinishEstablish, Finishing, GrantReported, Awaits
    <3> QED
      BY <1>3, <1>7, <2>1, <3>2, SlotTypes DEF FinishEstablish, Contexts
  <2>2. CASE i # call[t].ctx
    BY <1>7, <2>2, SlotTypes DEF FinishEstablish
  <2> QED
    BY <2>1, <2>2
<1>8. CASE CloseSession(t) /\ SessionOf(t) # NoSession
  <2>1. i # call[t].ctx
    BY <1>1, <1>3, <1>8, TableTypes DEF CloseSession, SessionOf, Usable
  <2> QED
    BY <1>8, <2>1, SlotTypes DEF CloseSession
<1>9. CASE FinishRelease(t)
  <2>1. i # call[t].ctx
    BY <1>2, <1>3, <1>9 DEF FinishRelease, ReleasedSlotEmpty, SessionOf
  <2> QED
    BY <1>9, <2>1, SlotTypes DEF FinishRelease
<1> QED
  BY <1>5, <1>6, <1>7, <1>8, <1>9
  DEF Call, NoEnvironment, TlsInitFails, NoContext, BlockOnMutex, ContextCall, CardCall,
      CancelContext, Continue, CreateCard, NotConnected, Send, SendFails, EnterRecv,
      ReceiveReply, ReceiveEnd, ReceiveError, ReceiveInterrupted, CloseSession,
      FinishConnect, Return, Die, tableVars

\* Who waits for the service to carry out its request has a context in use.
LEMMA ServerLeavesNothing ==
  ASSUME TypeOK, SlotInvariant, WaitersCounted, NothingLeftOpen, NEW r \in Sessions,
         ServerStep(r)
  PROVE  NothingLeftOpen'
<1>1. SUFFICES ASSUME NEW s \in Sessions, Usable(s)', service'[s] # Empty
               PROVE  InUse(s)'
  BY DEF NothingLeftOpen
<1>2. InUse(s)' <=> InUse(s)
  BY ServerLeavesOthers DEF clientVars, tableVars, InUse
<1>3. ASSUME Usable(s), service[s] # Empty PROVE InUse(s)
  BY <1>3 DEF NothingLeftOpen
<1>4. CASE s # r
  BY <1>1, <1>2, <1>3, <1>4, ServerLeavesOthers
<1>5. ASSUME Exit(s) PROVE FALSE
  BY <1>1, <1>5 DEF Exit, Usable, TypeOK, ConnTypeOK
<1>6. CASE Execute(s)
  <2>1. Usable(s) /\ Serving(s)
    BY <1>1, <1>6 DEF Execute, Usable, Serving, connVars
  <2>2. Cardinality(Waiting(s)) = UnderWay(s) /\ UnderWay(s) >= 1 /\ UnderWay(s) \in Nat
    BY <2>1, UnderWayBounds DEF WaitersCounted
  <2>3. PICK t \in Threads : t \in Waiting(s)
    BY <2>2, FS_EmptySet DEF Waiting
  <2> QED
    BY <1>2, <2>3 DEF Waiting, SlotInvariant, SlotsClaimed, Active, SessionOf, InUse
<1>7. CASE ReceiveRequest(s) \/ SendReply(s)
  BY <1>1, <1>2, <1>3, <1>7 DEF ReceiveRequest, SendReply, Usable
<1> QED
  BY <1>4, <1>5, <1>6, <1>7
  DEF ServerStep, ChildStep, EndOfRequests, ReplyFails, ChildDies

LEMMA SharingInvariantInductive ==
  ASSUME TypeOK, ConnectionInvariant, SharingInvariant, "interrupt" \notin Faults,
         [Next]_vars
  PROVE  SharingInvariant'
<1> USE DEF ConnectionInvariant, SharingInvariant
<1>1. ASSUME NEW t \in Threads, ClientStep(t) PROVE SharingInvariant'
  <2>1. (Call(t) \/ Continue(t)) /\ UNCHANGED serverVars
    BY <1>1 DEF ClientStep
  <2>2. WaitersCounted'
    BY <2>1, CallKeepsCount, ContinueKeepsCount
  <2>3. ASSUME NEW u \in Threads, NEW s \in Sessions, Setting(u, s)'
        PROVE  GrantReported(u, s)'
    BY <2>1, <2>3, OthersGranted, CallerGranted, GoerGranted
  <2>4. EstablishFromEmpty'
    BY <2>3 DEF EstablishFromEmpty, Setting
  <2> QED
    BY <2>1, <2>2, <2>4, ClientKeepsReleased, ClientLeavesNothing
<1>2. ASSUME NEW s \in Sessions, ServerStep(s) PROVE SharingInvariant'
  <2>1. ReleasedSlotEmpty'
    BY <1>2, ServerLeavesOthers
    DEF clientVars, tableVars, threadVars, ReleasedSlotEmpty, SessionOf
  <2> QED
    BY <1>2, <2>1, ServerKeepsCount, ServerKeepsEstablish, ServerLeavesNothing
<1>3. ASSUME NEW s \in Sessions, NetworkStep(s) PROVE SharingInvariant'
  <2>1. UNCHANGED <<pc, call, contextArray, child, request, service>>
    BY <1>3 DEF NetworkStep, clientVars, tableVars, threadVars, serverVars
  <2>2. \A r \in Sessions : Usable(r)' => Usable(r) /\ toClient'[r] = toClient[r]
    BY <1>3 DEF NetworkStep, NetworkReset, Break, Usable, TypeOK, ConnTypeOK
  <2>3. EstablishFromEmpty'
    BY <2>1, <2>2 DEF EstablishFromEmpty, GrantReported, Active, Awaits, SessionOf
  <2>4. ReleasedSlotEmpty' /\ NothingLeftOpen'
    BY <2>1, <2>2 DEF ReleasedSlotEmpty, NothingLeftOpen, SessionOf, InUse
  <2> QED
    BY <1>3, <2>3, <2>4, NetworkKeepsCount
<1>4. CASE UNCHANGED vars
  <2>1. UNCHANGED <<pc, call, contextArray, child, request, service>> /\ UNCHANGED connVars
    BY <1>4 DEF vars, clientVars, tableVars, threadVars, serverVars
  <2>2. WaitersCounted'
    BY <2>1 DEF WaitersCounted, Usable, Waiting, UnderWay, SessionOf, connVars
  <2>3. EstablishFromEmpty'
    BY <2>1
    DEF EstablishFromEmpty, GrantReported, Active, Awaits, SessionOf, Usable, connVars
  <2>4. ReleasedSlotEmpty' /\ NothingLeftOpen'
    BY <2>1 DEF ReleasedSlotEmpty, NothingLeftOpen, SessionOf, InUse, Usable, connVars
  <2> QED
    BY <2>2, <2>3, <2>4
<1> QED
  BY <1>1, <1>2, <1>3, <1>4 DEF Next

(***************************************************************************)
(* Requests, replies and those who wait come and go together, and a slot   *)
(* is set up and released by one thread that knows the outcome: for        *)
(* threads that may share contexts and cards, whatever fails, as long as   *)
(* no recv() is interrupted.                                               *)
(***************************************************************************)
THEOREM SharingInvariantCorrect ==
  ASSUME Discipline # "any", "interrupt" \notin Faults
  PROVE  Spec => []SharingInvariant
<1>1. Init => SharingInvariant
  <2> SUFFICES ASSUME Init PROVE SharingInvariant
    OBVIOUS
  <2> USE DEF Init, ClientInit, ServerInit, ConnInit
  <2>1. WaitersCounted
    BY DEF WaitersCounted, Usable
  <2>2. EstablishFromEmpty
    BY DEF EstablishFromEmpty, Usable
  <2>3. ReleasedSlotEmpty /\ NothingLeftOpen
    BY DEF ReleasedSlotEmpty, NothingLeftOpen, Usable
  <2> QED
    BY <2>1, <2>2, <2>3 DEF SharingInvariant
<1>2. TypeOK /\ ConnectionInvariant /\ SharingInvariant /\ [Next]_vars =>
        SharingInvariant'
  BY SharingInvariantInductive
<1>3. Spec => []ConnectionInvariant
  BY ConnectionInvariantCorrect
<1> QED
  BY <1>1, <1>2, <1>3, TypeCorrect, PTL DEF Spec

(***************************************************************************)
(* On every working connection there is exactly one reply to come for each *)
(* thread that waits.                                                      *)
(***************************************************************************)
THEOREM OneReplyCorrect ==
  ASSUME Discipline # "any", "interrupt" \notin Faults
  PROVE  Spec => []OneReplyPerWaiter
<1>1. SharingInvariant => OneReplyPerWaiter
  BY DEF SharingInvariant, WaitersCounted, OneReplyPerWaiter
<1>2. Spec => []SharingInvariant
  BY SharingInvariantCorrect
<1> QED
  BY <1>1, <1>2, PTL

(***************************************************************************)
(* What the service has open behind a working connection belongs to a      *)
(* context in use: SCardEstablishContext reuses no session with something  *)
(* open.                                                                   *)
(***************************************************************************)
THEOREM NothingLeftOpenCorrect ==
  ASSUME Discipline # "any", "interrupt" \notin Faults
  PROVE  Spec => []NothingLeftOpen
<1>1. SharingInvariant => NothingLeftOpen
  BY DEF SharingInvariant
<1>2. Spec => []SharingInvariant
  BY SharingInvariantCorrect
<1> QED
  BY <1>1, <1>2, PTL
=============================================================================
