----------------------------- MODULE ReplyProofs -----------------------------
(***************************************************************************)
(* ReplyInvariant is inductive, for an application whose threads use the   *)
(* handles they hold and whose recv() is not interrupted. OnceInvariant,   *)
(* in the second part, is inductive for every application.                 *)
(***************************************************************************)
EXTENDS ProxyProofs

Disciplined == Discipline = "own" /\ "interrupt" \notin Faults

\* What the assignments of a step leave of the threads.
OthersKeep(t) ==
  \A u \in Threads \ {t} : pc'[u] = pc[u] /\ call'[u] = call[u]

KeepsCall(t) ==
  /\ OthersKeep(t)
  /\ call'[t].id = call[t].id
  /\ call'[t].op = call[t].op
  /\ call'[t].ctx = call[t].ctx

LEMMA BeginEffect ==
  ASSUME TypeOK, NEW t \in Threads, NEW to, NEW c, Begin(t, to, c)
  PROVE  OthersKeep(t) /\ pc'[t] = to /\ call'[t] = c /\ nextCall' = nextCall + 1
BY DEF Begin, OthersKeep, TypeOK, ClientTypeOK, ClientDomains

LEMMA RefuseEffect ==
  ASSUME TypeOK, NEW t \in Threads, NEW op, NEW rv, Refuse(t, op, rv)
  PROVE  /\ OthersKeep(t)
         /\ pc'[t] = "done"
         /\ call'[t].id = nextCall
         /\ call'[t].answer = NoCall
         /\ nextCall' = nextCall + 1
BY BeginEffect DEF Refuse, NewCall

LEMMA MoveEffect ==
  ASSUME TypeOK, NEW t \in Threads, NEW to, pc' = [pc EXCEPT ![t] = to], call' = call
  PROVE  KeepsCall(t) /\ pc'[t] = to /\ call'[t] = call[t]
BY DEF KeepsCall, OthersKeep, TypeOK, ClientTypeOK, ClientDomains

LEMMA ExchangedEffect ==
  ASSUME TypeOK, NEW t \in Threads, NEW rv, NEW m, NEW a, Exchanged(t, rv, m, a)
  PROVE  /\ KeepsCall(t)
         /\ pc'[t] = AfterExchange(call[t].op)
         /\ call'[t].answer = a
<1>1. call[t] \in Calls
  BY DEF TypeOK, ClientTypeOK, ClientDomains
<1>2. call' = [call EXCEPT ![t] = [call[t] EXCEPT !.rv = rv, !.msg = m, !.answer = a]]
  BY DEF Exchanged
<1>3. call'[t] = [call[t] EXCEPT !.rv = rv, !.msg = m, !.answer = a]
  BY <1>2 DEF TypeOK, ClientTypeOK, ClientDomains
<1>4. OthersKeep(t) /\ pc'[t] = AfterExchange(call[t].op)
  BY <1>2 DEF OthersKeep, Exchanged, TypeOK, ClientTypeOK, ClientDomains
<1> QED
  BY <1>1, <1>3, <1>4 DEF KeepsCall, Calls

LEMMA CreateCardEffect ==
  ASSUME TypeOK, NEW t \in Threads, CreateCard(t)
  PROVE  /\ KeepsCall(t)
         /\ pc'[t] \in {"send", "done"}
         /\ call'[t].msg = call[t].msg
         /\ call'[t].answer = call[t].answer
<1>1. call[t] \in Calls
  BY DEF TypeOK, ClientTypeOK, ClientDomains
<1>2. \/ call' = [call EXCEPT ![t] = [call[t] EXCEPT !.rv = "internal"]]
      \/ \E k \in Slots : call' = [call EXCEPT ![t] = [call[t] EXCEPT !.card = k]]
  BY DEF CreateCard
<1>3. \/ call'[t] = [call[t] EXCEPT !.rv = "internal"]
      \/ \E k \in Slots : call'[t] = [call[t] EXCEPT !.card = k]
  BY <1>2 DEF TypeOK, ClientTypeOK, ClientDomains
<1>4. OthersKeep(t) /\ pc'[t] \in {"send", "done"}
  BY <1>2 DEF OthersKeep, CreateCard, TypeOK, ClientTypeOK, ClientDomains
<1> QED
  BY <1>1, <1>3, <1>4 DEF KeepsCall, Calls

LEMMA EnterRecvEffect ==
  ASSUME TypeOK, NEW t \in Threads, EnterRecv(t), SessionOf(t) # NoSession
  PROVE  /\ KeepsCall(t)
         /\ pc'[t] = "recv"
         /\ call'[t].msg = call[t].msg
         /\ call'[t].answer = call[t].answer
         /\ call'[t].session = SessionOf(t)
         /\ UNCHANGED <<alive, tableVars, nextCall, ownerVars, connVars>>
<1>1. call[t] \in Calls
  BY DEF TypeOK, ClientTypeOK, ClientDomains
<1>2. call' = [call EXCEPT ![t] = [call[t] EXCEPT !.session = SessionOf(t)]]
  BY DEF EnterRecv
<1>3. call'[t] = [call[t] EXCEPT !.session = SessionOf(t)]
  BY <1>2 DEF TypeOK, ClientTypeOK, ClientDomains
<1>4. OthersKeep(t) /\ pc'[t] = "recv"
  BY <1>2 DEF OthersKeep, EnterRecv, TypeOK, ClientTypeOK, ClientDomains
<1> QED
  BY <1>1, <1>3, <1>4 DEF KeepsCall, Calls, EnterRecv

----------------------------------------------------------------------------
\* The process ends: the tables and the calls stay as they are.
LEMMA DieKeeps ==
  ASSUME TypeOK, Die
  PROVE  /\ SlotInvariant => SlotInvariant'
         /\ SessionInvariant => SessionInvariant'
         /\ MessageInvariant /\ UNCHANGED serverVars => MessageInvariant'
         /\ ReplyToItsCall => ReplyToItsCall'
<1> USE DEF Die, tableVars, threadVars, ownerVars
<1>1. SlotInvariant => SlotInvariant'
  BY DEF SlotInvariant, SlotsClaimed, SlotsExclusive, OwnedSlotsUsed, Active, Alone
<1>2. SessionInvariant => SessionInvariant'
  <2>1. \A s \in Sessions : clientEnd'[s] = "none" <=> clientEnd[s] = "none"
    OBVIOUS
  <2>2. /\ \A i \in Slots : contextArray[i].session # NoSession =>
                             contextArray[i].session \in Sessions
        /\ \A u \in Threads : pc[u] = "send" => call[u].id \in Sessions
    BY DEF TypeOK, ClientTypeOK, ClientDomains, CallsPointOK, Contexts, Sessions
  <2> QED
    BY <2>1, <2>2 DEF SessionInvariant, CallsDistinct, SessionsFresh, SessionsApart,
                      SessionKept, SessionOf
<1>3. MessageInvariant /\ UNCHANGED serverVars => MessageInvariant'
  BY DEF MessageInvariant, RequestAwaited, ServiceAwaited, ReplyAwaited, EndsAgree,
         Awaits, SessionOf, Serving, serverVars
<1>4. ReplyToItsCall => ReplyToItsCall'
  BY DEF ReplyToItsCall
<1> QED
  BY <1>1, <1>2, <1>3, <1>4

\* The steps that neither start a call nor change who holds or uses a slot.
LEMMA SlotsKept ==
  ASSUME SlotInvariant, NEW t \in Threads, OthersKeep(t),
         Active(t)' => /\ Active(t)
                       /\ call'[t].ctx = call[t].ctx
                       /\ call'[t].op = call[t].op
                       /\ pc'[t] = "unlock" => call[t].op = "ReleaseContext"
                       /\ pc'[t] = "card" => call[t].op = "Connect",
         \A i \in Slots : contextArray'[i].used = contextArray[i].used,
         contextOwner' = contextOwner
  PROVE  SlotInvariant'
<1> USE DEF SlotInvariant, OthersKeep
<1>1. \A u \in Threads : Active(u)' => /\ Active(u)
                                       /\ call'[u].ctx = call[u].ctx
                                       /\ call'[u].op = call[u].op
  BY DEF Active
<1>2. SlotsClaimed'
  BY <1>1 DEF SlotsClaimed, Active
<1>3. SlotsExclusive'
  BY <1>1 DEF SlotsExclusive, Alone
<1>4. OwnedSlotsUsed'
  BY DEF OwnedSlotsUsed
<1> QED
  BY <1>2, <1>3, <1>4

\* The steps that end the use of a slot.
LEMMA SlotsLeft ==
  ASSUME TypeOK, SlotInvariant, NEW t \in Threads, OthersKeep(t), Active(t), ~Active(t)',
         Alone(t),
         \A i \in Slots \ {call[t].ctx} : /\ contextArray'[i].used = contextArray[i].used
                                          /\ contextOwner'[i] = contextOwner[i],
         contextOwner'[call[t].ctx] # None => contextArray'[call[t].ctx].used
  PROVE  SlotInvariant'
<1> USE DEF SlotInvariant, OthersKeep
<1>1. \A u \in Threads : Active(u)' => /\ Active(u)
                                       /\ u # t
                                       /\ pc'[u] = pc[u]
                                       /\ call'[u] = call[u]
                                       /\ call[u].ctx \in Slots \ {call[t].ctx}
  BY DEF Active, SlotsExclusive, SlotsClaimed
<1>2. SlotsClaimed'
  BY <1>1 DEF SlotsClaimed
<1>3. SlotsExclusive'
  BY <1>1 DEF SlotsExclusive, Alone
<1>4. OwnedSlotsUsed'
  BY DEF OwnedSlotsUsed
<1> QED
  BY <1>2, <1>3, <1>4

LEMMA SlotTypes ==
  ASSUME TypeOK
  PROVE  /\ \A t \in Threads : t # None
         /\ contextOwner \in [Slots -> Threads \cup {None}]
         /\ contextArray \in [Slots -> Contexts]
         /\ DOMAIN contextArray = Slots
BY ClientAssumption DEF TypeOK, ClientTypeOK, ClientDomains

\* A handle is held by somebody, and by t alone if threads do not share.
LEMMA HeldOwner ==
  ASSUME Discipline # "any", NEW t \in Threads, NEW o, Held(o, t)
  PROVE  o # None /\ (Discipline = "own" => o = t)
BY ClientAssumption DEF Held

\* A call on a context the thread holds; to release it, nobody else may use it.
LEMMA SlotTaken ==
  ASSUME TypeOK, SlotInvariant, Discipline # "any", NEW t \in Threads, OthersKeep(t),
         pc[t] = "idle",
         NEW op \in AllOps \ {"EstablishContext"}, NEW i \in Slots,
         Held(contextOwner[i], t),
         op = "ReleaseContext" /\ Discipline = "shared" =>
           \A u \in Threads : call[u].ctx # i,
         pc'[t] = IF op = "Connect" THEN "card" ELSE "send",
         call'[t].op = op, call'[t].ctx = i,
         contextArray' = contextArray,
         contextOwner' = IF op = "ReleaseContext"
                           THEN [contextOwner EXCEPT ![i] = None]
                           ELSE contextOwner
  PROVE  SlotInvariant'
<1> USE DEF SlotInvariant, OthersKeep
<1>0. /\ contextOwner[i] # None /\ contextOwner \in [Slots -> Threads \cup {None}]
      /\ Discipline = "own" => contextOwner[i] = t
  BY HeldOwner, SlotTypes
<1>1. \A u \in Threads \ {t} : Active(u)' => /\ Active(u)
                                             /\ pc'[u] = pc[u]
                                             /\ call'[u] = call[u]
                                             /\ call[u].ctx \in Slots
  BY DEF Active, SlotsClaimed
<1>2. \A u \in Threads \ {t} : Active(u)' /\ (Discipline = "own" \/ op = "ReleaseContext"
                                             \/ Alone(u))
                               => call[u].ctx # i
  <2>1. ASSUME NEW u \in Threads \ {t}, Active(u)', Discipline = "own"
        PROVE  call[u].ctx # i
    <3>1. call[u].op \notin {"EstablishContext", "ReleaseContext"} =>
            contextOwner[call[u].ctx] = u
      BY <1>1, <2>1, HeldOwner DEF SlotsClaimed
    <3> QED
      BY <1>0, <1>1, <2>1, <3>1 DEF SlotsClaimed
  <2>2. ASSUME NEW u \in Threads \ {t}, Active(u)',
               call[u].op \in {"EstablishContext", "ReleaseContext"}
        PROVE  call[u].ctx # i
    BY <1>0, <1>1, <2>2 DEF SlotsClaimed
  <2>3. Discipline \in {"own", "shared"}
    BY ClientAssumption
  <2> QED
    BY <2>1, <2>2, <2>3 DEF Alone
<1>3. contextArray[i].used
  BY <1>0 DEF OwnedSlotsUsed
<1>4. SlotsClaimed'
  <2>1. \A j \in Slots : j # i \/ op # "ReleaseContext" =>
                           contextOwner'[j] = contextOwner[j]
    BY <1>0
  <2>2. ASSUME NEW u \in Threads \ {t}, Active(u)'
        PROVE  /\ call'[u].ctx \in Slots
               /\ contextArray'[call'[u].ctx].used
               /\ IF call'[u].op \in {"EstablishContext", "ReleaseContext"}
                    THEN contextOwner'[call'[u].ctx] = None
                    ELSE Held(contextOwner'[call'[u].ctx], u)
               /\ pc'[u] = "unlock" => call'[u].op = "ReleaseContext"
               /\ pc'[u] = "card" => call'[u].op = "Connect"
    BY <1>1, <1>2, <2>1, <2>2 DEF SlotsClaimed
  <2>3. contextOwner'[i] = IF op = "ReleaseContext" THEN None ELSE contextOwner[i]
    BY <1>0
  <2> QED
    BY <1>3, <2>2, <2>3 DEF SlotsClaimed, Active
<1>5. SlotsExclusive'
  <2>1. ASSUME NEW u \in Threads, NEW v \in Threads, u # v, Active(u)', Active(v)',
               Alone(u)'
        PROVE  call'[u].ctx # call'[v].ctx
    <3>1. CASE u = t
      BY <1>1, <1>2, <2>1, <3>1 DEF Alone
    <3>2. CASE v = t
      BY <1>1, <1>2, <2>1, <3>2 DEF Alone
    <3>3. CASE u # t /\ v # t
      BY <1>1, <2>1, <3>3 DEF Alone, SlotsExclusive
    <3> QED
      BY <3>1, <3>2, <3>3
  <2> QED
    BY <2>1 DEF SlotsExclusive
<1>6. OwnedSlotsUsed'
  BY <1>0, <1>3 DEF OwnedSlotsUsed
<1> QED
  BY <1>4, <1>5, <1>6

LEMMA CallKeepsSlots ==
  ASSUME TypeOK, SlotInvariant, Discipline # "any", NEW t \in Threads, Call(t)
  PROVE  SlotInvariant'
<1>0. ASSUME NEW op, NEW rv, Refuse(t, op, rv), UNCHANGED <<contextArray, contextOwner>>
      PROVE  SlotInvariant'
  BY <1>0, RefuseEffect, SlotsKept DEF Active
<1>1. CASE TlsInitFails(t) \/ NoContext(t)
  BY <1>0, <1>1 DEF TlsInitFails, NoContext, ownerVars
<1>d. CASE NoEnvironment(t)
  BY <1>d, DieKeeps DEF NoEnvironment
<1>2. CASE EstablishContext(t)
  <2>1. PICK i \in Slots :
          /\ First(i, FreeContexts)
          /\ contextArray' = [contextArray EXCEPT ![i].used = TRUE]
          /\ Begin(t, "send", NewCall(nextCall, "EstablishContext", i, NoSlot, NoCall))
    BY <1>2 DEF EstablishContext
  <2>2. /\ OthersKeep(t)
        /\ pc'[t] = "send"
        /\ call'[t].op = "EstablishContext"
        /\ call'[t].ctx = i
    BY <2>1, BeginEffect DEF NewCall
  <2>3. /\ contextOwner' = contextOwner
        /\ ~contextArray[i].used
        /\ contextArray'[i].used
        /\ \A j \in Slots \ {i} : contextArray'[j] = contextArray[j]
    BY <1>2, <2>1, SlotTypes DEF EstablishContext, ownerVars, First, FreeContexts, Contexts
  <2>4. contextOwner[i] = None
    BY <2>3 DEF SlotInvariant, OwnedSlotsUsed
  <2>5. \A u \in Threads \ {t} : Active(u)' => /\ Active(u)
                                               /\ pc'[u] = pc[u]
                                               /\ call'[u] = call[u]
                                               /\ call[u].ctx \in Slots \ {i}
    BY <2>2, <2>3 DEF Active, OthersKeep, SlotInvariant, SlotsClaimed
  <2>6. SlotsClaimed'
    BY <2>2, <2>3, <2>4, <2>5 DEF SlotInvariant, SlotsClaimed
  <2>7. SlotsExclusive'
    BY <2>2, <2>5 DEF SlotInvariant, SlotsExclusive, Alone
  <2>8. OwnedSlotsUsed'
    BY <2>3 DEF SlotInvariant, OwnedSlotsUsed
  <2> QED
    BY <2>6, <2>7, <2>8 DEF SlotInvariant
<1>3. ASSUME NEW op \in AllOps, BlockOnMutex(t, op) PROVE SlotInvariant'
  BY <1>3, BeginEffect, SlotsKept DEF BlockOnMutex, Active, tableVars, ownerVars
<1>4. ASSUME NEW op \in AllOps, NEW i \in Slots, ContextCall(t, op, i)
      PROVE  SlotInvariant'
  <2>1. /\ Held(contextOwner[i], t)
        /\ op = "ReleaseContext" /\ Discipline = "shared" =>
             \A u \in Threads : call[u].ctx # i
        /\ op # "EstablishContext"
        /\ contextArray' = contextArray
        /\ pc[t] = "idle"
    BY <1>4 DEF ContextCall, MayCall, MayUseContext, ContextOps, tableVars
  <2>2. contextArray[i].used
    BY <2>1, HeldOwner DEF SlotInvariant, OwnedSlotsUsed
  <2>3. CASE \E rv \in BadArguments(op) : Refuse(t, op, rv)
    <3>1. op # "ReleaseContext"
      BY <2>3, LibraryChecks
    <3> QED
      BY <1>0, <1>4, <2>1, <2>3, <3>1 DEF ContextCall
  <2>4. CASE Begin(t, IF op = "Connect" THEN "card" ELSE "send",
                   NewCall(nextCall, op, i, NoSlot, contextArray[i].pcsc))
    <3>1. /\ OthersKeep(t)
          /\ pc'[t] = IF op = "Connect" THEN "card" ELSE "send"
          /\ call'[t].op = op
          /\ call'[t].ctx = i
      BY <2>4, BeginEffect DEF NewCall
    <3> QED
      BY <1>4, <2>1, <3>1, SlotTaken DEF ContextCall
  <2> QED
    BY <1>4, <2>2, <2>3, <2>4 DEF ContextCall
<1>5. ASSUME NEW op \in AllOps, NEW k \in Slots, CardCall(t, op, k)
      PROVE  SlotInvariant'
  <2>1. /\ UNCHANGED <<contextArray, contextOwner>>
        /\ pc[t] = "idle"
        /\ op \notin {"EstablishContext", "ReleaseContext", "Connect"}
        /\ cardArray[k].ctx \in Slots
        /\ Held(contextOwner[cardArray[k].ctx], t)
    BY <1>5 DEF CardCall, MayCall, MayUseCard, CardOps, tableVars
  <2>2. CASE \E rv : Refuse(t, op, rv)
    BY <1>0, <2>1, <2>2
  <2>3. CASE Begin(t, "send", NewCall(nextCall, op, cardArray[k].ctx, k,
                   IF op = "Cancel" THEN NoCall ELSE cardArray[k].pcsc))
    <3>1. /\ OthersKeep(t)
          /\ pc'[t] = "send"
          /\ call'[t].op = op
          /\ call'[t].ctx = cardArray[k].ctx
      BY <2>3, BeginEffect DEF NewCall
    <3> QED
      BY <2>1, <3>1, SlotTaken
  <2> QED
    BY <1>5, <2>2, <2>3 DEF CardCall
<1>6. ASSUME NEW i \in Slots, CancelContext(t, i) PROVE SlotInvariant'
  BY <1>0, <1>6 DEF CancelContext, tableVars, ownerVars
<1> QED
  BY <1>d, <1>1, <1>2, <1>3, <1>4, <1>5, <1>6 DEF Call

LEMMA ContinueKeepsSlots ==
  ASSUME TypeOK, SlotInvariant, NEW t \in Threads, Continue(t)
  PROVE  SlotInvariant'
<1>0. ASSUME NEW rv, NEW m, NEW a, Exchanged(t, rv, m, a), pc[t] \in {"send", "recv"},
             UNCHANGED <<contextArray, contextOwner>>
      PROVE  SlotInvariant'
  <2>1. /\ OthersKeep(t)
        /\ pc'[t] \in {"finish", "done"}
        /\ call'[t].op = call[t].op
        /\ call'[t].ctx = call[t].ctx
    BY <1>0, ExchangedEffect DEF KeepsCall, AfterExchange
  <2> QED
    BY <1>0, <2>1, SlotsKept DEF Active
<1>1. CASE Die
  BY <1>1, DieKeeps
<1>2. CASE CreateCard(t)
  BY <1>2, CreateCardEffect, SlotsKept DEF CreateCard, KeepsCall, Active, ownerVars
<1>3. CASE NotConnected(t) \/ ReceiveReply(t) \/ ReceiveEnd(t) \/ ReceiveError(t)
             \/ ReceiveInterrupted(t)
  BY <1>0, <1>3
  DEF NotConnected, ReceiveReply, ReceiveEnd, ReceiveError, ReceiveInterrupted,
      ExchangeFails, tableVars, ownerVars
<1>4. CASE SendFails(t)
  BY <1>0, <1>1, <1>4 DEF SendFails, ExchangeFails, tableVars, ownerVars
<1>5. CASE OpenConnection(t)
  <2>1. \A i \in Slots : contextArray'[i].used = contextArray[i].used
    BY <1>5, SlotTypes DEF OpenConnection, Contexts
  <2> QED
    BY <1>5, <2>1, SlotsKept
    DEF OpenConnection, threadVars, ownerVars, OthersKeep, Active
<1>6. CASE Send(t)
  BY <1>6, MoveEffect, SlotsKept DEF Send, KeepsCall, Active, tableVars, ownerVars
<1>7. CASE EnterRecv(t)
  BY <1>1, <1>7, EnterRecvEffect, SlotsKept
  DEF EnterRecv, KeepsCall, Active, tableVars, ownerVars
<1>8. CASE FinishEstablish(t)
  <2> DEFINE i == call[t].ctx
  <2>1. /\ OthersKeep(t) /\ pc'[t] = "done" /\ pc[t] = "finish"
    BY <1>8, MoveEffect DEF FinishEstablish, Finishing, KeepsCall
  <2>2. Active(t) /\ ~Active(t)' /\ i \in Slots
    BY <2>1 DEF Active, SlotInvariant, SlotsClaimed
  <2>3. contextArray[i].used /\ contextOwner[i] = None
    BY <1>8, <2>2 DEF SlotInvariant, SlotsClaimed, FinishEstablish, Finishing
  <2>4. \A j \in Slots \ {i} : /\ contextArray'[j].used = contextArray[j].used
                               /\ contextOwner'[j] = contextOwner[j]
    BY <1>8, SlotTypes DEF FinishEstablish
  <2>5. contextOwner'[i] # None => contextArray'[i].used
    BY <1>8, <2>2, <2>3, SlotTypes DEF FinishEstablish, Contexts
  <2>6. Alone(t)
    BY <1>8 DEF FinishEstablish, Finishing, Alone
  <2> QED
    BY <2>1, <2>2, <2>4, <2>5, <2>6, SlotsLeft
<1>9. CASE CloseSession(t)
  <2>1. CASE SessionOf(t) # NoSession
    <3>1. \A i \in Slots : contextArray'[i].used = contextArray[i].used
      BY <1>9, <2>1, SlotTypes DEF CloseSession, Contexts
    <3>2. /\ OthersKeep(t) /\ call'[t] = call[t]
          /\ pc[t] = "finish" /\ pc'[t] = "unlock" /\ call[t].op = "ReleaseContext"
      BY <1>9, <2>1, MoveEffect DEF CloseSession, Finishing, KeepsCall
    <3> QED
      BY <1>9, <2>1, <3>1, <3>2, SlotsKept DEF CloseSession, Active, ownerVars
  <2> QED
    BY <1>1, <1>9, <2>1 DEF CloseSession
<1>10. CASE FinishRelease(t)
  <2> DEFINE i == call[t].ctx
  <2>1. /\ OthersKeep(t) /\ pc'[t] = "done" /\ pc[t] = "unlock"
    BY <1>10, MoveEffect DEF FinishRelease, KeepsCall
  <2>2. Active(t) /\ ~Active(t)' /\ i \in Slots /\ contextOwner[i] = None /\ Alone(t)
    BY <2>1 DEF Active, SlotInvariant, SlotsClaimed, Alone
  <2>3. \A j \in Slots \ {i} : contextArray'[j].used = contextArray[j].used
    BY <1>10, SlotTypes DEF FinishRelease
  <2> QED
    BY <1>10, <2>1, <2>2, <2>3, SlotsLeft DEF FinishRelease, ownerVars
<1>11. CASE FinishConnect(t)
  BY <1>11, MoveEffect, SlotsKept DEF FinishConnect, Finishing, KeepsCall, Active
<1>12. CASE Return(t)
  <2>1. OthersKeep(t) /\ pc'[t] = "idle"
    BY <1>12 DEF Return, OthersKeep, TypeOK, ClientTypeOK, ClientDomains
  <2> QED
    BY <1>12, <2>1, SlotsKept DEF Return, Active, tableVars, ownerVars
<1> QED
  BY <1>2, <1>3, <1>4, <1>5, <1>6, <1>7, <1>8, <1>9, <1>10, <1>11, <1>12 DEF Continue

----------------------------------------------------------------------------
\* The steps that leave the sessions where they are and start no call.
LEMMA SessionsKept ==
  ASSUME TypeOK, SessionInvariant, NEW t \in Threads, OthersKeep(t),
         nextCall' = nextCall,
         pc'[t] # "idle" => pc[t] # "idle" /\ call'[t].id = call[t].id,
         pc'[t] \in {"card", "send", "enter", "recv"} =>
           /\ pc[t] \in {"card", "send", "enter", "recv"}
           /\ call'[t].msg.call = call[t].msg.call
           /\ call'[t].ctx = call[t].ctx
           /\ call'[t].op = call[t].op,
         pc'[t] = "send" /\ call'[t].op = "EstablishContext" => pc[t] = "send",
         pc'[t] = "recv" => \/ pc[t] = "recv" /\ call'[t].session = call[t].session
                            \/ call'[t].session = SessionOf(t),
         \A i \in Slots : contextArray'[i].session = contextArray[i].session,
         \A s \in Sessions : clientEnd'[s] = "none" <=> clientEnd[s] = "none"
  PROVE  SessionInvariant'
<1> USE DEF SessionInvariant, OthersKeep
<1>0. \A u \in Threads :
        pc[u] \in {"card", "send", "enter", "recv"} =>
          call[u].id \in Sessions /\ call[u].ctx \in Slots
  BY DEF TypeOK, ClientTypeOK, CallsPointOK, Sessions
<1>1. CallsDistinct'
  <2>1. \A u \in Threads : pc'[u] # "idle" => pc[u] # "idle" /\ call'[u].id = call[u].id
    OBVIOUS
  <2>2. \A u \in Threads : pc'[u] \in {"card", "send", "enter", "recv"} =>
                             /\ pc[u] \in {"card", "send", "enter", "recv"}
                             /\ call'[u].msg.call = call[u].msg.call
    OBVIOUS
  <2> QED
    BY <2>1, <2>2 DEF CallsDistinct
<1>2. SessionsFresh'
  <2>1. ASSUME NEW u \in Threads, pc'[u] = "send", call'[u].op = "EstablishContext",
               SessionOf(u)' = NoSession
        PROVE  clientEnd'[call'[u].id] = "none"
    <3>1. /\ pc[u] = "send" /\ call[u].op = "EstablishContext"
          /\ call'[u].ctx = call[u].ctx /\ call'[u].id = call[u].id
      BY <2>1
    <3>2. SessionOf(u) = NoSession
      BY <1>0, <2>1, <3>1 DEF SessionOf
    <3> QED
      BY <1>0, <3>1, <3>2 DEF SessionsFresh
  <2> QED
    BY <2>1 DEF SessionsFresh
<1>3. SessionsApart'
  <2>1. \A i \in Slots : contextArray[i].session # NoSession =>
                           contextArray[i].session \in Sessions
    BY SlotTypes DEF Contexts
  <2> QED
    BY <2>1 DEF SessionsApart
<1>4. SessionKept'
  <2>1. ASSUME NEW u \in Threads, pc'[u] = "recv"
        PROVE  call'[u].session = SessionOf(u)'
    <3>1. call[u].ctx \in Slots /\ call'[u].ctx = call[u].ctx
      BY <1>0, <2>1
    <3>2. SessionOf(u)' = SessionOf(u)
      BY <3>1 DEF SessionOf
    <3> QED
      BY <2>1, <3>2 DEF SessionKept
  <2> QED
    BY <2>1 DEF SessionKept
<1> QED
  BY <1>1, <1>2, <1>3, <1>4

\* The steps that start a call.
LEMMA SessionsBegun ==
  ASSUME TypeOK, SessionInvariant, NEW t \in Threads, OthersKeep(t),
         nextCall <= MaxCalls, nextCall' = nextCall + 1,
         pc'[t] \in {"blocked", "card", "send", "done"},
         call'[t].id = nextCall,
         pc'[t] \in {"card", "send"} => call'[t].msg.call = nextCall,
         \A i \in Slots : contextArray'[i].session = contextArray[i].session,
         clientEnd' = clientEnd
  PROVE  SessionInvariant'
<1> USE DEF SessionInvariant, OthersKeep
<1>0. /\ nextCall \in Sessions
      /\ \A u \in Threads :
           pc[u] \in {"card", "send", "enter", "recv"} => call[u].ctx \in Slots
  BY BoundsAssumption
  DEF TypeOK, ClientTypeOK, ClientDomains, CallsPointOK, Sessions, CallIds
<1>1. CallsDistinct'
  BY <1>0 DEF CallsDistinct, Sessions, CallIds
<1>2. SessionsFresh'
  <2>1. \A s \in Sessions : s >= nextCall' => clientEnd'[s] = "none"
    BY <1>0 DEF SessionsFresh, Sessions, CallIds
  <2>2. ASSUME NEW u \in Threads, pc'[u] = "send", call'[u].op = "EstablishContext",
               SessionOf(u)' = NoSession
        PROVE  clientEnd'[call'[u].id] = "none"
    <3>1. CASE u = t
      BY <1>0, <3>1 DEF SessionsFresh, Sessions, CallIds
    <3>2. CASE u # t
      BY <1>0, <2>2, <3>2 DEF SessionsFresh, SessionOf
    <3> QED
      BY <3>1, <3>2
  <2> QED
    BY <2>1, <2>2 DEF SessionsFresh
<1>3. SessionsApart'
  BY DEF SessionsApart
<1>4. SessionKept'
  BY <1>0 DEF SessionKept, SessionOf
<1> QED
  BY <1>1, <1>2, <1>3, <1>4

LEMMA CallKeepsSessions ==
  ASSUME TypeOK, SessionInvariant, NEW t \in Threads, Call(t)
  PROVE  SessionInvariant'
<1>0. ASSUME NEW op, NEW rv, Refuse(t, op, rv), nextCall <= MaxCalls,
             UNCHANGED <<contextArray, clientEnd>>
      PROVE  SessionInvariant'
  BY <1>0, RefuseEffect, SessionsBegun
<1>1. ASSUME NEW to \in {"blocked", "card", "send"}, NEW op, NEW i, NEW k, NEW arg,
             Begin(t, to, NewCall(nextCall, op, i, k, arg)), nextCall <= MaxCalls,
             \A j \in Slots : contextArray'[j].session = contextArray[j].session,
             clientEnd' = clientEnd
      PROVE  SessionInvariant'
  <2>1. /\ OthersKeep(t) /\ pc'[t] = to /\ nextCall' = nextCall + 1
        /\ call'[t].id = nextCall /\ call'[t].msg.call = nextCall
    BY <1>1, BeginEffect DEF NewCall, Request
  <2> QED
    BY <1>1, <2>1, SessionsBegun
<1>2. CASE TlsInitFails(t) \/ NoContext(t)
  BY <1>0, <1>2 DEF TlsInitFails, NoContext, MayCall, connVars
<1>d. CASE NoEnvironment(t)
  BY <1>d, DieKeeps DEF NoEnvironment
<1>3. CASE EstablishContext(t)
  <2>1. PICK i \in Slots :
          /\ contextArray' = [contextArray EXCEPT ![i].used = TRUE]
          /\ Begin(t, "send", NewCall(nextCall, "EstablishContext", i, NoSlot, NoCall))
    BY <1>3 DEF EstablishContext
  <2>2. \A j \in Slots : contextArray'[j].session = contextArray[j].session
    BY <2>1, SlotTypes DEF Contexts
  <2> QED
    BY <1>1, <1>3, <2>1, <2>2 DEF EstablishContext, MayCall, connVars
<1>4. ASSUME NEW op \in AllOps, BlockOnMutex(t, op) PROVE SessionInvariant'
  BY <1>1, <1>4 DEF BlockOnMutex, MayCall, tableVars, connVars
<1>5. ASSUME NEW op \in AllOps, NEW i \in Slots, ContextCall(t, op, i)
      PROVE  SessionInvariant'
  BY <1>0, <1>1, <1>5 DEF ContextCall, MayCall, tableVars, connVars
<1>6. ASSUME NEW op \in AllOps, NEW k \in Slots, CardCall(t, op, k)
      PROVE  SessionInvariant'
  BY <1>0, <1>1, <1>6 DEF CardCall, MayCall, tableVars, connVars
<1>7. ASSUME NEW i \in Slots, CancelContext(t, i) PROVE SessionInvariant'
  BY <1>0, <1>7 DEF CancelContext, MayCall, tableVars, connVars
<1> QED
  BY <1>d, <1>2, <1>3, <1>4, <1>5, <1>6, <1>7 DEF Call

LEMMA ContinueKeepsSessions ==
  ASSUME TypeOK, SlotInvariant, SessionInvariant, NEW t \in Threads, Continue(t)
  PROVE  SessionInvariant'
<1>t. /\ \A i \in Slots : contextArray[i].session # NoSession =>
                            contextArray[i].session \in Sessions
      /\ \A u \in Threads : pc[u] \in {"card", "send", "enter", "recv", "finish"} =>
                            call[u].id \in Sessions /\ call[u].ctx \in Slots
      /\ DOMAIN clientEnd = Sessions
      /\ NoSession \notin Sessions
  BY SlotTypes DEF Contexts, TypeOK, ClientTypeOK, CallsPointOK, ConnTypeOK, Sessions,
                   CallIds, NoSession
<1>0. ASSUME NEW rv, NEW m, NEW a, Exchanged(t, rv, m, a), pc[t] \in {"send", "recv"},
             UNCHANGED <<contextArray, nextCall, clientEnd>>
      PROVE  SessionInvariant'
  BY <1>0, ExchangedEffect, SessionsKept DEF KeepsCall, AfterExchange
<1>1. CASE Die
  BY <1>1, DieKeeps
<1>2. CASE CreateCard(t)
  <2>1. call[t].op = "Connect"
    BY <1>2 DEF SlotInvariant, SlotsClaimed, Active, CreateCard
  <2> QED
    BY <1>2, <2>1, CreateCardEffect, SessionsKept DEF CreateCard, KeepsCall, connVars
<1>3. CASE NotConnected(t) \/ ReceiveReply(t) \/ ReceiveEnd(t) \/ ReceiveError(t)
             \/ ReceiveInterrupted(t)
  BY <1>0, <1>3
  DEF NotConnected, ReceiveReply, ReceiveEnd, ReceiveError, ReceiveInterrupted,
      ExchangeFails, tableVars, connVars
<1>4. CASE SendFails(t)
  BY <1>0, <1>1, <1>4 DEF SendFails, ExchangeFails, tableVars, connVars
<1>5. CASE OpenConnection(t)
  <2> DEFINE i == call[t].ctx
             c == call[t].id
  <2>1. /\ i \in Slots /\ c \in Sessions /\ UNCHANGED <<pc, call, nextCall>>
        /\ contextArray[i].session = NoSession
        /\ clientEnd[c] = "none"
    BY <1>5, <1>t
    DEF OpenConnection, threadVars, SessionInvariant, SessionsFresh, SessionOf
  <2>2. /\ contextArray'[i].session = c
        /\ \A j \in Slots \ {i} : contextArray'[j].session = contextArray[j].session
    BY <1>5, <2>1, SlotTypes DEF OpenConnection, Contexts
  <2>3. /\ clientEnd'[c] = "open"
        /\ \A s \in Sessions \ {c} : clientEnd'[s] = clientEnd[s]
    BY <1>5, <1>t, <2>1 DEF OpenConnection
  <2>4. CallsDistinct'
    BY <2>1 DEF SessionInvariant, CallsDistinct
  <2>5. SessionsFresh'
    <3>1. /\ c < nextCall
          /\ nextCall \in Nat
          /\ Sessions \subseteq Nat
      BY <1>5, <2>1, BoundsAssumption
      DEF OpenConnection, SessionInvariant, CallsDistinct, TypeOK, ClientTypeOK,
          ClientDomains, Sessions, CallIds
    <3>2. \A s \in Sessions : s >= nextCall => clientEnd'[s] = "none"
      BY <2>3, <3>1 DEF SessionInvariant, SessionsFresh
    <3>3. ASSUME NEW u \in Threads, pc[u] = "send", call[u].op = "EstablishContext",
                 SessionOf(u)' = NoSession
          PROVE  clientEnd'[call[u].id] = "none"
      <4>1. u # t
        BY <1>t, <2>1, <2>2, <3>3 DEF SessionOf
      <4>2. call[u].ctx \in Slots \ {i} /\ call[u].id \in Sessions \ {c}
        BY <1>5, <1>t, <3>3, <4>1
        DEF OpenConnection, SlotInvariant, SlotsExclusive, Active, Alone,
            SessionInvariant, CallsDistinct
      <4> QED
        BY <2>1, <2>2, <2>3, <3>3, <4>2 DEF SessionInvariant, SessionsFresh, SessionOf
    <3> QED
      BY <2>1, <3>2, <3>3 DEF SessionsFresh
  <2>6. SessionsApart'
    <3>1. \A j \in Slots : contextArray[j].session # c
      BY <1>t, <2>1 DEF SessionInvariant, SessionsApart
    <3>2. \A j \in Slots : contextArray'[j].session # NoSession =>
                             clientEnd'[contextArray'[j].session] # "none"
      BY <1>t, <2>2, <2>3, <3>1 DEF SessionInvariant, SessionsApart
    <3>3. \A j, k \in Slots : j # k /\ contextArray'[j].session # NoSession
                                => contextArray'[j].session # contextArray'[k].session
      BY <1>t, <2>1, <2>2, <3>1 DEF SessionInvariant, SessionsApart
    <3> QED
      BY <3>2, <3>3 DEF SessionsApart
  <2>7. SessionKept'
    <3>1. ASSUME NEW u \in Threads, pc[u] = "recv" PROVE SessionOf(u)' = SessionOf(u)
      <4>1. call[u].ctx \in Slots \ {i}
        BY <1>5, <1>t, <3>1
        DEF OpenConnection, SlotInvariant, SlotsExclusive, Active, Alone
      <4> QED
        BY <2>1, <2>2, <4>1 DEF SessionOf
    <3> QED
      BY <2>1, <3>1 DEF SessionInvariant, SessionKept
  <2> QED
    BY <2>4, <2>5, <2>6, <2>7 DEF SessionInvariant
<1>6. CASE Send(t)
  BY <1>6, MoveEffect, SessionsKept DEF Send, KeepsCall, tableVars
<1>7. CASE EnterRecv(t)
  BY <1>1, <1>7, EnterRecvEffect, SessionsKept
  DEF EnterRecv, KeepsCall, tableVars, connVars
<1>8. CASE FinishEstablish(t) \/ FinishRelease(t)
  <2>1. \A j \in Slots : contextArray'[j].session = contextArray[j].session
    BY <1>8, SlotTypes DEF FinishEstablish, FinishRelease, Contexts
  <2>2. /\ OthersKeep(t) /\ call'[t] = call[t] /\ pc'[t] = "done"
        /\ pc[t] \in {"finish", "unlock"}
    BY <1>8, MoveEffect DEF FinishEstablish, FinishRelease, Finishing, KeepsCall
  <2> QED
    BY <1>8, <2>1, <2>2, SessionsKept DEF FinishEstablish, FinishRelease, connVars
<1>9. CASE CloseSession(t) /\ SessionOf(t) # NoSession
  <2> DEFINE i == call[t].ctx
             c == SessionOf(t)
  <2>1. /\ i \in Slots /\ c \in Sessions /\ clientEnd[c] # "none"
        /\ pc[t] = "finish" /\ c = contextArray[i].session /\ Alone(t)
        /\ UNCHANGED <<call, nextCall>>
    BY <1>9, <1>t
    DEF CloseSession, Finishing, SessionOf, SessionInvariant, SessionsApart, Alone
  <2>2. /\ contextArray'[i].session = NoSession
        /\ \A j \in Slots \ {i} : contextArray'[j].session = contextArray[j].session
    BY <1>9, <2>1, SlotTypes DEF CloseSession, Contexts
  <2>3. /\ clientEnd'[c] = "closed"
        /\ \A s \in Sessions \ {c} : clientEnd'[s] = clientEnd[s]
    BY <1>9, <1>t, <2>1 DEF CloseSession
  <2>4. OthersKeep(t) /\ pc'[t] = "unlock"
    BY <1>9, MoveEffect DEF CloseSession, KeepsCall
  <2>5. CallsDistinct'
    BY <2>1, <2>4 DEF SessionInvariant, CallsDistinct, OthersKeep
  <2>6. \A u \in Threads : pc'[u] \in {"send", "recv"} =>
          u # t /\ pc[u] = pc'[u] /\ call[u].ctx \in Slots \ {i}
    BY <1>t, <2>1, <2>4 DEF OthersKeep, SlotInvariant, SlotsExclusive, Active
  <2>7. SessionsFresh'
    BY <1>t, <2>1, <2>2, <2>3, <2>6 DEF SessionInvariant, SessionsFresh, SessionOf
  <2>8. SessionsApart'
    <3>1. \A j \in Slots \ {i} : contextArray[j].session # c
      BY <1>t, <2>1 DEF SessionInvariant, SessionsApart
    <3>2. \A j \in Slots : contextArray'[j].session # NoSession =>
                             clientEnd'[contextArray'[j].session] # "none"
      BY <1>t, <2>2, <2>3 DEF SessionInvariant, SessionsApart
    <3>3. \A j, k \in Slots : j # k /\ contextArray'[j].session # NoSession
                                => contextArray'[j].session # contextArray'[k].session
      BY <2>2 DEF SessionInvariant, SessionsApart
    <3> QED
      BY <3>2, <3>3 DEF SessionsApart
  <2>9. SessionKept'
    BY <2>1, <2>2, <2>6 DEF SessionInvariant, SessionKept, SessionOf
  <2> QED
    BY <2>5, <2>7, <2>8, <2>9 DEF SessionInvariant
<1>10. CASE FinishConnect(t)
  <2>1. OthersKeep(t) /\ call'[t] = call[t] /\ pc'[t] = "done" /\ pc[t] = "finish"
    BY <1>10, MoveEffect DEF FinishConnect, Finishing, KeepsCall
  <2> QED
    BY <1>10, <2>1, SessionsKept DEF FinishConnect, connVars
<1>11. CASE Return(t)
  <2>1. OthersKeep(t) /\ pc'[t] = "idle"
    BY <1>11 DEF Return, OthersKeep, TypeOK, ClientTypeOK, ClientDomains
  <2> QED
    BY <1>11, <2>1, SessionsKept DEF Return, tableVars, connVars
<1>12. CASE CloseSession(t) /\ SessionOf(t) = NoSession
  BY <1>1, <1>12 DEF CloseSession
<1> QED
  BY <1>2, <1>3, <1>4, <1>5, <1>6, <1>7, <1>8, <1>9, <1>10, <1>11, <1>12 DEF Continue

----------------------------------------------------------------------------
\* The session of a call that is alone on its slot is the session of no other call.
LEMMA OneThreadPerSession ==
  ASSUME SlotInvariant, SessionInvariant, NEW s \in Sessions,
         NEW t \in Threads, NEW u \in Threads, Active(t), Active(u), Alone(t),
         SessionOf(t) = s, SessionOf(u) = s
  PROVE  t = u
<1>1. s # NoSession
  BY DEF Sessions, CallIds, NoSession
<1>2. call[t].ctx \in Slots /\ call[u].ctx \in Slots
  BY DEF SlotInvariant, SlotsClaimed
<1>3. call[t].ctx = call[u].ctx
  BY <1>1, <1>2 DEF SessionOf, SessionInvariant, SessionsApart
<1> QED
  BY <1>3 DEF SlotInvariant, SlotsExclusive

\* The steps that leave the messages, and those who await them, where they are.
LEMMA MessagesKept ==
  ASSUME MessageInvariant,
         \A u \in Threads, s \in Sessions :
           Awaits(u, s) => /\ Awaits(u, s)'
                           /\ call'[u].id = call[u].id
                           /\ call'[u].msg = call[u].msg,
         \A s \in Sessions : serverEnd'[s] = "closed" => serverEnd[s] = "closed",
         UNCHANGED <<broken, toServer, toClient, child, request>>
  PROVE  MessageInvariant'
<1> USE DEF MessageInvariant
<1>1. RequestAwaited'
  BY DEF RequestAwaited, Serving
<1>2. ServiceAwaited'
  BY DEF ServiceAwaited, Serving
<1>3. ReplyAwaited'
  BY DEF ReplyAwaited, Serving
<1>4. EndsAgree'
  BY DEF EndsAgree
<1> QED
  BY <1>1, <1>2, <1>3, <1>4

\* The steps of a thread that is not awaiting anything.
LEMMA OthersAwait ==
  ASSUME TypeOK, MessageInvariant, NEW t \in Threads, OthersKeep(t),
         pc[t] \notin {"enter", "recv"},
         \A i \in Slots \ {call[t].ctx} :
           contextArray'[i].session = contextArray[i].session,
         \/ \A i \in Slots : contextArray'[i].session = contextArray[i].session
         \/ SlotInvariant /\ Active(t) /\ Alone(t),
         \A s \in Sessions : serverEnd'[s] = "closed" => serverEnd[s] = "closed",
         UNCHANGED <<broken, toServer, toClient, child, request>>
  PROVE  MessageInvariant'
<1>1. ASSUME NEW u \in Threads, NEW s \in Sessions, Awaits(u, s)
      PROVE  /\ Awaits(u, s)'
             /\ call'[u].id = call[u].id
             /\ call'[u].msg = call[u].msg
  <2>1. u # t /\ call[u].ctx \in Slots /\ Active(u)
    BY <1>1 DEF Awaits, Active, TypeOK, ClientTypeOK, CallsPointOK
  <2>2. pc'[u] = pc[u] /\ call'[u] = call[u]
    BY <2>1 DEF OthersKeep
  <2>3. contextArray'[call[u].ctx].session = contextArray[call[u].ctx].session
    BY <2>1 DEF SlotInvariant, SlotsExclusive
  <2> QED
    BY <1>1, <2>2, <2>3 DEF Awaits, SessionOf
<1> QED
  BY <1>1, MessagesKept

LEMMA CallKeepsMessages ==
  ASSUME TypeOK, MessageInvariant, NEW t \in Threads, Call(t),
         UNCHANGED serverVars
  PROVE  MessageInvariant'
<1>0. ASSUME OthersKeep(t), pc[t] = "idle", UNCHANGED connVars,
             \A i \in Slots : contextArray'[i].session = contextArray[i].session
      PROVE  MessageInvariant'
  BY <1>0, OthersAwait DEF connVars, serverVars
<1>1. CASE TlsInitFails(t) \/ NoContext(t)
  BY <1>0, <1>1, RefuseEffect DEF TlsInitFails, NoContext, MayCall
<1>d. CASE NoEnvironment(t)
  BY <1>d, DieKeeps DEF NoEnvironment
<1>2. CASE EstablishContext(t)
  <2>1. \A j \in Slots : contextArray'[j].session = contextArray[j].session
    BY <1>2, SlotTypes DEF EstablishContext, Contexts
  <2>2. OthersKeep(t)
    BY <1>2, BeginEffect DEF EstablishContext
  <2> QED
    BY <1>0, <1>2, <2>1, <2>2 DEF EstablishContext, MayCall
<1>3. ASSUME NEW op \in AllOps, BlockOnMutex(t, op) PROVE MessageInvariant'
  BY <1>0, <1>3, BeginEffect DEF BlockOnMutex, MayCall, tableVars
<1>4. ASSUME NEW op \in AllOps, NEW i \in Slots, ContextCall(t, op, i)
      PROVE  MessageInvariant'
  BY <1>0, <1>4, BeginEffect, RefuseEffect DEF ContextCall, MayCall, tableVars
<1>5. ASSUME NEW op \in AllOps, NEW k \in Slots, CardCall(t, op, k)
      PROVE  MessageInvariant'
  BY <1>0, <1>5, BeginEffect, RefuseEffect DEF CardCall, MayCall, tableVars
<1>6. ASSUME NEW i \in Slots, CancelContext(t, i) PROVE MessageInvariant'
  BY <1>0, <1>6, RefuseEffect DEF CancelContext, MayCall, tableVars
<1> QED
  BY <1>d, <1>1, <1>2, <1>3, <1>4, <1>5, <1>6 DEF Call

\* The step that ends a wait: nothing is left on the session for the thread.
LEMMA WaitEnds ==
  ASSUME TypeOK, SlotInvariant, SessionInvariant, MessageInvariant,
         NEW t \in Threads, OthersKeep(t), pc[t] = "recv", NEW s \in Sessions,
         SessionOf(t) = s, contextArray' = contextArray,
         \A r \in Sessions \ {s} : /\ toServer'[r] = toServer[r]
                                   /\ toClient'[r] = toClient[r]
                                   /\ broken'[r] = broken[r],
         toServer'[s] = << >>, toClient'[s] = << >>, Serving(s) => broken'[s],
         UNCHANGED <<child, request, serverEnd>>
  PROVE  MessageInvariant'
<1> USE DEF MessageInvariant
<1>1. ASSUME NEW u \in Threads, NEW r \in Sessions \ {s}, Awaits(u, r)
      PROVE  Awaits(u, r)' /\ call'[u] = call[u]
  BY <1>1 DEF Awaits, SessionOf, OthersKeep
<1>2. RequestAwaited'
  BY <1>1 DEF RequestAwaited, Serving
<1>3. ServiceAwaited'
  BY <1>1 DEF ServiceAwaited, Serving
<1>4. ReplyAwaited'
  BY <1>1 DEF ReplyAwaited, Serving
<1>5. EndsAgree'
  BY DEF EndsAgree
<1> QED
  BY <1>2, <1>3, <1>4, <1>5

LEMMA ReceiverAlone ==
  ASSUME TypeOK, SlotInvariant, SessionInvariant, Discipline = "own",
         NEW t \in Threads, pc[t] = "recv"
  PROVE  /\ call[t].session \in Sessions
         /\ call[t].session = SessionOf(t)
         /\ \A u \in Threads : Awaits(u, call[t].session) => u = t
<1>1. call[t].session \in Sessions /\ call[t].session = SessionOf(t)
  BY DEF TypeOK, ClientTypeOK, CallsPointOK, SessionInvariant, SessionKept
<1> QED
  BY <1>1, OneThreadPerSession DEF Awaits, Active, Alone

LEMMA ReceiveReplyEffect ==
  ASSUME TypeOK, SlotInvariant, SessionInvariant, MessageInvariant,
         Discipline = "own", NEW t \in Threads, ReceiveReply(t), UNCHANGED serverVars
  PROVE  MessageInvariant' /\ call'[t].answer = call'[t].id /\ OthersKeep(t)
<1> DEFINE s == call[t].session
<1>1. pc[t] = "recv" /\ toClient[s] # << >>
  BY DEF ReceiveReply
<1>2. s \in Sessions /\ s = SessionOf(t) /\ \A u \in Threads : Awaits(u, s) => u = t
  BY <1>1, ReceiverAlone
<1>3. /\ ~Serving(s)
      /\ toServer[s] = << >>
      /\ Tail(toClient[s]) = << >>
      /\ Head(toClient[s]).call = call[t].id
  BY <1>1, <1>2 DEF MessageInvariant, ReplyAwaited
<1>4. PICK rv, m : Exchanged(t, rv, m, Head(toClient[s]).call)
  BY DEF ReceiveReply
<1>5. OthersKeep(t) /\ call'[t].id = call[t].id /\ call'[t].answer = call[t].id
  BY <1>3, <1>4, ExchangedEffect DEF KeepsCall
<1>6. /\ toClient'[s] = << >>
      /\ \A r \in Sessions \ {s} : toClient'[r] = toClient[r]
  BY <1>2, <1>3 DEF ReceiveReply, TypeOK, ConnTypeOK
<1>7. MessageInvariant'
  BY <1>1, <1>2, <1>3, <1>5, <1>6, WaitEnds DEF ReceiveReply, tableVars, serverVars
<1> QED
  BY <1>5, <1>7

LEMMA SendKeepsMessages ==
  ASSUME TypeOK, SlotInvariant, SessionInvariant, MessageInvariant,
         Discipline = "own", NEW t \in Threads, Send(t), UNCHANGED serverVars
  PROVE  MessageInvariant'
<1>1. /\ pc[t] = "send" /\ SessionOf(t) # NoSession
      /\ UNCHANGED <<contextArray, call, broken, toClient, child, request, serverEnd>>
  BY DEF Send, tableVars, serverVars
<1>2. OthersKeep(t) /\ pc'[t] = "enter" /\ Active(t)
  BY <1>1, MoveEffect DEF Send, KeepsCall, Active
<1>3. CASE ~Usable(SessionOf(t))
  BY <1>1, <1>2, <1>3, OthersAwait DEF Send
<1>4. SessionOf(t) \in Sessions
  BY <1>1, SlotTypes DEF SessionOf, Contexts, TypeOK, ClientTypeOK, CallsPointOK
<1>5. ASSUME NEW s \in Sessions, SessionOf(t) = s, Usable(s)
      PROVE  MessageInvariant'
  <2>1. \A u \in Threads : ~Awaits(u, s)
    BY <1>1, <1>2, <1>5, OneThreadPerSession DEF Awaits, Active, Alone
  <2>2. /\ toServer[s] = << >> /\ toClient[s] = << >>
        /\ ~Serving(s) /\ ~broken[s] /\ serverEnd[s] = "open"
    BY <1>5, <2>1
    DEF MessageInvariant, RequestAwaited, ServiceAwaited, ReplyAwaited, Usable
  <2>3. /\ toServer'[s] = <<call[t].msg>>
        /\ \A r \in Sessions \ {s} : toServer'[r] = toServer[r]
    <3>1. toServer' = [toServer EXCEPT ![s] = Append(toServer[s], call[t].msg)]
      BY <1>5 DEF Send
    <3>2. Append(toServer[s], call[t].msg) = <<call[t].msg>>
      BY <2>2
    <3> QED
      BY <3>1, <3>2 DEF TypeOK, ConnTypeOK
  <2>4. Awaits(t, s)'
    BY <1>1, <1>2, <1>5 DEF Awaits, SessionOf
  <2>5. ASSUME NEW u \in Threads, NEW r \in Sessions, Awaits(u, r) PROVE Awaits(u, r)'
    BY <1>1, <1>2, <2>5 DEF Awaits, SessionOf, OthersKeep
  <2>6. RequestAwaited'
    BY <1>1, <2>2, <2>3, <2>4, <2>5 DEF MessageInvariant, RequestAwaited, Serving
  <2>7. ServiceAwaited'
    BY <1>1, <2>2, <2>3, <2>5 DEF MessageInvariant, ServiceAwaited, Serving
  <2>8. ReplyAwaited'
    BY <1>1, <2>2, <2>3, <2>5 DEF MessageInvariant, ReplyAwaited, Serving
  <2>9. EndsAgree'
    BY <1>1, <2>2, <2>3 DEF MessageInvariant, EndsAgree
  <2> QED
    BY <2>6, <2>7, <2>8, <2>9 DEF MessageInvariant
<1> QED
  BY <1>3, <1>4, <1>5

LEMMA ContinueKeepsMessages ==
  ASSUME TypeOK, SlotInvariant, SessionInvariant, MessageInvariant, Disciplined,
         NEW t \in Threads, Continue(t), UNCHANGED serverVars
  PROVE  MessageInvariant'
<1> USE DEF serverVars, Disciplined
<1>1. CASE Die
  BY <1>1, DieKeeps
<1>2. CASE CreateCard(t)
  BY <1>2, CreateCardEffect, OthersAwait DEF CreateCard, KeepsCall, connVars
<1>3. ASSUME NEW rv, NEW m, NEW a, Exchanged(t, rv, m, a), pc[t] = "send",
             UNCHANGED <<tableVars, connVars>>
      PROVE  MessageInvariant'
  BY <1>3, ExchangedEffect, OthersAwait DEF KeepsCall, tableVars, connVars
<1>4. CASE NotConnected(t) \/ SendFails(t)
  BY <1>1, <1>3, <1>4 DEF NotConnected, SendFails, ExchangeFails
<1>5. CASE OpenConnection(t)
  <2>1. call[t].ctx \in Slots /\ Active(t) /\ Alone(t) /\ pc[t] = "send" /\ OthersKeep(t)
    BY <1>5 DEF OpenConnection, Active, Alone, SlotInvariant, SlotsClaimed, threadVars, OthersKeep
  <2>2. \A i \in Slots \ {call[t].ctx} :
          contextArray'[i].session = contextArray[i].session
    BY <1>5, SlotTypes DEF OpenConnection
  <2>3. \A s \in Sessions : serverEnd'[s] = "closed" => serverEnd[s] = "closed"
    BY <1>5 DEF OpenConnection, TypeOK, ConnTypeOK
  <2> QED
    BY <1>5, <2>1, <2>2, <2>3, OthersAwait DEF OpenConnection
<1>6. CASE Send(t)
  BY <1>6, SendKeepsMessages
<1>7. CASE EnterRecv(t) /\ SessionOf(t) # NoSession
  <2>1. /\ KeepsCall(t) /\ pc'[t] = "recv" /\ pc[t] = "enter"
        /\ call'[t].msg = call[t].msg
        /\ UNCHANGED <<contextArray, connVars>>
    BY <1>7, EnterRecvEffect DEF EnterRecv, tableVars
  <2>2. ASSUME NEW u \in Threads, NEW s \in Sessions, Awaits(u, s)
        PROVE  /\ Awaits(u, s)'
               /\ call'[u].id = call[u].id
               /\ call'[u].msg = call[u].msg
    <3>1. CASE u = t
      BY <2>1, <2>2, <3>1 DEF Awaits, SessionOf, KeepsCall
    <3>2. CASE u # t
      BY <2>1, <2>2, <3>2 DEF Awaits, SessionOf, KeepsCall, OthersKeep
    <3> QED
      BY <3>1, <3>2
  <2> QED
    BY <2>1, <2>2, MessagesKept DEF connVars
<1>8. CASE ReceiveReply(t)
  BY <1>8, ReceiveReplyEffect
<1>9. CASE ReceiveEnd(t) \/ ReceiveError(t)
  <2> DEFINE s == call[t].session
  <2>1. /\ pc[t] = "recv"
        /\ OthersKeep(t)
        /\ UNCHANGED <<contextArray, serverEnd>>
    BY <1>9, ExchangedEffect
    DEF ReceiveEnd, ReceiveError, ExchangeFails, KeepsCall, tableVars, connVars
  <2>2. s \in Sessions /\ s = SessionOf(t)
    BY <2>1, ReceiverAlone
  <2>3. /\ toServer'[s] = << >> /\ toClient'[s] = << >>
        /\ Serving(s) => broken'[s]
        /\ \A r \in Sessions \ {s} : /\ toServer'[r] = toServer[r]
                                     /\ toClient'[r] = toClient[r]
                                     /\ broken'[r] = broken[r]
    <3>1. CASE ReceiveEnd(t)
      BY <3>1, <2>2 DEF ReceiveEnd, connVars, MessageInvariant, EndsAgree, Serving
    <3>2. CASE ReceiveError(t)
      BY <3>2, <2>2 DEF ReceiveError, Break, TypeOK, ConnTypeOK
    <3> QED
      BY <1>9, <3>1, <3>2
  <2> QED
    BY <2>1, <2>2, <2>3, WaitEnds
<1>10. CASE ReceiveInterrupted(t)
  BY <1>10 DEF ReceiveInterrupted
<1>11. CASE FinishEstablish(t) \/ FinishRelease(t)
  <2>1. \A j \in Slots : contextArray'[j].session = contextArray[j].session
    BY <1>11, SlotTypes DEF FinishEstablish, FinishRelease, Contexts
  <2>2. OthersKeep(t) /\ pc[t] \in {"finish", "unlock"}
    BY <1>11, MoveEffect DEF FinishEstablish, FinishRelease, Finishing, KeepsCall
  <2> QED
    BY <1>11, <2>1, <2>2, OthersAwait DEF FinishEstablish, FinishRelease, connVars
<1>12. CASE CloseSession(t) /\ SessionOf(t) # NoSession
  <2>1. OthersKeep(t) /\ pc[t] = "finish" /\ Active(t) /\ Alone(t)
    BY <1>12, MoveEffect DEF CloseSession, Finishing, KeepsCall, Active, Alone
  <2>2. \A i \in Slots \ {call[t].ctx} :
          contextArray'[i].session = contextArray[i].session
    BY <1>12, SlotTypes DEF CloseSession
  <2> QED
    BY <1>12, <2>1, <2>2, OthersAwait DEF CloseSession
<1>13. CASE FinishConnect(t)
  <2>1. OthersKeep(t) /\ pc[t] = "finish"
    BY <1>13, MoveEffect DEF FinishConnect, Finishing, KeepsCall
  <2> QED
    BY <1>13, <2>1, OthersAwait DEF FinishConnect, connVars
<1>14. CASE Return(t)
  <2>1. OthersKeep(t)
    BY <1>14 DEF Return, OthersKeep, TypeOK, ClientTypeOK, ClientDomains
  <2> QED
    BY <1>14, <2>1, OthersAwait DEF Return, tableVars, connVars
<1> QED
  BY <1>1, <1>2, <1>4, <1>5, <1>6, <1>7, <1>8, <1>9, <1>10, <1>11, <1>12, <1>13, <1>14
  DEF Continue, EnterRecv, CloseSession

LEMMA StepKeepsReplies ==
  ASSUME TypeOK, SlotInvariant, SessionInvariant, MessageInvariant, ReplyToItsCall,
         Disciplined, NEW t \in Threads, ClientStep(t)
  PROVE  ReplyToItsCall'
<1>0. ASSUME OthersKeep(t), call'[t].answer \in {NoCall, call'[t].id}
      PROVE  ReplyToItsCall'
  BY <1>0 DEF ReplyToItsCall, OthersKeep
<1>1. CASE UNCHANGED call
  BY <1>1 DEF ReplyToItsCall
<1>2. ASSUME NEW op, NEW rv, Refuse(t, op, rv) PROVE ReplyToItsCall'
  BY <1>0, <1>2, RefuseEffect
<1>3. ASSUME NEW to, NEW op, NEW i, NEW k, NEW arg,
             Begin(t, to, NewCall(nextCall, op, i, k, arg))
      PROVE  ReplyToItsCall'
  BY <1>0, <1>3, BeginEffect DEF NewCall
<1>4. ASSUME NEW rv, NEW m, Exchanged(t, rv, m, NoCall) PROVE ReplyToItsCall'
  BY <1>0, <1>4, ExchangedEffect DEF KeepsCall
<1>5. CASE Call(t)
  BY <1>1, <1>2, <1>3, <1>5
  DEF Call, NoEnvironment, TlsInitFails, NoContext, EstablishContext, BlockOnMutex,
      ContextCall, CardCall, CancelContext, Die, threadVars
<1>6. CASE CreateCard(t)
  BY <1>0, <1>6, CreateCardEffect DEF KeepsCall, ReplyToItsCall
<1>7. CASE ReceiveReply(t)
  BY <1>0, <1>7, ReceiveReplyEffect DEF ClientStep, Disciplined
<1>8. CASE EnterRecv(t)
  BY <1>0, <1>1, <1>8, EnterRecvEffect
  DEF EnterRecv, Die, threadVars, KeepsCall, ReplyToItsCall
<1>9. CASE Return(t)
  <2>1. OthersKeep(t) /\ call'[t] = Idle
    BY <1>9 DEF Return, OthersKeep, TypeOK, ClientTypeOK, ClientDomains
  <2> QED
    BY <1>0, <2>1 DEF Idle, NewCall
<1>10. CASE NotConnected(t) \/ SendFails(t) \/ ReceiveEnd(t) \/ ReceiveError(t)
              \/ ReceiveInterrupted(t)
  BY <1>1, <1>4, <1>10
  DEF NotConnected, SendFails, ReceiveEnd, ReceiveError, ReceiveInterrupted,
      ExchangeFails, Die, threadVars
<1>11. CASE OpenConnection(t) \/ Send(t) \/ FinishEstablish(t) \/ CloseSession(t)
              \/ FinishRelease(t) \/ FinishConnect(t)
  BY <1>1, <1>11
  DEF OpenConnection, Send, FinishEstablish, CloseSession, FinishRelease,
      FinishConnect, Die, threadVars
<1> QED
  BY <1>5, <1>6, <1>7, <1>8, <1>9, <1>10, <1>11 DEF ClientStep, Continue

----------------------------------------------------------------------------
\* Nothing the children or the network do touches the client.
LEMMA ClientKept ==
  ASSUME UNCHANGED clientVars
  PROVE  /\ SlotInvariant => SlotInvariant'
         /\ ReplyToItsCall => ReplyToItsCall'
         /\ SessionInvariant /\ clientEnd' = clientEnd => SessionInvariant'
         /\ \A u \in Threads, s \in Sessions : Awaits(u, s)' <=> Awaits(u, s)
<1> USE DEF clientVars, tableVars, threadVars, ownerVars
<1>1. SlotInvariant => SlotInvariant'
  BY DEF SlotInvariant, SlotsClaimed, SlotsExclusive, OwnedSlotsUsed, Active, Alone
<1>2. ReplyToItsCall => ReplyToItsCall'
  BY DEF ReplyToItsCall
<1>3. SessionInvariant /\ clientEnd' = clientEnd => SessionInvariant'
  BY DEF SessionInvariant, CallsDistinct, SessionsFresh, SessionsApart, SessionKept,
         SessionOf
<1>4. \A u \in Threads, s \in Sessions : Awaits(u, s)' <=> Awaits(u, s)
  BY DEF Awaits, SessionOf
<1> QED
  BY <1>1, <1>2, <1>3, <1>4

\* A child or the network changes one session: what must hold there.
LEMMA OneSession ==
  ASSUME MessageInvariant, UNCHANGED clientVars, NEW s \in Sessions,
         \A r \in Sessions \ {s} : /\ toServer'[r] = toServer[r]
                                   /\ toClient'[r] = toClient[r]
                                   /\ broken'[r] = broken[r]
                                   /\ serverEnd'[r] = serverEnd[r]
                                   /\ child'[r] = child[r]
                                   /\ request'[r] = request[r],
         toServer'[s] # << >> =>
           /\ ~Serving(s)' /\ toClient'[s] = << >>
           /\ \E t \in Threads : Awaits(t, s) /\ toServer'[s] = <<call[t].msg>>,
         Serving(s)' /\ ~broken'[s] =>
           /\ toServer'[s] = << >> /\ toClient'[s] = << >>
           /\ \E t \in Threads : Awaits(t, s) /\ request'[s].call = call[t].id,
         toClient'[s] # << >> =>
           /\ ~Serving(s)' /\ toServer'[s] = << >> /\ Tail(toClient'[s]) = << >>
           /\ \E t \in Threads : Awaits(t, s) /\ Head(toClient'[s]).call = call[t].id,
         broken'[s] => toServer'[s] = << >> /\ toClient'[s] = << >>,
         serverEnd'[s] = "closed" => child'[s] = "exited" /\ toServer'[s] = << >>
  PROVE  MessageInvariant'
<1> USE DEF MessageInvariant
<1>0. /\ \A u \in Threads, r \in Sessions : Awaits(u, r)' <=> Awaits(u, r)
      /\ call' = call
  BY ClientKept DEF clientVars, threadVars
<1>1. RequestAwaited'
  BY <1>0 DEF RequestAwaited, Serving
<1>2. ServiceAwaited'
  BY <1>0 DEF ServiceAwaited, Serving
<1>3. ReplyAwaited'
  BY <1>0 DEF ReplyAwaited, Serving
<1>4. EndsAgree'
  BY DEF EndsAgree
<1> QED
  BY <1>1, <1>2, <1>3, <1>4

LEMMA ExitKeepsMessages ==
  ASSUME TypeOK, MessageInvariant, NEW s \in Sessions, Exit(s), UNCHANGED clientVars
  PROVE  MessageInvariant'
<1>1. \A r \in Sessions \ {s} : /\ toServer'[r] = toServer[r]
                                /\ toClient'[r] = toClient[r]
                                /\ broken'[r] = broken[r]
                                /\ serverEnd'[r] = serverEnd[r]
                                /\ child'[r] = child[r]
                                /\ request'[r] = request[r]
  BY DEF Exit, Break, TypeOK, ServerTypeOK, ConnTypeOK
<1>2. child'[s] = "exited" /\ ~Serving(s)'
  BY DEF Exit, TypeOK, ServerTypeOK, Serving
<1>3. CASE toServer[s] # << >>
  <2>1. toServer'[s] = << >> /\ toClient'[s] = << >>
    BY <1>3 DEF Exit, Break, TypeOK, ConnTypeOK
  <2> QED
    BY <1>1, <1>2, <2>1, OneSession
<1>4. CASE toServer[s] = << >>
  <2>1. UNCHANGED <<broken, toServer, toClient>>
    BY <1>4 DEF Exit
  <2>2. toClient[s] # << >> =>
          /\ Tail(toClient[s]) = << >>
          /\ \E t \in Threads : Awaits(t, s) /\ Head(toClient[s]).call = call[t].id
    BY DEF MessageInvariant, ReplyAwaited
  <2>3. broken[s] => toServer[s] = << >> /\ toClient[s] = << >>
    BY DEF MessageInvariant, EndsAgree
  <2> QED
    BY <1>1, <1>2, <1>4, <2>1, <2>2, <2>3, OneSession
<1> QED
  BY <1>3, <1>4

LEMMA ServerKeepsMessages ==
  ASSUME TypeOK, SessionInvariant, MessageInvariant, NEW s \in Sessions,
         ServerStep(s)
  PROVE  MessageInvariant'
<1>0. UNCHANGED clientVars
  BY DEF ServerStep
<1> USE <1>0
<1>1. CASE ReceiveRequest(s)
  <2>1. PICK t \in Threads : Awaits(t, s) /\ toServer[s] = <<call[t].msg>>
    BY <1>1 DEF ReceiveRequest, MessageInvariant, RequestAwaited
  <2>2. /\ toServer'[s] = << >> /\ request'[s] = call[t].msg
        /\ child'[s] = "execute"
    <3>1. Head(toServer[s]) = call[t].msg /\ Tail(toServer[s]) = << >>
      BY <2>1
    <3> QED
      BY <1>1, <3>1 DEF ReceiveRequest, TypeOK, ServerTypeOK, ConnTypeOK
  <2>3. request'[s].call = call[t].id
    BY <2>1, <2>2 DEF SessionInvariant, CallsDistinct, Awaits
  <2>4. /\ toClient[s] = << >> /\ ~broken[s] /\ serverEnd[s] # "closed"
        /\ UNCHANGED <<toClient, broken, serverEnd>>
    BY <1>1, <2>1
    DEF ReceiveRequest, Running, MessageInvariant, RequestAwaited, EndsAgree
  <2>5. \A r \in Sessions \ {s} : /\ toServer'[r] = toServer[r]
                                  /\ child'[r] = child[r]
                                  /\ request'[r] = request[r]
    BY <1>1 DEF ReceiveRequest, TypeOK, ServerTypeOK, ConnTypeOK
  <2> QED
    BY <2>1, <2>2, <2>3, <2>4, <2>5, OneSession
<1>2. CASE Execute(s)
  <2>1. Serving(s) /\ child'[s] = "send" /\ UNCHANGED connVars
    BY <1>2 DEF Execute, Serving, TypeOK, ServerTypeOK
  <2>2. request'[s].call = request[s].call
    <3>1. \/ request' = request
          \/ \E ok \in BOOLEAN : request' = [request EXCEPT ![s] = Reply(request[s], ok)]
      BY <1>2 DEF Execute
    <3>2. \A ok \in BOOLEAN : Reply(request[s], ok).call = request[s].call
      BY DEF Reply, TypeOK, ServerTypeOK, Messages
    <3> QED
      BY <3>1, <3>2 DEF TypeOK, ServerTypeOK
  <2>3. \A r \in Sessions \ {s} : child'[r] = child[r] /\ request'[r] = request[r]
    BY <1>2 DEF Execute, TypeOK, ServerTypeOK
  <2>4. toServer[s] = << >> /\ toClient[s] = << >>
    BY <2>1 DEF MessageInvariant, RequestAwaited, ReplyAwaited
  <2>5. ~broken[s] => \E t \in Threads : Awaits(t, s) /\ request[s].call = call[t].id
    BY <2>1 DEF MessageInvariant, ServiceAwaited
  <2>6. serverEnd[s] # "closed"
    BY <1>2 DEF Execute, Running
  <2> QED
    BY <2>1, <2>2, <2>3, <2>4, <2>5, <2>6, OneSession DEF connVars
<1>3. CASE SendReply(s)
  <2>1. /\ Serving(s) /\ child'[s] = "recv" /\ ~Serving(s)'
        /\ serverEnd[s] # "closed"
        /\ UNCHANGED <<broken, toServer, serverEnd>>
    BY <1>3 DEF SendReply, Running, Serving, TypeOK, ServerTypeOK
  <2>2. /\ toServer[s] = << >> /\ toClient[s] = << >>
        /\ ~broken[s] => \E t \in Threads : Awaits(t, s) /\ request[s].call = call[t].id
    BY <2>1 DEF MessageInvariant, RequestAwaited, ServiceAwaited, ReplyAwaited
  <2>3. \A r \in Sessions \ {s} : /\ toClient'[r] = toClient[r]
                                  /\ child'[r] = child[r]
                                  /\ request'[r] = request[r]
    BY <1>3 DEF SendReply, TypeOK, ServerTypeOK, ConnTypeOK
  <2>4. CASE Usable(s)
    <3>1. toClient'[s] = <<request[s]>>
      <4>1. toClient' = [toClient EXCEPT ![s] = Append(toClient[s], request[s])]
        BY <1>3, <2>4 DEF SendReply
      <4>2. Append(toClient[s], request[s]) = <<request[s]>>
        BY <2>2
      <4> QED
        BY <4>1, <4>2 DEF TypeOK, ConnTypeOK
    <3>2. Head(toClient'[s]) = request[s] /\ Tail(toClient'[s]) = << >>
      BY <3>1
    <3>3. ~broken[s]
      BY <2>4 DEF Usable
    <3> QED
      BY <2>1, <2>2, <2>3, <3>2, <3>3, OneSession
  <2>5. CASE ~Usable(s)
    <3>1. toClient'[s] = << >>
      BY <1>3, <2>2, <2>5 DEF SendReply
    <3> QED
      BY <2>1, <2>2, <2>3, <3>1, OneSession
  <2> QED
    BY <2>4, <2>5
<1>4. CASE EndOfRequests(s) \/ ReplyFails(s) \/ ChildDies(s)
  BY <1>4, ExitKeepsMessages DEF EndOfRequests, ReplyFails, ChildDies
<1> QED
  BY <1>1, <1>2, <1>3, <1>4 DEF ServerStep, ChildStep

LEMMA NetworkKeepsMessages ==
  ASSUME TypeOK, MessageInvariant, NEW s \in Sessions, NetworkStep(s)
  PROVE  MessageInvariant'
<1>1. /\ toServer'[s] = << >> /\ toClient'[s] = << >> /\ broken'[s]
      /\ \A r \in Sessions \ {s} : /\ toServer'[r] = toServer[r]
                                   /\ toClient'[r] = toClient[r]
                                   /\ broken'[r] = broken[r]
  BY DEF NetworkStep, NetworkReset, Break, TypeOK, ConnTypeOK
<1>2. /\ UNCHANGED clientVars
      /\ UNCHANGED <<serverEnd, child, request>>
      /\ serverEnd[s] # "closed"
  BY DEF NetworkStep, NetworkReset, Usable, serverVars
<1> QED
  BY <1>1, <1>2, OneSession

----------------------------------------------------------------------------
THEOREM InitReplyInvariant == Init => ReplyInvariant
<1> SUFFICES ASSUME Init PROVE ReplyInvariant
  OBVIOUS
<1> USE DEF Init, ClientInit, ServerInit, ConnInit
<1>1. SlotInvariant
  BY DEF SlotInvariant, SlotsClaimed, SlotsExclusive, OwnedSlotsUsed, Active, Alone
<1>2. SessionInvariant
  BY DEF SessionInvariant, CallsDistinct, SessionsFresh, SessionsApart, SessionKept
<1>3. MessageInvariant
  BY DEF MessageInvariant, RequestAwaited, ServiceAwaited, ReplyAwaited, EndsAgree,
         Serving
<1>4. ReplyToItsCall
  BY DEF ReplyToItsCall, Idle, NewCall
<1> QED
  BY <1>1, <1>2, <1>3, <1>4 DEF ReplyInvariant

LEMMA ReplyInvariantInductive ==
  ASSUME TypeOK, ReplyInvariant, Disciplined, [Next]_vars
  PROVE  ReplyInvariant'
<1> USE DEF ReplyInvariant
<1>1. ASSUME NEW t \in Threads, ClientStep(t) PROVE ReplyInvariant'
  <2>1. SlotInvariant'
    BY <1>1, CallKeepsSlots, ContinueKeepsSlots DEF ClientStep, Disciplined
  <2>2. SessionInvariant'
    BY <1>1, CallKeepsSessions, ContinueKeepsSessions DEF ClientStep
  <2>3. MessageInvariant'
    BY <1>1, CallKeepsMessages, ContinueKeepsMessages DEF ClientStep
  <2>4. ReplyToItsCall'
    BY <1>1, StepKeepsReplies
  <2> QED
    BY <2>1, <2>2, <2>3, <2>4
<1>2. ASSUME NEW s \in Sessions, ServerStep(s) PROVE ReplyInvariant'
  <2>1. UNCHANGED clientVars /\ clientEnd' = clientEnd
    BY <1>2
    DEF ServerStep, ChildStep, ReceiveRequest, Execute, SendReply, EndOfRequests,
        ReplyFails, ChildDies, Exit, connVars
  <2> QED
    BY <1>2, <2>1, ClientKept, ServerKeepsMessages
<1>3. ASSUME NEW s \in Sessions, NetworkStep(s) PROVE ReplyInvariant'
  <2>1. UNCHANGED clientVars /\ clientEnd' = clientEnd
    BY <1>3 DEF NetworkStep, NetworkReset
  <2> QED
    BY <1>3, <2>1, ClientKept, NetworkKeepsMessages
<1>4. CASE UNCHANGED vars
  <2>1. UNCHANGED clientVars /\ UNCHANGED connVars /\ UNCHANGED serverVars
    BY <1>4 DEF vars
  <2>2. MessageInvariant'
    BY <2>1, ClientKept, MessagesKept
    DEF connVars, serverVars, clientVars, threadVars
  <2> QED
    BY <2>1, <2>2, ClientKept DEF connVars
<1> QED
  BY <1>1, <1>2, <1>3, <1>4 DEF Next

(***************************************************************************)
(* Requests, their service and replies are where the slots and sessions    *)
(* of the calls say, always: as long as the application is disciplined and *)
(* no signal interrupts recv().                                            *)
(***************************************************************************)
THEOREM ReplyInvariantCorrect ==
  ASSUME Disciplined
  PROVE  Spec => []ReplyInvariant
<1>1. TypeOK /\ ReplyInvariant /\ [Next]_vars => ReplyInvariant'
  BY ReplyInvariantInductive
<1> QED
  BY InitReplyInvariant, TypeCorrect, <1>1, PTL DEF Spec

(***************************************************************************)
(* A thread takes no reply but the one to its own request, for every       *)
(* number of threads, slots and calls, and whatever connections and        *)
(* children do, as long as the application is disciplined and no signal    *)
(* interrupts recv().                                                      *)
(***************************************************************************)
THEOREM ReplyCorrect ==
  ASSUME Disciplined
  PROVE  Spec => []ReplyToItsCall
<1>1. ReplyInvariant => ReplyToItsCall
  BY DEF ReplyInvariant
<1> QED
  BY ReplyInvariantCorrect, <1>1, PTL

------------------------------------------------------------------------------
(***************************************************************************)
(* The service carries out a call at most once, whatever the application   *)
(* does and whatever fails: OnceInvariant is inductive.                    *)
(***************************************************************************)

\* The threads with a request to send had it before.
NoNewRequest ==
  \A u \in Threads : Unsent(u)' => /\ Unsent(u)
                                   /\ call'[u].id = call[u].id
                                   /\ call'[u].msg.call = call[u].msg.call

LEMMA NextCallType == TypeOK => nextCall \in Nat /\ nextCall >= 1
BY BoundsAssumption DEF TypeOK, ClientTypeOK, ClientDomains

\* Steps that neither send, nor pass on, nor carry out a request.
LEMMA OnceKept ==
  ASSUME TypeOK, OnceInvariant, NoNewRequest,
         nextCall' = nextCall \/ nextCall' = nextCall + 1,
         \A s \in Sessions : toServer'[s] = toServer[s] \/ toServer'[s] = << >>,
         \A s \in Sessions : child'[s] = "execute" =>
           child[s] = "execute" /\ request'[s] = request[s],
         executions' = executions
  PROVE  OnceInvariant'
<1> USE DEF OnceInvariant
<1>0. nextCall \in Nat /\ nextCall' \in Nat /\ nextCall' >= nextCall
  BY NextCallType
<1>1. \A s \in Sessions, c \in Handles : Sent(s, c)' => Sent(s, c)
  BY DEF Sent
<1>2. \A s \in Sessions, c \in Handles : InHand(s, c)' => InHand(s, c)
  BY DEF InHand
<1>3. UnsentNumbered'
  BY <1>0 DEF UnsentNumbered, NoNewRequest
<1>4. SentNumbered'
  BY <1>0, <1>1, <1>2 DEF SentNumbered, NoNewRequest
<1>5. SentOnce'
  BY <1>1, <1>2 DEF SentOnce
<1>6. NewCallsNotCarriedOut'
  <2>1. \A c \in CallIds : c >= nextCall' => c >= nextCall
    BY <1>0 DEF CallIds
  <2> QED
    BY <2>1 DEF NewCallsNotCarriedOut
<1>7. AtMostOnce'
  BY DEF AtMostOnce
<1> QED
  BY <1>3, <1>4, <1>5, <1>6, <1>7

\* A call begins: nobody has carried it out, and no other call has its number.
LEMMA OnceBegun ==
  ASSUME TypeOK, OnceInvariant, NEW t \in Threads, OthersKeep(t),
         call'[t].id = nextCall, call'[t].msg.call = nextCall,
         nextCall <= MaxCalls, nextCall' = nextCall + 1,
         UNCHANGED toServer, UNCHANGED serverVars
  PROVE  OnceInvariant'
<1> USE DEF OnceInvariant, serverVars
<1>0. nextCall \in CallIds /\ nextCall \in Nat /\ nextCall \in 1 .. nextCall
  BY NextCallType, BoundsAssumption DEF CallIds
<1>1. \A s \in Sessions, c \in Handles : (Sent(s, c)' <=> Sent(s, c))
                                         /\ (InHand(s, c)' <=> InHand(s, c))
  BY DEF Sent, InHand
<1>2. UnsentNumbered'
  <2>1. executions[nextCall] = 0
    BY <1>0 DEF NewCallsNotCarriedOut
  <2>2. \A u \in Threads \ {t} : /\ Unsent(u)' <=> Unsent(u)
                                 /\ call'[u] = call[u]
    BY DEF OthersKeep, Unsent
  <2>3. ASSUME NEW u \in Threads, Unsent(u)'
        PROVE  /\ call'[u].id \in 1 .. nextCall
               /\ call'[u].msg.call = call'[u].id
               /\ executions'[call'[u].id] = 0
               /\ u # t => call'[u].id # nextCall
    <3>1. CASE u = t
      BY <1>0, <2>1, <3>1
    <3>2. CASE u # t
      BY <1>0, <2>2, <2>3, <3>2 DEF UnsentNumbered
    <3> QED
      BY <3>1, <3>2
  <2>4. nextCall' - 1 = nextCall
    BY <1>0
  <2> QED
    BY <2>2, <2>3, <2>4 DEF UnsentNumbered
<1>3. SentNumbered'
  <2>1. \A u \in Threads \ {t} : Unsent(u)' => Unsent(u) /\ call'[u] = call[u]
    BY DEF OthersKeep, Unsent
  <2> QED
    BY <1>0, <1>1, <2>1 DEF SentNumbered
<1>4. SentOnce'
  BY <1>1 DEF SentOnce
<1>5. NewCallsNotCarriedOut'
  BY <1>0 DEF NewCallsNotCarriedOut, CallIds
<1>6. AtMostOnce'
  BY DEF AtMostOnce
<1> QED
  BY <1>2, <1>3, <1>4, <1>5, <1>6

----------------------------------------------------------------------------
LEMMA CallKeepsOnce ==
  ASSUME TypeOK, OnceInvariant, NEW t \in Threads, Call(t), UNCHANGED serverVars
  PROVE  OnceInvariant'
<1>1. ASSUME NEW to, NEW op, NEW i, NEW k, NEW arg, MayCall(t, op), UNCHANGED connVars,
             Begin(t, to, NewCall(nextCall, op, i, k, arg))
      PROVE  OnceInvariant'
  <2>1. /\ OthersKeep(t)
        /\ call'[t] = NewCall(nextCall, op, i, k, arg)
        /\ nextCall' = nextCall + 1
    BY <1>1, BeginEffect
  <2>2. call'[t].id = nextCall /\ call'[t].msg.call = nextCall
    BY <2>1 DEF NewCall, Request
  <2> QED
    BY <1>1, <2>1, <2>2, OnceBegun DEF MayCall, connVars
<1>2. ASSUME NEW op, NEW rv, MayCall(t, op), Refuse(t, op, rv), UNCHANGED connVars
      PROVE  OnceInvariant'
  <2>1. NoNewRequest
    BY <1>2, RefuseEffect DEF NoNewRequest, OthersKeep, Unsent
  <2>2. nextCall' = nextCall + 1
    BY <1>2, RefuseEffect
  <2> QED
    BY <1>2, <2>1, <2>2, OnceKept DEF connVars, serverVars
<1>3. CASE NoEnvironment(t)
  BY <1>3, OnceKept DEF NoEnvironment, Die, NoNewRequest, threadVars, serverVars, Unsent
<1>4. CASE TlsInitFails(t) \/ NoContext(t) \/ \E i \in Slots : CancelContext(t, i)
  BY <1>2, <1>4 DEF TlsInitFails, NoContext, CancelContext
<1>5. CASE EstablishContext(t)
  BY <1>1, <1>5 DEF EstablishContext
<1>6. ASSUME NEW op \in AllOps, BlockOnMutex(t, op) PROVE OnceInvariant'
  BY <1>1, <1>6 DEF BlockOnMutex
<1>7. ASSUME NEW op \in AllOps, NEW i \in Slots, ContextCall(t, op, i)
      PROVE  OnceInvariant'
  BY <1>1, <1>2, <1>7 DEF ContextCall
<1>8. ASSUME NEW op \in AllOps, NEW k \in Slots, CardCall(t, op, k)
      PROVE  OnceInvariant'
  BY <1>1, <1>2, <1>8 DEF CardCall
<1> QED
  BY <1>3, <1>4, <1>5, <1>6, <1>7, <1>8 DEF Call

\* The request leaves its thread.
LEMMA SendKeepsOnce ==
  ASSUME TypeOK, OnceInvariant, NEW t \in Threads, Send(t), UNCHANGED serverVars
  PROVE  OnceInvariant'
<1> USE DEF OnceInvariant, serverVars
<1>s. PICK s \in Sessions : s = SessionOf(t)
  BY DEF Send, SessionOf, TypeOK, ClientTypeOK, ClientDomains, CallsPointOK, Contexts,
         Handles, Sessions, NoSession, NoCall
<1>i. PICK id \in Handles : id = call[t].id
  BY DEF TypeOK, ClientTypeOK, ClientDomains, Calls
<1>0. /\ toServer[s] \in Seq(Messages)
      /\ call[t].msg \in Messages
      /\ toServer \in [Sessions -> Seq(Messages)]
  BY DEF TypeOK, ClientTypeOK, ClientDomains, ConnTypeOK, Calls
<1>1. /\ Unsent(t) /\ ~Unsent(t)'
      /\ \A u \in Threads : Unsent(u)' => Unsent(u) /\ u # t
      /\ call' = call /\ nextCall' = nextCall
  BY DEF Send, Unsent, TypeOK, ClientTypeOK, ClientDomains
<1>2. NoNewRequest
  BY <1>1 DEF NoNewRequest
<1>3. CASE ~Usable(s)
  BY <1>s, <1>1, <1>2, <1>3, OnceKept DEF Send
<1>4. CASE Usable(s)
  <2>1. /\ toServer'[s] = Append(toServer[s], call[t].msg)
        /\ \A r \in Sessions \ {s} : toServer'[r] = toServer[r]
    BY <1>s, <1>0, <1>4 DEF Send
  <2>2. /\ id \in 1 .. nextCall - 1 /\ call[t].msg.call = id /\ executions[id] = 0
        /\ \A u \in Threads : u # t /\ Unsent(u) => call[u].id # id
    BY <1>i, <1>1 DEF UnsentNumbered
  <2>3. \A r \in Sessions, c \in Handles : Sent(r, c)' <=> Sent(r, c) \/ (r = s /\ c = id)
    <3>1. /\ Len(toServer'[s]) = Len(toServer[s]) + 1
          /\ Len(toServer[s]) \in Nat
          /\ toServer'[s][Len(toServer[s]) + 1] = call[t].msg
          /\ \A n \in 1 .. Len(toServer[s]) : toServer'[s][n] = toServer[s][n]
      BY <1>0, <2>1
    <3>2. ASSUME NEW c \in Handles PROVE Sent(s, c)' <=> Sent(s, c) \/ c = id
      <4>1. ASSUME Sent(s, c)' PROVE Sent(s, c) \/ c = id
        <5>1. PICK n \in 1 .. Len(toServer'[s]) : toServer'[s][n].call = c
          BY <4>1 DEF Sent
        <5>2. n \in 1 .. Len(toServer[s]) \/ n = Len(toServer[s]) + 1
          BY <3>1, <5>1
        <5> QED
          BY <2>2, <3>1, <5>1, <5>2 DEF Sent
      <4>2. ASSUME Sent(s, c) PROVE Sent(s, c)'
        <5>1. PICK n \in 1 .. Len(toServer[s]) : toServer[s][n].call = c
          BY <4>2 DEF Sent
        <5>2. n \in 1 .. Len(toServer'[s]) /\ toServer'[s][n].call = c
          BY <3>1, <5>1
        <5> QED
          BY <5>2 DEF Sent
      <4>3. ASSUME c = id PROVE Sent(s, c)'
        <5>1. Len(toServer[s]) + 1 \in 1 .. Len(toServer'[s])
          BY <3>1
        <5> QED
          BY <2>2, <3>1, <4>3, <5>1 DEF Sent
      <4> QED
        BY <4>1, <4>2, <4>3
    <3>3. ASSUME NEW r \in Sessions, NEW c \in Handles, r # s
          PROVE  Sent(r, c)' <=> Sent(r, c)
      BY <2>1, <3>3 DEF Sent
    <3> QED
      BY <3>2, <3>3
  <2>4. \A r \in Sessions, c \in Handles : InHand(r, c)' <=> InHand(r, c)
    BY DEF InHand
  <2>5. \A r \in Sessions : ~Sent(r, id) /\ ~InHand(r, id)
    BY <1>i, <1>1 DEF SentNumbered
  <2>6. UnsentNumbered'
    BY <1>1 DEF UnsentNumbered
  <2>7. SentNumbered'
    BY <1>i, <1>1, <2>2, <2>3, <2>4 DEF SentNumbered
  <2>8. SentOnce'
    <3>1. \A r \in Sessions, c \in Handles : ~(Sent(r, c)' /\ InHand(r, c)')
      BY <2>3, <2>4, <2>5 DEF SentOnce
    <3>2. \A q, r \in Sessions, c \in Handles :
            (Sent(q, c)' \/ InHand(q, c)') /\ (Sent(r, c)' \/ InHand(r, c)') => q = r
      BY <2>3, <2>4, <2>5 DEF SentOnce
    <3>3. ASSUME NEW r \in Sessions, NEW n \in 1 .. Len(toServer'[r]),
                 NEW m \in 1 .. Len(toServer'[r]),
                 toServer'[r][n].call = toServer'[r][m].call
          PROVE  n = m
      <4>1. CASE r # s
        BY <2>1, <3>3, <4>1 DEF SentOnce
      <4>2. CASE r = s
        <5>1. /\ Len(toServer'[s]) = Len(toServer[s]) + 1
              /\ Len(toServer[s]) \in Nat
              /\ toServer'[s][Len(toServer[s]) + 1] = call[t].msg
              /\ \A j \in 1 .. Len(toServer[s]) : toServer'[s][j] = toServer[s][j]
          BY <1>0, <2>1
        <5>3. \A j \in 1 .. Len(toServer[s]) : toServer[s][j].call # id
          BY <2>5 DEF Sent
        <5>4. \A j, k \in 1 .. Len(toServer[s]) :
                toServer[s][j].call = toServer[s][k].call => j = k
          BY DEF SentOnce
        <5>5. /\ n \in 1 .. Len(toServer[s]) \/ n = Len(toServer[s]) + 1
              /\ m \in 1 .. Len(toServer[s]) \/ m = Len(toServer[s]) + 1
          BY <4>2, <5>1
        <5>6. toServer'[s][Len(toServer[s]) + 1].call = id
          BY <2>2, <5>1
        <5> QED
          BY <3>3, <4>2, <5>1, <5>3, <5>4, <5>5, <5>6
      <4> QED
        BY <4>1, <4>2
    <3> QED
      BY <3>1, <3>2, <3>3 DEF SentOnce
  <2> QED
    BY <1>1, <2>6, <2>7, <2>8 DEF NewCallsNotCarriedOut, AtMostOnce
<1> QED
  BY <1>3, <1>4

LEMMA ContinueKeepsOnce ==
  ASSUME TypeOK, OnceInvariant, NEW t \in Threads, Continue(t), UNCHANGED serverVars
  PROVE  OnceInvariant'
<1>0. ASSUME NoNewRequest, nextCall' = nextCall,
             \A s \in Sessions : toServer'[s] = toServer[s] \/ toServer'[s] = << >>
      PROVE  OnceInvariant'
  BY <1>0, OnceKept DEF serverVars
<1>1. UNCHANGED threadVars => NoNewRequest
  BY DEF threadVars, NoNewRequest, Unsent
<1>2. CASE CreateCard(t)
  <2>1. NoNewRequest
    BY <1>2, CreateCardEffect
    DEF CreateCard, KeepsCall, OthersKeep, NoNewRequest, Unsent
  <2> QED
    BY <1>0, <1>2, <2>1 DEF CreateCard, connVars
<1>3. ASSUME NEW rv, NEW m, NEW a, Exchanged(t, rv, m, a) PROVE NoNewRequest
  BY <1>3, ExchangedEffect
  DEF KeepsCall, OthersKeep, NoNewRequest, Unsent, AfterExchange
<1>4. CASE NotConnected(t) \/ ReceiveReply(t) \/ ReceiveEnd(t) \/ ReceiveInterrupted(t)
  BY <1>0, <1>3, <1>4
  DEF NotConnected, ReceiveReply, ReceiveEnd, ReceiveInterrupted, ExchangeFails, connVars
<1>5. CASE ReceiveError(t)
  <2>1. \A s \in Sessions : toServer'[s] = toServer[s] \/ toServer'[s] = << >>
    BY <1>5 DEF ReceiveError, Break, TypeOK, ConnTypeOK
  <2> QED
    BY <1>0, <1>3, <1>5, <2>1 DEF ReceiveError, ExchangeFails
<1>6. CASE SendFails(t)
  BY <1>0, <1>1, <1>3, <1>6 DEF SendFails, ExchangeFails, Die, connVars, threadVars
<1>7. CASE OpenConnection(t)
  BY <1>0, <1>1, <1>7 DEF OpenConnection, threadVars
<1>8. CASE Send(t)
  BY <1>8, SendKeepsOnce
<1>9. CASE EnterRecv(t)
  <2>1. CASE SessionOf(t) = NoSession
    BY <1>0, <1>1, <1>9, <2>1 DEF EnterRecv, Die, threadVars
  <2>2. CASE SessionOf(t) # NoSession
    <3>1. NoNewRequest
      BY <1>9, <2>2, EnterRecvEffect
      DEF KeepsCall, OthersKeep, NoNewRequest, Unsent
    <3> QED
      BY <1>0, <1>9, <2>2, <3>1, EnterRecvEffect DEF connVars
  <2> QED
    BY <2>1, <2>2
<1>10. ASSUME NEW to \in {"done", "unlock"}, pc' = [pc EXCEPT ![t] = to], call' = call
       PROVE  NoNewRequest
  BY <1>10, MoveEffect DEF KeepsCall, OthersKeep, NoNewRequest, Unsent
<1>11. CASE FinishEstablish(t) \/ FinishRelease(t) \/ FinishConnect(t)
  BY <1>0, <1>10, <1>11 DEF FinishEstablish, FinishRelease, FinishConnect, connVars
<1>12. CASE CloseSession(t)
  BY <1>0, <1>1, <1>10, <1>12 DEF CloseSession, Die, threadVars
<1>13. CASE Return(t)
  <2>1. NoNewRequest
    BY <1>13 DEF Return, NoNewRequest, Unsent, TypeOK, ClientTypeOK, ClientDomains
  <2> QED
    BY <1>0, <1>13, <2>1 DEF Return, connVars
<1> QED
  BY <1>2, <1>4, <1>5, <1>6, <1>7, <1>8, <1>9, <1>11, <1>12, <1>13 DEF Continue

----------------------------------------------------------------------------
LEMMA ClientNoNewRequest ==
  UNCHANGED clientVars => NoNewRequest /\ UNCHANGED threadVars
BY DEF clientVars, threadVars, NoNewRequest, Unsent

\* The child takes the request into its hands: it is no longer on its way.
LEMMA ReceiveKeepsOnce ==
  ASSUME TypeOK, OnceInvariant, NEW s \in Sessions, ReceiveRequest(s),
         UNCHANGED clientVars
  PROVE  OnceInvariant'
<1> USE DEF OnceInvariant
<1> DEFINE q == toServer[s]
<1>0. /\ q \in Seq(Messages) /\ q # << >>
      /\ Len(q) \in Nat /\ Len(q) >= 1
      /\ Head(q) = q[1] /\ q[1] \in Messages /\ q[1].call \in Handles
  <2>1. q \in Seq(Messages) /\ q # << >>
    BY DEF ReceiveRequest, TypeOK, ConnTypeOK
  <2>2. Len(q) \in Nat /\ Len(q) >= 1 /\ Head(q) = q[1] /\ q[1] \in Messages
    BY <2>1
  <2>3. q[1].call \in Handles
    BY <2>2 DEF Messages
  <2> QED
    BY <2>1, <2>2, <2>3
<1>1. /\ toServer'[s] = Tail(q)
      /\ request'[s] = q[1]
      /\ child'[s] = "execute" /\ child[s] = "recv"
      /\ \A r \in Sessions \ {s} : /\ toServer'[r] = toServer[r]
                                   /\ request'[r] = request[r]
                                   /\ child'[r] = child[r]
      /\ executions' = executions
  BY <1>0 DEF ReceiveRequest, TypeOK, ConnTypeOK, ServerTypeOK
<1>2. /\ Len(toServer'[s]) = Len(q) - 1
      /\ \A n \in 1 .. Len(q) - 1 : toServer'[s][n] = q[n + 1]
  BY <1>0, <1>1
<1>3. /\ nextCall' = nextCall /\ call' = call
      /\ \A u \in Threads : Unsent(u)' <=> Unsent(u)
  BY DEF clientVars, threadVars, Unsent
<1>4. \A c \in Handles : Sent(s, c)' => Sent(s, c) /\ c # q[1].call
  <2> SUFFICES ASSUME NEW c \in Handles, NEW n \in 1 .. Len(q) - 1, q[n + 1].call = c
               PROVE  Sent(s, c) /\ c # q[1].call
    BY <1>0, <1>2 DEF Sent
  <2>1. n + 1 \in 1 .. Len(q) /\ 1 \in 1 .. Len(q) /\ n + 1 # 1
    BY <1>0
  <2> QED
    BY <2>1 DEF Sent, SentOnce
<1>5. \A c \in Handles : InHand(s, c)' => c = q[1].call /\ Sent(s, c)
  BY <1>0, <1>1 DEF InHand, Sent
<1>6. \A r \in Sessions \ {s}, c \in Handles : /\ Sent(r, c)' <=> Sent(r, c)
                                               /\ InHand(r, c)' <=> InHand(r, c)
  BY <1>1 DEF Sent, InHand
<1>7. UnsentNumbered'
  BY <1>1, <1>3 DEF UnsentNumbered
<1>8. \A r \in Sessions, c \in Handles : Sent(r, c)' \/ InHand(r, c)' =>
                                         Sent(r, c) \/ InHand(r, c)
  BY <1>4, <1>5, <1>6
<1>9. SentNumbered'
  BY <1>1, <1>3, <1>8 DEF SentNumbered
<1>10. SentOnce'
  <2>1. \A r \in Sessions, c \in Handles : ~(Sent(r, c)' /\ InHand(r, c)')
    BY <1>4, <1>5, <1>6 DEF SentOnce
  <2>2. \A p, r \in Sessions, c \in Handles :
          (Sent(p, c)' \/ InHand(p, c)') /\ (Sent(r, c)' \/ InHand(r, c)') => p = r
    BY <1>8 DEF SentOnce
  <2>3. ASSUME NEW r \in Sessions, NEW n \in 1 .. Len(toServer'[r]),
               NEW m \in 1 .. Len(toServer'[r]),
               toServer'[r][n].call = toServer'[r][m].call
        PROVE  n = m
    <3>1. CASE r # s
      BY <1>1, <2>3, <3>1 DEF SentOnce
    <3>2. CASE r = s
      <4>1. n + 1 \in 1 .. Len(q) /\ m + 1 \in 1 .. Len(q)
        BY <1>0, <1>2, <3>2
      <4>2. q[n + 1].call = q[m + 1].call
        BY <1>2, <2>3, <3>2
      <4>3. n + 1 = m + 1
        BY <4>1, <4>2 DEF SentOnce
      <4> QED
        BY <1>0, <1>2, <3>2, <4>3
    <3> QED
      BY <3>1, <3>2
  <2> QED
    BY <2>1, <2>2, <2>3 DEF SentOnce
<1> QED
  BY <1>1, <1>3, <1>7, <1>9, <1>10 DEF NewCallsNotCarriedOut, AtMostOnce

\* The service carries out the call: its request is in nobody's hands any more.
LEMMA ExecuteKeepsOnce ==
  ASSUME TypeOK, OnceInvariant, NEW s \in Sessions, Execute(s), UNCHANGED clientVars
  PROVE  OnceInvariant'
<1> USE DEF OnceInvariant
<1> DEFINE c == request[s].call
<1>0. c \in Handles /\ executions \in [CallIds -> Nat]
  BY DEF TypeOK, ServerTypeOK, Messages
<1>1. /\ InHand(s, c)
      /\ toServer' = toServer
      /\ \A r \in Sessions : child'[r] = "execute" =>
           r # s /\ child[r] = "execute" /\ request'[r] = request[r]
  BY DEF Execute, InHand, connVars, TypeOK, ServerTypeOK
<1>2. NoNewRequest /\ nextCall' = nextCall /\ call' = call
      /\ \A u \in Threads : Unsent(u)' <=> Unsent(u)
  BY ClientNoNewRequest DEF threadVars, clientVars, Unsent
<1>3. CASE executions' = executions
  BY <1>1, <1>2, <1>3, OnceKept
<1>4. CASE executions' = [executions EXCEPT ![c] = executions[c] + 1]
  <2>1. /\ c \in 1 .. nextCall - 1 /\ executions[c] = 0
        /\ \A t \in Threads : Unsent(t) => call[t].id # c
        /\ \A r \in Sessions : Sent(r, c) \/ InHand(r, c) => r = s
        /\ ~Sent(s, c)
    BY <1>0, <1>1 DEF SentNumbered, SentOnce
  <2>2. \A d \in CallIds : executions'[d] = IF d = c THEN 1 ELSE executions[d]
    BY <1>0, <1>4, <2>1
  <2>3. \A d \in CallIds : d # c => executions'[d] = executions[d]
    BY <1>0, <1>4
  <2>4. \A r \in Sessions, d \in Handles : Sent(r, d)' \/ InHand(r, d)' =>
                                           (Sent(r, d) \/ InHand(r, d)) /\ d # c
    BY <1>1, <2>1 DEF Sent, InHand
  <2>5. 1 .. nextCall - 1 \subseteq CallIds
    BY BoundsAssumption DEF CallIds, TypeOK, ClientTypeOK, ClientDomains
  <2>6. UnsentNumbered'
    BY <1>2, <2>1, <2>3, <2>5 DEF UnsentNumbered
  <2>7. SentNumbered'
    BY <1>2, <2>3, <2>4, <2>5 DEF SentNumbered
  <2>8. SentOnce'
    <3>1. \A r \in Sessions, d \in Handles : /\ Sent(r, d)' => Sent(r, d)
                                             /\ InHand(r, d)' => InHand(r, d)
      BY <1>1 DEF Sent, InHand
    <3> QED
      BY <1>1, <3>1 DEF SentOnce
  <2>9. NewCallsNotCarriedOut'
    <3>1. nextCall \in Nat
      BY NextCallType
    <3> QED
      BY <1>2, <2>1, <2>3, <3>1 DEF NewCallsNotCarriedOut, CallIds
  <2>10. AtMostOnce'
    BY <2>2 DEF AtMostOnce
  <2> QED
    BY <2>6, <2>7, <2>8, <2>9, <2>10
<1> QED
  BY <1>3, <1>4 DEF Execute

LEMMA ServerKeepsOnce ==
  ASSUME TypeOK, OnceInvariant, NEW s \in Sessions, ServerStep(s)
  PROVE  OnceInvariant'
<1>0. UNCHANGED clientVars /\ NoNewRequest /\ nextCall' = nextCall
  BY ClientNoNewRequest DEF ServerStep, threadVars
<1>1. ASSUME Exit(s) PROVE OnceInvariant'
  <2>1. \A r \in Sessions : toServer'[r] = toServer[r] \/ toServer'[r] = << >>
    BY <1>1 DEF Exit, Break, TypeOK, ConnTypeOK
  <2>2. \A r \in Sessions : child'[r] = "execute" =>
          child[r] = "execute" /\ request'[r] = request[r]
    BY <1>1 DEF Exit, TypeOK, ServerTypeOK
  <2> QED
    BY <1>0, <1>1, <2>1, <2>2, OnceKept DEF Exit
<1>2. CASE ReceiveRequest(s)
  BY <1>0, <1>2, ReceiveKeepsOnce
<1>3. CASE Execute(s)
  BY <1>0, <1>3, ExecuteKeepsOnce
<1>4. CASE SendReply(s)
  <2>1. \A r \in Sessions : child'[r] = "execute" =>
          child[r] = "execute" /\ request'[r] = request[r]
    BY <1>4 DEF SendReply, TypeOK, ServerTypeOK
  <2> QED
    BY <1>0, <1>4, <2>1, OnceKept DEF SendReply
<1>5. CASE EndOfRequests(s) \/ ReplyFails(s) \/ ChildDies(s)
  BY <1>1, <1>5 DEF EndOfRequests, ReplyFails, ChildDies
<1> QED
  BY <1>2, <1>3, <1>4, <1>5 DEF ServerStep, ChildStep

----------------------------------------------------------------------------
THEOREM InitOnceInvariant == Init => OnceInvariant
<1> SUFFICES ASSUME Init PROVE OnceInvariant
  OBVIOUS
<1> USE DEF Init, ClientInit, ServerInit, ConnInit
<1>1. UnsentNumbered
  BY DEF UnsentNumbered, Unsent
<1>2. \A s \in Sessions, c \in Handles : ~Sent(s, c) /\ ~InHand(s, c)
  BY DEF Sent, InHand
<1>3. SentNumbered
  BY <1>2 DEF SentNumbered
<1>4. SentOnce
  BY <1>2 DEF SentOnce
<1> QED
  BY <1>1, <1>3, <1>4 DEF OnceInvariant, NewCallsNotCarriedOut, AtMostOnce

LEMMA OnceInvariantInductive ==
  ASSUME TypeOK, OnceInvariant, [Next]_vars
  PROVE  OnceInvariant'
<1>1. ASSUME NEW t \in Threads, ClientStep(t) PROVE OnceInvariant'
  BY <1>1, CallKeepsOnce, ContinueKeepsOnce DEF ClientStep
<1>2. ASSUME NEW s \in Sessions, ServerStep(s) PROVE OnceInvariant'
  BY <1>2, ServerKeepsOnce
<1>3. ASSUME NEW s \in Sessions, NetworkStep(s) PROVE OnceInvariant'
  <2>1. \A r \in Sessions : toServer'[r] = toServer[r] \/ toServer'[r] = << >>
    BY <1>3 DEF NetworkStep, NetworkReset, Break, TypeOK, ConnTypeOK
  <2> QED
    BY <1>3, <2>1, ClientNoNewRequest, OnceKept
    DEF NetworkStep, serverVars, threadVars
<1>4. CASE UNCHANGED vars
  BY <1>4, ClientNoNewRequest, OnceKept DEF vars, serverVars, connVars, threadVars
<1> QED
  BY <1>1, <1>2, <1>3, <1>4 DEF Next

(***************************************************************************)
(* The request of a call is with its thread, on its way or with one child, *)
(* for every application and every failure.                                *)
(***************************************************************************)
THEOREM OnceInvariantCorrect == Spec => []OnceInvariant
<1>1. TypeOK /\ OnceInvariant /\ [Next]_vars => OnceInvariant'
  BY OnceInvariantInductive
<1> QED
  BY InitOnceInvariant, TypeCorrect, <1>1, PTL DEF Spec

(***************************************************************************)
(* The PC/SC service carries out a call at most once, for every number of  *)
(* threads, slots and calls, for every use the application makes of its    *)
(* handles, and whatever fails.                                            *)
(***************************************************************************)
THEOREM AtMostOnceCorrect == Spec => []AtMostOnce
<1>1. OnceInvariant => AtMostOnce
  BY DEF OnceInvariant
<1> QED
  BY OnceInvariantCorrect, <1>1, PTL
=============================================================================
