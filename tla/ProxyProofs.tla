----------------------------- MODULE ProxyProofs -----------------------------
(***************************************************************************)
(* Theorems about Proxy, for every set of threads, every size of the       *)
(* tables and every number of calls.                                       *)
(***************************************************************************)
EXTENDS ProxyInvariant, TLAPS

LEMMA RequestType ==
  ASSUME NEW id \in Handles, NEW op \in AllOps, NEW arg \in Handles
  PROVE  Request(id, op, arg) \in Messages
BY DEF Request, Messages, Handles, NoCall

LEMMA NewCallType ==
  ASSUME NEW id \in Handles, NEW op \in AllOps, NEW arg \in Handles,
         NEW i \in Slots \cup {NoSlot}, NEW k \in Slots \cup {NoSlot}
  PROVE  NewCall(id, op, i, k, arg) \in Calls
BY RequestType DEF NewCall, Calls, Handles, NoCall, NoSession

LEMMA IdleType == Idle \in Calls
BY NewCallType DEF Idle, AllOps, Handles

\* What the calls that pass a request on have in common, and who checks nothing.
LEMMA LibraryChecks ==
  /\ \A op : BadArguments(op) \subseteq {"invalid", "internal"}
  /\ BadArguments("ReleaseContext") = {}
  /\ BadArguments("Disconnect") = {}
  /\ "EstablishContext" \notin ChecksReply
<1> USE DEF Library, ContextLibrary, CardLibrary, PassesOn, SCardConnect,
        SCardIsValidContext, SCardSetTimeout, SCardGetStatusChange, SCardListReaders,
        SCardListReaderGroups, SCardReconnect, SCardDisconnect, SCardBeginTransaction,
        SCardEndTransaction, SCardCancelTransaction, SCardStatus, SCardControl,
        SCardTransmit, SCardGetAttrib, SCardSetAttrib
<1>1. \A c \in Library : /\ c.refuses \subseteq {"invalid", "internal"}
                         /\ c.op = "Disconnect" => c.refuses = {}
                         /\ c.op \notin {"ReleaseContext", "EstablishContext"}
  OBVIOUS
<1>2. \A op : \A rv \in BadArguments(op) : \E c \in Library : c.op = op /\ rv \in c.refuses
  BY DEF BadArguments
<1>3. \A op \in ChecksReply : \E c \in Library : c.op = op
  BY DEF ChecksReply
<1> QED
  BY ONLY <1>1, <1>2, <1>3

THEOREM InitTypeOK == Init => TypeOK
<1>1. ASSUME ClientInit PROVE ClientTypeOK
  <2> USE <1>1 DEF ClientInit
  <2>1. contextArray \in [Slots -> Contexts]
    BY DEF Contexts, Handles, NoCall, NoSession
  <2>2. cardArray \in [Slots -> Cards]
    BY DEF Cards, Handles, NoCall
  <2>3. call \in [Threads -> Calls]
    BY IdleType
  <2>4. nextCall \in 1 .. MaxCalls + 1
    BY BoundsAssumption
  <2> QED
    BY <2>1, <2>2, <2>3, <2>4 DEF ClientTypeOK, ClientDomains, CallsPointOK
<1>2. ServerInit => ServerTypeOK
  <2>1. NoRequest \in Messages
    BY RequestType DEF NoRequest, AllOps, Handles
  <2>2. Empty \in ServiceStates
    BY DEF Empty, ServiceStates
  <2> QED
    BY <2>1, <2>2 DEF ServerInit, ServerTypeOK
<1>3. ConnInit => ConnTypeOK
  BY DEF ConnInit, ConnTypeOK
<1> QED
  BY <1>1, <1>2, <1>3 DEF Init, TypeOK

----------------------------------------------------------------------------
\* What the calls and messages look like after the assignments of the code.
LEMMA OutcomeType ==
  ASSUME NEW c \in Calls, NEW m \in Messages, NEW a \in Handles,
         NEW rv \in {"none", "ok", "error", "internal", "invalid"}
  PROVE  [c EXCEPT !.rv = rv, !.msg = m, !.answer = a] \in Calls
BY DEF Calls

LEMMA ExchangedType ==
  ASSUME TypeOK, NEW t \in Threads, NEW m \in Messages, NEW a \in Handles,
         NEW rv \in {"none", "ok", "error", "internal", "invalid"},
         Exchanged(t, rv, m, a)
  PROVE  /\ call' \in [Threads -> Calls]
         /\ pc' \in [Threads -> {"idle", "blocked", "card", "send", "enter", "recv",
                                 "finish", "unlock", "done"}]
<1>1. call[t] \in Calls
  BY DEF TypeOK, ClientTypeOK, ClientDomains
<1>2. call' = [call EXCEPT ![t] = [call[t] EXCEPT !.rv = rv, !.msg = m, !.answer = a]]
  BY DEF Exchanged
<1>3. [call[t] EXCEPT !.rv = rv, !.msg = m, !.answer = a] \in Calls
  BY <1>1, OutcomeType
<1> QED
  BY <1>2, <1>3 DEF Exchanged, AfterExchange, TypeOK, ClientTypeOK, ClientDomains

LEMMA BeginType ==
  ASSUME TypeOK, NEW t \in Threads, nextCall <= MaxCalls, NEW c \in Calls,
         NEW to \in {"blocked", "card", "send", "done"}, Begin(t, to, c)
  PROVE  /\ call' \in [Threads -> Calls]
         /\ pc' \in [Threads -> {"idle", "blocked", "card", "send", "enter", "recv",
                                 "finish", "unlock", "done"}]
         /\ nextCall' \in 1 .. MaxCalls + 1
BY BoundsAssumption DEF Begin, TypeOK, ClientTypeOK, ClientDomains

LEMMA RefuseType ==
  ASSUME TypeOK, NEW t \in Threads, nextCall <= MaxCalls, NEW op \in AllOps,
         NEW rv \in {"internal", "invalid"}, Refuse(t, op, rv)
  PROVE  /\ call' \in [Threads -> Calls]
         /\ pc' \in [Threads -> {"idle", "blocked", "card", "send", "enter", "recv",
                                 "finish", "unlock", "done"}]
         /\ nextCall' \in 1 .. MaxCalls + 1
<1> DEFINE c == NewCall(nextCall, op, NoSlot, NoSlot, NoCall)
<1>1. nextCall \in Handles /\ NoCall \in Handles
  BY BoundsAssumption DEF TypeOK, ClientTypeOK, ClientDomains, Handles, CallIds
<1>2. c \in Calls
  BY <1>1, NewCallType
<1>3. [c EXCEPT !.rv = rv] \in Calls
  BY <1>2 DEF Calls
<1> QED
  BY <1>3, BeginType DEF Refuse

LEMMA BreakType ==
  ASSUME ConnTypeOK, NEW s, Break(s)
  PROVE  /\ broken' \in [Sessions -> BOOLEAN]
         /\ toServer' \in [Sessions -> Seq(Messages)]
         /\ toClient' \in [Sessions -> Seq(Messages)]
<1>1. << >> \in Seq(Messages)
  OBVIOUS
<1> QED
  BY <1>1 DEF Break, ConnTypeOK

\* A step of a thread keeps the types of the client's and the connection's state.
LEMMA DieType ==
  ASSUME TypeOK, Die
  PROVE  ClientDomains' /\ CallsPointOK' /\ ConnTypeOK'
BY DEF TypeOK, ClientTypeOK, Die, ClientDomains, CallsPointOK, ConnTypeOK, tableVars,
       threadVars, ownerVars

LEMMA CallTypeOK ==
  ASSUME TypeOK, NEW t \in Threads, Call(t)
  PROVE  ClientDomains' /\ ConnTypeOK'
<1> USE DEF TypeOK, ClientTypeOK
<1>d. CASE NoEnvironment(t)
  BY <1>d, DieType DEF NoEnvironment
<1>0. nextCall <= MaxCalls => nextCall \in Handles
  BY BoundsAssumption DEF ClientDomains, Handles, CallIds
<1>1. CASE TlsInitFails(t)
  BY <1>1, RefuseType
  DEF TlsInitFails, MayCall, ClientDomains, ownerVars, connVars, ConnTypeOK, AllOps
<1>2. CASE NoContext(t)
  BY <1>2, RefuseType
  DEF NoContext, MayCall, ClientDomains, ownerVars, connVars, ConnTypeOK, AllOps
<1>3. CASE EstablishContext(t)
  <2>1. PICK i \in Slots :
          /\ First(i, FreeContexts)
          /\ contextArray' = [contextArray EXCEPT ![i].used = TRUE]
          /\ Begin(t, "send",
                   NewCall(nextCall, "EstablishContext", i, NoSlot, NoCall))
    BY <1>3 DEF EstablishContext
  <2>2. NewCall(nextCall, "EstablishContext", i, NoSlot, NoCall) \in Calls
    BY <1>0, <1>3, <2>1, NewCallType
    DEF EstablishContext, MayCall, AllOps, Handles
  <2>3. contextArray' \in [Slots -> Contexts]
    BY <1>3, <2>1 DEF EstablishContext, ClientDomains, Contexts
  <2> QED
    BY <1>3, <2>1, <2>2, <2>3, BeginType
    DEF EstablishContext, MayCall, ClientDomains, ownerVars, connVars, ConnTypeOK
<1>4. ASSUME NEW op \in AllOps, BlockOnMutex(t, op)
      PROVE  ClientDomains' /\ ConnTypeOK'
  <2>1. NewCall(nextCall, op, NoSlot, NoSlot, NoCall) \in Calls
    BY <1>0, <1>4, NewCallType DEF BlockOnMutex, MayCall, Handles
  <2> QED
    BY <1>4, <2>1, BeginType
    DEF BlockOnMutex, MayCall, ClientDomains, tableVars, ownerVars, connVars, ConnTypeOK
<1>5. ASSUME NEW op \in AllOps, NEW i \in Slots, ContextCall(t, op, i)
      PROVE  ClientDomains' /\ ConnTypeOK'
  <2>1. NewCall(nextCall, op, i, NoSlot, contextArray[i].pcsc) \in Calls
    BY <1>0, <1>5, NewCallType DEF ContextCall, MayCall, ClientDomains, Contexts
  <2>2. /\ call' \in [Threads -> Calls]
        /\ pc' \in [Threads -> {"idle", "blocked", "card", "send", "enter", "recv",
                                "finish", "unlock", "done"}]
        /\ nextCall' \in 1 .. MaxCalls + 1
    BY <1>5, <2>1, BeginType, RefuseType, LibraryChecks DEF ContextCall, MayCall
  <2>3. /\ contextOwner' \in [Slots -> Threads \cup {None}]
        /\ cardOwner' \in [Slots -> Threads \cup {None}]
    BY <1>5 DEF ContextCall, ClientDomains
  <2> QED
    BY <1>5, <2>2, <2>3
    DEF ContextCall, ClientDomains, tableVars, connVars, ConnTypeOK
<1>6. ASSUME NEW op \in AllOps, NEW k \in Slots, CardCall(t, op, k)
      PROVE  ClientDomains' /\ ConnTypeOK'
  <2>1. /\ cardArray[k].ctx \in Slots \cup {NoSlot}
        /\ cardArray[k].pcsc \in Handles
    BY DEF ClientDomains, Cards
  <2>2. NewCall(nextCall, op, cardArray[k].ctx, k,
                IF op = "Cancel" THEN NoCall ELSE cardArray[k].pcsc) \in Calls
    BY <1>0, <1>6, <2>1, NewCallType DEF CardCall, MayCall, Handles
  <2>3. /\ call' \in [Threads -> Calls]
        /\ pc' \in [Threads -> {"idle", "blocked", "card", "send", "enter", "recv",
                                "finish", "unlock", "done"}]
        /\ nextCall' \in 1 .. MaxCalls + 1
    BY <1>6, <2>2, BeginType, RefuseType, LibraryChecks DEF CardCall, MayCall
  <2>4. cardOwner' \in [Slots -> Threads \cup {None}]
    BY <1>6 DEF CardCall, ClientDomains
  <2> QED
    BY <1>6, <2>3, <2>4 DEF CardCall, ClientDomains, tableVars, connVars, ConnTypeOK
<1>7. ASSUME NEW i \in Slots, CancelContext(t, i)
      PROVE  ClientDomains' /\ ConnTypeOK'
  BY <1>7, RefuseType
  DEF CancelContext, MayCall, ClientDomains, tableVars, ownerVars, connVars,
      ConnTypeOK, AllOps
<1> QED
  BY <1>d, <1>1, <1>2, <1>3, <1>4, <1>5, <1>6, <1>7 DEF Call

LEMMA ContinueTypeOK ==
  ASSUME TypeOK, NEW t \in Threads, Continue(t)
  PROVE  ClientDomains' /\ ConnTypeOK'
<1> USE DEF TypeOK, ClientTypeOK
<1>0. /\ call[t] \in Calls
      /\ call[t].msg \in Messages
      /\ call[t].msg.rv \in {"ok", "error"}
      /\ call[t].msg.res \in Handles
      /\ NoCall \in Handles
  BY DEF ClientDomains, Calls, Messages, Handles
<1>p. /\ pc[t] \in {"card", "send", "enter", "recv", "finish", "unlock"} =>
           call[t].id \in CallIds /\ call[t].ctx \in Slots
      /\ pc[t] = "recv" => call[t].session \in Sessions
  BY DEF CallsPointOK
<1>f. ASSUME ExchangeFails(t)
      PROVE  /\ call' \in [Threads -> Calls]
             /\ pc' \in [Threads -> {"idle", "blocked", "card", "send", "enter",
                                     "recv", "finish", "unlock", "done"}]
  BY <1>f, <1>0, ExchangedType DEF ExchangeFails
<1>d. ASSUME Die PROVE ClientDomains' /\ ConnTypeOK'
  BY <1>d, DieType
<1>1. CASE CreateCard(t)
  <2>1. ASSUME call' = [call EXCEPT ![t].rv = "internal"], UNCHANGED cardArray
        PROVE  call' \in [Threads -> Calls] /\ cardArray' \in [Slots -> Cards]
    BY <2>1 DEF ClientDomains, Calls
  <2>2. ASSUME NEW k \in Slots,
               cardArray' = [cardArray EXCEPT ![k].used = TRUE, ![k].ctx = call[t].ctx],
               call' = [call EXCEPT ![t].card = k]
        PROVE  call' \in [Threads -> Calls] /\ cardArray' \in [Slots -> Cards]
    <3>1. call' \in [Threads -> Calls]
      BY <2>2 DEF ClientDomains, Calls
    <3>2. call[t].ctx \in Slots
      BY <1>1, <1>p DEF CreateCard
    <3>3. cardArray' \in [Slots -> Cards]
      BY <2>2, <3>2 DEF ClientDomains, Cards
    <3> QED
      BY <3>1, <3>3
  <2>3. call' \in [Threads -> Calls] /\ cardArray' \in [Slots -> Cards]
    BY <1>1, <2>1, <2>2 DEF CreateCard
  <2>4. pc' \in [Threads -> {"idle", "blocked", "card", "send", "enter", "recv",
                            "finish", "unlock", "done"}]
    BY <1>1 DEF CreateCard, ClientDomains
  <2> QED
    BY <1>1, <2>3, <2>4 DEF CreateCard, ClientDomains, ownerVars, connVars, ConnTypeOK
<1>2. CASE NotConnected(t)
  BY <1>2, <1>f
  DEF NotConnected, ClientDomains, tableVars, ownerVars, connVars, ConnTypeOK
<1>3. CASE OpenConnection(t)
  <2>1. contextArray' \in [Slots -> Contexts]
    BY <1>3, <1>p DEF OpenConnection, ClientDomains, Contexts, Sessions
  <2> QED
    BY <1>3, <2>1
    DEF OpenConnection, ClientDomains, threadVars, ownerVars, ConnTypeOK
<1>4. CASE Send(t)
  <2>1. toServer' \in [Sessions -> Seq(Messages)]
    <3>1. ASSUME NEW s \in Sessions
          PROVE  Append(toServer[s], call[t].msg) \in Seq(Messages)
      BY <1>0 DEF ConnTypeOK
    <3>2. \/ toServer' = toServer
          \/ toServer' = [toServer EXCEPT ![SessionOf(t)] =
                                            Append(toServer[SessionOf(t)], call[t].msg)]
      BY <1>4 DEF Send
    <3> QED
      BY <3>1, <3>2 DEF ConnTypeOK
  <2> QED
    BY <1>4, <2>1 DEF Send, ClientDomains, tableVars, ownerVars, ConnTypeOK
<1>5. CASE SendFails(t)
  BY <1>5, <1>f, <1>d
  DEF SendFails, ClientDomains, tableVars, ownerVars, connVars, ConnTypeOK
<1>6. CASE EnterRecv(t)
  <2>1. CASE SessionOf(t) # NoSession /\ ~Die
    <3>1. SessionOf(t) \in Sessions
      BY <1>6, <2>1, <1>p DEF EnterRecv, ClientDomains, Contexts, SessionOf
    <3>2. [call[t] EXCEPT !.session = SessionOf(t)] \in Calls
      BY <1>0, <3>1 DEF Calls
    <3>3. call' = [call EXCEPT ![t] = [call[t] EXCEPT !.session = SessionOf(t)]]
      BY <1>6, <2>1 DEF EnterRecv
    <3>4. call' \in [Threads -> Calls]
      BY <3>2, <3>3 DEF ClientDomains
    <3> QED
      BY <1>6, <2>1, <3>4
      DEF EnterRecv, ClientDomains, tableVars, ownerVars, connVars, ConnTypeOK
  <2> QED
    BY <1>6, <2>1, <1>d DEF EnterRecv
<1>7. CASE ReceiveReply(t)
  <2> DEFINE s == call[t].session
             m == Head(toClient[s])
  <2>1. s \in Sessions /\ toClient[s] \in Seq(Messages) /\ toClient[s] # << >>
    BY <1>7, <1>p DEF ReceiveReply, ConnTypeOK
  <2>2. m \in Messages /\ Tail(toClient[s]) \in Seq(Messages)
    BY <2>1
  <2>3. m.rv \in {"ok", "error"} /\ m.call \in Handles
    BY <2>2 DEF Messages
  <2>4. Exchanged(t, m.rv, m, m.call) \/ Exchanged(t, "internal", m, m.call)
    BY <1>7 DEF ReceiveReply
  <2>5. /\ call' \in [Threads -> Calls]
        /\ pc' \in [Threads -> {"idle", "blocked", "card", "send", "enter",
                                "recv", "finish", "unlock", "done"}]
    BY <2>2, <2>3, <2>4, ExchangedType
  <2>6. toClient' \in [Sessions -> Seq(Messages)]
    BY <1>7, <2>2 DEF ReceiveReply, ConnTypeOK
  <2> QED
    BY <1>7, <2>5, <2>6
    DEF ReceiveReply, ClientDomains, tableVars, ownerVars, ConnTypeOK
<1>8. CASE ReceiveEnd(t)
  BY <1>8, <1>0, <1>f, ExchangedType
  DEF ReceiveEnd, ClientDomains, tableVars, ownerVars, connVars, ConnTypeOK
<1>9. CASE ReceiveError(t)
  <2>1. /\ broken' \in [Sessions -> BOOLEAN]
        /\ toServer' \in [Sessions -> Seq(Messages)]
        /\ toClient' \in [Sessions -> Seq(Messages)]
    BY <1>9, BreakType DEF ReceiveError
  <2> QED
    BY <1>9, <1>f, <2>1 DEF ReceiveError, ClientDomains, tableVars, ownerVars, ConnTypeOK
<1>10. CASE ReceiveInterrupted(t)
  BY <1>10, <1>f
  DEF ReceiveInterrupted, ClientDomains, tableVars, ownerVars, connVars, ConnTypeOK
<1>11. CASE FinishEstablish(t)
  <2>1. contextArray' \in [Slots -> Contexts]
    <3>1. \/ contextArray' = [contextArray EXCEPT ![call[t].ctx].pcsc = call[t].msg.res]
          \/ contextArray' = [contextArray EXCEPT ![call[t].ctx].used = FALSE]
      BY <1>11 DEF FinishEstablish
    <3>2. call[t].ctx \in Slots /\ contextArray[call[t].ctx] \in Contexts
      BY <1>11, <1>p DEF FinishEstablish, Finishing, ClientDomains
    <3>3. /\ [contextArray[call[t].ctx] EXCEPT !.pcsc = call[t].msg.res] \in Contexts
          /\ [contextArray[call[t].ctx] EXCEPT !.used = FALSE] \in Contexts
      BY <3>2, <1>0 DEF Contexts
    <3> QED
      BY <3>1, <3>2, <3>3 DEF ClientDomains
  <2> QED
    BY <1>11, <2>1 DEF FinishEstablish, Finishing, ClientDomains, connVars, ConnTypeOK
<1>12. CASE CloseSession(t)
  <2>1. CASE Die
    BY <2>1, <1>d
  <2>2. CASE ~Die
    <3>1. contextArray' \in [Slots -> Contexts]
      BY <1>12, <2>2 DEF CloseSession, ClientDomains, Contexts, NoSession
    <3> QED
      BY <1>12, <2>2, <3>1
      DEF CloseSession, Finishing, ClientDomains, ownerVars, ConnTypeOK
  <2> QED
    BY <2>1, <2>2
<1>13. CASE FinishRelease(t)
  <2>1. contextArray' \in [Slots -> Contexts]
    BY <1>13 DEF FinishRelease, ClientDomains, Contexts
  <2> QED
    BY <1>13, <2>1 DEF FinishRelease, ClientDomains, ownerVars, connVars, ConnTypeOK
<1>14. CASE FinishConnect(t)
  <2>1. cardArray' \in [Slots -> Cards]
    <3>1. \/ cardArray' = [cardArray EXCEPT ![call[t].card].pcsc = call[t].msg.res]
          \/ cardArray' = [cardArray EXCEPT ![call[t].card].used = FALSE]
      BY <1>14 DEF FinishConnect
    <3>2. ASSUME NEW c \in Cards
          PROVE  /\ [c EXCEPT !.pcsc = call[t].msg.res] \in Cards
                 /\ [c EXCEPT !.used = FALSE] \in Cards
      BY <1>0 DEF Cards
    <3> QED
      BY <3>1, <3>2 DEF ClientDomains
  <2> QED
    BY <1>14, <2>1 DEF FinishConnect, Finishing, ClientDomains, connVars, ConnTypeOK
<1>15. CASE Return(t)
  BY <1>15, IdleType
  DEF Return, ClientDomains, tableVars, ownerVars, connVars, ConnTypeOK
<1> QED
  BY <1>1, <1>2, <1>3, <1>4, <1>5, <1>6, <1>7, <1>8, <1>9, <1>10, <1>11, <1>12,
     <1>13, <1>14, <1>15 DEF Continue

\* A call that goes on past its find has an entry of the table.
LEMMA PointsKept ==
  ASSUME TypeOK, NEW t \in Threads,
         \A u \in Threads \ {t} : pc'[u] = pc[u] /\ call'[u] = call[u],
         pc'[t] \in {"card", "send", "enter", "recv", "finish", "unlock"} =>
           call'[t].id \in CallIds /\ call'[t].ctx \in Slots,
         pc'[t] = "recv" => call'[t].session \in Sessions
  PROVE  CallsPointOK'
<1>1. ASSUME NEW u \in Threads, u # t
      PROVE  /\ pc'[u] \in {"card", "send", "enter", "recv", "finish", "unlock"} =>
                  call'[u].id \in CallIds /\ call'[u].ctx \in Slots
             /\ pc'[u] = "recv" => call'[u].session \in Sessions
  BY <1>1 DEF TypeOK, ClientTypeOK, CallsPointOK
<1> QED
  BY <1>1 DEF CallsPointOK

LEMMA CallPoints ==
  ASSUME TypeOK, NEW t \in Threads, Call(t)
  PROVE  CallsPointOK'
<1> USE DEF TypeOK, ClientTypeOK
<1>0. ASSUME NEW to, NEW c, Begin(t, to, c)
      PROVE  /\ pc'[t] = to /\ call'[t] = c
             /\ \A u \in Threads \ {t} : pc'[u] = pc[u] /\ call'[u] = call[u]
  BY <1>0 DEF Begin, ClientDomains
<1>1. ASSUME NEW to \in {"done", "blocked"}, NEW c, Begin(t, to, c)
      PROVE  CallsPointOK'
  BY <1>0, <1>1, PointsKept
<1>2. ASSUME NEW to \in {"card", "send"}, NEW op, NEW i \in Slots, NEW k, NEW arg,
             nextCall <= MaxCalls, Begin(t, to, NewCall(nextCall, op, i, k, arg))
      PROVE  CallsPointOK'
  <2>1. NewCall(nextCall, op, i, k, arg).id \in CallIds
    BY <1>2, BoundsAssumption DEF NewCall, ClientDomains, CallIds
  <2>2. NewCall(nextCall, op, i, k, arg).ctx \in Slots
    BY <1>2 DEF NewCall
  <2> QED
    BY <1>0, <1>2, <2>1, <2>2, PointsKept
<1>3. ASSUME NEW op, NEW rv, Refuse(t, op, rv) PROVE CallsPointOK'
  BY <1>1, <1>3 DEF Refuse
<1>4. CASE NoEnvironment(t) \/ TlsInitFails(t) \/ NoContext(t) \/ EstablishContext(t)
  BY DieType, <1>2, <1>3, <1>4 DEF NoEnvironment, TlsInitFails, NoContext, EstablishContext, MayCall
<1>5. ASSUME NEW op \in AllOps, BlockOnMutex(t, op) PROVE CallsPointOK'
  BY <1>1, <1>5 DEF BlockOnMutex
<1>6. ASSUME NEW op \in AllOps, NEW i \in Slots, ContextCall(t, op, i)
      PROVE  CallsPointOK'
  BY <1>2, <1>3, <1>6 DEF ContextCall, MayCall
<1>7. ASSUME NEW op \in AllOps, NEW k \in Slots, CardCall(t, op, k)
      PROVE  CallsPointOK'
  <2>1. cardArray[k].used => cardArray[k].ctx \in Slots
    BY DEF ClientDomains, Cards
  <2> QED
    BY <1>2, <1>3, <1>7, <2>1 DEF CardCall, MayCall
<1>8. ASSUME NEW i \in Slots, CancelContext(t, i) PROVE CallsPointOK'
  BY <1>3, <1>8 DEF CancelContext
<1> QED
  BY <1>4, <1>5, <1>6, <1>7, <1>8 DEF Call

LEMMA ContinuePoints ==
  ASSUME TypeOK, NEW t \in Threads, Continue(t)
  PROVE  CallsPointOK'
<1> USE DEF TypeOK, ClientTypeOK
<1>0. /\ call[t] \in Calls
      /\ pc[t] \in {"card", "send", "enter", "recv", "finish", "unlock"} =>
           call[t].id \in CallIds /\ call[t].ctx \in Slots
  BY DEF ClientDomains, CallsPointOK
<1>1. CASE UNCHANGED <<pc, call>>
  BY <1>1 DEF CallsPointOK
<1>2. ASSUME pc[t] \in {"card", "send", "enter", "recv", "finish", "unlock"},
             NEW to \in {"send", "enter", "finish", "unlock", "done"},
             pc' = [pc EXCEPT ![t] = to],
             \A u \in Threads \ {t} : call'[u] = call[u],
             call'[t].id = call[t].id /\ call'[t].ctx = call[t].ctx
      PROVE  CallsPointOK'
  BY <1>0, <1>2, PointsKept DEF ClientDomains
<1>3. ASSUME NEW rv, NEW m, NEW a, Exchanged(t, rv, m, a), pc[t] \in {"send", "recv"}
      PROVE  CallsPointOK'
  <2>1. call'[t].id = call[t].id /\ call'[t].ctx = call[t].ctx
    BY <1>0, <1>3 DEF Exchanged, ClientDomains, Calls
  <2>2. \A u \in Threads \ {t} : call'[u] = call[u]
    BY <1>3 DEF Exchanged, ClientDomains
  <2>3. PICK to \in {"finish", "done"} : pc' = [pc EXCEPT ![t] = to]
    BY <1>3 DEF Exchanged, AfterExchange
  <2> QED
    BY <1>2, <1>3, <2>1, <2>2, <2>3
<1>4. CASE CreateCard(t)
  <2>1. call'[t].id = call[t].id /\ call'[t].ctx = call[t].ctx
    <3>1. \/ call' = [call EXCEPT ![t] = [call[t] EXCEPT !.rv = "internal"]]
          \/ \E k \in Slots : call' = [call EXCEPT ![t] = [call[t] EXCEPT !.card = k]]
      BY <1>4 DEF CreateCard
    <3> QED
      BY <1>0, <3>1 DEF ClientDomains, Calls
  <2>2. \A u \in Threads \ {t} : call'[u] = call[u]
    BY <1>4 DEF CreateCard, ClientDomains
  <2>3. PICK to \in {"send", "done"} : pc' = [pc EXCEPT ![t] = to]
    BY <1>4 DEF CreateCard
  <2> QED
    BY <1>2, <1>4, <2>1, <2>2, <2>3 DEF CreateCard
<1>5. CASE NotConnected(t) \/ ReceiveReply(t) \/ ReceiveEnd(t) \/ ReceiveError(t)
             \/ ReceiveInterrupted(t)
  BY <1>3, <1>5
  DEF NotConnected, ReceiveReply, ReceiveEnd, ReceiveError, ReceiveInterrupted,
      ExchangeFails
<1>6. CASE SendFails(t)
  BY <1>1, <1>3, <1>6 DEF SendFails, ExchangeFails, Die, threadVars
<1>7. CASE OpenConnection(t)
  BY <1>1, <1>7 DEF OpenConnection, threadVars
<1>8. CASE Send(t) \/ FinishEstablish(t) \/ FinishRelease(t) \/ FinishConnect(t)
  BY <1>2, <1>8 DEF Send, FinishEstablish, FinishRelease, FinishConnect, Finishing
<1>9. CASE CloseSession(t)
  BY <1>1, <1>2, <1>9 DEF CloseSession, Finishing, Die, threadVars
<1>10. CASE EnterRecv(t)
  <2>1. CASE Die
    BY <1>1, <2>1 DEF Die, threadVars
  <2>2. CASE ~Die
    <3>1. SessionOf(t) \in Sessions
      BY <1>10, <2>2, <1>0 DEF EnterRecv, SessionOf, ClientDomains, Contexts
    <3>2. /\ call'[t].id = call[t].id
          /\ call'[t].ctx = call[t].ctx
          /\ call'[t].session = SessionOf(t)
      <4>1. call' = [call EXCEPT ![t] = [call[t] EXCEPT !.session = SessionOf(t)]]
        BY <1>10, <2>2 DEF EnterRecv
      <4> QED
        BY <1>0, <4>1 DEF ClientDomains, Calls
    <3> QED
      BY <1>0, <1>10, <2>2, <3>1, <3>2, PointsKept DEF EnterRecv, ClientDomains
  <2> QED
    BY <2>1, <2>2
<1>11. CASE Return(t)
  BY <1>11, PointsKept DEF Return, ClientDomains
<1> QED
  BY <1>4, <1>5, <1>6, <1>7, <1>8, <1>9, <1>10, <1>11 DEF Continue

----------------------------------------------------------------------------
\* A step of a child keeps the types of its own and the connection's state.
LEMMA ReplyType ==
  ASSUME NEW m \in Messages, NEW ok \in BOOLEAN
  PROVE  Reply(m, ok) \in Messages
<1>1. m.call \in Handles /\ NoCall \in Handles
  BY DEF Messages, Handles
<1> QED
  BY <1>1 DEF Reply, Messages

LEMMA AfterType ==
  ASSUME ServerTypeOK, NEW s \in Sessions, NEW m \in Messages
  PROVE  After(s, m) \in ServiceStates
<1>1. m.call \in Handles /\ m.arg \in Handles /\ service[s] \in ServiceStates
  BY DEF ServerTypeOK, Messages
<1>2. CASE m.op = "EstablishContext"
  BY <1>1, <1>2 DEF After, ServiceStates
<1>3. CASE m.op = "ReleaseContext"
  BY <1>1, <1>3 DEF After, ServiceStates
<1>4. CASE m.op = "Connect"
  BY <1>1, <1>4 DEF After, ServiceStates
<1>5. CASE m.op = "Disconnect"
  BY <1>1, <1>5 DEF After, ServiceStates
<1>6. CASE m.op \notin {"EstablishContext", "ReleaseContext", "Connect", "Disconnect"}
  BY <1>1, <1>6 DEF After
<1> QED
  BY <1>2, <1>3, <1>4, <1>5, <1>6

LEMMA NoRequestType == NoRequest \in Messages
BY RequestType DEF NoRequest, AllOps, Handles

LEMMA ExitTypeOK ==
  ASSUME ServerTypeOK, ConnTypeOK, NEW s \in Sessions, Exit(s)
  PROVE  ServerTypeOK' /\ ConnTypeOK'
<1>1. Empty \in ServiceStates
  BY DEF Empty, ServiceStates
<1>2. ServerTypeOK'
  BY <1>1, NoRequestType DEF Exit, ServerTypeOK
<1>3. /\ broken' \in [Sessions -> BOOLEAN]
      /\ toServer' \in [Sessions -> Seq(Messages)]
      /\ toClient' \in [Sessions -> Seq(Messages)]
  <2>1. CASE toServer[s] # << >>
    BY <2>1, BreakType DEF Exit
  <2>2. CASE toServer[s] = << >>
    BY <2>2 DEF Exit, ConnTypeOK
  <2> QED
    BY <2>1, <2>2
<1> QED
  BY <1>2, <1>3 DEF Exit, ConnTypeOK

LEMMA ServerStepTypeOK ==
  ASSUME ServerTypeOK, ConnTypeOK, NEW s \in Sessions, ChildStep(s) \/ ChildDies(s)
  PROVE  ServerTypeOK' /\ ConnTypeOK'
<1>0. request[s] \in Messages
  BY DEF ServerTypeOK
<1>1. CASE ReceiveRequest(s)
  <2>1. toServer[s] \in Seq(Messages) /\ toServer[s] # << >>
    BY <1>1 DEF ReceiveRequest, ConnTypeOK
  <2>2. Head(toServer[s]) \in Messages /\ Tail(toServer[s]) \in Seq(Messages)
    BY <2>1
  <2> QED
    BY <1>1, <2>2 DEF ReceiveRequest, ServerTypeOK, ConnTypeOK
<1>2. CASE Execute(s)
  <2>1. service' \in [Sessions -> ServiceStates]
    <3>1. \/ service' = service
          \/ service' = [service EXCEPT ![s] = After(s, request[s])]
      BY <1>2 DEF Execute
    <3>2. After(s, request[s]) \in ServiceStates
      BY <1>0, AfterType
    <3>3. service \in [Sessions -> ServiceStates]
      BY DEF ServerTypeOK
    <3> QED
      BY <3>1, <3>2, <3>3
  <2>2. request' \in [Sessions -> Messages]
    BY <1>0, <1>2, ReplyType DEF Execute, ServerTypeOK
  <2>3. executions' \in [CallIds -> Nat]
    <3>1. \/ executions' = executions
          \/ executions' = [executions EXCEPT ![request[s].call] =
                                               executions[request[s].call] + 1]
      BY <1>2 DEF Execute
    <3>2. \A c \in CallIds : executions[c] + 1 \in Nat
      BY DEF ServerTypeOK
    <3> QED
      BY <3>1, <3>2 DEF ServerTypeOK
  <2> QED
    BY <1>2, <2>1, <2>2, <2>3
    DEF Execute, ServerTypeOK, connVars, ConnTypeOK
<1>3. CASE SendReply(s)
  <2>1. toClient' \in [Sessions -> Seq(Messages)]
    <3>1. Append(toClient[s], request[s]) \in Seq(Messages)
      BY <1>0 DEF ConnTypeOK
    <3> QED
      BY <1>3, <3>1 DEF SendReply, ConnTypeOK
  <2> QED
    BY <1>3, <2>1, NoRequestType DEF SendReply, ServerTypeOK, ConnTypeOK
<1>4. CASE EndOfRequests(s) \/ ReplyFails(s) \/ ChildDies(s)
  BY <1>4, ExitTypeOK DEF EndOfRequests, ReplyFails, ChildDies
<1> QED
  BY <1>1, <1>2, <1>3, <1>4 DEF ChildStep

(***************************************************************************)
(* Every variable keeps its type, whatever the application does with its   *)
(* handles and whatever goes wrong: no call past its find is without an    *)
(* entry of the table, and none reads from a session it does not have.     *)
(***************************************************************************)
THEOREM TypeCorrect == Spec => []TypeOK
<1>1. TypeOK /\ [Next]_vars => TypeOK'
  <2> SUFFICES ASSUME TypeOK, [Next]_vars PROVE TypeOK'
    OBVIOUS
  <2>1. ASSUME NEW t \in Threads, ClientStep(t) PROVE TypeOK'
    <3>1. ClientTypeOK' /\ ConnTypeOK'
      BY <2>1, CallTypeOK, CallPoints, ContinueTypeOK, ContinuePoints
      DEF ClientStep, ClientTypeOK
    <3> QED
      BY <2>1, <3>1 DEF ClientStep, TypeOK, ServerTypeOK, serverVars
  <2>2. ASSUME UNCHANGED clientVars PROVE ClientTypeOK'
    BY <2>2 DEF clientVars, tableVars, threadVars, ownerVars, TypeOK, ClientTypeOK,
                ClientDomains, CallsPointOK
  <2>3. ASSUME NEW s \in Sessions, ServerStep(s) PROVE TypeOK'
    BY <2>2, <2>3, ServerStepTypeOK DEF ServerStep, TypeOK
  <2>4. ASSUME NEW s \in Sessions, NetworkStep(s) PROVE TypeOK'
    BY <2>2, <2>4, BreakType
    DEF NetworkStep, NetworkReset, TypeOK, ServerTypeOK, ConnTypeOK, serverVars
  <2>5. CASE UNCHANGED vars
    BY <2>2, <2>5 DEF vars, TypeOK, ServerTypeOK, ConnTypeOK, serverVars, connVars
  <2> QED
    BY <2>1, <2>3, <2>4, <2>5 DEF Next
<1> QED
  BY InitTypeOK, <1>1, PTL DEF Spec
=============================================================================
