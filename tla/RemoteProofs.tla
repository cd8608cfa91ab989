----------------------------- MODULE RemoteProofs -----------------------------
(***************************************************************************)
(* Proxy implements RemoteCalls, for a disciplined application: an answer  *)
(* is the answer to the call, and comes after the service has carried it   *)
(* out.                                                                    *)
(***************************************************************************)
EXTENDS HandleProofs

\* Who closes a connection, and that every operation reaches the service.
Served == Disciplined /\ "exit" \notin Faults /\ "SetTimeout" \notin Ops

\* What the invariants so far say of a state.
Sound ==
  TypeOK /\ ReplyInvariant /\ OnceInvariant /\ ConnectionInvariant /\ HandleInvariant

----------------------------------------------------------------------------
(***************************************************************************)
(* The ways a step of a thread changes where its call is.                  *)
(***************************************************************************)
Pending(t) == pc[t] \in {"blocked", "card", "send", "enter", "recv"}
Settled(t) == pc[t] \in {"finish", "unlock", "done"}

Begins(t) ==
  /\ OthersKeep(t)
  /\ pc[t] = "idle"
  /\ nextCall <= MaxCalls
  /\ nextCall' = nextCall + 1
  /\ call'[t].id = nextCall
  /\ call'[t].op \in Ops
  /\ \/ Pending(t)' /\ call'[t].rv = "none"
     \/ Settled(t)' /\ call'[t].rv \in {"invalid", "internal"}

GoesOn(t) ==
  /\ KeepsCall(t)
  /\ Pending(t) /\ Pending(t)'
  /\ call'[t].rv = call[t].rv
  /\ nextCall' = nextCall

Gives(t, rvs) ==
  /\ KeepsCall(t)
  /\ Pending(t) /\ Settled(t)'
  /\ call'[t].rv \in rvs
  /\ nextCall' = nextCall

Finishes(t) ==
  /\ KeepsCall(t)
  /\ Settled(t) /\ Settled(t)'
  /\ call'[t].rv = call[t].rv
  /\ nextCall' = nextCall

Ends(t) ==
  /\ OthersKeep(t)
  /\ Settled(t)
  /\ pc'[t] = "idle"
  /\ call'[t].id = 0
  /\ nextCall' = nextCall

LEMMA CallBegins ==
  ASSUME TypeOK, NEW t \in Threads, Call(t)
  PROVE  Begins(t) \/ UNCHANGED threadVars
<1>1. ASSUME NEW op, NEW rv, Refuse(t, op, rv), rv \in {"invalid", "internal"},
             MayCall(t, op)
      PROVE  Begins(t)
  <2>1. OthersKeep(t) /\ pc'[t] = "done" /\ nextCall' = nextCall + 1
        /\ call'[t] = [NewCall(nextCall, op, NoSlot, NoSlot, NoCall) EXCEPT !.rv = rv]
    BY <1>1, BeginEffect DEF Refuse
  <2> QED
    BY <1>1, <2>1 DEF Begins, MayCall, NewCall, Settled
<1>2. ASSUME NEW op, NEW to \in {"blocked", "card", "send"}, NEW i, NEW k, NEW arg,
             Begin(t, to, NewCall(nextCall, op, i, k, arg)), MayCall(t, op)
      PROVE  Begins(t)
  BY <1>2, BeginEffect DEF Begins, MayCall, NewCall, Pending
<1>3. CASE NoEnvironment(t)
  BY <1>3 DEF NoEnvironment, Die
<1>4. CASE TlsInitFails(t) \/ NoContext(t) \/ \E i \in Slots : CancelContext(t, i)
  BY <1>1, <1>4 DEF TlsInitFails, NoContext, CancelContext
<1>5. CASE EstablishContext(t)
  BY <1>2, <1>5 DEF EstablishContext
<1>6. ASSUME NEW op, BlockOnMutex(t, op) PROVE Begins(t)
  BY <1>2, <1>6 DEF BlockOnMutex
<1>7. \A op : BadArguments(op) \subseteq {"invalid", "internal"}
  BY LibraryChecks
<1>8. ASSUME NEW op, NEW i \in Slots, ContextCall(t, op, i) PROVE Begins(t)
  BY <1>1, <1>2, <1>7, <1>8 DEF ContextCall
<1>9. ASSUME NEW op, NEW k \in Slots, CardCall(t, op, k) PROVE Begins(t)
  BY <1>1, <1>2, <1>7, <1>9 DEF CardCall
<1> QED
  BY <1>3, <1>4, <1>5, <1>6, <1>8, <1>9 DEF Call

LEMMA ExchangeGives ==
  ASSUME TypeOK, NEW t \in Threads, pc[t] \in {"send", "recv"}, nextCall' = nextCall,
         NEW rv, NEW m, NEW a, Exchanged(t, rv, m, a)
  PROVE  Gives(t, {rv})
BY ExchangedEffect, ExchangedResult DEF Gives, Pending, Settled, AfterExchange

LEMMA CreateCardGoesOn ==
  ASSUME TypeOK, NEW t \in Threads, CreateCard(t)
  PROVE  GoesOn(t) \/ Gives(t, {"internal"})
<1>1. call[t] \in Calls /\ call \in [Threads -> Calls] /\ pc[t] = "card"
  BY DEF CreateCard, TypeOK, ClientTypeOK, ClientDomains
<1>2. CASE pc' = [pc EXCEPT ![t] = "done"] /\ call' = [call EXCEPT ![t].rv = "internal"]
  <2>1. pc'[t] = "done" /\ call'[t].rv = "internal"
    BY <1>1, <1>2 DEF Calls, TypeOK, ClientTypeOK, ClientDomains
  <2> QED
    BY <1>1, <2>1, CreateCardEffect DEF Gives, Pending, Settled, CreateCard
<1>3. CASE /\ pc' = [pc EXCEPT ![t] = "send"]
           /\ \E k \in Slots : call' = [call EXCEPT ![t].card = k]
  <2>1. pc'[t] = "send" /\ call'[t].rv = call[t].rv
    BY <1>1, <1>3 DEF Calls, TypeOK, ClientTypeOK, ClientDomains
  <2> QED
    BY <1>1, <2>1, CreateCardEffect DEF GoesOn, Pending, CreateCard
<1> QED
  BY <1>2, <1>3 DEF CreateCard

LEMMA EnterRecvGoesOn ==
  ASSUME TypeOK, NEW t \in Threads, EnterRecv(t), SessionOf(t) # NoSession
  PROVE  GoesOn(t)
<1>1. call[t] \in Calls /\ call \in [Threads -> Calls]
  BY DEF TypeOK, ClientTypeOK, ClientDomains
<1>2. call'[t].rv = call[t].rv
  BY <1>1 DEF EnterRecv, Calls
<1> QED
  BY <1>2, EnterRecvEffect DEF EnterRecv, GoesOn, Pending

----------------------------------------------------------------------------
\* The end of the stream is nothing a call meets while its child must not die.
LEMMA NoEndReceived ==
  ASSUME Discipline = "own", Sound, EndsByClient, NEW t \in Threads
  PROVE  ~ReceiveEnd(t)
<1> SUFFICES ASSUME ReceiveEnd(t) PROVE FALSE
  OBVIOUS
<1>1. PICK s \in Sessions : s = call[t].session /\ s = SessionOf(t)
  BY ReceiverAlone DEF ReceiveEnd, Sound, ReplyInvariant
<1>2. PICK i \in Slots : i = call[t].ctx
  BY TableTypes DEF ReceiveEnd, Active, Sound
<1>3. clientEnd[s] = "open"
  <2>1. contextArray[i].session = s /\ s # NoSession
    BY <1>1, <1>2, TableTypes DEF SessionOf, Sound
  <2> QED
    BY <2>1 DEF ReceiveEnd, Sound, ConnectionInvariant, SessionsOpen
<1> QED
  BY <1>1, <1>3 DEF ReceiveEnd, EndsByClient

\* The reply a call takes is one the service has given to it.
LEMMA ReplyGives ==
  ASSUME Discipline = "own",
         Sound, RepliesCarriedOut, NEW t \in Threads, ReceiveReply(t),
         UNCHANGED serverVars
  PROVE  \/ Gives(t, {"internal"})
         \/ Gives(t, {"ok", "error"}) /\ executions[call[t].id] = 1
<1>1. PICK s \in Sessions : /\ s = call[t].session
                            /\ \A u \in Threads : Awaits(u, s) => u = t
  BY ReceiverAlone DEF ReceiveReply, Sound, ReplyInvariant
<1>2. toClient[s] # << >> /\ pc[t] = "recv" /\ nextCall' = nextCall
  BY <1>1 DEF ReceiveReply
<1>3. PICK m : m = Head(toClient[s])
  OBVIOUS
<1>4. m.call = call[t].id /\ executions[m.call] = 1
  BY <1>1, <1>2, <1>3
  DEF Sound, ReplyInvariant, MessageInvariant, ReplyAwaited, RepliesCarriedOut
<1>5. m.rv \in {"ok", "error"}
  <2>1. toClient[s] \in Seq(Messages)
    BY <1>1 DEF Sound, TypeOK, ConnTypeOK
  <2>2. m \in Messages
    BY <1>2, <1>3, <2>1
  <2> QED
    BY <2>2 DEF Messages
<1>6. PICK rv \in {m.rv, "internal"} : Exchanged(t, rv, m, m.call)
  BY <1>1, <1>3 DEF ReceiveReply
<1>7. Gives(t, {rv})
  BY <1>2, <1>6, ExchangeGives DEF Sound
<1> QED
  BY <1>4, <1>5, <1>7 DEF Gives

LEMMA ContinueGoesOn ==
  ASSUME Sound, AnswerInvariant, Disciplined, NEW t \in Threads, Continue(t),
         UNCHANGED serverVars
  PROVE  \/ UNCHANGED threadVars
         \/ GoesOn(t)
         \/ Gives(t, {"internal"})
         \/ Gives(t, {"ok", "error"}) /\ executions[call[t].id] = 1
         \/ Finishes(t)
         \/ Ends(t)
<1> USE DEF Sound
<1>1. CASE Die \/ OpenConnection(t)
  BY <1>1 DEF Die, OpenConnection
<1>2. CASE CreateCard(t)
  BY <1>2, CreateCardGoesOn
<1>3. CASE NotConnected(t) \/ SendFails(t) \/ ReceiveError(t) \/ ReceiveInterrupted(t)
  BY <1>1, <1>3, ExchangeGives
  DEF NotConnected, SendFails, ReceiveError, ReceiveInterrupted, ExchangeFails
<1>4. CASE Send(t)
  BY <1>4, MoveEffect DEF Send, GoesOn, Pending
<1>5. CASE EnterRecv(t)
  BY <1>1, <1>5, EnterRecvGoesOn DEF EnterRecv
<1>6. CASE ReceiveReply(t)
  BY <1>6, ReplyGives DEF AnswerInvariant, Disciplined
<1>7. CASE FinishEstablish(t) \/ CloseSession(t) \/ FinishRelease(t) \/ FinishConnect(t)
  BY <1>1, <1>7, MoveEffect
  DEF FinishEstablish, CloseSession, FinishRelease, FinishConnect, Finishing, Finishes,
      Settled
<1>8. CASE Return(t)
  <2>1. OthersKeep(t) /\ pc'[t] = "idle" /\ call'[t] = Idle
    BY <1>8 DEF Return, OthersKeep, TypeOK, ClientTypeOK, ClientDomains
  <2> QED
    BY <1>8, <2>1 DEF Return, Ends, Settled, Idle, NewCall, NoCall
<1> QED
  BY <1>2, <1>3, <1>4, <1>5, <1>6, <1>7, <1>8, <1>1, NoEndReceived
  DEF Continue, AnswerInvariant, Disciplined

----------------------------------------------------------------------------
(***************************************************************************)
(* AnswerInvariant.                                                        *)
(***************************************************************************)
LEMMA ClientKeepsOutcomes ==
  ASSUME Sound, AnswerInvariant, Disciplined, NEW t \in Threads, ClientStep(t)
  PROVE  OutcomesGiven'
<1>0. \A u \in Threads : Pending(u) \/ Settled(u) \/ pc[u] = "idle"
  BY DEF Pending, Settled, Sound, TypeOK, ClientTypeOK, ClientDomains
<1>1. ASSUME OthersKeep(t),
             /\ Pending(t)' => call'[t].rv = "none"
             /\ Settled(t)' => call'[t].rv # "none"
             /\ pc'[t] # "idle" => call'[t].op \in Ops
      PROVE  OutcomesGiven'
  BY <1>1 DEF AnswerInvariant, OutcomesGiven, Pending, Settled, OthersKeep
<1>2. CASE UNCHANGED threadVars
  BY <1>2 DEF threadVars, AnswerInvariant, OutcomesGiven
<1>3. CASE Begins(t)
  BY <1>1, <1>3 DEF Begins, Pending, Settled
<1>4. ASSUME NEW rvs, Gives(t, rvs), "none" \notin rvs PROVE OutcomesGiven'
  BY <1>1, <1>4
  DEF Gives, KeepsCall, Pending, Settled, AnswerInvariant, OutcomesGiven
<1>5. CASE GoesOn(t) \/ Finishes(t)
  BY <1>1, <1>5
  DEF GoesOn, Finishes, KeepsCall, Pending, Settled, AnswerInvariant, OutcomesGiven
<1>6. CASE Ends(t)
  BY <1>1, <1>6 DEF Ends, Pending, Settled
<1> QED
  BY <1>2, <1>3, <1>4, <1>5, <1>6, CallBegins, ContinueGoesOn DEF ClientStep, Sound


\* What a step of a thread does to the connections.
LEMMA ClientConnections ==
  ASSUME Discipline = "own",
         Sound, NEW t \in Threads, ClientStep(t), NEW s \in Sessions
  PROVE  /\ toClient'[s] \in {toClient[s], << >>}
         /\ clientEnd[s] = "closed" => clientEnd'[s] = "closed"
         /\ broken[s] => broken'[s]
         /\ clientEnd[s] # "none" /\ Usable(s)' => Usable(s)
         /\ serverEnd'[s] = "closed" => serverEnd[s] = "closed"
<1> USE DEF Sound
<1>1. CASE UNCHANGED connVars
  BY <1>1 DEF connVars, Usable
<1>2. CASE Die
  BY <1>2 DEF Die, Usable
<1>3. CASE OpenConnection(t)
  <2>1. call[t].id \in Sessions /\ clientEnd[call[t].id] = "none"
    BY <1>3, TableTypes
    DEF OpenConnection, Active, ReplyInvariant, SessionInvariant, SessionsFresh, SessionOf
  <2>2. \/ s = call[t].id /\ clientEnd'[s] = "open" /\ serverEnd'[s] = "open"
        \/ clientEnd'[s] = clientEnd[s] /\ serverEnd'[s] = serverEnd[s]
    BY <1>3, <2>1, TableTypes DEF OpenConnection
  <2> QED
    BY <1>3, <2>1, <2>2 DEF OpenConnection, Usable
<1>4. CASE Send(t)
  BY <1>4 DEF Send, Usable
<1>5. CASE ReceiveReply(t)
  <2>1. PICK r \in Sessions : /\ r = call[t].session
                              /\ toClient[r] # << >>
                              /\ toClient' = [toClient EXCEPT ![r] = Tail(toClient[r])]
    BY <1>5, ReceiverAlone DEF ReceiveReply, ReplyInvariant
  <2>2. Tail(toClient[r]) = << >>
    BY <2>1 DEF ReplyInvariant, MessageInvariant, ReplyAwaited
  <2> QED
    BY <1>5, <2>1, <2>2 DEF ReceiveReply, Usable, TypeOK, ConnTypeOK
<1>6. CASE ReceiveError(t)
  BY <1>6 DEF ReceiveError, Break, Usable, TypeOK, ConnTypeOK
<1>7. CASE CloseSession(t)
  BY <1>2, <1>7 DEF CloseSession, Usable, TypeOK, ConnTypeOK
<1>8. CASE Call(t)
  BY <1>1, <1>2, <1>8
  DEF Call, NoEnvironment, TlsInitFails, NoContext, EstablishContext, BlockOnMutex,
      ContextCall, CardCall, CancelContext
<1> QED
  BY <1>1, <1>2, <1>3, <1>4, <1>5, <1>6, <1>7, <1>8
  DEF ClientStep, Continue, CreateCard, NotConnected, SendFails, EnterRecv, ReceiveEnd,
      ReceiveInterrupted, FinishEstablish, FinishRelease, FinishConnect, Return

LEMMA ClientKeepsAnswers ==
  ASSUME Sound, AnswerInvariant, Disciplined, NEW t \in Threads, ClientStep(t)
  PROVE  AnswerInvariant'
<1>0. Discipline = "own"
  BY DEF Disciplined
<1>1. UNCHANGED serverVars
  BY DEF ClientStep
<1>2. EndsByClient'
  BY <1>0, ClientConnections DEF AnswerInvariant, EndsByClient
<1>3. ASSUME NEW s \in Sessions, Usable(s)', child[s] = "send" PROVE Usable(s)
  <2>1. ~broken[s]
    BY <1>0, <1>3, ClientConnections DEF Usable
  <2>2. PICK u \in Threads : Awaits(u, s)
    BY <1>3, <2>1 DEF Sound, ReplyInvariant, MessageInvariant, ServiceAwaited, Serving
  <2>3. PICK i \in Slots : i = call[u].ctx
    BY <2>2, TableTypes DEF Awaits, Active, Sound
  <2>4. contextArray[i].session = s /\ s # NoSession
    BY <2>2, <2>3, TableTypes DEF Awaits, SessionOf, Sound
  <2>5. clientEnd[s] # "none"
    BY <2>4 DEF Sound, ReplyInvariant, SessionInvariant, SessionsApart
  <2> QED
    BY <1>0, <1>3, <2>5, ClientConnections
<1>4. RepliesCarriedOut'
  <2>1. \A s \in Sessions : toClient'[s] # << >> => toClient'[s] = toClient[s]
    BY <1>0, ClientConnections
  <2> QED
    BY <1>1, <1>3, <2>1 DEF AnswerInvariant, RepliesCarriedOut, serverVars
<1> QED
  BY <1>2, <1>4, ClientKeepsOutcomes DEF AnswerInvariant

\* A child carries out a request nobody has carried out, when it passes it on.
LEMMA ExecuteOnce ==
  ASSUME TypeOK, OnceInvariant, NEW s \in Sessions, Execute(s)
  PROVE  \/ executions' = executions /\ request[s].op = "SetTimeout"
         \/ /\ request[s].call \in CallIds /\ request[s].call \in 1 .. nextCall - 1
            /\ executions[request[s].call] = 0
            /\ executions' = [executions EXCEPT ![request[s].call] = 1]
<1>1. PICK c \in Handles : c = request[s].call
  BY DEF TypeOK, ServerTypeOK, Messages
<1>2. c \in 1 .. nextCall - 1 /\ executions[c] = 0
  BY <1>1 DEF Execute, InHand, OnceInvariant, SentNumbered
<1>3. c \in CallIds
  BY <1>2, BoundsAssumption DEF CallIds, TypeOK, ClientTypeOK, ClientDomains
<1>4. CASE executions' = [executions EXCEPT ![c] = executions[c] + 1]
  BY <1>1, <1>2, <1>3, <1>4
<1> QED
  BY <1>1, <1>4 DEF Execute

LEMMA ExecuteKeepsAnswers ==
  ASSUME Sound, AnswerInvariant, Served, NEW s \in Sessions, Execute(s),
         UNCHANGED clientVars
  PROVE  RepliesCarriedOut'
<1> USE DEF Sound
<1>1. PICK c \in Handles : c = request[s].call
  BY DEF TypeOK, ServerTypeOK, Messages
<1>2. request'[s].call = c
  <2>1. \A ok \in BOOLEAN : Reply(request[s], ok).call = request[s].call
    BY DEF Reply, TypeOK, ServerTypeOK, Messages
  <2> QED
    BY <1>1, <2>1 DEF Execute, TypeOK, ServerTypeOK
<1>3. \A d \in CallIds : executions[d] = 1 => executions'[d] = 1
  BY ExecuteOnce DEF TypeOK, ServerTypeOK
<1>4. Usable(s) => executions'[c] = 1
  <2> SUFFICES ASSUME Usable(s) PROVE executions'[c] = 1
    OBVIOUS
  <2>1. PICK t \in Threads : Awaits(t, s)
    BY DEF Execute, ReplyInvariant, MessageInvariant, ServiceAwaited, Serving, Usable
  <2>2. request[s].op = call[t].op
    BY <2>1
    DEF Execute, HandleInvariant, SessionBacked, RequestBacked, CallBacked, Awaits
  <2>3. request[s].op # "SetTimeout"
    BY <2>1, <2>2 DEF AnswerInvariant, OutcomesGiven, Awaits, Served
  <2> QED
    BY <1>1, <2>3, ExecuteOnce DEF TypeOK, ServerTypeOK, CallIds
<1>5. /\ UNCHANGED connVars
      /\ \A r \in Sessions \ {s} : child'[r] = child[r] /\ request'[r] = request[r]
  BY DEF Execute, TypeOK, ServerTypeOK
<1>6. ASSUME NEW r \in Sessions
      PROVE  /\ child[r] = "send" => request[r].call \in CallIds
             /\ toClient[r] # << >> => Head(toClient[r]).call \in CallIds
  <2>1. child[r] = "send" => request[r].call # NoCall /\ request[r] \in Messages
    BY DEF ConnectionInvariant, RepliesNumbered, TypeOK, ServerTypeOK
  <2>2. toClient[r] # << >> =>
          Head(toClient[r]).call # NoCall /\ Head(toClient[r]) \in Messages
    <3>1. toClient[r] \in Seq(Messages)
      BY DEF TypeOK, ConnTypeOK
    <3>2. toClient[r] # << >> =>
            /\ 1 \in 1 .. Len(toClient[r]) /\ Head(toClient[r]) = toClient[r][1]
            /\ Head(toClient[r]) \in Messages
      BY <3>1
    <3> QED
      BY <3>2 DEF ConnectionInvariant, RepliesNumbered
  <2> QED
    BY <2>1, <2>2 DEF Messages, Handles
<1> QED
  BY <1>2, <1>3, <1>4, <1>5, <1>6
  DEF AnswerInvariant, RepliesCarriedOut, connVars, Usable

LEMMA ServerKeepsAnswers ==
  ASSUME Sound, AnswerInvariant, Served, NEW s \in Sessions, ServerStep(s)
  PROVE  AnswerInvariant'
<1> USE DEF Sound
<1>1. UNCHANGED clientVars /\ OutcomesGiven'
  BY DEF ServerStep, clientVars, threadVars, AnswerInvariant, OutcomesGiven
<1>2. ASSUME serverEnd' = serverEnd, clientEnd' = clientEnd, broken' = broken
      PROVE  EndsByClient'
  BY <1>2 DEF AnswerInvariant, EndsByClient
<1>3. CASE ReceiveRequest(s)
  <2>1. \A r \in Sessions : child'[r] = "send" => child[r] = "send"
                                                    /\ request'[r] = request[r]
    BY <1>3 DEF ReceiveRequest, TypeOK, ServerTypeOK
  <2>2. RepliesCarriedOut'
    BY <1>3, <2>1 DEF ReceiveRequest, AnswerInvariant, RepliesCarriedOut, Usable
  <2> QED
    BY <1>1, <1>2, <1>3, <2>2 DEF ReceiveRequest, AnswerInvariant
<1>4. CASE Execute(s)
  BY <1>1, <1>2, <1>4, ExecuteKeepsAnswers DEF Execute, connVars, AnswerInvariant
<1>5. CASE SendReply(s)
  <2>1. \A r \in Sessions : child'[r] = "send" => child[r] = "send"
                                                    /\ request'[r] = request[r]
    BY <1>5 DEF SendReply, TypeOK, ServerTypeOK
  <2>2. CASE Usable(s)
    <3>1. toClient[s] = << >> /\ executions[request[s].call] = 1
      BY <1>5, <2>2
      DEF SendReply, Serving, Usable, ReplyInvariant, MessageInvariant, ServiceAwaited,
          AnswerInvariant, RepliesCarriedOut
    <3>2. toClient' = [toClient EXCEPT ![s] = Append(toClient[s], request[s])]
      BY <1>5, <2>2 DEF SendReply
    <3>3. Append(toClient[s], request[s]) = <<request[s]>>
      BY <3>1
    <3>4. Head(toClient'[s]) = request[s]
      BY <3>2, <3>3 DEF TypeOK, ConnTypeOK
    <3>5. \A r \in Sessions \ {s} : toClient'[r] = toClient[r]
      BY <3>2 DEF TypeOK, ConnTypeOK
    <3>6. RepliesCarriedOut'
      BY <1>5, <2>1, <3>1, <3>4, <3>5
      DEF SendReply, AnswerInvariant, RepliesCarriedOut, Usable
    <3> QED
      BY <1>1, <1>2, <1>5, <3>6 DEF SendReply, AnswerInvariant
  <2>3. CASE ~Usable(s)
    <3>1. RepliesCarriedOut'
      BY <1>5, <2>1, <2>3 DEF SendReply, AnswerInvariant, RepliesCarriedOut, Usable
    <3> QED
      BY <1>1, <1>2, <1>5, <3>1 DEF SendReply, AnswerInvariant
  <2> QED
    BY <2>2, <2>3
<1>6. CASE EndOfRequests(s) \/ ReplyFails(s)
  <2>1. Exit(s) /\ Running(s) /\ ~Usable(s)
    BY <1>6 DEF EndOfRequests, ReplyFails
  <2>2. \A r \in Sessions :
          /\ toClient'[r] \in {toClient[r], << >>}
          /\ broken[r] => broken'[r]
          /\ child'[r] = "send" => child[r] = "send" /\ request'[r] = request[r]
          /\ Usable(r)' => Usable(r)
          /\ serverEnd'[r] = "closed" => serverEnd[r] = "closed" \/ r = s
    BY <2>1 DEF Exit, Break, Usable, TypeOK, ServerTypeOK, ConnTypeOK
  <2>3. UNCHANGED <<executions, clientEnd>>
    BY <2>1 DEF Exit
  <2>4. broken[s] \/ clientEnd[s] = "closed"
    BY <2>1
    DEF Running, Usable, ConnectionInvariant, OpenedByClient, TypeOK, ConnTypeOK
  <2>5. RepliesCarriedOut'
    BY <2>2, <2>3 DEF AnswerInvariant, RepliesCarriedOut
  <2>6. EndsByClient'
    BY <2>2, <2>3, <2>4 DEF AnswerInvariant, EndsByClient
  <2> QED
    BY <1>1, <2>5, <2>6 DEF AnswerInvariant
<1>7. ~ChildDies(s)
  BY DEF ChildDies, Served
<1> QED
  BY <1>3, <1>4, <1>5, <1>6, <1>7 DEF ServerStep, ChildStep

LEMMA NetworkKeepsAnswers ==
  ASSUME TypeOK, AnswerInvariant, NEW s \in Sessions, NetworkStep(s)
  PROVE  AnswerInvariant'
<1>1. /\ \A r \in Sessions : /\ toClient'[r] \in {toClient[r], << >>}
                             /\ broken[r] => broken'[r]
                             /\ Usable(r)' => Usable(r)
      /\ UNCHANGED <<clientEnd, serverEnd, child, request, executions, pc, call>>
  BY DEF NetworkStep, NetworkReset, Break, Usable, TypeOK, ConnTypeOK, clientVars,
         threadVars, serverVars
<1>2. OutcomesGiven'
  BY <1>1 DEF AnswerInvariant, OutcomesGiven
<1>3. RepliesCarriedOut'
  BY <1>1 DEF AnswerInvariant, RepliesCarriedOut
<1>4. EndsByClient'
  BY <1>1 DEF AnswerInvariant, EndsByClient
<1> QED
  BY <1>2, <1>3, <1>4 DEF AnswerInvariant

\* No call has begun, and no child has anything to say.
THEOREM InitAnswerInvariant == Init => AnswerInvariant
BY DEF Init, ClientInit, ServerInit, ConnInit, AnswerInvariant, OutcomesGiven,
       RepliesCarriedOut, EndsByClient

LEMMA AnswerInvariantInductive ==
  ASSUME Sound, AnswerInvariant, Served, [Next]_vars
  PROVE  AnswerInvariant'
<1>1. CASE UNCHANGED vars
  <2>1. OutcomesGiven' /\ EndsByClient'
    BY <1>1
    DEF vars, clientVars, threadVars, connVars, AnswerInvariant, OutcomesGiven,
        EndsByClient
  <2>2. RepliesCarriedOut'
    BY <1>1
    DEF vars, serverVars, connVars, AnswerInvariant, RepliesCarriedOut, Usable
  <2> QED
    BY <2>1, <2>2 DEF AnswerInvariant
<1> QED
  BY <1>1, ClientKeepsAnswers, ServerKeepsAnswers, NetworkKeepsAnswers
  DEF Next, Served, Sound

(***************************************************************************)
(* A reply under way is the reply to a call the service has carried out,   *)
(* for a disciplined application, when no child dies and nothing           *)
(* interrupts recv().                                                      *)
(***************************************************************************)
THEOREM AnswerInvariantCorrect ==
  ASSUME Served
  PROVE  Spec => []AnswerInvariant
<1>1. Disciplined /\ Discipline = "own"
  BY DEF Served, Disciplined
<1>2. Spec => []Sound
  <2>1. Spec => []ReplyInvariant /\ []ConnectionInvariant /\ []HandleInvariant
    BY <1>1, ReplyInvariantCorrect, ConnectionInvariantCorrect, HandleInvariantCorrect
  <2> QED
    BY <2>1, TypeCorrect, OnceInvariantCorrect, PTL DEF Sound
<1>3. Sound /\ AnswerInvariant /\ [Next]_vars => AnswerInvariant'
  BY AnswerInvariantInductive
<1> QED
  BY InitAnswerInvariant, <1>2, <1>3, PTL DEF Spec

----------------------------------------------------------------------------
(***************************************************************************)
(* The refinement.                                                         *)
(***************************************************************************)
Phases == [t \in Threads |-> PhaseOf(t)]
Currents == [t \in Threads |-> call[t].id]

LEMMA PhaseMoves ==
  ASSUME NEW t \in Threads, OthersKeep(t)
  PROVE  /\ Phases' = [Phases EXCEPT ![t] = PhaseOf(t)']
         /\ Currents' = [Currents EXCEPT ![t] = call'[t].id]
         /\ PhaseOf(t)' = PhaseOf(t) => Phases' = Phases
         /\ call'[t].id = call[t].id => Currents' = Currents
<1>1. \A u \in Threads \ {t} : PhaseOf(u)' = PhaseOf(u) /\ call'[u].id = call[u].id
  BY DEF PhaseOf, OthersKeep
<1> QED
  BY <1>1 DEF Phases, Currents

LEMMA RemoteClientStep ==
  ASSUME Sound, AnswerInvariant, Disciplined, NEW t \in Threads, ClientStep(t)
  PROVE  \/ UNCHANGED <<Phases, Currents, nextCall, executions>>
         \/ /\ Phases[t] = "idle"
            /\ nextCall <= MaxCalls
            /\ nextCall' = nextCall + 1
            /\ Currents' = [Currents EXCEPT ![t] = nextCall]
            /\ \E p \in {"pending", "failed"} : Phases' = [Phases EXCEPT ![t] = p]
            /\ UNCHANGED executions
         \/ /\ Phases[t] = "pending"
            /\ \/ Phases' = [Phases EXCEPT ![t] = "failed"]
               \/ /\ executions[Currents[t]] = 1
                  /\ Phases' = [Phases EXCEPT ![t] = "answered"]
            /\ UNCHANGED <<Currents, nextCall, executions>>
         \/ /\ Phases[t] \in {"answered", "failed"}
            /\ Phases' = [Phases EXCEPT ![t] = "idle"]
            /\ Currents' = [Currents EXCEPT ![t] = 0]
            /\ UNCHANGED <<nextCall, executions>>
<1>1. executions' = executions
  BY DEF ClientStep, serverVars
<1>2. Phases[t] = PhaseOf(t) /\ Currents[t] = call[t].id
  BY DEF Phases, Currents
<1>3. /\ Pending(t) => PhaseOf(t) = "pending"
      /\ Settled(t) => PhaseOf(t) \in {"answered", "failed"}
  BY DEF PhaseOf, Pending, Settled, AnswerInvariant, OutcomesGiven
<1>4. CASE UNCHANGED threadVars
  BY <1>1, <1>4 DEF threadVars, Phases, Currents, PhaseOf
<1>5. CASE Begins(t)
  <2>1. PhaseOf(t) = "idle" /\ PhaseOf(t)' \in {"pending", "failed"}
    BY <1>5 DEF Begins, PhaseOf, Pending, Settled
  <2> QED
    BY <1>1, <1>2, <1>5, <2>1, PhaseMoves DEF Begins
<1>6. CASE GoesOn(t) \/ Finishes(t)
  <2>1. PhaseOf(t)' = PhaseOf(t)
    BY <1>6 DEF GoesOn, Finishes, PhaseOf, Pending, Settled
  <2> QED
    BY <1>1, <1>6, <2>1, PhaseMoves DEF GoesOn, Finishes, KeepsCall
<1>7. CASE Gives(t, {"internal"})
  <2>1. PhaseOf(t)' = "failed"
    BY <1>7 DEF Gives, PhaseOf, Settled
  <2> QED
    BY <1>1, <1>2, <1>3, <1>7, <2>1, PhaseMoves DEF Gives, KeepsCall
<1>8. CASE Gives(t, {"ok", "error"}) /\ executions[call[t].id] = 1
  <2>1. PhaseOf(t)' = "answered"
    BY <1>8 DEF Gives, PhaseOf, Settled
  <2> QED
    BY <1>1, <1>2, <1>3, <1>8, <2>1, PhaseMoves DEF Gives, KeepsCall
<1>9. CASE Ends(t)
  <2>1. PhaseOf(t)' = "idle"
    BY <1>9 DEF Ends, PhaseOf
  <2> QED
    BY <1>1, <1>2, <1>3, <1>9, <2>1, PhaseMoves DEF Ends
<1> QED
  BY <1>4, <1>5, <1>6, <1>7, <1>8, <1>9, CallBegins, ContinueGoesOn
  DEF ClientStep, Sound

LEMMA RemoteStep ==
  ASSUME Sound, AnswerInvariant, Served, [Next]_vars
  PROVE  [Remote!Next]_(Remote!vars)
<1> USE DEF Remote!vars
<1>1. nextCall \in Nat /\ nextCall >= 1 /\ MaxCalls \in Nat
  BY NextCallType, BoundsAssumption DEF Sound
<1>2. ASSUME NEW t \in Threads, ClientStep(t) PROVE [Remote!Next]_(Remote!vars)
  <2>1. CASE UNCHANGED <<Phases, Currents, nextCall, executions>>
    BY <2>1 DEF Phases, Currents
  <2>2. CASE /\ Phases[t] = "idle"
             /\ nextCall <= MaxCalls
             /\ nextCall' = nextCall + 1
             /\ Currents' = [Currents EXCEPT ![t] = nextCall]
             /\ \E p \in {"pending", "failed"} : Phases' = [Phases EXCEPT ![t] = p]
             /\ UNCHANGED executions
    <3>1. /\ nextCall - 1 < MaxCalls
          /\ nextCall' - 1 = nextCall - 1 + 1
          /\ nextCall = nextCall - 1 + 1
      BY <1>1, <2>2
    <3> HIDE <1>1
    <3>2. Remote!Call(t)
      BY <2>2, <3>1 DEF Remote!Call, Phases, Currents
    <3> QED
      BY <3>2 DEF Remote!Next
  <2>3. CASE /\ Phases[t] = "pending"
             /\ \/ Phases' = [Phases EXCEPT ![t] = "failed"]
                \/ /\ executions[Currents[t]] = 1
                   /\ Phases' = [Phases EXCEPT ![t] = "answered"]
             /\ UNCHANGED <<Currents, nextCall, executions>>
    <3>1. Remote!Fail(t) \/ Remote!Answer(t)
      BY <2>3 DEF Remote!Fail, Remote!Answer, Phases, Currents
    <3> QED
      BY <3>1 DEF Remote!Next
  <2>4. CASE /\ Phases[t] \in {"answered", "failed"}
             /\ Phases' = [Phases EXCEPT ![t] = "idle"]
             /\ Currents' = [Currents EXCEPT ![t] = 0]
             /\ UNCHANGED <<nextCall, executions>>
    <3>1. Remote!Return(t)
      BY <2>4 DEF Remote!Return, Phases, Currents
    <3> QED
      BY <3>1 DEF Remote!Next
  <2> QED
    BY <1>2, <2>1, <2>2, <2>3, <2>4, RemoteClientStep DEF Served
<1>3. ASSUME UNCHANGED clientVars PROVE UNCHANGED <<Phases, Currents, nextCall>>
  BY <1>3 DEF clientVars, threadVars, Phases, Currents, PhaseOf
<1>4. ASSUME NEW s \in Sessions, ServerStep(s) PROVE [Remote!Next]_(Remote!vars)
  <2>1. UNCHANGED <<Phases, Currents, nextCall>>
    BY <1>3, <1>4 DEF ServerStep
  <2>2. CASE executions' = executions
    BY <2>1, <2>2 DEF Phases, Currents
  <2>3. CASE Execute(s) /\ executions' # executions
    <3>1. PICK c \in CallIds : /\ c \in 1 .. nextCall - 1
                               /\ executions[c] = 0
                               /\ executions' = [executions EXCEPT ![c] = 1]
      BY <2>3, ExecuteOnce DEF Sound
    <3>2. Remote!Execute(c)
      BY <2>1, <3>1 DEF Remote!Execute, Phases, Currents
    <3> QED
      BY <3>1, <3>2 DEF Remote!Next, CallIds
  <2> QED
    BY <1>4, <2>2, <2>3
    DEF ServerStep, ChildStep, ReceiveRequest, SendReply, EndOfRequests, ReplyFails,
        ChildDies, Exit
<1>5. ASSUME UNCHANGED clientVars, UNCHANGED serverVars
      PROVE  [Remote!Next]_(Remote!vars)
  BY <1>3, <1>5 DEF serverVars, Phases, Currents
<1> QED
  BY <1>2, <1>4, <1>5 DEF Next, NetworkStep, vars

(***************************************************************************)
(* The proxy implements RemoteCalls: an application whose threads use the  *)
(* handles they hold sees calls that are carried out at most once, each    *)
(* answered, if at all, after it was, whatever connections do; as long as  *)
(* no child dies, no signal interrupts recv(), and SetTimeout, which the   *)
(* daemon answers itself, is not called.                                   *)
(***************************************************************************)
THEOREM RemoteCallsImplemented ==
  ASSUME Served
  PROVE  Spec => ImplementsRemoteCalls
<1>1. Init => Remote!Init
  BY DEF Init, ClientInit, ServerInit, Remote!Init, PhaseOf, Idle, NewCall, NoCall,
         CallIds
<1>2. Disciplined /\ Discipline = "own"
  BY DEF Served, Disciplined
<1>3. Spec => []Sound
  <2>1. Spec => []ReplyInvariant /\ []ConnectionInvariant /\ []HandleInvariant
    BY <1>2, ReplyInvariantCorrect, ConnectionInvariantCorrect, HandleInvariantCorrect
  <2> QED
    BY <2>1, TypeCorrect, OnceInvariantCorrect, PTL DEF Sound
<1>4. Sound /\ AnswerInvariant /\ [Next]_vars => [Remote!Next]_(Remote!vars)
  BY RemoteStep
<1> QED
  BY <1>1, <1>3, <1>4, AnswerInvariantCorrect, PTL
  DEF Spec, ImplementsRemoteCalls, Remote!Spec
=============================================================================
