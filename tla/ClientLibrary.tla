---------------------------- MODULE ClientLibrary ----------------------------
(***************************************************************************)
(* The replacement libpcsclite.so of src/client/client.c, inside one       *)
(* application whose threads call the PC/SC interface.                     *)
(*                                                                         *)
(* A step of a thread is one region the code runs under a mutex (find,     *)
(* create or release an entry of a table), one call on the connection      *)
(* (connect, send, recv), or the assignments to a table entry the code     *)
(* makes outside the mutexes.  A handle given to the application is the    *)
(* slot plus a magic number; here it is the slot.                          *)
(***************************************************************************)
EXTENDS Connection, FiniteSets

CONSTANTS Threads,          \* the threads of the application
          None,             \* no thread
          Ops,              \* the calls the application makes
          PP_MAX_CONTEXT,   \* size of both tables
          Discipline        \* which handles a thread may use

ASSUME ClientAssumption == /\ None \notin Threads
                           /\ Ops \subseteq AllOps
                           /\ PP_MAX_CONTEXT \in Nat
                           /\ Discipline \in {"own", "shared", "any"}

Slots == 0 .. PP_MAX_CONTEXT - 1
NoSlot == PP_MAX_CONTEXT

VARIABLES alive,           \* the application's process runs
          contextMutex,    \* "free", or "lost": locked and never unlocked
          tlsopts,         \* g_tlsopts has been set
          contextArray,    \* pp_context_array
          cardArray,       \* pp_card_array
          pc, call,        \* where each thread is, and its locals
          nextCall,        \* ghost: the identity of the next call
          contextOwner,    \* ghost: who holds the handle of this context
          cardOwner        \* ghost: who holds the handle of this card

tableVars == <<contextMutex, tlsopts, contextArray, cardArray>>
threadVars == <<pc, call, nextCall>>
ownerVars == <<contextOwner, cardOwner>>
clientVars == <<alive, tableVars, threadVars, ownerVars>>

Contexts == [used : BOOLEAN, pcsc : Handles, session : Sessions \cup {NoSession}]

\* A card in use has a context.
Cards == {c \in [used : BOOLEAN, pcsc : Handles, ctx : Slots \cup {NoSlot}] :
            c.used => c.ctx \in Slots}

(***************************************************************************)
(* ctx and card are the pointers the call holds into the tables, session   *)
(* the session it passed to recv(), msg its message buffer, rv what it     *)
(* returns.  answer is a ghost: the call whose reply it took.              *)
(***************************************************************************)
Calls == [id : Handles, op : AllOps, ctx : Slots \cup {NoSlot},
          card : Slots \cup {NoSlot}, session : Sessions \cup {NoSession},
          msg : Messages, answer : Handles,
          rv : {"none", "ok", "error", "internal", "invalid"}]

NewCall(id, op, ctx, card, arg) ==
  [id |-> id, op |-> op, ctx |-> ctx, card |-> card, session |-> NoSession,
   msg |-> Request(id, op, arg), answer |-> NoCall, rv |-> "none"]

Idle == NewCall(NoCall, "Cancel", NoSlot, NoSlot, NoCall)

\* A call past its find has an entry of the table, one in recv() a session.
CallsPointOK ==
  \A t \in Threads :
    /\ pc[t] \in {"card", "send", "enter", "recv", "finish", "unlock"} =>
         call[t].id \in CallIds /\ call[t].ctx \in Slots
    /\ pc[t] = "recv" => call[t].session \in Sessions

ClientDomains ==
  /\ alive \in BOOLEAN
  /\ contextMutex \in {"free", "lost"}
  /\ tlsopts \in BOOLEAN
  /\ contextArray \in [Slots -> Contexts]
  /\ cardArray \in [Slots -> Cards]
  /\ pc \in [Threads -> {"idle", "blocked", "card", "send", "enter", "recv",
                         "finish", "unlock", "done"}]
  /\ call \in [Threads -> Calls]
  /\ nextCall \in 1 .. MaxCalls + 1
  /\ contextOwner \in [Slots -> Threads \cup {None}]
  /\ cardOwner \in [Slots -> Threads \cup {None}]

ClientTypeOK == ClientDomains /\ CallsPointOK

ClientInit ==
  /\ alive = TRUE
  /\ contextMutex = "free"
  /\ tlsopts = FALSE
  /\ contextArray = [i \in Slots |->
                       [used |-> FALSE, pcsc |-> NoCall, session |-> NoSession]]
  /\ cardArray = [k \in Slots |->
                       [used |-> FALSE, pcsc |-> NoCall, ctx |-> NoSlot]]
  /\ pc = [t \in Threads |-> "idle"]
  /\ call = [t \in Threads |-> Idle]
  /\ nextCall = 1
  /\ contextOwner = [i \in Slots |-> None]
  /\ cardOwner = [k \in Slots |-> None]

(***************************************************************************)
(* What the application does with handles.  "own": a thread uses the       *)
(* contexts it established and the cards it connected, until it releases   *)
(* the context or disconnects the card.  "shared": a thread may also use   *)
(* the handles of others, but a context is released when no other call on  *)
(* it is under way.  "any": every handle, at any time.                     *)
(***************************************************************************)
Held(owner, t) == CASE Discipline = "own"    -> owner = t
                    [] Discipline = "shared" -> owner # None
                    [] OTHER                 -> TRUE

MayUseContext(t, op, i) ==
  /\ Held(contextOwner[i], t)
  /\ op = "ReleaseContext" /\ Discipline = "shared" =>
       \A u \in Threads : call[u].ctx # i

MayUseCard(t, k) ==
  /\ Held(cardOwner[k], t)
  /\ Discipline # "any" => /\ cardArray[k].ctx \in Slots
                           /\ Held(contextOwner[cardArray[k].ctx], t)

FreeContexts == {i \in Slots : ~contextArray[i].used}
FreeCards == {k \in Slots : ~cardArray[k].used}

First(i, S) == i \in S /\ \A j \in S : i <= j

----------------------------------------------------------------------------
(***************************************************************************)
(* The calls that pass a request on.  They look a handle up, send what the *)
(* service knows it by and return the result of the reply.  They differ in *)
(* what they return for a length that is bad or missing, and in whether    *)
(* they compare a length in the reply with the application's buffer.       *)
(***************************************************************************)
PassesOn(op, refuses, checks) == [op |-> op, refuses |-> refuses, checks |-> checks]

SCardConnect == PassesOn("Connect", {"invalid"}, FALSE)
SCardIsValidContext == PassesOn("IsValidContext", {}, FALSE)
SCardSetTimeout == PassesOn("SetTimeout", {}, FALSE)
SCardGetStatusChange == PassesOn("GetStatusChange", {}, FALSE)
SCardListReaders == PassesOn("ListReaders", {"invalid", "internal"}, TRUE)
SCardListReaderGroups == PassesOn("ListReaderGroups", {"invalid", "internal"}, TRUE)
SCardReconnect == PassesOn("Reconnect", {}, FALSE)
SCardDisconnect == PassesOn("Disconnect", {}, FALSE)
SCardBeginTransaction == PassesOn("BeginTransaction", {}, FALSE)
SCardEndTransaction == PassesOn("EndTransaction", {}, FALSE)
SCardCancelTransaction == PassesOn("CancelTransaction", {}, FALSE)
SCardStatus == PassesOn("Status", {"invalid", "internal"}, TRUE)
SCardControl == PassesOn("Control", {"invalid"}, FALSE)
SCardTransmit == PassesOn("Transmit", {"invalid"}, TRUE)
SCardGetAttrib == PassesOn("GetAttrib", {"internal"}, FALSE)
SCardSetAttrib == PassesOn("SetAttrib", {"invalid"}, FALSE)

ContextLibrary == {SCardConnect, SCardIsValidContext, SCardSetTimeout,
                   SCardGetStatusChange, SCardListReaders, SCardListReaderGroups}

CardLibrary == {SCardReconnect, SCardDisconnect, SCardBeginTransaction,
                SCardEndTransaction, SCardCancelTransaction, SCardStatus, SCardControl,
                SCardTransmit, SCardGetAttrib, SCardSetAttrib}

Library == ContextLibrary \cup CardLibrary

BadArguments(op) ==
  IF "lengths" \in Faults THEN UNION {c.refuses : c \in {d \in Library : d.op = op}}
                          ELSE {}

ChecksReply == {c.op : c \in {d \in Library : d.checks}}

----------------------------------------------------------------------------
(***************************************************************************)
(* How a call begins.                                                      *)
(***************************************************************************)
MayCall(t, op) ==
  /\ alive
  /\ pc[t] = "idle"
  /\ op \in Ops
  /\ nextCall <= MaxCalls

Begin(t, to, c) ==
  /\ pc' = [pc EXCEPT ![t] = to]
  /\ call' = [call EXCEPT ![t] = c]
  /\ nextCall' = nextCall + 1

Refuse(t, op, rv) ==
  Begin(t, "done", [NewCall(nextCall, op, NoSlot, NoSlot, NoCall) EXCEPT !.rv = rv])

\* A dereference of a null pointer, or SIGPIPE.
Die ==
  /\ alive' = FALSE
  /\ clientEnd' = [s \in Sessions |-> IF clientEnd[s] = "open" THEN "closed"
                                                               ELSE clientEnd[s]]
  /\ UNCHANGED <<tableVars, threadVars, ownerVars, serverEnd, broken,
                 toServer, toClient>>

\* The thread waits for a mutex nobody will unlock.
BlockOnMutex(t, op) ==
  /\ MayCall(t, op)
  /\ contextMutex = "lost"
  /\ op \in {"EstablishContext", "ReleaseContext", "Connect"} \cup ContextOps
  /\ Begin(t, "blocked", NewCall(nextCall, op, NoSlot, NoSlot, NoCall))
  /\ UNCHANGED <<alive, tableVars, ownerVars, connVars>>

\* pp_createContext compares the value of PCSC_NULLENC, set or not.
NoEnvironment(t) ==
  /\ MayCall(t, "EstablishContext")
  /\ contextMutex = "free"
  /\ ~tlsopts
  /\ "environment" \in Faults
  /\ Die

\* pp_createContext when pp_tlsopts_init_any fails: it returns with the mutex locked.
TlsInitFails(t) ==
  /\ MayCall(t, "EstablishContext")
  /\ contextMutex = "free"
  /\ ~tlsopts
  /\ "tlsinit" \in Faults
  /\ contextMutex' = "lost"
  /\ Refuse(t, "EstablishContext", "internal")
  /\ UNCHANGED <<alive, tlsopts, contextArray, cardArray, ownerVars, connVars>>

\* pp_createContext without a free slot, or when the slot cannot be set up.
NoContext(t) ==
  /\ MayCall(t, "EstablishContext")
  /\ contextMutex = "free"
  /\ FreeContexts = {} \/ "credentials" \in Faults
  /\ tlsopts' = TRUE
  /\ Refuse(t, "EstablishContext", "internal")
  /\ UNCHANGED <<alive, contextMutex, contextArray, cardArray, ownerVars, connVars>>

\* Mutant: the slot is not marked as used.
EstablishContextUnmarked(t) ==
  /\ MayCall(t, "EstablishContext")
  /\ contextMutex = "free"
  /\ tlsopts' = TRUE
  /\ \E i \in Slots :
       /\ First(i, FreeContexts)
       /\ Begin(t, "send", NewCall(nextCall, "EstablishContext", i, NoSlot, NoCall))
  /\ UNCHANGED <<alive, contextMutex, contextArray, cardArray, ownerVars, connVars>>

\* pp_createContext takes the first slot with id 0.  It does not touch the slot's session.
EstablishContext(t) ==
  /\ MayCall(t, "EstablishContext")
  /\ contextMutex = "free"
  /\ tlsopts' = TRUE
  /\ \E i \in Slots :
       /\ First(i, FreeContexts)
       /\ contextArray' = [contextArray EXCEPT ![i].used = TRUE]
       /\ Begin(t, "send", NewCall(nextCall, "EstablishContext", i, NoSlot, NoCall))
  /\ UNCHANGED <<alive, contextMutex, cardArray, ownerVars, connVars>>

\* Calls with an hContext: pp_findContext, then the payload, which no other
\* call can change in between unless it releases the context under this one.
\* SCardConnect looks at the reader's name first.
ContextCall(t, op, i) ==
  /\ MayCall(t, op)
  /\ op \in {"ReleaseContext", "Connect"} \cup ContextOps
  /\ MayUseContext(t, op, i)
  /\ contextMutex = "free" \/ op = "Connect"
  /\ \/ /\ contextArray[i].used \/ op = "Connect"
        /\ \E rv \in BadArguments(op) : Refuse(t, op, rv)
     \/ /\ contextMutex = "free"
        /\ ~contextArray[i].used
        /\ Refuse(t, op, "internal")
     \/ /\ contextMutex = "free"
        /\ contextArray[i].used
        /\ Begin(t, IF op = "Connect" THEN "card" ELSE "send",
                 NewCall(nextCall, op, i, NoSlot, contextArray[i].pcsc))
  /\ contextOwner' = IF op = "ReleaseContext"
                       THEN [contextOwner EXCEPT ![i] = None]
                       ELSE contextOwner
  /\ cardOwner' = IF op = "ReleaseContext"
                    THEN [k \in Slots |-> IF cardArray[k].ctx = i THEN None
                                                                  ELSE cardOwner[k]]
                    ELSE cardOwner
  /\ UNCHANGED <<alive, tableVars, connVars>>

\* Mutant: clientContext is not set.
CreateCardWithoutContext(t) ==
  /\ alive
  /\ pc[t] = "card"
  /\ \E k \in Slots :
       /\ First(k, FreeCards)
       /\ cardArray' = [cardArray EXCEPT ![k].used = TRUE]
       /\ call' = [call EXCEPT ![t].card = k]
  /\ pc' = [pc EXCEPT ![t] = "send"]
  /\ UNCHANGED <<alive, contextMutex, tlsopts, contextArray, nextCall, ownerVars,
                 connVars>>

\* SCardConnect goes on with pp_createCard, which takes the first free card.
CreateCard(t) ==
  /\ alive
  /\ pc[t] = "card"
  /\ \/ /\ FreeCards = {}
        /\ pc' = [pc EXCEPT ![t] = "done"]
        /\ call' = [call EXCEPT ![t].rv = "internal"]
        /\ UNCHANGED cardArray
     \/ /\ \E k \in Slots :
             /\ First(k, FreeCards)
             /\ cardArray' = [cardArray EXCEPT ![k].used = TRUE,
                                               ![k].ctx = call[t].ctx]
             /\ call' = [call EXCEPT ![t].card = k]
        /\ pc' = [pc EXCEPT ![t] = "send"]
  /\ UNCHANGED <<alive, contextMutex, tlsopts, contextArray, nextCall,
                 ownerVars, connVars>>

\* Calls with an hCard: pp_findCard, then the payload.  SCardCancel sends the
\* handle of the library, which the PC/SC service has never issued.
CardCall(t, op, k) ==
  /\ MayCall(t, op)
  /\ op \in {"Cancel"} \cup CardOps
  /\ MayUseCard(t, k)
  /\ \/ /\ ~cardArray[k].used
        /\ Refuse(t, op, "invalid")
     \/ /\ cardArray[k].used
        /\ \E rv \in BadArguments(op) : Refuse(t, op, rv)
     \/ /\ cardArray[k].used
        /\ Begin(t, "send",
                 NewCall(nextCall, op, cardArray[k].ctx, k,
                         IF op = "Cancel" THEN NoCall ELSE cardArray[k].pcsc))
  /\ cardOwner' = IF op = "Disconnect" THEN [cardOwner EXCEPT ![k] = None]
                                       ELSE cardOwner
  /\ UNCHANGED <<alive, tableVars, contextOwner, connVars>>

\* PC/SC's SCardCancel takes a context: pp_findCard finds no card of that id.
CancelContext(t, i) ==
  /\ MayCall(t, "Cancel")
  /\ MayUseContext(t, "Cancel", i)
  /\ Refuse(t, "Cancel", "invalid")
  /\ UNCHANGED <<alive, tableVars, ownerVars, connVars>>

----------------------------------------------------------------------------
(***************************************************************************)
(* pp_exchangeMsg.  These calls have something left to do after it; the    *)
(* others return what it gave them.                                        *)
(***************************************************************************)
AfterExchange(op) ==
  IF op \in {"EstablishContext", "ReleaseContext", "Connect"} THEN "finish"
                                                              ELSE "done"

Exchanged(t, rv, msg, answer) ==
  /\ pc' = [pc EXCEPT ![t] = AfterExchange(call[t].op)]
  /\ call' = [call EXCEPT ![t].rv = rv, ![t].msg = msg, ![t].answer = answer]

ExchangeFails(t) == Exchanged(t, "internal", call[t].msg, NoCall)

SessionOf(t) == contextArray[call[t].ctx].session

\* No session, and this is not EstablishContext: -1.
NotConnected(t) ==
  /\ alive
  /\ pc[t] = "send"
  /\ SessionOf(t) = NoSession
  /\ call[t].op # "EstablishContext" \/ "refused" \in Faults
  /\ ExchangeFails(t)
  /\ UNCHANGED <<alive, tableVars, nextCall, ownerVars, connVars>>

\* No session: connect to the daemon, which forks a child, and set up TLS.
OpenConnection(t) ==
  /\ alive
  /\ pc[t] = "send"
  /\ SessionOf(t) = NoSession
  /\ call[t].op = "EstablishContext"
  /\ contextArray' = [contextArray EXCEPT ![call[t].ctx].session = call[t].id]
  /\ clientEnd' = [clientEnd EXCEPT ![call[t].id] = "open"]
  /\ serverEnd' = [serverEnd EXCEPT ![call[t].id] = "open"]
  /\ UNCHANGED <<alive, contextMutex, tlsopts, cardArray, threadVars, ownerVars,
                 broken, toServer, toClient>>

\* Mutant: the request is sent again.
SendTwice(t) ==
  /\ alive
  /\ pc[t] = "send"
  /\ SessionOf(t) # NoSession
  /\ toServer' = IF Usable(SessionOf(t))
                   THEN [toServer EXCEPT ![SessionOf(t)] =
                           @ \o <<call[t].msg, call[t].msg>>]
                   ELSE toServer
  /\ pc' = [pc EXCEPT ![t] = "enter"]
  /\ UNCHANGED <<alive, tableVars, call, nextCall, ownerVars, clientEnd,
                 serverEnd, broken, toClient>>

Send(t) ==
  /\ alive
  /\ pc[t] = "send"
  /\ SessionOf(t) # NoSession
  /\ toServer' = IF Usable(SessionOf(t))
                   THEN [toServer EXCEPT ![SessionOf(t)] = Append(@, call[t].msg)]
                   ELSE toServer
  /\ pc' = [pc EXCEPT ![t] = "enter"]
  /\ UNCHANGED <<alive, tableVars, call, nextCall, ownerVars, clientEnd,
                 serverEnd, broken, toClient>>

\* send() reports that the other end is gone, or the signal kills the process.
SendFails(t) ==
  /\ alive
  /\ pc[t] = "send"
  /\ SessionOf(t) # NoSession
  /\ ~Usable(SessionOf(t))
  /\ \/ /\ ExchangeFails(t)
        /\ UNCHANGED <<alive, tableVars, nextCall, ownerVars, connVars>>
     \/ /\ "sigpipe" \in Faults
        /\ Die

\* ctx->tlsSession is read again for recv(), and dereferenced.
EnterRecv(t) ==
  /\ alive
  /\ pc[t] = "enter"
  /\ \/ /\ SessionOf(t) = NoSession
        /\ Die
     \/ /\ SessionOf(t) # NoSession
        /\ pc' = [pc EXCEPT ![t] = "recv"]
        /\ call' = [call EXCEPT ![t].session = SessionOf(t)]
        /\ UNCHANGED <<alive, tableVars, nextCall, ownerVars, connVars>>

\* A reply arrives.  Calls with lengths in the reply may find them too long.
ReceiveReply(t) ==
  LET s == call[t].session IN
  /\ alive
  /\ pc[t] = "recv"
  /\ toClient[s] # << >>
  /\ LET m == Head(toClient[s]) IN
       \/ Exchanged(t, m.rv, m, m.call)
       \/ /\ "lengths" \in Faults
          /\ call[t].op \in ChecksReply
          /\ Exchanged(t, "internal", m, m.call)
  /\ toClient' = [toClient EXCEPT ![s] = Tail(@)]
  /\ UNCHANGED <<alive, tableVars, nextCall, ownerVars, clientEnd, serverEnd,
                 broken, toServer>>

\* recv() returns 0, which pp_exchangeMsg does not tell from a reply: the
\* message buffer still holds the request, and its rv field is 0.  The length
\* SCardTransmit then checks is that of the command.
ReceiveEnd(t) ==
  LET s == call[t].session IN
  /\ alive
  /\ pc[t] = "recv"
  /\ toClient[s] = << >>
  /\ serverEnd[s] = "closed"
  /\ ~broken[s]
  /\ \/ Exchanged(t, call[t].msg.rv, call[t].msg, NoCall)
     \/ /\ "lengths" \in Faults
        /\ call[t].op = "Transmit"
        /\ ExchangeFails(t)
  /\ UNCHANGED <<alive, tableVars, nextCall, ownerVars, connVars>>

\* Mutant: an error is taken for a reply, as the end of the stream is.
ReceiveErrorIgnored(t) ==
  LET s == call[t].session IN
  /\ alive
  /\ pc[t] = "recv"
  /\ ~Usable(s)
  /\ Break(s)
  /\ Exchanged(t, call[t].msg.rv, call[t].msg, NoCall)
  /\ UNCHANGED <<alive, tableVars, nextCall, ownerVars, clientEnd, serverEnd>>

\* recv() returns -1: the connection is gone, or another thread has closed it.
ReceiveError(t) ==
  LET s == call[t].session IN
  /\ alive
  /\ pc[t] = "recv"
  /\ ~Usable(s)
  /\ Break(s)
  /\ ExchangeFails(t)
  /\ UNCHANGED <<alive, tableVars, nextCall, ownerVars, clientEnd, serverEnd>>

\* A signal interrupts recv() before the first byte: -1, and the connection lives on.
ReceiveInterrupted(t) ==
  /\ alive
  /\ pc[t] = "recv"
  /\ "interrupt" \in Faults
  /\ Usable(call[t].session)
  /\ toClient[call[t].session] = << >>
  /\ ExchangeFails(t)
  /\ UNCHANGED <<alive, tableVars, nextCall, ownerVars, connVars>>

----------------------------------------------------------------------------
(***************************************************************************)
(* What the calls do with the outcome.                                     *)
(***************************************************************************)
Finishing(t, op) ==
  /\ alive
  /\ pc[t] = "finish"
  /\ call[t].op = op

\* Mutant: the slot is kept whatever the result.
FinishEstablishUnchecked(t) ==
  LET i == call[t].ctx IN
  /\ Finishing(t, "EstablishContext")
  /\ contextMutex = "free"
  /\ contextArray' = [contextArray EXCEPT ![i].pcsc = call[t].msg.res]
  /\ contextOwner' = [contextOwner EXCEPT ![i] = t]
  /\ pc' = [pc EXCEPT ![t] = "done"]
  /\ UNCHANGED <<alive, contextMutex, tlsopts, cardArray, call, nextCall,
                 cardOwner, connVars>>

\* Mutant: the hContext of the service is not stored.
FinishEstablishUnmapped(t) ==
  LET i == call[t].ctx IN
  /\ Finishing(t, "EstablishContext")
  /\ contextMutex = "free"
  /\ \/ /\ call[t].rv = "ok"
        /\ contextOwner' = [contextOwner EXCEPT ![i] = t]
        /\ UNCHANGED contextArray
     \/ /\ call[t].rv # "ok"
        /\ contextArray' = [contextArray EXCEPT ![i].used = FALSE]
        /\ UNCHANGED contextOwner
  /\ pc' = [pc EXCEPT ![t] = "done"]
  /\ UNCHANGED <<alive, contextMutex, tlsopts, cardArray, call, nextCall,
                 cardOwner, connVars>>

\* Store the hContext of the service, or give the slot back: the session stays in it.
FinishEstablish(t) ==
  LET i == call[t].ctx IN
  /\ Finishing(t, "EstablishContext")
  /\ contextMutex = "free"
  /\ \/ /\ call[t].rv = "ok"
        /\ contextArray' = [contextArray EXCEPT ![i].pcsc = call[t].msg.res]
        /\ contextOwner' = [contextOwner EXCEPT ![i] = t]
     \/ /\ call[t].rv # "ok"
        /\ contextArray' = [contextArray EXCEPT ![i].used = FALSE]
        /\ UNCHANGED contextOwner
  /\ pc' = [pc EXCEPT ![t] = "done"]
  /\ UNCHANGED <<alive, contextMutex, tlsopts, cardArray, call, nextCall,
                 cardOwner, connVars>>

\* Mutant: the slot keeps its pointer to the session.
CloseSessionKept(t) ==
  /\ Finishing(t, "ReleaseContext")
  /\ SessionOf(t) # NoSession
  /\ clientEnd' = [clientEnd EXCEPT ![SessionOf(t)] = "closed"]
  /\ pc' = [pc EXCEPT ![t] = "unlock"]
  /\ UNCHANGED <<alive, tableVars, call, nextCall, ownerVars, serverEnd, broken,
                 toServer, toClient>>

\* Mutant: the socket is not closed.
CloseSessionLeaked(t) ==
  /\ Finishing(t, "ReleaseContext")
  /\ SessionOf(t) # NoSession
  /\ contextArray' = [contextArray EXCEPT ![call[t].ctx].session = NoSession]
  /\ pc' = [pc EXCEPT ![t] = "unlock"]
  /\ UNCHANGED <<alive, contextMutex, tlsopts, cardArray, call, nextCall,
                 ownerVars, connVars>>

\* SCardReleaseContext closes the connection whatever the exchange gave.
CloseSession(t) ==
  /\ Finishing(t, "ReleaseContext")
  /\ \/ /\ SessionOf(t) = NoSession
        /\ Die
     \/ /\ SessionOf(t) # NoSession
        /\ clientEnd' = [clientEnd EXCEPT ![SessionOf(t)] = "closed"]
        /\ contextArray' = [contextArray EXCEPT ![call[t].ctx].session = NoSession]
        /\ pc' = [pc EXCEPT ![t] = "unlock"]
        /\ UNCHANGED <<alive, contextMutex, tlsopts, cardArray, call, nextCall,
                       ownerVars, serverEnd, broken, toServer, toClient>>

\* pp_releaseContext.  The cards of the context stay in the table.
FinishRelease(t) ==
  /\ alive
  /\ pc[t] = "unlock"
  /\ contextMutex = "free"
  /\ contextArray' = [contextArray EXCEPT ![call[t].ctx].used = FALSE]
  /\ pc' = [pc EXCEPT ![t] = "done"]
  /\ UNCHANGED <<alive, contextMutex, tlsopts, cardArray, call, nextCall,
                 ownerVars, connVars>>

\* Mutant: the card is kept whatever the result.
FinishConnectUnchecked(t) ==
  LET k == call[t].card IN
  /\ Finishing(t, "Connect")
  /\ cardArray' = [cardArray EXCEPT ![k].pcsc = call[t].msg.res]
  /\ cardOwner' = [cardOwner EXCEPT ![k] = t]
  /\ pc' = [pc EXCEPT ![t] = "done"]
  /\ UNCHANGED <<alive, contextMutex, tlsopts, contextArray, call, nextCall,
                 contextOwner, connVars>>

\* Map the hCard of the service, or give the card back.
FinishConnect(t) ==
  LET k == call[t].card IN
  /\ Finishing(t, "Connect")
  /\ \/ /\ call[t].rv = "ok"
        /\ cardArray' = [cardArray EXCEPT ![k].pcsc = call[t].msg.res]
        /\ cardOwner' = [cardOwner EXCEPT ![k] = t]
     \/ /\ call[t].rv # "ok"
        /\ cardArray' = [cardArray EXCEPT ![k].used = FALSE]
        /\ UNCHANGED cardOwner
  /\ pc' = [pc EXCEPT ![t] = "done"]
  /\ UNCHANGED <<alive, contextMutex, tlsopts, contextArray, call, nextCall,
                 contextOwner, connVars>>

\* The call returns to the application.
Return(t) ==
  /\ alive
  /\ pc[t] = "done"
  /\ pc' = [pc EXCEPT ![t] = "idle"]
  /\ call' = [call EXCEPT ![t] = Idle]
  /\ UNCHANGED <<alive, tableVars, nextCall, ownerVars, connVars>>

----------------------------------------------------------------------------
\* The application calls the library.
Call(t) ==
  \/ NoEnvironment(t)
  \/ TlsInitFails(t)
  \/ NoContext(t)
  \/ EstablishContext(t)
  \/ \E op \in AllOps : BlockOnMutex(t, op)
  \/ \E op \in AllOps, i \in Slots : ContextCall(t, op, i) \/ CardCall(t, op, i)
  \/ \E i \in Slots : CancelContext(t, i)

\* The library goes on with a call.
Continue(t) ==
  \/ CreateCard(t)
  \/ NotConnected(t)
  \/ OpenConnection(t)
  \/ Send(t)
  \/ SendFails(t)
  \/ EnterRecv(t)
  \/ ReceiveReply(t)
  \/ ReceiveEnd(t)
  \/ ReceiveError(t)
  \/ ReceiveInterrupted(t)
  \/ FinishEstablish(t)
  \/ CloseSession(t)
  \/ FinishRelease(t)
  \/ FinishConnect(t)
  \/ Return(t)
=============================================================================
