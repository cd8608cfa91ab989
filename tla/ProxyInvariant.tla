--------------------------- MODULE ProxyInvariant ---------------------------
(***************************************************************************)
(* Why the invariants of Proxy hold: the inductive ones behind them.       *)
(***************************************************************************)
EXTENDS Proxy

\* t is inside a call that refers to a slot of the table.
Active(t) == pc[t] \notin {"idle", "blocked", "done"}

\* t has sent its request on s and not yet had the reply.
Awaits(t, s) == pc[t] \in {"enter", "recv"} /\ SessionOf(t) = s

Serving(s) == child[s] \in {"execute", "send"}

\* The slot of an active call is in use, and the thread may use it.  The
\* application has no handle to a context that is being set up or released.
SlotsClaimed ==
  \A t \in Threads : Active(t) =>
    /\ call[t].ctx \in Slots
    /\ contextArray[call[t].ctx].used
    /\ IF call[t].op \in {"EstablishContext", "ReleaseContext"}
         THEN contextOwner[call[t].ctx] = None
         ELSE Held(contextOwner[call[t].ctx], t)
    /\ pc[t] = "unlock" => call[t].op = "ReleaseContext"
    /\ pc[t] = "card" => call[t].op = "Connect"

\* Who sets up or releases a context is alone on its slot, and so is everybody
\* if threads do not share.
Alone(t) == Discipline = "own" \/ call[t].op \in {"EstablishContext", "ReleaseContext"}

SlotsExclusive ==
  \A t, u \in Threads :
    t # u /\ Active(t) /\ Active(u) /\ Alone(t) => call[t].ctx # call[u].ctx

OwnedSlotsUsed == \A i \in Slots : contextOwner[i] # None => contextArray[i].used

SlotInvariant == SlotsClaimed /\ SlotsExclusive /\ OwnedSlotsUsed

\* Calls have identities of their own, and open sessions nobody has opened before.
CallsDistinct ==
  /\ \A t \in Threads : pc[t] # "idle" => call[t].id \in 1 .. nextCall - 1
  /\ \A t, u \in Threads :
       t # u /\ pc[t] # "idle" /\ pc[u] # "idle" => call[t].id # call[u].id
  /\ \A t \in Threads :
       pc[t] \in {"card", "send", "enter", "recv"} => call[t].msg.call = call[t].id

SessionsFresh ==
  /\ \A s \in Sessions : s >= nextCall => clientEnd[s] = "none"
  /\ \A t \in Threads :
       /\ pc[t] = "send"
       /\ call[t].op = "EstablishContext"
       /\ SessionOf(t) = NoSession
       => clientEnd[call[t].id] = "none"

SessionsApart ==
  /\ \A i \in Slots :
       contextArray[i].session # NoSession => clientEnd[contextArray[i].session] # "none"
  /\ \A i, j \in Slots :
       i # j /\ contextArray[i].session # NoSession
         => contextArray[i].session # contextArray[j].session

SessionKept ==
  \A t \in Threads : pc[t] = "recv" => call[t].session = SessionOf(t)

SessionInvariant == CallsDistinct /\ SessionsFresh /\ SessionsApart /\ SessionKept

\* A request under way, one being served and a reply under way: at most one of
\* the three, and the thread it belongs to awaits it on that session.
RequestAwaited ==
  \A s \in Sessions : toServer[s] # << >> =>
    /\ ~Serving(s)
    /\ toClient[s] = << >>
    /\ \E t \in Threads : Awaits(t, s) /\ toServer[s] = <<call[t].msg>>

ServiceAwaited ==
  \A s \in Sessions : Serving(s) /\ ~broken[s] =>
    /\ toServer[s] = << >>
    /\ toClient[s] = << >>
    /\ \E t \in Threads : Awaits(t, s) /\ request[s].call = call[t].id

ReplyAwaited ==
  \A s \in Sessions : toClient[s] # << >> =>
    /\ ~Serving(s)
    /\ toServer[s] = << >>
    /\ Tail(toClient[s]) = << >>
    /\ \E t \in Threads : Awaits(t, s) /\ Head(toClient[s]).call = call[t].id

EndsAgree ==
  \A s \in Sessions :
    /\ broken[s] => toServer[s] = << >> /\ toClient[s] = << >>
    /\ serverEnd[s] = "closed" => child[s] = "exited" /\ toServer[s] = << >>

MessageInvariant == RequestAwaited /\ ServiceAwaited /\ ReplyAwaited /\ EndsAgree

(***************************************************************************)
(* A thread takes only the reply to its own request because a request, its *)
(* service and its reply exist at most once on a session and only while    *)
(* the one thread awaits it whose slot has the session; because no slot    *)
(* serves two threads at a time; and because no two slots have a session   *)
(* in common.                                                              *)
(***************************************************************************)
ReplyInvariant ==
  SlotInvariant /\ SessionInvariant /\ MessageInvariant /\ ReplyToItsCall

----------------------------------------------------------------------------
\* t has a request of its own to send.
Unsent(t) == pc[t] \in {"card", "send"}

\* A call has a number of its own until its request is sent, and nobody has
\* carried it out.
UnsentNumbered ==
  /\ \A t \in Threads : Unsent(t) =>
       /\ call[t].id \in 1 .. nextCall - 1
       /\ call[t].msg.call = call[t].id
       /\ executions[call[t].id] = 0
  /\ \A t, u \in Threads :
       t # u /\ Unsent(t) /\ Unsent(u) => call[t].id # call[u].id

\* The request of call c is on its way to the child of s, or in its hands.
Sent(s, c) == \E n \in 1 .. Len(toServer[s]) : toServer[s][n].call = c

InHand(s, c) == child[s] = "execute" /\ request[s].call = c

SentNumbered ==
  \A s \in Sessions, c \in Handles : Sent(s, c) \/ InHand(s, c) =>
    /\ c \in 1 .. nextCall - 1
    /\ executions[c] = 0
    /\ \A t \in Threads : Unsent(t) => call[t].id # c

\* There is no second request of a call.
SentOnce ==
  /\ \A s \in Sessions, c \in Handles : ~(Sent(s, c) /\ InHand(s, c))
  /\ \A s, r \in Sessions, c \in Handles :
       (Sent(s, c) \/ InHand(s, c)) /\ (Sent(r, c) \/ InHand(r, c)) => s = r
  /\ \A s \in Sessions : \A n, m \in 1 .. Len(toServer[s]) :
       toServer[s][n].call = toServer[s][m].call => n = m

NewCallsNotCarriedOut == \A c \in CallIds : c >= nextCall => executions[c] = 0

(***************************************************************************)
(* The service carries out a call at most once because a call is one       *)
(* request until then: with its thread, on its way, or in the hands of one *)
(* child.  This needs nothing of the application and nothing of the        *)
(* connections.                                                            *)
(***************************************************************************)
OnceInvariant ==
  /\ UnsentNumbered
  /\ SentNumbered
  /\ SentOnce
  /\ NewCallsNotCarriedOut
  /\ AtMostOnce

----------------------------------------------------------------------------
\* The library has not closed the socket of a session its table refers to.
SessionsOpen ==
  alive =>
    \A i \in Slots : contextArray[i].session # NoSession =>
                       clientEnd[contextArray[i].session] = "open"

\* A context has a session from the exchange of SCardEstablishContext until
\* SCardReleaseContext closes it.
SessionsHeld ==
  /\ \A i \in Slots : contextOwner[i] # None => contextArray[i].session # NoSession
  /\ \A t \in Threads :
       /\ Active(t)
       /\ pc[t] # "unlock"
       /\ \/ call[t].op # "EstablishContext"
          \/ pc[t] \in {"enter", "recv"}
          \/ pc[t] = "finish" /\ call[t].rv = "ok"
       => SessionOf(t) # NoSession

\* Every reply is the reply to a call.
RepliesNumbered ==
  \A s \in Sessions :
    /\ child[s] = "send" => request[s].call # NoCall
    /\ \A n \in 1 .. Len(toClient[s]) : toClient[s][n].call # NoCall

\* Nobody accepts a connection before the client opens it.
OpenedByClient ==
  \A s \in Sessions : clientEnd[s] = "none" => serverEnd[s] = "none"

\* Nothing has happened on a session before it is opened.
UnopenedEmpty ==
  \A s \in Sessions : clientEnd[s] = "none" =>
    /\ child[s] = "recv"
    /\ toServer[s] = << >>
    /\ toClient[s] = << >>
    /\ service[s] = Empty

\* A call that took the end of the stream for a reply found it at the end of a
\* child, and sessions are not opened again.
UnansweredClosed ==
  \A t \in Threads :
    /\ pc[t] \in {"finish", "unlock", "done"}
    /\ call[t].rv \in {"ok", "error"}
    /\ call[t].answer = NoCall
    => /\ call[t].session \in Sessions
       /\ serverEnd[call[t].session] = "closed"

(***************************************************************************)
(* What an application relies on whatever fails, interrupted calls         *)
(* included, whether its threads share handles or not: who sets up or      *)
(* releases a context has its slot alone, and each slot has a session of   *)
(* its own, which is there when it is dereferenced and open until the slot *)
(* gives it up.                                                            *)
(***************************************************************************)
ConnectionInvariant ==
  /\ SlotInvariant
  /\ SessionInvariant
  /\ SessionsOpen
  /\ SessionsHeld
  /\ RepliesNumbered
  /\ OpenedByClient
  /\ UnopenedEmpty
  /\ UnansweredClosed

----------------------------------------------------------------------------
WaitersCounted ==
  \A s \in Sessions : Usable(s) =>
    IsFiniteSet(Waiting(s)) /\ Cardinality(Waiting(s)) = UnderWay(s)

\* While a context is being set up, its child has something open only when it
\* has said so.
GrantReported(t, s) ==
  \/ Awaits(t, s) /\ child[s] = "send" /\ request[s].rv = "ok"
  \/ Awaits(t, s) /\ toClient[s] # << >> /\ Head(toClient[s]).rv = "ok"
  \/ pc[t] = "finish" /\ call[t].rv = "ok"

EstablishFromEmpty ==
  \A t \in Threads, s \in Sessions :
    /\ Active(t)
    /\ call[t].op = "EstablishContext"
    /\ SessionOf(t) = s
    /\ Usable(s)
    /\ service[s] # Empty
    => GrantReported(t, s)

ReleasedSlotEmpty == \A t \in Threads : pc[t] = "unlock" => SessionOf(t) = NoSession

(***************************************************************************)
(* Why threads that share a context are each served, and why a connection  *)
(* that outlives its context has nothing open at its other end: requests,  *)
(* replies and those who wait come and go together, and a slot is set up   *)
(* and released by one thread that knows the outcome.                      *)
(***************************************************************************)
SharingInvariant ==
  /\ WaitersCounted
  /\ EstablishFromEmpty
  /\ ReleasedSlotEmpty
  /\ NothingLeftOpen

----------------------------------------------------------------------------
\* A request or reply of call c is in the connection s, or in its child's hands.
Carries(s, c) ==
  \/ \E n \in 1 .. Len(toServer[s]) : toServer[s][n].call = c
  \/ \E n \in 1 .. Len(toClient[s]) : toClient[s][n].call = c
  \/ Serving(s) /\ request[s].call = c

IdleUnnumbered == \A t \in Threads : pc[t] = "idle" => call[t].id = NoCall

\* What a session carries is not about a call later than the one that uses it.
CarriedEarlier ==
  \A s \in Sessions, c \in Handles : Carries(s, c) =>
    /\ c \in 1 .. nextCall - 1
    /\ \A t \in Threads : Active(t) /\ SessionOf(t) = s => c <= call[t].id

\* If the call has not given up, it awaits its reply there.
CarriedAwaited ==
  \A s \in Sessions, c \in Handles : Carries(s, c) =>
    \A t \in Threads : call[t].id = c /\ call[t].rv = "none" => Awaits(t, s)

(***************************************************************************)
(* Why a reply that is not to the call that takes it is late: what is left *)
(* on a session is about earlier calls than the one that uses it now, and  *)
(* a call that has not given up awaits its reply there.                    *)
(***************************************************************************)
StrayInvariant == IdleUnnumbered /\ CarriedEarlier /\ CarriedAwaited

----------------------------------------------------------------------------
\* Data passes between the context in slot i and its child.
Live(i) == contextArray[i].session # NoSession /\ Usable(contextArray[i].session)

\* The child of s has open what the request m is about, if that matters.
Backed(s, m) == m.op \in {"Cancel", "CancelTransaction", "SetTimeout"} \/ Known(s, m)

\* What the call c was given as res is open in the child of s.
Granted(s, c, op, res) ==
  /\ op = "EstablishContext" => res \in service[s].contexts
  /\ op = "Connect" => res = c /\ res \in Open(s)

\* The context the application has a handle of is open in its child.
ContextKnown(i) ==
  contextOwner[i] # None /\ Live(i) =>
    contextArray[i].pcsc \in service[contextArray[i].session].contexts

\* So is its card, in the child of the card's context.
CardKnown(k) ==
  cardOwner[k] # None =>
    /\ cardArray[k].used
    /\ contextOwner[cardArray[k].ctx] = cardOwner[k]
    /\ Live(cardArray[k].ctx) =>
         /\ cardArray[k].pcsc \in Open(contextArray[cardArray[k].ctx].session)
         /\ cardArray[k].pcsc < nextCall

\* SCardConnect past pp_createCard has an entry of the card table for itself.
Connecting(t) ==
  call[t].op = "Connect" /\ pc[t] \in {"send", "enter", "recv", "finish"}

CardClaimed(t) ==
  Connecting(t) =>
    /\ call[t].card \in Slots
    /\ cardArray[call[t].card].used
    /\ cardArray[call[t].card].ctx = call[t].ctx
    /\ cardOwner[call[t].card] = None
    /\ \A u \in Threads \ {t} : Connecting(u) => call[u].card # call[t].card

\* The card of k is neither the one that t connects nor the one it disconnects.
Spares(t, k) ==
  Active(t) /\ call[t].ctx = cardArray[k].ctx =>
    /\ call[t].op = "Connect" => call[t].id # cardArray[k].pcsc
    /\ call[t].op = "Disconnect" => call[t].msg.arg # cardArray[k].pcsc

\* No two handles of the application are handles of one card.
CardApart(k) ==
  cardOwner[k] # None /\ Live(cardArray[k].ctx) =>
    /\ \A l \in Slots \ {k} :
         cardOwner[l] # None /\ cardArray[l].ctx = cardArray[k].ctx
           => cardArray[l].pcsc # cardArray[k].pcsc
    /\ \A t \in Threads : Spares(t, k)

\* What a call is about to send, and what it is about to store, is open.
CallBacked(t) ==
  /\ pc[t] \in {"card", "send", "enter", "recv"} => call[t].msg.op = call[t].op
  /\ Unsent(t) /\ Live(call[t].ctx) => Backed(SessionOf(t), call[t].msg)
  /\ pc[t] = "finish" /\ call[t].rv = "ok" /\ Live(call[t].ctx) =>
       Granted(SessionOf(t), call[t].id, call[t].op, call[t].msg.res)

\* What a child is to carry out is open there, what it has granted too, and
\* both are about the call that awaits it.
RequestBacked(s, m) ==
  /\ Backed(s, m)
  /\ \A t \in Threads : Awaits(t, s) => m = call[t].msg

ReplyGranted(s, m) ==
  /\ m.rv = "ok" => Granted(s, m.call, m.op, m.res)
  /\ \A t \in Threads : Awaits(t, s) => m.op = call[t].op

SessionBacked(s) ==
  Usable(s) =>
    /\ toServer[s] # << >> => Backed(s, Head(toServer[s]))
    /\ child[s] = "execute" => RequestBacked(s, request[s])
    /\ child[s] = "send" => ReplyGranted(s, request[s])
    /\ toClient[s] # << >> => ReplyGranted(s, Head(toClient[s]))

(***************************************************************************)
(* The service knows what a disciplined application asks for because the   *)
(* handles in the tables are open in the child of their context whenever   *)
(* the application holds them; because only the request under way can      *)
(* close one, and it closes none the application still holds; and because  *)
(* a new handle is open before it is stored.                               *)
(***************************************************************************)
HandleInvariant ==
  /\ \A i \in Slots : ContextKnown(i)
  /\ \A k \in Slots : CardKnown(k) /\ CardApart(k)
  /\ \A t \in Threads : CardClaimed(t) /\ CallBacked(t)
  /\ \A s \in Sessions : SessionBacked(s)

----------------------------------------------------------------------------
\* What the child of s has still to carry out, and what it has carried out.
Requests(s) ==
  {toServer[s][n] : n \in 1 .. Len(toServer[s])}
    \cup {m \in {request[s]} : child[s] = "execute"}

Replies(s) ==
  {toClient[s][n] : n \in 1 .. Len(toClient[s])}
    \cup {m \in {request[s]} : child[s] = "send"}

\* A request of a context names an open one, and there is none to release it
\* but that of the thread which does.
RequestsNamed ==
  \A s \in Sessions : Usable(s) => \A m \in Requests(s) :
    /\ ContextNamed(s, m)
    /\ m.op = "ReleaseContext" =>
         \E t \in Threads : Awaits(t, s) /\ call[t].op = "ReleaseContext"

CallsNamed ==
  \A t \in Threads :
    /\ pc[t] \in {"card", "send"} => call[t].msg.op = call[t].op
    /\ Unsent(t) /\ Live(call[t].ctx) => ContextNamed(SessionOf(t), call[t].msg)

\* Who sets up a context is given the handle of one that is open.
GrantNamed ==
  \A t \in Threads, s \in Sessions :
    /\ Active(t)
    /\ call[t].op = "EstablishContext"
    /\ SessionOf(t) = s
    /\ Usable(s)
    => /\ \A m \in Requests(s) : m.op = "EstablishContext"
       /\ \A m \in Replies(s) : m.rv = "ok" => m.res \in service[s].contexts
       /\ pc[t] = "finish" /\ call[t].rv = "ok" =>
            call[t].msg.res \in service[s].contexts

(***************************************************************************)
(* The service knows the contexts that threads ask for, shared or not:     *)
(* those the application holds are open; a request to release one is the   *)
(* only request there is then, and its thread the only one; and a new one  *)
(* is open before it is stored.                                            *)
(***************************************************************************)
ContextInvariant ==
  /\ \A i \in Slots : ContextKnown(i)
  /\ RequestsNamed
  /\ CallsNamed
  /\ GrantNamed

----------------------------------------------------------------------------
\* A call has an outcome when its exchange is over and not before.
OutcomesGiven ==
  \A t \in Threads :
    /\ pc[t] \in {"blocked", "card", "send", "enter", "recv"} => call[t].rv = "none"
    /\ pc[t] \in {"finish", "unlock", "done"} => call[t].rv # "none"
    /\ pc[t] # "idle" => call[t].op \in Ops

\* What a child is about to reply, and what it has replied, it has carried out.
RepliesCarriedOut ==
  \A s \in Sessions :
    /\ Usable(s) /\ child[s] = "send" => executions[request[s].call] = 1
    /\ toClient[s] # << >> => executions[Head(toClient[s]).call] = 1

\* A child whose service ends leaves behind a connection its client cannot read.
EndsByClient ==
  \A s \in Sessions : serverEnd[s] = "closed" => broken[s] \/ clientEnd[s] = "closed"

(***************************************************************************)
(* Why an answer means that the call has been carried out, when no child   *)
(* dies before its client has closed the connection, and SetTimeout, which *)
(* the daemon answers without the service, is not called.                  *)
(***************************************************************************)
AnswerInvariant == OutcomesGiven /\ RepliesCarriedOut /\ EndsByClient
=============================================================================
