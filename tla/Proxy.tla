-------------------------------- MODULE Proxy --------------------------------
(***************************************************************************)
(* The application with its replacement library, the connections, and the  *)
(* children of the daemon, together.                                       *)
(***************************************************************************)
EXTENDS ClientLibrary, ServerChild

vars == <<clientVars, serverVars, connVars>>

Init == ClientInit /\ ServerInit /\ ConnInit

ClientStep(t) == (Call(t) \/ Continue(t)) /\ UNCHANGED serverVars

ServerStep(s) == (ChildStep(s) \/ ChildDies(s)) /\ UNCHANGED clientVars

NetworkStep(s) == NetworkReset(s) /\ UNCHANGED <<clientVars, serverVars>>

Next ==
  \/ \E t \in Threads : ClientStep(t)
  \/ \E s \in Sessions : ServerStep(s) \/ NetworkStep(s)

Spec == Init /\ [][Next]_vars

(***************************************************************************)
(* Threads that are inside the library and children that have something to *)
(* do are scheduled.  Nothing makes an application call the library, and   *)
(* no signal need come to get it out of recv().                            *)
(***************************************************************************)
Fairness ==
  /\ \A t \in Threads :
       WF_vars(Continue(t) /\ ~ReceiveInterrupted(t) /\ UNCHANGED serverVars)
  /\ \A s \in Sessions : WF_vars(ChildStep(s) /\ UNCHANGED clientVars)

FairSpec == Spec /\ Fairness

TypeOK == ClientTypeOK /\ ServerTypeOK /\ ConnTypeOK

----------------------------------------------------------------------------
Done(t) == pc[t] = "done"

\* A call reports the success of an exchange, or the error of the service.
Answered(t) == Done(t) /\ call[t].rv \in {"ok", "error"}

(***************************************************************************)
(* A thread takes no reply but the one to its own request: through table   *)
(* slots that are given back and taken again by another thread, sessions   *)
(* that outlive a failed EstablishContext, and connections that break      *)
(* while a request is under way.  For disciplined threads whose recv() is  *)
(* not interrupted.                                                        *)
(***************************************************************************)
ReplyToItsCall ==
  \A t \in Threads : call[t].answer \in {NoCall, call[t].id}

(***************************************************************************)
(* Threads that share a context may take each other's replies, but there   *)
(* is exactly one reply to come for each of them: none waits in vain, and  *)
(* none is left over for a later call.  As long as no thread releases the  *)
(* context under the others.                                               *)
(***************************************************************************)
Waiting(s) == {t \in Threads : pc[t] \in {"enter", "recv"} /\ SessionOf(t) = s}

UnderWay(s) == Len(toServer[s]) + Len(toClient[s])
                 + (IF child[s] \in {"execute", "send"} THEN 1 ELSE 0)

OneReplyPerWaiter ==
  alive => \A s \in Sessions : Usable(s) => Cardinality(Waiting(s)) = UnderWay(s)

(***************************************************************************)
(* Whatever the application does and whatever breaks, the service carries  *)
(* out a call at most once: nothing is sent again.                         *)
(***************************************************************************)
AtMostOnce == \A c \in CallIds : executions[c] <= 1

(***************************************************************************)
(* An interrupted recv() leaves its reply in the connection, for a later   *)
(* call to take.  A disciplined thread that takes a reply not its own      *)
(* takes one of an earlier call, which has given up.                       *)
(***************************************************************************)
StraysAreLate ==
  [][\A t \in Threads :
       call'[t].answer \notin {NoCall, call'[t].id, call[t].answer} =>
         /\ call'[t].answer < call'[t].id
         /\ \A u \in Threads : call[u].id = call'[t].answer => call[u].rv # "none"]_vars

(***************************************************************************)
(* The mapping from the handles of the library to the handles of the       *)
(* service is right end to end: what a disciplined application asks for    *)
(* reaches the child that opened the context or card, which still has it.  *)
(* SCardCancel and SCardCancelTransaction never pass on a handle of the    *)
(* right kind, and SetTimeout is not passed on.                            *)
(***************************************************************************)
HandleKnown ==
  \A s \in Sessions :
    /\ Running(s)
    /\ child[s] = "execute"
    /\ Usable(s)
    /\ request[s].op \notin {"Cancel", "CancelTransaction", "SetTimeout"}
    => Known(s, request[s])

(***************************************************************************)
(* Threads that share a context may be left with a card another one has    *)
(* disconnected, but never with a context another one has released: what   *)
(* they ask of a context reaches the child that has it open.  As long as   *)
(* no recv() is interrupted.                                               *)
(***************************************************************************)
ContextRequests == {"ReleaseContext", "Connect"} \cup ContextOps

ContextNamed(s, m) == m.op \in ContextRequests => m.arg \in service[s].contexts

SharedContextKnown ==
  \A s \in Sessions :
    Usable(s) /\ child[s] = "execute" => ContextNamed(s, request[s])

(***************************************************************************)
(* A call that reports a result without having had a reply found its child *)
(* gone: pp_exchangeMsg takes the end of the stream for a reply.           *)
(***************************************************************************)
UnansweredOnlyAfterExit ==
  \A t \in Threads :
    Answered(t) /\ call[t].answer = NoCall => serverEnd[call[t].session] = "closed"

(***************************************************************************)
(* No slot of the table loses the session it is using to another slot, and *)
(* none refers to a session the library has closed: the release of a       *)
(* context closes exactly its own connection.                              *)
(***************************************************************************)
SessionsNotShared ==
  alive =>
    \A i, j \in Slots :
      /\ contextArray[i].session # NoSession
      /\ clientEnd[contextArray[i].session] # "none"
      => /\ clientEnd[contextArray[i].session] = "open"
         /\ i # j => contextArray[i].session # contextArray[j].session

\* A null session is never dereferenced by a disciplined application.
NoCrash == alive

(***************************************************************************)
(* Every call returns, unless the process ends or the context mutex has    *)
(* been lost: no thread waits for a reply that does not come.              *)
(***************************************************************************)
CallsReturn ==
  \A t \in Threads :
    pc[t] # "idle" ~> (pc[t] = "idle" \/ ~alive \/ contextMutex = "lost")

\* A context in use refers to s.
InUse(s) == \E i \in Slots : contextArray[i].used /\ contextArray[i].session = s

(***************************************************************************)
(* What the service has open behind a working connection belongs to a      *)
(* context in use: a session left in a slot by a SCardEstablishContext     *)
(* that failed has nothing open.  As long as no context is released under  *)
(* other threads and recv() is not interrupted.                            *)
(***************************************************************************)
NothingLeftOpen ==
  \A s \in Sessions : Usable(s) /\ service[s] # Empty => InUse(s)

(***************************************************************************)
(* Nothing is left open in the PC/SC service for a session no context in   *)
(* use refers to: a released or failed context is cleaned up remotely.     *)
(***************************************************************************)
NoOrphans ==
  \A s \in Sessions : service[s] # Empty /\ ~InUse(s) ~> service[s] = Empty \/ InUse(s)

----------------------------------------------------------------------------
(***************************************************************************)
(* The proxy implements RemoteCalls: at most one execution per call, and   *)
(* an answer only after the execution of the very call it answers.         *)
(***************************************************************************)
PhaseOf(t) ==
  CASE pc[t] = "idle" -> "idle"
    [] pc[t] # "idle" /\ call[t].rv = "none" -> "pending"
    [] pc[t] # "idle" /\ call[t].rv \in {"ok", "error"} -> "answered"
    [] OTHER -> "failed"

Remote == INSTANCE RemoteCalls WITH
            phase <- [t \in Threads |-> PhaseOf(t)],
            current <- [t \in Threads |-> call[t].id],
            issued <- nextCall - 1

ImplementsRemoteCalls == Remote!Spec

----------------------------------------------------------------------------
(***************************************************************************)
(* README, section 3: from SCardEstablishContext to SCardReleaseContext    *)
(* all PC/SC calls are passed on to the service.  A call that returns a    *)
(* result has been carried out there.                                      *)
(***************************************************************************)
ResultsComeFromTheService ==
  \A t \in Threads : Answered(t) => executions[call[t].id] > 0

(***************************************************************************)
(* README, section 3: SCardEstablishContext sets up a connection to the    *)
(* service.  A call that got a slot of the table has opened one, where     *)
(* the daemon can be reached.                                              *)
(***************************************************************************)
EstablishOpensConnection ==
  \A t \in Threads :
    Done(t) /\ call[t].op = "EstablishContext" /\ call[t].ctx # NoSlot
      => clientEnd[call[t].id] # "none"
=============================================================================
