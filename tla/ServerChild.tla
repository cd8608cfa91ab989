----------------------------- MODULE ServerChild -----------------------------
(***************************************************************************)
(* A child of the proxy daemon of src/server/server.c: one process per     *)
(* connection, in pp_handleConnection.  It reads a request, has the local  *)
(* PC/SC service carry it out and writes the reply, one at a time.         *)
(*                                                                         *)
(* The PC/SC service (pcscd behind the original libpcsclite) is not part   *)
(* of the code.  Here it keeps, for every child, the contexts and cards it *)
(* has open, gives each a handle of its own, refuses the handles it does   *)
(* not know, and forgets them all when the child ends.                     *)
(***************************************************************************)
EXTENDS Connection

VARIABLES child,      \* where the child of this session is in pp_nextMsg
          request,    \* its message buffer
          service,    \* the handles the PC/SC service holds for it
          executions  \* ghost: how often the PC/SC service has carried out a call

serverVars == <<child, request, service, executions>>

NoRequest == Request(NoCall, "Cancel", NoCall)

Empty == [contexts |-> {}, cards |-> {}]

ServiceStates == [contexts : SUBSET Handles,
                  cards : SUBSET [card : Handles, ctx : Handles]]

ServerTypeOK ==
  /\ child \in [Sessions -> {"recv", "execute", "send", "exited"}]
  /\ request \in [Sessions -> Messages]
  /\ service \in [Sessions -> ServiceStates]
  /\ executions \in [CallIds -> Nat]

ServerInit ==
  /\ child = [s \in Sessions |-> "recv"]
  /\ request = [s \in Sessions |-> NoRequest]
  /\ service = [s \in Sessions |-> Empty]
  /\ executions = [c \in CallIds |-> 0]

Running(s) == serverEnd[s] = "open" /\ child[s] # "exited"

(***************************************************************************)
(* The PC/SC service.  SetTimeout is not passed on to it, and              *)
(* CancelTransaction calls SCardCancel, which takes a context.             *)
(***************************************************************************)
Open(s) == {c.card : c \in service[s].cards}

Known(s, m) ==
  CASE m.op = "EstablishContext" -> TRUE
    [] m.op \in {"ReleaseContext", "Connect", "Cancel", "CancelTransaction"}
                \cup ContextOps -> m.arg \in service[s].contexts
    [] OTHER -> m.arg \in Open(s)

\* The service's handles after it has carried out m.
After(s, m) ==
  CASE m.op = "EstablishContext" ->
         [service[s] EXCEPT !.contexts = @ \cup {m.call}]
    [] m.op = "ReleaseContext" ->
         [contexts |-> service[s].contexts \ {m.arg},
          cards |-> {c \in service[s].cards : c.ctx # m.arg}]
    [] m.op = "Connect" ->
         [service[s] EXCEPT !.cards = @ \cup {[card |-> m.call, ctx |-> m.arg]}]
    [] m.op = "Disconnect" ->
         [service[s] EXCEPT !.cards = {c \in @ : c.card # m.arg}]
    [] OTHER -> service[s]

\* The reply is the request's buffer with the results stored into it.  The
\* handle of a refused call is not initialized, and nobody reads it.
\* handleReleaseContext stores its result past the end of the reply.
Reply(m, ok) ==
  [m EXCEPT !.res = IF ok /\ m.op \in {"EstablishContext", "Connect"}
                      THEN m.call ELSE NoCall,
            !.rv = IF ok \/ m.op = "ReleaseContext" THEN "ok" ELSE "error"]

----------------------------------------------------------------------------
\* pp_nextMsg: recv() gives a request.
ReceiveRequest(s) ==
  /\ Running(s)
  /\ child[s] = "recv"
  /\ toServer[s] # << >>
  /\ request' = [request EXCEPT ![s] = Head(toServer[s])]
  /\ toServer' = [toServer EXCEPT ![s] = Tail(@)]
  /\ child' = [child EXCEPT ![s] = "execute"]
  /\ UNCHANGED <<service, executions, clientEnd, serverEnd, broken, toClient>>

\* Mutant: SCARD_DISCONNECT falls through the switch, too.
ExecuteMissingCase(s) ==
  LET m == request[s] IN
  /\ Running(s)
  /\ child[s] = "execute"
  /\ \/ /\ m.op \in {"SetTimeout", "Disconnect"}
        /\ UNCHANGED <<request, service, executions>>
     \/ /\ m.op \notin {"SetTimeout", "Disconnect"}
        /\ Known(s, m)
        /\ service' = [service EXCEPT ![s] = After(s, m)]
        /\ request' = [request EXCEPT ![s] = Reply(m, TRUE)]
        /\ executions' = [executions EXCEPT ![m.call] = @ + 1]
     \/ /\ m.op \notin {"SetTimeout", "Disconnect"}
        /\ ~Known(s, m) \/ "service" \in Faults
        /\ request' = [request EXCEPT ![s] = Reply(m, FALSE)]
        /\ executions' = [executions EXCEPT ![m.call] = @ + 1]
        /\ UNCHANGED service
  /\ child' = [child EXCEPT ![s] = "send"]
  /\ UNCHANGED connVars

\* pp_nextMsg: the switch; SCARD_SETTIMEOUT falls through it.
Execute(s) ==
  LET m == request[s] IN
  /\ Running(s)
  /\ child[s] = "execute"
  /\ \/ /\ m.op = "SetTimeout"
        /\ UNCHANGED <<request, service, executions>>
     \/ /\ m.op # "SetTimeout"
        /\ Known(s, m)
        /\ service' = [service EXCEPT ![s] = After(s, m)]
        /\ request' = [request EXCEPT ![s] = Reply(m, TRUE)]
        /\ executions' = [executions EXCEPT ![m.call] = @ + 1]
     \/ /\ m.op # "SetTimeout"
        /\ ~Known(s, m) \/ "service" \in Faults
        /\ request' = [request EXCEPT ![s] = Reply(m, FALSE)]
        /\ executions' = [executions EXCEPT ![m.call] = @ + 1]
        /\ UNCHANGED service
  /\ child' = [child EXCEPT ![s] = "send"]
  /\ UNCHANGED connVars

\* Mutant: no reply when the call was refused.
SendReplyOnSuccess(s) ==
  /\ Running(s)
  /\ child[s] = "send"
  /\ toClient' = IF Usable(s) /\ request[s].rv = "ok"
                   THEN [toClient EXCEPT ![s] = Append(@, request[s])]
                   ELSE toClient
  /\ request' = [request EXCEPT ![s] = NoRequest]
  /\ child' = [child EXCEPT ![s] = "recv"]
  /\ UNCHANGED <<service, executions, clientEnd, serverEnd, broken, toServer>>

\* Mutant: the reply is sent by the handler and again by pp_nextMsg.
SendReplyTwice(s) ==
  /\ Running(s)
  /\ child[s] = "send"
  /\ toClient' = IF Usable(s)
                   THEN [toClient EXCEPT ![s] = @ \o <<request[s], request[s]>>]
                   ELSE toClient
  /\ request' = [request EXCEPT ![s] = NoRequest]
  /\ child' = [child EXCEPT ![s] = "recv"]
  /\ UNCHANGED <<service, executions, clientEnd, serverEnd, broken, toServer>>

\* pp_nextMsg: send() the reply.  Writing to a connection that is gone may succeed.
SendReply(s) ==
  /\ Running(s)
  /\ child[s] = "send"
  /\ toClient' = IF Usable(s)
                   THEN [toClient EXCEPT ![s] = Append(@, request[s])]
                   ELSE toClient
  /\ request' = [request EXCEPT ![s] = NoRequest]
  /\ child' = [child EXCEPT ![s] = "recv"]
  /\ UNCHANGED <<service, executions, clientEnd, serverEnd, broken, toServer>>

\* The process ends.  Requests it has not read make the close a reset.
Exit(s) ==
  /\ child' = [child EXCEPT ![s] = "exited"]
  /\ request' = [request EXCEPT ![s] = NoRequest]
  /\ service' = [service EXCEPT ![s] = Empty]
  /\ serverEnd' = [serverEnd EXCEPT ![s] = "closed"]
  /\ IF toServer[s] # << >> THEN Break(s)
                            ELSE UNCHANGED <<broken, toServer, toClient>>
  /\ UNCHANGED <<executions, clientEnd>>

\* pp_handleConnection ends: recv() met the end of the stream or an error.
EndOfRequests(s) ==
  /\ Running(s)
  /\ child[s] = "recv"
  /\ ~Usable(s)
  /\ toServer[s] = << >>
  /\ Exit(s)

\* pp_handleConnection ends: send() failed.
ReplyFails(s) ==
  /\ Running(s)
  /\ child[s] = "send"
  /\ ~Usable(s)
  /\ Exit(s)

\* The child is killed, or a signal interrupts its recv(), which it takes for an error.
ChildDies(s) ==
  /\ "exit" \in Faults
  /\ Running(s)
  /\ Exit(s)

ChildStep(s) ==
  \/ ReceiveRequest(s)
  \/ Execute(s)
  \/ SendReply(s)
  \/ EndOfRequests(s)
  \/ ReplyFails(s)
=============================================================================
