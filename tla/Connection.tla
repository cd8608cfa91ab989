----------------------------- MODULE Connection -----------------------------
(***************************************************************************)
(* The connections between the client library (src/client) and the         *)
(* children of the proxy daemon (src/server), one child per connection:    *)
(* one message type, one byte stream per direction.                        *)
(*                                                                         *)
(* A message is one s_message.  The code sends it in a single send() call  *)
(* of the session and reads it back in a single recv(), so it is one       *)
(* element of a sequence here.  What the loops in recv() do to the bytes   *)
(* is abstracted to the four outcomes they have: a message, the end of the *)
(* stream (0), an error (-1), and a -1 caused by EINTR that leaves the     *)
(* message in the stream.                                                  *)
(***************************************************************************)
EXTENDS Naturals, Sequences

CONSTANTS MaxCalls,   \* bound: how many calls the application makes in all
          Faults      \* what may go wrong, a subset of AllFaults

AllFaults == {"environment",  \* PCSC_NULLENC is not set
              "tlsinit",      \* pp_tlsopts_init_any fails
              "credentials",  \* PCSC_USER or PCSC_PASSWD is not set
              "refused",      \* no connection, or the TLS handshake fails
              "reset",        \* the network drops a connection
              "exit",         \* a child of the daemon dies
              "interrupt",    \* a signal interrupts recv() in the client
              "sigpipe",      \* the application has not ignored SIGPIPE
              "service",      \* the local PC/SC service refuses a call
              "lengths"}      \* a length is out of its bounds

ASSUME BoundsAssumption == /\ MaxCalls \in Nat
                           /\ Faults \subseteq AllFaults

CallIds == 1 .. MaxCalls

NoCall == 0                   \* also: no handle of the PC/SC service
Handles == CallIds \cup {NoCall}

\* A session is named by the call that opened it.
Sessions == CallIds
NoSession == 0

(***************************************************************************)
(* The commands.  message.h numbers them in message_commands.              *)
(***************************************************************************)
ContextOps == {"IsValidContext", "SetTimeout", "GetStatusChange",
               "ListReaders", "ListReaderGroups"}

CardOps == {"Reconnect", "Disconnect", "BeginTransaction", "EndTransaction",
            "CancelTransaction", "Status", "Control", "Transmit",
            "GetAttrib", "SetAttrib"}

AllOps == {"EstablishContext", "ReleaseContext", "Connect", "Cancel"}
            \cup ContextOps \cup CardOps

(***************************************************************************)
(* call is a ghost: it tells which call of the application a message       *)
(* belongs to.  arg is the hContext or hCard of the request, res the       *)
(* hContext or hCard the reply brings, rv the result code.  The buffer is  *)
(* zeroed before a request is built, so a request has rv = SCARD_S_SUCCESS *)
(* and res = 0.                                                            *)
(***************************************************************************)
Messages == [call : Handles, op : AllOps, arg : Handles, res : Handles,
             rv : {"ok", "error"}]

Request(id, op, arg) ==
  [call |-> id, op |-> op, arg |-> arg, res |-> NoCall, rv |-> "ok"]

VARIABLES clientEnd,   \* the client's socket: "none", "open" or "closed"
          serverEnd,   \* the child's socket, likewise
          broken,      \* the connection has been reset
          toServer,    \* requests under way
          toClient     \* replies under way

connVars == <<clientEnd, serverEnd, broken, toServer, toClient>>

ConnTypeOK ==
  /\ clientEnd \in [Sessions -> {"none", "open", "closed"}]
  /\ serverEnd \in [Sessions -> {"none", "open", "closed"}]
  /\ broken \in [Sessions -> BOOLEAN]
  /\ toServer \in [Sessions -> Seq(Messages)]
  /\ toClient \in [Sessions -> Seq(Messages)]

ConnInit ==
  /\ clientEnd = [s \in Sessions |-> "none"]
  /\ serverEnd = [s \in Sessions |-> "none"]
  /\ broken = [s \in Sessions |-> FALSE]
  /\ toServer = [s \in Sessions |-> << >>]
  /\ toClient = [s \in Sessions |-> << >>]

\* Data written at one end arrives at the other.
Usable(s) ==
  /\ clientEnd[s] = "open"
  /\ serverEnd[s] = "open"
  /\ ~broken[s]

\* A reset: neither end gets anything through, and what was under way is lost.
Break(s) ==
  /\ broken' = [broken EXCEPT ![s] = TRUE]
  /\ toServer' = [toServer EXCEPT ![s] = << >>]
  /\ toClient' = [toClient EXCEPT ![s] = << >>]

NetworkReset(s) ==
  /\ "reset" \in Faults
  /\ Usable(s)
  /\ Break(s)
  /\ UNCHANGED <<clientEnd, serverEnd>>
=============================================================================
