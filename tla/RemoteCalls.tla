----------------------------- MODULE RemoteCalls -----------------------------
(***************************************************************************)
(* What the proxy promises to an application, without tables, connections  *)
(* and processes: a PC/SC call is carried out by the remote service at     *)
(* most once, and the answer a thread gets is the answer to the call it    *)
(* made.  A call may also fail in the proxy, before or after the service   *)
(* has carried it out, and even after that the service may still do so.    *)
(***************************************************************************)
EXTENDS Naturals

CONSTANTS Threads, MaxCalls

VARIABLES phase,     \* where each thread is in its call
          current,   \* the call each thread is in, 0 for none
          issued,    \* how many calls have been made
          executions \* how often the service has carried out each call

vars == <<phase, current, issued, executions>>

Init ==
  /\ phase = [t \in Threads |-> "idle"]
  /\ current = [t \in Threads |-> 0]
  /\ issued = 0
  /\ executions = [c \in 1 .. MaxCalls |-> 0]

\* A thread makes its next call; the library may refuse it at once.
Call(t) ==
  /\ phase[t] = "idle"
  /\ issued < MaxCalls
  /\ issued' = issued + 1
  /\ current' = [current EXCEPT ![t] = issued + 1]
  /\ \E p \in {"pending", "failed"} : phase' = [phase EXCEPT ![t] = p]
  /\ UNCHANGED executions

Execute(c) ==
  /\ c \in 1 .. issued
  /\ executions[c] = 0
  /\ executions' = [executions EXCEPT ![c] = 1]
  /\ UNCHANGED <<phase, current, issued>>

Answer(t) ==
  /\ phase[t] = "pending"
  /\ executions[current[t]] = 1
  /\ phase' = [phase EXCEPT ![t] = "answered"]
  /\ UNCHANGED <<current, issued, executions>>

Fail(t) ==
  /\ phase[t] = "pending"
  /\ phase' = [phase EXCEPT ![t] = "failed"]
  /\ UNCHANGED <<current, issued, executions>>

Return(t) ==
  /\ phase[t] \in {"answered", "failed"}
  /\ phase' = [phase EXCEPT ![t] = "idle"]
  /\ current' = [current EXCEPT ![t] = 0]
  /\ UNCHANGED <<issued, executions>>

Next ==
  \/ \E t \in Threads : Call(t) \/ Answer(t) \/ Fail(t) \/ Return(t)
  \/ \E c \in 1 .. MaxCalls : Execute(c)

Spec == Init /\ [][Next]_vars
=============================================================================
