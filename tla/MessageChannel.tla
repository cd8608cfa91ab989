---------------------------- MODULE MessageChannel ----------------------------
(***************************************************************************)
(* What recv() and send() of a session promise for one direction: messages *)
(* come out whole, each once, in the order in which they went in, and the  *)
(* end of the stream is reported after the last of them.  The promise ends *)
(* when the receiver falls out of step with the stream.                    *)
(***************************************************************************)
EXTENDS Naturals

VARIABLES sent,     \* how many messages have been sent
          taken,    \* how many have been returned
          answer,   \* what recv() has returned last, "none" while it runs
          link,     \* whether the stream is open
          inStep    \* the receiver stands where a message begins or within the
                    \* one it is reading

vars == <<sent, taken, answer, link, inStep>>

Init ==
  /\ sent = 0
  /\ taken = 0
  /\ answer = "none"
  /\ link = "up"
  /\ inStep = TRUE

Put ==
  /\ link = "up"
  /\ sent' = sent + 1
  /\ UNCHANGED <<taken, answer, link, inStep>>

Disconnect ==
  /\ link' \in {"closed", "reset"}
  /\ UNCHANGED <<sent, taken, answer, inStep>>

Ask ==
  /\ answer # "none"
  /\ answer' = "none"
  /\ UNCHANGED <<sent, taken, link, inStep>>

Take ==
  /\ answer = "none"
  /\ inStep
  /\ taken < sent
  /\ taken' = taken + 1
  /\ answer' = "message"
  /\ UNCHANGED <<sent, link, inStep>>

End ==
  /\ answer = "none"
  /\ inStep
  /\ link = "reset" \/ (link = "closed" /\ taken = sent)
  /\ answer' = "eof"
  /\ UNCHANGED <<sent, taken, link, inStep>>

\* An error need not lose anything.
Fail ==
  /\ answer = "none"
  /\ answer' = "error"
  /\ inStep' \in {inStep, FALSE}
  /\ UNCHANGED <<sent, taken, link>>

FallOut ==
  /\ answer = "none"
  /\ inStep' = FALSE
  /\ UNCHANGED <<sent, taken, answer, link>>

\* What is returned then is anything.
Garbage ==
  /\ answer = "none"
  /\ ~inStep
  /\ answer' \in {"message", "eof"}
  /\ UNCHANGED <<sent, taken, link, inStep>>

Next == \/ Put \/ Disconnect \/ Ask \/ Take \/ End \/ Fail \/ FallOut \/ Garbage

Spec == Init /\ [][Next]_vars
=============================================================================
