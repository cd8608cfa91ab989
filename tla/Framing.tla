-------------------------------- MODULE Framing -------------------------------
(***************************************************************************)
(* How a session cuts a stream of bytes into messages: nullenc_tls_recv    *)
(* and nullenc_tls_send of src/common/nullenc.c.  The loops of openssl.c   *)
(* are the same, on SSL_read and SSL_write.  One direction of one          *)
(* connection.                                                             *)
(*                                                                         *)
(* A byte is named by the message it belongs to and its place there.  A    *)
(* read() or write() of several bytes is several steps of one byte each:   *)
(* every way of cutting the stream into reads is one of these.             *)
(***************************************************************************)
EXTENDS Integers

CONSTANTS Messages,             \* how many messages are sent
          Header,               \* sizeof(s_msg_header): the type, and the length
          PP_MAX_MESSAGE_LEN,
          MaxInterrupts,        \* bound: signals that interrupt recv()
          Faults                \* what else may go wrong

ASSUME FramingAssumption ==
  /\ Messages \in Nat
  /\ Header \in Nat /\ Header > 1
  /\ PP_MAX_MESSAGE_LEN \in Nat /\ PP_MAX_MESSAGE_LEN > Header
  /\ MaxInterrupts \in Nat
  /\ Faults \subseteq {"die", "reset"}

VARIABLES len,       \* header.len of each message
          sending,   \* send() is under way
          wpos,      \* the place of the next byte to be written
          link,      \* the connection: open, closed by the sender, or broken
          phase,     \* where recv() is
          bytesRead,
          buf,       \* *msg
          want,      \* msg->header.len, as the receiver reads it
          ret,       \* what recv() has returned
          rpos,      \* the place of the next byte to be read
          interrupts, \* how often recv() has been interrupted
          taken,     \* ghost: messages returned while in step
          inStep     \* ghost: nothing has left recv() inside a message

sendVars == <<sending, wpos>>
recvVars == <<phase, bytesRead, buf, want, ret, rpos, interrupts, taken, inStep>>
vars == <<len, sendVars, link, recvVars>>

Msgs == 1 .. Messages
Sizes == Header .. PP_MAX_MESSAGE_LEN

Places == [msg : 1 .. Messages + 1, byte : 0 .. PP_MAX_MESSAGE_LEN]
Old == <<0, 0>>       \* whatever is in the buffer before recv()
Bytes == (Msgs \X (1 .. PP_MAX_MESSAGE_LEN)) \cup {Old}

FramingTypeOK ==
  /\ len \in [Msgs -> Sizes]
  /\ sending \in BOOLEAN
  /\ wpos \in Places
  /\ link \in {"up", "closed", "reset"}
  /\ phase \in {"idle", "header", "payload"}
  /\ bytesRead \in -1 .. PP_MAX_MESSAGE_LEN
  /\ buf \in [1 .. PP_MAX_MESSAGE_LEN -> Bytes]
  /\ want \in 0 .. PP_MAX_MESSAGE_LEN
  /\ ret \in {"none", "message", "eof", "error"}
  /\ rpos \in Places
  /\ interrupts \in 0 .. MaxInterrupts
  /\ taken \in 0 .. Messages
  /\ inStep \in BOOLEAN
  /\ phase = "idle" <=> ret # "none"

Place(k, i) ==
  IF i = len[k] THEN [msg |-> k + 1, byte |-> 0] ELSE [msg |-> k, byte |-> i]

After(p) == Place(p.msg, p.byte + 1)

Before(p, q) == p.msg < q.msg \/ (p.msg = q.msg /\ p.byte < q.byte)

\* The receiver is in recv(), the sender has sent nothing yet.
Init ==
  /\ len \in [Msgs -> Sizes]
  /\ sending = FALSE
  /\ wpos = [msg |-> 1, byte |-> 0]
  /\ link = "up"
  /\ phase = "header"
  /\ bytesRead = 0
  /\ buf = [p \in 1 .. PP_MAX_MESSAGE_LEN |-> Old]
  /\ want = 0
  /\ ret = "none"
  /\ rpos = [msg |-> 1, byte |-> 0]
  /\ interrupts = 0
  /\ taken = 0
  /\ inStep = TRUE

----------------------------------------------------------------------------
(***************************************************************************)
(* The sender.  A write() that EINTR interrupts is made again.             *)
(***************************************************************************)
SendCall ==
  /\ ~sending
  /\ link = "up"
  /\ wpos.msg \in Msgs
  /\ sending' = TRUE
  /\ UNCHANGED <<len, wpos, link, recvVars>>

WriteByte ==
  /\ sending
  /\ link = "up"
  /\ wpos' = After(wpos)
  /\ sending' = (wpos'.byte # 0)
  /\ UNCHANGED <<len, link, recvVars>>

SendError ==
  /\ sending
  /\ link = "reset"
  /\ sending' = FALSE
  /\ UNCHANGED <<len, wpos, link, recvVars>>

\* The sender closes the connection, or it dies, if need be within send().
Close ==
  /\ link = "up"
  /\ sending => "die" \in Faults
  /\ link' = "closed"
  /\ sending' = FALSE
  /\ UNCHANGED <<len, wpos, recvVars>>

\* What is on its way is lost with the connection.
Reset ==
  /\ "reset" \in Faults
  /\ link' = "reset"
  /\ UNCHANGED <<len, sendVars, recvVars>>

----------------------------------------------------------------------------
(***************************************************************************)
(* The receiver.                                                           *)
(***************************************************************************)
Readable == link # "reset" /\ Before(rpos, wpos)

RecvCall ==
  /\ phase = "idle"
  /\ phase' = "header"
  /\ bytesRead' = 0
  /\ buf' = [p \in 1 .. PP_MAX_MESSAGE_LEN |-> Old]
  /\ ret' = "none"
  /\ UNCHANGED <<len, sendVars, link, want, rpos, interrupts, taken,
                 inStep>>

ReadByte ==
  /\ Readable
  /\ buf' = [buf EXCEPT ![bytesRead + 1] = <<rpos.msg, rpos.byte + 1>>]
  /\ rpos' = After(rpos)
  /\ bytesRead' = bytesRead + 1

Returns(r) ==
  /\ phase' = "idle"
  /\ ret' = r
  /\ inStep' = (inStep /\ (r = "error" => rpos.byte = 0))
  /\ UNCHANGED <<len, sendVars, link, bytesRead, buf, want, rpos>>

\* Mutant: the comparison is one of signed numbers.
InHeaderSigned == phase = "header" /\ bytesRead < Header

\* bytesRead < sizeof(s_msg_header), where -1 is converted to unsigned.
InHeader == phase = "header" /\ bytesRead \in 0 .. Header - 1

HeaderByte ==
  /\ InHeader
  /\ ReadByte
  /\ UNCHANGED <<len, sendVars, link, phase, want, ret, interrupts, taken,
                 inStep>>

Interrupt ==
  /\ interrupts < MaxInterrupts
  /\ interrupts' = interrupts + 1

\* EINTR: read() has given -1, and that is added to bytesRead and to p.  What
\* is read next goes over the last byte.
HeaderInterrupted ==
  /\ InHeader
  /\ Interrupt
  /\ bytesRead' = bytesRead - 1
  /\ inStep' = (inStep /\ bytesRead = 0)
  /\ UNCHANGED <<len, sendVars, link, phase, buf, want, ret, rpos, taken>>

\* Mutant: the end of the stream is the end wherever it comes.
HeaderEndAnywhere ==
  /\ InHeader
  /\ ~Readable
  /\ link # "up"
  /\ Returns("eof")
  /\ UNCHANGED <<interrupts, taken>>

\* Mutant: a read of 0 bytes is made again.
HeaderEndRetried ==
  /\ InHeader
  /\ ~Readable
  /\ link # "up"
  /\ UNCHANGED vars

HeaderEnd ==
  /\ InHeader
  /\ ~Readable
  /\ link # "up"
  /\ Returns(IF bytesRead = 0 THEN "eof" ELSE "error")
  /\ UNCHANGED <<interrupts, taken>>

HeaderError ==
  /\ InHeader
  /\ link = "reset"
  /\ Returns("error")
  /\ UNCHANGED <<interrupts, taken>>

\* The length read: that of a message, if the bytes of its length are where
\* they should be.
Parsed ==
  {l \in 0 .. PP_MAX_MESSAGE_LEN :
     \A k \in Msgs : (\A p \in 2 .. Header : buf[p] = <<k, p>>) => l = len[k]}

CheckLength ==
  /\ phase = "header"
  /\ ~InHeader
  /\ want' \in Parsed
  /\ want' < PP_MAX_MESSAGE_LEN
  /\ phase' = "payload"
  /\ UNCHANGED <<len, sendVars, link, bytesRead, buf, ret, rpos, interrupts,
                 taken, inStep>>

\* Mutant: the longest message that is let through is refused.
TooLongEarly ==
  /\ phase = "header"
  /\ ~InHeader
  /\ \E l \in Parsed : l >= PP_MAX_MESSAGE_LEN - 1
  /\ Returns("error")
  /\ UNCHANGED <<interrupts, taken>>

TooLong ==
  /\ phase = "header"
  /\ ~InHeader
  /\ PP_MAX_MESSAGE_LEN \in Parsed
  /\ Returns("error")
  /\ UNCHANGED <<interrupts, taken>>

\* Mutant: header.len does not count the header.
LengthOfPayload == phase = "payload" /\ bytesRead \in 0 .. want

\* bytesRead < header.len, where -1 is converted to unsigned.
InPayload == phase = "payload" /\ bytesRead \in 0 .. want - 1

PayloadByte ==
  /\ InPayload
  /\ ReadByte
  /\ UNCHANGED <<len, sendVars, link, phase, want, ret, interrupts, taken,
                 inStep>>

\* Mutant: EINTR ends the loop, and bytesRead is returned.
PayloadInterruptedEnds ==
  /\ InPayload
  /\ Interrupt
  /\ Returns("message")
  /\ UNCHANGED taken

\* Here EINTR is an error like any other.
PayloadInterrupted ==
  /\ InPayload
  /\ Interrupt
  /\ Returns("error")
  /\ UNCHANGED taken

\* The end of the stream or an error.
PayloadFails ==
  /\ InPayload
  /\ ~Readable
  /\ link # "up"
  /\ Returns("error")
  /\ UNCHANGED <<interrupts, taken>>

Return ==
  /\ phase = "payload"
  /\ ~InPayload
  /\ Returns(IF bytesRead < 0 THEN "error" ELSE "message")
  /\ taken' = IF inStep /\ bytesRead >= 0 THEN taken + 1 ELSE taken
  /\ UNCHANGED interrupts

SendStep == SendCall \/ WriteByte \/ SendError

RecvStep == HeaderByte \/ HeaderEnd \/ HeaderError \/ CheckLength \/ TooLong
              \/ PayloadByte \/ PayloadFails \/ Return

Interrupted == HeaderInterrupted \/ PayloadInterrupted

Next == SendStep \/ Close \/ Reset \/ RecvCall \/ RecvStep \/ Interrupted

Spec == Init /\ [][Next]_vars

\* Both ends run, once they are in send() and recv().
FairSpec == Spec /\ WF_vars(WriteByte) /\ WF_vars(RecvStep)

----------------------------------------------------------------------------
Sent == wpos.msg - 1

(***************************************************************************)
(* What recv() returns is one message, whole, and the one after that       *)
(* returned before, however the stream was cut into reads and wherever     *)
(* signals came between two messages.                                      *)
(***************************************************************************)
InOrder ==
  ret = "message" /\ inStep =>
    /\ taken \in 1 .. Sent
    /\ bytesRead = len[taken]
    /\ \A p \in 1 .. bytesRead : buf[p] = <<taken, p>>

(***************************************************************************)
(* 0 means that the sender has closed the connection and that nothing it   *)
(* has sent is left, not even a part of a message.                         *)
(***************************************************************************)
EndIsEnd ==
  ret = "eof" /\ inStep /\ link # "reset" =>
    link = "closed" /\ taken = Sent /\ wpos.byte = 0

(***************************************************************************)
(* A receiver falls out of step with the stream for one of four reasons: a *)
(* signal, a broken connection, a sender that died within a message, and a *)
(* message of PP_MAX_MESSAGE_LEN bytes, which the daemon may build and the *)
(* client refuses.  A short read is none of them.                          *)
(***************************************************************************)
InStepUnless ==
  \/ inStep
  \/ interrupts > 0
  \/ link = "reset"
  \/ link = "closed" /\ wpos.byte # 0
  \/ \E k \in Msgs : len[k] = PP_MAX_MESSAGE_LEN

(***************************************************************************)
(* Why these hold.  Both places are within the messages, and the receiver  *)
(* is not ahead of the sender.  A receiver in step has read a beginning of *)
(* the message after those it has returned, and has it in its buffer.      *)
(***************************************************************************)
Valid(p) ==
  IF p.msg \in Msgs THEN p.byte < len[p.msg] ELSE p.byte = 0

PlacesInvariant ==
  /\ Valid(wpos)
  /\ Valid(rpos)
  /\ ~Before(wpos, rpos)
  /\ sending => link # "closed" /\ wpos.msg \in Msgs
  /\ wpos.byte # 0 /\ link = "up" => sending
  /\ taken <= Sent

InMessage ==
  inStep =>
    /\ phase = "idle" \/ bytesRead < 1 =>
         rpos = [msg |-> taken + 1, byte |-> 0]
    /\ phase # "idle" /\ bytesRead > 0 =>
         /\ taken + 1 \in Msgs
         /\ rpos = Place(taken + 1, bytesRead)
         /\ \A p \in 1 .. bytesRead : buf[p] = <<taken + 1, p>>
    /\ phase = "header" => bytesRead <= Header
    /\ phase = "payload" /\ bytesRead >= 0 =>
         /\ taken + 1 \in Msgs
         /\ want = len[taken + 1]
         /\ want < PP_MAX_MESSAGE_LEN
         /\ bytesRead \in Header .. want

FramingInvariant == PlacesInvariant /\ InMessage

(***************************************************************************)
(* recv() returns when a message is there for it, or the connection has    *)
(* ended.  A receiver out of step may wait for bytes nobody sends.         *)
(***************************************************************************)
RecvReturns ==
  phase # "idle" /\ (taken < Sent \/ link # "up")
    ~> phase = "idle" \/ (link = "up" /\ ~inStep)

(***************************************************************************)
(* The loops implement a channel of whole messages.                        *)
(***************************************************************************)
Channel == INSTANCE MessageChannel WITH sent <- Sent, answer <- ret

ImplementsChannel == Channel!Spec
=============================================================================
