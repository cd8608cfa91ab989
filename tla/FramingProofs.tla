----------------------------- MODULE FramingProofs -----------------------------
(***************************************************************************)
(* Theorems of Framing, for any number and length of messages, any way of  *)
(* cutting the stream into reads, and any number of interruptions.         *)
(***************************************************************************)
EXTENDS Framing, TLAPS

Results == InOrder /\ EndIsEnd /\ InStepUnless

Invariant == FramingTypeOK /\ FramingInvariant /\ Results

\* Numbers as the provers need them.
LEMMA Numbers ==
  ASSUME FramingTypeOK
  PROVE  /\ Messages \in Nat /\ Header \in Nat /\ PP_MAX_MESSAGE_LEN \in Nat
         /\ Header > 1 /\ Header < PP_MAX_MESSAGE_LEN
         /\ \A k \in Msgs : /\ k \in Nat /\ k >= 1 /\ k <= Messages
                            /\ len[k] \in Nat
                            /\ len[k] >= Header
                            /\ len[k] <= PP_MAX_MESSAGE_LEN
  BY FramingAssumption DEF FramingTypeOK, Msgs, Sizes

\* The place after a place is a place, and nothing is between the two.
LEMMA AfterPlace ==
  ASSUME FramingTypeOK, NEW p \in Places, p.msg \in Msgs, Valid(p)
  PROVE  /\ After(p) \in Places
         /\ Valid(After(p))
         /\ p.msg <= After(p).msg
         /\ \A q \in Places : Valid(q) /\ Before(p, q) => ~Before(q, After(p))
<1>1. /\ p.byte \in Nat /\ p.byte < len[p.msg] /\ p.msg \in Nat
      /\ p.byte + 1 \in 0 .. PP_MAX_MESSAGE_LEN
  BY Numbers DEF Places, Valid
<1>2. CASE p.byte + 1 = len[p.msg]
  <2>1. After(p) = [msg |-> p.msg + 1, byte |-> 0]
    BY <1>2 DEF After, Place
  <2>2. After(p) \in Places
    BY <1>1, <2>1, Numbers DEF Places, Msgs
  <2>3. Valid(After(p))
    BY <1>1, <2>1, Numbers DEF Valid
  <2>4. ASSUME NEW q \in Places, Valid(q), Before(p, q), Before(q, After(p))
        PROVE  FALSE
    <3>1. q.msg \in Nat /\ q.byte \in Nat
      BY Numbers DEF Places
    <3>2. q.msg = p.msg /\ q.byte > p.byte
      BY <1>1, <2>1, <2>4, <3>1 DEF Before
    <3>3. q.byte < len[p.msg]
      BY <2>4, <3>2 DEF Valid
    <3> QED
      BY <1>1, <1>2, <3>1, <3>2, <3>3, Numbers
  <2> QED
    BY <1>1, <2>1, <2>2, <2>3, <2>4
<1>3. CASE p.byte + 1 # len[p.msg]
  <2>1. After(p) = [msg |-> p.msg, byte |-> p.byte + 1]
    BY <1>3 DEF After, Place
  <2>2. After(p) \in Places
    BY <1>1, <2>1 DEF Places
  <2>3. Valid(After(p))
    BY <1>1, <1>3, <2>1, Numbers DEF Valid
  <2>4. ASSUME NEW q \in Places, Valid(q), Before(p, q), Before(q, After(p))
        PROVE  FALSE
    <3>1. q.msg \in Nat /\ q.byte \in Nat
      BY Numbers DEF Places
    <3> QED
      BY <1>1, <2>1, <2>4, <3>1 DEF Before
  <2> QED
    BY <1>1, <2>1, <2>2, <2>3, <2>4
<1> QED
  BY <1>2, <1>3

\* The first state.
THEOREM InitInvariant == Init => Invariant
<1> SUFFICES ASSUME Init PROVE Invariant
  OBVIOUS
<1> USE FramingAssumption DEF Init
<1>1. FramingTypeOK
  <2>1. buf \in [1 .. PP_MAX_MESSAGE_LEN -> Bytes]
    BY DEF Bytes
  <2>2. wpos \in Places /\ rpos \in Places
    BY DEF Places
  <2>3. /\ bytesRead \in -1 .. PP_MAX_MESSAGE_LEN
        /\ want \in 0 .. PP_MAX_MESSAGE_LEN
        /\ interrupts \in 0 .. MaxInterrupts
        /\ taken \in 0 .. Messages
    OBVIOUS
  <2>4. /\ sending \in BOOLEAN
        /\ inStep \in BOOLEAN
        /\ link \in {"up", "closed", "reset"}
        /\ phase \in {"idle", "header", "payload"}
        /\ ret \in {"none", "message", "eof", "error"}
        /\ phase = "idle" <=> ret # "none"
    OBVIOUS
  <2> QED
    BY <2>1, <2>2, <2>3, <2>4 DEF FramingTypeOK
<1>2. PlacesInvariant
  BY <1>1, Numbers DEF PlacesInvariant, Valid, Before, Sent
<1>3. InMessage
  BY <1>1, Numbers DEF InMessage
<1>4. Results
  BY DEF Results, InOrder, EndIsEnd, InStepUnless
<1> QED
  BY <1>1, <1>2, <1>3, <1>4 DEF Invariant, FramingInvariant

----------------------------------------------------------------------------
(***************************************************************************)
(* The steps of the sender.                                                *)
(***************************************************************************)
\* A step that leaves the receiver and what has been sent alone.
LEMMA SenderElsewhere ==
  ASSUME Invariant, UNCHANGED <<len, wpos, recvVars>>,
         sending' \in BOOLEAN, link' \in {"up", "closed", "reset"},
         link' = link \/ link' = "reset" \/ (link = "up" /\ link' = "closed"),
         sending' => link' # "closed" /\ wpos.msg \in Msgs,
         wpos.byte # 0 /\ link' = "up" => sending'
  PROVE  Invariant'
<1> USE DEF recvVars, Invariant
<1>1. FramingTypeOK'
  BY DEF FramingTypeOK, Msgs, Sizes, Places, Bytes, Old
<1>2. PlacesInvariant'
  BY DEF FramingInvariant, PlacesInvariant, Valid, Before, Sent, Msgs
<1>3. InMessage'
  BY DEF FramingInvariant, InMessage, Place, Msgs
<1>4. InOrder'
  BY DEF Results, InOrder, Sent
<1>5. EndIsEnd'
  BY DEF Results, EndIsEnd, Sent
<1>6. InStepUnless'
  BY DEF Results, InStepUnless, FramingInvariant, PlacesInvariant, Msgs
<1> QED
  BY <1>1, <1>2, <1>3, <1>4, <1>5, <1>6 DEF FramingInvariant, Results

LEMMA WriteByteInvariant == Invariant /\ WriteByte => Invariant'
<1> SUFFICES ASSUME Invariant, WriteByte PROVE Invariant'
  OBVIOUS
<1> USE DEF recvVars, Invariant
<1>1. /\ wpos \in Places /\ wpos.msg \in Msgs /\ Valid(wpos)
      /\ rpos \in Places /\ Valid(rpos) /\ ~Before(wpos, rpos)
      /\ wpos' = After(wpos)
  BY DEF FramingTypeOK, WriteByte, FramingInvariant, PlacesInvariant
<1>2. /\ wpos' \in Places /\ Valid(wpos') /\ wpos.msg <= wpos'.msg
  BY <1>1, AfterPlace
<1>3. wpos'.byte # 0 => wpos'.msg = wpos.msg
  BY <1>1 DEF After, Place
<1>4. FramingTypeOK'
  BY <1>2 DEF FramingTypeOK, WriteByte, Msgs, Sizes, Places, Bytes, Old
<1>5. wpos.msg \in Nat /\ wpos'.msg \in Nat /\ taken \in Nat
  BY <1>1, <1>2, FramingAssumption DEF Places, FramingTypeOK
<1>6. ~Before(wpos', rpos)
  <2>1. /\ wpos.byte \in Nat /\ rpos.msg \in Nat /\ rpos.byte \in Nat
    BY <1>1, FramingAssumption DEF Places
  <2> QED
    BY <1>1, <1>5, <2>1 DEF After, Place, Before
<1>7. PlacesInvariant'
  <2>1. /\ Valid(wpos)' /\ Valid(rpos)' /\ Before(wpos, rpos)' = Before(wpos', rpos)
    BY <1>1, <1>2 DEF WriteByte, Valid, Before
  <2>2. sending' => link' # "closed" /\ wpos'.msg \in Msgs
    BY <1>1, <1>3 DEF WriteByte
  <2>3. wpos'.byte # 0 /\ link' = "up" => sending'
    BY DEF WriteByte
  <2>4. taken' <= Sent'
    BY <1>2, <1>5 DEF WriteByte, FramingInvariant, PlacesInvariant, Sent
  <2> QED
    BY <1>6, <2>1, <2>2, <2>3, <2>4 DEF PlacesInvariant, Msgs
<1>8. InMessage'
  BY DEF FramingInvariant, InMessage, Place, Msgs, WriteByte
<1>9. InOrder'
  BY <1>2, <1>5 DEF Results, InOrder, Sent, WriteByte
<1>10. EndIsEnd' /\ InStepUnless'
  BY DEF Results, EndIsEnd, InStepUnless, WriteByte, Msgs
<1> QED
  BY <1>4, <1>7, <1>8, <1>9, <1>10 DEF FramingInvariant, Results

LEMMA SenderInvariant ==
  Invariant /\ (SendStep \/ Close \/ Reset) => Invariant'
<1> SUFFICES ASSUME Invariant, SendStep \/ Close \/ Reset PROVE Invariant'
  OBVIOUS
<1>1. /\ sending \in BOOLEAN /\ link \in {"up", "closed", "reset"}
      /\ sending => link # "closed" /\ wpos.msg \in Msgs
      /\ wpos.byte # 0 /\ link = "up" => sending
  BY DEF Invariant, FramingTypeOK, FramingInvariant, PlacesInvariant
<1>2. CASE SendCall
  BY <1>1, <1>2, SenderElsewhere DEF SendCall
<1>3. CASE WriteByte
  BY <1>3, WriteByteInvariant
<1>4. CASE SendError
  BY <1>1, <1>4, SenderElsewhere DEF SendError
<1>5. CASE Close
  BY <1>1, <1>5, SenderElsewhere DEF Close
<1>6. CASE Reset
  BY <1>1, <1>6, SenderElsewhere DEF Reset, sendVars
<1> QED
  BY <1>2, <1>3, <1>4, <1>5, <1>6 DEF SendStep

----------------------------------------------------------------------------
(***************************************************************************)
(* The steps of the receiver.                                              *)
(***************************************************************************)
LEMMA RecvCallInvariant == Invariant /\ RecvCall => Invariant'
<1> SUFFICES ASSUME Invariant, RecvCall PROVE Invariant'
  OBVIOUS
<1> USE DEF Invariant, RecvCall, sendVars
<1>1. FramingTypeOK'
  <2>1. buf' \in [1 .. PP_MAX_MESSAGE_LEN -> Bytes]'
    BY DEF Bytes, Msgs
  <2>2. bytesRead' \in -1 .. PP_MAX_MESSAGE_LEN
    BY FramingAssumption
  <2> QED
    BY <2>1, <2>2 DEF FramingTypeOK, Msgs, Sizes, Places
<1>2. PlacesInvariant'
  BY DEF FramingInvariant, PlacesInvariant, Valid, Before, Sent, Msgs
<1>3. InMessage'
  BY FramingAssumption DEF FramingInvariant, InMessage
<1>4. InOrder' /\ EndIsEnd'
  BY DEF InOrder, EndIsEnd
<1>5. InStepUnless'
  BY DEF Results, InStepUnless, Msgs
<1> QED
  BY <1>1, <1>2, <1>3, <1>4, <1>5 DEF FramingInvariant, Results

\* A byte that is read is one that has been written, and fits the buffer.
LEMMA ReadByteType ==
  ASSUME Invariant, ReadByte, UNCHANGED <<len, sendVars, link, taken>>,
         bytesRead \in 0 .. PP_MAX_MESSAGE_LEN - 1
  PROVE  /\ rpos.msg \in Msgs
         /\ rpos' \in Places
         /\ bytesRead' \in -1 .. PP_MAX_MESSAGE_LEN
         /\ buf' \in [1 .. PP_MAX_MESSAGE_LEN -> Bytes]
         /\ PlacesInvariant'
<1>1. /\ wpos \in Places /\ rpos \in Places /\ Valid(wpos) /\ Valid(rpos)
      /\ Before(rpos, wpos)
  BY DEF Invariant, FramingTypeOK, FramingInvariant, PlacesInvariant, ReadByte, Readable
<1>2. rpos.msg \in Msgs
  <2> SUFFICES ASSUME rpos.msg = Messages + 1 PROVE FALSE
    BY <1>1, FramingAssumption DEF Places, Msgs
  <2>1. wpos.msg = Messages + 1 /\ rpos.byte < wpos.byte
    BY <1>1, FramingAssumption DEF Places, Before
  <2>2. wpos.byte = 0 /\ rpos.byte = 0
    BY <1>1, <2>1, FramingAssumption DEF Valid, Msgs
  <2> QED
    BY <2>1, <2>2
<1>3. rpos' = After(rpos) /\ rpos' \in Places /\ Valid(rpos') /\ ~Before(wpos, rpos')
  BY <1>1, <1>2, AfterPlace DEF Invariant, ReadByte
<1>4. <<rpos.msg, rpos.byte + 1>> \in Bytes
  <2>1. rpos.byte + 1 \in 1 .. PP_MAX_MESSAGE_LEN
    BY <1>1, <1>2, Numbers DEF Invariant, Places, Valid
  <2> QED
    BY <1>2, <2>1 DEF Bytes
<1>5. bytesRead' \in -1 .. PP_MAX_MESSAGE_LEN
  BY FramingAssumption DEF ReadByte
<1>6. buf' \in [1 .. PP_MAX_MESSAGE_LEN -> Bytes]
  BY <1>4 DEF Invariant, FramingTypeOK, ReadByte
<1>7. PlacesInvariant'
  BY <1>1, <1>3 DEF Invariant, FramingInvariant, PlacesInvariant, Valid, Before, Sent,
                    sendVars, Msgs
<1> QED
  BY <1>2, <1>3, <1>5, <1>6, <1>7

\* A receiver in step reads the next byte of its message.
LEMMA ReadByteInMessage ==
  ASSUME Invariant, ReadByte, UNCHANGED <<len, sendVars, link, taken>>,
         inStep, phase # "idle", bytesRead \in 0 .. PP_MAX_MESSAGE_LEN - 1,
         bytesRead > 0 => bytesRead < len[taken + 1]
  PROVE  /\ taken + 1 \in Msgs
         /\ rpos' = Place(taken + 1, bytesRead + 1)
         /\ \A p \in 1 .. bytesRead' : buf'[p] = <<taken + 1, p>>
<1>1. rpos = [msg |-> taken + 1, byte |-> bytesRead]
  <2>1. CASE bytesRead = 0
    BY <2>1 DEF Invariant, FramingInvariant, InMessage
  <2>2. CASE bytesRead > 0
    <3>1. rpos = Place(taken + 1, bytesRead) /\ taken + 1 \in Msgs
      BY <2>2 DEF Invariant, FramingInvariant, InMessage
    <3>2. bytesRead # len[taken + 1]
      BY <2>2, <3>1, Numbers DEF Invariant
    <3> QED
      BY <3>1, <3>2 DEF Place
  <2> QED
    BY <2>1, <2>2
<1>2. taken + 1 \in Msgs
  BY <1>1, ReadByteType
<1>3. rpos' = Place(taken + 1, bytesRead + 1)
  BY <1>1 DEF ReadByte, After
<1>4. \A p \in 1 .. bytesRead : buf[p] = <<taken + 1, p>>
  BY DEF Invariant, FramingInvariant, InMessage
<1>5. buf' = [buf EXCEPT ![bytesRead + 1] = <<taken + 1, bytesRead + 1>>]
  BY <1>1 DEF ReadByte
<1>6. ASSUME NEW p \in 1 .. bytesRead' PROVE buf'[p] = <<taken + 1, p>>
  <2>1. p \in 1 .. PP_MAX_MESSAGE_LEN /\ (p = bytesRead + 1 \/ p \in 1 .. bytesRead)
    BY <1>6, FramingAssumption DEF ReadByte
  <2> QED
    BY <1>4, <1>5, <2>1 DEF Invariant, FramingTypeOK
<1> QED
  BY <1>2, <1>3, <1>6

LEMMA HeaderByteInvariant == Invariant /\ HeaderByte => Invariant'
<1> SUFFICES ASSUME Invariant, HeaderByte PROVE Invariant'
  OBVIOUS
<1>1. /\ ReadByte /\ UNCHANGED <<len, sendVars, link, taken>> /\ phase = "header"
      /\ bytesRead \in 0 .. Header - 1
      /\ bytesRead \in 0 .. PP_MAX_MESSAGE_LEN - 1
  BY FramingAssumption DEF HeaderByte, InHeader
<1>2. FramingTypeOK'
  BY <1>1, ReadByteType
     DEF Invariant, FramingTypeOK, HeaderByte, sendVars, Msgs, Sizes, Places, Bytes, Old
<1>3. PlacesInvariant'
  BY <1>1, ReadByteType
<1>4. InMessage'
  <2> SUFFICES ASSUME inStep PROVE InMessage'
    BY DEF InMessage, HeaderByte
  <2>1. bytesRead > 0 => bytesRead < len[taken + 1]
    BY <1>1, Numbers DEF Invariant, FramingInvariant, InMessage
  <2>2. /\ taken + 1 \in Msgs
        /\ rpos' = Place(taken + 1, bytesRead + 1)
        /\ \A p \in 1 .. bytesRead' : buf'[p] = <<taken + 1, p>>
    BY <1>1, <2>1, ReadByteInMessage
  <2>3. bytesRead' = bytesRead + 1 /\ bytesRead' \in 1 .. Header
    BY <1>1, FramingAssumption DEF ReadByte
  <2> QED
    BY <1>1, <2>2, <2>3 DEF InMessage, HeaderByte, Place, Msgs
<1>5. InOrder' /\ EndIsEnd'
  BY <1>1 DEF Invariant, FramingTypeOK, InOrder, EndIsEnd, HeaderByte
<1>6. InStepUnless'
  BY DEF Invariant, Results, InStepUnless, HeaderByte, sendVars, Msgs
<1> QED
  BY <1>2, <1>3, <1>4, <1>5, <1>6 DEF Invariant, FramingInvariant, Results

LEMMA PayloadByteInvariant == Invariant /\ PayloadByte => Invariant'
<1> SUFFICES ASSUME Invariant, PayloadByte PROVE Invariant'
  OBVIOUS
<1>1. /\ ReadByte /\ UNCHANGED <<len, sendVars, link, taken>> /\ phase = "payload"
      /\ want \in 0 .. PP_MAX_MESSAGE_LEN
      /\ bytesRead \in 0 .. want - 1
      /\ bytesRead \in 0 .. PP_MAX_MESSAGE_LEN - 1
  BY FramingAssumption DEF PayloadByte, InPayload, Invariant, FramingTypeOK
<1>2. FramingTypeOK'
  BY <1>1, ReadByteType
     DEF Invariant, FramingTypeOK, PayloadByte, sendVars, Msgs, Sizes, Places, Bytes, Old
<1>3. PlacesInvariant'
  BY <1>1, ReadByteType
<1>4. InMessage'
  <2> SUFFICES ASSUME inStep PROVE InMessage'
    BY DEF InMessage, PayloadByte
  <2>1. /\ taken + 1 \in Msgs /\ want = len[taken + 1] /\ want < PP_MAX_MESSAGE_LEN
        /\ bytesRead \in Header .. want
    BY <1>1 DEF Invariant, FramingInvariant, InMessage
  <2>2. /\ rpos' = Place(taken + 1, bytesRead + 1)
        /\ \A p \in 1 .. bytesRead' : buf'[p] = <<taken + 1, p>>
    BY <1>1, <2>1, ReadByteInMessage
  <2>3. /\ bytesRead' = bytesRead + 1 /\ bytesRead' \in Header .. want
        /\ bytesRead' > 0
    BY <1>1, <2>1, FramingAssumption DEF ReadByte
  <2> QED
    BY <1>1, <2>1, <2>2, <2>3 DEF InMessage, PayloadByte, Place, Msgs
<1>5. InOrder' /\ EndIsEnd'
  BY <1>1 DEF Invariant, FramingTypeOK, InOrder, EndIsEnd, PayloadByte
<1>6. InStepUnless'
  BY DEF Invariant, Results, InStepUnless, PayloadByte, sendVars, Msgs
<1> QED
  BY <1>2, <1>3, <1>4, <1>5, <1>6 DEF Invariant, FramingInvariant, Results

\* The length of the message being read, when its header is in the buffer.
LEMMA ParsedInStep ==
  ASSUME Invariant, inStep, phase = "header", ~InHeader, bytesRead >= 0
  PROVE  /\ taken + 1 \in Msgs
         /\ bytesRead = Header
         /\ Parsed \subseteq {len[taken + 1]}
<1>1. bytesRead = Header
  BY FramingAssumption DEF Invariant, FramingTypeOK, FramingInvariant, InMessage, InHeader
<1>2. /\ taken + 1 \in Msgs
      /\ \A p \in 1 .. bytesRead : buf[p] = <<taken + 1, p>>
  BY <1>1, FramingAssumption DEF Invariant, FramingInvariant, InMessage
<1>3. \A p \in 2 .. Header : buf[p] = <<taken + 1, p>>
  BY <1>1, <1>2, FramingAssumption
<1> QED
  BY <1>1, <1>2, <1>3 DEF Parsed

LEMMA CheckLengthInvariant == Invariant /\ CheckLength => Invariant'
<1> SUFFICES ASSUME Invariant, CheckLength PROVE Invariant'
  OBVIOUS
<1> USE DEF CheckLength, sendVars
<1>1. FramingTypeOK'
  BY DEF Invariant, FramingTypeOK, Parsed, Msgs, Sizes, Places, Bytes, Old
<1>2. PlacesInvariant'
  BY DEF Invariant, FramingInvariant, PlacesInvariant, Valid, Before, Sent, Msgs
<1>3. InMessage'
  <2> SUFFICES ASSUME inStep PROVE InMessage'
    BY DEF InMessage
  <2>1. CASE bytesRead < 0
    BY <2>1, FramingAssumption
       DEF Invariant, FramingTypeOK, FramingInvariant, InMessage, Msgs
  <2>2. CASE ~(bytesRead < 0)
    <3>1. /\ taken + 1 \in Msgs /\ bytesRead = Header
          /\ want' = len[taken + 1] /\ want' < PP_MAX_MESSAGE_LEN
      BY <2>2, ParsedInStep DEF Invariant, FramingTypeOK
    <3>2. bytesRead > 0 /\ bytesRead \in Header .. want'
      BY <3>1, Numbers DEF Invariant
    <3>3. /\ rpos = Place(taken + 1, bytesRead)
          /\ \A p \in 1 .. bytesRead : buf[p] = <<taken + 1, p>>
      BY <3>2 DEF Invariant, FramingInvariant, InMessage
    <3> QED
      BY <3>1, <3>2, <3>3 DEF InMessage, Place, Msgs
  <2> QED
    BY <2>1, <2>2
<1>4. InOrder' /\ EndIsEnd'
  BY DEF Invariant, FramingTypeOK, InOrder, EndIsEnd
<1>5. InStepUnless'
  BY DEF Invariant, Results, InStepUnless, Msgs
<1> QED
  BY <1>1, <1>2, <1>3, <1>4, <1>5 DEF Invariant, FramingInvariant, Results

\* An interruption takes a byte back; before the first byte it takes nothing.
LEMMA HeaderInterruptedInvariant == Invariant /\ HeaderInterrupted => Invariant'
<1> SUFFICES ASSUME Invariant, HeaderInterrupted PROVE Invariant'
  OBVIOUS
<1> USE DEF HeaderInterrupted, Interrupt, sendVars
<1>1. bytesRead \in 0 .. Header - 1 /\ phase = "header"
  BY DEF InHeader
<1>2. FramingTypeOK'
  <2>1. bytesRead' \in -1 .. PP_MAX_MESSAGE_LEN
    BY <1>1, FramingAssumption
  <2>2. interrupts' \in 0 .. MaxInterrupts /\ interrupts' > 0
    BY FramingAssumption DEF Invariant, FramingTypeOK
  <2> QED
    BY <2>1, <2>2 DEF Invariant, FramingTypeOK, Msgs, Sizes, Places, Bytes, Old
<1>3. PlacesInvariant'
  BY DEF Invariant, FramingInvariant, PlacesInvariant, Valid, Before, Sent, Msgs
<1>4. InMessage'
  <2> SUFFICES ASSUME inStep, bytesRead = 0 PROVE InMessage'
    BY DEF InMessage
  <2>1. rpos = [msg |-> taken + 1, byte |-> 0]
    BY DEF Invariant, FramingInvariant, InMessage
  <2>2. bytesRead' = -1
    BY FramingAssumption
  <2> QED
    BY <1>1, <2>1, <2>2, FramingAssumption DEF InMessage
<1>5. InOrder' /\ EndIsEnd'
  BY <1>1 DEF Invariant, FramingTypeOK, InOrder, EndIsEnd
<1>6. InStepUnless'
  BY FramingAssumption DEF Invariant, FramingTypeOK, InStepUnless
<1> QED
  BY <1>2, <1>3, <1>4, <1>5, <1>6 DEF Invariant, FramingInvariant, Results

\* recv() returns without a message.
LEMMA NoMessage ==
  ASSUME Invariant, NEW r \in {"eof", "error"}, Returns(r), UNCHANGED taken,
         phase # "idle", interrupts' \in 0 .. MaxInterrupts,
         interrupts' >= interrupts,
         inStep => bytesRead < 1 \/ (r = "error" /\ rpos.byte # 0),
         r = "eof" => EndIsEnd',
         inStep /\ ~inStep' => InStepUnless'
  PROVE  Invariant'
<1> USE DEF Returns, sendVars
<1>1. FramingTypeOK'
  BY DEF Invariant, FramingTypeOK, Msgs, Sizes, Places, Bytes, Old
<1>2. PlacesInvariant'
  BY DEF Invariant, FramingInvariant, PlacesInvariant, Valid, Before, Sent, Msgs
<1>3. InMessage'
  BY FramingAssumption DEF Invariant, FramingTypeOK, FramingInvariant, InMessage
<1>4. InOrder' /\ EndIsEnd'
  BY DEF Invariant, FramingTypeOK, InOrder, EndIsEnd
<1>5. InStepUnless'
  <2>1. inStep => inStep' \/ InStepUnless'
    BY DEF Invariant, FramingTypeOK
  <2>2. interrupts > 0 => interrupts' > 0
    BY FramingAssumption DEF Invariant, FramingTypeOK
  <2> QED
    BY <2>1, <2>2 DEF Invariant, Results, InStepUnless, Msgs
<1> QED
  BY <1>1, <1>2, <1>3, <1>4, <1>5 DEF Invariant, FramingInvariant, Results

\* Within a message, the byte that is read next is not its first.
LEMMA InsideMessage ==
  ASSUME Invariant, inStep, InHeader \/ InPayload, bytesRead > 0
  PROVE  rpos.byte # 0 /\ rpos.msg = taken + 1
<1>1. /\ taken + 1 \in Msgs /\ rpos = Place(taken + 1, bytesRead)
      /\ bytesRead < len[taken + 1]
  <2>1. CASE InHeader
    BY <2>1, Numbers DEF Invariant, FramingInvariant, InMessage, InHeader
  <2>2. CASE InPayload
    BY <2>2, FramingAssumption
       DEF Invariant, FramingTypeOK, FramingInvariant, InMessage, InPayload
  <2> QED
    BY <2>1, <2>2
<1>2. bytesRead # len[taken + 1]
  BY <1>1, Numbers DEF Invariant
<1> QED
  BY <1>1, <1>2 DEF Place

\* Nothing to read on a connection that is not reset: all has been read.
LEMMA NothingLeft ==
  ASSUME Invariant, ~Readable, link # "reset"
  PROVE  rpos = wpos
<1>1. ~Before(rpos, wpos) /\ ~Before(wpos, rpos) /\ rpos \in Places /\ wpos \in Places
  BY DEF Invariant, FramingTypeOK, FramingInvariant, PlacesInvariant, Readable
<1>2. rpos.msg = wpos.msg /\ rpos.byte = wpos.byte
  BY <1>1, FramingAssumption DEF Before, Places
<1> QED
  BY <1>1, <1>2 DEF Places

LEMMA HeaderEndInvariant == Invariant /\ HeaderEnd => Invariant'
<1> SUFFICES ASSUME Invariant, HeaderEnd PROVE Invariant'
  OBVIOUS
<1>1. /\ InHeader /\ phase = "header" /\ bytesRead \in 0 .. Header - 1 /\ ~Readable
      /\ link # "up" /\ UNCHANGED taken /\ UNCHANGED interrupts
      /\ interrupts' \in 0 .. MaxInterrupts /\ interrupts' >= interrupts
  BY FramingAssumption DEF HeaderEnd, InHeader, Invariant, FramingTypeOK
<1>2. CASE bytesRead = 0
  <2>1. Returns("eof")
    BY <1>2 DEF HeaderEnd
  <2>2. EndIsEnd'
    <3> SUFFICES ASSUME inStep, link # "reset"
                 PROVE  link = "closed" /\ taken = Sent /\ wpos.byte = 0
      BY <1>1, <2>1 DEF EndIsEnd, Returns, Sent, sendVars
    <3>1. rpos = [msg |-> taken + 1, byte |-> 0] /\ rpos = wpos
      BY <1>1, <1>2, NothingLeft DEF Invariant, FramingInvariant, InMessage
    <3> QED
      BY <1>1, <3>1, FramingAssumption DEF Invariant, FramingTypeOK, Sent
  <2>3. inStep => inStep'
    BY <2>1 DEF Returns
  <2>4. bytesRead < 1
    BY <1>2
  <2> QED
    BY <1>1, <2>1, <2>2, <2>3, <2>4, NoMessage
<1>3. CASE bytesRead # 0
  <2>1. Returns("error")
    BY <1>3 DEF HeaderEnd
  <2>2. inStep => rpos.byte # 0
    BY <1>1, <1>3, FramingAssumption, InsideMessage
  <2>3. inStep => InStepUnless'
    <3>1. CASE link = "reset"
      BY <2>1, <3>1 DEF InStepUnless, Returns
    <3>2. CASE link # "reset"
      BY <1>1, <2>1, <2>2, <3>2, NothingLeft
         DEF Invariant, FramingTypeOK, InStepUnless, Returns, sendVars
    <3> QED
      BY <3>1, <3>2
  <2> QED
    BY <1>1, <2>1, <2>2, <2>3, NoMessage
<1> QED
  BY <1>2, <1>3

LEMMA HeaderErrorInvariant == Invariant /\ HeaderError => Invariant'
<1> SUFFICES ASSUME Invariant, HeaderError PROVE Invariant'
  OBVIOUS
<1>1. /\ InHeader /\ phase = "header" /\ bytesRead \in 0 .. Header - 1
      /\ link = "reset" /\ UNCHANGED taken /\ UNCHANGED interrupts /\ Returns("error")
      /\ interrupts' \in 0 .. MaxInterrupts /\ interrupts' >= interrupts
  BY FramingAssumption DEF HeaderError, InHeader, Invariant, FramingTypeOK
<1>2. inStep => bytesRead < 1 \/ rpos.byte # 0
  BY <1>1, FramingAssumption, InsideMessage
<1>3. InStepUnless'
  BY <1>1 DEF InStepUnless, Returns
<1> QED
  BY <1>1, <1>2, <1>3, NoMessage

LEMMA TooLongInvariant == Invariant /\ TooLong => Invariant'
<1> SUFFICES ASSUME Invariant, TooLong PROVE Invariant'
  OBVIOUS
<1>1. /\ phase = "header" /\ ~InHeader /\ UNCHANGED taken /\ UNCHANGED interrupts
      /\ interrupts' \in 0 .. MaxInterrupts /\ interrupts' >= interrupts
      /\ bytesRead \in -1 .. PP_MAX_MESSAGE_LEN /\ Returns("error")
  BY FramingAssumption DEF TooLong, Invariant, FramingTypeOK
<1>2. ASSUME inStep, bytesRead >= 0
      PROVE  /\ taken + 1 \in Msgs /\ len[taken + 1] = PP_MAX_MESSAGE_LEN
             /\ rpos.byte # 0
  <2>1. /\ taken + 1 \in Msgs /\ len[taken + 1] = PP_MAX_MESSAGE_LEN
        /\ bytesRead = Header
    BY <1>1, <1>2, ParsedInStep DEF TooLong
  <2>2. rpos = Place(taken + 1, Header)
    BY <1>1, <1>2, <2>1, FramingAssumption DEF Invariant, FramingInvariant, InMessage
  <2> QED
    BY <2>1, <2>2, FramingAssumption DEF Place
<1>3. ASSUME inStep, bytesRead < 0 PROVE inStep'
  <2>1. rpos.byte = 0
    BY <1>1, <1>3, FramingAssumption DEF Invariant, FramingInvariant, InMessage
  <2> QED
    BY <1>1, <1>3, <2>1 DEF Returns
<1>4. inStep => bytesRead < 1 \/ rpos.byte # 0
  BY <1>1, <1>2, FramingAssumption
<1>5. inStep /\ ~inStep' => InStepUnless'
  BY <1>1, <1>2, <1>3, FramingAssumption DEF InStepUnless, Returns, Msgs
<1> QED
  BY <1>1, <1>4, <1>5, NoMessage

LEMMA PayloadFailsInvariant ==
  Invariant /\ (PayloadFails \/ PayloadInterrupted) => Invariant'
<1> SUFFICES ASSUME Invariant, PayloadFails \/ PayloadInterrupted PROVE Invariant'
  OBVIOUS
<1>1. /\ InPayload /\ phase = "payload" /\ bytesRead \in 0 .. want - 1
      /\ UNCHANGED taken /\ Returns("error")
      /\ interrupts' \in 0 .. MaxInterrupts /\ interrupts' >= interrupts
      /\ interrupts' # interrupts => interrupts' > 0
  BY FramingAssumption
     DEF PayloadFails, PayloadInterrupted, Interrupt, InPayload, Invariant, FramingTypeOK
<1>2. inStep => bytesRead > 0 /\ rpos.byte # 0
  <2> SUFFICES ASSUME inStep PROVE bytesRead > 0 /\ rpos.byte # 0
    OBVIOUS
  <2>1. bytesRead > 0
    BY <1>1, FramingAssumption DEF Invariant, FramingInvariant, InMessage
  <2> QED
    BY <1>1, <2>1, InsideMessage
<1>3. inStep => InStepUnless'
  <2>1. CASE PayloadInterrupted
    BY <2>1, FramingAssumption
       DEF PayloadInterrupted, Interrupt, Invariant, FramingTypeOK, InStepUnless
  <2>2. CASE PayloadFails
    <3>1. CASE link = "reset"
      BY <1>1, <3>1 DEF InStepUnless, Returns
    <3>2. CASE link # "reset"
      BY <1>1, <1>2, <2>2, <3>2, NothingLeft
         DEF PayloadFails, Invariant, FramingTypeOK, InStepUnless, Returns, sendVars
    <3> QED
      BY <3>1, <3>2
  <2> QED
    BY <2>1, <2>2
<1> QED
  BY <1>1, <1>2, <1>3, NoMessage

LEMMA ReturnInvariant == Invariant /\ Return => Invariant'
<1> SUFFICES ASSUME Invariant, Return PROVE Invariant'
  OBVIOUS
<1>1. /\ phase = "payload" /\ ~InPayload /\ UNCHANGED interrupts
      /\ interrupts' \in 0 .. MaxInterrupts /\ interrupts' >= interrupts
      /\ bytesRead \in -1 .. PP_MAX_MESSAGE_LEN /\ want \in 0 .. PP_MAX_MESSAGE_LEN
      /\ taken \in 0 .. Messages /\ inStep \in BOOLEAN
  BY FramingAssumption DEF Return, Invariant, FramingTypeOK
<1>2. CASE bytesRead < 0
  <2>1. Returns("error") /\ UNCHANGED taken
    BY <1>1, <1>2, FramingAssumption DEF Return
  <2>2. inStep => inStep'
    <3>1. inStep => rpos.byte = 0
      BY <1>1, <1>2, FramingAssumption DEF Invariant, FramingInvariant, InMessage
    <3> QED
      BY <2>1, <3>1 DEF Returns
  <2>3. bytesRead < 1
    BY <1>1, <1>2, FramingAssumption
  <2> QED
    BY <1>1, <2>1, <2>2, <2>3, NoMessage
<1>3. CASE ~(bytesRead < 0)
  <2>1. /\ Returns("message") /\ bytesRead >= 0
        /\ taken' = IF inStep THEN taken + 1 ELSE taken
    BY <1>1, <1>3, FramingAssumption DEF Return
  <2>2. ASSUME inStep
        PROVE  /\ taken + 1 \in Msgs /\ bytesRead = len[taken + 1]
               /\ rpos = [msg |-> taken + 2, byte |-> 0]
               /\ \A p \in 1 .. bytesRead : buf[p] = <<taken + 1, p>>
               /\ taken + 1 <= Sent
    <3>1. /\ taken + 1 \in Msgs /\ want = len[taken + 1] /\ bytesRead \in Header .. want
      BY <1>1, <2>1, <2>2 DEF Invariant, FramingInvariant, InMessage
    <3>2. bytesRead = want /\ bytesRead > 0
      BY <1>1, <3>1, FramingAssumption DEF InPayload
    <3>3. /\ rpos = Place(taken + 1, bytesRead)
          /\ \A p \in 1 .. bytesRead : buf[p] = <<taken + 1, p>>
      BY <1>1, <2>2, <3>2 DEF Invariant, FramingInvariant, InMessage
    <3>4. rpos = [msg |-> taken + 2, byte |-> 0]
      BY <1>1, <3>1, <3>2, <3>3, FramingAssumption DEF Place
    <3>5. ~Before(wpos, rpos) /\ wpos \in Places
      BY DEF Invariant, FramingTypeOK, FramingInvariant, PlacesInvariant
    <3>6. taken + 1 <= Sent
      BY <1>1, <3>4, <3>5, FramingAssumption DEF Before, Places, Sent
    <3> QED
      BY <3>1, <3>2, <3>3, <3>4, <3>6
  <2>3. FramingTypeOK'
    <3>1. taken' \in 0 .. Messages
      BY <1>1, <2>1, <2>2, FramingAssumption DEF Msgs
    <3> QED
      BY <1>1, <2>1, <3>1
         DEF Invariant, FramingTypeOK, Returns, sendVars, Msgs, Sizes, Places, Bytes, Old
  <2>4. PlacesInvariant'
    BY <2>1, <2>2
       DEF Invariant, FramingInvariant, PlacesInvariant, Returns, sendVars, Valid, Before,
           Sent, Msgs
  <2>5. InMessage'
    <3> SUFFICES ASSUME inStep PROVE InMessage'
      BY <2>1 DEF InMessage, Returns
    <3>1. phase' = "idle" /\ rpos' = [msg |-> taken' + 1, byte |-> 0]
      BY <1>1, <2>1, <2>2, FramingAssumption DEF Returns
    <3> QED
      BY <3>1 DEF InMessage
  <2>6. InOrder' /\ EndIsEnd'
    BY <1>1, <2>1, <2>2, FramingAssumption
       DEF InOrder, EndIsEnd, Returns, sendVars, Sent, Msgs
  <2>7. InStepUnless'
    BY <1>1, <2>1 DEF Invariant, Results, InStepUnless, Returns, sendVars, Msgs
  <2> QED
    BY <2>3, <2>4, <2>5, <2>6, <2>7 DEF Invariant, FramingInvariant, Results
<1> QED
  BY <1>2, <1>3

\* A step.
THEOREM NextInvariant == Invariant /\ [Next]_vars => Invariant'
<1> SUFFICES ASSUME Invariant, [Next]_vars PROVE Invariant'
  OBVIOUS
<1>1. CASE SendStep \/ Close \/ Reset
  BY <1>1, SenderInvariant
<1>2. CASE RecvCall
  BY <1>2, RecvCallInvariant
<1>3. CASE RecvStep
  BY <1>3, HeaderByteInvariant, HeaderEndInvariant, HeaderErrorInvariant,
     CheckLengthInvariant, TooLongInvariant, PayloadByteInvariant, PayloadFailsInvariant,
     ReturnInvariant
     DEF RecvStep
<1>4. CASE Interrupted
  BY <1>4, HeaderInterruptedInvariant, PayloadFailsInvariant DEF Interrupted
<1>5. CASE UNCHANGED vars
  BY <1>5, SenderElsewhere
     DEF vars, sendVars, Invariant, FramingTypeOK, FramingInvariant, PlacesInvariant
<1> QED
  BY <1>1, <1>2, <1>3, <1>4, <1>5 DEF Next

\* Every state of a behaviour satisfies the invariant.
THEOREM InvariantCorrect == Spec => []Invariant
  BY InitInvariant, NextInvariant, PTL DEF Spec

(***************************************************************************)
(* The variables of the loops keep their types: bytesRead stays between -1 *)
(* and the size of the buffer, and no byte is written outside it.          *)
(***************************************************************************)
THEOREM FramingTypeCorrect == Spec => []FramingTypeOK
<1>1. Invariant => FramingTypeOK
  BY DEF Invariant
<1> QED
  BY <1>1, InvariantCorrect, PTL

(***************************************************************************)
(* recv() returns the messages sent, whole and in order, as long as it is  *)
(* in step with the stream.                                                *)
(***************************************************************************)
THEOREM InOrderCorrect == Spec => []InOrder
<1>1. Invariant => InOrder
  BY DEF Invariant, Results
<1> QED
  BY <1>1, InvariantCorrect, PTL

(***************************************************************************)
(* recv() returns 0 only at the end of all that has been sent.             *)
(***************************************************************************)
THEOREM EndIsEndCorrect == Spec => []EndIsEnd
<1>1. Invariant => EndIsEnd
  BY DEF Invariant, Results
<1> QED
  BY <1>1, InvariantCorrect, PTL

(***************************************************************************)
(* recv() stays in step with the stream, unless it is interrupted, the     *)
(* connection breaks or ends within a message, or a message is too long.   *)
(***************************************************************************)
THEOREM InStepCorrect == Spec => []InStepUnless
<1>1. Invariant => InStepUnless
  BY DEF Invariant, Results
<1> QED
  BY <1>1, InvariantCorrect, PTL

(***************************************************************************)
(* The receiver's buffer and place agree with the message it reads.        *)
(***************************************************************************)
THEOREM FramingInvariantCorrect == Spec => []FramingInvariant
<1>1. Invariant => FramingInvariant
  BY DEF Invariant
<1> QED
  BY <1>1, InvariantCorrect, PTL

----------------------------------------------------------------------------
(***************************************************************************)
(* The loops implement MessageChannel.                                     *)
(***************************************************************************)
\* recv() that returns is a step of the channel.
LEMMA ReturnsStep ==
  ASSUME Invariant, NEW r \in {"eof", "error"}, Returns(r), UNCHANGED taken,
         phase # "idle",
         r = "eof" /\ inStep => link = "reset" \/ (link = "closed" /\ taken = Sent)
  PROVE  Channel!Next
<1>1. /\ ret = "none" /\ ret' = r /\ Sent' = Sent
      /\ UNCHANGED <<taken, link>>
      /\ inStep \in BOOLEAN
  BY DEF Invariant, FramingTypeOK, Returns, sendVars, Sent
<1>2. CASE r = "error"
  <2>1. inStep' \in {inStep, FALSE}
    BY <1>1, <1>2 DEF Returns
  <2> QED
    BY <1>1, <1>2, <2>1 DEF Channel!Next, Channel!Fail
<1>3. CASE r = "eof"
  <2>1. inStep' = inStep
    BY <1>1, <1>3 DEF Returns
  <2>2. CASE inStep
    BY <1>1, <1>3, <2>1, <2>2 DEF Channel!Next, Channel!End
  <2>3. CASE ~inStep
    BY <1>1, <1>3, <2>1, <2>3 DEF Channel!Next, Channel!Garbage
  <2> QED
    BY <2>2, <2>3
<1> QED
  BY <1>2, <1>3

\* A step of the loops is a step of the channel, or leaves it alone.
LEMMA ChannelStep == Invariant /\ Invariant' /\ [Next]_vars => [Channel!Next]_(Channel!vars)
<1> SUFFICES ASSUME Invariant, Invariant', [Next]_vars
             PROVE  Channel!Next \/ UNCHANGED Channel!vars
  OBVIOUS
<1> USE DEF Channel!vars, sendVars, recvVars, Sent
<1>1. CASE SendCall
  BY <1>1 DEF SendCall
<1>2. CASE WriteByte
  <2>1. wpos'.msg = wpos.msg \/ wpos'.msg = wpos.msg + 1
    BY <1>2 DEF WriteByte, After, Place
  <2>2. wpos.msg \in Nat
    BY FramingAssumption DEF Invariant, FramingTypeOK, Places
  <2>3. Sent' = Sent \/ Sent' = Sent + 1
    BY <2>1, <2>2
  <2> QED
    BY <1>2, <2>3 DEF WriteByte, Channel!Next, Channel!Put
<1>3. CASE SendError
  BY <1>3 DEF SendError
<1>4. CASE Close \/ Reset
  BY <1>4 DEF Close, Reset, Channel!Next, Channel!Disconnect
<1>5. CASE RecvCall
  BY <1>5 DEF RecvCall, Invariant, FramingTypeOK, Channel!Next, Channel!Ask
<1>6. CASE HeaderByte \/ PayloadByte \/ CheckLength
  BY <1>6 DEF HeaderByte, PayloadByte, CheckLength
<1>7. CASE HeaderInterrupted
  <2>1. ret = "none" /\ (inStep' = inStep \/ inStep' = FALSE)
    BY <1>7 DEF HeaderInterrupted, InHeader, Invariant, FramingTypeOK
  <2> QED
    BY <1>7, <2>1 DEF HeaderInterrupted, Channel!Next, Channel!FallOut
<1>8. CASE HeaderEnd
  <2>1. Returns("error") \/ Returns("eof")
    BY <1>8 DEF HeaderEnd
  <2>2. CASE Returns("error")
    BY <1>8, <2>2, ReturnsStep DEF HeaderEnd, InHeader
  <2>3. CASE Returns("eof")
    <3>1. inStep => link = "reset" \/ (link = "closed" /\ taken = Sent)
      BY <1>8, <2>3
         DEF HeaderEnd, Returns, Invariant, Results, EndIsEnd, FramingTypeOK
    <3> QED
      BY <1>8, <2>3, <3>1, ReturnsStep DEF HeaderEnd, InHeader
  <2> QED
    BY <2>1, <2>2, <2>3
<1>9. CASE HeaderError \/ TooLong \/ PayloadFails \/ PayloadInterrupted
  <2>1. Returns("error") /\ UNCHANGED taken /\ phase # "idle"
    BY <1>9
       DEF HeaderError, TooLong, PayloadFails, PayloadInterrupted, InHeader, InPayload
  <2> QED
    BY <2>1, ReturnsStep
<1>10. CASE Return
  <2>1. bytesRead \in -1 .. PP_MAX_MESSAGE_LEN /\ phase = "payload" /\ ret = "none"
        /\ inStep \in BOOLEAN
    BY <1>10 DEF Return, Invariant, FramingTypeOK
  <2>2. CASE bytesRead < 0
    <3>1. Returns("error") /\ taken' = taken
      BY <1>10, <2>1, <2>2, FramingAssumption DEF Return
    <3> QED
      BY <2>1, <3>1, ReturnsStep
  <2>3. CASE ~(bytesRead < 0)
    <3>1. Returns("message") /\ taken' = IF inStep THEN taken + 1 ELSE taken
      BY <1>10, <2>1, <2>3, FramingAssumption DEF Return
    <3>2. inStep' = inStep /\ ret' = "message" /\ UNCHANGED <<link, wpos>>
      BY <2>1, <3>1 DEF Returns
    <3>3. CASE inStep
      <4>1. taken + 1 <= Sent
        BY <3>1, <3>2, <3>3 DEF Invariant, FramingInvariant, PlacesInvariant
      <4>2. taken < Sent
        BY <4>1, FramingAssumption DEF Invariant, FramingTypeOK, Places
      <4> QED
        BY <2>1, <3>1, <3>2, <3>3, <4>2 DEF Channel!Next, Channel!Take
    <3>4. CASE ~inStep
      BY <2>1, <3>1, <3>2, <3>4 DEF Channel!Next, Channel!Garbage
    <3> QED
      BY <3>3, <3>4
  <2> QED
    BY <2>2, <2>3
<1>11. CASE UNCHANGED vars
  BY <1>11 DEF vars
<1> QED
  BY <1>1, <1>2, <1>3, <1>4, <1>5, <1>6, <1>7, <1>8, <1>9, <1>10, <1>11
     DEF Next, SendStep, RecvStep, Interrupted

(***************************************************************************)
(* The receive and send loops implement a channel of whole messages.       *)
(***************************************************************************)
THEOREM ChannelImplemented == Spec => ImplementsChannel
<1>1. Init => Channel!Init
  BY DEF Init, Channel!Init, Sent
<1> QED
  BY <1>1, ChannelStep, InvariantCorrect, PTL DEF Spec, ImplementsChannel, Channel!Spec

=============================================================================
