-------------------------- MODULE SvfwChannel_proofs --------------------------
(***************************************************************************)
(* Proofs about one direction of the framing.                              *)
(***************************************************************************)
EXTENDS SvfwChannel, SequenceTheorems, TLAPS

\* Messages are numbered as they are sent, and frames keep the number.
Numbered == \A i \in 1 .. Len(sent) : sent[i].number = i

\* Frame i of the stream is ours, and so are all before it; every frame is.
OursUpTo(i) == \A j \in 1 .. i : stream[j].number # 0
AllOurs == \A j \in 1 .. Len(stream) : stream[j].number # 0

Foreign == \A i \in 1 .. Len(stream) : stream[i].number = 0 => stream[i] \in MalformedFrames

\* Up to the first foreign frame the stream holds what was sent and not delivered, in
\* order, and all of that if there is no foreign frame.
InOrder ==
    /\ \A i \in 1 .. Len(stream) : OursUpTo(i) =>
           /\ Len(delivered) + i <= Len(sent)
           /\ stream[i] = Frame(sent[Len(delivered) + i])
    /\ AllOurs => Len(delivered) + Len(stream) = Len(sent)

\* Between prefix and body the receiver expects as much as the prefix says.
InStep ==
    ~ receivingPrefix =>
        /\ stream # << >>
        /\ expecting = stream[1].prefix
        /\ expecting >= PacketHeaderSize

\* A receive task that has faulted has left the frame it was at in the stream.
Caused ==
    recv = "faulted" =>
        \/ shortRead
        \/ /\ stream # << >>
           /\ \/ stream[1].number = 0
              \/ ~ Deliverable(sent[stream[1].number])

IInv ==
    /\ TypeOK /\ Numbered /\ Foreign /\ InOrder /\ InStep /\ Caused
    /\ DeliveredAsSent

-----------------------------------------------------------------------------
(* Lengths and frames *)

LEMMA Sizes ==
    ASSUME TypeOK, NEW m \in MessagesSent
    PROVE  /\ m.length \in Nat /\ m.reply \in BOOLEAN /\ m.number \in 1 .. MaxSent
           /\ HeaderBytes(m.reply) \in {12, 28}
           /\ Overhead = IF cipherEnabled THEN 27 ELSE 0
           /\ MessageSize(m) = HeaderBytes(m.reply) + m.length + Overhead
           /\ MessageSize(m) \in Nat
<1>1. m.length \in Nat /\ m.reply \in BOOLEAN /\ m.number \in 1 .. MaxSent
    BY LengthsAreNaturals DEF MessagesSent
<1>2. HeaderBytes(m.reply) \in {12, 28}
    BY <1>1 DEF HeaderBytes, MessageHeaderSize, MessageResponseHeaderSize
<1>3. Overhead = IF cipherEnabled THEN 27 ELSE 0
    BY DEF Overhead, CwcOverhead
<1>4. MessageSize(m) = HeaderBytes(m.reply) + m.length + Overhead
    BY DEF MessageSize
<1>5. HeaderBytes(m.reply) + m.length + Overhead \in Nat
    BY <1>1, <1>2, <1>3
<1> QED
    BY <1>1, <1>2, <1>3, <1>4, <1>5

\* What is cut to sixteen bits fits the prefix.
LEMMA PrefixFits == \A k \in Nat : k % UShortRange \in 0 .. UShortRange - 1
BY DEF UShortRange

\* What a message is written as is a frame.
LEMMA FramesAre ==
    ASSUME TypeOK
    PROVE  /\ \A m \in MessagesSent : Frame(m) \in Frames /\ Frame(m).number # 0
           /\ MalformedFrames \subseteq Frames
           /\ \A f \in MalformedFrames : f.number = 0
<1>1. ASSUME NEW m \in MessagesSent
      PROVE  Frame(m) \in Frames /\ Frame(m).number # 0
    <2> DEFINE n == MessageSize(m)
    <2>1. n \in Nat /\ m.reply \in BOOLEAN /\ m.number \in 1 .. MaxSent
        BY Sizes
    <2> HIDE DEF n
    <2>2. (PacketHeaderSize + n) % UShortRange \in 0 .. UShortRange - 1
        <3>1. PacketHeaderSize + n \in Nat
            BY <2>1 DEF PacketHeaderSize
        <3> QED
            BY <3>1, PrefixFits, Zenon
    <2>3. Frame(m) = [prefix |-> (PacketHeaderSize + n) % UShortRange, payloadLength |-> n,
                      reply |-> m.reply, number |-> m.number]
        BY DEF Frame, n
    <2> QED
        BY <2>1, <2>2, <2>3, MaxSentIsNatural DEF Frames
<1>2. MalformedFrames \subseteq Frames
    BY MaxSentIsNatural DEF MalformedFrames, Frames, UShortRange, PacketHeaderSize,
                            MessageHeaderSize
<1> QED
    BY <1>1, <1>2 DEF MalformedFrames

\* The length of the payload that is taken from a frame.
Taken(f) == PayloadBehind(f.reply, expecting - PacketHeaderSize) - Overhead

\* The body of a frame of ours is taken if and only if its message is deliverable, and
\* so is its prefix; what is taken is the message.
LEMMA OursAreTaken ==
    ASSUME TypeOK, NEW m \in MessagesSent, NEW f, f = Frame(m), expecting = f.prefix,
           expecting >= PacketHeaderSize
    PROVE  /\ PacketAccepted(f) /\ MessageAccepted(f) <=> Deliverable(m)
           /\ Deliverable(m) => \/ Taken(f) = m.length
                               \/ /\ ~ cipherEnabled /\ m.length = HeaderBytes(m.reply)
                                  /\ Taken(f) = 0
<1> DEFINE n == MessageSize(m)
           h == HeaderBytes(m.reply)
<1>1. f.prefix = (12 + n) % 65536 /\ f.payloadLength = n /\ f.reply = m.reply
    BY DEF Frame, PacketHeaderSize, UShortRange
<1>2. n \in Nat /\ n = h + m.length + Overhead /\ h \in {12, 28} /\ m.length \in Nat
    BY Sizes
<1>3. Overhead = IF cipherEnabled THEN 27 ELSE 0
    BY Sizes
<1> HIDE DEF n, h
<1>4. PacketAccepted(f) <=> 12 + n < 65536
    <2>1. (12 + n) % 65536 < 65536 /\ (12 + n < 65536 => (12 + n) % 65536 = 12 + n)
        BY <1>2
    <2> QED
        BY <1>1, <1>2, <2>1 DEF PacketAccepted, PacketHeaderSize
<1>5. PacketAccepted(f) => expecting - PacketHeaderSize = n
    BY <1>1 DEF PacketAccepted
<1>6. PayloadBehind(f.reply, n) = IF m.length + Overhead = h THEN 0 ELSE m.length + Overhead
    BY <1>1, <1>2, <1>3 DEF PayloadBehind, h
<1>7. PacketAccepted(f) =>
          (MessageAccepted(f) <=> (cipherEnabled => PayloadBehind(f.reply, n) > 27))
    BY <1>1, <1>2, <1>3, <1>5 DEF MessageAccepted, CwcOverhead, h
<1>8. Deliverable(m) <=> /\ 12 + n < 65536
                         /\ cipherEnabled => m.length > 0 /\ m.length + 27 # h
    BY DEF Deliverable, PacketHeaderSize, UShortRange, CwcOverhead, n, h
<1>9. PacketAccepted(f) /\ MessageAccepted(f) <=> Deliverable(m)
    BY <1>2, <1>3, <1>4, <1>6, <1>7, <1>8
<1>10. ASSUME Deliverable(m)
       PROVE  Taken(f) = m.length \/ (~ cipherEnabled /\ m.length = h /\ Taken(f) = 0)
    <2>1. Taken(f) = PayloadBehind(f.reply, n) - Overhead
        BY <1>4, <1>5, <1>8, <1>10 DEF Taken
    <2> QED
        BY <1>2, <1>3, <1>6, <1>8, <1>10, <2>1
<1> QED
    BY <1>9, <1>10 DEF h

\* A prefix that is too small is that of a message too long for it.
LEMMA SmallPrefix ==
    ASSUME TypeOK, NEW m \in MessagesSent, Frame(m).prefix < PacketHeaderSize
    PROVE  ~ Deliverable(m)
<1> DEFINE n == MessageSize(m)
<1>1. n \in Nat /\ (12 + n) % 65536 < 12
    BY Sizes DEF Frame, PacketHeaderSize, UShortRange
<1>2. Deliverable(m) => 12 + n < 65536
    BY DEF Deliverable, PacketHeaderSize, UShortRange
<1> HIDE DEF n
<1>3. 12 + n < 65536 => (12 + n) % 65536 = 12 + n
    BY <1>1
<1> QED
    BY <1>1, <1>2, <1>3

\* No foreign frame is taken.
LEMMA ForeignAreNotTaken ==
    ASSUME TypeOK, NEW f \in MalformedFrames, expecting = f.prefix,
           expecting >= PacketHeaderSize
    PROVE  ~ (PacketAccepted(f) /\ MessageAccepted(f))
<1>1. CASE f.prefix = 11
    BY <1>1 DEF PacketHeaderSize
<1>2. CASE f.prefix = 60 /\ f.payloadLength = 40
    BY <1>2 DEF PacketAccepted, PacketHeaderSize
<1>3. CASE f.prefix = 23 /\ ~ f.reply
    BY <1>3 DEF MessageAccepted, HeaderBytes, PacketHeaderSize, MessageHeaderSize
<1>4. CASE f.prefix = 25 /\ f.reply
    BY <1>4 DEF MessageAccepted, HeaderBytes, PacketHeaderSize, MessageHeaderSize,
                MessageResponseHeaderSize
<1> QED
    BY <1>1, <1>2, <1>3, <1>4 DEF MalformedFrames, PacketHeaderSize, MessageHeaderSize

\* Lengths in the future are those of now.
LEMMA SameLengths ==
    ASSUME cipherEnabled' = cipherEnabled
    PROVE  \A m : (Deliverable(m)' <=> Deliverable(m)) /\ Frame(m)' = Frame(m)
BY DEF Deliverable, Frame, MessageSize, Overhead

-----------------------------------------------------------------------------
(* The invariant *)

LEMMA InitInv == Init => IInv
<1> SUFFICES ASSUME Init PROVE IInv
    OBVIOUS
<1>1. TypeOK
    <2>1. \A S : << >> \in Seq(S)
        OBVIOUS
    <2>2. expecting \in 0 .. UShortRange - 1
        BY DEF Init, PrefixSize, UShortRange
    <2> QED
        BY <2>1, <2>2 DEF Init, TypeOK
<1>2. Len(sent) = 0 /\ Len(stream) = 0 /\ Len(delivered) = 0
    BY DEF Init
<1>3. Numbered /\ Foreign /\ InOrder /\ DeliveredAsSent
    BY <1>2 DEF Numbered, Foreign, InOrder, AllOurs, DeliveredAsSent
<1> QED
    BY <1>1, <1>3 DEF Init, IInv, InStep, Caused

\* A message is sent.
LEMMA SendStep ==
    ASSUME IInv, NEW reply \in BOOLEAN, NEW length \in PlainLengths, SendAsync(reply, length)
    PROVE  IInv'
<1> DEFINE m == [number |-> Len(sent) + 1, reply |-> reply, length |-> length]
<1>1. TypeOK /\ Numbered /\ Foreign /\ InOrder /\ InStep /\ Caused /\ DeliveredAsSent
    BY DEF IInv
<1>2. /\ Len(sent) < MaxSent /\ sent' = Append(sent, m) /\ stream' = Append(stream, Frame(m))
      /\ UNCHANGED << cipherEnabled, receivingPrefix, expecting, recv, shortRead, delivered >>
    BY DEF SendAsync
<1>3. /\ sent \in Seq(MessagesSent) /\ stream \in Seq(Frames)
      /\ delivered \in Seq([number : 0 .. MaxSent, reply : BOOLEAN, length : Nat])
    BY <1>1 DEF TypeOK
<1>4. m \in MessagesSent /\ m.number = Len(sent) + 1
    BY <1>2, <1>3, MaxSentIsNatural DEF MessagesSent
<1>5. Frame(m) \in Frames /\ Frame(m).number # 0
    BY <1>1, <1>4, FramesAre
<1> HIDE DEF m
<1>6. /\ Len(sent) \in Nat /\ Len(stream) \in Nat /\ Len(delivered) \in Nat
      /\ sent' \in Seq(MessagesSent) /\ stream' \in Seq(Frames)
      /\ Len(sent') = Len(sent) + 1 /\ Len(stream') = Len(stream) + 1
      /\ sent'[Len(sent) + 1] = m /\ stream'[Len(stream) + 1] = Frame(m)
      /\ \A i \in 1 .. Len(sent) : sent'[i] = sent[i]
      /\ \A i \in 1 .. Len(stream) : stream'[i] = stream[i]
    BY <1>2, <1>3, <1>4, <1>5
<1>7. TypeOK'
    BY <1>1, <1>2, <1>6 DEF TypeOK
<1>8. Numbered' /\ Foreign'
    BY <1>1, <1>4, <1>5, <1>6 DEF Numbered, Foreign
<1>9. InOrder'
    <2>1. ASSUME NEW i \in 1 .. Len(stream'), OursUpTo(i)'
          PROVE  Len(delivered') + i <= Len(sent') /\ stream'[i] = Frame(sent'[Len(delivered') + i])
        <3>1. CASE i <= Len(stream)
            <4>1. i \in 1 .. Len(stream) /\ OursUpTo(i)
                BY <1>6, <2>1, <3>1 DEF OursUpTo
            <4>2. Len(delivered) + i <= Len(sent) /\ stream[i] = Frame(sent[Len(delivered) + i])
                BY <1>1, <4>1 DEF InOrder
            <4>3. Len(delivered) + i \in 1 .. Len(sent)
                BY <1>6, <4>1, <4>2
            <4>4. sent'[Len(delivered) + i] = sent[Len(delivered) + i]
                BY <1>6, <4>3
            <4>5. Len(delivered) + i <= Len(sent')
                BY <1>6, <4>1, <4>2
            <4> QED
                BY <1>2, <1>6, <4>1, <4>2, <4>4, <4>5
        <3>2. CASE i = Len(stream) + 1
            <4>1. AllOurs
                BY <1>6, <2>1, <3>2 DEF OursUpTo, AllOurs
            <4>2. Len(delivered) + i = Len(sent) + 1
                BY <1>1, <1>6, <3>2, <4>1 DEF InOrder
            <4>3. Len(delivered) + i <= Len(sent') /\ sent'[Len(delivered) + i] = m
                BY <1>6, <4>2
            <4> QED
                BY <1>2, <1>6, <3>2, <4>3
        <3> QED
            BY <1>6, <2>1, <3>1, <3>2
    <2>2. AllOurs' => Len(delivered') + Len(stream') = Len(sent')
        <3>1. AllOurs' => AllOurs
            BY <1>6 DEF AllOurs
        <3> QED
            BY <1>1, <1>2, <1>6, <3>1 DEF InOrder
    <2>3. \A x : Frame(x)' = Frame(x)
        BY <1>2, SameLengths
    <2> QED
        BY <2>1, <2>2, <2>3 DEF InOrder
<1>10. InStep' /\ Caused'
    <2>1. stream # << >> => stream' # << >> /\ stream'[1] = stream[1]
        BY <1>3, <1>6
    <2>2. InStep'
        BY <1>1, <1>2, <2>1 DEF InStep
    <2>3. ASSUME stream # << >>, stream[1].number # 0
          PROVE  sent'[stream[1].number] = sent[stream[1].number]
        <3>1. 1 \in 1 .. Len(stream) /\ OursUpTo(1)
            BY <1>3, <2>3 DEF OursUpTo
        <3>2. Len(delivered) + 1 <= Len(sent) /\ stream[1] = Frame(sent[Len(delivered) + 1])
            BY <1>1, <3>1 DEF InOrder
        <3>3. Len(delivered) + 1 \in 1 .. Len(sent)
            BY <1>6, <3>2
        <3>4. stream[1].number = Len(delivered) + 1
            BY <1>1, <3>2, <3>3 DEF Frame, Numbered
        <3> QED
            BY <1>6, <3>3, <3>4
    <2>4. Caused'
        BY <1>1, <1>2, <2>1, <2>3, SameLengths DEF Caused
    <2> QED
        BY <2>2, <2>4
<1>11. DeliveredAsSent'
    <2> SUFFICES ASSUME NEW i \in 1 .. Len(delivered)
                 PROVE  /\ i <= Len(sent) /\ sent'[i] = sent[i]
        BY <1>1, <1>2, <1>6, SameLengths DEF DeliveredAsSent
    <2> QED
        BY <1>1, <1>6 DEF DeliveredAsSent
<1> QED
    BY <1>7, <1>8, <1>9, <1>10, <1>11 DEF IInv

\* A foreign frame comes.
LEMMA ForeignStep ==
    ASSUME IInv, NEW f \in MalformedFrames, ForeignFrame(f)
    PROVE  IInv'
<1>1. TypeOK /\ Numbered /\ Foreign /\ InOrder /\ InStep /\ Caused /\ DeliveredAsSent
    BY DEF IInv
<1>2. /\ stream' = Append(stream, f)
      /\ UNCHANGED << cipherEnabled, sent, receivingPrefix, expecting, recv, shortRead, delivered >>
    BY DEF ForeignFrame
<1>3. f \in Frames /\ f.number = 0 /\ stream \in Seq(Frames)
    BY <1>1, FramesAre DEF TypeOK
<1>4. /\ Len(stream) \in Nat /\ stream' \in Seq(Frames) /\ Len(stream') = Len(stream) + 1
      /\ stream'[Len(stream) + 1] = f
      /\ \A i \in 1 .. Len(stream) : stream'[i] = stream[i]
    BY <1>2, <1>3
<1>5. TypeOK'
    BY <1>1, <1>2, <1>4 DEF TypeOK
<1>6. Numbered' /\ Foreign'
    BY <1>1, <1>2, <1>4 DEF Numbered, Foreign
<1>7. InOrder'
    <2>1. ASSUME NEW i \in 1 .. Len(stream'), OursUpTo(i)'
          PROVE  i \in 1 .. Len(stream) /\ OursUpTo(i)
        <3>1. i # Len(stream) + 1
            BY <1>3, <1>4, <2>1 DEF OursUpTo
        <3> QED
            BY <1>4, <2>1, <3>1 DEF OursUpTo
    <2>2. ~ AllOurs'
        BY <1>3, <1>4 DEF AllOurs
    <2>3. \A x : Frame(x)' = Frame(x)
        BY <1>2, SameLengths
    <2> QED
        BY <1>1, <1>2, <1>4, <2>1, <2>2, <2>3 DEF InOrder
<1>8. InStep' /\ Caused'
    <2>1. stream # << >> => stream' # << >> /\ stream'[1] = stream[1]
        BY <1>3, <1>4
    <2> QED
        BY <1>1, <1>2, <2>1, SameLengths DEF InStep, Caused
<1>9. DeliveredAsSent'
    BY <1>1, <1>2, SameLengths DEF DeliveredAsSent
<1> QED
    BY <1>5, <1>6, <1>7, <1>8, <1>9 DEF IInv

\* The first frame of the stream is foreign or the next message.
LEMMA FirstFrame ==
    ASSUME IInv, stream # << >>
    PROVE  /\ Head(stream) = stream[1] /\ stream[1] \in Frames
           /\ stream[1].number = 0 => stream[1] \in MalformedFrames
           /\ stream[1].number # 0 =>
                  /\ Len(delivered) + 1 \in 1 .. Len(sent)
                  /\ sent[Len(delivered) + 1] \in MessagesSent
                  /\ stream[1] = Frame(sent[Len(delivered) + 1])
                  /\ stream[1].number = Len(delivered) + 1
<1>1. /\ sent \in Seq(MessagesSent) /\ stream \in Seq(Frames)
      /\ delivered \in Seq([number : 0 .. MaxSent, reply : BOOLEAN, length : Nat])
    BY DEF IInv, TypeOK
<1>2. 1 \in 1 .. Len(stream) /\ Len(delivered) \in Nat /\ Len(sent) \in Nat
    BY <1>1
<1>3. Head(stream) = stream[1] /\ stream[1] \in Frames
    BY <1>1, <1>2
<1>4. stream[1].number = 0 => stream[1] \in MalformedFrames
    BY <1>2 DEF IInv, Foreign
<1>5. ASSUME stream[1].number # 0
      PROVE  Len(delivered) + 1 <= Len(sent) /\ stream[1] = Frame(sent[Len(delivered) + 1])
    <2>1. OursUpTo(1)
        BY <1>5 DEF OursUpTo
    <2> QED
        BY <1>2, <2>1 DEF IInv, InOrder
<1>6. ASSUME stream[1].number # 0
      PROVE  sent[Len(delivered) + 1] \in MessagesSent /\ stream[1].number = Len(delivered) + 1
    <2>1. Len(delivered) + 1 \in 1 .. Len(sent)
        BY <1>2, <1>5, <1>6
    <2> QED
        BY <1>1, <1>5, <1>6, <2>1 DEF IInv, Numbered, Frame
<1> QED
    BY <1>2, <1>3, <1>4, <1>5, <1>6

\* What the messages and frames are is kept by a step that leaves them alone.
LEMMA QuietStep ==
    ASSUME IInv, UNCHANGED << cipherEnabled, sent, stream, delivered >>
    PROVE  Numbered' /\ Foreign' /\ InOrder' /\ DeliveredAsSent'
<1>1. \A x : (Deliverable(x)' <=> Deliverable(x)) /\ Frame(x)' = Frame(x)
    BY SameLengths
<1>2. Numbered' /\ Foreign'
    BY DEF IInv, Numbered, Foreign
<1>3. InOrder'
    BY <1>1 DEF IInv, InOrder, OursUpTo, AllOurs
<1>4. DeliveredAsSent'
    BY <1>1 DEF IInv, DeliveredAsSent
<1> QED
    BY <1>2, <1>3, <1>4

\* The receive task faults at a frame that is reason enough.
LEMMA FaultStep ==
    ASSUME IInv, Fault, stream # << >>,
           \/ shortRead'
           \/ UNCHANGED shortRead /\ stream[1].number = 0
           \/ UNCHANGED shortRead /\ ~ Deliverable(sent[stream[1].number])
    PROVE  shortRead' \in BOOLEAN => IInv'
<1>1. \A x : Deliverable(x)' <=> Deliverable(x)
    BY SameLengths DEF Fault
<1>2. Numbered' /\ Foreign' /\ InOrder' /\ DeliveredAsSent'
    BY QuietStep DEF Fault
<1>3. shortRead' \in BOOLEAN => TypeOK'
    BY DEF IInv, TypeOK, Fault
<1>4. InStep'
    BY DEF IInv, InStep, Fault
<1>5. Caused'
    BY <1>1 DEF Caused, Fault
<1> QED
    BY <1>2, <1>3, <1>4, <1>5 DEF IInv

\* A read returns too little.
LEMMA TooLittleStep == IInv /\ ReadTooLittle => IInv'
BY FaultStep DEF ReadTooLittle, Reading

\* The prefix of the first frame is read.
LEMMA PrefixStep ==
    ASSUME IInv, ReadPrefix
    PROVE  IInv'
<1> DEFINE m == sent[Len(delivered) + 1]
<1>1. stream # << >> /\ recv = "reading" /\ receivingPrefix /\ UNCHANGED shortRead
    BY DEF ReadPrefix, Reading
<1>2. TypeOK
    BY DEF IInv
<1>3. /\ Head(stream) = stream[1] /\ stream[1] \in Frames
      /\ stream[1].number # 0 =>
             m \in MessagesSent /\ stream[1] = Frame(m) /\ m = sent[stream[1].number]
    BY <1>1, FirstFrame
<1>4. CASE stream[1].prefix < PacketHeaderSize /\ Fault
    <2>1. stream[1].number # 0 => ~ Deliverable(sent[stream[1].number])
        BY <1>2, <1>3, <1>4, SmallPrefix
    <2>2. shortRead' \in BOOLEAN
        BY <1>1, <1>2 DEF TypeOK
    <2> QED
        BY <1>1, <1>4, <2>1, <2>2, FaultStep
<1>5. CASE /\ stream[1].prefix >= PacketHeaderSize
           /\ expecting' = stream[1].prefix
           /\ receivingPrefix' = FALSE
           /\ UNCHANGED << cipherEnabled, sent, stream, recv, delivered >>
    <2>1. TypeOK'
        <3>1. expecting' \in 0 .. UShortRange - 1
            BY <1>3, <1>5 DEF Frames
        <3> QED
            BY <1>1, <1>2, <1>5, <3>1 DEF TypeOK
    <2>2. Numbered' /\ Foreign' /\ InOrder' /\ DeliveredAsSent'
        BY <1>5, QuietStep
    <2>3. InStep'
        BY <1>1, <1>5 DEF InStep
    <2>4. Caused'
        BY <1>1, <1>5 DEF Caused
    <2> QED
        BY <2>1, <2>2, <2>3, <2>4 DEF IInv
<1> QED
    BY <1>3, <1>4, <1>5 DEF ReadPrefix

\* The body of the first frame is read and taken.
LEMMA DeliverStep ==
    ASSUME IInv, ReadBody, PacketAccepted(stream[1]), MessageAccepted(stream[1]),
           NEW d, d = [number |-> stream[1].number, reply |-> stream[1].reply,
                       length |-> Taken(stream[1])],
           delivered' = Append(delivered, d), stream' = Tail(stream),
           ResetExpecting, UNCHANGED << cipherEnabled, sent, recv >>
    PROVE  /\ IInv'
           /\ Len(delivered) < Len(sent)
           /\ d.number = Len(delivered) + 1
<1> DEFINE m == sent[Len(delivered) + 1]
<1>1. /\ TypeOK /\ Numbered /\ Foreign /\ InOrder /\ InStep /\ DeliveredAsSent
      /\ stream # << >> /\ recv = "reading" /\ ~ receivingPrefix /\ UNCHANGED shortRead
    BY DEF IInv, ReadBody, Reading
<1>2. expecting = stream[1].prefix /\ expecting >= PacketHeaderSize
    BY <1>1 DEF InStep
<1>3. stream[1].number # 0
    BY <1>1, <1>2, FirstFrame, ForeignAreNotTaken
<1>4. /\ m \in MessagesSent /\ stream[1] = Frame(m) /\ stream[1].number = Len(delivered) + 1
      /\ Len(delivered) + 1 \in 1 .. Len(sent)
    BY <1>1, <1>3, FirstFrame
<1>5. /\ Deliverable(m)
      /\ \/ Taken(stream[1]) = m.length
         \/ /\ ~ cipherEnabled /\ m.length = HeaderBytes(m.reply)
            /\ Taken(stream[1]) = 0
    BY <1>1, <1>2, <1>4, OursAreTaken
<1>6. m.length \in Nat /\ m.reply \in BOOLEAN /\ m.number \in 1 .. MaxSent
    BY <1>1, <1>4, Sizes
<1>7. stream[1].reply = m.reply /\ stream[1].number = m.number
    BY <1>4 DEF Frame
<1> HIDE DEF m
<1>8. /\ d.number = Len(delivered) + 1 /\ d.reply = m.reply /\ d.length = Taken(stream[1])
      /\ d \in [number : 0 .. MaxSent, reply : BOOLEAN, length : Nat]
    <2>1. Taken(stream[1]) \in Nat /\ stream[1].number \in 0 .. MaxSent
        BY <1>5, <1>6, <1>7, MaxSentIsNatural
    <2> QED
        BY <1>4, <1>6, <1>7, <2>1
<1>9. /\ sent \in Seq(MessagesSent) /\ stream \in Seq(Frames)
      /\ delivered \in Seq([number : 0 .. MaxSent, reply : BOOLEAN, length : Nat])
    BY <1>1 DEF TypeOK
<1>10. /\ Len(delivered) \in Nat /\ Len(delivered') = Len(delivered) + 1
       /\ delivered' \in Seq([number : 0 .. MaxSent, reply : BOOLEAN, length : Nat])
       /\ delivered'[Len(delivered) + 1] = d
       /\ \A i \in 1 .. Len(delivered) : delivered'[i] = delivered[i]
    BY <1>8, <1>9
<1>11. /\ Len(stream) \in Nat \ {0} /\ Len(stream') = Len(stream) - 1
       /\ stream' \in Seq(Frames) /\ Len(sent) \in Nat
       /\ \A i \in 1 .. Len(stream') : stream'[i] = stream[i + 1]
    BY <1>1, <1>9, HeadTailProperties
<1>12. TypeOK'
    <2>1. expecting' \in 0 .. UShortRange - 1 /\ receivingPrefix' = TRUE
        BY DEF ResetExpecting, PrefixSize, UShortRange
    <2> QED
        BY <1>1, <1>10, <1>11, <2>1 DEF TypeOK
<1>13. Numbered' /\ Foreign'
    <2>1. Numbered'
        BY <1>1 DEF Numbered
    <2>2. Foreign'
        BY <1>1, <1>11 DEF Foreign
    <2> QED
        BY <2>1, <2>2
<1>14. \A x : (Deliverable(x)' <=> Deliverable(x)) /\ Frame(x)' = Frame(x)
    BY SameLengths
<1>15. InOrder'
    <2>1. ASSUME NEW i \in 1 .. Len(stream'), OursUpTo(i)'
          PROVE  Len(delivered') + i <= Len(sent) /\ stream'[i] = Frame(sent[Len(delivered') + i])
        <3>1. i + 1 \in 1 .. Len(stream) /\ stream'[i] = stream[i + 1]
            BY <1>11
        <3>2. OursUpTo(i + 1)
            <4> SUFFICES ASSUME NEW j \in 1 .. i + 1
                         PROVE  stream[j].number # 0
                BY DEF OursUpTo
            <4>1. CASE j = 1
                BY <1>3, <4>1
            <4>2. CASE j # 1
                <5>1. j - 1 \in 1 .. i /\ j - 1 \in 1 .. Len(stream') /\ (j - 1) + 1 = j
                    BY <1>11, <4>2
                <5>2. stream'[j - 1].number # 0 /\ stream'[j - 1] = stream[j]
                    BY <1>11, <2>1, <5>1 DEF OursUpTo
                <5> QED
                    BY <5>2
            <4> QED
                BY <4>1, <4>2
        <3>3. Len(delivered) + (i + 1) <= Len(sent) /\ stream[i + 1] = Frame(sent[Len(delivered) + (i + 1)])
            BY <1>1, <3>1, <3>2 DEF InOrder
        <3>4. Len(delivered') + i = Len(delivered) + (i + 1)
            BY <1>10, <1>11
        <3> QED
            BY <3>1, <3>3, <3>4
    <2>2. AllOurs' => Len(delivered') + Len(stream') = Len(sent)
        <3>1. ASSUME AllOurs', NEW j \in 1 .. Len(stream)
              PROVE  stream[j].number # 0
            <4>1. CASE j = 1
                BY <1>3, <4>1
            <4>2. CASE j # 1
                <5>1. j - 1 \in 1 .. Len(stream') /\ (j - 1) + 1 = j
                    BY <1>11, <4>2
                <5>2. stream'[j - 1].number # 0 /\ stream'[j - 1] = stream[j]
                    BY <1>11, <3>1, <5>1 DEF AllOurs
                <5> QED
                    BY <5>2
            <4> QED
                BY <4>1, <4>2
        <3>2. AllOurs' => AllOurs
            BY <3>1 DEF AllOurs
        <3> QED
            BY <1>1, <1>10, <1>11, <3>2 DEF InOrder
    <2> QED
        BY <1>14, <2>1, <2>2 DEF InOrder
<1>16. InStep' /\ Caused'
    BY <1>1 DEF InStep, Caused, ResetExpecting
<1>17. DeliveredAsSent'
    <2> SUFFICES ASSUME NEW i \in 1 .. Len(delivered')
                 PROVE  /\ i <= Len(sent) /\ Deliverable(sent[i])
                        /\ delivered'[i].number = i /\ delivered'[i].reply = sent[i].reply
                        /\ \/ delivered'[i].length = sent[i].length
                           \/ /\ ~ cipherEnabled
                              /\ sent[i].length = HeaderBytes(sent[i].reply)
                              /\ delivered'[i].length = 0
        BY <1>14 DEF DeliveredAsSent
    <2>1. CASE i \in 1 .. Len(delivered)
        BY <1>1, <1>10, <2>1 DEF DeliveredAsSent
    <2>2. CASE i = Len(delivered) + 1
        BY <1>4, <1>5, <1>8, <1>10, <2>2 DEF m
    <2> QED
        BY <1>10, <2>1, <2>2
<1>18. Len(delivered) < Len(sent)
    BY <1>4, <1>10
<1> QED
    BY <1>8, <1>12, <1>13, <1>15, <1>16, <1>17, <1>18 DEF IInv

\* The two ways a body is read.
LEMMA BodyCases ==
    ASSUME IInv, ReadBody
    PROVE  \/ /\ ~ (PacketAccepted(stream[1]) /\ MessageAccepted(stream[1]))
              /\ Fault
           \/ /\ PacketAccepted(stream[1]) /\ MessageAccepted(stream[1])
              /\ delivered' = Append(delivered,
                     [number |-> stream[1].number, reply |-> stream[1].reply,
                      length |-> Taken(stream[1])])
              /\ stream' = Tail(stream)
              /\ ResetExpecting
              /\ UNCHANGED << cipherEnabled, sent, recv >>
<1>1. Head(stream) = stream[1]
    BY FirstFrame DEF ReadBody, Reading
<1> QED
    BY <1>1 DEF ReadBody, Taken

\* The body of the first frame is read.
LEMMA BodyStep ==
    ASSUME IInv, ReadBody
    PROVE  IInv'
<1> DEFINE f == stream[1]
<1>1. CASE ~ (PacketAccepted(f) /\ MessageAccepted(f)) /\ Fault
    <2>1. /\ TypeOK /\ stream # << >> /\ UNCHANGED shortRead
          /\ expecting = f.prefix /\ expecting >= PacketHeaderSize
        BY DEF IInv, InStep, ReadBody, Reading
    <2>2. f.number # 0 => ~ Deliverable(sent[f.number])
        BY <1>1, <2>1, FirstFrame, OursAreTaken
    <2>3. shortRead' \in BOOLEAN
        BY <2>1 DEF TypeOK
    <2> QED
        BY <1>1, <2>1, <2>2, <2>3, FaultStep
<1>2. CASE /\ PacketAccepted(f) /\ MessageAccepted(f)
           /\ delivered' = Append(delivered, [number |-> f.number, reply |-> f.reply, length |-> Taken(f)])
           /\ stream' = Tail(stream)
           /\ ResetExpecting
           /\ UNCHANGED << cipherEnabled, sent, recv >>
    BY <1>2, DeliverStep
<1> QED
    BY <1>1, <1>2, BodyCases

\* The receive loop ends.
LEMMA EndStep == IInv /\ ReceiveEnds => IInv'
<1> SUFFICES ASSUME IInv, ReceiveEnds PROVE IInv'
    OBVIOUS
<1>1. UNCHANGED << cipherEnabled, sent, stream, delivered >> /\ recv' = "ended"
    BY DEF ReceiveEnds
<1>2. Numbered' /\ Foreign' /\ InOrder' /\ DeliveredAsSent'
    BY <1>1, QuietStep
<1>3. TypeOK' /\ InStep' /\ Caused'
    BY <1>1 DEF IInv, TypeOK, InStep, Caused, ReceiveEnds
<1> QED
    BY <1>2, <1>3 DEF IInv

LEMMA NextInv == IInv /\ [Next]_vars => IInv'
<1> SUFFICES ASSUME IInv, [Next]_vars PROVE IInv'
    OBVIOUS
<1>1. CASE UNCHANGED vars
    <2>1. Numbered' /\ Foreign' /\ InOrder' /\ DeliveredAsSent'
        BY <1>1, QuietStep DEF vars
    <2>2. \A x : Deliverable(x)' <=> Deliverable(x)
        BY <1>1, SameLengths DEF vars
    <2>3. TypeOK' /\ InStep' /\ Caused'
        BY <1>1, <2>2 DEF IInv, TypeOK, InStep, Caused, vars
    <2> QED
        BY <2>1, <2>3 DEF IInv
<1> QED
    BY <1>1, SendStep, ForeignStep, TooLittleStep, PrefixStep, BodyStep, EndStep DEF Next

\* SvfwChannel: its variables keep their types, whatever is sent and received.
THEOREM TypeCorrect == Spec => []TypeOK
<1>1. IInv => TypeOK
    BY DEF IInv
<1> QED
    BY <1>1, InitInv, NextInv, PTL DEF Spec

\* SVFWMessageClient and SVFWPacketClient: what the handler is given is what was sent,
\* in order, none lost, cut short or made up.
THEOREM NothingIsLostOrMadeUp == Spec => []DeliveredAsSent
<1>1. IInv => DeliveredAsSent
    BY DEF IInv
<1> QED
    BY <1>1, InitInv, NextInv, PTL DEF Spec

\* SVFWPacketClient.OnReceived throws only for a short read, for a frame that is none of
\* ours, or for a message of ours that cannot be delivered.
THEOREM FaultsHaveCauses == Spec => []FaultHasCause
<1>1. IInv => FaultHasCause
    BY FirstFrame DEF IInv, Caused, FaultHasCause
<1> QED
    BY <1>1, InitInv, NextInv, PTL DEF Spec

-----------------------------------------------------------------------------
(* The refinement *)

Numbers(q) == [i \in 1 .. Len(q) |-> q[i].number]

\* Numbers of a longer sequence.
LEMMA NumbersGrow ==
    ASSUME NEW S, \A r \in S : r.number \in Nat, NEW q \in Seq(S), NEW e \in S
    PROVE  /\ Numbers(q) \in Seq(Nat) /\ Len(Numbers(q)) = Len(q)
           /\ \A i \in 1 .. Len(q) : Numbers(q)[i] = q[i].number
           /\ Numbers(Append(q, e)) = Append(Numbers(q), e.number)
<1>1. ASSUME NEW p \in Seq(S)
      PROVE  /\ Numbers(p) \in Seq(Nat) /\ Len(Numbers(p)) = Len(p)
             /\ \A i \in 1 .. Len(p) : Numbers(p)[i] = p[i].number
    <2>1. Len(p) \in Nat /\ \A i \in 1 .. Len(p) : p[i] \in S
        OBVIOUS
    <2>2. Numbers(p) \in [1 .. Len(p) -> Nat]
        BY <2>1 DEF Numbers
    <2>3. Numbers(p) \in Seq(Nat)
        BY <2>1, <2>2, SeqDef
    <2>4. Len(Numbers(p)) = Len(p)
        <3>1. 1 .. Len(Numbers(p)) = 1 .. Len(p) /\ Len(Numbers(p)) \in Nat
            BY <2>2, <2>3, LenProperties
        <3> QED
            BY <2>1, <3>1
    <2> QED
        BY <2>3, <2>4 DEF Numbers
<1> DEFINE longer == Append(q, e)
<1>2. /\ longer \in Seq(S) /\ Len(longer) = Len(q) + 1 /\ longer[Len(q) + 1] = e
      /\ Len(q) \in Nat /\ \A i \in 1 .. Len(q) : longer[i] = q[i]
    OBVIOUS
<1> HIDE DEF longer
<1>3. Numbers(longer) = Append(Numbers(q), e.number)
    <2> DEFINE l == Numbers(longer)
               n == Numbers(q)
               r == Append(n, e.number)
    <2>1. n \in Seq(Nat) /\ Len(n) = Len(q) /\ e.number \in Nat
        BY <1>1
    <2>2. l \in Seq(Nat) /\ Len(l) = Len(q) + 1
        BY <1>1, <1>2
    <2>3. \A i \in 1 .. Len(q) + 1 : l[i] = longer[i].number
        BY <1>1, <1>2
    <2>4. \A i \in 1 .. Len(q) : n[i] = q[i].number
        BY <1>1
    <2> HIDE DEF l, n
    <2>5. /\ r \in Seq(Nat) /\ Len(r) = Len(q) + 1 /\ r[Len(q) + 1] = e.number
          /\ \A i \in 1 .. Len(q) : r[i] = n[i]
        BY <2>1
    <2> HIDE DEF r
    <2>6. ASSUME NEW i \in 1 .. Len(l) PROVE l[i] = r[i]
        <3>1. CASE i \in 1 .. Len(q)
            <4>1. i \in 1 .. Len(q) + 1
                BY <2>2
            <4>2. l[i] = longer[i].number /\ r[i] = q[i].number /\ longer[i] = q[i]
                BY <1>2, <2>3, <2>4, <2>5, <3>1, <4>1
            <4> QED
                BY <4>2
        <3>2. CASE i = Len(q) + 1
            <4>1. i \in 1 .. Len(q) + 1
                BY <2>2
            <4>2. l[i] = longer[i].number /\ r[i] = e.number /\ longer[i] = e
                BY <1>2, <2>3, <2>5, <3>2, <4>1
            <4> QED
                BY <4>2
        <3> QED
            BY <1>2, <2>2, <3>1, <3>2
    <2> QED
        BY <2>2, <2>5, <2>6, SeqEqual DEF l, n, r
<1> QED
    BY <1>1, <1>3 DEF longer

LEMMA FifoInitially == Init => Fifo!FifoInit
<1> SUFFICES ASSUME Init PROVE Fifo!FifoInit
    OBVIOUS
<1>1. \A q : q = << >> => [i \in 1 .. Len(q) |-> q[i].number] = << >>
    OBVIOUS
<1> QED
    BY <1>1 DEF Init, Fifo!FifoInit

\* Sending a message is Post.
LEMMA SendIsPost ==
    ASSUME IInv, NEW reply \in BOOLEAN, NEW length \in PlainLengths, SendAsync(reply, length)
    PROVE  Fifo!Post
<1> DEFINE m == [number |-> Len(sent) + 1, reply |-> reply, length |-> length]
<1>1. /\ Len(sent) < MaxSent /\ sent' = Append(sent, m)
      /\ UNCHANGED << recv, delivered >>
    BY DEF SendAsync
<1>2. sent \in Seq(MessagesSent)
    BY DEF IInv, TypeOK
<1>3. m \in MessagesSent /\ m.number = Len(sent) + 1
    BY <1>1, <1>2, MaxSentIsNatural DEF MessagesSent
<1>4. \A r \in MessagesSent : r.number \in Nat
    BY MaxSentIsNatural DEF MessagesSent
<1> HIDE DEF m
<1>5. /\ Len(Numbers(sent)) = Len(sent)
      /\ Numbers(Append(sent, m)) = Append(Numbers(sent), Len(sent) + 1)
    BY <1>2, <1>3, <1>4, NumbersGrow
<1>6. Numbers(sent)' = Append(Numbers(sent), Len(Numbers(sent)) + 1)
    BY <1>1, <1>5 DEF Numbers
<1> QED
    BY <1>1, <1>6 DEF Fifo!Post, Numbers

\* A body that is taken is HandleNext.
LEMMA DeliverIsHandle ==
    ASSUME IInv, ReadBody, PacketAccepted(stream[1]), MessageAccepted(stream[1]),
           delivered' = Append(delivered,
               [number |-> stream[1].number, reply |-> stream[1].reply,
                length |-> Taken(stream[1])]),
           stream' = Tail(stream), ResetExpecting, UNCHANGED << cipherEnabled, sent, recv >>
    PROVE  Fifo!HandleNext
<1> DEFINE D == [number : 0 .. MaxSent, reply : BOOLEAN, length : Nat]
<1>1. PICK d : d = [number |-> stream[1].number, reply |-> stream[1].reply,
                    length |-> Taken(stream[1])]
    OBVIOUS
<1>2. IInv' /\ Len(delivered) < Len(sent) /\ d.number = Len(delivered) + 1
    BY <1>1, DeliverStep
<1>3. /\ sent \in Seq(MessagesSent) /\ delivered \in Seq(D) /\ delivered' \in Seq(D)
      /\ delivered' = Append(delivered, d)
    BY <1>1, <1>2 DEF IInv, TypeOK
<1>4. d \in D
    <2>1. PICK n \in Nat : n = Len(delivered)
        BY <1>3
    <2>2. stream # << >> /\ stream[1] \in Frames
        BY FirstFrame DEF ReadBody, Reading
    <2>3. delivered'[Len(delivered) + 1] = d /\ Len(delivered') = Len(delivered) + 1
        BY <1>3 DEF D
    <2> QED
        BY <1>3, <2>1, <2>3
<1>5. /\ \A r \in MessagesSent : r.number \in Nat
      /\ \A r \in D : r.number \in Nat
    BY MaxSentIsNatural DEF MessagesSent
<1> HIDE DEF D
<1>6. /\ Len(Numbers(delivered)) = Len(delivered)
      /\ Numbers(Append(delivered, d)) = Append(Numbers(delivered), d.number)
    BY <1>3, <1>4, <1>5, NumbersGrow
<1>7. Len(delivered) + 1 \in 1 .. Len(sent) /\ Len(sent) \in Nat
    BY <1>2, <1>3
<1>8. /\ Len(Numbers(sent)) = Len(sent)
      /\ Numbers(sent)[Len(delivered) + 1] = Len(delivered) + 1
    <2>1. PICK m \in MessagesSent : m = sent[1]
        BY <1>3, <1>7
    <2>2. /\ Len(Numbers(sent)) = Len(sent)
          /\ \A i \in 1 .. Len(sent) : Numbers(sent)[i] = sent[i].number
        BY <1>3, <1>5, <2>1, NumbersGrow
    <2> QED
        BY <1>7, <2>2 DEF IInv, Numbered
<1>9. Numbers(delivered)' = Append(Numbers(delivered), Numbers(sent)[Len(Numbers(delivered)) + 1])
    BY <1>2, <1>3, <1>6, <1>8 DEF Numbers
<1>10. Len(Numbers(delivered)) < Len(Numbers(sent)) /\ recv = "reading"
    BY <1>2, <1>6, <1>8 DEF ReadBody, Reading
<1> QED
    BY <1>9, <1>10 DEF Fifo!HandleNext, Numbers

LEMMA StepIsFifoStep == IInv /\ [Next]_vars => [Fifo!FifoNext]_Fifo!fifoVars
<1> SUFFICES ASSUME IInv, [Next]_vars PROVE [Fifo!FifoNext]_Fifo!fifoVars
    OBVIOUS
<1>1. ASSUME UNCHANGED << sent, delivered, recv >> PROVE UNCHANGED Fifo!fifoVars
    BY <1>1 DEF Fifo!fifoVars
<1>2. ASSUME UNCHANGED << sent, delivered >>, recv' # "reading" PROVE Fifo!Break
    BY <1>2 DEF Fifo!Break
<1>3. CASE UNCHANGED vars
    BY <1>1, <1>3 DEF vars
<1>4. ASSUME NEW reply \in BOOLEAN, NEW length \in PlainLengths, SendAsync(reply, length)
      PROVE  Fifo!FifoNext
    BY <1>4, SendIsPost DEF Fifo!FifoNext
<1>5. ASSUME NEW f \in MalformedFrames, ForeignFrame(f) PROVE UNCHANGED Fifo!fifoVars
    BY <1>1, <1>5 DEF ForeignFrame
<1>6. CASE ReadTooLittle
    BY <1>2, <1>6 DEF ReadTooLittle, Fault, Fifo!FifoNext
<1>7. CASE ReadPrefix
    <2>1. CASE Fault
        BY <1>2, <2>1 DEF Fault, Fifo!FifoNext
    <2>2. CASE UNCHANGED << cipherEnabled, sent, stream, recv, delivered >>
        BY <1>1, <2>2
    <2> QED
        BY <1>7, <2>1, <2>2 DEF ReadPrefix
<1>8. CASE ReadBody
    <2>1. CASE Fault
        BY <1>2, <2>1 DEF Fault, Fifo!FifoNext
    <2>2. ASSUME ~ Fault PROVE Fifo!FifoNext
        BY <1>8, <2>2, BodyCases, DeliverIsHandle DEF Fifo!FifoNext
    <2> QED
        BY <2>1, <2>2
<1>9. CASE ReceiveEnds
    BY <1>2, <1>9 DEF ReceiveEnds, Fifo!FifoNext
<1> QED
    BY <1>3, <1>4, <1>5, <1>6, <1>7, <1>8, <1>9 DEF Next

\* SVFWMessageClient over SVFWPacketClient is the channel MessageFifo describes: every
\* message once, in the order sent, and none after the receiver has given up.
THEOREM ChannelImplementsFifo == Spec => ImplementsFifo
BY InitInv, NextInv, FifoInitially, StepIsFifoStep, PTL DEF Spec, ImplementsFifo, Fifo!FifoSpec

=============================================================================
