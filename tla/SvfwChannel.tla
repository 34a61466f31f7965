---------------------------- MODULE SvfwChannel ----------------------------
(***************************************************************************)
(* One direction of a connection: SVFWMessageClient and SVFWPacketClient   *)
(* on both ends of a TCP stream.  The sender writes a two byte length, a   *)
(* packet header, a message header and the payload.  The receiver asks its *)
(* socket for the prefix, then for the body, and takes a read that returns *)
(* less than it asked for as an error.  Lengths are counted in bytes as in *)
(* the code; contents are abstracted to the message's number.              *)
(***************************************************************************)
EXTENDS Naturals, Sequences

CONSTANTS PlainLengths,  \* payload lengths of the messages sent
          MaxSent        \* bound: how many messages are sent

ASSUME LengthsAreNaturals == PlainLengths \subseteq Nat
ASSUME MaxSentIsNatural == MaxSent \in Nat

VARIABLES
    cipherEnabled,    \* both ends encrypt (CWC), or neither does
    sent,             \* the messages sent, oldest first
    stream,           \* the frames not yet taken whole from the stream
    receivingPrefix,  \* ReceivingPrefix
    expecting,        \* ExpectingCount: how much the next read asks for
    recv,             \* receive task: "reading", "ended" or "faulted"
    shortRead,        \* history: a read returned less than was asked for
    delivered         \* the messages given to the handler

vars == << cipherEnabled, sent, stream, receivingPrefix, expecting, recv,
           shortRead, delivered >>

-----------------------------------------------------------------------------
(* Lengths *)

PrefixSize == 2
PacketHeaderSize == 12
MessageHeaderSize == 12
MessageResponseHeaderSize == 16
CwcOverhead == 11 + 16           \* initialisation vector and tag
UShortRange == 65536

\* The bytes in front of a message's payload.
HeaderBytes(reply) ==
    MessageHeaderSize + (IF reply THEN MessageResponseHeaderSize ELSE 0)

Overhead == IF cipherEnabled THEN CwcOverhead ELSE 0

\* What a message occupies inside its packet.
MessageSize(m) == HeaderBytes(m.reply) + m.length + Overhead

MessagesSent == [number : 1 .. MaxSent, reply : BOOLEAN, length : PlainLengths]

\* SVFWPacketClient.SendAsync: the prefix is cut to sixteen bits, the length in
\* the packet header is not.
Frame(m) ==
    [prefix |-> (PacketHeaderSize + MessageSize(m)) % UShortRange,
     payloadLength |-> MessageSize(m),
     reply |-> m.reply,
     number |-> m.number]

\* What a peer that is not this code may send; number 0 marks it.
MalformedFrames ==
    { [prefix |-> PacketHeaderSize - 1, payloadLength |-> 0, reply |-> FALSE, number |-> 0],
      [prefix |-> 60, payloadLength |-> 40, reply |-> FALSE, number |-> 0],
      [prefix |-> PacketHeaderSize + MessageHeaderSize - 1,
       payloadLength |-> MessageHeaderSize - 1, reply |-> FALSE, number |-> 0],
      [prefix |-> PacketHeaderSize + MessageHeaderSize + 1,
       payloadLength |-> MessageHeaderSize + 1, reply |-> TRUE, number |-> 0] }

Frames == [prefix : 0 .. UShortRange - 1, payloadLength : Nat, reply : BOOLEAN,
           number : 0 .. MaxSent]

-----------------------------------------------------------------------------
Init ==
    /\ cipherEnabled \in BOOLEAN
    /\ sent = << >>
    /\ stream = << >>
    /\ receivingPrefix = TRUE
    /\ expecting = PrefixSize
    /\ recv = "reading"
    /\ shortRead = FALSE
    /\ delivered = << >>

\* Faulty variant: the write is never started.
SendAsync_NotStarted(reply, length) ==
    /\ Len(sent) < MaxSent
    /\ sent' = Append(sent, [number |-> Len(sent) + 1, reply |-> reply, length |-> length])
    /\ UNCHANGED << cipherEnabled, stream, receivingPrefix, expecting, recv, shortRead, delivered >>

SendAsync(reply, length) ==
    LET m == [number |-> Len(sent) + 1, reply |-> reply, length |-> length]
    IN  /\ Len(sent) < MaxSent
        /\ sent' = Append(sent, m)
        /\ stream' = Append(stream, Frame(m))
        /\ UNCHANGED << cipherEnabled, receivingPrefix, expecting, recv, shortRead, delivered >>

\* Bound: a stream holds at most MaxSent frames when a foreign one is added.
ForeignFrame(f) ==
    /\ Len(stream) < MaxSent
    /\ stream' = Append(stream, f)
    /\ UNCHANGED << cipherEnabled, sent, receivingPrefix, expecting, recv, shortRead, delivered >>

\* An exception leaves OnReceived and faults the receive task.
Fault ==
    /\ recv' = "faulted"
    /\ UNCHANGED << cipherEnabled, sent, stream, receivingPrefix, expecting, delivered >>

Reading == recv = "reading" /\ stream # << >>

\* TCP hands over part of what was asked for: OnReceived throws.
ReadTooLittle ==
    /\ Reading
    /\ shortRead' = TRUE
    /\ Fault

ReadPrefix ==
    /\ Reading
    /\ receivingPrefix
    /\ UNCHANGED shortRead
    /\ LET packetLength == Head(stream).prefix
       IN  \/ packetLength < PacketHeaderSize /\ Fault
           \/ /\ packetLength >= PacketHeaderSize
              /\ expecting' = packetLength
              /\ receivingPrefix' = FALSE
              /\ UNCHANGED << cipherEnabled, sent, stream, recv, delivered >>

\* SVFWMessageClient.Read: what is behind the headers, except that a payload as
\* long as the headers in front of it is taken for an empty one.
PayloadBehind(reply, size) ==
    LET length == size - HeaderBytes(reply)
    IN  IF length = HeaderBytes(reply) THEN 0 ELSE length

\* Faulty variants: the body is not compared with the length in the header, or
\* a message is not looked at for its headers.
PacketAccepted_Unchecked(f) == TRUE
MessageAccepted_Unchecked(f) == TRUE

\* The packet, the message and the cipher find nothing wrong with the body.
PacketAccepted(f) == expecting - PacketHeaderSize = f.payloadLength
MessageAccepted(f) ==
    LET size == expecting - PacketHeaderSize
    IN  /\ size >= HeaderBytes(f.reply)
        /\ cipherEnabled => PayloadBehind(f.reply, size) > CwcOverhead

\* Faulty variant: the next read asks for the body's length again.
ResetExpecting_Forgotten == UNCHANGED << expecting, receivingPrefix >>
ResetExpecting == expecting' = PrefixSize /\ receivingPrefix' = TRUE

ReadBody ==
    /\ Reading
    /\ ~receivingPrefix
    /\ UNCHANGED shortRead
    /\ LET f == Head(stream)
           size == expecting - PacketHeaderSize
       IN  \/ ~(PacketAccepted(f) /\ MessageAccepted(f)) /\ Fault
           \/ /\ PacketAccepted(f) /\ MessageAccepted(f)
              /\ delivered' = Append(delivered,
                     [number |-> f.number, reply |-> f.reply,
                      length |-> PayloadBehind(f.reply, size) - Overhead])
              /\ stream' = Tail(stream)
              /\ ResetExpecting
              /\ UNCHANGED << cipherEnabled, sent, recv >>

\* The connection is lost or timed out: the receive loop breaks.
ReceiveEnds ==
    /\ recv = "reading"
    /\ recv' = "ended"
    /\ UNCHANGED << cipherEnabled, sent, stream, receivingPrefix, expecting, shortRead, delivered >>

Next ==
    \/ \E reply \in BOOLEAN, length \in PlainLengths : SendAsync(reply, length)
    \/ \E f \in MalformedFrames : ForeignFrame(f)
    \/ ReadTooLittle
    \/ ReadPrefix
    \/ ReadBody
    \/ ReceiveEnds

\* Bytes that were written arrive, and the loop reads what has arrived.
Fairness == WF_vars(ReadPrefix) /\ WF_vars(ReadBody)

Spec == Init /\ [][Next]_vars /\ Fairness

-----------------------------------------------------------------------------
(* Properties *)

\* The type of every variable of the channel.
TypeOK ==
    /\ cipherEnabled \in BOOLEAN
    /\ sent \in Seq(MessagesSent)
    /\ stream \in Seq(Frames)
    /\ receivingPrefix \in BOOLEAN
    /\ expecting \in 0 .. UShortRange - 1
    /\ recv \in {"reading", "ended", "faulted"}
    /\ shortRead \in BOOLEAN
    /\ delivered \in Seq([number : 0 .. MaxSent, reply : BOOLEAN, length : Nat])

\* A message can cross the channel: its packet's size fits the prefix, and if
\* it is encrypted there is something to decrypt, and the ciphertext is not
\* taken for an empty payload (a reply with a single byte is).
Deliverable(m) ==
    /\ PacketHeaderSize + MessageSize(m) < UShortRange
    /\ cipherEnabled => /\ m.length > 0
                        /\ m.length + CwcOverhead # HeaderBytes(m.reply)

\* What is delivered is what was sent, with the same length: nothing is lost,
\* reordered, cut short by a prefix that overflowed, or made up from a frame
\* that is none.  The one exception is a payload in the clear that is as long
\* as its headers, which arrives empty (SVFWMessageClient.Read); encrypted
\* payloads have lengths that rule it out or are rejected.
DeliveredAsSent ==
    \A i \in 1 .. Len(delivered) :
        /\ i <= Len(sent)
        /\ Deliverable(sent[i])
        /\ delivered[i].number = i
        /\ delivered[i].reply = sent[i].reply
        /\ \/ delivered[i].length = sent[i].length
           \/ /\ ~cipherEnabled
              /\ sent[i].length = HeaderBytes(sent[i].reply)
              /\ delivered[i].length = 0

\* The receive task faults only for a short read or for the frame it is at: a
\* foreign one, or a message too long for the prefix or empty under the cipher.
FaultHasCause ==
    recv = "faulted" =>
        \/ shortRead
        \/ Head(stream).number = 0
        \/ ~Deliverable(sent[Head(stream).number])

\* As long as the receive loop goes on, every message sent is delivered.
EverythingArrives ==
    [](recv = "reading") =>
        \A n \in 1 .. MaxSent : [](Len(sent) >= n => <>(Len(delivered) >= n))

-----------------------------------------------------------------------------
\* The channel as the services see it.
Fifo == INSTANCE MessageFifo WITH
    posted  <- [i \in 1 .. Len(sent) |-> sent[i].number],
    handled <- [i \in 1 .. Len(delivered) |-> delivered[i].number],
    broken  <- recv # "reading"

\* The channel implements MessageFifo: once each, in order, none after a break.
ImplementsFifo == Fifo!FifoSpec
=============================================================================
