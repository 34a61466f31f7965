----------------------------- MODULE FsdpHeader -----------------------------
(***************************************************************************)
(* The counters of an FSDP packet: two numbers of twelve bits in three     *)
(* bytes of the header, the middle byte half and half, and beside them in  *)
(* FsdpReliablePacket a copy of each.  All of it is functions of headers   *)
(* and packets; what is said of them is proved in Bytes_proofs.            *)
(***************************************************************************)
EXTENDS Integers

Bytes == 0 .. 255
Counters == 0 .. 4095
MaxAckValue == 4096

Headers == [ack1 : Bytes, ack2 : Bytes, ack3 : Bytes]

LocalAck(h) == h.ack1 + (256 * (h.ack2 \div 16))

RemoteAck(h) == h.ack3 + (256 * (h.ack2 % 16))

\* Values of counters are natural numbers: sequence indices and what LocalAck and
\* RemoteAck give.  For those a mask is a remainder.
SetAckCounters(local, remote) ==
    [ack1 |-> local % 256,
     ack2 |-> (16 * ((local \div 256) % 16)) + ((remote \div 256) % 16),
     ack3 |-> remote % 256]

\* header.LocalAck = value, and header.RemoteAck = value
SetLocalAck(h, value) == SetAckCounters(value, RemoteAck(h))
SetRemoteAck(h, value) == SetAckCounters(LocalAck(h), value)

-----------------------------------------------------------------------------
\* new FsdpReliablePacket(header, payload)
Packet(h) == [header |-> h, localCache |-> LocalAck(h), remoteCache |-> RemoteAck(h)]

Packets == [header : Headers, localCache : Counters, remoteCache : Counters]

\* packet.LocalAck = value, and packet.RemoteAck = value: the header is copied,
\* changed and put back, and the copy is cut to twelve bits.
SetPacketLocalAck(p, value) ==
    [p EXCEPT !.header = SetLocalAck(p.header, value),
              !.localCache = value % MaxAckValue]

SetPacketRemoteAck(p, value) ==
    [p EXCEPT !.header = SetRemoteAck(p.header, value),
              !.remoteCache = value % MaxAckValue]
=============================================================================
