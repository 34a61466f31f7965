----------------------------- MODULE Bytes_proofs -----------------------------
(***************************************************************************)
(* Proofs about the parts that compute on the bytes of one packet and call *)
(* nobody: the version a client sends (AppVersion), the counters of a      *)
(* reliable packet (FsdpHeader), the fields of a ticket (TicketParser) and *)
(* the hash that goes into a tag (CwcHash).                                *)
(***************************************************************************)
EXTENDS AppVersion, FsdpHeader, TicketParser, CwcHash, TLAPS

-----------------------------------------------------------------------------
(* The version gate, for words of any size *)

\* A version is its two words, as AcvAppVersion(ulong) splits it.
LEMMA WordsOfVersion ==
    ASSUME RangeIsEven, NEW v \in AppVersions
    PROVE  /\ Unk00(v) \in Nat
           /\ Version(v) \in UInts
           /\ v = UIntRange * Unk00(v) + Version(v)
BY Z3 DEF RangeIsEven, AppVersions, UInts, Unk00, Version

\* A version with a smaller upper word is a smaller number.
LEMMA UpperWordDecides ==
    ASSUME RangeIsEven, NEW a \in AppVersions, NEW b \in AppVersions, Unk00(a) < Unk00(b)
    PROVE  a < b
<1>1. /\ UIntRange \in Nat /\ UIntRange > 0
      /\ Unk00(a) \in Nat /\ Unk00(b) \in Nat
      /\ Version(a) \in 0 .. UIntRange - 1 /\ Version(b) \in 0 .. UIntRange - 1
      /\ a = UIntRange * Unk00(a) + Version(a)
      /\ b = UIntRange * Unk00(b) + Version(b)
    BY WordsOfVersion DEF RangeIsEven, UInts
<1>2. ASSUME NEW w \in Nat, w > 0, NEW p \in Nat, NEW q \in Nat, p < q
      PROVE  w * p + w <= w * q
    <2>1. PICK d \in Nat : q = p + 1 + d
        <3>1. q - p - 1 \in Nat /\ q = p + 1 + (q - p - 1)
            BY <1>2
        <3> QED
            BY <3>1
    <2>2. w * q = w * p + w + w * d /\ w * d \in Nat
        BY <2>1, Z3
    <2> QED
        BY <2>2, Z3
<1>3. UIntRange * Unk00(a) + UIntRange <= UIntRange * Unk00(b)
    BY <1>1, <1>2
<1>4. /\ UIntRange * Unk00(a) \in Nat /\ UIntRange * Unk00(b) \in Nat
    BY <1>1, Z3
<1> QED
    BY <1>1, <1>3, <1>4

\* The comparison never holds both ways and never of a version and itself,
\* although it looks at the two words one by one (operator < and operator >).
THEOREM LessIsStrict ==
    ASSUME RangeIsEven, NEW a \in AppVersions, NEW b \in AppVersions, Less(a, b)
    PROVE  a # b /\ ~Less(b, a)
<1>1. Unk00(a) \in Nat /\ Unk00(b) \in Nat
    BY WordsOfVersion
<1> QED
    BY <1>1 DEF Less

\* Nor does it lose an order it has found: it is transitive.
THEOREM LessIsTransitive ==
    ASSUME RangeIsEven, NEW a \in AppVersions, NEW b \in AppVersions, NEW c \in AppVersions,
           Less(a, b), Less(b, c)
    PROVE  Less(a, c)
<1>1. ASSUME NEW v \in AppVersions PROVE Unk00(v) \in Int /\ AsInt(Version(v)) \in Int
    <2>1. Unk00(v) \in Nat /\ Version(v) \in 0 .. UIntRange - 1 /\ UIntRange \in Nat
        BY WordsOfVersion DEF RangeIsEven, UInts
    <2> QED
        BY <2>1 DEF AsInt
<1>2. /\ Unk00(a) \in Int /\ Unk00(b) \in Int /\ Unk00(c) \in Int
      /\ AsInt(Version(a)) \in Int /\ AsInt(Version(b)) \in Int /\ AsInt(Version(c)) \in Int
    BY <1>1
<1> QED
    BY <1>2 DEF Less

\* A client is turned away only for a version outside the configured range,
\* whatever the range and however wide a word is.
THEOREM RefusalsAreSound ==
    ASSUME RangeIsEven
    PROVE  VersionSpec => []RefusedOnlyOutsideRange
<1> DEFINE IInv == VersionTypeOK /\ RefusedOnlyOutsideRange
<1>1. VersionInit => IInv
    <2> SUFFICES ASSUME VersionInit PROVE IInv
        OBVIOUS
    <2>1. UIntRange * UIntRange \in Nat
        BY Z3 DEF RangeIsEven
    <2> QED
        BY <2>1 DEF VersionInit, VersionTypeOK, RefusedOnlyOutsideRange, AppVersions
<1>2. IInv /\ [VersionNext]_versionVars => IInv'
    <2> SUFFICES ASSUME IInv, [VersionNext]_versionVars PROVE IInv'
        OBVIOUS
    <2>1. ASSUME NEW u \in AppVersions, CheckVersion(u) PROVE IInv'
        <3>1. verdict' = Verdict(u) /\ user' = u /\ minimum' = minimum /\ maximum' = maximum
            BY <2>1 DEF CheckVersion
        <3>2. CASE Less(u, minimum)
            <4>1. u < minimum
                BY <3>2, UpperWordDecides DEF Less, VersionTypeOK
            <4>2. verdict' = "belowMinimum"
                BY <3>1, <3>2 DEF Verdict
            <4> QED
                BY <3>1, <4>1, <4>2 DEF VersionTypeOK, RefusedOnlyOutsideRange
        <3>3. CASE ~Less(u, minimum) /\ Less(maximum, u)
            <4>1. maximum < u
                BY <3>3, UpperWordDecides DEF Less, VersionTypeOK
            <4>2. verdict' = "aboveMaximum" /\ maximum \in Int /\ u \in Int
                <5>1. UIntRange * UIntRange \in Nat
                    BY Z3 DEF RangeIsEven
                <5> QED
                    BY <3>1, <3>3, <5>1 DEF Verdict, VersionTypeOK, AppVersions
            <4> QED
                BY <3>1, <4>1, <4>2 DEF VersionTypeOK, RefusedOnlyOutsideRange
        <3>4. CASE ~Less(u, minimum) /\ ~Less(maximum, u)
            <4>1. verdict' = "served"
                BY <3>1, <3>4 DEF Verdict
            <4> QED
                BY <3>1, <4>1 DEF VersionTypeOK, RefusedOnlyOutsideRange
        <3> QED
            BY <3>2, <3>3, <3>4
    <2>2. CASE UNCHANGED versionVars
        BY <2>2 DEF versionVars, VersionTypeOK, RefusedOnlyOutsideRange
    <2> QED
        BY <2>1, <2>2 DEF VersionNext
<1>3. IInv => RefusedOnlyOutsideRange
    OBVIOUS
<1> QED
    BY <1>1, <1>2, <1>3, PTL DEF VersionSpec

\* The versions at the two ends of the range are served, although the comparison
\* looks at the words one by one: neither end is below the lower or above the upper.
THEOREM EndsAreServed ==
    ASSUME RangeIsEven
    PROVE  VersionSpec => []EndsOfRangeServed
<1> DEFINE IInv == VersionTypeOK /\ minimum <= maximum /\ EndsOfRangeServed
<1>1. VersionInit => IInv
    <2>1. UIntRange * UIntRange \in Nat
        BY Z3 DEF RangeIsEven
    <2> QED
        BY <2>1 DEF VersionInit, VersionTypeOK, EndsOfRangeServed, AppVersions
<1>2. IInv /\ [VersionNext]_versionVars => IInv'
    <2> SUFFICES ASSUME IInv, [VersionNext]_versionVars PROVE IInv'
        OBVIOUS
    <2>1. ASSUME NEW u \in AppVersions, CheckVersion(u) PROVE IInv'
        <3>1. verdict' = Verdict(u) /\ user' = u /\ minimum' = minimum /\ maximum' = maximum
            BY <2>1 DEF CheckVersion
        <3>2. ~ Less(minimum, minimum) /\ ~ Less(maximum, maximum)
            BY LessIsStrict DEF VersionTypeOK
        <3>3. ~ Less(maximum, minimum)
            <4>1. UIntRange * UIntRange \in Nat
                BY Z3 DEF RangeIsEven
            <4>2. Less(maximum, minimum) => maximum < minimum
                BY UpperWordDecides DEF Less, VersionTypeOK
            <4> QED
                BY <4>1, <4>2 DEF VersionTypeOK, AppVersions
        <3>4. u \in {minimum, maximum} => Verdict(u) = "served"
            BY <3>2, <3>3 DEF Verdict
        <3>5. verdict' \in {"none", "served", "belowMinimum", "aboveMaximum"}
            BY <3>1 DEF Verdict
        <3> QED
            BY <3>1, <3>4, <3>5 DEF VersionTypeOK, EndsOfRangeServed
    <2>2. CASE UNCHANGED versionVars
        BY <2>2 DEF versionVars, VersionTypeOK, EndsOfRangeServed
    <2> QED
        BY <2>1, <2>2 DEF VersionNext
<1>3. IInv => EndsOfRangeServed
    OBVIOUS
<1> QED
    BY <1>1, <1>2, <1>3, PTL DEF VersionSpec

-----------------------------------------------------------------------------
(* The counters of a reliable packet, for every header and every natural number *)

\* What the two getters read is twelve bits wide.
LEMMA GettersAreCounters ==
    ASSUME NEW h \in Headers
    PROVE  LocalAck(h) \in Counters /\ RemoteAck(h) \in Counters
<1>1. h.ack1 \in Bytes /\ h.ack2 \in Bytes /\ h.ack3 \in Bytes
    BY DEF Headers
<1>2. ASSUME NEW m \in Bytes, NEW n \in Bytes
      PROVE  m + (256 * (n \div 16)) \in Counters /\ m + (256 * (n % 16)) \in Counters
    BY SMT DEF Bytes, Counters
<1>3. /\ h.ack1 + (256 * (h.ack2 \div 16)) \in Counters
      /\ h.ack3 + (256 * (h.ack2 % 16)) \in Counters
    BY <1>1, <1>2, Zenon
<1> QED
    BY <1>3 DEF LocalAck, RemoteAck

\* A number cut to twelve bits is its low byte and the four bits above.
LEMMA TwelveBits ==
    ASSUME NEW v \in Nat
    PROVE  /\ (v % 256) \in Bytes
           /\ ((v \div 256) % 16) \in 0 .. 15
           /\ (v % 256) + (256 * ((v \div 256) % 16)) = (v % 4096)
           /\ (v % 4096) \in Counters
<1>1. (v % 256) \in Bytes /\ (v % 4096) \in Counters
    BY SMT DEF Bytes, Counters
<1>2. ((v \div 256) % 16) \in 0 .. 15
    BY SMT
<1>3. (v % 256) + (256 * ((v \div 256) % 16)) = (v % 4096)
    BY SMT
<1> QED
    BY <1>1, <1>2, <1>3

\* A byte is two halves.
LEMMA HalvesOfByte ==
    ASSUME NEW u \in 0 .. 15, NEW l \in 0 .. 15
    PROVE  /\ (16 * u) + l \in Bytes
           /\ ((16 * u) + l) \div 16 = u
           /\ ((16 * u) + l) % 16 = l
  BY SMT DEF Bytes

\* A counter is already cut.
LEMMA CountersAreCut ==
    ASSUME NEW c \in Counters
    PROVE  c \in Nat /\ c % MaxAckValue = c
  BY SMT DEF Counters, MaxAckValue

\* What SetAckCounters packs comes out of the getters again, each counter by
\* itself and cut to twelve bits.  (FsdpReliablePacketHeader)
THEOREM Unpacks ==
    ASSUME NEW local \in Nat, NEW remote \in Nat
    PROVE  /\ SetAckCounters(local, remote) \in Headers
           /\ LocalAck(SetAckCounters(local, remote)) = local % MaxAckValue
           /\ RemoteAck(SetAckCounters(local, remote)) = remote % MaxAckValue
<1> DEFINE h == SetAckCounters(local, remote)
           u == (local \div 256) % 16
           l == (remote \div 256) % 16
<1>1. h = [ack1 |-> local % 256, ack2 |-> (16 * u) + l, ack3 |-> remote % 256]
    BY DEF SetAckCounters
<1>2. /\ u \in 0 .. 15 /\ l \in 0 .. 15
      /\ (local % 256) \in Bytes /\ (remote % 256) \in Bytes
      /\ (local % 256) + (256 * u) = local % 4096
      /\ (remote % 256) + (256 * l) = remote % 4096
    BY TwelveBits
<1> HIDE DEF h, u, l
<1>3. /\ (16 * u) + l \in Bytes
      /\ ((16 * u) + l) \div 16 = u
      /\ ((16 * u) + l) % 16 = l
    BY <1>2, HalvesOfByte
<1>4. h.ack1 = local % 256 /\ h.ack2 = (16 * u) + l /\ h.ack3 = remote % 256
    BY <1>1
<1>5. h \in Headers
    BY <1>1, <1>2, <1>3 DEF Headers
<1>6. LocalAck(h) = (local % 256) + (256 * u)
    BY <1>3, <1>4 DEF LocalAck
<1>7. RemoteAck(h) = (remote % 256) + (256 * l)
    BY <1>3, <1>4 DEF RemoteAck
<1> QED
    BY <1>2, <1>5, <1>6, <1>7 DEF h, MaxAckValue

-----------------------------------------------------------------------------

\* A header is not changed by setting its counters to what they are: what was
\* received is sent as it was.  (FsdpReliablePacketHeader)
THEOREM RepackingIsIdentity ==
    ASSUME NEW h \in Headers
    PROVE  SetAckCounters(LocalAck(h), RemoteAck(h)) = h
<1> DEFINE a == h.ack1
           b == h.ack2
           c == h.ack3
           u == b \div 16
           l == b % 16
<1>1. a \in Bytes /\ b \in Bytes /\ c \in Bytes
    BY DEF Headers
<1>2. h = [ack1 |-> a, ack2 |-> b, ack3 |-> c]
    BY DEF Headers
<1>3. LocalAck(h) = a + (256 * u) /\ RemoteAck(h) = c + (256 * l)
    BY DEF LocalAck, RemoteAck
<1> HIDE DEF a, b, c
<1>4. u \in 0 .. 15 /\ l \in 0 .. 15 /\ (16 * u) + l = b
    BY <1>1, SMT DEF Bytes
<1> HIDE DEF u, l
<1>5. /\ (a + (256 * u)) % 256 = a
      /\ (a + (256 * u)) \div 256 = u
      /\ u % 16 = u
    BY <1>1, <1>4, SMT DEF Bytes
<1>6. /\ (c + (256 * l)) % 256 = c
      /\ (c + (256 * l)) \div 256 = l
      /\ l % 16 = l
    BY <1>1, <1>4, SMT DEF Bytes
<1>7. SetAckCounters(a + (256 * u), c + (256 * l)) = [ack1 |-> a, ack2 |-> b, ack3 |-> c]
    BY <1>4, <1>5, <1>6 DEF SetAckCounters
<1> QED
    BY <1>2, <1>3, <1>7

\* Setting one counter leaves the other, which shares a byte with it, as it was.
\* (the setters of FsdpReliablePacketHeader)
THEOREM SettersKeepTheOther ==
    ASSUME NEW h \in Headers, NEW value \in Nat
    PROVE  /\ SetLocalAck(h, value) \in Headers
           /\ LocalAck(SetLocalAck(h, value)) = value % MaxAckValue
           /\ RemoteAck(SetLocalAck(h, value)) = RemoteAck(h)
           /\ SetRemoteAck(h, value) \in Headers
           /\ RemoteAck(SetRemoteAck(h, value)) = value % MaxAckValue
           /\ LocalAck(SetRemoteAck(h, value)) = LocalAck(h)
<1>1. LocalAck(h) \in Counters /\ RemoteAck(h) \in Counters
    BY GettersAreCounters
<1>2. /\ LocalAck(h) \in Nat /\ LocalAck(h) % MaxAckValue = LocalAck(h)
      /\ RemoteAck(h) \in Nat /\ RemoteAck(h) % MaxAckValue = RemoteAck(h)
    BY <1>1, CountersAreCut
<1> QED
    BY <1>2, Unpacks DEF SetLocalAck, SetRemoteAck

\* The copies of a packet are what its header says.
CopiesMatch(p) ==
    p.localCache = LocalAck(p.header) /\ p.remoteCache = RemoteAck(p.header)

\* They are when the packet is made, and stay so whichever counter is set, to
\* whatever number.  (FsdpReliablePacket)
THEOREM CopiesAgree ==
    /\ \A h \in Headers : Packet(h) \in Packets /\ CopiesMatch(Packet(h))
    /\ \A p \in Packets, value \in Nat :
          CopiesMatch(p) =>
            /\ SetPacketLocalAck(p, value) \in Packets
            /\ CopiesMatch(SetPacketLocalAck(p, value))
            /\ SetPacketRemoteAck(p, value) \in Packets
            /\ CopiesMatch(SetPacketRemoteAck(p, value))
<1>1. ASSUME NEW h \in Headers
      PROVE  Packet(h) \in Packets /\ CopiesMatch(Packet(h))
    BY GettersAreCounters DEF Packet, Packets, CopiesMatch
<1>2. ASSUME NEW p \in Packets, NEW value \in Nat, CopiesMatch(p)
      PROVE  /\ SetPacketLocalAck(p, value) \in Packets
             /\ CopiesMatch(SetPacketLocalAck(p, value))
             /\ SetPacketRemoteAck(p, value) \in Packets
             /\ CopiesMatch(SetPacketRemoteAck(p, value))
  <2>1. p.header \in Headers /\ value % MaxAckValue \in Counters
      BY TwelveBits DEF Packets, MaxAckValue
  <2>2. SetPacketLocalAck(p, value) \in Packets /\ CopiesMatch(SetPacketLocalAck(p, value))
      BY <1>2, <2>1, SettersKeepTheOther DEF SetPacketLocalAck, Packets, CopiesMatch
  <2>3. SetPacketRemoteAck(p, value) \in Packets /\ CopiesMatch(SetPacketRemoteAck(p, value))
      BY <1>2, <2>1, SettersKeepTheOther DEF SetPacketRemoteAck, Packets, CopiesMatch
  <2> QED
      BY <2>2, <2>3
<1> QED
    BY <1>1, <1>2

-----------------------------------------------------------------------------
(* The hash of CWC, for words of any size *)

\* Four words have a top bit, and three are far below it.
LEMMA Sizes ==
    ASSUME KeyFits
    PROVE  /\ Half \in Nat /\ Size = 2 * Half
           /\ Word * Word * Word \in Nat
           /\ 2 * (Word * Word * Word) <= Half
           /\ Half >= 128 /\ z \in Nat /\ z < Half
<1>1. PICK w \in Nat : Word = 2 * w /\ w >= 2
    <2>1. Word \div 2 \in Nat /\ Word = 2 * (Word \div 2) /\ Word \div 2 >= 2
        BY Z3 DEF KeyFits
    <2> QED
        BY <2>1
<1> DEFINE c == w * w * w
<1>2. c \in Nat /\ c >= 8
    <2>1. w * w \in Nat /\ w * w >= 4
        BY <1>1, Z3
    <2> QED
        BY <1>1, <2>1, Z3
<1>3. Word * Word * Word = 8 * c
    BY <1>1, Z3
<1>4. Size = (8 * c) * (2 * w)
    BY <1>1, <1>3 DEF Size
<1>5. w * c \in Nat /\ w * c >= 2 * c
    BY <1>1, <1>2, Z3
<1>6. (8 * c) * (2 * w) = 16 * (w * c)
    BY <1>1, <1>2, Z3
<1> HIDE DEF c
<1>7. Half = 8 * (w * c)
    BY <1>4, <1>5, <1>6 DEF Half
<1> QED
    BY <1>2, <1>3, <1>4, <1>5, <1>6, <1>7 DEF KeyFits

\* Quotient and remainder.
LEMMA Division ==
    ASSUME NEW m \in Nat, m > 0, NEW p \in Nat
    PROVE  p \div m \in Nat /\ p % m \in 0 .. m - 1 /\ p = m * (p \div m) + (p % m)
BY Z3

\* There is one way only to divide.
LEMMA DivisionIsUnique ==
    ASSUME NEW m \in Nat, m > 0, NEW q \in Nat, NEW r \in 0 .. m - 1
    PROVE  (m * q + r) \div m = q /\ (m * q + r) % m = r
BY Z3

\* Whichever halves a number is split into, doubling the upper one and moving the
\* top bit of the lower one up splits it at that bit.
LEMMA SplitAtTopBit ==
    ASSUME NEW h \in Nat, h > 0, NEW s \in Nat, s = 2 * h, NEW p \in Nat
    PROVE  /\ p % s >= h => p \div h = 2 * (p \div s) + 1 /\ p % h = (p % s) - h
           /\ p % s < h => p \div h = 2 * (p \div s) /\ p % h = p % s
<1> DEFINE a == p \div s
           b == p % s
<1>1. a \in Nat /\ b \in Nat /\ b < 2 * h /\ p = (2 * h) * a + b
    <2>1. a \in Nat /\ b \in 0 .. s - 1 /\ p = s * a + b
        BY Division
    <2> QED
        BY <2>1
<1>2. (2 * h) * a = h * (2 * a)
    BY <1>1, Z3
<1>3. ASSUME NEW q \in Nat, NEW r \in Nat, r < h, p = h * q + r
      PROVE  p \div h = q /\ p % h = r
    <2>1. r \in 0 .. h - 1
        BY <1>3
    <2> QED
        BY <1>3, <2>1, DivisionIsUnique
<1> HIDE DEF a, b
<1>5. CASE b >= h
    <2>1. h * (2 * a + 1) = h * (2 * a) + h
        BY <1>1, Z3
    <2>2. p = h * (2 * a + 1) + (b - h) /\ b - h \in Nat /\ b - h < h
        BY <1>1, <1>2, <1>5, <2>1
    <2>3. 2 * a + 1 \in Nat
        BY <1>1
    <2>4. p \div h = 2 * a + 1 /\ p % h = b - h
        BY <1>3, <2>2, <2>3
    <2> QED
        BY <1>5, <2>4 DEF a, b
<1>6. CASE b < h
    <2>1. p = h * (2 * a) + b
        BY <1>1, <1>2
    <2>2. p \div h = 2 * a /\ p % h = b
        BY <1>1, <1>3, <1>6, <2>1
    <2> QED
        BY <1>6, <2>2 DEF a, b
<1> QED
    BY <1>1, <1>5, <1>6

\* Products grow with their factors.
LEMMA Monotone ==
    ASSUME NEW c \in Nat, NEW a \in Nat, NEW b \in Nat, a <= b
    PROVE  c * a <= c * b /\ c * a \in Nat /\ c * b \in Nat
<1>1. PICK d \in Nat : b = a + d
    <2>1. b - a \in Nat /\ b = a + (b - a)
        OBVIOUS
    <2> QED
        BY <2>1
<1>2. c * b = c * a + c * d /\ c * d \in Nat /\ c * a \in Nat
    BY <1>1, Z3
<1> QED
    BY <1>2

\* Numbers that differ by a multiple have the same remainder.
LEMMA SameRemainder ==
    ASSUME NEW m \in Nat, m > 0, NEW a \in Nat, NEW b \in Nat, NEW k \in Int, a = b + m * k
    PROVE  a % m = b % m
<1>1. b \div m \in Nat /\ b % m \in 0 .. m - 1 /\ b = m * (b \div m) + (b % m)
    BY Division
<1> DEFINE q == (b \div m) + k
           r == b % m
<1>2. q \in Int /\ r \in 0 .. m - 1
    BY <1>1
<1>3. a = m * q + r
    <2>1. m * q = m * (b \div m) + m * k
        BY <1>1, Z3
    <2> QED
        BY <1>1, <2>1
<1> HIDE DEF q, r
<1>4. q \in Nat
    <2>1. CASE q < 0
        <3>1. m * q <= 0 - m
            BY <1>2, <2>1, Z3
        <3> QED
            BY <1>2, <1>3, <3>1
    <2> QED
        BY <1>2, <2>1
<1>5. a % m = r
    BY <1>2, <1>3, <1>4, DivisionIsUnique
<1> QED
    BY <1>5 DEF r

\* A hash and a block have room in four words, their product with the key in eight,
\* and what do_cwc adds up are its parts above and below the top bit.
LEMMA Parts ==
    ASSUME KeyFits, NEW h \in 0 .. Half, NEW data \in Blocks
    PROVE  LET p == Product(h, data) IN
           /\ p = (h + data) * z /\ p \in Nat
           /\ Upper(p) = p \div Half /\ Upper(p) \in Nat
           /\ Lower(p) = p % Half /\ Lower(p) \in 0 .. Half - 1
           /\ p = Half * Upper(p) + Lower(p)
<1> DEFINE p == Product(h, data)
           a == h + data
<1>1. /\ Half \in Nat /\ Half >= 128 /\ Size = 2 * Half /\ z \in Nat /\ z < Half
      /\ data \in Nat /\ 2 * data < Half
    BY Sizes DEF Blocks
<1>2. a \in Nat /\ a < Size
    BY <1>1
<1>3. p = a * z
    <2>1. (data + h) % Size = data + h /\ data + h = h + data
        BY <1>1, <1>2
    <2>2. add_4(data, h) = a
        BY <2>1 DEF add_4
    <2> QED
        BY <2>2 DEF Product
<1>4. p \in Nat /\ p <= Size * z
    BY <1>1, <1>2, <1>3, Z3
<1> HIDE DEF p, a
<1>4a. p \div Half \in Nat /\ p % Half \in 0 .. Half - 1 /\ p = Half * (p \div Half) + (p % Half)
    BY <1>1, <1>4, Division
<1>5. /\ p % Size >= Half => p \div Half = 2 * (p \div Size) + 1 /\ p % Half = (p % Size) - Half
      /\ p % Size < Half => p \div Half = 2 * (p \div Size) /\ p % Half = p % Size
    <2>1. Half \in Nat /\ Half > 0 /\ Size \in Nat /\ Size = 2 * Half /\ p \in Nat
        BY <1>1, <1>4
    <2> QED
        BY <2>1, SplitAtTopBit, Zenon
<1>6. /\ p \div Size \in Nat /\ p % Size \in Nat
      /\ p = Size * (p \div Size) + (p % Size)
    <2>1. Size \in Nat /\ Size > 0
        BY <1>1
    <2>2. p \div Size \in Nat /\ p % Size \in 0 .. Size - 1 /\ p = Size * (p \div Size) + (p % Size)
        BY <1>4, <2>1, Division
    <2> QED
        BY <2>1, <2>2
<1>7. p \div Size <= z
    <2>1. Size \in Nat /\ Size > 0 /\ z + 1 \in Nat /\ Size * z \in Nat
        BY <1>1, Z3
    <2>2. CASE z + 1 <= p \div Size
        <3>1. Size * (z + 1) <= Size * (p \div Size)
            BY <1>6, <2>1, <2>2, Monotone
        <3>2. Size * (z + 1) = Size * z + Size
            BY <1>1, <2>1, Z3
        <3>3. Size * (p \div Size) \in Nat
            BY <1>6, <2>1, Z3
        <3> QED
            BY <1>4, <1>6, <2>1, <3>1, <3>2, <3>3
    <2> QED
        BY <1>1, <1>6, <2>2
<1>8. add_4(p \div Size, p \div Size) = 2 * (p \div Size)
    <2>1. 2 * (p \div Size) < Size /\ 2 * (p \div Size) \in Nat
        BY <1>1, <1>6, <1>7
    <2>2. ASSUME NEW x \in Nat, x < Size PROVE x % Size = x
        BY <1>1, <2>2
    <2>3. (2 * (p \div Size)) % Size = 2 * (p \div Size)
        BY <2>1, <2>2
    <2>4. (p \div Size) + (p \div Size) = 2 * (p \div Size)
        BY <1>6
    <2> QED
        BY <2>3, <2>4 DEF add_4
<1>9. Upper(p) = p \div Half /\ Lower(p) = p % Half
    <2>1. CASE p % Size >= Half
        BY <1>5, <1>8, <2>1 DEF Upper, Lower
    <2>2. CASE ~ (p % Size >= Half)
        <3>1. p % Size < Half /\ 2 * (p \div Size) + 0 = 2 * (p \div Size)
            BY <1>1, <1>6, <2>2
        <3> QED
            BY <1>5, <1>8, <2>2, <3>1 DEF Upper, Lower
    <2> QED
        BY <2>1, <2>2
<1> QED
    BY <1>3, <1>4, <1>4a, <1>9 DEF p, a

\* Where no carry is lost, a step of the hash (do_cwc) is the multiplication modulo
\* 2^127 - 1 that its comment says it is, and it leaves room for the next block.
THEOREM BlockIsExact ==
    ASSUME KeyFits, NEW h \in 0 .. Half, NEW data \in Blocks, ~ CarryIsLost(h, data)
    PROVE  /\ do_cwc(h, data) \in 0 .. Half
           /\ do_cwc(h, data) % Modulus = ((h + data) * z) % Modulus
<1> DEFINE p == Product(h, data)
           u == Upper(p)
           l == Lower(p)
           r == do_cwc(h, data)
<1>1. Half \in Nat /\ Half >= 128 /\ Size = 2 * Half
    BY Sizes
<1>2. /\ p = (h + data) * z /\ p \in Nat /\ u \in Nat /\ l \in 0 .. Half - 1
      /\ p = Half * u + l
    BY Parts
<1>3. u + l < Size
    BY <1>1, <1>2 DEF CarryIsLost
<1>4. r = IF u + l >= Half THEN u + l - Half + 1 ELSE u + l
    <2>1. ASSUME NEW x \in Nat, x < Size PROVE x % Size = x
        BY <1>1, <2>1
    <2>2. u + l \in Nat
        BY <1>1, <1>2
    <2>3. (u + l) % Size = u + l
        BY <1>3, <2>1, <2>2
    <2>4. r = FoldTop(add_4(u, l))
        BY Zenon DEF do_cwc
    <2>5. add_4(u, l) = u + l
        BY <2>3, Zenon DEF add_4
    <2>6. r = FoldTop(u + l)
        BY <2>4, <2>5, Zenon
    <2> HIDE DEF p, u, l, r
    <2> QED
        BY <1>1, <1>2, <2>6 DEF FoldTop
<1> HIDE DEF p, u, l, r
<1>5. r \in 0 .. Half
    BY <1>1, <1>2, <1>3, <1>4
<1>6. Modulus \in Nat /\ Modulus > 0 /\ Modulus = Half - 1
    BY <1>1 DEF Modulus
<1>7. PICK k \in Int : r = p + Modulus * k
    <2>1. p = (u + l) + Modulus * u
        <3>1. ASSUME NEW m \in Nat, NEW x \in Nat, NEW y \in Nat
              PROVE  (m + 1) * x + y = (x + y) + m * x
            BY Z3
        <3>2. Half = Modulus + 1 /\ l \in Nat
            BY <1>1, <1>2, <1>6
        <3>3. p = (Modulus + 1) * u + l
            BY <1>2, <3>2
        <3> QED
            BY <1>2, <1>6, <3>1, <3>2, <3>3, Zenon
    <2>2. Modulus * (0 - u) = 0 - Modulus * u /\ Modulus * (0 - u - 1) = 0 - Modulus * u - Modulus
        BY <1>2, <1>6, Z3
    <2>3. Modulus * u \in Nat /\ 0 - u \in Int /\ 0 - u - 1 \in Int
        BY <1>2, <1>6, Z3
    <2>4. CASE u + l >= Half
        <3>1. r = p + Modulus * (0 - u - 1)
            BY <1>1, <1>2, <1>4, <1>6, <2>1, <2>2, <2>3, <2>4
        <3> QED
            BY <2>3, <3>1
    <2>5. CASE u + l < Half
        <3>1. r = p + Modulus * (0 - u)
            BY <1>1, <1>2, <1>4, <1>6, <2>1, <2>2, <2>3, <2>5
        <3> QED
            BY <2>3, <3>1
    <2> QED
        BY <1>1, <1>2, <2>4, <2>5
<1>8. r % Modulus = p % Modulus
    <2>1. r \in Nat
        BY <1>1, <1>5
    <2> QED
        BY <1>2, <1>6, <1>7, <2>1, SameRemainder, Zenon
<1> QED
    BY <1>2, <1>5, <1>8 DEF r

\* A key that is below the top by the size of a block never loses a carry.
LEMMA SmallKeyKeepsCarry ==
    ASSUME KeyFits, z <= Half - Word * Word * Word,
           NEW h \in 0 .. Half, NEW data \in Blocks
    PROVE  ~ CarryIsLost(h, data)
<1> DEFINE c == Word * Word * Word
           p == Product(h, data)
           u == Upper(p)
           l == Lower(p)
<1>1. /\ Half \in Nat /\ Half >= 128 /\ Size = 2 * Half /\ z \in Nat
      /\ c \in Nat /\ c <= Half /\ z <= Half - c /\ data \in Nat /\ data < c
    BY Sizes DEF Blocks
<1>2. /\ p = (h + data) * z /\ p \in Nat /\ u \in Nat /\ l \in 0 .. Half - 1
      /\ p = Half * u + l
    BY Parts
<1> HIDE DEF c, p, u, l
<1>3. z * (h + data) <= z * (Half + c) /\ z * (Half + c) \in Nat
    <2>1. h + data \in Nat /\ Half + c \in Nat /\ h + data <= Half + c
        BY <1>1
    <2> QED
        BY <1>1, <2>1, Monotone
<1>4. (Half + c) * z <= (Half + c) * (Half - c)
    <2>1. Half + c \in Nat /\ Half - c \in Nat
        BY <1>1
    <2> QED
        BY <1>1, <2>1, Monotone
<1>5. (Half + c) * (Half - c) < Half * Half
    <2>1. (Half + c) * (Half - c) = Half * Half - c * c
        BY <1>1, Z3
    <2>2. c >= 1
        BY <1>1
    <2>3. c * c >= 1
        BY <1>1, <2>2, Z3
    <2> QED
        BY <1>1, <2>1, <2>3, Z3
<1>6. z * (h + data) = p /\ (Half + c) * z = z * (Half + c)
    BY <1>1, <1>2, Z3
<1>7. p < Half * Half
    BY <1>1, <1>2, <1>3, <1>4, <1>5, <1>6, Z3
<1>8. u < Half
    <2>1. CASE Half <= u
        <3>1. Half * Half <= Half * u /\ Half * Half \in Nat /\ Half * u \in Nat
            BY <1>1, <1>2, <2>1, Monotone
        <3> QED
            BY <1>2, <1>7, <3>1
    <2> QED
        BY <1>1, <1>2, <2>1
<1>9. u + l < Size
    BY <1>1, <1>2, <1>8
<1> QED
    BY <1>1, <1>2, <1>9 DEF CarryIsLost, p, u, l

\* With such a key, all but some 2^96 of the 2^127 there are, the hash of any number
\* of blocks (cwc_auth_header, cwc_auth_data and cwc_compute_tag call do_cwc for
\* each) is the remainder of the polynomial of the blocks.
THEOREM HashesAreExact ==
    ASSUME KeyFits, z <= Half - Word * Word * Word
    PROVE  HashSpec => [](HashIsExact /\ HashFits)
<1> DEFINE IInv == HashIsExact /\ HashFits
<1>1. Modulus \in Nat /\ Modulus > 0 /\ Half \in Nat /\ z \in Nat
    BY Sizes DEF Modulus
<1>2. HashInit => IInv
    <2>1. 0 % Modulus = 0 /\ 0 \in 0 .. Half
        BY <1>1
    <2> QED
        BY <2>1 DEF HashInit, HashIsExact, HashFits
<1>3. IInv /\ [HashNext]_hashVars => IInv'
    <2> SUFFICES ASSUME IInv, [HashNext]_hashVars
                 PROVE  IInv'
        OBVIOUS
    <2>1. CASE UNCHANGED hashVars
        BY <2>1 DEF hashVars, HashIsExact, HashFits
    <2>2. ASSUME NEW data \in Blocks, Hash(data)
          PROVE  IInv'
        <3>1. hash \in 0 .. Half /\ hash \in Nat /\ data \in Nat
            BY <1>1, Sizes DEF HashFits, Blocks
        <3>2. ~ CarryIsLost(hash, data)
            BY <3>1, SmallKeyKeepsCarry
        <3>3. /\ hash' \in 0 .. Half
              /\ hash' % Modulus = ((hash + data) * z) % Modulus
            BY <2>2, <3>1, <3>2, BlockIsExact DEF Hash
        <3> DEFINE k == hash \div Modulus
        <3>4. k \in Nat /\ exact \in 0 .. Modulus - 1 /\ hash = Modulus * k + exact
            <4>1. k \in Nat /\ hash % Modulus \in 0 .. Modulus - 1 /\ hash = Modulus * k + (hash % Modulus)
                BY <1>1, <3>1, Division
            <4> QED
                BY <4>1 DEF HashIsExact
        <3> HIDE DEF k
        <3>5. (hash + data) * z = (exact + data) * z + Modulus * (k * z)
            <4>1. hash + data = Modulus * k + (exact + data)
                <5>1. Modulus * k \in Int
                    BY <1>1, <3>4
                <5> QED
                    BY <1>1, <3>1, <3>4, <5>1
            <4>2. (Modulus * k + (exact + data)) * z = (Modulus * k) * z + (exact + data) * z
                BY <1>1, <3>1, <3>4, Z3
            <4>3. (Modulus * k) * z = Modulus * (k * z)
                BY <1>1, <3>4, Z3
            <4>4. (Modulus * k) * z \in Int /\ (exact + data) * z \in Int
                BY <1>1, <3>1, <3>4, Z3
            <4> QED
                BY <4>1, <4>2, <4>3, <4>4
        <3>6. ((hash + data) * z) % Modulus = ((exact + data) * z) % Modulus
            <4>1. (hash + data) * z \in Nat /\ (exact + data) * z \in Nat /\ k * z \in Int
                BY <1>1, <3>1, <3>4, Z3
            <4> QED
                BY <1>1, <3>5, <4>1, SameRemainder
        <3>7. hash' % Modulus = exact'
            BY <2>2, <3>3, <3>6 DEF Hash
        <3> QED
            BY <3>3, <3>7 DEF HashIsExact, HashFits
    <2> QED
        BY <2>1, <2>2 DEF HashNext
<1> QED
    BY <1>2, <1>3, PTL DEF HashSpec

\* The lengths that end the hash (cwc_compute_tag) lose no carry, were each to take up
\* two words but for the top bit; in the code they are counted in one.
THEOREM LengthsAreExact ==
    ASSUME KeyFits, NEW h \in 0 .. Half,
           NEW header \in Nat, NEW text \in Nat,
           2 * header < Word * Word, 2 * text < Word * Word
    PROVE  Finish(h, header, text) % Modulus = (h + Lengths(header, text)) % Modulus
<1> DEFINE ww == Word * Word
           n == Lengths(header, text)
<1>1. Half \in Nat /\ Half >= 128 /\ Size = 2 * Half
    BY Sizes
<1>2. ww \in Nat /\ Size = ww * ww
    BY Z3 DEF KeyFits, Size
<1>3. n = header * ww + text
    <2>1. header * Word * Word = header * ww
        BY Z3 DEF KeyFits
    <2> QED
        BY <2>1 DEF Lengths
<1> HIDE DEF ww, n
<1>4. n \in Nat /\ n < Half
    <2>1. 2 * header + 1 <= ww /\ 2 * text < ww
        BY <1>2 DEF ww
    <2>2. ww * (2 * header + 1) <= ww * ww /\ ww * (2 * header + 1) \in Nat
        BY <1>2, <2>1, Monotone
    <2>3. ww * (2 * header + 1) = 2 * (header * ww) + ww /\ header * ww \in Nat
        BY <1>2, Z3
    <2> QED
        BY <1>1, <1>2, <1>3, <2>1, <2>2, <2>3
<1>5. add_4(h, n) = h + n
    <2>1. ASSUME NEW x \in Nat, x < Size PROVE x % Size = x
        BY <1>1, <2>1
    <2>2. (h + n) % Size = h + n
        BY <1>1, <1>4, <2>1
    <2> QED
        BY <2>2, Zenon DEF add_4
<1>6. Finish(h, header, text) = FoldTop(h + n)
    BY <1>5, Zenon DEF Finish, n
<1> DEFINE r == FoldTop(h + n)
<1>7. PICK k \in Int : r = (h + n) + Modulus * k
    <2>1. r = (h + n) + Modulus * 0 \/ r = (h + n) + Modulus * (0 - 1)
        BY <1>1, <1>4 DEF FoldTop, Modulus
    <2> QED
        BY <2>1, 0 - 1 \in Int, 0 \in Int
<1>8. r \in Nat /\ h + n \in Nat /\ Modulus \in Nat /\ Modulus > 0
    BY <1>1, <1>4 DEF FoldTop, Modulus
<1> HIDE DEF r
<1>9. r % Modulus = (h + n) % Modulus
    BY <1>7, <1>8, SameRemainder, Zenon
<1> QED
    BY <1>6, <1>9, Zenon DEF r, n

\* With a key above that a carry can be lost, whatever the size of a word: for the key
\* 2^127 - 2^32 there are a hash and a block whose step in do_cwc is not the remainder
\* its comment promises (cwc.c:536-539), but two less.
THEOREM CarryMayBeLost ==
    ASSUME KeyFits, z = Half - Word
    PROVE  \E h \in 0 .. Half, data \in Blocks :
               do_cwc(h, data) % Modulus # ((h + data) * z) % Modulus
<1>1. PICK w \in Nat : Word = 2 * w /\ w >= 2
    <2>1. Word \div 2 \in Nat /\ Word = 2 * (Word \div 2) /\ Word \div 2 >= 2
        BY Z3 DEF KeyFits
    <2> QED
        BY <2>1
<1> DEFINE c == w * w * w
           e == 4 * c + 1
           h == Half - 1
           data == 4 * c + 2
           p == Product(h, data)
           u == Half + e - Word - 2
           l == Half - Word
<1>2. c \in Nat /\ c >= 4 * w
    <2>1. w * w \in Nat /\ w * w >= 4
        BY <1>1, Z3
    <2>2. (w * w) * w >= 4 * w
        BY <1>1, <2>1, Z3
    <2> QED
        BY <1>1, <2>1, <2>2, Z3
<1>3. Word * Word * Word = 8 * c
    BY <1>1, Z3
<1>4. /\ Half \in Nat /\ Half >= 128 /\ Size = 2 * Half /\ 16 * c <= Half
    BY Sizes, <1>2, <1>3
<1>5. e * Word = Half + Word
    <2>1. Half = Word * (4 * c)
        <3>1. Size = (8 * c) * Word
            BY <1>3 DEF Size
        <3>2. (8 * c) * Word = 2 * (Word * (4 * c)) /\ Word * (4 * c) \in Nat
            BY <1>1, <1>2, Z3
        <3> HIDE DEF c
        <3> QED
            BY <1>4, <3>1, <3>2
    <2>2. e * Word = Word * (4 * c) + Word
        BY <1>1, <1>2, Z3
    <2> QED
        BY <2>1, <2>2
<1>6. h \in 0 .. Half /\ data \in Blocks
    <2>1. Blocks = 0 .. 8 * c - 1
        BY <1>3, Zenon DEF Blocks
    <2> HIDE DEF c
    <2>2. h \in 0 .. Half /\ data \in 0 .. 8 * c - 1
        BY <1>2, <1>1, <1>4
    <2> QED
        BY <2>1, <2>2, Zenon
<1>7. /\ p = (h + data) * z /\ p \in Nat
      /\ Upper(p) = p \div Half /\ Lower(p) = p % Half
    BY <1>6, Parts
<1>8. u \in Nat /\ l \in 0 .. Half - 1 /\ Word \in Nat /\ e \in Nat
    <2> HIDE DEF c
    <2> QED
        BY <1>1, <1>2, <1>4
<1>9. p = Half * u + l
    <2>1. h + data = Half + e
        <3> HIDE DEF c
        <3> QED
            BY <1>2, <1>4
    <2>2. p = (Half + e) * (Half - Word)
        BY <1>7, <2>1
    <2>3. ASSUME NEW H \in Nat, NEW W \in Nat, NEW x \in Nat, x * W = H + W
          PROVE  (H + x) * (H - W) = H * (H + x - W - 2) + (H - W)
        <3>1. (H + x) * (H - W) = H * (H + x - W) - x * W
            BY Z3
        <3>2. H * (H + x - W - 2) = H * (H + x - W) - H - H
            BY Z3
        <3> QED
            BY <2>3, <3>1, <3>2, Z3
    <2> HIDE DEF e
    <2> QED
        BY <1>4, <1>5, <1>8, <2>2, <2>3
<1> HIDE DEF p
<1>10. Upper(p) = u /\ Lower(p) = l
    <2>1. Half > 0
        BY <1>4
    <2>2. p \div Half = u /\ p % Half = l
        BY <1>4, <1>8, <1>9, <2>1, DivisionIsUnique, Zenon
    <2> QED
        BY <1>7, <2>2
<1>11. u + l = Size + (e - 2 * Word - 2) /\ e - 2 * Word - 2 \in Nat /\ e < Modulus
    <2> HIDE DEF c
    <2> QED
        BY <1>1, <1>2, <1>4 DEF Modulus
<1>12. do_cwc(h, data) = e - 2 * Word - 2
    <2> DEFINE x == e - 2 * Word - 2
    <2>1. (Size * 1 + x) % Size = x
        <3>1. x \in 0 .. Size - 1 /\ Size \in Nat /\ Size > 0
            BY <1>4, <1>8, <1>11 DEF Modulus
        <3> QED
            BY <3>1, DivisionIsUnique, Zenon
    <2>2. u + l = Size * 1 + x
        BY <1>4, <1>11
    <2>3. add_4(u, l) = x
        BY <2>1, <2>2, Zenon DEF add_4
    <2>4. do_cwc(h, data) = FoldTop(x)
        BY <1>10, <2>3, Zenon DEF do_cwc, p
    <2> QED
        BY <1>4, <1>8, <1>11, <2>4 DEF FoldTop, Modulus
<1>13. p % Modulus = e - 2 * Word
    <2>1. p = Modulus * (u + 2) + (e - 2 * Word)
        <3>1. ASSUME NEW m \in Nat, NEW x \in Nat, NEW y \in Nat, NEW d \in Nat,
                     x + y = 2 * (m + 1) + (d - 2)
              PROVE  (m + 1) * x + y = m * (x + 2) + d
            <4>1. (m + 1) * x = m * x + x /\ m * (x + 2) = m * x + 2 * m
                BY Z3
            <4> QED
                BY <3>1, <4>1, Z3
        <3>2. /\ Modulus \in Nat /\ Half = Modulus + 1 /\ e - 2 * Word \in Nat /\ l \in Nat
              /\ u + l = 2 * (Modulus + 1) + ((e - 2 * Word) - 2)
            BY <1>4, <1>8, <1>11 DEF Modulus
        <3> HIDE DEF u, l
        <3> QED
            BY <1>8, <1>9, <3>1, <3>2
    <2>2. Modulus \in Nat /\ Modulus > 0 /\ u + 2 \in Nat /\ e - 2 * Word \in 0 .. Modulus - 1
        BY <1>4, <1>8, <1>11 DEF Modulus
    <2> QED
        BY <2>1, <2>2, DivisionIsUnique, Zenon
<1>14. (e - 2 * Word - 2) % Modulus = e - 2 * Word - 2
    <2> DEFINE x == e - 2 * Word - 2
    <2>1. Modulus \in Nat /\ Modulus > 0 /\ x \in 0 .. Modulus - 1 /\ x = Modulus * 0 + x /\ 0 \in Nat
        BY <1>4, <1>8, <1>11 DEF Modulus
    <2> HIDE DEF x
    <2>2. (Modulus * 0 + x) % Modulus = x
        BY <2>1, DivisionIsUnique, Zenon
    <2>3. x % Modulus = x
        BY <2>1, <2>2, Zenon
    <2> QED
        BY <2>3 DEF x
<1>15. do_cwc(h, data) % Modulus # ((h + data) * z) % Modulus
    BY <1>7, <1>8, <1>11, <1>12, <1>13, <1>14
<1> QED
    BY <1>6, <1>15

-----------------------------------------------------------------------------
(* The ticket parser, for payloads of every length and fields that give any length *)

USE DEF OutsideThrows

\* What was read lies before the offset, but for the type a peek has seen.
ReadBehind ==
    outcome \in {"reading", "parsed"} => reach <= offset + (IF peeked THEN 2 ELSE 0)

Inv ==
    /\ TypeOK
    /\ ReadsStayNear
    /\ ReadBehind
    /\ outcome = "parsed" => offset <= length /\ ~ peeked
    /\ field = 0 => offset = 0

-----------------------------------------------------------------------------
\* The number of fields, and what the first and the last are.
LEMMA LayoutShape ==
    /\ Len(Layout) = 17
    /\ Layout[17] = "Binary"
    /\ \A f \in 1 .. 17 : Layout[f] \in {"U32", "U64", "Time"} => Width[Layout[f]] \in {4, 8}
  BY DEF Layout, Width

\* The constructor begins in front of everything.
LEMMA InitHolds == Init => Inv
<1> SUFFICES ASSUME Init PROVE Inv
    OBVIOUS
<1>1. length \in Nat
    BY LengthsAreNatural DEF Init
<1>2. TypeOK
    <2>1. field \in 0 .. Len(Layout) + 1 /\ field <= Len(Layout)
        BY LayoutShape DEF Init
    <2>2. peeked \in BOOLEAN
        BY Zenon DEF Init
    <2> QED
        BY <2>1, <2>2 DEF Init, TypeOK
<1>3. ReadsStayNear /\ ReadBehind
    BY <1>1 DEF Init, ReadsStayNear, ReadBehind
<1> QED
    BY <1>2, <1>3 DEF Init, Inv

\* A step that refuses the ticket leaves the invariant when what it touched is near.
LEMMA FailsKeeps ==
    ASSUME Inv, NEW how \in {"refused", "outOfRange", "date"}, Fails(how),
           reach' \in Nat, reach' <= length + 7
    PROVE  Inv'
  BY DEF Inv, Fails, TypeOK, ReadsStayNear, ReadBehind

\* A step that passes a field leaves it when what it touched lies before the new
\* offset, and the last field is inside the payload.
LEMMA PassesKeeps ==
    ASSUME Inv, NEW end \in Nat, field \in 0 .. Len(Layout), Passes(end),
           reach' \in Nat, reach' <= length + 7, reach' <= end,
           field = Len(Layout) => end <= length
    PROVE  Inv'
<1>1. /\ Len(Layout) = 17
      /\ offset' = end /\ field' = field + 1 /\ length' = length
      /\ outcome' = IF field = Len(Layout) THEN "parsed" ELSE "reading"
    BY LayoutShape DEF Passes, IsLast
<1>2. peeked' = FALSE /\ peeked' \in BOOLEAN
    BY Zenon DEF Passes
<1>3. TypeOK'
    <2>1. field' \in 0 .. Len(Layout) + 1 /\ (outcome' = "reading" => field' <= Len(Layout))
        BY <1>1
    <2> QED
        BY <1>1, <1>2, <2>1 DEF Inv, TypeOK
<1>4. ReadsStayNear' /\ ReadBehind'
    BY <1>1, <1>2 DEF ReadsStayNear, ReadBehind
<1>5. /\ outcome' = "parsed" => offset' <= length' /\ ~ peeked'
      /\ field' # 0
    BY <1>1, <1>2
<1> QED
    BY <1>3, <1>4, <1>5 DEF Inv

\* The head of a field is near, and behind its body.
LEMMA HeadIsNear ==
    ASSUME Inv, outcome = "reading", HeadRead
    PROVE  /\ Body \in Nat /\ length \in Nat /\ reach \in Nat /\ offset \in Nat
           /\ Body <= length + 1
           /\ reach <= Body /\ reach <= length + 7
  BY LengthsAreNatural
  DEF Inv, TypeOK, ReadsStayNear, ReadBehind, HeadRead, CanRead, Body

\* Bytes that end near, or before the offset, leave reach there.
LEMMA TouchBounds ==
    ASSUME reach \in Nat, NEW end \in Nat, Touch(end), NEW bound \in Nat,
           reach <= bound, end <= bound
    PROVE  reach' \in Nat /\ reach' <= bound
  BY DEF Touch

-----------------------------------------------------------------------------
LEMMA ReadHeaderKeeps == Inv /\ ReadHeader => Inv'
<1> SUFFICES ASSUME Inv, ReadHeader PROVE Inv'
    OBVIOUS
<1>1. /\ length \in Nat /\ reach \in Nat /\ reach <= length + 7
      /\ field = 0 /\ offset = 0 /\ outcome = "reading" /\ reach <= 2
    BY LengthsAreNatural DEF Inv, TypeOK, ReadHeader, ReadsStayNear, ReadBehind
<1>2. CASE Fails(OutsideThrows) /\ Touch(IF CanRead(0) THEN 4 ELSE 0)
    <2>1. reach' \in Nat /\ reach' <= length + 7
        BY <1>1, <1>2 DEF Touch
    <2> QED
        BY <1>2, <2>1, FailsKeeps
<1>3. CASE CanRead(4) /\ Fails("refused") /\ Touch(HeaderLength)
    <2>1. reach' \in Nat /\ reach' <= length + 7
        BY <1>1, <1>3 DEF Touch, HeaderLength, CanRead
    <2> QED
        BY <1>3, <2>1, FailsKeeps
<1>4. CASE HeaderLength <= length /\ Passes(HeaderLength) /\ Touch(HeaderLength)
    <2>1. /\ reach' \in Nat /\ reach' <= length + 7 /\ reach' <= HeaderLength
          /\ HeaderLength \in Nat
        BY <1>1, <1>4 DEF Touch, HeaderLength
    <2>2. field \in 0 .. Len(Layout) /\ field # Len(Layout)
        BY <1>1, LayoutShape
    <2> QED
        BY <1>4, <2>1, <2>2, PassesKeeps
<1> QED
    BY <1>2, <1>3, <1>4 DEF ReadHeader

LEMMA HeadOutsideKeeps == Inv /\ HeadOutside => Inv'
<1> SUFFICES ASSUME Inv, HeadOutside PROVE Inv'
    OBVIOUS
<1>1. length \in Nat /\ reach \in Nat /\ offset \in Nat /\ reach <= length + 7
    BY LengthsAreNatural DEF Inv, TypeOK, ReadsStayNear
<1>2. reach' \in Nat /\ reach' <= length + 7
    BY <1>1 DEF HeadOutside, Touch, CanRead
<1> QED
    BY <1>2, FailsKeeps DEF HeadOutside

LEMMA HeadRefusedKeeps == Inv /\ HeadRefused => Inv'
<1> SUFFICES ASSUME Inv, HeadRefused PROVE Inv'
    OBVIOUS
<1>1. length \in Nat /\ reach \in Nat /\ offset \in Nat /\ reach <= length + 7
    BY LengthsAreNatural DEF Inv, TypeOK, ReadsStayNear
<1>2. reach' \in Nat /\ reach' <= length + 7
    BY <1>1 DEF HeadRefused, Touch, CanRead
<1> QED
    BY <1>2, FailsKeeps DEF HeadRefused

\* The peek reads what the next field reads again.
LEMMA PeekEmptyKeeps == Inv /\ PeekEmpty => Inv'
<1> SUFFICES ASSUME Inv, PeekEmpty PROVE Inv'
    OBVIOUS
<1>1. /\ length \in Nat /\ reach \in Nat /\ offset \in Nat /\ field \in Nat
      /\ reach <= length + 7 /\ reach <= offset + 2 /\ offset < length
      /\ outcome = "reading" /\ field < 17 /\ Len(Layout) = 17
    <2>1. outcome = "reading" /\ field > 0 /\ Layout[field] = "Cookie" /\ offset < length
        BY DEF PeekEmpty, At, CanRead
    <2>2. field \in 0 .. 17 /\ field # 17
        BY <2>1, LayoutShape DEF Inv, TypeOK
    <2> QED
        BY <2>1, <2>2, LayoutShape, LengthsAreNatural DEF Inv, TypeOK, ReadsStayNear, ReadBehind
<1>2. /\ reach' \in Nat /\ reach' <= length + 7 /\ reach' <= offset + 2
      /\ length' = length /\ offset' = offset /\ outcome' = outcome /\ field' = field + 1
    BY <1>1 DEF PeekEmpty, Touch
<1>3. peeked' = TRUE /\ peeked' \in BOOLEAN
    BY Zenon DEF PeekEmpty
<1>4. TypeOK'
    BY <1>1, <1>2, <1>3 DEF Inv, TypeOK
<1> QED
    BY <1>1, <1>2, <1>3, <1>4 DEF Inv, ReadsStayNear, ReadBehind

\* A field that is a head and no more, and is not the last.
LEMMA HeadOnlyKeeps ==
    ASSUME Inv, HeadRead, At({"Blob", "Empty"}), Passes(Body), Touch(Body)
    PROVE  Inv'
<1>1. outcome = "reading" /\ field > 0 /\ Layout[field] \in {"Blob", "Empty"}
    BY DEF At
<1>2. field \in 0 .. Len(Layout) /\ field # Len(Layout)
    BY <1>1, LayoutShape DEF Inv, TypeOK
<1>3. reach' \in Nat /\ reach' <= length + 7 /\ reach' <= Body
    BY <1>1, HeadIsNear DEF Touch
<1> QED
    BY <1>1, <1>2, <1>3, HeadIsNear, PassesKeeps

LEMMA ReadNumberKeeps == Inv /\ ReadNumber => Inv'
<1> SUFFICES ASSUME Inv, ReadNumber PROVE Inv'
    OBVIOUS
<1>1. outcome = "reading" /\ field > 0 /\ Layout[field] \in {"U32", "U64", "Time"} /\ HeadRead
    BY DEF ReadNumber, At
<1>2. field \in 0 .. Len(Layout) /\ field # Len(Layout) /\ Width[Layout[field]] \in {4, 8}
    BY <1>1, LayoutShape DEF Inv, TypeOK
<1> DEFINE end == Body + Width[Layout[field]]
<1>3. CASE CanRead(Body) /\ Touch(end) /\ (Passes(end) \/ Fails("date"))
    <2>1. end \in Nat /\ end <= length + 7 /\ reach <= end
        BY <1>1, <1>2, <1>3, HeadIsNear DEF CanRead
    <2>2. reach' \in Nat /\ reach' <= length + 7 /\ reach' <= end
        BY <1>1, <1>3, <2>1, HeadIsNear DEF Touch
    <2> QED
        BY <1>2, <1>3, <2>1, <2>2, PassesKeeps, FailsKeeps
<1>4. CASE Touch(Body) /\ Fails(OutsideThrows)
    <2>1. reach' \in Nat /\ reach' <= length + 7
        BY <1>1, <1>4, HeadIsNear DEF Touch
    <2> QED
        BY <1>4, <2>1, FailsKeeps
<1> QED
    BY <1>3, <1>4 DEF ReadNumber

LEMMA ReadBinaryKeeps == Inv /\ ReadBinary => Inv'
<1> SUFFICES ASSUME Inv, ReadBinary PROVE Inv'
    OBVIOUS
<1>1. outcome = "reading" /\ HeadRead
    BY DEF ReadBinary, At
<1>2. field \in 0 .. Len(Layout)
    BY <1>1, LayoutShape DEF Inv, TypeOK
<1>3. PICK n \in FieldLengths :
        IF CanSlice(Body, n) THEN Passes(Body + n) /\ Touch(Body + n)
                             ELSE Fails(OutsideThrows) /\ Touch(Body)
    BY DEF ReadBinary
<1>4. n \in Nat
    BY LengthsAreNatural
<1>5. CASE CanSlice(Body, n) /\ Passes(Body + n) /\ Touch(Body + n)
    <2>1. Body + n \in Nat /\ Body + n <= length
        BY <1>1, <1>4, <1>5, HeadIsNear DEF CanSlice
    <2>2. reach' \in Nat /\ reach' <= length + 7 /\ reach' <= Body + n
        BY <1>1, <1>4, <1>5, <2>1, HeadIsNear DEF Touch
    <2> QED
        BY <1>2, <1>5, <2>1, <2>2, PassesKeeps
<1>6. CASE Fails(OutsideThrows) /\ Touch(Body)
    <2>1. reach' \in Nat /\ reach' <= length + 7
        BY <1>1, <1>6, HeadIsNear DEF Touch
    <2> QED
        BY <1>6, <2>1, FailsKeeps
<1> QED
    BY <1>3, <1>5, <1>6

\* A string whose terminator comes in time may pass the end: it is not the last field.
LEMMA ReadBStringKeeps == Inv /\ ReadBString => Inv'
<1> SUFFICES ASSUME Inv, ReadBString PROVE Inv'
    OBVIOUS
<1>1. outcome = "reading" /\ field > 0 /\ Layout[field] = "BString" /\ HeadRead
    BY DEF ReadBString, At
<1>2. field \in 0 .. Len(Layout) /\ field # Len(Layout)
    BY <1>1, LayoutShape DEF Inv, TypeOK
<1>3. PICK n \in FieldLengths :
        LET end == Body + StringLength(n) IN
        \/ CanSlice(Body, StringLength(n)) /\ Passes(end) /\ Touch(end)
        \/ ~ CanSlice(Body, StringLength(n)) /\ Body < length /\ Passes(end) /\ Touch(length)
        \/ ~ CanSlice(Body, StringLength(n)) /\ Fails(OutsideThrows) /\ Touch(Body)
    BY DEF ReadBString
<1> DEFINE end == Body + StringLength(n)
<1>4. StringLength(n) \in Nat /\ end \in Nat /\ Body <= end
    BY <1>1, LengthsAreNatural, HeadIsNear DEF StringLength
<1>5. CASE end <= length /\ Passes(end) /\ Touch(end)
    <2>1. reach' \in Nat /\ reach' <= length + 7 /\ reach' <= end
        BY <1>1, <1>4, <1>5, HeadIsNear DEF Touch
    <2> QED
        BY <1>2, <1>4, <1>5, <2>1, PassesKeeps
<1>6. CASE ~ (end <= length) /\ Passes(end) /\ Touch(length)
    <2>1. reach' \in Nat /\ reach' <= length + 7 /\ reach' <= end
        BY <1>1, <1>4, <1>6, HeadIsNear DEF Touch
    <2> QED
        BY <1>2, <1>4, <1>6, <2>1, PassesKeeps
<1>7. CASE Fails(OutsideThrows) /\ Touch(Body)
    <2>1. reach' \in Nat /\ reach' <= length + 7
        BY <1>1, <1>7, HeadIsNear DEF Touch
    <2> QED
        BY <1>7, <2>1, FailsKeeps
<1> QED
    BY <1>3, <1>5, <1>6, <1>7 DEF CanSlice

-----------------------------------------------------------------------------
\* The invariant is kept by every step of the parser.
LEMMA StepKeeps == Inv /\ [Next]_vars => Inv'
<1> SUFFICES ASSUME Inv, [Next]_vars PROVE Inv'
    OBVIOUS
<1>1. CASE ReadBlob
    BY <1>1, HeadOnlyKeeps DEF ReadBlob, At
<1>2. CASE ReadEmpty
    BY <1>2, HeadOnlyKeeps DEF ReadEmpty, At
<1>3. CASE UNCHANGED vars
    BY <1>3 DEF vars, Inv, TypeOK, ReadsStayNear, ReadBehind
<1> QED
    BY <1>1, <1>2, <1>3, ReadHeaderKeeps, HeadOutsideKeeps, HeadRefusedKeeps,
       ReadNumberKeeps, PeekEmptyKeeps, ReadBinaryKeeps, ReadBStringKeeps
    DEF Next

\* Where the parser is, what it has read and how it ended fit together.
THEOREM TicketInvHolds == Spec => []Inv
<1>1. Inv /\ [Next]_vars => Inv'
    BY StepKeeps
<1> QED
    BY <1>1, InitHolds, PTL DEF Spec

\* The offset, the field and the outcome keep their types (Ticket).
THEOREM TicketTypeCorrect == Spec => []TypeOK
<1>1. Inv => TypeOK
    BY DEF Inv
<1> QED
    BY <1>1, TicketInvHolds, PTL

\* A ticket that was parsed lies in the payload (Ticket.ReadSignature).
THEOREM ParsedTicketsAreInside == Spec => []ParsedInside
<1>1. Inv => ParsedInside
    BY LengthsAreNatural DEF Inv, TypeOK, ReadBehind, ParsedInside
<1> QED
    BY <1>1, TicketInvHolds, PTL

\* No number is completed with more than seven bytes from behind the payload
\* (BinaryBufferReader).
THEOREM ReadsAreNear == Spec => []ReadsStayNear
<1>1. Inv => ReadsStayNear
    BY DEF Inv
<1> QED
    BY <1>1, TicketInvHolds, PTL

\* Past the end the parser reads no other field, and its next read ends it
\* (Ticket.Expect).
THEOREM OverrunsAreNoticed == Spec => OverrunIsNoticed
<1>1. Inv /\ [Next]_vars =>
          [offset > length => field' = field /\ offset' = offset
                                /\ outcome' \notin {"reading", "parsed"}]_vars
    <2> SUFFICES ASSUME Inv, Next, offset > length
                 PROVE  field' = field /\ offset' = offset
                          /\ outcome' \notin {"reading", "parsed"}
        OBVIOUS
    <2>1. length \in Nat /\ offset \in Nat /\ ~ CanRead(offset)
        BY LengthsAreNatural DEF Inv, TypeOK, CanRead
    <2>2. ~ ReadHeader
        BY <2>1 DEF ReadHeader, Inv
    <2>3. HeadOutside
        BY <2>1, <2>2 DEF Next, HeadRefused, ReadBlob, ReadNumber, PeekEmpty, ReadEmpty,
                         ReadBinary, ReadBString, HeadRead
    <2> QED
        BY <2>3 DEF HeadOutside, Fails, OutsideThrows
<1> QED
    BY <1>1, TicketInvHolds, PTL DEF Spec, OverrunIsNoticed
==============================================================================
