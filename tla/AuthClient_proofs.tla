-------------------------- MODULE AuthClient_proofs --------------------------
(***************************************************************************)
(* Proofs about AuthClient for every set of session keys and game keys.    *)
(* Inv is inductive: each action that appends a reply starts from the      *)
(* length of the transcript that its state fixes, and every other action   *)
(* leaves the transcript and the keys alone.                               *)
(***************************************************************************)
EXTENDS AuthClient, SequenceTheorems, TLAPS

\* A reply built by SVFWMessageClient.SendAsync is a well formed record, and
\* with the cipher enabled it is under the session's cipher.
LEMMA ReplyType ==
    ASSUME TypeOK, NEW kind \in ReplyKinds, NEW key \in GameKeys \cup {NoKey}
    PROVE  /\ Reply(kind, key) \in Replies
           /\ Reply(kind, key).kind = kind
           /\ Reply(kind, key).key = key
           /\ cipherEnabled => Reply(kind, key).under = cipher
BY DEF Reply, Replies, TypeOK

\* Appending a reply leaves the earlier ones alone (SendAsync only adds).
LEMMA WireGrows ==
    ASSUME TypeOK, NEW r \in Replies, wire' = Append(wire, r)
    PROVE  /\ wire' \in Seq(Replies)
           /\ Len(wire') = Len(wire) + 1
           /\ \A i \in 1 .. Len(wire) : wire'[i] = wire[i]
           /\ wire'[Len(wire) + 1] = r
BY DEF TypeOK, Replies

\* A connection as it is accepted satisfies the invariant.
LEMMA InitInv == Init => Inv
<1> SUFFICES ASSUME Init PROVE Inv
    OBVIOUS
<1>1. wire = << >> /\ Len(wire) = 0 /\ wire \in Seq(Replies)
    BY DEF Init
<1>2. TypeOK
    BY <1>1 DEF Init, TypeOK, AuthStates
<1>3. Transcript
    BY <1>1 DEF Init, Transcript
<1>4. AnswersGiven /\ SocketOwnership
    BY <1>1 DEF Init, AnswersGiven, SocketOwnership,
                OpenAfterDisconnectOnlyForRefusal, EndedReceiveLeavesSocketClosed
<1> QED
    BY <1>2, <1>3, <1>4 DEF Inv

\* The transcript depends on nothing but the replies, the cipher and the keys.
LEMMA TranscriptUnchanged ==
    ASSUME Transcript, UNCHANGED << wire, cipherVars, keyVars >>
    PROVE  Transcript'
BY DEF Transcript, cipherVars, keyVars

\* Hanging up preserves the invariant (Disconnect in any handler).
LEMMA DisconnectInv ==
    ASSUME Inv, Disconnect, UNCHANGED peerClosed
    PROVE  Inv'
<1>1. TypeOK'
    BY DEF Inv, TypeOK, Disconnect, Dispose, cipherVars, keyVars, AuthStates
<1>2. Transcript'
    BY TranscriptUnchanged DEF Inv, Disconnect
<1>3. AnswersGiven'
    BY DEF Disconnect, AnswersGiven
<1>4. SocketOwnership'
    BY DEF Inv, Disconnect, Dispose, SocketOwnership,
           OpenAfterDisconnectOnlyForRefusal, EndedReceiveLeavesSocketClosed
<1> QED
    BY <1>1, <1>2, <1>3, <1>4 DEF Inv

\* So does an exception that leaves a handler.
LEMMA ThrowInv ==
    ASSUME Inv, ThrowFromHandler, UNCHANGED peerClosed
    PROVE  Inv'
<1>1. TypeOK'
    BY DEF Inv, TypeOK, ThrowFromHandler, cipherVars, keyVars
<1>2. Transcript'
    BY TranscriptUnchanged DEF Inv, ThrowFromHandler
<1>3. AnswersGiven'
    BY DEF Inv, ThrowFromHandler, AnswersGiven
<1>4. SocketOwnership'
    BY DEF Inv, ThrowFromHandler, SocketOwnership,
           OpenAfterDisconnectOnlyForRefusal, EndedReceiveLeavesSocketClosed
<1> QED
    BY <1>1, <1>2, <1>3, <1>4 DEF Inv

-----------------------------------------------------------------------------
(* The handlers *)

\* Answering a handshake: the transcript starts, in the clear, and the peer's
\* key becomes the session's cipher.
LEMMA HandshakeInv ==
    ASSUME Inv, NEW m \in Messages, Handle_WaitingForHandshakeRequest(m),
           UNCHANGED peerClosed
    PROVE  Inv'
<1> DEFINE r == [kind |-> "HandshakeReply", key |-> NoKey, under |-> "clear"]
<1>1. CASE Disconnect
    BY <1>1, DisconnectInv
<1>2. CASE ThrowFromHandler
    BY <1>2, ThrowInv
<1>3. CASE /\ m.payload.key \in SessionKeys
           /\ cipher' = m.payload.key
           /\ wire' = Append(wire, r)
           /\ cipherEnabled' = TRUE
           /\ authState' = "WaitingForServiceStatusRequest"
           /\ UNCHANGED << connVars, keyVars, refusal, asserted >>
    <2>1. r \in Replies /\ r.kind = "HandshakeReply" /\ r.under = "clear"
        BY DEF Replies, ReplyKinds
    <2> HIDE DEF r
    <2>2. Len(wire) = 0 /\ gameKey = NoKey /\ gameKeyBytes = NoKey /\ ticketKey = NoKey
        BY DEF Inv, Transcript, AnswersGiven, Handle_WaitingForHandshakeRequest
    <2>3. wire' \in Seq(Replies) /\ Len(wire') = 1 /\ wire'[1] = r
        BY <1>3, <2>1, <2>2, WireGrows DEF Inv
    <2>4. TypeOK'
        BY <1>3, <2>3 DEF Inv, TypeOK, AuthStates, connVars, keyVars
    <2>5. Transcript'
        BY <1>3, <2>1, <2>2, <2>3 DEF Transcript, keyVars
    <2>6. AnswersGiven'
        BY <1>3, <2>3 DEF AnswersGiven
    <2>7. SocketOwnership'
        BY <1>3 DEF Inv, SocketOwnership, OpenAfterDisconnectOnlyForRefusal,
                    EndedReceiveLeavesSocketClosed, connVars,
                    Handle_WaitingForHandshakeRequest
    <2> QED
        BY <2>4, <2>5, <2>6, <2>7 DEF Inv
<1> QED
    BY <1>1, <1>2, <1>3 DEF Handle_WaitingForHandshakeRequest

\* Answering a status request, or refusing the peer for its version: the second
\* reply, under the session's cipher.
LEMMA StatusInv ==
    ASSUME Inv, NEW m \in Messages, Handle_WaitingForServiceStatusRequest(m),
           UNCHANGED peerClosed
    PROVE  Inv'
<1>0. authState = "WaitingForServiceStatusRequest"
    BY DEF Handle_WaitingForServiceStatusRequest
<1>1. /\ authState = "WaitingForServiceStatusRequest"
      /\ Len(wire) = 1
      /\ gameKey = NoKey /\ gameKeyBytes = NoKey /\ ticketKey = NoKey
    <2>1. Len(wire) = 1
        BY <1>0 DEF Inv, AnswersGiven
    <2> QED
        BY <1>0, <2>1 DEF Inv, Transcript
<1>2. cipherEnabled /\ NoKey \in GameKeys \cup {NoKey}
    BY DEF Inv, Transcript
<1>3. CASE Disconnect
    BY <1>3, DisconnectInv
<1>4. CASE SendThenDisconnect("Refusal")
    <2> DEFINE r == Reply("Refusal", NoKey)
    <2>1. r \in Replies /\ r.kind = "Refusal" /\ r.under = cipher
        BY <1>2, ReplyType DEF Inv, ReplyKinds
    <2>2. wire' = Append(wire, r)
        BY <1>4 DEF SendThenDisconnect
    <2> HIDE DEF r
    <2>3. /\ wire' \in Seq(Replies) /\ Len(wire') = 2
          /\ wire'[1] = wire[1] /\ wire'[2] = r
        BY <1>1, <2>1, <2>2, WireGrows DEF Inv
    <2>4. TypeOK'
        BY <1>4, <2>3 DEF Inv, TypeOK, AuthStates, SendThenDisconnect, Dispose,
                          connVars, cipherVars, keyVars
    <2>5. Transcript'
        BY <1>1, <1>4, <2>1, <2>3 DEF Inv, Transcript, SendThenDisconnect,
                                      cipherVars, keyVars
    <2>6. AnswersGiven'
        BY <1>4 DEF AnswersGiven, SendThenDisconnect
    <2>7. SocketOwnership'
        BY <1>1, <1>4 DEF Inv, SocketOwnership, OpenAfterDisconnectOnlyForRefusal,
                          EndedReceiveLeavesSocketClosed, SendThenDisconnect,
                          Dispose, connVars
    <2> QED
        BY <2>4, <2>5, <2>6, <2>7 DEF Inv
<1>5. CASE /\ wire' = Append(wire, Reply("ServiceStatus", NoKey))
           /\ authState' = "WaitingForKeyMaterial"
           /\ UNCHANGED << connVars, cipherVars, keyVars, refusal, asserted >>
    <2> DEFINE r == Reply("ServiceStatus", NoKey)
    <2>1. r \in Replies /\ r.kind = "ServiceStatus" /\ r.under = cipher
        BY <1>2, ReplyType DEF Inv, ReplyKinds
    <2>2. wire' = Append(wire, r)
        BY <1>5
    <2> HIDE DEF r
    <2>3. /\ wire' \in Seq(Replies) /\ Len(wire') = 2
          /\ wire'[1] = wire[1] /\ wire'[2] = r
        BY <1>1, <2>1, <2>2, WireGrows DEF Inv
    <2>4. TypeOK'
        BY <1>5, <2>3 DEF Inv, TypeOK, AuthStates, connVars, cipherVars, keyVars
    <2>5. Transcript'
        BY <1>1, <1>5, <2>1, <2>3 DEF Inv, Transcript, cipherVars, keyVars
    <2>6. AnswersGiven'
        BY <1>5, <2>1, <2>3 DEF AnswersGiven
    <2>7. SocketOwnership'
        BY <1>1, <1>5 DEF Inv, SocketOwnership, OpenAfterDisconnectOnlyForRefusal,
                          EndedReceiveLeavesSocketClosed, connVars
    <2> QED
        BY <2>4, <2>5, <2>6, <2>7 DEF Inv
<1> QED
    BY <1>3, <1>4, <1>5 DEF Handle_WaitingForServiceStatusRequest

\* Issuing the game key: the key drawn is the one sent, stored and kept.
LEMMA KeyMaterialInv ==
    ASSUME Inv, NEW m \in Messages, Handle_WaitingForKeyMaterial(m),
           UNCHANGED peerClosed
    PROVE  Inv'
<1>0. authState = "WaitingForKeyMaterial"
    BY DEF Handle_WaitingForKeyMaterial
<1>1. /\ authState = "WaitingForKeyMaterial"
      /\ Len(wire) = 2 /\ wire[2].kind = "ServiceStatus"
      /\ ticketKey = NoKey
    <2>1. Len(wire) = 2 /\ wire[2].kind = "ServiceStatus"
        BY <1>0 DEF Inv, AnswersGiven
    <2> QED
        BY <1>0, <2>1 DEF Inv, Transcript
<1>2. cipherEnabled
    BY DEF Inv, Transcript
<1>3. CASE Disconnect
    BY <1>3, DisconnectInv
<1>4. CASE ThrowFromHandler
    BY <1>4, ThrowInv
<1>5. ASSUME NEW k \in GameKeys,
             gameKeyBytes' = k,
             gameKey' = k,
             wire' = Append(wire, Reply("KeyMaterial", k)),
             authState' = "WaitingForTicket",
             UNCHANGED << connVars, cipherVars, ticketKey, refusal, asserted >>
      PROVE  Inv'
    <2> DEFINE r == Reply("KeyMaterial", k)
    <2>1. r \in Replies /\ r.kind = "KeyMaterial" /\ r.key = k /\ r.under = cipher
        BY <1>2, ReplyType DEF Inv, ReplyKinds
    <2>2. wire' = Append(wire, r)
        BY <1>5
    <2> HIDE DEF r
    <2>3. /\ wire' \in Seq(Replies) /\ Len(wire') = 3
          /\ wire'[1] = wire[1] /\ wire'[2] = wire[2] /\ wire'[3] = r
        BY <1>1, <2>1, <2>2, WireGrows DEF Inv
    <2>4. TypeOK'
        BY <1>5, <2>3 DEF Inv, TypeOK, AuthStates, connVars, cipherVars
    <2>5. Transcript'
        BY <1>1, <1>5, <2>1, <2>3 DEF Inv, Transcript, cipherVars
    <2>6. AnswersGiven'
        BY <1>5, <2>3 DEF AnswersGiven
    <2>7. SocketOwnership'
        BY <1>1, <1>5 DEF Inv, SocketOwnership, OpenAfterDisconnectOnlyForRefusal,
                          EndedReceiveLeavesSocketClosed, connVars
    <2> QED
        BY <2>4, <2>5, <2>6, <2>7 DEF Inv
<1> QED
    BY <1>3, <1>4, <1>5 DEF Handle_WaitingForKeyMaterial

\* Admitting the bearer of a ticket: its cookie equals the stored bytes, which
\* the invariant makes the issued key.
LEMMA TicketInv ==
    ASSUME Inv, NEW m \in Messages, Handle_WaitingForTicket(m), UNCHANGED peerClosed
    PROVE  Inv'
<1>1. /\ authState = "WaitingForTicket"
      /\ Len(wire) = 3
      /\ gameKeyBytes = gameKey
    BY DEF Inv, Transcript, AnswersGiven, Handle_WaitingForTicket
<1>2. cipherEnabled /\ NoKey \in GameKeys \cup {NoKey}
    BY DEF Inv, Transcript
<1>3. CASE Disconnect
    BY <1>3, DisconnectInv
<1>4. CASE ThrowFromHandler
    BY <1>4, ThrowInv
<1>5. CASE /\ m.payload.key = gameKeyBytes
           /\ ticketKey' = m.payload.key
           /\ gameKeyBytes' = NoKey
           /\ wire' = Append(wire, Reply("ServerInfo", NoKey))
           /\ authState' = "Complete"
           /\ UNCHANGED << connVars, cipherVars, gameKey, refusal, asserted >>
    <2> DEFINE r == Reply("ServerInfo", NoKey)
    <2>1. r \in Replies /\ r.kind = "ServerInfo" /\ r.under = cipher
        BY <1>2, ReplyType DEF Inv, ReplyKinds
    <2>2. wire' = Append(wire, r)
        BY <1>5
    <2> HIDE DEF r
    <2>3. /\ wire' \in Seq(Replies) /\ Len(wire') = 4
          /\ wire'[1] = wire[1] /\ wire'[2] = wire[2] /\ wire'[3] = wire[3]
          /\ wire'[4] = r
        BY <1>1, <2>1, <2>2, WireGrows DEF Inv
    <2>4. TypeOK'
        BY <1>1, <1>5, <2>3 DEF Inv, TypeOK, AuthStates, connVars, cipherVars
    <2>5. Transcript'
        BY <1>1, <1>5, <2>1, <2>3 DEF Inv, Transcript, cipherVars
    <2>6. AnswersGiven'
        BY <1>5, <2>3 DEF AnswersGiven
    <2>7. SocketOwnership'
        BY <1>1, <1>5 DEF Inv, SocketOwnership, OpenAfterDisconnectOnlyForRefusal,
                          EndedReceiveLeavesSocketClosed, connVars
    <2> QED
        BY <2>4, <2>5, <2>6, <2>7 DEF Inv
<1> QED
    BY <1>3, <1>4, <1>5 DEF Handle_WaitingForTicket

\* Whatever a message makes Service do, the invariant survives it.
LEMMA ServiceInv ==
    ASSUME Inv, NEW m \in Messages, Service(m), UNCHANGED peerClosed
    PROVE  Inv'
<1>1. CASE Handle_WaitingForHandshakeRequest(m)
    BY <1>1, HandshakeInv
<1>2. CASE Handle_WaitingForServiceStatusRequest(m)
    BY <1>2, StatusInv
<1>3. CASE Handle_WaitingForKeyMaterial(m)
    BY <1>3, KeyMaterialInv
<1>4. CASE Handle_WaitingForTicket(m)
    BY <1>4, TicketInv
<1>5. CASE Handle_Complete
    BY <1>5, DisconnectInv DEF Handle_Complete
<1>6. CASE Handle_Disconnected
    <2>1. TypeOK'
        BY <1>6 DEF Inv, TypeOK, Handle_Disconnected, connVars, cipherVars, keyVars
    <2>2. Transcript'
        BY <1>6, TranscriptUnchanged DEF Inv, Handle_Disconnected
    <2>3. AnswersGiven'
        BY <1>6 DEF Inv, AnswersGiven, Handle_Disconnected
    <2>4. SocketOwnership'
        BY <1>6 DEF Inv, SocketOwnership, OpenAfterDisconnectOnlyForRefusal,
                    EndedReceiveLeavesSocketClosed, Handle_Disconnected, connVars
    <2> QED
        BY <2>1, <2>2, <2>3, <2>4 DEF Inv
<1> QED
    BY <1>1, <1>2, <1>3, <1>4, <1>5, <1>6 DEF Service

-----------------------------------------------------------------------------
(* The receive task, the timer, the peer and the refusal's continuation *)

\* The steps that are not handlers leave the session's transcript, state and
\* keys alone; what they do to the socket keeps to SocketOwnership.
LEMMA OtherStepsInv ==
    ASSUME Inv,
           \/ PeerCloses \/ PeerResets \/ Timeout
           \/ RefusalWritten \/ RefusalWriteFails \/ ReadAborted
    PROVE  Inv'
<1>1. /\ UNCHANGED << authState, wire, cipherVars, keyVars, asserted >>
      /\ TypeOK'
      /\ SocketOwnership'
    <2> USE DEF Inv, TypeOK, connVars, cipherVars, keyVars, Reading, SocketOwnership,
                OpenAfterDisconnectOnlyForRefusal, EndedReceiveLeavesSocketClosed
    <2>1. CASE PeerCloses
        BY <2>1 DEF PeerCloses
    <2>2. CASE PeerResets
        BY <2>2 DEF PeerResets
    <2>3. CASE Timeout
        BY <2>3 DEF Timeout
    <2>4. CASE RefusalWritten
        BY <2>4 DEF RefusalWritten, Dispose
    <2>5. CASE RefusalWriteFails
        BY <2>5 DEF RefusalWriteFails
    <2>6. CASE ReadAborted
        BY <2>6 DEF ReadAborted
    <2> QED
        BY <2>1, <2>2, <2>3, <2>4, <2>5, <2>6
<1>2. Transcript'
    BY <1>1, TranscriptUnchanged DEF Inv
<1>3. AnswersGiven'
    BY <1>1 DEF Inv, AnswersGiven
<1> QED
    BY <1>1, <1>2, <1>3 DEF Inv

LEMMA NextInv == Inv /\ [Next]_vars => Inv'
<1> SUFFICES ASSUME Inv, [Next]_vars PROVE Inv'
    OBVIOUS
<1>1. ASSUME NEW m \in Messages, OnReceived(m) PROVE Inv'
    BY <1>1, ServiceInv, ThrowInv DEF OnReceived
<1>2. CASE \/ PeerCloses \/ PeerResets \/ Timeout
           \/ RefusalWritten \/ RefusalWriteFails \/ ReadAborted
    BY <1>2, OtherStepsInv
<1>3. CASE UNCHANGED vars
    <2>1. TypeOK'
        BY <1>3 DEF Inv, TypeOK, vars
    <2>2. Transcript'
        BY <1>3 DEF Inv, Transcript, vars
    <2>3. AnswersGiven' /\ SocketOwnership'
        BY <1>3 DEF Inv, AnswersGiven, SocketOwnership, vars,
                    OpenAfterDisconnectOnlyForRefusal, EndedReceiveLeavesSocketClosed
    <2> QED
        BY <2>1, <2>2, <2>3 DEF Inv
<1> QED
    BY <1>1, <1>2, <1>3 DEF Next

-----------------------------------------------------------------------------
(* The theorems *)

\* Every state of a connection satisfies the invariant: the replies are those
\* its state implies, in the protocol's order, and the socket is closed unless
\* the session goes on, its receive task faulted or its refusal is stuck.
THEOREM InvHolds == Spec => []Inv
BY InitInv, NextInv, PTL DEF Spec

\* Every variable of a connection keeps its type.
THEOREM TypeCorrect == Spec => []TypeOK
<1>1. Inv => TypeOK
    BY DEF Inv
<1> QED
    BY <1>1, InvHolds, PTL

\* The game server's address goes only to a peer that brought back the key the
\* session issued, whatever keys there are (Handle_WaitingForTicket).
THEOREM AdmissionIsBound == Spec => []AdmissionBindsIssuedKey
<1>1. Inv => AdmissionBindsIssuedKey
    <2> SUFFICES ASSUME Inv, NEW i \in 1 .. Len(wire), wire[i].kind = "ServerInfo"
                 PROVE  /\ i = 4
                        /\ wire[3].kind = "KeyMaterial"
                        /\ wire[3].key \in GameKeys
                        /\ ticketKey = wire[3].key
                        /\ gameKey = wire[3].key
        BY DEF AdmissionBindsIssuedKey
    <2>1. Len(wire) \in 0 .. 4 /\ i \in 1 .. 4
        BY DEF Inv, Transcript
    <2>2. i # 1 /\ i # 2 /\ i # 3
        BY <2>1 DEF Inv, Transcript
    <2>3. i = 4 /\ Len(wire) = 4
        BY <2>1, <2>2
    <2> QED
        BY <2>3 DEF Inv, Transcript
<1> QED
    BY <1>1, InvHolds, PTL

\* Every reply after the handshake's is encrypted with the key the peer chose
\* (SetCipher and CipherEnabled of SVFWMessageClient).
THEOREM RepliesAreEncrypted == Spec => []RepliesUnderSessionKey
<1>1. Inv => RepliesUnderSessionKey
    <2> SUFFICES ASSUME Inv, NEW i \in 1 .. Len(wire)
                 PROVE  IF i = 1 THEN wire[i].under = "clear"
                                 ELSE wire[i].under = cipher /\ cipher \in SessionKeys
        BY DEF RepliesUnderSessionKey
    <2>1. Len(wire) \in 0 .. 4 /\ i \in 1 .. 4 /\ i <= Len(wire)
        <3>1. Len(wire) \in 0 .. 4 /\ Len(wire) \in Nat
            BY DEF Inv, Transcript
        <3> DEFINE n == Len(wire)
        <3> HIDE DEF n
        <3>2. n \in 0 .. 4 /\ i \in 1 .. n
            BY <3>1 DEF n
        <3>3. i \in 1 .. 4 /\ i <= n
            BY <3>2
        <3> QED
            BY <3>1, <3>3 DEF n
    <2>2. cipher \in SessionKeys /\ wire[1].under = "clear"
        BY <2>1 DEF Inv, Transcript
    <2>3. CASE i = 1
        BY <2>2, <2>3
    <2>4. CASE i = 2
        BY <2>1, <2>2, <2>4 DEF Inv, Transcript
    <2>5. CASE i = 3
        BY <2>1, <2>2, <2>5 DEF Inv, Transcript
    <2>6. CASE i = 4
        BY <2>1, <2>2, <2>6 DEF Inv, Transcript
    <2> QED
        BY <2>1, <2>3, <2>4, <2>5, <2>6
<1> QED
    BY <1>1, InvHolds, PTL

\* The bytes a ticket is compared with are the key sent, and are erased once a
\* ticket was accepted (GameCwcKeyBytes).
THEOREM KeyBytesAreBound == Spec => []KeyBytesFollowTheSession
<1>1. Inv => KeyBytesFollowTheSession
    <2> SUFFICES ASSUME Inv PROVE KeyBytesFollowTheSession
        OBVIOUS
    <2>1. ASSUME authState = "WaitingForTicket" PROVE gameKeyBytes = wire[Len(wire)].key
        <3>1. Len(wire) = 3
            BY <2>1 DEF Inv, AnswersGiven
        <3> QED
            BY <3>1 DEF Inv, Transcript
    <2>2. ASSUME ticketKey # NoKey PROVE gameKeyBytes = NoKey /\ Len(wire) = 4
        <3> DEFINE n == Len(wire)
        <3>1. n \in 0 .. 4 /\ ~(n < 4)
            BY <2>2 DEF Inv, Transcript
        <3> HIDE DEF n
        <3>2. n = 4
            BY <3>1
        <3> USE DEF n
        <3> QED
            BY <3>2 DEF Inv, Transcript
    <2> QED
        BY <2>1, <2>2 DEF KeyBytesFollowTheSession
<1> QED
    BY <1>1, InvHolds, PTL

\* A session is left with an open socket only by a refusal still being written
\* or one that failed (SendThenDisconnect).
THEOREM SocketsAreClosed == Spec => []OpenAfterDisconnectOnlyForRefusal
<1>1. Inv => OpenAfterDisconnectOnlyForRefusal
    BY DEF Inv, SocketOwnership
<1> QED
    BY <1>1, InvHolds, PTL

\* A receive task that returns has left a closed socket behind it; only an
\* exception ends it over an open one (NetTcpClient.ReceiveAsync).
THEOREM EndedReceiveHasClosed == Spec => []EndedReceiveLeavesSocketClosed
<1>1. Inv => EndedReceiveLeavesSocketClosed
    BY DEF Inv, SocketOwnership
<1> QED
    BY <1>1, InvHolds, PTL

\* A disconnected session answers nothing and agrees on nothing any more,
\* whatever its receive loop still delivers.
THEOREM DisconnectedIsSilent == Spec => SilentOnceDisconnected
<1> DEFINE A == authState = "Disconnected" =>
                    UNCHANGED << authState, wire, cipherVars, keyVars >>
<1>1. ASSUME [Next]_vars PROVE [A]_vars
    <2> SUFFICES ASSUME Next, authState = "Disconnected"
                 PROVE  UNCHANGED << authState, wire, cipherVars, keyVars >>
        BY <1>1
    <2>1. ASSUME NEW m \in Messages, OnReceived(m)
          PROVE  UNCHANGED << authState, wire, cipherVars, keyVars >>
        <3>1. CASE Service(m)
            <4>1. Handle_Disconnected
                BY <3>1 DEF Service, Handle_WaitingForHandshakeRequest,
                    Handle_WaitingForServiceStatusRequest, Handle_WaitingForKeyMaterial,
                    Handle_WaitingForTicket, Handle_Complete
            <4> QED
                BY <4>1 DEF Handle_Disconnected
        <3>2. CASE ThrowFromHandler
            BY <3>2 DEF ThrowFromHandler
        <3> QED
            BY <2>1, <3>1, <3>2 DEF OnReceived
    <2>2. CASE \/ PeerCloses \/ PeerResets \/ Timeout
               \/ RefusalWritten \/ RefusalWriteFails \/ ReadAborted
        BY <2>2 DEF PeerCloses, PeerResets, Timeout, ThrowFromHandler,
                    RefusalWritten, RefusalWriteFails, ReadAborted
    <2> QED
        BY <2>1, <2>2 DEF Next
<1> QED
    BY <1>1, PTL DEF Spec, SilentOnceDisconnected

-----------------------------------------------------------------------------
(* AuthClient implements AuthProtocol *)

\* The names of the replies of a transcript, which grow as the transcript does.
LEMMA KindsIsSeq ==
    ASSUME NEW w \in Seq(Replies)
    PROVE  /\ Kinds(w) \in Seq(ReplyKinds)
           /\ Len(Kinds(w)) = Len(w)
           /\ \A i \in 1 .. Len(w) : Kinds(w)[i] = w[i].kind
<1>1. Len(w) \in Nat /\ \A i \in 1 .. Len(w) : w[i] \in Replies
    BY ElementOfSeq, LenProperties
<1>2. Kinds(w) \in [1 .. Len(w) -> ReplyKinds]
    BY <1>1 DEF Kinds, Replies
<1>3. Kinds(w) \in Seq(ReplyKinds)
    BY <1>1, <1>2, SeqDef
<1>4. 1 .. Len(w) = 1 .. Len(Kinds(w)) /\ Len(Kinds(w)) \in Nat
    BY <1>2, <1>3, LenProperties
<1>5. Len(Kinds(w)) = Len(w)
    BY <1>1, <1>4
<1> QED
    BY <1>3, <1>5 DEF Kinds

LEMMA KindsOfAppend ==
    ASSUME NEW w \in Seq(Replies), NEW r \in Replies
    PROVE  Kinds(Append(w, r)) = Append(Kinds(w), r.kind)
<1>1. /\ Append(w, r) \in Seq(Replies)
      /\ Len(Append(w, r)) = Len(w) + 1
      /\ Len(w) \in Nat
      /\ \A i \in 1 .. Len(w) : Append(w, r)[i] = w[i]
      /\ Append(w, r)[Len(w) + 1] = r
    BY AppendProperties, LenProperties
<1>2. /\ Kinds(w) \in Seq(ReplyKinds) /\ Len(Kinds(w)) = Len(w)
      /\ \A i \in 1 .. Len(w) : Kinds(w)[i] = w[i].kind
    BY KindsIsSeq
<1>3. /\ Kinds(Append(w, r)) \in Seq(ReplyKinds)
      /\ Len(Kinds(Append(w, r))) = Len(w) + 1
      /\ \A i \in 1 .. Len(w) + 1 : Kinds(Append(w, r))[i] = Append(w, r)[i].kind
    BY <1>1, KindsIsSeq
<1>4. /\ Append(Kinds(w), r.kind) \in Seq(ReplyKinds)
      /\ Len(Append(Kinds(w), r.kind)) = Len(w) + 1
      /\ \A i \in 1 .. Len(w) : Append(Kinds(w), r.kind)[i] = w[i].kind
      /\ Append(Kinds(w), r.kind)[Len(w) + 1] = r.kind
    BY <1>2, AppendProperties DEF Replies
<1>5. ASSUME NEW i \in 1 .. Len(w) + 1
      PROVE  Kinds(Append(w, r))[i] = Append(Kinds(w), r.kind)[i]
    <2>1. CASE i = Len(w) + 1
        BY <1>1, <1>3, <1>4, <2>1
    <2>2. CASE i # Len(w) + 1
        <3>1. i \in 1 .. Len(w)
            BY <1>1, <2>2
        <3> QED
            BY <1>1, <1>3, <1>4, <3>1
    <2> QED
        BY <2>1, <2>2
<1> QED
    BY <1>3, <1>4, <1>5, SeqEqual

\* An appended reply is one more answer of the protocol.
LEMMA AnswerStep ==
    ASSUME TypeOK, NEW n \in 1 .. 4, Len(wire) = n - 1,
           authState # "Disconnected", recv = "reading",
           NEW r \in Replies, r.kind = Protocol!Answers[n],
           wire' = Append(wire, r)
    PROVE  Protocol!Answer(n)
<1>1. Kinds(wire)' = Append(Kinds(wire), r.kind) /\ Len(Kinds(wire)) = n - 1
    BY KindsOfAppend, KindsIsSeq DEF TypeOK
<1> QED
    BY <1>1 DEF Protocol!Answer

\* A handler is a step of the protocol, or changes nothing the peer can see.
LEMMA ServiceRefines ==
    ASSUME Inv, recv = "reading", NEW m \in Messages, Service(m)
    PROVE  [Protocol!ProtocolNext]_(Protocol!protocolVars)
<1> DEFINE Step == [Protocol!ProtocolNext]_(Protocol!protocolVars)
<1> USE DEF Protocol!ProtocolNext
<1>1. ASSUME authState # "Disconnected", Disconnect PROVE Protocol!HangUp
    BY <1>1 DEF Disconnect, keyVars, Protocol!HangUp
<1>2. ASSUME authState # "Disconnected", ThrowFromHandler PROVE Protocol!HangUp
    BY <1>2 DEF ThrowFromHandler, keyVars, Protocol!HangUp
<1>3. CASE Handle_WaitingForHandshakeRequest(m)
    <2>1. authState = "WaitingForHandshakeRequest"
        BY <1>3 DEF Handle_WaitingForHandshakeRequest
    <2>2. Len(wire) = 0
        BY <2>1 DEF Inv, AnswersGiven
    <2> DEFINE r == [kind |-> "HandshakeReply", key |-> NoKey, under |-> "clear"]
    <2>3. ASSUME wire' = Append(wire, r),
                 authState' = "WaitingForServiceStatusRequest",
                 UNCHANGED << connVars, keyVars, refusal, asserted >>
          PROVE  Protocol!AnswerHandshake
        <3>1. r \in Replies /\ r.kind = Protocol!Answers[1]
            BY DEF Replies, ReplyKinds, Protocol!Answers
        <3> HIDE DEF r
        <3>2. Protocol!Answer(1)
            BY <2>1, <2>2, <2>3, <3>1, AnswerStep DEF Inv
        <3> QED
            BY <2>1, <2>3, <3>2 DEF Protocol!AnswerHandshake, connVars, keyVars
    <2> QED
        BY <1>1, <1>2, <1>3, <2>1, <2>3 DEF Handle_WaitingForHandshakeRequest
<1>4. CASE Handle_WaitingForServiceStatusRequest(m)
    <2>1. authState = "WaitingForServiceStatusRequest"
        BY <1>4 DEF Handle_WaitingForServiceStatusRequest
    <2>2. Len(wire) = 1 /\ TypeOK
        BY <2>1 DEF Inv, AnswersGiven
    <2>3. ASSUME SendThenDisconnect("Refusal") PROVE Protocol!Refuse
        <3>1. Reply("Refusal", NoKey) \in Replies /\ Reply("Refusal", NoKey).kind = "Refusal"
            BY <2>2, ReplyType DEF ReplyKinds
        <3>2. Kinds(wire)' = Append(Kinds(wire), "Refusal") /\ Len(Kinds(wire)) = 1
            BY <2>2, <2>3, <3>1, KindsOfAppend, KindsIsSeq DEF TypeOK, SendThenDisconnect
        <3> QED
            BY <2>1, <2>3, <3>2 DEF Protocol!Refuse, SendThenDisconnect, keyVars
    <2>4. ASSUME wire' = Append(wire, Reply("ServiceStatus", NoKey)),
                 authState' = "WaitingForKeyMaterial",
                 UNCHANGED << connVars, cipherVars, keyVars, refusal, asserted >>
          PROVE  Protocol!AnswerStatus
        <3>1. /\ Reply("ServiceStatus", NoKey) \in Replies
              /\ Reply("ServiceStatus", NoKey).kind = Protocol!Answers[2]
            BY <2>2, ReplyType DEF ReplyKinds, Protocol!Answers
        <3>2. Protocol!Answer(2)
            BY <2>1, <2>2, <2>4, <3>1, AnswerStep
        <3> QED
            BY <2>1, <2>4, <3>2 DEF Protocol!AnswerStatus, connVars, keyVars
    <2> QED
        BY <1>1, <1>4, <2>1, <2>3, <2>4 DEF Handle_WaitingForServiceStatusRequest
<1>5. CASE Handle_WaitingForKeyMaterial(m)
    <2>1. authState = "WaitingForKeyMaterial"
        BY <1>5 DEF Handle_WaitingForKeyMaterial
    <2>2. Len(wire) = 2 /\ TypeOK
        BY <2>1 DEF Inv, AnswersGiven
    <2>3. ASSUME NEW k \in GameKeys,
                 gameKey' = k,
                 wire' = Append(wire, Reply("KeyMaterial", k)),
                 authState' = "WaitingForTicket",
                 UNCHANGED << connVars, cipherVars, ticketKey, refusal, asserted >>
          PROVE  Protocol!IssueKey
        <3>1. /\ Reply("KeyMaterial", k) \in Replies
              /\ Reply("KeyMaterial", k).kind = Protocol!Answers[3]
            BY <2>2, ReplyType DEF ReplyKinds, Protocol!Answers
        <3>2. Protocol!Answer(3)
            BY <2>1, <2>2, <2>3, <3>1, AnswerStep
        <3> QED
            BY <2>1, <2>3, <3>2 DEF Protocol!IssueKey, connVars
    <2> QED
        BY <1>1, <1>2, <1>5, <2>1, <2>3 DEF Handle_WaitingForKeyMaterial
<1>6. CASE Handle_WaitingForTicket(m)
    <2>1. authState = "WaitingForTicket"
        BY <1>6 DEF Handle_WaitingForTicket
    <2>2. Len(wire) = 3 /\ TypeOK
        BY <2>1 DEF Inv, AnswersGiven
    <2>3. gameKeyBytes = gameKey
        BY <2>2 DEF Inv, Transcript
    <2>4. ASSUME m.payload.key = gameKeyBytes,
                 ticketKey' = m.payload.key,
                 wire' = Append(wire, Reply("ServerInfo", NoKey)),
                 authState' = "Complete",
                 UNCHANGED << connVars, cipherVars, gameKey, refusal, asserted >>
          PROVE  Protocol!Admit
        <3>1. /\ Reply("ServerInfo", NoKey) \in Replies
              /\ Reply("ServerInfo", NoKey).kind = Protocol!Answers[4]
            BY <2>2, ReplyType DEF ReplyKinds, Protocol!Answers
        <3>2. Protocol!Answer(4)
            BY <2>1, <2>2, <2>4, <3>1, AnswerStep
        <3> QED
            BY <2>1, <2>3, <2>4, <3>2 DEF Protocol!Admit, connVars
    <2> QED
        BY <1>1, <1>2, <1>6, <2>1, <2>4 DEF Handle_WaitingForTicket
<1>7. CASE Handle_Complete
    BY <1>1, <1>7 DEF Handle_Complete
<1>8. CASE Handle_Disconnected
    BY <1>8 DEF Handle_Disconnected, Protocol!protocolVars, connVars, keyVars
<1> QED
    BY <1>3, <1>4, <1>5, <1>6, <1>7, <1>8 DEF Service

\* AuthClient implements AuthProtocol for every set of keys: the answers come
\* in the protocol's order, none follows a refusal or a disconnect, and the
\* peer is admitted with the key that was issued to it.
THEOREM Refinement == Spec => ImplementsProtocol
<1>1. Init => Protocol!ProtocolInit
    BY DEF Init, Protocol!ProtocolInit, Kinds
<1>2. ASSUME Inv, [Next]_vars PROVE [Protocol!ProtocolNext]_(Protocol!protocolVars)
    <2> USE DEF Protocol!ProtocolNext, Protocol!HangUp, Protocol!protocolVars, keyVars
    <2>1. ASSUME NEW m \in Messages, OnReceived(m)
          PROVE  [Protocol!ProtocolNext]_(Protocol!protocolVars)
        <3>1. recv = "reading"
            BY <2>1 DEF OnReceived, Reading
        <3>2. CASE Service(m)
            BY <1>2, <3>1, <3>2, ServiceRefines
        <3>3. CASE ThrowFromHandler
            BY <3>1, <3>3 DEF ThrowFromHandler
        <3> QED
            BY <2>1, <3>2, <3>3 DEF OnReceived
    <2>2. CASE PeerCloses
        BY <2>2 DEF PeerCloses, connVars
    <2>3. CASE PeerResets
        BY <2>3 DEF PeerResets, Reading
    <2>4. CASE Timeout
        BY <2>4 DEF Timeout, Reading
    <2>5. CASE RefusalWritten
        BY <2>5 DEF RefusalWritten
    <2>6. CASE RefusalWriteFails
        BY <2>6 DEF RefusalWriteFails, connVars
    <2>7. CASE ReadAborted
        BY <2>7 DEF ReadAborted
    <2>8. CASE UNCHANGED vars
        BY <2>8 DEF vars
    <2> QED
        BY <1>2, <2>1, <2>2, <2>3, <2>4, <2>5, <2>6, <2>7, <2>8 DEF Next
<1> QED
    BY <1>1, <1>2, InvHolds, PTL DEF Spec, ImplementsProtocol, Protocol!ProtocolSpec

=============================================================================
