----------------------------- MODULE AuthClient -----------------------------
(***************************************************************************)
(* One connection to the authentication server: the four step handshake of *)
(* AuthClient on top of the message, packet and socket objects that carry  *)
(* it.  A handler runs to its end on the receive task, so one action is    *)
(* one whole handler, with the SVFWMessageClient and NetTcpClient calls it *)
(* makes.  Only the write of a refusal is awaited: its continuation runs   *)
(* concurrently with the receive loop, and is an action of its own.        *)
(*                                                                         *)
(* A message is what decides the handlers' branches: the type in its       *)
(* header, the cipher its payload was encrypted with, and what its payload *)
(* is to the parsers.  The peer may send any message at any time.          *)
(***************************************************************************)
EXTENDS Naturals, Sequences

CONSTANTS SessionKeys,    \* CWC keys a peer may bring in its handshake
          GameKeys,       \* CWC keys the server may draw for the game traffic
          NoKey,          \* sixteen zero bytes, also "no key yet"
          TimeoutEnabled  \* the configured client timeout is positive

ASSUME NoKeyIsNoGameKey == NoKey \notin GameKeys
ASSUME CipherNamesDistinct == {"rsa", "clear"} \cap SessionKeys = {}
ASSUME TimeoutIsSwitch == TimeoutEnabled \in BOOLEAN

VARIABLES
    authState,      \* AuthState
    disposed,       \* disposedValue of AuthClient and of the clients under it
    open,           \* the TCP socket has not been closed by this side
    peerClosed,     \* the peer has shut its side: reads return zero bytes
    recv,           \* the receive task: "reading", "ended" or "faulted"
    cipher,         \* EncryptionCipher and DecryptionCipher: "rsa" or a key
    cipherEnabled,  \* CipherEnabled
    wire,           \* the replies handed to the socket, oldest first
    gameKeyBytes,   \* GameCwcKeyBytes, what a ticket is compared with
    gameKey,        \* GameCwcKey
    ticketKey,      \* history: the cookie of the ticket that was accepted
    refusal,        \* SendThenDisconnect: "none", "writing", "written", "failed"
    asserted        \* history: Debug.Assert(false) of Service was reached

connVars == << disposed, open, recv >>
cipherVars == << cipher, cipherEnabled >>
keyVars == << gameKeyBytes, gameKey, ticketKey >>
vars == << authState, disposed, open, peerClosed, recv, cipher, cipherEnabled,
           wire, gameKeyBytes, gameKey, ticketKey, refusal, asserted >>

-----------------------------------------------------------------------------
(* Messages *)

AuthStates == { "WaitingForHandshakeRequest", "WaitingForServiceStatusRequest",
                "WaitingForKeyMaterial", "WaitingForTicket",
                "Complete", "Disconnected" }

\* "Other" stands for every type these handlers do not name: a ticket has one.
MessageTypes == { "RequestHandshake", "GetServiceStatus", "KeyMaterial", "Other" }

\* Tickets that parse and are refused for their dates or their title.
RejectedTickets == { "futureTicket", "expiredTicket", "foreignTicket" }

\* "handshake" with NoKey is a request whose key has no AES length; "ticket"
\* carries the cookie it was issued for; "short" is under sixteen bytes.
Payloads ==
    [kind : {"handshake"}, key : SessionKeys \cup {NoKey}]
      \cup [kind : {"ticket"}, key : GameKeys \cup {NoKey}]
      \cup [kind : RejectedTickets \cup
                     { "supported", "unsupported", "keyPart", "short", "shortCookie" },
            key : {NoKey}]

Messages == [type : MessageTypes, under : SessionKeys \cup {"rsa"}, payload : Payloads]

ReplyKinds == { "HandshakeReply", "ServiceStatus", "KeyMaterial", "ServerInfo", "Refusal" }

\* What the socket is given: the reply, the game key in it, what it is under.
Replies == [kind : ReplyKinds, key : GameKeys \cup {NoKey},
            under : SessionKeys \cup {"rsa", "clear"}]

\* SVFWMessageClient.SendAsync encrypts under the cipher of the moment.
Reply(kind, key) ==
    [kind |-> kind, key |-> key, under |-> IF cipherEnabled THEN cipher ELSE "clear"]

-----------------------------------------------------------------------------
Init ==
    /\ authState = "WaitingForHandshakeRequest"
    /\ disposed = FALSE
    /\ open = TRUE
    /\ peerClosed = FALSE
    /\ recv = "reading"
    /\ cipher = "rsa"
    /\ cipherEnabled = TRUE
    /\ wire = << >>
    /\ gameKeyBytes = NoKey
    /\ gameKey = NoKey
    /\ ticketKey = NoKey
    /\ refusal = "none"
    /\ asserted = FALSE

Dispose ==
    /\ disposed' = TRUE
    /\ open' = FALSE

\* Faulty variant: the state is set but the sockets are not disposed of.
Disconnect_KeepsSocket ==
    /\ authState' = "Disconnected"
    /\ UNCHANGED << connVars, cipherVars, wire, keyVars, refusal, asserted >>

\* Disconnect(reason) inside a handler: back in the receive loop the socket is
\* no longer connected, and the loop breaks.
Disconnect ==
    /\ authState' = "Disconnected"
    /\ Dispose
    /\ recv' = "ended"
    /\ UNCHANGED << cipherVars, wire, keyVars, refusal, asserted >>

\* An exception leaves the handler and then ReceiveAsync, which catches only
\* cancellation: the task faults and nobody closes the socket.
ThrowFromHandler ==
    /\ recv' = "faulted"
    /\ UNCHANGED << authState, disposed, open, cipherVars, wire, keyVars,
                    refusal, asserted >>

-----------------------------------------------------------------------------
(* The handlers *)

\* Faulty variant: CipherEnabled is not set again after the reply.
Handle_WaitingForHandshakeRequest_CipherLeftOff(m) ==
    /\ authState = "WaitingForHandshakeRequest"
    /\ m.type = "RequestHandshake"
    /\ m.payload.kind = "handshake"
    /\ m.payload.key \in SessionKeys
    /\ cipher' = m.payload.key
    /\ cipherEnabled' = FALSE
    /\ wire' = Append(wire, [kind |-> "HandshakeReply", key |-> NoKey, under |-> "clear"])
    /\ authState' = "WaitingForServiceStatusRequest"
    /\ UNCHANGED << connVars, keyVars, refusal, asserted >>

Handle_WaitingForHandshakeRequest(m) ==
    /\ authState = "WaitingForHandshakeRequest"
    /\ \/ /\ m.type # "RequestHandshake" \/ m.payload.kind # "handshake"
          /\ Disconnect
       \/ /\ m.type = "RequestHandshake"
          /\ m.payload.kind = "handshake"
          /\ m.payload.key = NoKey
          /\ ThrowFromHandler
       \/ /\ m.type = "RequestHandshake"
          /\ m.payload.kind = "handshake"
          /\ m.payload.key \in SessionKeys
          /\ cipher' = m.payload.key
          /\ wire' = Append(wire, [kind |-> "HandshakeReply", key |-> NoKey,
                                   under |-> "clear"])
          /\ cipherEnabled' = TRUE
          /\ authState' = "WaitingForServiceStatusRequest"
          /\ UNCHANGED << connVars, keyVars, refusal, asserted >>

\* Faulty variant: the state is set only after the await.
SendThenDisconnect_StateAfterAwait(kind) ==
    /\ wire' = Append(wire, Reply(kind, NoKey))
    /\ refusal' = "writing"
    /\ UNCHANGED << authState, connVars, cipherVars, keyVars, asserted >>

\* The refusal's write either completes at once, and Disconnect follows on the
\* receive task, or is left pending while the receive loop goes on reading.
SendThenDisconnect(kind) ==
    /\ authState' = "Disconnected"
    /\ wire' = Append(wire, Reply(kind, NoKey))
    /\ \/ /\ refusal' = "written"
          /\ Dispose
          /\ recv' = "ended"
       \/ /\ refusal' = "writing"
          /\ UNCHANGED connVars
    /\ UNCHANGED << cipherVars, keyVars, asserted >>

Handle_WaitingForServiceStatusRequest(m) ==
    /\ authState = "WaitingForServiceStatusRequest"
    /\ \/ /\ \/ m.type # "GetServiceStatus"
             \/ m.payload.kind \notin {"supported", "unsupported"}
          /\ Disconnect
       \/ /\ m.type = "GetServiceStatus"
          /\ m.payload.kind = "unsupported"
          /\ SendThenDisconnect("Refusal")
       \/ /\ m.type = "GetServiceStatus"
          /\ m.payload.kind = "supported"
          /\ wire' = Append(wire, Reply("ServiceStatus", NoKey))
          /\ authState' = "WaitingForKeyMaterial"
          /\ UNCHANGED << connVars, cipherVars, keyVars, refusal, asserted >>

\* Faulty variant: the key is copied after the send, out of the buffer that
\* Encrypt has overwritten with the ciphertext.
Handle_WaitingForKeyMaterial_CopyAfterSend(m) ==
    /\ authState = "WaitingForKeyMaterial"
    /\ m.type = "KeyMaterial"
    /\ m.payload.kind # "short"
    /\ gameKeyBytes' = "ciphertext"
    /\ \E k \in GameKeys : gameKey' = k /\ wire' = Append(wire, Reply("KeyMaterial", k))
    /\ authState' = "WaitingForTicket"
    /\ UNCHANGED << connVars, cipherVars, ticketKey, refusal, asserted >>

\* The key is copied before it is sent, for Encrypt overwrites its argument.
Handle_WaitingForKeyMaterial(m) ==
    /\ authState = "WaitingForKeyMaterial"
    /\ \/ /\ m.type # "KeyMaterial"
          /\ Disconnect
       \/ /\ m.type = "KeyMaterial"
          /\ m.payload.kind = "short"
          /\ ThrowFromHandler
       \/ /\ m.type = "KeyMaterial"
          /\ m.payload.kind # "short"
          /\ \E k \in GameKeys :
                /\ gameKeyBytes' = k
                /\ gameKey' = k
                /\ wire' = Append(wire, Reply("KeyMaterial", k))
          /\ authState' = "WaitingForTicket"
          /\ UNCHANGED << connVars, cipherVars, ticketKey, refusal, asserted >>

\* Faulty variant: any cookie is accepted.
Handle_WaitingForTicket_AnyCookie(m) ==
    /\ authState = "WaitingForTicket"
    /\ m.payload.kind = "ticket"
    /\ ticketKey' = m.payload.key
    /\ gameKeyBytes' = NoKey
    /\ wire' = Append(wire, Reply("ServerInfo", NoKey))
    /\ authState' = "Complete"
    /\ UNCHANGED << connVars, cipherVars, gameKey, refusal, asserted >>

\* No check of the message type here.  A payload that is no ticket is refused,
\* or makes the parser throw an exception that TryParse does not catch.
Handle_WaitingForTicket(m) ==
    /\ authState = "WaitingForTicket"
    /\ \/ /\ m.payload.kind # "shortCookie"
          /\ m.payload.kind = "ticket" => m.payload.key # gameKeyBytes
          /\ Disconnect
       \/ /\ m.payload.kind \notin RejectedTickets \cup {"ticket"}
          /\ ThrowFromHandler
       \/ /\ m.payload.kind = "ticket"
          /\ m.payload.key = gameKeyBytes
          /\ ticketKey' = m.payload.key
          /\ gameKeyBytes' = NoKey
          /\ wire' = Append(wire, Reply("ServerInfo", NoKey))
          /\ authState' = "Complete"
          /\ UNCHANGED << connVars, cipherVars, gameKey, refusal, asserted >>

Handle_Complete ==
    /\ authState = "Complete"
    /\ Disconnect

\* Debug.Assert(false), which a release build leaves out, and return.
Handle_Disconnected ==
    /\ authState = "Disconnected"
    /\ asserted' = TRUE
    /\ UNCHANGED << authState, connVars, cipherVars, wire, keyVars, refusal >>

Service(m) ==
    \/ Handle_WaitingForHandshakeRequest(m)
    \/ Handle_WaitingForServiceStatusRequest(m)
    \/ Handle_WaitingForKeyMaterial(m)
    \/ Handle_WaitingForTicket(m)
    \/ Handle_Complete
    \/ Handle_Disconnected

-----------------------------------------------------------------------------
(* The receive task, the timer, the peer and the refusal's continuation *)

Reading == recv = "reading" /\ open

\* A packet arrives.  What the framing or the cipher rejects is an exception.
OnReceived(m) ==
    /\ Reading
    /\ ~peerClosed
    /\ \/ (cipherEnabled => m.under = cipher) /\ Service(m)
       \/ cipherEnabled /\ m.under # cipher /\ ThrowFromHandler
    /\ UNCHANGED peerClosed

\* Zero bytes are read and ignored for as long as the connection lasts.
PeerCloses ==
    /\ Reading
    /\ ~peerClosed
    /\ peerClosed' = TRUE
    /\ UNCHANGED << authState, connVars, cipherVars, wire, keyVars, refusal, asserted >>

\* A reset fails the pending read with an IOException, which ReceiveAsync does
\* not catch, unless the loop is first to see that it is not connected.
PeerResets ==
    /\ Reading
    /\ \/ recv' = "faulted" /\ open' = open
       \/ recv' = "ended" /\ open' = FALSE
    /\ UNCHANGED << authState, disposed, peerClosed, cipherVars, wire, keyVars,
                    refusal, asserted >>

\* Faulty variants: the cancelled read does not close the socket; or the token
\* is looked at only after bytes have been received.
Timeout_KeepsSocket ==
    /\ TimeoutEnabled
    /\ Reading
    /\ recv' = "ended"
    /\ UNCHANGED << authState, disposed, open, peerClosed, cipherVars, wire, keyVars,
                    refusal, asserted >>
Timeout_OnlyWhileReceiving ==
    /\ TimeoutEnabled
    /\ Reading
    /\ ~peerClosed
    /\ open' = FALSE
    /\ recv' = "ended"
    /\ UNCHANGED << authState, disposed, peerClosed, cipherVars, wire, keyVars,
                    refusal, asserted >>

\* The cancellation source of the connection fires: the read is cancelled.
Timeout ==
    /\ TimeoutEnabled
    /\ Reading
    /\ open' = FALSE
    /\ recv' = "ended"
    /\ UNCHANGED << authState, disposed, peerClosed, cipherVars, wire, keyVars,
                    refusal, asserted >>

RefusalWritten ==
    /\ refusal = "writing"
    /\ open
    /\ refusal' = "written"
    /\ Dispose
    /\ UNCHANGED << authState, peerClosed, recv, cipherVars, wire, keyVars, asserted >>

\* The await throws: the discarded task of SendThenDisconnect faults, and
\* Disconnect is never called.
RefusalWriteFails ==
    /\ refusal = "writing"
    /\ refusal' = "failed"
    /\ UNCHANGED << authState, connVars, peerClosed, cipherVars, wire, keyVars, asserted >>

\* The socket was closed under the receive loop: the pending read throws, or
\* the loop is between two reads and sees that it is not connected.
ReadAborted ==
    /\ recv = "reading"
    /\ ~open
    /\ recv' \in {"ended", "faulted"}
    /\ UNCHANGED << authState, disposed, open, peerClosed, cipherVars, wire,
                    keyVars, refusal, asserted >>

Next ==
    \/ \E m \in Messages : OnReceived(m)
    \/ PeerCloses
    \/ PeerResets
    \/ Timeout
    \/ RefusalWritten
    \/ RefusalWriteFails
    \/ ReadAborted

\* The timer fires and a read on a closed socket returns; the peer owes nothing,
\* and a write is certain to return only once the socket is closed.
Fairness ==
    /\ WF_vars(Timeout)
    /\ WF_vars(ReadAborted)
    /\ WF_vars(~open /\ RefusalWriteFails)

Spec == Init /\ [][Next]_vars /\ Fairness

-----------------------------------------------------------------------------
(* Properties *)

\* The type of every variable of a connection.
TypeOK ==
    /\ authState \in AuthStates
    /\ disposed \in BOOLEAN
    /\ open \in BOOLEAN
    /\ peerClosed \in BOOLEAN
    /\ recv \in {"reading", "ended", "faulted"}
    /\ cipher \in SessionKeys \cup {"rsa"}
    /\ cipherEnabled \in BOOLEAN
    /\ wire \in Seq(Replies)
    /\ gameKeyBytes \in GameKeys \cup {NoKey}
    /\ gameKey \in GameKeys \cup {NoKey}
    /\ ticketKey \in GameKeys \cup {NoKey}
    /\ refusal \in {"none", "writing", "written", "failed"}
    /\ asserted \in BOOLEAN

\* The address of the game server is given at most once, as the fourth reply,
\* and only for a ticket that carries the very key the third reply delivered;
\* that key is also the one kept for the game traffic
\* (Handle_WaitingForTicket's comparison with GameCwcKeyBytes).
AdmissionBindsIssuedKey ==
    \A i \in 1 .. Len(wire) :
        wire[i].kind = "ServerInfo" =>
            /\ i = 4
            /\ wire[3].kind = "KeyMaterial"
            /\ wire[3].key \in GameKeys
            /\ ticketKey = wire[3].key
            /\ gameKey = wire[3].key

\* While a ticket is awaited the bytes it will be compared with are those the
\* peer was sent; once it was accepted they are erased, so that no second
\* ticket can match them (GameCwcKeyBytes, its copy and its clearing).
KeyBytesFollowTheSession ==
    /\ authState = "WaitingForTicket" => gameKeyBytes = wire[Len(wire)].key
    /\ ticketKey # NoKey => gameKeyBytes = NoKey /\ Len(wire) = 4

\* Only the first reply leaves in the clear; every later one is encrypted with
\* the one key the peer brought in its handshake (CipherEnabled is cleared and
\* set again around a send, SetCipher is called once).
RepliesUnderSessionKey ==
    \A i \in 1 .. Len(wire) :
        IF i = 1 THEN wire[i].under = "clear"
                 ELSE wire[i].under = cipher /\ cipher \in SessionKeys

\* A disconnected session that still holds its socket is one whose refusal is
\* being written or could not be written: no other path leaves the socket
\* open (Disconnect, SendThenDisconnect).
OpenAfterDisconnectOnlyForRefusal ==
    authState = "Disconnected" /\ open => refusal \in {"writing", "failed"}

\* A receive task that returns has left a closed socket behind it, whether the
\* handler disposed of it, the timer fired or the peer was lost; only a
\* faulted one can leave the socket open (NetTcpClient.ReceiveAsync).
EndedReceiveLeavesSocketClosed ==
    recv = "ended" => ~open

\* Once a session is disconnected it answers nothing more and nothing that was
\* agreed in it changes, although its receive loop may go on delivering
\* messages while the refusal is written (Service, SendThenDisconnect).
SilentOnceDisconnected ==
    [][authState = "Disconnected" =>
           UNCHANGED << authState, wire, cipherVars, keyVars >>]_vars

\* With a positive timeout no connection stays in the receive loop with its
\* socket open, even when the peer falls silent, closes its side, or refuses
\* to read the refusal (the cancellation source of NetTcpClient).
ConnectionIsGivenUp ==
    TimeoutEnabled => <>[](recv # "reading" /\ (open => recv = "faulted"))

\* What Debug.Assert in Service says: no message reaches a disconnected client.
NeverServicesDisconnected == ~asserted

-----------------------------------------------------------------------------
(* The inductive invariant behind the safety properties *)

\* The replies are a beginning of the protocol's four answers, or end in a
\* refusal, and how many there are fixes what the key variables hold.
Transcript ==
    /\ cipherEnabled
    /\ Len(wire) \in 0 .. 4
    /\ Len(wire) >= 1 => /\ wire[1].kind = "HandshakeReply"
                         /\ wire[1].under = "clear"
                         /\ cipher \in SessionKeys
    /\ Len(wire) >= 2 => /\ wire[2].kind \in {"ServiceStatus", "Refusal"}
                         /\ wire[2].under = cipher
    /\ Len(wire) >= 3 => /\ wire[2].kind = "ServiceStatus"
                         /\ wire[3].kind = "KeyMaterial"
                         /\ wire[3].under = cipher
                         /\ wire[3].key \in GameKeys
                         /\ gameKey = wire[3].key
    /\ Len(wire) < 3 => gameKey = NoKey
    /\ Len(wire) # 3 => gameKeyBytes = NoKey
    /\ Len(wire) = 3 => gameKeyBytes = gameKey
    /\ Len(wire) < 4 => ticketKey = NoKey
    /\ Len(wire) = 4 => /\ wire[4].kind = "ServerInfo"
                        /\ wire[4].under = cipher
                        /\ ticketKey = gameKey

\* A session that is not disconnected has given as many answers as its state
\* says, and none of them is a refusal.
AnswersGiven ==
    /\ authState = "WaitingForHandshakeRequest" => Len(wire) = 0
    /\ authState = "WaitingForServiceStatusRequest" => Len(wire) = 1
    /\ authState = "WaitingForKeyMaterial" =>
           Len(wire) = 2 /\ wire[2].kind = "ServiceStatus"
    /\ authState = "WaitingForTicket" => Len(wire) = 3
    /\ authState = "Complete" => Len(wire) = 4

\* Who may have closed the socket, and who may have left it open.
SocketOwnership ==
    /\ OpenAfterDisconnectOnlyForRefusal
    /\ EndedReceiveLeavesSocketClosed
    /\ refusal # "none" => authState = "Disconnected"
    /\ disposed => authState = "Disconnected" /\ ~open

Inv == TypeOK /\ Transcript /\ AnswersGiven /\ SocketOwnership

-----------------------------------------------------------------------------
\* What the protocol knows of a transcript: the names of its replies.
Kinds(w) == [i \in 1 .. Len(w) |-> w[i].kind]

\* The session as its peer sees it: AuthClient implements AuthProtocol.
Protocol == INSTANCE AuthProtocol WITH
    answered  <- Kinds(wire),
    issued    <- gameKey,
    presented <- ticketKey,
    serving   <- authState # "Disconnected" /\ recv = "reading"

\* Every step of a connection is a step of the protocol or changes nothing the
\* peer can see: the answers come in order, none follows a refusal or a
\* disconnect, and admission takes the key issued in the session.
ImplementsProtocol == Protocol!ProtocolSpec
=============================================================================
