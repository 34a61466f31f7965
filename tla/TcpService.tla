----------------------------- MODULE TcpService -----------------------------
(***************************************************************************)
(* A TCP service of the server: the accept loop of NetTcpListener, the     *)
(* receive loop of every NetTcpClient, and the tasks AuthService and       *)
(* LoginService start for a client they accepted.  OnAccepted runs on the  *)
(* accept loop, and so does the start of each task: the receive loop until *)
(* it first waits for bytes, the poll until it first waits for the timer.  *)
(* What a client's handler does with a message is abstracted to whether it *)
(* goes on, hangs up, throws, or begins to refuse: the write of a refusal  *)
(* is awaited, and the thread that ends it hangs up while the receive loop *)
(* is at its next read.  AuthClient models the handlers in full.           *)
(***************************************************************************)
EXTENDS Naturals, FiniteSets

CONSTANTS Clients,     \* the peers that may connect
          SocketLimits, \* how many sockets the process may hold open
          MaxUnread,   \* bound: chunks a socket's receive buffer holds
          Refusable,   \* bound: clients whose session may be refused
          NoClient     \* not a client

ASSUME NoClientIsNone == NoClient \notin Clients
ASSUME LimitsArePositive == SocketLimits \subseteq Nat \ {0}
ASSUME BoundIsPositive == MaxUnread \in Nat \ {0}
ASSUME RefusablesAreClients == Refusable \subseteq Clients

VARIABLES
    timeoutEnabled, \* a client timeout above zero is configured
    maxSockets,     \* how many sockets this process may hold open
    listener,       \* accept loop: "accepting", in OnAccepted "receiving" or
                    \* "polling" for the client it starts, or "faulted"
    current,        \* the client OnAccepted is at
    socket,         \* "none", "queued", "open", "closed" (Client.Close) or "disposed"
    peer,           \* the peer: "there", "closed" or "reset"
    unread,         \* chunks that have arrived and were not read
    cancelled,      \* clients whose CancellationTokenSource has fired
    refusal,        \* SendThenDisconnect of each client: "none", "writing" or "over"
    receive,        \* receive task: "none", "running", "pending", "ended", "faulted"
    poll,           \* poll task: "none", "waiting", "woken", "readable", "ended"
                    \* or "faulted"
    overtaken       \* history: clients read from between Poll and Available

settings == << timeoutEnabled, maxSockets >>
vars == << settings, listener, current, socket, peer, unread, cancelled, refusal,
           receive, poll, overtaken >>

accepting == << listener, current >>
network == << socket, peer, unread >>

OpenSockets == {c \in Clients : socket[c] = "open"}

\* Another client's poll is registered with the timer.
TimerTaken == \E c \in Clients : poll[c] = "waiting"

Over == {"ended", "faulted"}

-----------------------------------------------------------------------------
Init ==
    /\ timeoutEnabled \in BOOLEAN
    /\ maxSockets \in SocketLimits
    /\ listener = "accepting"
    /\ current = NoClient
    /\ socket = [c \in Clients |-> "none"]
    /\ peer = [c \in Clients |-> "there"]
    /\ unread = [c \in Clients |-> 0]
    /\ cancelled = {}
    /\ refusal = [c \in Clients |-> "none"]
    /\ receive = [c \in Clients |-> "none"]
    /\ poll = [c \in Clients |-> "none"]
    /\ overtaken = {}

-----------------------------------------------------------------------------
(* The peers and the operating system *)

Connect(c) ==
    /\ socket[c] = "none"
    /\ socket' = [socket EXCEPT ![c] = "queued"]
    /\ UNCHANGED << settings, accepting, peer, unread, cancelled, refusal, receive, poll, overtaken >>

PeerSends(c) ==
    /\ socket[c] \in {"queued", "open"}
    /\ peer[c] = "there"
    /\ unread[c] < MaxUnread
    /\ unread' = [unread EXCEPT ![c] = @ + 1]
    /\ UNCHANGED << settings, accepting, socket, peer, cancelled, refusal, receive, poll, overtaken >>

\* The peer closes its side, or resets the connection, which drops what it sent.
PeerLeaves(c) ==
    /\ socket[c] \in {"queued", "open"}
    /\ peer[c] = "there"
    /\ \/ peer' = [peer EXCEPT ![c] = "closed"] /\ UNCHANGED unread
       \/ peer' = [peer EXCEPT ![c] = "reset"] /\ unread' = [unread EXCEPT ![c] = 0]
    /\ UNCHANGED << settings, accepting, socket, cancelled, refusal, receive, poll, overtaken >>

\* Faulty variant: a cancelled read leaves the socket open.
Close_Forgotten(c, state) == UNCHANGED << socket, unread >>

\* Client.Close or Dispose: what was not read is gone.
Close(c, state) ==
    /\ socket' = [socket EXCEPT ![c] = state]
    /\ unread' = [unread EXCEPT ![c] = 0]

\* A socket no task uses any more is closed when its handle is finalized.
Finalize(c) ==
    /\ socket[c] = "open"
    /\ receive[c] \in Over
    /\ poll[c] \in Over
    /\ refusal[c] # "writing"
    /\ Close(c, "closed")
    /\ UNCHANGED << settings, accepting, peer, cancelled, refusal, receive, poll, overtaken >>

-----------------------------------------------------------------------------
(* The accept loop *)

\* OnAccepted goes on to the poll once the receive loop waits or is over.
ListenerAfterReceive(c, state) ==
    IF listener = "receiving" /\ current = c /\ state # "running" THEN "polling" ELSE listener

\* OnAccepted returns once the poll waits or is over.
ListenerAfterPoll(c, state) ==
    IF listener = "polling" /\ current = c /\ state \in {"waiting"} \cup Over
      THEN "accepting" ELSE listener

Accept(c) ==
    /\ listener = "accepting"
    /\ socket[c] = "queued"
    /\ Cardinality(OpenSockets) < maxSockets
    /\ socket' = [socket EXCEPT ![c] = "open"]
    /\ listener' = "receiving"
    /\ current' = c
    /\ receive' = [receive EXCEPT ![c] = "running"]
    /\ UNCHANGED << settings, peer, unread, cancelled, refusal, poll, overtaken >>

\* AcceptTcpClientAsync throws for want of a descriptor: nothing catches it.
AcceptFails ==
    /\ listener = "accepting"
    /\ \E c \in Clients : socket[c] = "queued"
    /\ Cardinality(OpenSockets) >= maxSockets
    /\ listener' = "faulted"
    /\ UNCHANGED << settings, current, network, cancelled, refusal, receive, poll, overtaken >>

-----------------------------------------------------------------------------
(* The receive loop *)

ReceiveBecomes(c, state) ==
    /\ receive' = [receive EXCEPT ![c] = state]
    /\ listener' = ListenerAfterReceive(c, state)
    /\ UNCHANGED << settings, current, peer, poll >>

\* Client.Connected is false: the handler has disposed the client, or a write
\* has failed on a connection that was reset.
ReceiveFindsDisconnected(c) ==
    /\ receive[c] = "running"
    /\ \/ socket[c] = "disposed" /\ UNCHANGED << socket, unread >>
       \/ socket[c] = "open" /\ peer[c] = "reset" /\ Close(c, "closed")
    /\ ReceiveBecomes(c, "ended")
    /\ UNCHANGED << cancelled, refusal, overtaken >>

TakeData(c) ==
    /\ unread' = [unread EXCEPT ![c] = @ - 1]
    /\ UNCHANGED socket

\* A session whose state is Disconnected is neither hung up on nor refused again.
IsServed(c) == refusal[c] = "none"

\* The handler of what was read goes on, hangs up, begins to refuse or throws.
ReadData(c) ==
    /\ receive[c] = "running"
    /\ socket[c] = "open"
    /\ c \notin cancelled
    /\ unread[c] > 0
    /\ overtaken' = IF poll[c] = "readable" /\ unread[c] = 1
                      THEN overtaken \cup {c} ELSE overtaken
    /\ \/ TakeData(c) /\ ReceiveBecomes(c, "running") /\ UNCHANGED refusal
       \/ IsServed(c) /\ Close(c, "disposed") /\ ReceiveBecomes(c, "running") /\ UNCHANGED refusal
       \/ /\ IsServed(c) /\ c \in Refusable
          /\ TakeData(c) /\ ReceiveBecomes(c, "running")
          /\ refusal' = [refusal EXCEPT ![c] = "writing"]
       \/ TakeData(c) /\ ReceiveBecomes(c, "faulted") /\ UNCHANGED refusal
    /\ UNCHANGED cancelled

\* Nothing to read and nothing to stop for: the read is pending.  After the
\* peer closed it returns nothing at once, and the loop goes round unchanged.
ReadWaits(c) ==
    /\ receive[c] = "running"
    /\ socket[c] = "open"
    /\ c \notin cancelled
    /\ unread[c] = 0
    /\ peer[c] = "there"
    /\ ReceiveBecomes(c, "pending")
    /\ UNCHANGED << socket, unread, cancelled, refusal, overtaken >>

ReadCompletes(c) ==
    /\ receive[c] = "pending"
    /\ unread[c] > 0 \/ peer[c] = "closed"
    /\ ReceiveBecomes(c, "running")
    /\ UNCHANGED << socket, unread, cancelled, refusal, overtaken >>

\* The read throws an IOException, which is not caught.
ReadReset(c) ==
    /\ receive[c] \in {"running", "pending"}
    /\ socket[c] = "open"
    /\ peer[c] = "reset"
    /\ ReceiveBecomes(c, "faulted")
    /\ UNCHANGED << socket, unread, cancelled, refusal, overtaken >>

\* Faulty variant: the timer of a peer that has closed never fires.
TimerFires_OnlyConnected(c) ==
    /\ timeoutEnabled
    /\ socket[c] = "open"
    /\ peer[c] = "there"
    /\ c \notin cancelled
    /\ cancelled' = cancelled \cup {c}
    /\ UNCHANGED << settings, accepting, network, refusal, receive, poll, overtaken >>

\* The time given to CancellationTokenSource has passed.  (Nothing looks at the
\* token of a receive task that is over.)
TimerFires(c) ==
    /\ timeoutEnabled
    /\ receive[c] \in {"running", "pending"}
    /\ socket[c] = "open"
    /\ c \notin cancelled
    /\ cancelled' = cancelled \cup {c}
    /\ UNCHANGED << settings, accepting, network, refusal, receive, poll, overtaken >>

\* ReadAsync looks at the token before it reads and while it waits.
ReadCancelled(c) ==
    /\ receive[c] \in {"running", "pending"}
    /\ socket[c] = "open"
    /\ c \in cancelled
    /\ ReceiveBecomes(c, "ended")
    /\ Close(c, "closed")
    /\ UNCHANGED << cancelled, refusal, overtaken >>

\* Another thread has hung up during the read, or between the test of Connected and
\* the read: it throws, and that is caught only if the token had fired before.
ReadDisposed(c) ==
    /\ receive[c] \in {"running", "pending"}
    /\ socket[c] = "disposed"
    /\ refusal[c] = "over"
    /\ ReceiveBecomes(c, IF receive[c] = "pending" /\ c \in cancelled THEN "ended" ELSE "faulted")
    /\ UNCHANGED << socket, unread, cancelled, refusal, overtaken >>

-----------------------------------------------------------------------------
(* SendThenDisconnect, after its await: on the thread that ended the write *)

RefusalEnds(c) ==
    /\ refusal[c] = "writing"
    /\ refusal' = [refusal EXCEPT ![c] = "over"]
    /\ UNCHANGED << settings, accepting, peer, cancelled, receive, poll, overtaken >>

\* The reply is written, and the client disposed, whatever its socket is by now.
RefusalWritten(c) ==
    /\ RefusalEnds(c)
    /\ Close(c, "disposed")

\* The write throws into a task nobody looks at, and Disconnect is not called.
RefusalFails(c) ==
    /\ RefusalEnds(c)
    /\ peer[c] # "there" \/ socket[c] # "open"
    /\ UNCHANGED << socket, unread >>

-----------------------------------------------------------------------------
(* The poll *)

PollBecomes(c, state) ==
    /\ poll' = [poll EXCEPT ![c] = state]
    /\ listener' = ListenerAfterPoll(c, state)
    /\ current' = IF listener' = "accepting" THEN NoClient ELSE current
    /\ overtaken' = IF state = "ended" THEN overtaken ELSE overtaken \ {c}
    /\ UNCHANGED << settings, network, cancelled, refusal, receive >>

\* PeriodicTimer.WaitForNextTickAsync throws if somebody else is waiting, and
\* waits otherwise, unless the timer has ticked since the last wait.  Ticks are
\* two seconds apart, so a call of PollClient takes at most one such tick before
\* it returns to the accept loop.
WaitForNextTick(c) ==
    \/ TimerTaken /\ PollBecomes(c, "faulted")
    \/ ~TimerTaken /\ PollBecomes(c, "waiting")
    \/ /\ ~TimerTaken
       /\ listener = "polling" /\ current = c => poll[c] = "none"
       /\ PollBecomes(c, "woken")

StartPoll(c) ==
    /\ listener = "polling"
    /\ current = c
    /\ poll[c] = "none"
    /\ WaitForNextTick(c)

\* The timer ticks.
Wake(c) ==
    /\ poll[c] = "waiting"
    /\ PollBecomes(c, "woken")

\* The first half of IsConnected: Socket.Poll tells that something can be read,
\* be it bytes or the end.
PollSocket(c) ==
    LET readable == unread[c] > 0 \/ peer[c] # "there"
    IN  /\ poll[c] = "woken"
        /\ \/ socket[c] = "disposed" /\ PollBecomes(c, "ended")
           \/ socket[c] = "closed" /\ PollBecomes(c, "faulted")
           \/ socket[c] = "open" /\ readable /\ PollBecomes(c, "readable")
           \/ socket[c] = "open" /\ ~readable /\ WaitForNextTick(c)

\* Faulty variant: bytes that can be read are taken for the end.
ReadAvailable_Ignored(c) ==
    /\ poll[c] = "readable"
    /\ PollBecomes(c, "ended")

\* The second half: Available tells how many bytes there are now.
ReadAvailable(c) ==
    /\ poll[c] = "readable"
    /\ \/ socket[c] # "open" /\ PollBecomes(c, "faulted")
       \/ socket[c] = "open" /\ unread[c] = 0 /\ PollBecomes(c, "ended")
       \/ socket[c] = "open" /\ unread[c] > 0 /\ WaitForNextTick(c)

-----------------------------------------------------------------------------
ReceiveStep(c) ==
    \/ ReceiveFindsDisconnected(c)
    \/ ReadData(c)
    \/ ReadWaits(c)
    \/ ReadCompletes(c)
    \/ ReadReset(c)
    \/ ReadCancelled(c)
    \/ ReadDisposed(c)

PollStep(c) ==
    \/ StartPoll(c)
    \/ Wake(c)
    \/ PollSocket(c)
    \/ ReadAvailable(c)

Next ==
    \/ \E c \in Clients : Connect(c) \/ PeerSends(c) \/ PeerLeaves(c) \/ Finalize(c)
    \/ \E c \in Clients : Accept(c) \/ ReceiveStep(c) \/ TimerFires(c) \/ PollStep(c)
    \/ \E c \in Clients : RefusalWritten(c) \/ RefusalFails(c)
    \/ AcceptFails

\* Every thread runs, and timers fire.  A peer that does not read may keep the write
\* of a refusal waiting for ever.
Fairness ==
    /\ WF_vars(AcceptFails)
    /\ \A c \in Clients :
        /\ WF_vars(Accept(c))
        /\ WF_vars(ReceiveStep(c))
        /\ WF_vars(TimerFires(c))
        /\ WF_vars(PollStep(c))

Spec == Init /\ [][Next]_vars /\ Fairness

-----------------------------------------------------------------------------
(* Properties *)

\* The type of every variable of the service.
TypeOK ==
    /\ timeoutEnabled \in BOOLEAN
    /\ maxSockets \in SocketLimits
    /\ listener \in {"accepting", "receiving", "polling", "faulted"}
    /\ current \in Clients \cup {NoClient}
    /\ socket \in [Clients -> {"none", "queued", "open", "closed", "disposed"}]
    /\ peer \in [Clients -> {"there", "closed", "reset"}]
    /\ unread \in [Clients -> 0 .. MaxUnread]
    /\ cancelled \subseteq Clients
    /\ refusal \in [Clients -> {"none", "writing", "over"}]
    /\ receive \in [Clients -> {"none", "running", "pending"} \cup Over]
    /\ poll \in [Clients -> {"none", "waiting", "woken", "readable"} \cup Over]
    /\ overtaken \subseteq Clients

\* A receive task that returned left a closed socket.  One that is still at it has
\* its socket, or was hung up on: by its handler between two reads, after which it
\* returns, or by the thread of a refusal at any point of a read, and only then does
\* it fault with its client disposed.  (NetTcpClient.ReceiveAsync, SendThenDisconnect)
SocketsFollowReceive ==
    \A c \in Clients :
        /\ receive[c] = "ended" => socket[c] \in {"closed", "disposed"}
        /\ receive[c] \in {"running", "pending"} => socket[c] \in {"open", "disposed"}
        /\ receive[c] \in {"pending", "faulted"} /\ socket[c] = "disposed" => refusal[c] = "over"

\* A poll that reports its client as disconnected is right, but for one order of
\* events: Poll saw bytes, the receive loop took the last of them, and then
\* Available was none (IsConnected reads the socket twice).
DisconnectReportIsRight ==
    \A c \in Clients :
        poll[c] = "ended" => \/ peer[c] # "there"
                             \/ socket[c] = "disposed"
                             \/ c \in overtaken

\* A client in the backlog is accepted, or the accept loop has faulted, or it is
\* held by another client and no timeout is configured.
BacklogIsServed ==
    \A c \in Clients :
        socket[c] = "queued" ~> \/ receive[c] # "none"
                                \/ listener = "faulted"
                                \/ ~timeoutEnabled /\ listener = "receiving"
=============================================================================
