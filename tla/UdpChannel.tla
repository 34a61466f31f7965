----------------------------- MODULE UdpChannel -----------------------------
(***************************************************************************)
(* UdpChannelListener: one socket shared by many peers.  The listening     *)
(* loop looks the sender of a datagram up in Clients and hands the         *)
(* datagram to its UdpChannelClient, or makes one.  Disconnect and Dispose *)
(* come from the threads of their callers and use the same Dictionary      *)
(* without a lock.  Above a client sits FsdpPacketClient, which reads the  *)
(* client's Buffer when it is told that something was received.            *)
(* Clients are numbered in the order they are made; 0 is none and null.    *)
(***************************************************************************)
EXTENDS Naturals, Sequences, FiniteSets

CONSTANTS Endpoints,    \* where datagrams come from
          Users,        \* threads that disconnect and dispose clients
          MaxDatagrams, \* bound: datagrams received
          MaxCalls      \* bound: calls of the users

ASSUME BoundsAreNatural == MaxDatagrams \in Nat /\ MaxCalls \in Nat
ASSUME UsersAreOthers == {"loop", "owner"} \cap Users = {}

Threads == Users \cup {"loop", "owner"}

VARIABLES
    loop,       \* where ListenAsync is, or the way it ended
    datagrams,  \* the endpoints the datagrams received came from; the last is at hand
    client,     \* the client the loop is at
    table,      \* Clients: the client of each endpoint
    made,       \* the endpoint of every client that was made
    disconnected, \* clients whose Disconnected is set
    received,   \* clients whose Received has a subscriber
    buffer,     \* Buffer of every client, as the number of a datagram
    accepted,   \* Accepted has a subscriber
    call,       \* the Disconnect or Dispose each thread is in
    calls,      \* how many calls the users have made
    owner,      \* how far the Dispose of the listener has come
    visited,    \* endpoints its enumeration has passed
    grown,      \* a client was added since its enumeration began
    unreachable, \* the system has a refused send to report
    raced,      \* an operation on Clients overlapped a write to it
    delivered,  \* history: datagrams each client's subscriber was given
    late,       \* history: how many of them after the client was disconnected
    removals    \* history: how many times each client's endpoint was removed for it

listening == << loop, datagrams, client >>
clients == << made, disconnected, received, buffer >>
disposal == << accepted, owner, visited, grown >>
history == << delivered, late, removals >>
vars == << listening, table, clients, call, calls, disposal, unreachable, raced, history >>

\* Every datagram may make a client.
ClientIds == 1 .. MaxDatagrams
Ids == 1 .. Len(made)
NoCall == [client |-> 0, dispose |-> FALSE, at |-> "none"]

\* ReceiveAsync was cancelled, or threw: the exceptions by where they come from.
Ends == {"cancelled", "disposed", "unhooked", "duplicate", "broken",
         "undecryptable", "null", "reset"}

Latest == Len(datagrams)
From == datagrams[Latest]
Cancelled == owner # "live"

\* What a client is found under in Clients: address and port.
Key(e) == e

-----------------------------------------------------------------------------
Init ==
    /\ loop = "receiving" /\ datagrams = << >> /\ client = 0
    /\ table = [e \in Endpoints |-> 0]
    /\ made = << >> /\ disconnected = {} /\ received = {}
    /\ buffer = [c \in ClientIds |-> 0]
    /\ accepted \in BOOLEAN
    /\ call = [t \in Threads |-> NoCall] /\ calls = 0
    /\ owner = "live" /\ visited = {} /\ grown = FALSE
    /\ unreachable = FALSE /\ raced = FALSE
    /\ delivered = [c \in ClientIds |-> {}]
    /\ late = [c \in ClientIds |-> 0]
    /\ removals = [c \in ClientIds |-> 0]

-----------------------------------------------------------------------------
(* The table of clients *)

Writing(t) ==
    \/ t = "loop" /\ loop = "adding"
    \/ t = "owner" /\ owner = "clearing"
    \/ call[t].at = "removing"

Reading(t) == t = "loop" /\ loop = "looking"

\* Dictionary allows one writer, or any number of readers.
Overlaps(t, writes) ==
    \E u \in Threads \ {t} : Writing(u) \/ (writes /\ Reading(u))

\* What a write leaves.  Once operations have overlapped, the chains of the
\* Dictionary may have lost any entry, or kept one that was removed.
TableAfter(new) ==
    IF raced
      THEN {f \in [Endpoints -> 0 .. MaxDatagrams] :
              \A e \in Endpoints : f[e] \in {table[e], new[e], 0}}
      ELSE {new}

-----------------------------------------------------------------------------
(* The listening loop *)

\* Back to ReceiveAsync, which throws at once after Cancel or Dispose.
LoopContinues ==
    loop' = IF owner = "disposed" THEN "disposed"
            ELSE IF Cancelled THEN "cancelled" ELSE "receiving"

\* A datagram of any endpoint.  One that is complete is received although the
\* wait for it is being cancelled.
Receive(e) ==
    /\ loop = "receiving"
    /\ Latest < MaxDatagrams
    /\ datagrams' = Append(datagrams, e)
    /\ client' = 0
    /\ loop' = "looking"
    /\ raced' = (raced \/ Overlaps("loop", FALSE))
    /\ UNCHANGED << table, clients, call, calls, disposal, unreachable, history >>

ReceiveCancelled ==
    /\ loop = "receiving"
    /\ Cancelled
    /\ loop' = "cancelled"
    /\ UNCHANGED << datagrams, client, table, clients, call, calls, disposal,
                    unreachable, raced, history >>

\* Windows reports on the next receive that a send was refused.
ReceiveReset ==
    /\ loop = "receiving"
    /\ unreachable
    /\ loop' = "reset"
    /\ UNCHANGED << datagrams, client, table, clients, call, calls, disposal,
                    unreachable, raced, history >>

\* Clients.TryGetValue returns a client.
LookupFinds ==
    /\ loop = "looking"
    /\ table[Key(From)] # 0
    /\ client' = table[Key(From)]
    /\ loop' = "found"
    /\ UNCHANGED << datagrams, table, clients, call, calls, disposal,
                    unreachable, raced, history >>

\* It returns none, and somebody is subscribed to Accepted or nobody is.
LookupMisses ==
    /\ loop = "looking"
    /\ table[Key(From)] = 0 \/ raced
    /\ IF accepted
         THEN loop' = "accepting"
         ELSE LoopContinues
    /\ UNCHANGED << datagrams, client, table, clients, call, calls, disposal,
                    unreachable, raced, history >>

\* Chains that lead in a circle are noticed by a lookup and by an insertion.
TableBreaks ==
    /\ loop \in {"looking", "adding"}
    /\ raced
    /\ loop' = "broken"
    /\ UNCHANGED << datagrams, client, table, clients, call, calls, disposal,
                    unreachable, raced, history >>

\* new UdpChannelClient, and Clients.Add begins.
MakeClient ==
    /\ loop = "accepting"
    /\ made' = Append(made, From)
    /\ client' = Len(made) + 1
    /\ loop' = "adding"
    /\ raced' = (raced \/ Overlaps("loop", TRUE))
    /\ UNCHANGED << datagrams, table, disconnected, received, buffer, call, calls,
                    disposal, unreachable, history >>

\* Clients.Add ends; the event's arguments put the datagram into Buffer.
AddClient ==
    /\ loop = "adding"
    /\ IF table[Key(From)] # 0
         THEN /\ loop' = "duplicate"
              /\ UNCHANGED << table, buffer, grown >>
         ELSE /\ loop' = "added"
              /\ table' \in TableAfter([table EXCEPT ![Key(From)] = client])
              /\ buffer' = [buffer EXCEPT ![client] = Latest]
              /\ grown' = (owner = "enumerating")
    /\ UNCHANGED << datagrams, client, made, disconnected, received, call, calls,
                    accepted, owner, visited, unreachable, raced, history >>

-----------------------------------------------------------------------------
(* What the loop tells the layer above *)

\* Accepted is read again to be invoked.  Its handler may subscribe to Received.
RaiseAccepted ==
    /\ loop = "added"
    /\ IF accepted
         THEN /\ loop' = "handling"
              /\ \/ received' = received \cup {client}
                 \/ UNCHANGED received
         ELSE /\ loop' = "unhooked"
              /\ UNCHANGED received
    /\ UNCHANGED << datagrams, client, table, made, disconnected, buffer, call, calls,
                    disposal, unreachable, raced, history >>

\* Faulty variant: a disconnected client is given its datagrams.
WantsDatagrams_Always(c) == TRUE

WantsDatagrams(c) == c \notin disconnected

\* NotifyReceived, up to its first return.
NotifyReceived ==
    /\ loop = "found"
    /\ IF WantsDatagrams(client) THEN loop' = "notifying" ELSE LoopContinues
    /\ UNCHANGED << datagrams, client, table, clients, call, calls, disposal,
                    unreachable, raced, history >>

BufferAfter(c) == [buffer EXCEPT ![c] = Latest]

StoreBuffer ==
    /\ loop = "notifying"
    /\ buffer' = BufferAfter(client)
    /\ loop' = "stored"
    /\ UNCHANGED << datagrams, client, table, made, disconnected, received, call, calls,
                    disposal, unreachable, raced, history >>

\* Received?.Invoke: it is read once, so it may be gone when its target runs.
RaiseReceived ==
    /\ loop = "stored"
    /\ IF client \in received THEN loop' = "raised" ELSE LoopContinues
    /\ UNCHANGED << datagrams, client, table, clients, call, calls, disposal,
                    unreachable, raced, history >>

\* Faulty variant: OnReceived decrypts whatever Buffer is.
FindsNoBuffer_Unasked(c) == FALSE

FindsNoBuffer(c) == buffer[c] = 0

\* FsdpPacketClient.OnReceived reads Buffer, which Dispose may have cleared.
OnReceivedWithoutBuffer ==
    /\ loop = "raised"
    /\ FindsNoBuffer(client)
    /\ LoopContinues
    /\ UNCHANGED << datagrams, client, table, clients, call, calls, disposal,
                    unreachable, raced, history >>

\* It decrypts, which throws for bytes that are not the peer's or for none,
\* and passes the datagram on.
OnReceived ==
    /\ loop = "raised"
    /\ ~ FindsNoBuffer(client)
    /\ \/ /\ buffer[client] = 0
          /\ loop' = "null"
          /\ UNCHANGED << delivered, late >>
       \/ /\ buffer[client] # 0
          /\ loop' = "undecryptable"
          /\ UNCHANGED << delivered, late >>
       \/ /\ buffer[client] # 0
          /\ loop' = "handling"
          /\ delivered' = [delivered EXCEPT ![client] = @ \cup {buffer[client]}]
          /\ late' = [late EXCEPT ![client] = IF client \in disconnected THEN @ + 1 ELSE @]
    /\ UNCHANGED << datagrams, client, table, clients, call, calls, disposal,
                    unreachable, raced, removals >>

\* The subscriber returns to the loop.
HandlerReturns ==
    /\ loop = "handling"
    /\ call["loop"] = NoCall
    /\ LoopContinues
    /\ UNCHANGED << datagrams, client, table, clients, call, calls, disposal,
                    unreachable, raced, history >>

-----------------------------------------------------------------------------
(* UdpChannelClient: Disconnect and Dispose, step by step, on thread t *)

\* Faulty variant: the client leaves the table before it is marked.
Disconnect_RemovesFirst == << "leaving", "removing", "marking" >>

\* Disconnect is about to set the flag, to call Clients.Remove, or is in it.
Disconnect == << "marking", "leaving", "removing" >>

\* Where the call of thread t is after the step it is at.
StepAfter(t) ==
    LET i == CHOOSE i \in 1 .. 3 : Disconnect[i] = call[t].at
    IN  IF i < 3 THEN [call[t] EXCEPT !.at = Disconnect[i + 1]]
        ELSE IF call[t].dispose THEN [call[t] EXCEPT !.at = "clearing"]
        ELSE NoCall

\* A thread calls Disconnect or Dispose, which asks whether it was done before.
Call(t, c, dispose) ==
    call' = [call EXCEPT ![t] =
                IF c \notin disconnected
                  THEN [client |-> c, dispose |-> dispose, at |-> Disconnect[1]]
                  ELSE IF dispose
                  THEN [client |-> c, dispose |-> TRUE, at |-> "clearing"]
                  ELSE NoCall]

\* Clients that were given to a subscriber of Accepted.
Handed ==
    Ids \ (IF loop \in {"adding", "added", "unhooked", "duplicate", "broken"}
             THEN {client} ELSE {})

UserCalls(t) ==
    /\ call[t] = NoCall
    /\ calls < MaxCalls
    /\ calls' = calls + 1
    /\ \E c \in Handed, dispose \in BOOLEAN : Call(t, c, dispose)
    /\ UNCHANGED << listening, table, clients, disposal, unreachable, raced, history >>

\* A subscriber disconnects the client it was called for, on the loop's thread.
HandlerCalls ==
    /\ loop = "handling"
    /\ call["loop"] = NoCall
    /\ client \notin disconnected
    /\ \E dispose \in BOOLEAN : Call("loop", client, dispose)
    /\ UNCHANGED << listening, table, clients, calls, disposal, unreachable, raced, history >>

Mark(t) ==
    /\ call[t].at = "marking"
    /\ disconnected' = disconnected \cup {call[t].client}
    /\ call' = [call EXCEPT ![t] = StepAfter(t)]
    /\ UNCHANGED << listening, table, made, received, buffer, calls, disposal,
                    unreachable, raced, history >>

\* Parent.NotifyClientDisconnect: Clients.Remove begins.
BeginRemove(t) ==
    /\ call[t].at = "leaving"
    /\ call' = [call EXCEPT ![t] = StepAfter(t)]
    /\ raced' = (raced \/ Overlaps(t, TRUE))
    /\ UNCHANGED << listening, table, clients, calls, disposal, unreachable, history >>

\* Faulty variant: the client stays in the table.
Removed_Not(c) == table

\* Whatever client the endpoint has is removed.
Removed(c) == [table EXCEPT ![Key(made[c])] = 0]

EndRemove(t) ==
    /\ call[t].at = "removing"
    /\ table' \in TableAfter(Removed(call[t].client))
    /\ removals' = [removals EXCEPT ![call[t].client] = @ + 1]
    /\ call' = [call EXCEPT ![t] = StepAfter(t)]
    /\ UNCHANGED << listening, clients, calls, disposal, unreachable, raced,
                    delivered, late >>

\* The rest of Dispose: Buffer and Received are set to null.
Clear(t) ==
    /\ call[t].at = "clearing"
    /\ buffer' = [buffer EXCEPT ![call[t].client] = 0]
    /\ received' = received \ {call[t].client}
    /\ call' = [call EXCEPT ![t] = NoCall]
    /\ UNCHANGED << listening, table, made, disconnected, calls, disposal,
                    unreachable, raced, history >>

CallStep(t) == Mark(t) \/ BeginRemove(t) \/ EndRemove(t) \/ Clear(t)

\* SendAsync to a peer that is gone.  A disconnected client sends nothing.
Send(c) ==
    /\ c \in Handed \ disconnected
    /\ ~ Cancelled
    /\ ~ unreachable
    /\ unreachable' = TRUE
    /\ UNCHANGED << listening, table, clients, call, calls, disposal, raced, history >>

-----------------------------------------------------------------------------
(* UdpChannelListener.Dispose, on the owner's thread *)

DisposeUnchanged == << listening, made, calls, unreachable, delivered, late >>

\* Dispose begins.  One that threw has not noted that it was called, so that it can be
\* called again.
Cancel ==
    /\ owner \in {"live", "threw"}
    /\ owner' = "cancelled"
    /\ UNCHANGED << DisposeUnchanged, table, disconnected, received, buffer, call,
                    accepted, visited, grown, raced, removals >>

\* Accepted = null, and the enumeration of Clients takes note of its version.
Unhook ==
    /\ owner = "cancelled"
    /\ owner' = "enumerating"
    /\ accepted' = FALSE
    /\ visited' = {}
    /\ grown' = FALSE
    /\ UNCHANGED << DisposeUnchanged, table, disconnected, received, buffer, call,
                    raced, removals >>

\* MoveNext throws when a client was added; Remove does not disturb it.
EnumerationThrows ==
    /\ owner = "enumerating"
    /\ call["owner"] = NoCall
    /\ grown
    /\ owner' = "threw"
    /\ UNCHANGED << DisposeUnchanged, table, disconnected, received, buffer, call,
                    accepted, visited, grown, raced, removals >>

\* Faulty variant: the clients are not disposed.
Visit_Skips(e) == UNCHANGED call

Visit(e) == Call("owner", table[e], TRUE)

DisposeNext ==
    /\ owner = "enumerating"
    /\ call["owner"] = NoCall
    /\ ~ grown
    /\ \E e \in Endpoints \ visited :
          /\ table[e] # 0
          /\ visited' = visited \cup {e}
          /\ Visit(e)
    /\ raced' = (raced \/ Overlaps("owner", FALSE))
    /\ UNCHANGED << DisposeUnchanged, table, disconnected, received, buffer,
                    accepted, owner, grown, removals >>

\* The enumeration is over, and Clients.Clear begins.
BeginClear ==
    /\ owner = "enumerating"
    /\ call["owner"] = NoCall
    /\ ~ grown
    /\ raced \/ \A e \in Endpoints \ visited : table[e] = 0
    /\ owner' = "clearing"
    /\ raced' = (raced \/ Overlaps("owner", TRUE))
    /\ UNCHANGED << DisposeUnchanged, table, disconnected, received, buffer, call,
                    accepted, visited, grown, removals >>

EndClear ==
    /\ owner = "clearing"
    /\ owner' = "cleared"
    /\ table' \in TableAfter([e \in Endpoints |-> 0])
    /\ UNCHANGED << DisposeUnchanged, disconnected, received, buffer, call,
                    accepted, visited, grown, raced, removals >>

\* The token source and the socket are disposed.
CloseSocket ==
    /\ owner = "cleared"
    /\ owner' = "disposed"
    /\ UNCHANGED << DisposeUnchanged, table, disconnected, received, buffer, call,
                    accepted, visited, grown, raced, removals >>

-----------------------------------------------------------------------------
LoopStep ==
    \/ ReceiveCancelled \/ LookupFinds \/ LookupMisses \/ TableBreaks
    \/ MakeClient \/ AddClient \/ RaiseAccepted
    \/ NotifyReceived \/ StoreBuffer \/ RaiseReceived
    \/ OnReceivedWithoutBuffer \/ OnReceived \/ HandlerReturns

DisposeStep ==
    Unhook \/ EnumerationThrows \/ DisposeNext \/ BeginClear \/ EndClear \/ CloseSocket

Next ==
    \/ \E e \in Endpoints : Receive(e)
    \/ ReceiveReset
    \/ LoopStep
    \/ \E t \in Users : UserCalls(t)
    \/ HandlerCalls
    \/ \E t \in Threads : CallStep(t)
    \/ \E c \in ClientIds : Send(c)
    \/ Cancel
    \/ DisposeStep

Spec == Init /\ [][Next]_vars

-----------------------------------------------------------------------------
(* Properties *)

TypeOK ==
    /\ loop \in Ends \cup {"receiving", "looking", "accepting", "adding", "added", "handling",
                           "found", "notifying", "stored", "raised"}
    /\ datagrams \in Seq(Endpoints) /\ Latest <= MaxDatagrams
    /\ client \in 0 .. Len(made)
    /\ table \in [Endpoints -> 0 .. Len(made)]
    /\ made \in Seq(Endpoints)
    /\ disconnected \subseteq Ids /\ received \subseteq Ids
    /\ buffer \in [ClientIds -> 0 .. Latest]
    /\ call \in [Threads -> {NoCall} \cup
                    [client : Ids, dispose : BOOLEAN,
                     at : {"marking", "leaving", "removing", "clearing"}]]
    /\ calls \in 0 .. MaxCalls
    /\ owner \in {"live", "cancelled", "enumerating", "threw", "clearing", "cleared", "disposed"}
    /\ visited \subseteq Endpoints
    /\ {accepted, grown, unreachable, raced} \subseteq BOOLEAN
    /\ delivered \in [ClientIds -> SUBSET (1 .. Latest)]
    /\ late \in [ClientIds -> 0 .. Latest]
    /\ removals \in [ClientIds -> Nat]

\* Two threads disconnected the client at once: its endpoint was removed twice.
RemovedTwice(c) == removals[c] > 1

\* An endpoint has one client that is not disconnected, unless an older client
\* of it was disconnected by two threads at once: the flag is tested and set
\* without a lock, and the second removal takes the successor.
\* (UdpChannelClient.Disconnect, UdpChannelListener.ListenAsync)
OneLiveClient ==
    \A c, d \in Ids :
        (/\ c < d
         /\ made[c] = made[d]
         /\ {c, d} \cap disconnected = {}
         /\ loop # "duplicate" /\ ~ raced)
        => \E b \in Ids : b < c /\ made[b] = made[c] /\ RemovedTwice(b)

\* A datagram is given to one client, the one of the endpoint it came from, and
\* after its disconnect a client is given one more at most.  Buffer is filled
\* before Received is raised, and read after.
\* (UdpChannelClient.NotifyReceived, FsdpPacketClient.OnReceived)
DeliveredOnce ==
    /\ \A c \in Ids : \A n \in delivered[c] : datagrams[n] = made[c]
    /\ \A c, d \in Ids : c # d => delivered[c] \cap delivered[d] = {}
    /\ \A c \in Ids : late[c] <= 1

\* A disconnected client is in the table only while a thread is about to remove
\* it: otherwise its endpoint would be deaf for good, since NotifyReceived
\* drops what comes for it.  (UdpChannelClient.Disconnect)
NobodyIsDeaf ==
    ~ raced =>
      \A e \in Endpoints :
        table[e] \in disconnected =>
          \E t \in Threads : call[t].at \in {"leaving", "removing"} /\ made[call[t].client] = e

\* The loop ends by an exception only for what it was exposed to: Clients used
\* by two threads, the disposal of the listener between two of its steps, a
\* refused send, or bytes that do not decrypt.  (UdpChannelListener.ListenAsync)
LoopEndsForCause ==
    /\ loop # "null"
    /\ loop \in {"duplicate", "broken"} => raced
    /\ loop \in {"cancelled", "disposed", "unhooked"} => Cancelled
    /\ loop = "unhooked" => ~ accepted
    /\ loop = "reset" => unreachable

\* The client that the loop is making, or was when it found its subscriber gone.
IsBeingMade(c) == c = client /\ loop \in {"adding", "added", "unhooked"}

\* A disposal that is over has disconnected every client, except the one the loop is
\* making and one that lost its place in the table to the second removal of a
\* predecessor.  One that threw has left nothing else behind than the clients it
\* had not come to, in the table, where calling Dispose again finds them.
\* (UdpChannelListener.Dispose)
DisposalReachesAll ==
    (owner \in {"threw", "disposed"} /\ ~ raced) =>
      \A c \in Ids \ disconnected :
        \/ IsBeingMade(c)
        \/ owner = "threw" /\ table[made[c]] = c /\ made[c] \notin visited
        \/ \E b \in Ids : b < c /\ made[b] = made[c] /\ RemovedTwice(b)
=============================================================================
