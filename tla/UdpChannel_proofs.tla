-------------------------- MODULE UdpChannel_proofs --------------------------
(***************************************************************************)
(* Proofs about the listener of one socket, for any number of endpoints,   *)
(* threads, datagrams and calls.                                           *)
(***************************************************************************)
EXTENDS UdpChannel, SequenceTheorems, TLAPS

\* An older client of the same endpoint was removed twice.
Evicted(c) == \E b \in Ids : b < c /\ made[b] = made[c] /\ RemovedTwice(b)

\* A datagram makes at most one client, and who is found under an endpoint is its client.
Counted ==
    /\ Len(made) <= Latest
    /\ loop \notin {"receiving"} \cup Ends => Latest > 0
    /\ loop \in {"looking", "accepting"} => Len(made) < Latest
    /\ loop \in {"adding", "added", "handling", "found", "notifying", "stored", "raised"}
          => client # 0
    /\ \A e \in Endpoints : table[e] # 0 => made[table[e]] = e
    /\ loop \in {"adding", "added", "found", "notifying", "stored", "raised"}
          => made[client] = From

\* A client is marked before it leaves the table, and before it is cleared.
Calls ==
    \A t \in Threads :
        call[t].at \in {"leaving", "removing", "clearing"} => call[t].client \in disconnected

\* Nobody knows the client that the loop is adding.
NewIsUnknown ==
    loop = "adding" =>
        /\ client = Len(made)
        /\ client \notin disconnected
        /\ \A e \in Endpoints : table[e] # client
        /\ \A t \in Threads : call[t].client # client

\* The endpoint that is accepted has no client, and nothing is accepted once the
\* listener has unhooked its subscriber.
Pending ==
    /\ loop \in {"accepting", "adding"} /\ ~ raced => table[From] = 0
    /\ loop \in {"accepting", "adding", "added"} /\ ~ accepted => Cancelled
    /\ owner \notin {"live", "cancelled"} => ~ accepted

\* The datagram at hand was given to nobody yet, and a client was asked once.
Datagram ==
    /\ loop \in {"stored", "raised"} => buffer[client] \in {0, Latest}
    /\ loop \in {"looking", "found", "notifying", "stored", "raised"} =>
          \A c \in Ids : Latest \notin delivered[c]
    /\ loop \in {"notifying", "stored", "raised"} => late[client] = 0
    /\ \A c \in ClientIds : c \notin disconnected => late[c] = 0
    /\ \A c \in ClientIds \ Ids : delivered[c] = {}

\* A client is removed after it was marked.  One that has a successor was removed, or
\* had lost its place.
Removal ==
    /\ \A b \in ClientIds : removals[b] > 0 => b \in disconnected
    /\ ~ raced => \A b, c \in Ids : b < c /\ made[b] = made[c] => removals[b] > 0 \/ Evicted(b)

\* A client is in the table until it is removed, by itself or in place of another, or
\* the listener has cleared the table; no client follows it then.
Whereabouts ==
    ~ raced =>
      \A b \in Ids :
        \/ removals[b] > 0
        \/ Evicted(b)
        \/ table[made[b]] = b
        \/ loop = "adding" /\ b = client
        \/ /\ b \in disconnected /\ owner \in {"cleared", "disposed"}
           /\ ~ (loop \in {"accepting", "adding"} /\ From = made[b])

\* The loop has added a client, and is where it finds its subscriber gone.
IsAdded(c) == c = client /\ loop \in {"added", "unhooked"}

\* A client added since the enumeration began is the last one.
Growing ==
    /\ grown => loop \in {"added", "unhooked"} /\ ~ accepted
    /\ owner = "threw" => grown /\ call["owner"] = NoCall

\* What the disposal has passed is marked, or is being marked, or was added since.
Visiting ==
    owner \in {"enumerating", "threw"} /\ ~ raced =>
      \A e \in visited :
        \/ table[e] = 0
        \/ table[e] \in disconnected
        \/ call["owner"].client = table[e] /\ call["owner"].at = "marking"
        \/ grown /\ IsAdded(table[e])

\* The table is cleared of marked clients only.
Clearing ==
    owner = "clearing" /\ ~ raced =>
      /\ loop # "adding"
      /\ \A e \in Endpoints : table[e] = 0 \/ table[e] \in disconnected

\* The loop may have been accepting a client when the table was cleared, no more than one.
Cleared ==
    owner \in {"cleared", "disposed"} /\ ~ raced =>
      \A e \in Endpoints : /\ table[e] = 0 \/ IsAdded(table[e])
                           /\ loop \in {"accepting", "adding"} => table[e] = 0

\* All but Growing, which each step keeps by itself.
Core ==
    /\ TypeOK /\ Counted /\ Calls /\ NewIsUnknown /\ Pending /\ Datagram /\ DeliveredOnce
    /\ Removal /\ Whereabouts /\ NobodyIsDeaf /\ Visiting /\ Clearing /\ Cleared
    /\ LoopEndsForCause

IInv == Core /\ Growing

-----------------------------------------------------------------------------
(* The state, and what the operators make of it *)

\* What the types say of the numbers.
LEMMA Ranges ==
    ASSUME TypeOK, Counted
    PROVE  /\ Len(made) \in Nat /\ Latest \in Nat /\ Latest <= MaxDatagrams /\ MaxDatagrams \in Nat
           /\ Len(made) <= Latest /\ client \in 0 .. Len(made)
           /\ \A c \in Ids : c \in ClientIds /\ made[c] \in Endpoints
           /\ Latest > 0 => From \in Endpoints
<1>1. Len(made) \in Nat /\ Latest \in Nat /\ Latest <= MaxDatagrams
    BY DEF TypeOK, Latest
<1>2. MaxDatagrams \in Nat /\ Len(made) <= Latest /\ client \in 0 .. Len(made)
    BY BoundsAreNatural DEF TypeOK, Counted
<1>3. \A c \in Ids : c \in ClientIds /\ made[c] \in Endpoints
    <2>1. made \in Seq(Endpoints)
        BY DEF TypeOK
    <2>2. \A c \in 1 .. Len(made) : made[c] \in Endpoints
        BY <2>1
    <2>3. \A c \in 1 .. Len(made) : c \in 1 .. MaxDatagrams
        BY <1>1, <1>2
    <2> QED
        BY <2>2, <2>3 DEF Ids, ClientIds
<1>4. Latest > 0 => From \in Endpoints
    BY <1>1 DEF TypeOK, Latest, From
<1> QED
    BY <1>1, <1>2, <1>3, <1>4

\* The states of a call.
CallStates == {NoCall} \cup [client : Ids, dispose : BOOLEAN,
                             at : {"marking", "leaving", "removing", "clearing"}]

\* NoCall is of no client.
LEMMA NoCallIs == NoCall.client = 0 /\ NoCall.at = "none"
BY DEF NoCall

\* Disconnect marks the client, calls Remove and is in it; Dispose clears it after that.
LEMMA StepAfterIs ==
    ASSUME NEW t \in Threads
    PROVE  /\ call[t].at = "marking" => StepAfter(t) = [call[t] EXCEPT !.at = "leaving"]
           /\ call[t].at = "leaving" => StepAfter(t) = [call[t] EXCEPT !.at = "removing"]
           /\ call[t].at = "removing" =>
                StepAfter(t) = IF call[t].dispose THEN [call[t] EXCEPT !.at = "clearing"]
                               ELSE NoCall
<1> DEFINE i == CHOOSE i \in 1 .. 3 : Disconnect[i] = call[t].at
<1>1. Disconnect[1] = "marking" /\ Disconnect[2] = "leaving" /\ Disconnect[3] = "removing"
    BY DEF Disconnect
<1>2. StepAfter(t) = IF i < 3 THEN [call[t] EXCEPT !.at = Disconnect[i + 1]]
                     ELSE IF call[t].dispose THEN [call[t] EXCEPT !.at = "clearing"]
                     ELSE NoCall
    BY DEF StepAfter
<1>3. ASSUME NEW k \in 1 .. 3, Disconnect[k] = call[t].at
      PROVE  i = k
    <2>1. i \in 1 .. 3 /\ Disconnect[i] = call[t].at
        BY <1>3
    <2> HIDE DEF i
    <2> QED
        BY <1>1, <1>3, <2>1
<1> HIDE DEF i
<1>4. CASE call[t].at = "marking"
    BY <1>1, <1>2, <1>3, <1>4
<1>5. CASE call[t].at = "leaving"
    BY <1>1, <1>2, <1>3, <1>5
<1>6. CASE call[t].at = "removing"
    BY <1>1, <1>2, <1>3, <1>6
<1> QED
    BY <1>4, <1>5, <1>6

\* A call of thread t that goes on is of the same client.
LEMMA StepAfterKeeps ==
    ASSUME TypeOK, NEW t \in Threads, call[t].at \in {"marking", "leaving", "removing"},
           call' = [call EXCEPT ![t] = StepAfter(t)]
    PROVE  /\ call' \in [Threads -> CallStates]
           /\ \A u \in Threads \ {t} : call'[u] = call[u]
           /\ call[t].client \in Ids
           /\ call'[t].client \in {0, call[t].client}
           /\ call[t].at = "marking" => call'[t].at = "leaving" /\ call'[t].client = call[t].client
           /\ call[t].at = "leaving" => call'[t].at = "removing" /\ call'[t].client = call[t].client
           /\ call[t].at = "removing" => call'[t].at \in {"clearing", "none"}
           /\ call'[t].at = "clearing" => call'[t].client = call[t].client
<1>1. call \in [Threads -> CallStates]
    BY DEF TypeOK, CallStates
<1>2. call[t] \in [client : Ids, dispose : BOOLEAN,
                   at : {"marking", "leaving", "removing", "clearing"}]
    BY <1>1, NoCallIs DEF CallStates
<1>3. /\ StepAfter(t) \in CallStates
      /\ StepAfter(t).client \in {0, call[t].client}
      /\ call[t].at = "marking" => StepAfter(t).at = "leaving" /\ StepAfter(t).client = call[t].client
      /\ call[t].at = "leaving" => StepAfter(t).at = "removing" /\ StepAfter(t).client = call[t].client
      /\ call[t].at = "removing" => StepAfter(t).at \in {"clearing", "none"}
      /\ StepAfter(t).at = "clearing" => StepAfter(t).client = call[t].client
    <2>1. CASE call[t].at = "marking"
        BY <1>2, <2>1, StepAfterIs DEF CallStates
    <2>2. CASE call[t].at = "leaving"
        BY <1>2, <2>2, StepAfterIs DEF CallStates
    <2>3. CASE call[t].at = "removing"
        BY <1>2, <2>3, StepAfterIs, NoCallIs DEF CallStates
    <2> QED
        BY <2>1, <2>2, <2>3
<1>4. call'[t] = StepAfter(t) /\ \A u \in Threads \ {t} : call'[u] = call[u]
    BY <1>1
<1> QED
    BY <1>1, <1>2, <1>3, <1>4

\* A new call marks its client, or clears it when it is marked, or is none.
LEMMA CallIs ==
    ASSUME TypeOK, NEW t \in Threads, NEW c \in Ids, NEW dispose \in BOOLEAN,
           Call(t, c, dispose)
    PROVE  /\ call' \in [Threads -> CallStates]
           /\ \A u \in Threads \ {t} : call'[u] = call[u]
           /\ call'[t].client \in {0, c}
           /\ call'[t].at \in {"none", "marking", "clearing"}
           /\ call'[t].at = "clearing" => call'[t].client \in disconnected
           /\ c \notin disconnected => call'[t].at = "marking" /\ call'[t].client = c
<1>1. call \in [Threads -> CallStates]
    BY DEF TypeOK, CallStates
<1>2. Disconnect[1] = "marking"
    BY DEF Disconnect
<1>3. /\ call'[t] = IF c \notin disconnected
                      THEN [client |-> c, dispose |-> dispose, at |-> "marking"]
                      ELSE IF dispose
                      THEN [client |-> c, dispose |-> TRUE, at |-> "clearing"]
                      ELSE NoCall
      /\ \A u \in Threads \ {t} : call'[u] = call[u]
    BY <1>1, <1>2 DEF Call
<1>4. call'[t] \in CallStates
    BY <1>3 DEF CallStates
<1>5. call' \in [Threads -> CallStates]
    BY <1>1, <1>3, <1>4 DEF Call
<1> QED
    BY <1>3, <1>4, <1>5, NoCallIs

\* Without a race a write leaves what it should, with one the old, the new or nothing.
LEMMA TableAfterIs ==
    ASSUME TypeOK, Counted, NEW new \in [Endpoints -> 0 .. Len(made)], table' \in TableAfter(new)
    PROVE  /\ table' \in [Endpoints -> 0 .. Len(made)]
           /\ \A e \in Endpoints : table'[e] \in {table[e], new[e], 0}
           /\ ~ raced => table' = new
<1>1. table \in [Endpoints -> 0 .. Len(made)] /\ Len(made) \in Nat
    BY DEF TypeOK
<1>2. \A e \in Endpoints : table'[e] \in {table[e], new[e], 0}
    BY <1>1 DEF TableAfter
<1>3. table' \in [Endpoints -> 0 .. Len(made)]
    <2>1. CASE raced
        <3>1. table' \in [Endpoints -> 0 .. MaxDatagrams]
            BY <2>1 DEF TableAfter
        <3>2. \A e \in Endpoints : table'[e] \in 0 .. Len(made)
            BY <1>1, <1>2
        <3> QED
            BY <3>1, <3>2
    <2>2. CASE ~ raced
        BY <2>2 DEF TableAfter
    <2> QED
        BY <2>1, <2>2
<1> QED
    BY <1>2, <1>3 DEF TableAfter

\* Where the loop goes from a datagram it is done with.
LEMMA LoopContinuesIs ==
    ASSUME LoopContinues
    PROVE  /\ loop' \in {"receiving", "cancelled", "disposed"}
           /\ loop' # "receiving" => Cancelled
BY DEF LoopContinues, Cancelled

LEMMA InitInv == Init => IInv
<1> SUFFICES ASSUME Init PROVE IInv
    OBVIOUS
<1>1. Len(made) = 0 /\ Latest = 0 /\ Ids = {}
    BY DEF Init, Latest, Ids
<1>11. TypeOK
    <2>1. {accepted, grown, unreachable, raced} \subseteq BOOLEAN
        BY Zenon DEF Init
    <2>2. datagrams \in Seq(Endpoints) /\ made \in Seq(Endpoints)
        BY DEF Init
    <2>3. /\ table \in [Endpoints -> 0 .. Len(made)] /\ buffer \in [ClientIds -> 0 .. Latest]
          /\ delivered \in [ClientIds -> SUBSET (1 .. Latest)]
          /\ late \in [ClientIds -> 0 .. Latest] /\ removals \in [ClientIds -> Nat]
        BY <1>1 DEF Init
    <2>4. /\ call \in [Threads -> CallStates] /\ calls \in 0 .. MaxCalls /\ Latest <= MaxDatagrams
        BY <1>1, BoundsAreNatural DEF Init, CallStates
    <2> QED
        BY <1>1, <2>1, <2>2, <2>3, <2>4 DEF Init, TypeOK, CallStates
<1>12. Counted
    BY <1>1, BoundsAreNatural, NoCallIs DEF Counted, Ends, Init
<1>13. Calls
    BY <1>1, BoundsAreNatural, NoCallIs DEF Calls, Init
<1>14. NewIsUnknown
    BY <1>1, BoundsAreNatural, NoCallIs DEF NewIsUnknown, Init
<1>15. Pending
    BY <1>1, BoundsAreNatural, NoCallIs DEF Pending, Cancelled, Init
<1>16. Datagram
    BY <1>1, BoundsAreNatural, NoCallIs DEF Datagram, Init
<1>17. DeliveredOnce
    BY <1>1, BoundsAreNatural, NoCallIs DEF DeliveredOnce, Init
<1>18. Removal
    BY <1>1, BoundsAreNatural, NoCallIs DEF Removal, Evicted, RemovedTwice, Init
<1>19. Whereabouts
    BY <1>1, BoundsAreNatural, NoCallIs DEF Whereabouts, Evicted, RemovedTwice, Init
<1>20. NobodyIsDeaf
    BY <1>1, BoundsAreNatural, NoCallIs DEF NobodyIsDeaf, Init
<1>21. Visiting
    BY <1>1, BoundsAreNatural, NoCallIs DEF Visiting, Init
<1>22. Clearing
    BY <1>1, BoundsAreNatural, NoCallIs DEF Clearing, Init
<1>23. Cleared
    BY <1>1, BoundsAreNatural, NoCallIs DEF Cleared, Init
<1>24. LoopEndsForCause
    BY <1>1, BoundsAreNatural, NoCallIs DEF LoopEndsForCause, Cancelled, Ends, Init
<1>25. Growing
    BY DEF Init, Growing
<1> QED
    BY <1>11, <1>12, <1>13, <1>14, <1>15, <1>16, <1>17, <1>18, <1>19, <1>20, <1>21, <1>22, <1>23,
       <1>24, <1>25 DEF IInv, Core

-----------------------------------------------------------------------------
(* What most steps leave alone *)

\* Where the loop is matters to the clients and their table only while it adds one.
LEMMA LoopMovesKeep ==
    ASSUME IInv, loop' \notin {"accepting", "adding"}, raced => raced',
           loop = "adding" => raced',
           loop \in {"added", "unhooked"} /\ ~ accepted => loop' = "unhooked" /\ client' = client,
           UNCHANGED << table, made, disconnected, call, owner, visited, grown, removals >>
    PROVE  /\ Calls' /\ NewIsUnknown' /\ Removal' /\ Whereabouts' /\ NobodyIsDeaf'
           /\ Visiting' /\ Clearing' /\ Cleared'
<1>1. /\ Calls /\ Removal /\ Whereabouts /\ NobodyIsDeaf /\ Visiting /\ Clearing /\ Cleared
      /\ NewIsUnknown /\ Growing /\ Pending
    BY DEF IInv, Core
<1>2. Calls' /\ NewIsUnknown' /\ NobodyIsDeaf'
    BY <1>1 DEF Calls, NewIsUnknown, NobodyIsDeaf
<1>3. Removal'
    BY <1>1 DEF Removal, Evicted, RemovedTwice, Ids
<1>4. Whereabouts'
    <2>1. ASSUME ~ raced', NEW b \in Ids
          PROVE  \/ removals[b] > 0 \/ Evicted(b) \/ table[made[b]] = b
                 \/ b \in disconnected /\ owner \in {"cleared", "disposed"}
        BY <1>1, <2>1 DEF Whereabouts
    <2> QED
        BY <2>1 DEF Whereabouts, Evicted, RemovedTwice, Ids
<1>5. Visiting'
    BY <1>1 DEF Visiting, Growing, IsAdded
<1>6. Clearing'
    BY <1>1 DEF Clearing
<1>7. Cleared'
    BY <1>1 DEF Cleared, Pending, IsAdded
<1> QED
    BY <1>2, <1>3, <1>4, <1>5, <1>6, <1>7

\* How far the disposal is matters to the clients only through what it does to them.
LEMMA OwnerMovesKeep ==
    ASSUME IInv, raced => raced',
           UNCHANGED << listening, table, clients, call, history >>
    PROVE  /\ Counted' /\ Calls' /\ NewIsUnknown' /\ Datagram' /\ DeliveredOnce'
           /\ Removal' /\ NobodyIsDeaf'
<1>1. /\ Counted /\ Calls /\ NewIsUnknown /\ Datagram /\ DeliveredOnce /\ Removal /\ NobodyIsDeaf
    BY DEF IInv, Core
<1>2. Counted' /\ Calls' /\ NewIsUnknown' /\ NobodyIsDeaf'
    BY <1>1 DEF Counted, Calls, NewIsUnknown, NobodyIsDeaf, From, Latest, listening, clients
<1>3. Datagram' /\ DeliveredOnce'
    BY <1>1 DEF Datagram, DeliveredOnce, Ids, Latest, listening, clients, history
<1>4. Removal'
    BY <1>1 DEF Removal, Evicted, RemovedTwice, Ids, clients, history
<1> QED
    BY <1>2, <1>3, <1>4

-----------------------------------------------------------------------------
(* The listening loop *)

\* A datagram is received.
LEMMA ReceiveStep ==
    ASSUME IInv, NEW e \in Endpoints, Receive(e)
    PROVE  Core'
<1>1. /\ TypeOK /\ Counted /\ Calls /\ NewIsUnknown /\ Pending /\ Datagram /\ DeliveredOnce
      /\ Removal /\ Whereabouts /\ NobodyIsDeaf /\ Visiting /\ Clearing /\ Cleared
      /\ LoopEndsForCause /\ Growing
    BY DEF IInv, Core
<1>2. /\ Len(made) \in Nat /\ Latest \in Nat /\ Latest <= MaxDatagrams /\ MaxDatagrams \in Nat
      /\ Len(made) <= Latest /\ client \in 0 .. Len(made)
      /\ \A c \in Ids : c \in ClientIds /\ made[c] \in Endpoints
      /\ Latest > 0 => From \in Endpoints
    BY <1>1, Ranges
<1>3. /\ datagrams' \in Seq(Endpoints) /\ Latest' = Latest + 1 /\ From' = e
      /\ \A n \in 1 .. Latest : datagrams'[n] = datagrams[n]
    BY <1>1, <1>2 DEF Receive, TypeOK, Latest, From
<1>4. \A c \in Ids : \A n \in delivered[c] : n \in 1 .. Latest
    BY <1>1, <1>2 DEF TypeOK
<1>5. /\ Calls' /\ NewIsUnknown' /\ Removal' /\ Whereabouts' /\ NobodyIsDeaf'
      /\ Visiting' /\ Clearing' /\ Cleared'
    BY LoopMovesKeep DEF Receive, clients, history, disposal
<1>6. TypeOK'
    <2>1. {accepted', grown', unreachable', raced'} \subseteq BOOLEAN
        BY <1>1, Zenon DEF TypeOK, Receive, disposal
    <2>2. /\ buffer' \in [ClientIds -> 0 .. Latest'] /\ late' \in [ClientIds -> 0 .. Latest']
          /\ delivered' \in [ClientIds -> SUBSET (1 .. Latest')]
        <3>1. \A n \in 0 .. Latest : n \in 0 .. Latest'
            BY <1>2, <1>3
        <3>2. \A n \in 1 .. Latest : n \in 1 .. Latest'
            BY <1>2, <1>3
        <3>3. UNCHANGED << buffer, late, delivered >>
            BY DEF Receive, clients, history
        <3> QED
            BY <1>1, <3>1, <3>2, <3>3 DEF TypeOK
    <2>3. Latest' <= MaxDatagrams
        BY <1>2, <1>3 DEF Receive
    <2>4. loop' = "looking" /\ client' \in 0 .. Len(made')
        BY <1>2 DEF Receive, clients
    <2>5. UNCHANGED << table, clients, call, calls, disposal, unreachable, history >>
        BY DEF Receive
    <2> QED
        BY <1>1, <1>3, <2>1, <2>2, <2>3, <2>4, <2>5
           DEF TypeOK, Ids, clients, disposal, history
<1>7. Counted'
    BY <1>1, <1>2
       DEF Counted, Ends, Receive, listening, clients, disposal, history, From, Latest
<1>8. Pending'
    BY <1>1, <1>2
       DEF Pending, Cancelled, Receive, listening, clients, disposal, history, From, Latest
<1>9. Datagram'
    BY <1>1, <1>2, <1>3, <1>4 DEF Receive, Datagram, Ids, clients, history
<1>10. DeliveredOnce'
    BY <1>1, <1>2, <1>3, <1>4 DEF Receive, DeliveredOnce, Ids, clients, history
<1>11. LoopEndsForCause'
    BY <1>1, <1>2
       DEF LoopEndsForCause, Cancelled, Ends, Receive, listening, clients, disposal, history,
           From, Latest
<1> QED
    BY <1>5, <1>6, <1>7, <1>8, <1>9, <1>10, <1>11 DEF Core

\* The wait is cancelled.
LEMMA ReceiveCancelledStep ==
    ASSUME IInv, ReceiveCancelled
    PROVE  Core'
<1>1. /\ TypeOK /\ Counted /\ Calls /\ NewIsUnknown /\ Pending /\ Datagram /\ DeliveredOnce
      /\ Removal /\ Whereabouts /\ NobodyIsDeaf /\ Visiting /\ Clearing /\ Cleared
      /\ LoopEndsForCause /\ Growing
    BY DEF IInv, Core
<1>2. /\ Len(made) \in Nat /\ Latest \in Nat /\ Latest <= MaxDatagrams /\ MaxDatagrams \in Nat
      /\ Len(made) <= Latest /\ client \in 0 .. Len(made)
      /\ \A c \in Ids : c \in ClientIds /\ made[c] \in Endpoints
      /\ Latest > 0 => From \in Endpoints
    BY <1>1, Ranges
<1>3. /\ Calls' /\ NewIsUnknown' /\ Removal' /\ Whereabouts' /\ NobodyIsDeaf'
      /\ Visiting' /\ Clearing' /\ Cleared'
    BY LoopMovesKeep DEF ReceiveCancelled, clients, history, disposal
<1>4. TypeOK'
    BY <1>1, <1>2
       DEF TypeOK, Ids, ClientIds, Ends, ReceiveCancelled, listening, clients, disposal, history,
           From, Latest
<1>5. Counted'
    BY <1>1, <1>2
       DEF Counted, Ends, ReceiveCancelled, listening, clients, disposal, history, From, Latest
<1>6. Pending'
    BY <1>1, <1>2
       DEF Pending, Cancelled, ReceiveCancelled, listening, clients, disposal, history, From,
           Latest
<1>7. Datagram'
    BY <1>1, <1>2
       DEF Datagram, Ids, ReceiveCancelled, listening, clients, disposal, history, From, Latest
<1>8. DeliveredOnce'
    BY <1>1, <1>2
       DEF DeliveredOnce, Ids, ReceiveCancelled, listening, clients, disposal, history, From,
           Latest
<1>9. LoopEndsForCause'
    BY <1>1, <1>2
       DEF LoopEndsForCause, Cancelled, Ends, ReceiveCancelled, listening, clients, disposal,
           history, From, Latest
<1> QED
    BY <1>3, <1>4, <1>5, <1>6, <1>7, <1>8, <1>9 DEF Core

\* A refused send is reported.
LEMMA ReceiveResetStep ==
    ASSUME IInv, ReceiveReset
    PROVE  Core'
<1>1. /\ TypeOK /\ Counted /\ Calls /\ NewIsUnknown /\ Pending /\ Datagram /\ DeliveredOnce
      /\ Removal /\ Whereabouts /\ NobodyIsDeaf /\ Visiting /\ Clearing /\ Cleared
      /\ LoopEndsForCause /\ Growing
    BY DEF IInv, Core
<1>2. /\ Len(made) \in Nat /\ Latest \in Nat /\ Latest <= MaxDatagrams /\ MaxDatagrams \in Nat
      /\ Len(made) <= Latest /\ client \in 0 .. Len(made)
      /\ \A c \in Ids : c \in ClientIds /\ made[c] \in Endpoints
      /\ Latest > 0 => From \in Endpoints
    BY <1>1, Ranges
<1>3. /\ Calls' /\ NewIsUnknown' /\ Removal' /\ Whereabouts' /\ NobodyIsDeaf'
      /\ Visiting' /\ Clearing' /\ Cleared'
    BY LoopMovesKeep DEF ReceiveReset, clients, history, disposal
<1>4. TypeOK'
    BY <1>1, <1>2
       DEF TypeOK, Ids, ClientIds, Ends, ReceiveReset, listening, clients, disposal, history,
           From, Latest
<1>5. Counted'
    BY <1>1, <1>2
       DEF Counted, Ends, ReceiveReset, listening, clients, disposal, history, From, Latest
<1>6. Pending'
    BY <1>1, <1>2
       DEF Pending, Cancelled, ReceiveReset, listening, clients, disposal, history, From, Latest
<1>7. Datagram'
    BY <1>1, <1>2
       DEF Datagram, Ids, ReceiveReset, listening, clients, disposal, history, From, Latest
<1>8. DeliveredOnce'
    BY <1>1, <1>2
       DEF DeliveredOnce, Ids, ReceiveReset, listening, clients, disposal, history, From, Latest
<1>9. LoopEndsForCause'
    BY <1>1, <1>2
       DEF LoopEndsForCause, Cancelled, Ends, ReceiveReset, listening, clients, disposal,
           history, From, Latest
<1> QED
    BY <1>3, <1>4, <1>5, <1>6, <1>7, <1>8, <1>9 DEF Core

\* The sender has a client.
LEMMA LookupFindsStep ==
    ASSUME IInv, LookupFinds
    PROVE  Core'
<1>1. /\ TypeOK /\ Counted /\ Calls /\ NewIsUnknown /\ Pending /\ Datagram /\ DeliveredOnce
      /\ Removal /\ Whereabouts /\ NobodyIsDeaf /\ Visiting /\ Clearing /\ Cleared
      /\ LoopEndsForCause /\ Growing
    BY DEF IInv, Core
<1>2. /\ Len(made) \in Nat /\ Latest \in Nat /\ Latest <= MaxDatagrams /\ MaxDatagrams \in Nat
      /\ Len(made) <= Latest /\ client \in 0 .. Len(made)
      /\ \A c \in Ids : c \in ClientIds /\ made[c] \in Endpoints
      /\ Latest > 0 => From \in Endpoints
    BY <1>1, Ranges
<1>3. /\ From \in Endpoints /\ client' = table[From] /\ client' # 0
      /\ client' \in 0 .. Len(made) /\ made[client'] = From
    BY <1>1, <1>2 DEF LookupFinds, TypeOK, Counted, Ends, Key
<1>4. /\ Calls' /\ NewIsUnknown' /\ Removal' /\ Whereabouts' /\ NobodyIsDeaf'
      /\ Visiting' /\ Clearing' /\ Cleared'
    BY LoopMovesKeep DEF LookupFinds, clients, history, disposal
<1>5. TypeOK'
    BY <1>1, <1>2, <1>3
       DEF TypeOK, Ids, ClientIds, Ends, LookupFinds, listening, clients, disposal, history,
           From, Latest
<1>6. Counted'
    BY <1>1, <1>2, <1>3
       DEF Counted, Ends, LookupFinds, listening, clients, disposal, history, From, Latest
<1>7. Pending'
    BY <1>1, <1>2, <1>3
       DEF Pending, Cancelled, LookupFinds, listening, clients, disposal, history, From, Latest
<1>8. Datagram'
    BY <1>1, <1>2, <1>3
       DEF Datagram, Ids, LookupFinds, listening, clients, disposal, history, From, Latest
<1>9. DeliveredOnce'
    BY <1>1, <1>2, <1>3
       DEF DeliveredOnce, Ids, LookupFinds, listening, clients, disposal, history, From, Latest
<1>10. LoopEndsForCause'
    BY <1>1, <1>2, <1>3
       DEF LoopEndsForCause, Cancelled, Ends, LookupFinds, listening, clients, disposal, history,
           From, Latest
<1> QED
    BY <1>4, <1>5, <1>6, <1>7, <1>8, <1>9, <1>10 DEF Core

\* The sender has none.
LEMMA LookupMissesStep ==
    ASSUME IInv, LookupMisses
    PROVE  Core'
<1>1. /\ TypeOK /\ Counted /\ Calls /\ NewIsUnknown /\ Pending /\ Datagram /\ DeliveredOnce
      /\ Removal /\ Whereabouts /\ NobodyIsDeaf /\ Visiting /\ Clearing /\ Cleared
      /\ LoopEndsForCause /\ Growing
    BY DEF IInv, Core
<1>2. /\ Len(made) \in Nat /\ Latest \in Nat /\ Latest <= MaxDatagrams /\ MaxDatagrams \in Nat
      /\ Len(made) <= Latest /\ client \in 0 .. Len(made)
      /\ \A c \in Ids : c \in ClientIds /\ made[c] \in Endpoints
      /\ Latest > 0 => From \in Endpoints
    BY <1>1, Ranges
<1>3. /\ loop' \in {"accepting", "receiving", "cancelled", "disposed"}
      /\ loop' = "accepting" => owner \in {"live", "cancelled"} /\ (table[From] = 0 \/ raced)
      /\ loop' \in {"cancelled", "disposed"} => Cancelled
    BY <1>1, LoopContinuesIs DEF LookupMisses, Pending, Key, TypeOK
<1>4. TypeOK'
    BY <1>1, <1>2, <1>3
       DEF TypeOK, Ids, ClientIds, Ends, LookupMisses, listening, clients, disposal, history,
           From, Latest
<1>5. Counted'
    BY <1>1, <1>2, <1>3
       DEF Counted, Ends, LookupMisses, listening, clients, disposal, history, From, Latest
<1>6. Calls'
    BY <1>1, <1>2, <1>3
       DEF Calls, LookupMisses, listening, clients, disposal, history, From, Latest
<1>7. NewIsUnknown'
    BY <1>1, <1>2, <1>3
       DEF NewIsUnknown, LookupMisses, listening, clients, disposal, history, From, Latest
<1>8. Pending'
    <2>1. UNCHANGED << datagrams, table, accepted, owner, raced >>
        BY DEF LookupMisses, disposal
    <2>2. loop' = "accepting" => accepted
        BY LoopContinuesIs DEF LookupMisses
    <2> QED
        BY <1>1, <1>3, <2>1, <2>2 DEF Pending, From, Latest
<1>9. Datagram'
    BY <1>1, <1>2, <1>3
       DEF Datagram, Ids, LookupMisses, listening, clients, disposal, history, From, Latest
<1>10. DeliveredOnce'
    BY <1>1, <1>2, <1>3
       DEF DeliveredOnce, Ids, LookupMisses, listening, clients, disposal, history, From, Latest
<1>11. Removal'
    BY <1>1, <1>2, <1>3
       DEF Removal, Evicted, RemovedTwice, Ids, LookupMisses, listening, clients, disposal,
           history, From, Latest
<1>12. Whereabouts'
    BY <1>1, <1>3 DEF LookupMisses, Whereabouts, Evicted, RemovedTwice, Ids, From, Latest,
                      clients, history, disposal
<1>13. NobodyIsDeaf'
    BY <1>1, <1>2, <1>3
       DEF NobodyIsDeaf, LookupMisses, listening, clients, disposal, history, From, Latest
<1>14. Visiting'
    BY <1>1, <1>2, <1>3
       DEF Visiting, Growing, LookupMisses, listening, clients, disposal, history, From, Latest
<1>15. Clearing'
    BY <1>1, <1>2, <1>3
       DEF Clearing, LookupMisses, listening, clients, disposal, history, From, Latest
<1>16. Cleared'
    BY <1>1, <1>3 DEF LookupMisses, Cleared, IsAdded, clients, disposal
<1>17. LoopEndsForCause'
    BY <1>1, <1>2, <1>3
       DEF LoopEndsForCause, Cancelled, Ends, LookupMisses, listening, clients, disposal,
           history, From, Latest
<1> QED
    BY <1>4, <1>5, <1>6, <1>7, <1>8, <1>9, <1>10, <1>11, <1>12, <1>13, <1>14, <1>15, <1>16,
       <1>17 DEF Core

\* The chains of the table lead in a circle.
LEMMA TableBreaksStep ==
    ASSUME IInv, TableBreaks
    PROVE  Core'
<1>1. /\ TypeOK /\ Counted /\ Calls /\ NewIsUnknown /\ Pending /\ Datagram /\ DeliveredOnce
      /\ Removal /\ Whereabouts /\ NobodyIsDeaf /\ Visiting /\ Clearing /\ Cleared
      /\ LoopEndsForCause /\ Growing
    BY DEF IInv, Core
<1>2. /\ Len(made) \in Nat /\ Latest \in Nat /\ Latest <= MaxDatagrams /\ MaxDatagrams \in Nat
      /\ Len(made) <= Latest /\ client \in 0 .. Len(made)
      /\ \A c \in Ids : c \in ClientIds /\ made[c] \in Endpoints
      /\ Latest > 0 => From \in Endpoints
    BY <1>1, Ranges
<1>3. /\ Calls' /\ NewIsUnknown' /\ Removal' /\ Whereabouts' /\ NobodyIsDeaf'
      /\ Visiting' /\ Clearing' /\ Cleared'
    BY LoopMovesKeep DEF TableBreaks, clients, history, disposal
<1>4. TypeOK'
    BY <1>1, <1>2
       DEF TypeOK, Ids, ClientIds, Ends, TableBreaks, listening, clients, disposal, history,
           From, Latest
<1>5. Counted'
    BY <1>1, <1>2
       DEF Counted, Ends, TableBreaks, listening, clients, disposal, history, From, Latest
<1>6. Pending'
    BY <1>1, <1>2
       DEF Pending, Cancelled, TableBreaks, listening, clients, disposal, history, From, Latest
<1>7. Datagram'
    BY <1>1, <1>2
       DEF Datagram, Ids, TableBreaks, listening, clients, disposal, history, From, Latest
<1>8. DeliveredOnce'
    BY <1>1, <1>2
       DEF DeliveredOnce, Ids, TableBreaks, listening, clients, disposal, history, From, Latest
<1>9. LoopEndsForCause'
    BY <1>1, <1>2
       DEF LoopEndsForCause, Cancelled, Ends, TableBreaks, listening, clients, disposal, history,
           From, Latest
<1> QED
    BY <1>3, <1>4, <1>5, <1>6, <1>7, <1>8, <1>9 DEF Core

\* A client is made.
LEMMA MakeClientStep ==
    ASSUME IInv, MakeClient
    PROVE  Core'
<1>1. /\ TypeOK /\ Counted /\ Calls /\ NewIsUnknown /\ Pending /\ Datagram /\ DeliveredOnce
      /\ Removal /\ Whereabouts /\ NobodyIsDeaf /\ Visiting /\ Clearing /\ Cleared
      /\ LoopEndsForCause /\ Growing
    BY DEF IInv, Core
<1>2. /\ Len(made) \in Nat /\ Latest \in Nat /\ Latest <= MaxDatagrams /\ MaxDatagrams \in Nat
      /\ Len(made) <= Latest /\ client \in 0 .. Len(made)
      /\ \A c \in Ids : c \in ClientIds /\ made[c] \in Endpoints
      /\ Latest > 0 => From \in Endpoints
    BY <1>1, Ranges
<1>3. /\ From \in Endpoints /\ loop = "accepting" /\ loop' = "adding" /\ Len(made) < Latest
    BY <1>1, <1>2 DEF MakeClient, Counted, Ends
<1>4. /\ made' \in Seq(Endpoints) /\ Len(made') = Len(made) + 1 /\ client' = Len(made')
      /\ made'[client'] = From /\ From' = From /\ Latest' = Latest
      /\ \A c \in Ids : made'[c] = made[c]
    BY <1>1, <1>2, <1>3 DEF MakeClient, TypeOK, Ids, From, Latest
<1>5. /\ Ids' = Ids \cup {client'} /\ client' \notin Ids /\ client' \in ClientIds
      /\ \A c \in Ids : c < client' /\ c # 0
    BY <1>2, <1>3, <1>4 DEF Ids, ClientIds
<1>6. /\ raced => raced'
      /\ owner = "clearing" => raced'
    BY DEF MakeClient, Overlaps, Writing, Threads
<1>7. UNCHANGED << datagrams, table, disconnected, received, buffer, call, calls, disposal,
                   unreachable, history >>
    BY DEF MakeClient
<1>8. \A c \in Ids : Evicted(c) => Evicted(c)'
    BY <1>4, <1>5, <1>7 DEF Evicted, RemovedTwice, history
<1>9. /\ \A e \in Endpoints : table[e] # client' /\ table[e] \in 0 .. Len(made')
      /\ \A u \in Threads : call[u].client # client' /\ call[u] \in CallStates'
      /\ client' \notin disconnected
    <2>1. \A u \in Threads : call[u] \in CallStates
        BY <1>1 DEF TypeOK, CallStates
    <2>2. ASSUME NEW x \in CallStates PROVE x \in CallStates' /\ x.client # client'
        BY <1>2, <1>4, <1>5, NoCallIs DEF CallStates
    <2>3. \A e \in Endpoints : table[e] \in 0 .. Len(made)
        BY <1>1 DEF TypeOK
    <2>4. disconnected \subseteq Ids
        BY <1>1 DEF TypeOK
    <2> QED
        BY <1>2, <1>4, <1>5, <2>1, <2>2, <2>3, <2>4
<1>10. TypeOK'
    <2>1. {accepted', grown', unreachable', raced'} \subseteq BOOLEAN
        BY <1>1, Zenon DEF TypeOK, MakeClient, disposal
    <2>2. call' \in [Threads -> CallStates'] /\ table' \in [Endpoints -> 0 .. Len(made')]
        BY <1>1, <1>7, <1>9 DEF TypeOK
    <2>3. disconnected' \subseteq Ids' /\ received' \subseteq Ids'
        BY <1>1, <1>5, <1>7 DEF TypeOK
    <2>4. client' \in 0 .. Len(made') /\ loop' \in {"adding"}
        BY <1>2, <1>3, <1>4
    <2> QED
        BY <1>1, <1>4, <1>7, <2>1, <2>2, <2>3, <2>4 DEF TypeOK, CallStates, disposal, history
<1>11. Counted'
    <2>1. Len(made') <= Latest' /\ Latest' > 0 /\ client' # 0
        BY <1>2, <1>3, <1>4
    <2>2. \A e \in Endpoints : table[e] # 0 => table[e] \in Ids /\ made[table[e]] = e
        BY <1>1, <1>2 DEF Counted, TypeOK, Ids
    <2> QED
        BY <1>3, <1>4, <1>7, <2>1, <2>2 DEF Counted
<1>12. Calls'
    BY <1>1, <1>2
       DEF Calls, MakeClient, listening, clients, disposal, history, From, Latest
<1>13. NewIsUnknown'
    BY <1>4, <1>7, <1>9 DEF NewIsUnknown
<1>14. Pending'
    BY <1>1, <1>2
       DEF Pending, Cancelled, MakeClient, listening, clients, disposal, history, From, Latest
<1>15. Datagram'
    BY <1>1, <1>3, <1>5, <1>7 DEF Datagram, history
<1>16. DeliveredOnce'
    <2>1. delivered[client'] = {} /\ late[client'] = 0
        <3>1. client' \notin disconnected
            BY <1>9
        <3> QED
            BY <1>1, <1>5, <3>1 DEF Datagram
    <2> QED
        BY <1>1, <1>4, <1>5, <1>7, <2>1 DEF DeliveredOnce, history
<1>17. Removal'
    <2>1. \A b \in ClientIds : removals'[b] > 0 => b \in disconnected'
        BY <1>1, <1>7 DEF Removal, history
    <2>2. ASSUME ~ raced', NEW b \in Ids', NEW c \in Ids', b < c, made'[b] = made'[c]
          PROVE  removals[b] > 0 \/ Evicted(b)'
        <3>1. ~ raced /\ table[From] = 0
            BY <1>1, <1>3, <1>6, <2>2 DEF Pending
        <3>2. b \in Ids
            BY <1>2, <1>4, <1>5, <2>2 DEF Ids
        <3>3. CASE c \in Ids
            BY <1>1, <1>4, <1>8, <2>2, <3>1, <3>2, <3>3 DEF Removal
        <3>4. CASE c = client'
            <4>1. made[b] = From /\ b # 0
                BY <1>4, <1>5, <2>2, <3>2, <3>4
            <4>2. removals[b] > 0 \/ Evicted(b)
                BY <1>1, <1>3, <3>1, <3>2, <4>1 DEF Whereabouts
            <4> QED
                BY <1>8, <3>2, <4>2
        <3> QED
            BY <1>5, <2>2, <3>3, <3>4
    <2> QED
        BY <1>7, <2>1, <2>2 DEF Removal, history
<1>18. Whereabouts'
    <2>1. ASSUME ~ raced', NEW b \in Ids'
          PROVE  \/ removals[b] > 0
                 \/ Evicted(b)'
                 \/ table[made'[b]] = b
                 \/ b = client'
                 \/ /\ b \in disconnected /\ owner \in {"cleared", "disposed"}
                    /\ From # made'[b]
        <3>1. CASE b \in Ids
            BY <1>1, <1>3, <1>4, <1>6, <1>8, <2>1, <3>1 DEF Whereabouts
        <3> QED
            BY <1>5, <2>1, <3>1
    <2> QED
        BY <1>3, <1>4, <1>7, <2>1 DEF Whereabouts, history, disposal
<1>19. NobodyIsDeaf'
    <2>1. \A u \in Threads : call[u].at \in {"leaving", "removing"} => call[u].client \in Ids
        BY <1>1, NoCallIs DEF TypeOK
    <2> QED
        BY <1>1, <1>4, <1>6, <1>7, <2>1 DEF NobodyIsDeaf
<1>20. Visiting'
    BY <1>1, <1>3, <1>6, <1>7 DEF Visiting, Growing, disposal
<1>21. Clearing'
    BY <1>6, <1>7 DEF Clearing, disposal
<1>22. Cleared'
    BY <1>1, <1>3, <1>4, <1>6, <1>7 DEF Cleared, IsAdded, disposal
<1>23. LoopEndsForCause'
    BY <1>1, <1>3, <1>7 DEF LoopEndsForCause
<1> QED
    BY <1>10, <1>11, <1>12, <1>13, <1>14, <1>15, <1>16, <1>17, <1>18, <1>19, <1>20, <1>21, <1>22,
       <1>23 DEF Core

\* It is added to the table.
LEMMA AddClientStep ==
    ASSUME IInv, AddClient
    PROVE  Core'
<1>1. /\ TypeOK /\ Counted /\ Calls /\ NewIsUnknown /\ Pending /\ Datagram /\ DeliveredOnce
      /\ Removal /\ Whereabouts /\ NobodyIsDeaf /\ Visiting /\ Clearing /\ Cleared
      /\ LoopEndsForCause /\ Growing
    BY DEF IInv, Core
<1>2. /\ Len(made) \in Nat /\ Latest \in Nat /\ Latest <= MaxDatagrams /\ MaxDatagrams \in Nat
      /\ Len(made) <= Latest /\ client \in 0 .. Len(made)
      /\ \A c \in Ids : c \in ClientIds /\ made[c] \in Endpoints
      /\ Latest > 0 => From \in Endpoints
    BY <1>1, Ranges
<1>3. /\ From \in Endpoints /\ loop = "adding" /\ client \in Ids /\ client \in ClientIds
      /\ client = Len(made) /\ made[client] = From /\ client \notin disconnected /\ client # 0
      /\ Latest > 0
    BY <1>1, <1>2 DEF AddClient, Counted, NewIsUnknown, Ids, Ends
<1>4. UNCHANGED << datagrams, client, made, disconnected, received, call, calls, accepted, owner,
                   visited, unreachable, raced, history >>
    BY DEF AddClient
<1>5. /\ loop' \in {"duplicate", "added"} /\ (loop' = "duplicate" => raced)
      /\ table' \in [Endpoints -> 0 .. Len(made)]
      /\ \A e \in Endpoints : table'[e] \in {table[e], 0} \/ (e = From /\ table'[e] = client)
      /\ ~ raced => /\ table[From] = 0 /\ table'[From] = client
                    /\ \A e \in Endpoints \ {From} : table'[e] = table[e]
                    /\ grown' = (owner = "enumerating")
      /\ grown' \in BOOLEAN
      /\ buffer' \in [ClientIds -> 0 .. Latest]
    <2>1. table \in [Endpoints -> 0 .. Len(made)] /\ buffer \in [ClientIds -> 0 .. Latest]
        BY <1>1 DEF TypeOK
    <2>2. ~ raced => table[From] = 0
        BY <1>1, <1>3 DEF Pending
    <2>3. CASE table[From] # 0
        <3>1. /\ loop' = "duplicate" /\ UNCHANGED << table, buffer, grown >>
            BY <2>3 DEF AddClient, Key
        <3>2. grown \in BOOLEAN
            BY <1>1, Zenon DEF TypeOK
        <3> QED
            BY <2>1, <2>2, <2>3, <3>1, <3>2
    <2>4. CASE table[From] = 0
        <3> DEFINE new == [table EXCEPT ![From] = client]
        <3>1. /\ loop' = "added" /\ table' \in TableAfter(new)
              /\ buffer' = [buffer EXCEPT ![client] = Latest]
              /\ grown' = (owner = "enumerating")
            BY <2>4 DEF AddClient, Key
        <3>2. /\ new \in [Endpoints -> 0 .. Len(made)] /\ new[From] = client
              /\ \A e \in Endpoints \ {From} : new[e] = table[e]
            BY <1>2, <1>3, <2>1
        <3> HIDE DEF new
        <3>3. /\ table' \in [Endpoints -> 0 .. Len(made)]
              /\ \A e \in Endpoints : table'[e] \in {table[e], new[e], 0}
              /\ ~ raced => table' = new
            BY <1>1, <3>1, <3>2, TableAfterIs
        <3>4. buffer' \in [ClientIds -> 0 .. Latest]
            <4>1. Latest \in 0 .. Latest
                BY <1>2
            <4> QED
                BY <2>1, <3>1, <4>1
        <3>5. grown' \in BOOLEAN
            BY <3>1
        <3> QED
            BY <1>3, <2>4, <3>1, <3>2, <3>3, <3>4, <3>5
    <2> QED
        BY <2>3, <2>4
<1>6. TypeOK'
    <2>1. {accepted', grown', unreachable', raced'} \subseteq BOOLEAN
        BY <1>1, <1>4, <1>5, Zenon DEF TypeOK
    <2> QED
        BY <1>1, <1>4, <1>5, <2>1 DEF TypeOK, Ids, Latest, Ends, history
<1>7. Counted'
    BY <1>1, <1>2, <1>3, <1>4, <1>5 DEF Counted, From, Latest, Ends
<1>8. Calls'
    BY <1>1, <1>4 DEF Calls
<1>9. NewIsUnknown'
    BY <1>5 DEF NewIsUnknown
<1>10. Pending'
    BY <1>1, <1>3, <1>4, <1>5 DEF Pending, Cancelled
<1>11. Datagram'
    BY <1>1, <1>4, <1>5 DEF Datagram, Ids, history
<1>12. DeliveredOnce'
    BY <1>1, <1>4 DEF DeliveredOnce, Ids, history
<1>13. Removal'
    BY <1>1, <1>4 DEF Removal, Evicted, RemovedTwice, Ids, history
<1>14. Whereabouts'
    <2>1. ASSUME ~ raced, NEW b \in Ids
          PROVE  \/ removals[b] > 0
                 \/ Evicted(b)
                 \/ table'[made[b]] = b
                 \/ /\ b \in disconnected /\ owner \in {"cleared", "disposed"}
        <3>1. CASE b = client
            BY <1>3, <1>5, <2>1, <3>1
        <3>2. CASE table[made[b]] = b
            <4>1. b # 0 /\ made[b] \in Endpoints
                BY <1>2, <2>1 DEF Ids
            <4> QED
                BY <1>5, <2>1, <3>2, <4>1
        <3> QED
            BY <1>1, <2>1, <3>1, <3>2 DEF Whereabouts
    <2> QED
        BY <1>4, <1>5, <2>1 DEF Whereabouts, Evicted, RemovedTwice, Ids, history
<1>15. NobodyIsDeaf'
    <2>1. 0 \notin disconnected
        BY <1>1 DEF TypeOK, Ids
    <2> QED
        BY <1>1, <1>3, <1>4, <1>5, <2>1 DEF NobodyIsDeaf
<1>16. Visiting'
    <2>1. ~ grown /\ owner # "threw"
        BY <1>1, <1>3 DEF Growing
    <2>2. ASSUME owner = "enumerating", ~ raced, NEW e \in visited
          PROVE  \/ table'[e] = 0
                 \/ table'[e] \in disconnected
                 \/ call["owner"].client = table'[e] /\ call["owner"].at = "marking"
                 \/ grown' /\ IsAdded(table[e])'
        <3>1. e \in Endpoints /\ loop' = "added" /\ grown'
            BY <1>1, <1>5, <2>2 DEF TypeOK
        <3>2. CASE e = From
            BY <1>4, <1>5, <2>2, <3>1, <3>2 DEF IsAdded
        <3>3. CASE e # From
            BY <1>1, <1>5, <2>1, <2>2, <3>1, <3>3 DEF Visiting
        <3> QED
            BY <3>2, <3>3
    <2> QED
        BY <1>4, <2>1, <2>2 DEF Visiting
<1>17. Clearing'
    BY <1>1, <1>3, <1>4 DEF Clearing
<1>18. Cleared'
    BY <1>1, <1>3, <1>4, <1>5 DEF Cleared, IsAdded
<1>19. LoopEndsForCause'
    BY <1>1, <1>4, <1>5 DEF LoopEndsForCause, Cancelled
<1> QED
    BY <1>6, <1>7, <1>8, <1>9, <1>10, <1>11, <1>12, <1>13, <1>14, <1>15, <1>16, <1>17, <1>18,
       <1>19 DEF Core

\* Accepted is raised.
LEMMA RaiseAcceptedStep ==
    ASSUME IInv, RaiseAccepted
    PROVE  Core'
<1>1. /\ TypeOK /\ Counted /\ Calls /\ NewIsUnknown /\ Pending /\ Datagram /\ DeliveredOnce
      /\ Removal /\ Whereabouts /\ NobodyIsDeaf /\ Visiting /\ Clearing /\ Cleared
      /\ LoopEndsForCause /\ Growing
    BY DEF IInv, Core
<1>2. /\ Len(made) \in Nat /\ Latest \in Nat /\ Latest <= MaxDatagrams /\ MaxDatagrams \in Nat
      /\ Len(made) <= Latest /\ client \in 0 .. Len(made)
      /\ \A c \in Ids : c \in ClientIds /\ made[c] \in Endpoints
      /\ Latest > 0 => From \in Endpoints
    BY <1>1, Ranges
<1>3. /\ loop' \in {"handling", "unhooked"} /\ client # 0 /\ client \in Ids
      /\ loop' = "unhooked" => ~ accepted /\ Cancelled
    BY <1>1, <1>2 DEF RaiseAccepted, Counted, Pending, Ids
<1>4. received' \subseteq Ids
    BY <1>1, <1>3 DEF RaiseAccepted, TypeOK
<1>5. /\ Calls' /\ NewIsUnknown' /\ Removal' /\ Whereabouts' /\ NobodyIsDeaf'
      /\ Visiting' /\ Clearing' /\ Cleared'
    BY LoopMovesKeep, <1>3 DEF RaiseAccepted, clients, history, disposal
<1>6. TypeOK'
    BY <1>1, <1>3, <1>4 DEF RaiseAccepted, TypeOK, Ids, Latest, Ends, disposal, history
<1>7. Counted'
    BY <1>1, <1>2
       DEF Counted, Ends, RaiseAccepted, listening, clients, disposal, history, From, Latest
<1>8. Pending'
    BY <1>1, <1>2
       DEF Pending, Cancelled, RaiseAccepted, listening, clients, disposal, history, From, Latest
<1>9. Datagram'
    BY <1>1, <1>2
       DEF Datagram, Ids, RaiseAccepted, listening, clients, disposal, history, From, Latest
<1>10. DeliveredOnce'
    BY <1>1, <1>2
       DEF DeliveredOnce, Ids, RaiseAccepted, listening, clients, disposal, history, From, Latest
<1>11. LoopEndsForCause'
    BY <1>3 DEF RaiseAccepted, LoopEndsForCause, Cancelled, disposal
<1> QED
    BY <1>5, <1>6, <1>7, <1>8, <1>9, <1>10, <1>11 DEF Core

\* A client is told of its datagram.
LEMMA NotifyReceivedStep ==
    ASSUME IInv, NotifyReceived
    PROVE  Core'
<1>1. /\ TypeOK /\ Counted /\ Calls /\ NewIsUnknown /\ Pending /\ Datagram /\ DeliveredOnce
      /\ Removal /\ Whereabouts /\ NobodyIsDeaf /\ Visiting /\ Clearing /\ Cleared
      /\ LoopEndsForCause /\ Growing
    BY DEF IInv, Core
<1>2. /\ Len(made) \in Nat /\ Latest \in Nat /\ Latest <= MaxDatagrams /\ MaxDatagrams \in Nat
      /\ Len(made) <= Latest /\ client \in 0 .. Len(made)
      /\ \A c \in Ids : c \in ClientIds /\ made[c] \in Endpoints
      /\ Latest > 0 => From \in Endpoints
    BY <1>1, Ranges
<1>3. /\ loop = "found" /\ client \in ClientIds
      /\ loop' \in {"notifying", "receiving", "cancelled", "disposed"}
      /\ loop' = "notifying" => client \notin disconnected
      /\ loop' \in {"cancelled", "disposed"} => Cancelled
    BY <1>1, <1>2, LoopContinuesIs DEF NotifyReceived, WantsDatagrams, Counted, Ids
<1>4. /\ Calls' /\ NewIsUnknown' /\ Removal' /\ Whereabouts' /\ NobodyIsDeaf'
      /\ Visiting' /\ Clearing' /\ Cleared'
    BY LoopMovesKeep, <1>3 DEF NotifyReceived, clients, history, disposal
<1>5. TypeOK'
    BY <1>1, <1>2, <1>3
       DEF TypeOK, Ids, ClientIds, Ends, NotifyReceived, listening, clients, disposal, history,
           From, Latest
<1>6. Counted'
    BY <1>1, <1>2, <1>3
       DEF Counted, Ends, NotifyReceived, listening, clients, disposal, history, From, Latest
<1>7. Pending'
    BY <1>1, <1>2, <1>3
       DEF Pending, Cancelled, NotifyReceived, listening, clients, disposal, history, From, Latest
<1>8. Datagram'
    BY <1>1, <1>2, <1>3
       DEF Datagram, Ids, NotifyReceived, listening, clients, disposal, history, From, Latest
<1>9. DeliveredOnce'
    BY <1>1, <1>2, <1>3
       DEF DeliveredOnce, Ids, NotifyReceived, listening, clients, disposal, history, From, Latest
<1>10. LoopEndsForCause'
    BY <1>1, <1>2, <1>3
       DEF LoopEndsForCause, Cancelled, Ends, NotifyReceived, listening, clients, disposal,
           history, From, Latest
<1> QED
    BY <1>4, <1>5, <1>6, <1>7, <1>8, <1>9, <1>10 DEF Core

\* It keeps the datagram.
LEMMA StoreBufferStep ==
    ASSUME IInv, StoreBuffer
    PROVE  Core'
<1>1. /\ TypeOK /\ Counted /\ Calls /\ NewIsUnknown /\ Pending /\ Datagram /\ DeliveredOnce
      /\ Removal /\ Whereabouts /\ NobodyIsDeaf /\ Visiting /\ Clearing /\ Cleared
      /\ LoopEndsForCause /\ Growing
    BY DEF IInv, Core
<1>2. /\ Len(made) \in Nat /\ Latest \in Nat /\ Latest <= MaxDatagrams /\ MaxDatagrams \in Nat
      /\ Len(made) <= Latest /\ client \in 0 .. Len(made)
      /\ \A c \in Ids : c \in ClientIds /\ made[c] \in Endpoints
      /\ Latest > 0 => From \in Endpoints
    BY <1>1, Ranges
<1>3. /\ loop' = "stored" /\ client \in ClientIds /\ buffer' \in [ClientIds -> 0 .. Latest]
      /\ buffer'[client] = Latest
    <2>1. buffer \in [ClientIds -> 0 .. Latest] /\ client \in ClientIds
        BY <1>1, <1>2 DEF StoreBuffer, TypeOK, Counted, Ids
    <2> QED
        BY <1>2, <2>1 DEF StoreBuffer, BufferAfter
<1>4. /\ Calls' /\ NewIsUnknown' /\ Removal' /\ Whereabouts' /\ NobodyIsDeaf'
      /\ Visiting' /\ Clearing' /\ Cleared'
    BY LoopMovesKeep, <1>3 DEF StoreBuffer, clients, history, disposal
<1>5. TypeOK'
    BY <1>1, <1>3 DEF StoreBuffer, TypeOK, Ids, Latest, disposal, history
<1>6. Counted'
    BY <1>1, <1>2
       DEF Counted, Ends, StoreBuffer, listening, clients, disposal, history, From, Latest
<1>7. Pending'
    BY <1>1, <1>2
       DEF Pending, Cancelled, StoreBuffer, listening, clients, disposal, history, From, Latest
<1>8. Datagram'
    BY <1>1, <1>3 DEF StoreBuffer, Datagram, Ids, Latest, history
<1>9. DeliveredOnce'
    BY <1>1, <1>2
       DEF DeliveredOnce, Ids, StoreBuffer, listening, clients, disposal, history, From, Latest
<1>10. LoopEndsForCause'
    BY <1>1, <1>2
       DEF LoopEndsForCause, Cancelled, Ends, StoreBuffer, listening, clients, disposal, history,
           From, Latest
<1> QED
    BY <1>4, <1>5, <1>6, <1>7, <1>8, <1>9, <1>10 DEF Core

\* Received is raised.
LEMMA RaiseReceivedStep ==
    ASSUME IInv, RaiseReceived
    PROVE  Core'
<1>1. /\ TypeOK /\ Counted /\ Calls /\ NewIsUnknown /\ Pending /\ Datagram /\ DeliveredOnce
      /\ Removal /\ Whereabouts /\ NobodyIsDeaf /\ Visiting /\ Clearing /\ Cleared
      /\ LoopEndsForCause /\ Growing
    BY DEF IInv, Core
<1>2. /\ Len(made) \in Nat /\ Latest \in Nat /\ Latest <= MaxDatagrams /\ MaxDatagrams \in Nat
      /\ Len(made) <= Latest /\ client \in 0 .. Len(made)
      /\ \A c \in Ids : c \in ClientIds /\ made[c] \in Endpoints
      /\ Latest > 0 => From \in Endpoints
    BY <1>1, Ranges
<1>3. /\ Calls' /\ NewIsUnknown' /\ Removal' /\ Whereabouts' /\ NobodyIsDeaf'
      /\ Visiting' /\ Clearing' /\ Cleared'
    BY LoopMovesKeep, LoopContinuesIs DEF RaiseReceived, clients, history, disposal
<1>4. TypeOK'
    BY <1>1, <1>2, LoopContinuesIs
       DEF TypeOK, Ids, ClientIds, Ends, RaiseReceived, listening, clients, disposal, history,
           From, Latest
<1>5. Counted'
    BY <1>1, <1>2, LoopContinuesIs
       DEF Counted, Ends, RaiseReceived, listening, clients, disposal, history, From, Latest
<1>6. Pending'
    BY <1>1, <1>2, LoopContinuesIs
       DEF Pending, Cancelled, RaiseReceived, listening, clients, disposal, history, From, Latest
<1>7. Datagram'
    BY <1>1, <1>2, LoopContinuesIs
       DEF Datagram, Ids, RaiseReceived, listening, clients, disposal, history, From, Latest
<1>8. DeliveredOnce'
    BY <1>1, <1>2, LoopContinuesIs
       DEF DeliveredOnce, Ids, RaiseReceived, listening, clients, disposal, history, From, Latest
<1>9. LoopEndsForCause'
    BY <1>1, <1>2, LoopContinuesIs
       DEF LoopEndsForCause, Cancelled, Ends, RaiseReceived, listening, clients, disposal,
           history, From, Latest
<1> QED
    BY <1>3, <1>4, <1>5, <1>6, <1>7, <1>8, <1>9 DEF Core

\* The handler finds no buffer.
LEMMA WithoutBufferStep ==
    ASSUME IInv, OnReceivedWithoutBuffer
    PROVE  Core'
<1>1. /\ TypeOK /\ Counted /\ Calls /\ NewIsUnknown /\ Pending /\ Datagram /\ DeliveredOnce
      /\ Removal /\ Whereabouts /\ NobodyIsDeaf /\ Visiting /\ Clearing /\ Cleared
      /\ LoopEndsForCause /\ Growing
    BY DEF IInv, Core
<1>2. /\ Len(made) \in Nat /\ Latest \in Nat /\ Latest <= MaxDatagrams /\ MaxDatagrams \in Nat
      /\ Len(made) <= Latest /\ client \in 0 .. Len(made)
      /\ \A c \in Ids : c \in ClientIds /\ made[c] \in Endpoints
      /\ Latest > 0 => From \in Endpoints
    BY <1>1, Ranges
<1>3. /\ Calls' /\ NewIsUnknown' /\ Removal' /\ Whereabouts' /\ NobodyIsDeaf'
      /\ Visiting' /\ Clearing' /\ Cleared'
    BY LoopMovesKeep, LoopContinuesIs DEF OnReceivedWithoutBuffer, clients, history, disposal
<1>4. TypeOK'
    BY <1>1, <1>2, LoopContinuesIs
       DEF TypeOK, Ids, ClientIds, Ends, OnReceivedWithoutBuffer, listening, clients, disposal,
           history, From, Latest
<1>5. Counted'
    BY <1>1, <1>2, LoopContinuesIs
       DEF Counted, Ends, OnReceivedWithoutBuffer, listening, clients, disposal, history, From,
           Latest
<1>6. Pending'
    BY <1>1, <1>2, LoopContinuesIs
       DEF Pending, Cancelled, OnReceivedWithoutBuffer, listening, clients, disposal, history,
           From, Latest
<1>7. Datagram'
    BY <1>1, <1>2, LoopContinuesIs
       DEF Datagram, Ids, OnReceivedWithoutBuffer, listening, clients, disposal, history, From,
           Latest
<1>8. DeliveredOnce'
    BY <1>1, <1>2, LoopContinuesIs
       DEF DeliveredOnce, Ids, OnReceivedWithoutBuffer, listening, clients, disposal, history,
           From, Latest
<1>9. LoopEndsForCause'
    BY <1>1, <1>2, LoopContinuesIs
       DEF LoopEndsForCause, Cancelled, Ends, OnReceivedWithoutBuffer, listening, clients,
           disposal, history, From, Latest
<1> QED
    BY <1>3, <1>4, <1>5, <1>6, <1>7, <1>8, <1>9 DEF Core

\* The handler reads the buffer.
LEMMA OnReceivedStep ==
    ASSUME IInv, OnReceived
    PROVE  Core'
<1>1. /\ TypeOK /\ Counted /\ Calls /\ NewIsUnknown /\ Pending /\ Datagram /\ DeliveredOnce
      /\ Removal /\ Whereabouts /\ NobodyIsDeaf /\ Visiting /\ Clearing /\ Cleared
      /\ LoopEndsForCause /\ Growing
    BY DEF IInv, Core
<1>2. /\ Len(made) \in Nat /\ Latest \in Nat /\ Latest <= MaxDatagrams /\ MaxDatagrams \in Nat
      /\ Len(made) <= Latest /\ client \in 0 .. Len(made)
      /\ \A c \in Ids : c \in ClientIds /\ made[c] \in Endpoints
      /\ Latest > 0 => From \in Endpoints
    BY <1>1, Ranges
<1>3. /\ loop = "raised" /\ client \in Ids /\ client \in ClientIds /\ made[client] = From
      /\ buffer[client] = Latest /\ Latest # 0 /\ late[client] = 0
      /\ \A c \in Ids : Latest \notin delivered[c]
    <2>1. loop = "raised" /\ buffer[client] # 0
        BY DEF OnReceived, FindsNoBuffer
    <2>2. client \in Ids /\ made[client] = From
        BY <1>1, <1>2, <2>1 DEF Counted, Ids
    <2> QED
        BY <1>1, <1>2, <2>1, <2>2 DEF Datagram
<1>4. UNCHANGED << datagrams, client, table, clients, call, calls, disposal, unreachable, raced,
                   removals >>
    BY DEF OnReceived
<1>5. \/ loop' = "undecryptable" /\ UNCHANGED << delivered, late >>
      \/ /\ loop' = "handling"
         /\ delivered' = [delivered EXCEPT ![client] = @ \cup {Latest}]
         /\ late' = [late EXCEPT ![client] = IF client \in disconnected THEN 1 ELSE 0]
    BY <1>3 DEF OnReceived
<1>6. /\ delivered' \in [ClientIds -> SUBSET (1 .. Latest)] /\ late' \in [ClientIds -> 0 .. Latest]
      /\ loop' \in {"undecryptable", "handling"}
      /\ \A c \in ClientIds \ {client} : delivered'[c] = delivered[c] /\ late'[c] = late[c]
      /\ delivered'[client] \in {delivered[client], delivered[client] \cup {Latest}}
      /\ late'[client] \in {0, 1} /\ (late'[client] = 1 => client \in disconnected)
    <2>1. delivered \in [ClientIds -> SUBSET (1 .. Latest)] /\ late \in [ClientIds -> 0 .. Latest]
        BY <1>1 DEF TypeOK
    <2>2. Latest \in 1 .. Latest /\ 1 \in 0 .. Latest /\ 0 \in 0 .. Latest
        BY <1>2, <1>3
    <2> QED
        BY <1>3, <1>5, <2>1, <2>2
<1>7. /\ Calls' /\ NewIsUnknown' /\ Removal' /\ Whereabouts' /\ NobodyIsDeaf'
      /\ Visiting' /\ Clearing' /\ Cleared'
    BY LoopMovesKeep, <1>3, <1>4, <1>6 DEF OnReceived, clients, history, disposal
<1>8. TypeOK'
    BY <1>1, <1>4, <1>6 DEF TypeOK, Ids, Latest, Ends, clients, disposal
<1>9. Counted'
    BY <1>1, <1>2, <1>3, <1>4, <1>6 DEF Counted, From, Latest, Ends, Ids, clients
<1>10. Pending'
    BY <1>1, <1>2
       DEF Pending, Cancelled, OnReceived, listening, clients, disposal, history, From, Latest
<1>11. Datagram'
    BY <1>1, <1>3, <1>4, <1>6 DEF Datagram, Ids, clients
<1>12. DeliveredOnce'
    <2>1. \A c \in Ids : late'[c] <= 1
        BY <1>1, <1>2, <1>6 DEF DeliveredOnce
    <2>2. datagrams[Latest] = made[client]
        BY <1>3 DEF From
    <2>3. \A c \in Ids : \A n \in delivered'[c] : n \in delivered[c] \/ (c = client /\ n = Latest)
        BY <1>2, <1>6
    <2>4. \A c \in Ids : \A n \in delivered'[c] : datagrams[n] = made[c]
        BY <1>1, <2>2, <2>3 DEF DeliveredOnce
    <2>5. \A c, d \in Ids : c # d => delivered'[c] \cap delivered'[d] = {}
        BY <1>1, <1>3, <2>3 DEF DeliveredOnce
    <2> QED
        BY <1>4, <2>1, <2>4, <2>5 DEF DeliveredOnce, Ids, clients
<1>13. LoopEndsForCause'
    BY <1>6 DEF LoopEndsForCause
<1> QED
    BY <1>7, <1>8, <1>9, <1>10, <1>11, <1>12, <1>13 DEF Core

\* The handler returns.
LEMMA HandlerReturnsStep ==
    ASSUME IInv, HandlerReturns
    PROVE  Core'
<1>1. /\ TypeOK /\ Counted /\ Calls /\ NewIsUnknown /\ Pending /\ Datagram /\ DeliveredOnce
      /\ Removal /\ Whereabouts /\ NobodyIsDeaf /\ Visiting /\ Clearing /\ Cleared
      /\ LoopEndsForCause /\ Growing
    BY DEF IInv, Core
<1>2. /\ Len(made) \in Nat /\ Latest \in Nat /\ Latest <= MaxDatagrams /\ MaxDatagrams \in Nat
      /\ Len(made) <= Latest /\ client \in 0 .. Len(made)
      /\ \A c \in Ids : c \in ClientIds /\ made[c] \in Endpoints
      /\ Latest > 0 => From \in Endpoints
    BY <1>1, Ranges
<1>3. /\ Calls' /\ NewIsUnknown' /\ Removal' /\ Whereabouts' /\ NobodyIsDeaf'
      /\ Visiting' /\ Clearing' /\ Cleared'
    BY LoopMovesKeep, LoopContinuesIs DEF HandlerReturns, clients, history, disposal
<1>4. TypeOK'
    BY <1>1, <1>2, LoopContinuesIs
       DEF TypeOK, Ids, ClientIds, Ends, HandlerReturns, listening, clients, disposal, history,
           From, Latest
<1>5. Counted'
    BY <1>1, <1>2, LoopContinuesIs
       DEF Counted, Ends, HandlerReturns, listening, clients, disposal, history, From, Latest
<1>6. Pending'
    BY <1>1, <1>2, LoopContinuesIs
       DEF Pending, Cancelled, HandlerReturns, listening, clients, disposal, history, From, Latest
<1>7. Datagram'
    BY <1>1, <1>2, LoopContinuesIs
       DEF Datagram, Ids, HandlerReturns, listening, clients, disposal, history, From, Latest
<1>8. DeliveredOnce'
    BY <1>1, <1>2, LoopContinuesIs
       DEF DeliveredOnce, Ids, HandlerReturns, listening, clients, disposal, history, From, Latest
<1>9. LoopEndsForCause'
    BY <1>1, <1>2, LoopContinuesIs
       DEF LoopEndsForCause, Cancelled, Ends, HandlerReturns, listening, clients, disposal,
           history, From, Latest
<1> QED
    BY <1>3, <1>4, <1>5, <1>6, <1>7, <1>8, <1>9 DEF Core

-----------------------------------------------------------------------------
(* Calls, and what comes of them *)

\* A call that begins disturbs nothing but what the disposal has visited.
LEMMA CallKeeps ==
    ASSUME IInv, NEW t \in Threads, NEW c \in Ids, NEW dispose \in BOOLEAN,
           Call(t, c, dispose), call[t] = NoCall,
           loop = "adding" => c # client,
           calls' \in 0 .. MaxCalls, visited' \subseteq Endpoints,
           raced' \in BOOLEAN, raced => raced',
           UNCHANGED << listening, table, clients, accepted, owner, grown, unreachable, history >>
    PROVE  /\ TypeOK' /\ Counted' /\ Calls' /\ NewIsUnknown' /\ Pending' /\ Datagram'
           /\ DeliveredOnce' /\ Removal' /\ Whereabouts' /\ NobodyIsDeaf' /\ Clearing'
           /\ Cleared' /\ LoopEndsForCause'
<1>1. /\ TypeOK /\ Counted /\ Calls /\ NewIsUnknown /\ Pending /\ Datagram /\ DeliveredOnce
      /\ Removal /\ Whereabouts /\ NobodyIsDeaf /\ Visiting /\ Clearing /\ Cleared
      /\ LoopEndsForCause /\ Growing
    BY DEF IInv, Core
<1>2. /\ Len(made) \in Nat /\ Latest \in Nat /\ Latest <= MaxDatagrams /\ MaxDatagrams \in Nat
      /\ Len(made) <= Latest /\ client \in 0 .. Len(made)
      /\ \A d \in Ids : d \in ClientIds /\ made[d] \in Endpoints
      /\ Latest > 0 => From \in Endpoints
    BY <1>1, Ranges
<1>3. /\ call' \in [Threads -> CallStates]
      /\ \A u \in Threads \ {t} : call'[u] = call[u]
      /\ call'[t].client \in {0, c}
      /\ call'[t].at \in {"none", "marking", "clearing"}
      /\ call'[t].at = "clearing" => call'[t].client \in disconnected
    BY <1>1, CallIs
<1>4. call[t].at = "none" /\ c # 0
    BY <1>2, NoCallIs DEF Ids
<1>11. TypeOK'
    <2>1. {accepted', grown', unreachable', raced'} \subseteq BOOLEAN
        BY <1>1, Zenon DEF TypeOK
    <2> QED
        BY <1>1, <1>3, <2>1 DEF TypeOK, CallStates, Ids, Latest, listening, clients, history
<1>12. Counted' /\ Pending' /\ LoopEndsForCause'
    BY <1>1 DEF Counted, Pending, LoopEndsForCause, Cancelled, From, Latest, listening, clients
<1>13. Calls'
    BY <1>1, <1>3 DEF Calls, clients
<1>14. NewIsUnknown'
    <2>1. loop = "adding" => client # 0
        BY <1>1 DEF Counted
    <2> QED
        BY <1>1, <1>3, <1>4, <2>1 DEF NewIsUnknown, listening, clients
<1>15. Datagram' /\ DeliveredOnce'
    BY <1>1 DEF Datagram, DeliveredOnce, Ids, Latest, listening, clients, history
<1>16. Removal' /\ Whereabouts'
    BY <1>1 DEF Removal, Whereabouts, Evicted, RemovedTwice, Ids, From, Latest, listening, clients,
                history
<1>17. NobodyIsDeaf'
    BY <1>1, <1>3, <1>4 DEF NobodyIsDeaf, clients
<1>18. Clearing' /\ Cleared'
    BY <1>1 DEF Clearing, Cleared, IsAdded, listening, clients
<1> QED
    BY <1>11, <1>12, <1>13, <1>14, <1>15, <1>16, <1>17, <1>18

\* A user disconnects or disposes a client.
LEMMA UserCallsStep ==
    ASSUME IInv, NEW t \in Users, UserCalls(t)
    PROVE  Core'
<1>1. TypeOK /\ Visiting
    BY DEF IInv, Core
<1>2. PICK c \in Handed, dispose \in BOOLEAN : Call(t, c, dispose)
    BY DEF UserCalls
<1>3. /\ t \in Threads /\ t # "owner" /\ call[t] = NoCall /\ c \in Ids
      /\ loop = "adding" => c # client
    BY <1>2, UsersAreOthers DEF UserCalls, Handed, Threads
<1>4. /\ calls' \in 0 .. MaxCalls
      /\ UNCHANGED << listening, table, clients, disposal, unreachable, raced, history >>
    BY <1>1, BoundsAreNatural DEF UserCalls, TypeOK
<1>5. raced' \in BOOLEAN /\ visited' \subseteq Endpoints
    <2>1. raced \in BOOLEAN
        BY <1>1, Zenon DEF TypeOK
    <2> QED
        BY <1>1, <1>4, <2>1 DEF TypeOK, disposal
<1>6. Visiting'
    <2>1. call'["owner"] = call["owner"]
        BY <1>1, <1>2, <1>3, CallIs DEF Threads
    <2> QED
        BY <1>1, <1>4, <2>1 DEF Visiting, IsAdded, clients, disposal, listening
<1> QED
    BY <1>2, <1>3, <1>4, <1>5, <1>6, CallKeeps DEF Core, disposal

\* The subscriber disconnects or disposes the client it was called for.
LEMMA HandlerCallsStep ==
    ASSUME IInv, HandlerCalls
    PROVE  Core'
<1>1. TypeOK /\ Counted /\ Visiting
    BY DEF IInv, Core
<1>2. PICK dispose \in BOOLEAN : Call("loop", client, dispose)
    BY DEF HandlerCalls
<1>3. /\ "loop" \in Threads /\ "owner" \in Threads /\ call["loop"] = NoCall /\ client \in Ids
      /\ loop = "handling"
    BY <1>1, Ranges DEF HandlerCalls, Threads, Counted, Ids
<1>4. /\ calls' \in 0 .. MaxCalls
      /\ UNCHANGED << listening, table, clients, disposal, unreachable, raced, history >>
    BY <1>1 DEF HandlerCalls, TypeOK
<1>5. raced' \in BOOLEAN /\ visited' \subseteq Endpoints
    <2>1. raced \in BOOLEAN
        BY <1>1, Zenon DEF TypeOK
    <2> QED
        BY <1>1, <1>4, <2>1 DEF TypeOK, disposal
<1>6. Visiting'
    <2>1. call'["owner"] = call["owner"]
        BY <1>1, <1>2, <1>3, CallIs
    <2> QED
        BY <1>1, <1>4, <2>1 DEF Visiting, IsAdded, clients, disposal, listening
<1> QED
    BY <1>2, <1>3, <1>4, <1>5, <1>6, CallKeeps DEF Core, disposal

\* A client is marked.
LEMMA MarkStep ==
    ASSUME IInv, NEW t \in Threads, Mark(t)
    PROVE  Core'
<1>1. /\ TypeOK /\ Counted /\ Calls /\ NewIsUnknown /\ Pending /\ Datagram /\ DeliveredOnce
      /\ Removal /\ Whereabouts /\ NobodyIsDeaf /\ Visiting /\ Clearing /\ Cleared
      /\ LoopEndsForCause /\ Growing
    BY DEF IInv, Core
<1>2. /\ Len(made) \in Nat /\ Latest \in Nat /\ Latest <= MaxDatagrams /\ MaxDatagrams \in Nat
      /\ Len(made) <= Latest /\ client \in 0 .. Len(made)
      /\ \A c \in Ids : c \in ClientIds /\ made[c] \in Endpoints
      /\ Latest > 0 => From \in Endpoints
    BY <1>1, Ranges
<1>3. /\ call' \in [Threads -> CallStates]
      /\ \A u \in Threads \ {t} : call'[u] = call[u]
      /\ call[t].client \in Ids /\ call[t].client # 0
      /\ call'[t].client = call[t].client
      /\ call[t].at = "marking" /\ call'[t].at = "leaving"
    <2>1. call[t].at = "marking" /\ call' = [call EXCEPT ![t] = StepAfter(t)]
        BY DEF Mark
    <2>2. /\ call' \in [Threads -> CallStates]
          /\ \A u \in Threads \ {t} : call'[u] = call[u]
          /\ call[t].client \in Ids
          /\ call'[t].at = "leaving" /\ call'[t].client = call[t].client
        BY <1>1, <2>1, StepAfterKeeps
    <2> QED
        BY <1>2, <2>1, <2>2 DEF Ids
<1>4. /\ disconnected' = disconnected \cup {call[t].client}
      /\ UNCHANGED << listening, table, made, received, buffer, calls, disposal, unreachable, raced,
                      history >>
    BY DEF Mark
<1>5. TypeOK'
    BY <1>1, <1>3, <1>4 DEF TypeOK, CallStates, Ids, Latest, listening, disposal, history
<1>6. Counted'
    BY <1>1, <1>2
       DEF Counted, Ends, Mark, listening, clients, disposal, history, From, Latest
<1>7. Calls'
    BY <1>1, <1>3, <1>4 DEF Calls
<1>8. NewIsUnknown'
    BY <1>1, <1>3, <1>4 DEF NewIsUnknown, listening
<1>9. Pending'
    BY <1>1, <1>2
       DEF Pending, Cancelled, Mark, listening, clients, disposal, history, From, Latest
<1>10. Datagram'
    BY <1>1, <1>2
       DEF Datagram, Ids, Mark, listening, clients, disposal, history, From, Latest
<1>11. DeliveredOnce'
    BY <1>1, <1>2
       DEF DeliveredOnce, Ids, Mark, listening, clients, disposal, history, From, Latest
<1>12. Removal'
    BY <1>1, <1>2
       DEF Removal, Evicted, RemovedTwice, Ids, Mark, listening, clients, disposal, history,
           From, Latest
<1>13. Whereabouts'
    BY <1>1, <1>2
       DEF Whereabouts, Evicted, RemovedTwice, Ids, Mark, listening, clients, disposal, history,
           From, Latest
<1>14. NobodyIsDeaf'
    <2>1. \A e \in Endpoints : table[e] = call[t].client => made[call[t].client] = e
        BY <1>1, <1>3 DEF Counted
    <2> QED
        BY <1>1, <1>3, <1>4, <2>1 DEF NobodyIsDeaf
<1>15. Visiting'
    BY <1>1, <1>2
       DEF Visiting, IsAdded, Mark, listening, clients, disposal, history, From, Latest
<1>16. Clearing'
    BY <1>1, <1>2
       DEF Clearing, Mark, listening, clients, disposal, history, From, Latest
<1>17. Cleared'
    BY <1>1, <1>2
       DEF Cleared, IsAdded, Mark, listening, clients, disposal, history, From, Latest
<1>18. LoopEndsForCause'
    BY <1>1, <1>2
       DEF LoopEndsForCause, Cancelled, Ends, Mark, listening, clients, disposal, history, From,
           Latest
<1> QED
    BY <1>5, <1>6, <1>7, <1>8, <1>9, <1>10, <1>11, <1>12, <1>13, <1>14, <1>15, <1>16, <1>17,
       <1>18 DEF Core

\* Its removal begins.
LEMMA BeginRemoveStep ==
    ASSUME IInv, NEW t \in Threads, BeginRemove(t)
    PROVE  Core'
<1>1. /\ TypeOK /\ Counted /\ Calls /\ NewIsUnknown /\ Pending /\ Datagram /\ DeliveredOnce
      /\ Removal /\ Whereabouts /\ NobodyIsDeaf /\ Visiting /\ Clearing /\ Cleared
      /\ LoopEndsForCause /\ Growing
    BY DEF IInv, Core
<1>2. /\ Len(made) \in Nat /\ Latest \in Nat /\ Latest <= MaxDatagrams /\ MaxDatagrams \in Nat
      /\ Len(made) <= Latest /\ client \in 0 .. Len(made)
      /\ \A c \in Ids : c \in ClientIds /\ made[c] \in Endpoints
      /\ Latest > 0 => From \in Endpoints
    BY <1>1, Ranges
<1>3. /\ call' \in [Threads -> CallStates]
      /\ \A u \in Threads \ {t} : call'[u] = call[u]
      /\ call[t].client \in Ids /\ call[t].client # 0
      /\ call'[t].client = call[t].client
      /\ call[t].at = "leaving" /\ call'[t].at = "removing"
    <2>1. call[t].at = "leaving" /\ call' = [call EXCEPT ![t] = StepAfter(t)]
        BY DEF BeginRemove
    <2>2. /\ call' \in [Threads -> CallStates]
          /\ \A u \in Threads \ {t} : call'[u] = call[u]
          /\ call[t].client \in Ids
          /\ call'[t].at = "removing" /\ call'[t].client = call[t].client
        BY <1>1, <2>1, StepAfterKeeps
    <2> QED
        BY <1>2, <2>1, <2>2 DEF Ids
<1>4. /\ raced => raced'
      /\ UNCHANGED << listening, table, clients, calls, disposal, unreachable, history >>
    BY DEF BeginRemove
<1>5. TypeOK'
    <2>1. {accepted', grown', unreachable', raced'} \subseteq BOOLEAN
        BY <1>1, Zenon DEF TypeOK, BeginRemove, disposal
    <2> QED
        BY <1>1, <1>3, <1>4, <2>1
           DEF TypeOK, CallStates, Ids, Latest, listening, clients, disposal, history
<1>6. Counted'
    BY <1>1, <1>2
       DEF Counted, Ends, BeginRemove, listening, clients, disposal, history, From, Latest
<1>7. Calls'
    BY <1>1, <1>3, <1>4 DEF Calls, clients
<1>8. NewIsUnknown'
    BY <1>1, <1>3, <1>4 DEF NewIsUnknown, listening, clients
<1>9. Pending'
    BY <1>1, <1>2
       DEF Pending, Cancelled, BeginRemove, listening, clients, disposal, history, From, Latest
<1>10. Datagram'
    BY <1>1, <1>2
       DEF Datagram, Ids, BeginRemove, listening, clients, disposal, history, From, Latest
<1>11. DeliveredOnce'
    BY <1>1, <1>2
       DEF DeliveredOnce, Ids, BeginRemove, listening, clients, disposal, history, From, Latest
<1>12. Removal'
    BY <1>1, <1>2
       DEF Removal, Evicted, RemovedTwice, Ids, BeginRemove, listening, clients, disposal,
           history, From, Latest
<1>13. Whereabouts'
    BY <1>1, <1>2
       DEF Whereabouts, Evicted, RemovedTwice, Ids, BeginRemove, listening, clients, disposal,
           history, From, Latest
<1>14. NobodyIsDeaf'
    BY <1>1, <1>3, <1>4 DEF NobodyIsDeaf, clients
<1>15. Visiting'
    <2>1. call["owner"].at = "marking" => call'["owner"] = call["owner"]
        BY <1>3 DEF Threads
    <2> QED
        BY <1>1, <1>4, <2>1 DEF Visiting, IsAdded, clients, disposal, listening
<1>16. Clearing'
    BY <1>1, <1>2
       DEF Clearing, BeginRemove, listening, clients, disposal, history, From, Latest
<1>17. Cleared'
    BY <1>1, <1>2
       DEF Cleared, IsAdded, BeginRemove, listening, clients, disposal, history, From, Latest
<1>18. LoopEndsForCause'
    BY <1>1, <1>2
       DEF LoopEndsForCause, Cancelled, Ends, BeginRemove, listening, clients, disposal, history,
           From, Latest
<1> QED
    BY <1>5, <1>6, <1>7, <1>8, <1>9, <1>10, <1>11, <1>12, <1>13, <1>14, <1>15, <1>16, <1>17,
       <1>18 DEF Core

\* Its removal ends, with whatever client its endpoint has.
LEMMA EndRemoveStep ==
    ASSUME IInv, NEW t \in Threads, EndRemove(t)
    PROVE  Core'
<1>1. /\ TypeOK /\ Counted /\ Calls /\ NewIsUnknown /\ Pending /\ Datagram /\ DeliveredOnce
      /\ Removal /\ Whereabouts /\ NobodyIsDeaf /\ Visiting /\ Clearing /\ Cleared
      /\ LoopEndsForCause /\ Growing
    BY DEF IInv, Core
<1>2. /\ Len(made) \in Nat /\ Latest \in Nat /\ Latest <= MaxDatagrams /\ MaxDatagrams \in Nat
      /\ Len(made) <= Latest /\ client \in 0 .. Len(made)
      /\ \A c \in Ids : c \in ClientIds /\ made[c] \in Endpoints
      /\ Latest > 0 => From \in Endpoints
    BY <1>1, Ranges
<1>3. /\ call' \in [Threads -> CallStates]
      /\ \A u \in Threads \ {t} : call'[u] = call[u]
      /\ call'[t].client \in {0, call[t].client}
      /\ call[t].at = "removing" /\ call'[t].at \in {"clearing", "none"}
      /\ call'[t].at = "clearing" => call'[t].client = call[t].client
    BY <1>1, StepAfterKeeps DEF EndRemove
<1>4. PICK c \in Ids : /\ c = call[t].client /\ c \in disconnected /\ c \in ClientIds /\ c # 0
                       /\ made[c] \in Endpoints
    <2>1. call[t].client \in Ids
        BY <1>1, StepAfterKeeps DEF EndRemove
    <2>2. call[t].client \in disconnected
        BY <1>1, <1>3 DEF Calls
    <2> QED
        BY <1>2, <2>1, <2>2 DEF Ids
<1>5. /\ table' \in [Endpoints -> 0 .. Len(made)]
      /\ \A e \in Endpoints : table'[e] \in {table[e], 0}
      /\ ~ raced => /\ table'[made[c]] = 0
                    /\ \A e \in Endpoints \ {made[c]} : table'[e] = table[e]
    <2>1. /\ Removed(c) \in [Endpoints -> 0 .. Len(made)] /\ Removed(c)[made[c]] = 0
          /\ \A e \in Endpoints \ {made[c]} : Removed(c)[e] = table[e]
        <3>1. table \in [Endpoints -> 0 .. Len(made)] /\ 0 \in 0 .. Len(made)
            BY <1>1, <1>2 DEF TypeOK
        <3> QED
            BY <1>4, <3>1 DEF Removed, Key
    <2>2. table' \in TableAfter(Removed(c))
        BY <1>4 DEF EndRemove
    <2>3. /\ table' \in [Endpoints -> 0 .. Len(made)]
          /\ \A e \in Endpoints : table'[e] \in {table[e], Removed(c)[e], 0}
          /\ ~ raced => table' = Removed(c)
        BY <1>1, <2>1, <2>2, TableAfterIs
    <2> QED
        BY <1>4, <2>1, <2>3
<1>6. /\ removals' \in [ClientIds -> Nat] /\ removals'[c] = removals[c] + 1
      /\ \A b \in ClientIds : removals[b] \in Nat /\ (b # c => removals'[b] = removals[b])
    <2>1. removals \in [ClientIds -> Nat] /\ removals' = [removals EXCEPT ![c] = @ + 1]
        BY <1>1, <1>4 DEF EndRemove, TypeOK
    <2> QED
        BY <1>4, <2>1
<1>7. UNCHANGED << listening, clients, calls, disposal, unreachable, raced, delivered, late >>
    BY DEF EndRemove
<1>8. \A b \in Ids : Evicted(b) => Evicted(b)'
    <2>1. \A b \in Ids : RemovedTwice(b) => RemovedTwice(b)'
        BY <1>2, <1>6 DEF RemovedTwice
    <2> QED
        BY <1>7, <2>1 DEF Evicted, Ids, clients
<1>9. TypeOK'
    BY <1>1, <1>3, <1>5, <1>6, <1>7
       DEF TypeOK, CallStates, Ids, Latest, listening, clients, disposal
<1>10. Counted'
    BY <1>1, <1>5, <1>7 DEF Counted, From, Latest, listening, clients
<1>11. Calls'
    BY <1>1, <1>3, <1>4, <1>7 DEF Calls, clients
<1>12. NewIsUnknown'
    <2>1. client # 0 \/ loop # "adding"
        BY <1>1 DEF Counted
    <2> QED
        BY <1>1, <1>3, <1>4, <1>5, <1>7, <2>1 DEF NewIsUnknown, listening, clients
<1>13. Pending'
    <2>1. loop \in {"accepting", "adding"} => From \in Endpoints
        BY <1>1, <1>2 DEF Counted, Ends
    <2> QED
        BY <1>1, <1>5, <1>7, <2>1 DEF Pending, Cancelled, From, Latest, listening, disposal
<1>14. Datagram'
    BY <1>1, <1>7 DEF Datagram, Ids, Latest, listening, clients
<1>15. DeliveredOnce'
    BY <1>1, <1>7 DEF DeliveredOnce, Ids, listening, clients
<1>16. Removal'
    <2>1. \A b \in ClientIds : removals'[b] > 0 => b \in disconnected'
        BY <1>1, <1>4, <1>6, <1>7 DEF Removal, clients
    <2>2. \A b \in Ids : removals[b] > 0 => removals'[b] > 0
        BY <1>2, <1>6
    <2> QED
        BY <1>1, <1>7, <1>8, <2>1, <2>2 DEF Removal, Ids, clients
<1>17. Whereabouts'
    <2>1. ASSUME ~ raced, NEW b \in Ids
          PROVE  \/ removals'[b] > 0
                 \/ Evicted(b)'
                 \/ table'[made[b]] = b
                 \/ loop = "adding" /\ b = client
                 \/ /\ b \in disconnected /\ owner \in {"cleared", "disposed"}
                    /\ ~ (loop \in {"accepting", "adding"} /\ From = made[b])
        <3>1. CASE b = c
            BY <1>4, <1>6, <3>1
        <3>2. CASE b # c /\ made[b] = made[c] /\ c < b
            <4>1. removals[c] > 0 \/ Evicted(c)
                BY <1>1, <2>1, <3>2 DEF Removal
            <4>2. CASE removals[c] > 0
                <5>1. removals'[c] > 1
                    BY <1>4, <1>6, <4>2
                <5> QED
                    BY <1>7, <3>2, <5>1 DEF Evicted, RemovedTwice, Ids, clients
            <4>3. CASE Evicted(c)
                <5>1. Evicted(b)
                    BY <1>2, <1>4, <3>2, <4>3 DEF Evicted, Ids
                <5> QED
                    BY <1>8, <5>1
            <4> QED
                BY <4>1, <4>2, <4>3
        <3>3. CASE b # c /\ made[b] = made[c] /\ b < c
            <4>1. removals[b] > 0 \/ Evicted(b)
                BY <1>1, <2>1, <3>3 DEF Removal
            <4> QED
                BY <1>2, <1>6, <1>8, <3>3, <4>1
        <3>4. CASE made[b] # made[c]
            <4>1. /\ table'[made[b]] = table[made[b]] /\ removals'[b] = removals[b]
                BY <1>2, <1>5, <1>6, <2>1, <3>4
            <4> QED
                BY <1>1, <1>8, <2>1, <4>1 DEF Whereabouts
        <3>5. b = c \/ b < c \/ c < b
            BY <1>2 DEF Ids
        <3> QED
            BY <3>1, <3>2, <3>3, <3>4, <3>5
    <2> QED
        BY <1>7, <2>1 DEF Whereabouts, Ids, From, Latest, listening, clients, disposal
<1>18. NobodyIsDeaf'
    <2>1. ASSUME ~ raced, NEW e \in Endpoints, table'[e] \in disconnected
          PROVE  \E u \in Threads : /\ call'[u].at \in {"leaving", "removing"}
                                    /\ made[call'[u].client] = e
        <3>1. 0 \notin disconnected
            BY <1>1 DEF TypeOK, Ids
        <3>2. e # made[c] /\ table'[e] = table[e]
            BY <1>5, <2>1, <3>1
        <3>3. PICK u \in Threads : /\ call[u].at \in {"leaving", "removing"}
                                   /\ made[call[u].client] = e
            BY <1>1, <2>1, <3>2 DEF NobodyIsDeaf
        <3>4. u # t
            BY <1>4, <3>2, <3>3
        <3> QED
            BY <1>3, <3>3, <3>4
    <2> QED
        BY <1>7, <2>1 DEF NobodyIsDeaf, clients
<1>19. Visiting'
    <2>1. call["owner"].at = "marking" => call'["owner"] = call["owner"]
        BY <1>3 DEF Threads
    <2> QED
        BY <1>1, <1>5, <1>7, <2>1 DEF Visiting, IsAdded, TypeOK, clients, disposal, listening
<1>20. Clearing'
    BY <1>1, <1>5, <1>7 DEF Clearing, listening, clients, disposal
<1>21. Cleared'
    BY <1>1, <1>5, <1>7 DEF Cleared, IsAdded, listening, clients, disposal
<1>22. LoopEndsForCause'
    BY <1>1, <1>7 DEF LoopEndsForCause, Cancelled, listening, disposal
<1> QED
    BY <1>9, <1>10, <1>11, <1>12, <1>13, <1>14, <1>15, <1>16, <1>17, <1>18, <1>19, <1>20, <1>21,
       <1>22 DEF Core

\* It is cleared.
LEMMA ClearStep ==
    ASSUME IInv, NEW t \in Threads, Clear(t)
    PROVE  Core'
<1>1. /\ TypeOK /\ Counted /\ Calls /\ NewIsUnknown /\ Pending /\ Datagram /\ DeliveredOnce
      /\ Removal /\ Whereabouts /\ NobodyIsDeaf /\ Visiting /\ Clearing /\ Cleared
      /\ LoopEndsForCause /\ Growing
    BY DEF IInv, Core
<1>2. /\ Len(made) \in Nat /\ Latest \in Nat /\ Latest <= MaxDatagrams /\ MaxDatagrams \in Nat
      /\ Len(made) <= Latest /\ client \in 0 .. Len(made)
      /\ \A c \in Ids : c \in ClientIds /\ made[c] \in Endpoints
      /\ Latest > 0 => From \in Endpoints
    BY <1>1, Ranges
<1>3. /\ call' \in [Threads -> CallStates] /\ call[t].at = "clearing" /\ call'[t] = NoCall
      /\ \A u \in Threads \ {t} : call'[u] = call[u]
    <2>1. call \in [Threads -> CallStates] /\ NoCall \in CallStates
        BY <1>1 DEF TypeOK, CallStates
    <2> QED
        BY <2>1 DEF Clear
<1>4. /\ received' \subseteq Ids /\ buffer' \in [ClientIds -> 0 .. Latest]
      /\ \A c \in ClientIds : buffer'[c] \in {0, buffer[c]}
    <2>1. buffer \in [ClientIds -> 0 .. Latest] /\ received \subseteq Ids /\ 0 \in 0 .. Latest
        BY <1>1, <1>2 DEF TypeOK
    <2> QED
        BY <2>1 DEF Clear
<1>5. TypeOK'
    BY <1>1, <1>3, <1>4 DEF Clear, TypeOK, CallStates, Ids, Latest, listening, disposal, history
<1>6. Counted'
    BY <1>1, <1>2, <1>3, <1>4, NoCallIs
       DEF Counted, Ends, Clear, listening, clients, disposal, history, From, Latest
<1>7. Calls'
    BY <1>1, <1>2, <1>3, <1>4, NoCallIs
       DEF Calls, Clear, listening, clients, disposal, history, From, Latest
<1>8. NewIsUnknown'
    <2>1. loop = "adding" => client # 0
        BY <1>1 DEF Counted
    <2> QED
        BY <1>1, <1>3, <2>1, NoCallIs DEF Clear, NewIsUnknown, listening
<1>9. Pending'
    BY <1>1, <1>2, <1>3, <1>4, NoCallIs
       DEF Pending, Cancelled, Clear, listening, clients, disposal, history, From, Latest
<1>10. Datagram'
    <2>1. client # 0 => client \in ClientIds
        BY <1>2 DEF ClientIds
    <2> QED
        BY <1>1, <1>4, <2>1 DEF Clear, Datagram, Counted, Ids, Latest, listening, history
<1>11. DeliveredOnce'
    BY <1>1, <1>2, <1>3, <1>4, NoCallIs
       DEF DeliveredOnce, Ids, Clear, listening, clients, disposal, history, From, Latest
<1>12. Removal'
    BY <1>1, <1>2, <1>3, <1>4, NoCallIs
       DEF Removal, Evicted, RemovedTwice, Ids, Clear, listening, clients, disposal, history,
           From, Latest
<1>13. Whereabouts'
    BY <1>1, <1>2, <1>3, <1>4, NoCallIs
       DEF Whereabouts, Evicted, RemovedTwice, Ids, Clear, listening, clients, disposal, history,
           From, Latest
<1>14. NobodyIsDeaf'
    BY <1>1, <1>2, <1>3, <1>4, NoCallIs
       DEF NobodyIsDeaf, Clear, listening, clients, disposal, history, From, Latest
<1>15. Visiting'
    BY <1>1, <1>2, <1>3, <1>4, NoCallIs
       DEF Visiting, IsAdded, Clear, listening, clients, disposal, history, From, Latest
<1>16. Clearing'
    BY <1>1, <1>2, <1>3, <1>4, NoCallIs
       DEF Clearing, Clear, listening, clients, disposal, history, From, Latest
<1>17. Cleared'
    BY <1>1, <1>2, <1>3, <1>4, NoCallIs
       DEF Cleared, IsAdded, Clear, listening, clients, disposal, history, From, Latest
<1>18. LoopEndsForCause'
    BY <1>1, <1>2, <1>3, <1>4, NoCallIs
       DEF LoopEndsForCause, Cancelled, Ends, Clear, listening, clients, disposal, history, From,
           Latest
<1> QED
    BY <1>5, <1>6, <1>7, <1>8, <1>9, <1>10, <1>11, <1>12, <1>13, <1>14, <1>15, <1>16, <1>17,
       <1>18 DEF Core

\* A datagram is refused.
LEMMA SendStep ==
    ASSUME IInv, NEW c \in ClientIds, Send(c)
    PROVE  Core'
<1>1. /\ TypeOK /\ Counted /\ Calls /\ NewIsUnknown /\ Pending /\ Datagram /\ DeliveredOnce
      /\ Removal /\ Whereabouts /\ NobodyIsDeaf /\ Visiting /\ Clearing /\ Cleared
      /\ LoopEndsForCause /\ Growing
    BY DEF IInv, Core
<1>2. /\ Len(made) \in Nat /\ Latest \in Nat /\ Latest <= MaxDatagrams /\ MaxDatagrams \in Nat
      /\ Len(made) <= Latest /\ client \in 0 .. Len(made)
      /\ \A d \in Ids : d \in ClientIds /\ made[d] \in Endpoints
      /\ Latest > 0 => From \in Endpoints
    BY <1>1, Ranges
<1>3. /\ Counted' /\ Calls' /\ NewIsUnknown' /\ Datagram'
      /\ DeliveredOnce' /\ Removal' /\ NobodyIsDeaf'
    BY OwnerMovesKeep DEF Send, listening
<1>4. TypeOK'
    BY <1>1, <1>2
       DEF TypeOK, Ids, ClientIds, Ends, Send, listening, clients, disposal, history, From, Latest
<1>5. Pending'
    BY <1>1, <1>2
       DEF Pending, Cancelled, Send, listening, clients, disposal, history, From, Latest
<1>6. Whereabouts'
    BY <1>1, <1>2
       DEF Whereabouts, Evicted, RemovedTwice, Ids, Send, listening, clients, disposal, history,
           From, Latest
<1>7. Visiting'
    BY <1>1, <1>2
       DEF Visiting, IsAdded, Send, listening, clients, disposal, history, From, Latest
<1>8. Clearing'
    BY <1>1, <1>2
       DEF Clearing, Send, listening, clients, disposal, history, From, Latest
<1>9. Cleared'
    BY <1>1, <1>2
       DEF Cleared, IsAdded, Send, listening, clients, disposal, history, From, Latest
<1>10. LoopEndsForCause'
    BY <1>1, <1>2
       DEF LoopEndsForCause, Cancelled, Ends, Send, listening, clients, disposal, history, From,
           Latest
<1> QED
    BY <1>3, <1>4, <1>5, <1>6, <1>7, <1>8, <1>9, <1>10 DEF Core

-----------------------------------------------------------------------------
(* The disposal of the listener *)

\* The listener is cancelled.
LEMMA CancelStep ==
    ASSUME IInv, Cancel
    PROVE  Core'
<1>1. /\ TypeOK /\ Counted /\ Calls /\ NewIsUnknown /\ Pending /\ Datagram /\ DeliveredOnce
      /\ Removal /\ Whereabouts /\ NobodyIsDeaf /\ Visiting /\ Clearing /\ Cleared
      /\ LoopEndsForCause /\ Growing
    BY DEF IInv, Core
<1>2. /\ Len(made) \in Nat /\ Latest \in Nat /\ Latest <= MaxDatagrams /\ MaxDatagrams \in Nat
      /\ Len(made) <= Latest /\ client \in 0 .. Len(made)
      /\ \A c \in Ids : c \in ClientIds /\ made[c] \in Endpoints
      /\ Latest > 0 => From \in Endpoints
    BY <1>1, Ranges
<1>3. calls' \in 0 .. MaxCalls
    BY <1>1 DEF Cancel, DisposeUnchanged, TypeOK
<1>4. /\ Counted' /\ Calls' /\ NewIsUnknown' /\ Datagram'
      /\ DeliveredOnce' /\ Removal' /\ NobodyIsDeaf'
    BY OwnerMovesKeep DEF Cancel, DisposeUnchanged, listening, clients, history
<1>5. TypeOK'
    BY <1>1, <1>2, <1>3
       DEF TypeOK, Ids, ClientIds, Ends, Cancel, DisposeUnchanged, listening, clients, disposal,
           history, From, Latest
<1>6. Pending'
    BY <1>1, <1>2, <1>3
       DEF Pending, Cancelled, Cancel, DisposeUnchanged, listening, clients, disposal, history,
           From, Latest
<1>7. Whereabouts'
    BY <1>1, <1>2, <1>3
       DEF Whereabouts, Evicted, RemovedTwice, Ids, Cancel, DisposeUnchanged, listening, clients,
           disposal, history, From, Latest
<1>8. Visiting'
    BY <1>1, <1>2, <1>3
       DEF Visiting, IsAdded, Cancel, DisposeUnchanged, listening, clients, disposal, history,
           From, Latest
<1>9. Clearing'
    BY <1>1, <1>2, <1>3
       DEF Clearing, Cancel, DisposeUnchanged, listening, clients, disposal, history, From, Latest
<1>10. Cleared'
    BY <1>1, <1>2, <1>3
       DEF Cleared, IsAdded, Cancel, DisposeUnchanged, listening, clients, disposal, history,
           From, Latest
<1>11. LoopEndsForCause'
    BY <1>1, <1>2, <1>3
       DEF LoopEndsForCause, Cancelled, Ends, Cancel, DisposeUnchanged, listening, clients,
           disposal, history, From, Latest
<1> QED
    BY <1>4, <1>5, <1>6, <1>7, <1>8, <1>9, <1>10, <1>11 DEF Core

\* Its subscriber is unhooked, and the enumeration begins.
LEMMA UnhookStep ==
    ASSUME IInv, Unhook
    PROVE  Core'
<1>1. /\ TypeOK /\ Counted /\ Calls /\ NewIsUnknown /\ Pending /\ Datagram /\ DeliveredOnce
      /\ Removal /\ Whereabouts /\ NobodyIsDeaf /\ Visiting /\ Clearing /\ Cleared
      /\ LoopEndsForCause /\ Growing
    BY DEF IInv, Core
<1>2. /\ Len(made) \in Nat /\ Latest \in Nat /\ Latest <= MaxDatagrams /\ MaxDatagrams \in Nat
      /\ Len(made) <= Latest /\ client \in 0 .. Len(made)
      /\ \A c \in Ids : c \in ClientIds /\ made[c] \in Endpoints
      /\ Latest > 0 => From \in Endpoints
    BY <1>1, Ranges
<1>3. /\ Counted' /\ Calls' /\ NewIsUnknown' /\ Datagram'
      /\ DeliveredOnce' /\ Removal' /\ NobodyIsDeaf'
    BY OwnerMovesKeep DEF Unhook, DisposeUnchanged, listening, clients, history
<1>4. TypeOK'
    BY <1>1, <1>2
       DEF TypeOK, Ids, ClientIds, Ends, Unhook, listening, clients, disposal, history,
           DisposeUnchanged, From, Latest
<1>5. Pending'
    BY <1>1, <1>2
       DEF Pending, Cancelled, Unhook, listening, clients, disposal, history, DisposeUnchanged,
           From, Latest
<1>6. Whereabouts'
    BY <1>1, <1>2
       DEF Whereabouts, Evicted, RemovedTwice, Ids, Unhook, listening, clients, disposal,
           history, DisposeUnchanged, From, Latest
<1>7. Visiting'
    BY <1>1, <1>2
       DEF Visiting, IsAdded, Unhook, listening, clients, disposal, history, DisposeUnchanged,
           From, Latest
<1>8. Clearing'
    BY <1>1, <1>2
       DEF Clearing, Unhook, listening, clients, disposal, history, DisposeUnchanged, From, Latest
<1>9. Cleared'
    BY <1>1, <1>2
       DEF Cleared, IsAdded, Unhook, listening, clients, disposal, history, DisposeUnchanged,
           From, Latest
<1>10. LoopEndsForCause'
    BY <1>1, <1>2
       DEF LoopEndsForCause, Cancelled, Ends, Unhook, listening, clients, disposal, history,
           DisposeUnchanged, From, Latest
<1> QED
    BY <1>3, <1>4, <1>5, <1>6, <1>7, <1>8, <1>9, <1>10 DEF Core

\* The enumeration throws.
LEMMA EnumerationThrowsStep ==
    ASSUME IInv, EnumerationThrows
    PROVE  Core'
<1>1. /\ TypeOK /\ Counted /\ Calls /\ NewIsUnknown /\ Pending /\ Datagram /\ DeliveredOnce
      /\ Removal /\ Whereabouts /\ NobodyIsDeaf /\ Visiting /\ Clearing /\ Cleared
      /\ LoopEndsForCause /\ Growing
    BY DEF IInv, Core
<1>2. /\ Len(made) \in Nat /\ Latest \in Nat /\ Latest <= MaxDatagrams /\ MaxDatagrams \in Nat
      /\ Len(made) <= Latest /\ client \in 0 .. Len(made)
      /\ \A c \in Ids : c \in ClientIds /\ made[c] \in Endpoints
      /\ Latest > 0 => From \in Endpoints
    BY <1>1, Ranges
<1>3. /\ Counted' /\ Calls' /\ NewIsUnknown' /\ Datagram'
      /\ DeliveredOnce' /\ Removal' /\ NobodyIsDeaf'
    BY OwnerMovesKeep DEF EnumerationThrows, DisposeUnchanged, listening, clients, history
<1>4. TypeOK'
    BY <1>1, <1>2
       DEF TypeOK, Ids, ClientIds, Ends, EnumerationThrows, listening, clients, disposal,
           history, DisposeUnchanged, From, Latest
<1>5. Pending'
    BY <1>1, <1>2
       DEF Pending, Cancelled, EnumerationThrows, listening, clients, disposal, history,
           DisposeUnchanged, From, Latest
<1>6. Whereabouts'
    BY <1>1, <1>2
       DEF Whereabouts, Evicted, RemovedTwice, Ids, EnumerationThrows, listening, clients,
           disposal, history, DisposeUnchanged, From, Latest
<1>7. Visiting'
    BY <1>1, <1>2
       DEF Visiting, IsAdded, EnumerationThrows, listening, clients, disposal, history,
           DisposeUnchanged, From, Latest
<1>8. Clearing'
    BY <1>1, <1>2
       DEF Clearing, EnumerationThrows, listening, clients, disposal, history, DisposeUnchanged,
           From, Latest
<1>9. Cleared'
    BY <1>1, <1>2
       DEF Cleared, IsAdded, EnumerationThrows, listening, clients, disposal, history,
           DisposeUnchanged, From, Latest
<1>10. LoopEndsForCause'
    BY <1>1, <1>2
       DEF LoopEndsForCause, Cancelled, Ends, EnumerationThrows, listening, clients, disposal,
           history, DisposeUnchanged, From, Latest
<1> QED
    BY <1>3, <1>4, <1>5, <1>6, <1>7, <1>8, <1>9, <1>10 DEF Core

\* The next client is disposed.
LEMMA DisposeNextStep ==
    ASSUME IInv, DisposeNext
    PROVE  Core'
<1>1. TypeOK /\ Counted /\ Visiting /\ NewIsUnknown
    BY DEF IInv, Core
<1>2. PICK e \in Endpoints \ visited : /\ table[e] # 0 /\ visited' = visited \cup {e}
                                       /\ Call("owner", table[e], TRUE)
    BY DEF DisposeNext, Visit
<1>3. /\ "owner" \in Threads /\ call["owner"] = NoCall /\ table[e] \in Ids
      /\ loop = "adding" => table[e] # client
    BY <1>1, <1>2, Ranges DEF DisposeNext, Threads, TypeOK, NewIsUnknown, Ids
<1>4. /\ calls' \in 0 .. MaxCalls
      /\ UNCHANGED << listening, table, clients, accepted, owner, grown, unreachable, history >>
    BY <1>1 DEF DisposeNext, DisposeUnchanged, TypeOK, clients, history
<1>5. raced' \in BOOLEAN /\ (raced => raced') /\ visited' \subseteq Endpoints
    <2>1. visited' \subseteq Endpoints
        BY <1>1, <1>2 DEF TypeOK
    <2>2. raced' = (raced \/ Overlaps("owner", FALSE))
        BY DEF DisposeNext
    <2> QED
        BY <2>1, <2>2
<1>6. Visiting'
    <2>1. call["owner"].at = "none"
        BY <1>3, NoCallIs
    <2>2. \/ table[e] \in disconnected
          \/ call'["owner"].client = table[e] /\ call'["owner"].at = "marking"
        BY <1>1, <1>2, <1>3, CallIs
    <2> QED
        BY <1>1, <1>2, <1>4, <1>5, <2>1, <2>2 DEF Visiting, IsAdded, clients, listening
<1> QED
    BY <1>2, <1>3, <1>4, <1>5, <1>6, CallKeeps DEF Core

\* The clearing of the table begins.
LEMMA BeginClearStep ==
    ASSUME IInv, BeginClear
    PROVE  Core'
<1>1. /\ TypeOK /\ Counted /\ Calls /\ NewIsUnknown /\ Pending /\ Datagram /\ DeliveredOnce
      /\ Removal /\ Whereabouts /\ NobodyIsDeaf /\ Visiting /\ Clearing /\ Cleared
      /\ LoopEndsForCause /\ Growing
    BY DEF IInv, Core
<1>2. /\ Len(made) \in Nat /\ Latest \in Nat /\ Latest <= MaxDatagrams /\ MaxDatagrams \in Nat
      /\ Len(made) <= Latest /\ client \in 0 .. Len(made)
      /\ \A c \in Ids : c \in ClientIds /\ made[c] \in Endpoints
      /\ Latest > 0 => From \in Endpoints
    BY <1>1, Ranges
<1>3. /\ raced => raced'
      /\ loop = "adding" => raced'
    BY DEF BeginClear, Overlaps, Writing, Threads
<1>4. ~ raced => \A e \in Endpoints : table[e] = 0 \/ table[e] \in disconnected
    BY <1>1, NoCallIs DEF BeginClear, Visiting, IsAdded, listening
<1>5. /\ Counted' /\ Calls' /\ NewIsUnknown' /\ Datagram'
      /\ DeliveredOnce' /\ Removal' /\ NobodyIsDeaf'
    BY OwnerMovesKeep DEF BeginClear, DisposeUnchanged, listening, clients, history
<1>6. TypeOK'
    BY <1>1, <1>2
       DEF TypeOK, Ids, ClientIds, Ends, BeginClear, listening, clients, disposal, history,
           DisposeUnchanged, From, Latest
<1>7. Pending'
    BY <1>1, <1>2
       DEF Pending, Cancelled, BeginClear, listening, clients, disposal, history,
           DisposeUnchanged, From, Latest
<1>8. Whereabouts'
    BY <1>1, <1>2
       DEF Whereabouts, Evicted, RemovedTwice, Ids, BeginClear, listening, clients, disposal,
           history, DisposeUnchanged, From, Latest
<1>9. Visiting'
    BY <1>1, <1>2
       DEF Visiting, IsAdded, BeginClear, listening, clients, disposal, history, DisposeUnchanged,
           From, Latest
<1>10. Clearing'
    BY <1>3, <1>4 DEF BeginClear, DisposeUnchanged, Clearing, listening
<1>11. Cleared'
    BY <1>1, <1>2
       DEF Cleared, IsAdded, BeginClear, listening, clients, disposal, history, DisposeUnchanged,
           From, Latest
<1>12. LoopEndsForCause'
    BY <1>1, <1>2
       DEF LoopEndsForCause, Cancelled, Ends, BeginClear, listening, clients, disposal, history,
           DisposeUnchanged, From, Latest
<1> QED
    BY <1>5, <1>6, <1>7, <1>8, <1>9, <1>10, <1>11, <1>12 DEF Core

\* It ends.
LEMMA EndClearStep ==
    ASSUME IInv, EndClear
    PROVE  Core'
<1>1. /\ TypeOK /\ Counted /\ Calls /\ NewIsUnknown /\ Pending /\ Datagram /\ DeliveredOnce
      /\ Removal /\ Whereabouts /\ NobodyIsDeaf /\ Visiting /\ Clearing /\ Cleared
      /\ LoopEndsForCause /\ Growing
    BY DEF IInv, Core
<1>2. /\ Len(made) \in Nat /\ Latest \in Nat /\ Latest <= MaxDatagrams /\ MaxDatagrams \in Nat
      /\ Len(made) <= Latest /\ client \in 0 .. Len(made)
      /\ \A c \in Ids : c \in ClientIds /\ made[c] \in Endpoints
      /\ Latest > 0 => From \in Endpoints
    BY <1>1, Ranges
<1>3. /\ table' \in [Endpoints -> 0 .. Len(made)]
      /\ \A e \in Endpoints : table'[e] \in {table[e], 0}
      /\ ~ raced => \A e \in Endpoints : table'[e] = 0
    <2> DEFINE new == [e \in Endpoints |-> 0]
    <2>1. new \in [Endpoints -> 0 .. Len(made)] /\ \A e \in Endpoints : new[e] = 0
        BY <1>2
    <2>2. table' \in TableAfter(new)
        BY DEF EndClear
    <2> HIDE DEF new
    <2> QED
        BY <1>1, <2>1, <2>2, TableAfterIs
<1>4. /\ owner = "clearing" /\ owner' = "cleared"
      /\ UNCHANGED << listening, made, calls, unreachable, delivered, late, disconnected, received,
                      buffer, call, accepted, visited, grown, raced, removals >>
    BY DEF EndClear, DisposeUnchanged
<1>5. TypeOK'
    BY <1>1, <1>3, <1>4 DEF TypeOK, CallStates, Ids, Latest, listening
<1>6. Counted'
    BY <1>1, <1>3, <1>4 DEF Counted, From, Latest, listening
<1>7. Calls'
    BY <1>1, <1>4 DEF Calls
<1>8. NewIsUnknown'
    <2>1. client # 0 \/ loop # "adding"
        BY <1>1 DEF Counted
    <2> QED
        BY <1>1, <1>3, <1>4, <2>1 DEF NewIsUnknown, listening
<1>9. Pending'
    <2>1. loop \in {"accepting", "adding"} => From \in Endpoints
        BY <1>1, <1>2 DEF Counted, Ends
    <2> QED
        BY <1>1, <1>3, <1>4, <2>1 DEF Pending, Cancelled, From, Latest, listening
<1>10. Datagram'
    BY <1>1, <1>4 DEF Datagram, Ids, Latest, listening
<1>11. DeliveredOnce'
    BY <1>1, <1>4 DEF DeliveredOnce, Ids, listening
<1>12. Removal'
    BY <1>1, <1>4 DEF Removal, Evicted, RemovedTwice, Ids
<1>13. Whereabouts'
    <2>1. ASSUME ~ raced, NEW b \in Ids
          PROVE  \/ removals[b] > 0
                 \/ Evicted(b)
                 \/ loop = "adding" /\ b = client
                 \/ b \in disconnected /\ ~ (loop \in {"accepting", "adding"} /\ From = made[b])
        <3>1. CASE table[made[b]] = b
            <4>1. b # 0 /\ made[b] \in Endpoints
                BY <1>2, <2>1 DEF Ids
            <4>2. b \in disconnected
                BY <1>1, <1>4, <2>1, <3>1, <4>1 DEF Clearing
            <4> QED
                BY <1>1, <2>1, <3>1, <4>1, <4>2 DEF Pending
        <3> QED
            BY <1>1, <1>4, <2>1, <3>1 DEF Whereabouts
    <2> QED
        BY <1>4, <2>1 DEF Whereabouts, Evicted, RemovedTwice, Ids, From, Latest, listening
<1>14. NobodyIsDeaf'
    <2>1. 0 \notin disconnected
        BY <1>1 DEF TypeOK, Ids
    <2> QED
        BY <1>3, <1>4, <2>1 DEF NobodyIsDeaf
<1>15. Visiting'
    BY <1>4 DEF Visiting, IsAdded, listening
<1>16. Clearing'
    BY <1>4 DEF Clearing
<1>17. Cleared'
    BY <1>3, <1>4 DEF Cleared, IsAdded, listening
<1>18. LoopEndsForCause'
    BY <1>1, <1>4 DEF LoopEndsForCause, Cancelled, listening
<1> QED
    BY <1>5, <1>6, <1>7, <1>8, <1>9, <1>10, <1>11, <1>12, <1>13, <1>14, <1>15, <1>16, <1>17,
       <1>18 DEF Core

\* The socket is closed.
LEMMA CloseSocketStep ==
    ASSUME IInv, CloseSocket
    PROVE  Core'
<1>1. /\ TypeOK /\ Counted /\ Calls /\ NewIsUnknown /\ Pending /\ Datagram /\ DeliveredOnce
      /\ Removal /\ Whereabouts /\ NobodyIsDeaf /\ Visiting /\ Clearing /\ Cleared
      /\ LoopEndsForCause /\ Growing
    BY DEF IInv, Core
<1>2. /\ Len(made) \in Nat /\ Latest \in Nat /\ Latest <= MaxDatagrams /\ MaxDatagrams \in Nat
      /\ Len(made) <= Latest /\ client \in 0 .. Len(made)
      /\ \A c \in Ids : c \in ClientIds /\ made[c] \in Endpoints
      /\ Latest > 0 => From \in Endpoints
    BY <1>1, Ranges
<1>3. /\ Counted' /\ Calls' /\ NewIsUnknown' /\ Datagram'
      /\ DeliveredOnce' /\ Removal' /\ NobodyIsDeaf'
    BY OwnerMovesKeep DEF CloseSocket, DisposeUnchanged, listening, clients, history
<1>4. TypeOK'
    BY <1>1, <1>2
       DEF TypeOK, Ids, ClientIds, Ends, CloseSocket, listening, clients, disposal, history,
           DisposeUnchanged, From, Latest
<1>5. Pending'
    BY <1>1, <1>2
       DEF Pending, Cancelled, CloseSocket, listening, clients, disposal, history,
           DisposeUnchanged, From, Latest
<1>6. Whereabouts'
    BY <1>1, <1>2
       DEF Whereabouts, Evicted, RemovedTwice, Ids, CloseSocket, listening, clients, disposal,
           history, DisposeUnchanged, From, Latest
<1>7. Visiting'
    BY <1>1, <1>2
       DEF Visiting, IsAdded, CloseSocket, listening, clients, disposal, history,
           DisposeUnchanged, From, Latest
<1>8. Clearing'
    BY <1>1, <1>2
       DEF Clearing, CloseSocket, listening, clients, disposal, history, DisposeUnchanged, From,
           Latest
<1>9. Cleared'
    BY <1>1, <1>2
       DEF Cleared, IsAdded, CloseSocket, listening, clients, disposal, history, DisposeUnchanged,
           From, Latest
<1>10. LoopEndsForCause'
    BY <1>1, <1>2
       DEF LoopEndsForCause, Cancelled, Ends, CloseSocket, listening, clients, disposal, history,
           DisposeUnchanged, From, Latest
<1> QED
    BY <1>3, <1>4, <1>5, <1>6, <1>7, <1>8, <1>9, <1>10 DEF Core

-----------------------------------------------------------------------------
(* The theorems *)

\* What each step keeps of the growing table.
LEMMA GrowingStep ==
    ASSUME IInv, [Next]_vars
    PROVE  Growing'
<1>1. Growing /\ Pending
    BY DEF IInv, Core
<1>2. /\ {"loop", "owner"} \subseteq Threads /\ "owner" \notin Users
      /\ call \in [Threads -> CallStates]
    BY UsersAreOthers DEF Threads, IInv, Core, TypeOK, CallStates
<1>3. ASSUME loop \notin {"added", "unhooked"}, UNCHANGED << accepted, call, owner, grown >>
      PROVE  Growing'
    BY <1>1, <1>3 DEF Growing
<1>4. ASSUME UNCHANGED << loop, accepted, owner, grown >>,
             owner = "threw" => call'["owner"] = call["owner"]
      PROVE  Growing'
    BY <1>1, <1>4 DEF Growing
<1>5. CASE LoopStep \/ ReceiveReset \/ \E e \in Endpoints : Receive(e)
    <2>1. CASE AddClient
        <3>1. loop = "adding" /\ UNCHANGED << accepted, call, owner >>
            BY <2>1 DEF AddClient
        <3>2. ~ grown /\ owner # "threw" /\ (owner = "enumerating" => ~ accepted)
            BY <1>1, <3>1 DEF Growing, Pending
        <3>3. CASE UNCHANGED grown
            BY <3>1, <3>2, <3>3 DEF Growing
        <3>4. CASE loop' = "added" /\ grown' = (owner = "enumerating")
            BY <3>1, <3>2, <3>4 DEF Growing
        <3> QED
            BY <2>1, <3>3, <3>4 DEF AddClient
    <2>2. CASE RaiseAccepted
        BY <1>1, <2>2 DEF RaiseAccepted, Growing, disposal
    <2>3. CASE ~ AddClient /\ ~ RaiseAccepted
        <3>1. loop \notin {"added", "unhooked"} /\ UNCHANGED << accepted, call, owner, grown >>
            BY <1>5, <2>3
               DEF LoopStep, ReceiveReset, Receive, ReceiveCancelled, LookupFinds, LookupMisses,
                   TableBreaks, MakeClient, NotifyReceived, StoreBuffer, RaiseReceived,
                   OnReceivedWithoutBuffer, OnReceived, HandlerReturns, disposal
        <3> QED
            BY <1>3, <3>1
    <2> QED
        BY <2>1, <2>2, <2>3
<1>6. ASSUME NEW t \in Users, UserCalls(t) PROVE Growing'
    BY <1>2, <1>4, <1>6 DEF UserCalls, Call, listening, disposal
<1>7. CASE HandlerCalls
    BY <1>2, <1>4, <1>7 DEF HandlerCalls, Call, listening, disposal
<1>8. ASSUME NEW t \in Threads, CallStep(t) PROVE Growing'
    <2>1. /\ UNCHANGED << loop, accepted, owner, grown >>
          /\ call[t].at # "none" /\ \A u \in Threads \ {t} : call'[u] = call[u]
        BY <1>2, <1>8 DEF CallStep, Mark, BeginRemove, EndRemove, Clear, listening, disposal
    <2>2. owner = "threw" => t # "owner"
        BY <1>1, <2>1, NoCallIs DEF Growing
    <2> QED
        BY <1>2, <1>4, <2>1, <2>2
<1>9. ASSUME NEW c \in ClientIds, Send(c) PROVE Growing'
    BY <1>4, <1>9 DEF Send, listening, disposal
<1>10. CASE Cancel
    BY <1>1, <1>10 DEF Cancel, DisposeUnchanged, Growing, listening
<1>11. CASE DisposeStep
    <2>1. CASE Unhook
        BY <2>1 DEF Unhook, Growing
    <2>2. CASE EnumerationThrows
        BY <1>1, <2>2 DEF EnumerationThrows, DisposeUnchanged, Growing, listening
    <2>3. CASE DisposeNext
        BY <1>4, <2>3 DEF DisposeNext, DisposeUnchanged, listening
    <2>4. CASE BeginClear \/ EndClear \/ CloseSocket
        <3>1. owner' # "threw" /\ UNCHANGED << loop, accepted, grown >>
            BY <2>4 DEF BeginClear, EndClear, CloseSocket, DisposeUnchanged, listening
        <3> QED
            BY <1>1, <3>1 DEF Growing
    <2> QED
        BY <1>11, <2>1, <2>2, <2>3, <2>4 DEF DisposeStep
<1>12. CASE UNCHANGED vars
    BY <1>4, <1>12 DEF vars, listening, disposal
<1> QED
    BY <1>5, <1>6, <1>7, <1>8, <1>9, <1>10, <1>11, <1>12 DEF Next

LEMMA NextInv == IInv /\ [Next]_vars => IInv'
<1> SUFFICES ASSUME IInv, [Next]_vars PROVE Core'
    BY GrowingStep DEF IInv
<1>1. CASE LoopStep
    BY <1>1, ReceiveCancelledStep, LookupFindsStep, LookupMissesStep, TableBreaksStep,
       MakeClientStep, AddClientStep, RaiseAcceptedStep, NotifyReceivedStep, StoreBufferStep,
       RaiseReceivedStep, WithoutBufferStep, OnReceivedStep, HandlerReturnsStep DEF LoopStep
<1>2. ASSUME NEW t \in Threads, CallStep(t) PROVE Core'
    BY <1>2, MarkStep, BeginRemoveStep, EndRemoveStep, ClearStep DEF CallStep
<1>3. CASE DisposeStep
    BY <1>3, UnhookStep, EnumerationThrowsStep, DisposeNextStep, BeginClearStep, EndClearStep,
       CloseSocketStep DEF DisposeStep
<1>4. CASE UNCHANGED vars
    <2>1. /\ UNCHANGED << loop, datagrams, client, table, made, disconnected, received, buffer >>
          /\ UNCHANGED << accepted, call, calls, owner, visited, grown, unreachable, raced >>
          /\ UNCHANGED << delivered, late, removals >>
        BY <1>4 DEF vars, listening, clients, disposal, history
    <2>2. /\ Counted' /\ Calls' /\ NewIsUnknown' /\ Datagram' /\ DeliveredOnce'
          /\ Removal' /\ NobodyIsDeaf'
        BY <2>1, OwnerMovesKeep DEF listening, clients, history
    <2>3. TypeOK'
        BY <2>1 DEF IInv, Core, TypeOK, Ids, Latest
    <2>4. Pending' /\ Visiting' /\ Clearing' /\ Cleared' /\ LoopEndsForCause'
        BY <2>1 DEF IInv, Core, Pending, Visiting, Clearing, Cleared, IsAdded, LoopEndsForCause,
                    Cancelled, From, Latest
    <2>5. Whereabouts'
        BY <2>1 DEF IInv, Core, Whereabouts, Evicted, RemovedTwice, Ids, From, Latest
    <2> QED
        BY <2>2, <2>3, <2>4, <2>5 DEF IInv, Core
<1> QED
    BY <1>1, <1>2, <1>3, <1>4, ReceiveStep, ReceiveResetStep, UserCallsStep, HandlerCallsStep,
       SendStep, CancelStep DEF Next

\* UdpChannelListener and its clients: the variables keep their types.
THEOREM TypeCorrect == Spec => []TypeOK
<1>1. IInv => TypeOK
    BY DEF IInv, Core
<1> QED
    BY <1>1, InitInv, NextInv, PTL DEF Spec

\* UdpChannelClient.NotifyReceived gives a datagram to one client, the one of the endpoint it
\* came from, and a disconnected client is given one more at most.
THEOREM DatagramsGoToOneClient == Spec => []DeliveredOnce
<1>1. IInv => DeliveredOnce
    BY DEF IInv, Core
<1> QED
    BY <1>1, InitInv, NextInv, PTL DEF Spec

\* UdpChannelClient.Disconnect leaves no client in the table that drops what it is given,
\* except while a thread is about to remove it.
THEOREM DeafnessPasses == Spec => []NobodyIsDeaf
<1>1. IInv => NobodyIsDeaf
    BY DEF IInv, Core
<1> QED
    BY <1>1, InitInv, NextInv, PTL DEF Spec

\* UdpChannelListener.ListenAsync ends by an exception only for one of the causes it has.
THEOREM LoopEndsAreJustified == Spec => []LoopEndsForCause
<1>1. IInv => LoopEndsForCause
    BY DEF IInv, Core
<1> QED
    BY <1>1, InitInv, NextInv, PTL DEF Spec

\* UdpChannelListener has one live client for an endpoint, unless two threads that
\* disconnected an older one took its successor out of the table.
THEOREM OneClientLives == Spec => []OneLiveClient
<1>1. IInv => OneLiveClient
    <2>1. ASSUME IInv, NEW c \in Ids, NEW d \in Ids, c < d, made[c] = made[d],
                 {c, d} \cap disconnected = {}, ~ raced
          PROVE  Evicted(c)
        <3>1. removals[c] > 0 \/ Evicted(c)
            BY <2>1 DEF IInv, Core, Removal
        <3>2. c \in ClientIds /\ c \notin disconnected
            BY <2>1, Ranges DEF IInv, Core
        <3> QED
            BY <2>1, <3>1, <3>2 DEF IInv, Core, Removal
    <2> QED
        BY <2>1 DEF OneLiveClient, Evicted
<1> QED
    BY <1>1, InitInv, NextInv, PTL DEF Spec

\* UdpChannelListener.Dispose disconnects every client, except the one that the loop is
\* making and those that had lost their place in the table; one that threw leaves only
\* clients that it had not come to, where another call finds them.
THEOREM DisposalIsThorough == Spec => []DisposalReachesAll
<1>1. IInv => DisposalReachesAll
    <2>1. ASSUME IInv, owner \in {"threw", "disposed"}, ~ raced, NEW c \in Ids \ disconnected
          PROVE  \/ IsBeingMade(c)
                 \/ owner = "threw" /\ table[made[c]] = c /\ made[c] \notin visited
                 \/ Evicted(c)
        <3>1. /\ TypeOK /\ Counted /\ Removal /\ Whereabouts /\ Growing /\ Visiting /\ Cleared
            BY <2>1 DEF IInv, Core
        <3>2. c \in ClientIds /\ made[c] \in Endpoints /\ c # 0
            BY <2>1, <3>1, Ranges DEF Ids
        <3>3. ~ removals[c] > 0
            BY <2>1, <3>1, <3>2 DEF Removal
        <3>4. CASE table[made[c]] = c
            <4>1. CASE owner = "disposed"
                BY <2>1, <3>1, <3>2, <3>4, <4>1 DEF Cleared, IsAdded, IsBeingMade
            <4>2. CASE owner = "threw"
                <5>1. call["owner"].at # "marking"
                    BY <3>1, <4>2, NoCallIs DEF Growing
                <5>2. made[c] \in visited => IsAdded(c)
                    BY <2>1, <3>1, <3>2, <3>4, <4>2, <5>1 DEF Visiting
                <5> QED
                    BY <3>4, <4>2, <5>2 DEF IsAdded, IsBeingMade
            <4> QED
                BY <2>1, <4>1, <4>2
        <3>5. CASE loop = "adding" /\ c = client
            BY <3>5 DEF IsBeingMade
        <3> QED
            BY <2>1, <3>1, <3>3, <3>4, <3>5 DEF Whereabouts
    <2> QED
        BY <2>1 DEF DisposalReachesAll, Evicted
<1> QED
    BY <1>1, InitInv, NextInv, PTL DEF Spec

=============================================================================
