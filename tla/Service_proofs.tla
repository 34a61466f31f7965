---------------------------- MODULE Service_proofs ----------------------------
(***************************************************************************)
(* Proofs about what the threads of the server have in common: the accept  *)
(* loop and the timer of a service (TcpService), for any number of         *)
(* clients, and the log all of them write to (Logger), for any number of   *)
(* threads, entries and servers.                                           *)
(***************************************************************************)
EXTENDS TcpService, Logger, SequenceTheorems, TLAPS

-----------------------------------------------------------------------------
(* The tasks of a service *)

\* Nothing is done for a client before it is accepted.
BacklogIsUntouched ==
    \A c \in Clients :
        socket[c] \in {"none", "queued"} =>
            /\ poll[c] = "none"
            /\ listener \in {"receiving", "polling"} => current # c

\* What Poll saw is still there, or the peer has left, or it was read in between.
WhatPollSaw ==
    \A c \in Clients :
        poll[c] = "readable" /\ socket[c] = "open" =>
            unread[c] > 0 \/ peer[c] # "there" \/ c \in overtaken

IInv ==
    /\ TypeOK
    /\ SocketsFollowReceive
    /\ DisconnectReportIsRight
    /\ BacklogIsUntouched
    /\ WhatPollSaw
-----------------------------------------------------------------------------
(* The invariant *)

LEMMA InitInv == Init => IInv
<1> SUFFICES ASSUME Init PROVE IInv
    OBVIOUS
<1>1. TypeOK
    <2>1. unread \in [Clients -> 0 .. MaxUnread]
        BY BoundIsPositive DEF Init
    <2> QED
        BY <2>1 DEF Init, TypeOK, Over
<1>2. \A c \in Clients : receive[c] = "none" /\ poll[c] = "none" /\ listener = "accepting"
    BY DEF Init
<1> QED
    BY <1>1, <1>2 DEF IInv, SocketsFollowReceive, DisconnectReportIsRight, 
                      BacklogIsUntouched, WhatPollSaw

\* A client connects.
LEMMA ConnectStep ==
    ASSUME IInv, NEW c \in Clients, Connect(c)
    PROVE  IInv'
<1>1. TypeOK'
    BY BoundIsPositive DEF IInv, TypeOK, Connect, settings, accepting, network, Over
<1>2. SocketsFollowReceive'
    BY DEF IInv, TypeOK, SocketsFollowReceive, Connect, settings, accepting, network, Over
<1>3. DisconnectReportIsRight'
    BY DEF IInv, TypeOK, DisconnectReportIsRight, WhatPollSaw, Connect, settings, accepting,
       network, Over
<1>4. BacklogIsUntouched'
    BY DEF IInv, TypeOK, SocketsFollowReceive, BacklogIsUntouched, Connect, settings, accepting,
       network, Over
<1>5. WhatPollSaw'
    BY DEF IInv, TypeOK, BacklogIsUntouched, WhatPollSaw, Connect, settings, accepting, network,
       Over
<1> QED
    BY <1>1, <1>2, <1>3, <1>4, <1>5 DEF IInv

\* The peer sends.
LEMMA SendsStep ==
    ASSUME IInv, NEW c \in Clients, PeerSends(c)
    PROVE  IInv'
<1>1. TypeOK'
    BY BoundIsPositive DEF IInv, TypeOK, PeerSends, settings, accepting, network, Over
<1>2. SocketsFollowReceive'
    BY DEF IInv, TypeOK, SocketsFollowReceive, PeerSends, settings, accepting, network, Over
<1>3. DisconnectReportIsRight'
    BY DEF IInv, TypeOK, DisconnectReportIsRight, WhatPollSaw, PeerSends, settings, accepting,
       network, Over
<1>4. BacklogIsUntouched'
    BY DEF IInv, TypeOK, SocketsFollowReceive, BacklogIsUntouched, PeerSends, settings,
       accepting, network, Over
<1>5. WhatPollSaw'
    BY DEF IInv, TypeOK, BacklogIsUntouched, WhatPollSaw, PeerSends, settings, accepting,
       network, Over
<1> QED
    BY <1>1, <1>2, <1>3, <1>4, <1>5 DEF IInv

\* The peer leaves.
LEMMA LeavesStep ==
    ASSUME IInv, NEW c \in Clients, PeerLeaves(c)
    PROVE  IInv'
<1>1. TypeOK'
    BY BoundIsPositive DEF IInv, TypeOK, PeerLeaves, settings, accepting, network, Over
<1>2. SocketsFollowReceive'
    BY DEF IInv, TypeOK, SocketsFollowReceive, PeerLeaves, settings, accepting, network, Over
<1>3. DisconnectReportIsRight'
    BY DEF IInv, TypeOK, DisconnectReportIsRight, WhatPollSaw, PeerLeaves, settings, accepting,
       network, Over
<1>4. BacklogIsUntouched'
    BY DEF IInv, TypeOK, SocketsFollowReceive, BacklogIsUntouched, PeerLeaves, settings,
       accepting, network, Over
<1>5. WhatPollSaw'
    BY DEF IInv, TypeOK, BacklogIsUntouched, WhatPollSaw, PeerLeaves, settings, accepting,
       network, Over
<1> QED
    BY <1>1, <1>2, <1>3, <1>4, <1>5 DEF IInv

\* A socket is finalized.
LEMMA FinalizeStep ==
    ASSUME IInv, NEW c \in Clients, Finalize(c)
    PROVE  IInv'
<1>1. TypeOK'
    BY BoundIsPositive DEF IInv, TypeOK, Finalize, Close, settings, accepting, network, Over
<1>2. SocketsFollowReceive'
    BY DEF IInv, TypeOK, SocketsFollowReceive, Finalize, Close, settings, accepting, network, Over
<1>3. DisconnectReportIsRight'
    BY DEF IInv, TypeOK, DisconnectReportIsRight, WhatPollSaw, Finalize, Close, settings,
       accepting, network, Over
<1>4. BacklogIsUntouched'
    BY DEF IInv, TypeOK, SocketsFollowReceive, BacklogIsUntouched, Finalize, Close, settings,
       accepting, network, Over
<1>5. WhatPollSaw'
    BY DEF IInv, TypeOK, BacklogIsUntouched, WhatPollSaw, Finalize, Close, settings, accepting,
       network, Over
<1> QED
    BY <1>1, <1>2, <1>3, <1>4, <1>5 DEF IInv

\* A client is accepted.
LEMMA AcceptStep ==
    ASSUME IInv, NEW c \in Clients, Accept(c)
    PROVE  IInv'
<1>1. TypeOK'
    BY BoundIsPositive DEF IInv, TypeOK, Accept, settings, accepting, network, Over
<1>2. SocketsFollowReceive'
    BY DEF IInv, TypeOK, SocketsFollowReceive, Accept, settings, accepting, network, Over
<1>3. DisconnectReportIsRight'
    BY DEF IInv, TypeOK, DisconnectReportIsRight, WhatPollSaw, Accept, settings, accepting,
       network, Over
<1>4. BacklogIsUntouched'
    BY DEF IInv, TypeOK, SocketsFollowReceive, BacklogIsUntouched, Accept, settings, accepting,
       network, Over
<1>5. WhatPollSaw'
    BY DEF IInv, TypeOK, BacklogIsUntouched, WhatPollSaw, Accept, settings, accepting, network, Over
<1> QED
    BY <1>1, <1>2, <1>3, <1>4, <1>5 DEF IInv

\* The accept loop faults.
LEMMA AcceptFailsStep ==
    ASSUME IInv, AcceptFails
    PROVE  IInv'
<1>1. TypeOK'
    BY BoundIsPositive DEF IInv, TypeOK, AcceptFails, settings, accepting, network, Over
<1>2. SocketsFollowReceive'
    BY DEF IInv, TypeOK, SocketsFollowReceive, AcceptFails, settings, accepting, network, Over
<1>3. DisconnectReportIsRight'
    BY DEF IInv, TypeOK, DisconnectReportIsRight, WhatPollSaw, AcceptFails, settings, accepting,
       network, Over
<1>4. BacklogIsUntouched'
    BY DEF IInv, TypeOK, SocketsFollowReceive, BacklogIsUntouched, AcceptFails, settings,
       accepting, network, Over
<1>5. WhatPollSaw'
    BY DEF IInv, TypeOK, BacklogIsUntouched, WhatPollSaw, AcceptFails, settings, accepting,
       network, Over
<1> QED
    BY <1>1, <1>2, <1>3, <1>4, <1>5 DEF IInv

\* The receive loop finds its client disconnected.
LEMMA FindsStep ==
    ASSUME IInv, NEW c \in Clients, ReceiveFindsDisconnected(c)
    PROVE  IInv'
<1>1. TypeOK'
    BY BoundIsPositive
       DEF IInv, TypeOK, ReceiveFindsDisconnected, Close, ReceiveBecomes, ListenerAfterReceive,
           settings, accepting, network, Over
<1>2. SocketsFollowReceive'
    BY DEF IInv, TypeOK, SocketsFollowReceive, ReceiveFindsDisconnected, Close, ReceiveBecomes,
       ListenerAfterReceive, settings, accepting, network, Over
<1>3. DisconnectReportIsRight'
    BY DEF IInv, TypeOK, DisconnectReportIsRight, WhatPollSaw, ReceiveFindsDisconnected, Close,
       ReceiveBecomes, ListenerAfterReceive, settings, accepting, network, Over
<1>4. BacklogIsUntouched'
    BY DEF IInv, TypeOK, SocketsFollowReceive, BacklogIsUntouched, ReceiveFindsDisconnected,
       Close, ReceiveBecomes, ListenerAfterReceive, settings, accepting, network, Over
<1>5. WhatPollSaw'
    BY DEF IInv, TypeOK, BacklogIsUntouched, WhatPollSaw, ReceiveFindsDisconnected, Close,
       ReceiveBecomes, ListenerAfterReceive, settings, accepting, network, Over
<1> QED
    BY <1>1, <1>2, <1>3, <1>4, <1>5 DEF IInv

\* The receive loop reads, and its handler goes on, hangs up or throws.
LEMMA ReadDataStep ==
    ASSUME IInv, NEW c \in Clients, ReadData(c)
    PROVE  IInv'
<1>1. TypeOK'
    BY BoundIsPositive
       DEF IInv, TypeOK, ReadData, TakeData, Close, ReceiveBecomes, ListenerAfterReceive,
           settings, accepting, network, Over
<1>2. SocketsFollowReceive'
    BY DEF IInv, TypeOK, SocketsFollowReceive, ReadData, TakeData, Close, ReceiveBecomes,
       ListenerAfterReceive, settings, accepting, network, Over
<1>3. DisconnectReportIsRight'
    BY DEF IInv, TypeOK, DisconnectReportIsRight, WhatPollSaw, ReadData, TakeData, Close,
       ReceiveBecomes, ListenerAfterReceive, settings, accepting, network, Over
<1>4. BacklogIsUntouched'
    BY DEF IInv, TypeOK, SocketsFollowReceive, BacklogIsUntouched, ReadData, TakeData, Close,
       ReceiveBecomes, ListenerAfterReceive, settings, accepting, network, Over
<1>5. WhatPollSaw'
    BY DEF IInv, TypeOK, BacklogIsUntouched, WhatPollSaw, ReadData, TakeData, Close,
       ReceiveBecomes, ListenerAfterReceive, settings, accepting, network, Over
<1> QED
    BY <1>1, <1>2, <1>3, <1>4, <1>5 DEF IInv

\* The read is pending.
LEMMA WaitsStep ==
    ASSUME IInv, NEW c \in Clients, ReadWaits(c)
    PROVE  IInv'
<1>1. TypeOK'
    BY BoundIsPositive
       DEF IInv, TypeOK, ReadWaits, ReceiveBecomes, ListenerAfterReceive, settings, accepting,
           network, Over
<1>2. SocketsFollowReceive'
    BY DEF IInv, TypeOK, SocketsFollowReceive, ReadWaits, ReceiveBecomes, ListenerAfterReceive,
       settings, accepting, network, Over
<1>3. DisconnectReportIsRight'
    BY DEF IInv, TypeOK, DisconnectReportIsRight, WhatPollSaw, ReadWaits, ReceiveBecomes,
       ListenerAfterReceive, settings, accepting, network, Over
<1>4. BacklogIsUntouched'
    BY DEF IInv, TypeOK, SocketsFollowReceive, BacklogIsUntouched, ReadWaits, ReceiveBecomes,
       ListenerAfterReceive, settings, accepting, network, Over
<1>5. WhatPollSaw'
    BY DEF IInv, TypeOK, BacklogIsUntouched, WhatPollSaw, ReadWaits, ReceiveBecomes,
       ListenerAfterReceive, settings, accepting, network, Over
<1> QED
    BY <1>1, <1>2, <1>3, <1>4, <1>5 DEF IInv

\* The read completes.
LEMMA CompletesStep ==
    ASSUME IInv, NEW c \in Clients, ReadCompletes(c)
    PROVE  IInv'
<1>1. TypeOK'
    BY BoundIsPositive
       DEF IInv, TypeOK, ReadCompletes, ReceiveBecomes, ListenerAfterReceive, settings,
           accepting, network, Over
<1>2. SocketsFollowReceive'
    BY DEF IInv, TypeOK, SocketsFollowReceive, ReadCompletes, ReceiveBecomes,
       ListenerAfterReceive, settings, accepting, network, Over
<1>3. DisconnectReportIsRight'
    BY DEF IInv, TypeOK, DisconnectReportIsRight, WhatPollSaw, ReadCompletes, ReceiveBecomes,
       ListenerAfterReceive, settings, accepting, network, Over
<1>4. BacklogIsUntouched'
    BY DEF IInv, TypeOK, SocketsFollowReceive, BacklogIsUntouched, ReadCompletes, ReceiveBecomes,
       ListenerAfterReceive, settings, accepting, network, Over
<1>5. WhatPollSaw'
    BY DEF IInv, TypeOK, BacklogIsUntouched, WhatPollSaw, ReadCompletes, ReceiveBecomes,
       ListenerAfterReceive, settings, accepting, network, Over
<1> QED
    BY <1>1, <1>2, <1>3, <1>4, <1>5 DEF IInv

\* The read fails.
LEMMA ResetStep ==
    ASSUME IInv, NEW c \in Clients, ReadReset(c)
    PROVE  IInv'
<1>1. TypeOK'
    BY BoundIsPositive
       DEF IInv, TypeOK, ReadReset, ReceiveBecomes, ListenerAfterReceive, settings, accepting,
           network, Over
<1>2. SocketsFollowReceive'
    BY DEF IInv, TypeOK, SocketsFollowReceive, ReadReset, ReceiveBecomes, ListenerAfterReceive,
       settings, accepting, network, Over
<1>3. DisconnectReportIsRight'
    BY DEF IInv, TypeOK, DisconnectReportIsRight, WhatPollSaw, ReadReset, ReceiveBecomes,
       ListenerAfterReceive, settings, accepting, network, Over
<1>4. BacklogIsUntouched'
    BY DEF IInv, TypeOK, SocketsFollowReceive, BacklogIsUntouched, ReadReset, ReceiveBecomes,
       ListenerAfterReceive, settings, accepting, network, Over
<1>5. WhatPollSaw'
    BY DEF IInv, TypeOK, BacklogIsUntouched, WhatPollSaw, ReadReset, ReceiveBecomes,
       ListenerAfterReceive, settings, accepting, network, Over
<1> QED
    BY <1>1, <1>2, <1>3, <1>4, <1>5 DEF IInv

\* The read is cancelled.
LEMMA CancelledStep ==
    ASSUME IInv, NEW c \in Clients, ReadCancelled(c)
    PROVE  IInv'
<1>1. TypeOK'
    BY BoundIsPositive
       DEF IInv, TypeOK, ReadCancelled, Close, ReceiveBecomes, ListenerAfterReceive, settings,
           accepting, network, Over
<1>2. SocketsFollowReceive'
    BY DEF IInv, TypeOK, SocketsFollowReceive, ReadCancelled, Close, ReceiveBecomes,
       ListenerAfterReceive, settings, accepting, network, Over
<1>3. DisconnectReportIsRight'
    BY DEF IInv, TypeOK, DisconnectReportIsRight, WhatPollSaw, ReadCancelled, Close,
       ReceiveBecomes, ListenerAfterReceive, settings, accepting, network, Over
<1>4. BacklogIsUntouched'
    BY DEF IInv, TypeOK, SocketsFollowReceive, BacklogIsUntouched, ReadCancelled, Close,
       ReceiveBecomes, ListenerAfterReceive, settings, accepting, network, Over
<1>5. WhatPollSaw'
    BY DEF IInv, TypeOK, BacklogIsUntouched, WhatPollSaw, ReadCancelled, Close, ReceiveBecomes,
       ListenerAfterReceive, settings, accepting, network, Over
<1> QED
    BY <1>1, <1>2, <1>3, <1>4, <1>5 DEF IInv

\* The read finds that another thread has hung up.
LEMMA DisposedStep ==
    ASSUME IInv, NEW c \in Clients, ReadDisposed(c)
    PROVE  IInv'
<1>1. TypeOK'
    BY BoundIsPositive
       DEF IInv, TypeOK, ReadDisposed, ReceiveBecomes, ListenerAfterReceive, settings,
           accepting, network, Over
<1>2. SocketsFollowReceive'
    BY DEF IInv, TypeOK, SocketsFollowReceive, ReadDisposed, ReceiveBecomes,
       ListenerAfterReceive, settings, accepting, network, Over
<1>3. DisconnectReportIsRight'
    BY DEF IInv, TypeOK, DisconnectReportIsRight, ReadDisposed, ReceiveBecomes,
       ListenerAfterReceive, settings, accepting, network, Over
<1>4. BacklogIsUntouched'
    BY DEF IInv, TypeOK, SocketsFollowReceive, BacklogIsUntouched, ReadDisposed,
       ReceiveBecomes, ListenerAfterReceive, settings, accepting, network, Over
<1>5. WhatPollSaw'
    BY DEF IInv, TypeOK, WhatPollSaw, ReadDisposed, ReceiveBecomes, ListenerAfterReceive,
       settings, accepting, network, Over
<1> QED
    BY <1>1, <1>2, <1>3, <1>4, <1>5 DEF IInv

\* A refusal is written, and its thread hangs up, or its write fails.
LEMMA RefusalStep ==
    ASSUME IInv, NEW c \in Clients, RefusalWritten(c) \/ RefusalFails(c)
    PROVE  IInv'
<1> USE DEF RefusalWritten, RefusalFails, RefusalEnds, Close
<1>1. TypeOK'
    BY BoundIsPositive DEF IInv, TypeOK, settings, accepting, network, Over
<1>2. SocketsFollowReceive'
    BY DEF IInv, TypeOK, SocketsFollowReceive, settings, accepting, network, Over
<1>3. DisconnectReportIsRight'
    BY DEF IInv, TypeOK, DisconnectReportIsRight, settings, accepting, network, Over
<1>4. BacklogIsUntouched'
    BY DEF IInv, TypeOK, BacklogIsUntouched, settings, accepting, network, Over
<1>5. WhatPollSaw'
    BY DEF IInv, TypeOK, WhatPollSaw, settings, accepting, network, Over
<1> QED
    BY <1>1, <1>2, <1>3, <1>4, <1>5 DEF IInv

\* The timeout of a client fires.
LEMMA TimerStep ==
    ASSUME IInv, NEW c \in Clients, TimerFires(c)
    PROVE  IInv'
<1>1. TypeOK'
    BY BoundIsPositive DEF IInv, TypeOK, TimerFires, settings, accepting, network, Over
<1>2. SocketsFollowReceive'
    BY DEF IInv, TypeOK, SocketsFollowReceive, TimerFires, settings, accepting, network, Over
<1>3. DisconnectReportIsRight'
    BY DEF IInv, TypeOK, DisconnectReportIsRight, WhatPollSaw, TimerFires, settings, accepting,
       network, Over
<1>4. BacklogIsUntouched'
    BY DEF IInv, TypeOK, SocketsFollowReceive, BacklogIsUntouched, TimerFires, settings,
       accepting, network, Over
<1>5. WhatPollSaw'
    BY DEF IInv, TypeOK, BacklogIsUntouched, WhatPollSaw, TimerFires, settings, accepting,
       network, Over
<1> QED
    BY <1>1, <1>2, <1>3, <1>4, <1>5 DEF IInv

\* A poll moves on to a state that what it has seen justifies.
LEMMA PollMoves ==
    ASSUME IInv, NEW c \in Clients,
           NEW state \in {"waiting", "woken", "readable"} \cup Over,
           PollBecomes(c, state),
           socket[c] \notin {"none", "queued"},
           state = "readable" => unread[c] > 0 \/ peer[c] # "there",
           state = "ended" => peer[c] # "there" \/ socket[c] = "disposed" \/ c \in overtaken
    PROVE  IInv'
<1>1. TypeOK'
    BY BoundIsPositive
       DEF IInv, TypeOK, PollBecomes, ListenerAfterPoll, settings, accepting, network, Over
<1>2. SocketsFollowReceive'
    BY DEF IInv, TypeOK, SocketsFollowReceive, PollBecomes, ListenerAfterPoll, settings,
       accepting, network, Over
<1>3. DisconnectReportIsRight'
    BY DEF IInv, TypeOK, DisconnectReportIsRight, WhatPollSaw, PollBecomes, ListenerAfterPoll,
       settings, accepting, network, Over
<1>4. BacklogIsUntouched'
    BY DEF IInv, TypeOK, SocketsFollowReceive, BacklogIsUntouched, PollBecomes,
       ListenerAfterPoll, settings, accepting, network, Over
<1>5. WhatPollSaw'
    BY DEF IInv, TypeOK, BacklogIsUntouched, WhatPollSaw, PollBecomes, ListenerAfterPoll,
       settings, accepting, network, Over
<1> QED
    BY <1>1, <1>2, <1>3, <1>4, <1>5 DEF IInv

\* A poll waits for the timer, or faults at it.
LEMMA TickStep ==
    ASSUME IInv, NEW c \in Clients, WaitForNextTick(c), socket[c] \notin {"none", "queued"}
    PROVE  IInv'
BY PollMoves DEF WaitForNextTick, Over

\* One step of a poll.
LEMMA PollStepInv ==
    ASSUME IInv, NEW c \in Clients, PollStep(c)
    PROVE  IInv'
<1>1. CASE StartPoll(c)
    <2>1. socket[c] \notin {"none", "queued"}
        BY <1>1 DEF IInv, BacklogIsUntouched, StartPoll
    <2> QED
        BY <1>1, <2>1, TickStep DEF StartPoll
<1>2. ASSUME poll[c] # "none" PROVE socket[c] \notin {"none", "queued"}
    BY <1>2 DEF IInv, BacklogIsUntouched
<1>3. CASE Wake(c)
    BY <1>2, <1>3, PollMoves DEF Wake
<1>4. CASE PollSocket(c)
    BY <1>2, <1>4, PollMoves, TickStep DEF PollSocket, Over
<1>5. CASE ReadAvailable(c)
    <2>1. poll[c] = "readable" /\ socket[c] \notin {"none", "queued"}
        BY <1>2, <1>5 DEF ReadAvailable
    <2>2. ASSUME socket[c] = "open", unread[c] = 0
          PROVE  peer[c] # "there" \/ c \in overtaken
        BY <2>1, <2>2 DEF IInv, WhatPollSaw
    <2> QED
        BY <1>5, <2>1, <2>2, PollMoves, TickStep DEF ReadAvailable, Over
<1> QED
    BY <1>1, <1>3, <1>4, <1>5 DEF PollStep

LEMMA NextInv == IInv /\ [Next]_vars => IInv'
<1> SUFFICES ASSUME IInv, [Next]_vars PROVE IInv'
    OBVIOUS
<1>1. CASE UNCHANGED vars
    BY <1>1 DEF IInv, TypeOK, SocketsFollowReceive, DisconnectReportIsRight, 
                BacklogIsUntouched, WhatPollSaw, vars, settings
<1>2. ASSUME NEW c \in Clients, Connect(c) \/ PeerSends(c) \/ PeerLeaves(c) \/ Finalize(c)
      PROVE  IInv'
    BY <1>2, ConnectStep, SendsStep, LeavesStep, FinalizeStep
<1>3. ASSUME NEW c \in Clients, ReceiveStep(c)
      PROVE  IInv'
    BY <1>3, FindsStep, ReadDataStep, WaitsStep, CompletesStep, ResetStep, CancelledStep,
       DisposedStep DEF ReceiveStep
<1> QED
    BY <1>1, <1>2, <1>3, AcceptStep, TimerStep, PollStepInv, AcceptFailsStep,
       RefusalStep DEF Next

\* NetTcpListener and NetTcpClient: the variables keep their types.
THEOREM TypeCorrect == Spec => []TypeOK
<1>1. IInv => TypeOK
    BY DEF IInv
<1> QED
    BY <1>1, InitInv, NextInv, PTL DEF Spec

\* NetTcpClient.ReceiveAsync closes the socket whenever it returns; what its handlers and
\* the threads of their refusals (SendThenDisconnect) take away under it shows in how it
\* ends: it returns when its handler has hung up, and only a refusal makes its read throw.
THEOREM ReceiveEndsAsClosed == Spec => []SocketsFollowReceive
<1>1. IInv => SocketsFollowReceive
    BY DEF IInv
<1> QED
    BY <1>1, InitInv, NextInv, PTL DEF Spec

\* The services' PollClient reports a client as disconnected only if its peer has left,
\* its handler has disposed it, or a read came between the two halves of IsConnected.
THEOREM ReportsAreRight == Spec => []DisconnectReportIsRight
<1>1. IInv => DisconnectReportIsRight
    BY DEF IInv
<1> QED
    BY <1>1, InitInv, NextInv, PTL DEF Spec

-----------------------------------------------------------------------------
(* The log *)

\* The parts of a sequence, and that it has none twice.
PartsOf(s) == {s[i] : i \in 1 .. Len(s)}
Once(s) == \A i, j \in 1 .. Len(s) : s[i] = s[j] => i = j

Entering == {"enqueue", "count", "add"}

\* A thread has an entry of its own as long as it enqueues it.
Numbered ==
    /\ \A t \in Threads : entry[t] <= Len(parts)
    /\ \A t, u \in Threads : entry[t] = entry[u] /\ entry[t] # 0 => t = u
    /\ \A t \in Threads : at[t] \in Entering => entry[t] # 0
    /\ \A t \in Threads : at[t] = "enqueue" => next[t] <= parts[entry[t]]
    /\ at["timer"] \notin Entering

\* The part that is enqueued next was not enqueued before.
NextIsNew ==
    /\ \A p \in PartsOf(enqueued) : p[1] <= Len(parts)
    /\ \A t \in Threads : at[t] = "enqueue" =>
          \A p \in PartsOf(enqueued) : p[1] = entry[t] => p[2] < next[t]
    /\ Once(enqueued)

\* One call has the buffer, and only a call that is about to show a text has one.
Held ==
    /\ ~ met => \A c, d \in Callers : at[c] \in InBuffer /\ at[d] \in InBuffer => c = d
    /\ \A c \in Callers : at[c] # "write" => text[c] = Empty

\* What was enqueued is what queue, buffer, texts and console hold,
Conserved ==
    ~ met =>
      /\ \A p \in PartsOf(enqueued) :
            \/ p \in PartsOf(queue) \/ p \in PartsOf(Gathered) \/ p \in PartsOf(shown)
            \/ \E c \in Callers : p \in PartsOf(text[c].text)
      /\ PartsOf(queue) \cup PartsOf(Gathered) \cup PartsOf(shown) \subseteq PartsOf(enqueued)
      /\ \A c \in Callers : PartsOf(text[c].text) \subseteq PartsOf(enqueued)

\* none of which has a part twice, or one that another has.
Separate ==
    ~ met =>
      /\ Once(queue) /\ Once(Gathered) /\ Once(shown)
      /\ PartsOf(queue) \cap PartsOf(Gathered) = {}
      /\ PartsOf(queue) \cap PartsOf(shown) = {}
      /\ PartsOf(Gathered) \cap PartsOf(shown) = {}
      /\ \A c \in Callers :
            /\ Once(text[c].text)
            /\ PartsOf(text[c].text) \cap PartsOf(queue) = {}
            /\ PartsOf(text[c].text) \cap PartsOf(Gathered) = {}
            /\ PartsOf(text[c].text) \cap PartsOf(shown) = {}
            /\ \A d \in Callers \ {c} : PartsOf(text[c].text) \cap PartsOf(text[d].text) = {}

\* Calls that do not overlap come one after the other,
OneBusy == ~ overlapped => \A c, d \in Callers : Busy(c) /\ Busy(d) => c = d

Settled ==
    /\ shown \o queue = enqueued
    /\ length = Len(queue)
    /\ ~ doTimer => queue = << >>

\* and each of them leaves in order what it found in order.
Stage(c) ==
    /\ at[c] \in {"enqueue", "count", "add", "check", "clear"} => shown \o queue = enqueued
    /\ at[c] = "enqueue" => Len(queue) = length + next[c] - 1
    /\ at[c] = "count" => Len(queue) = length + parts[entry[c]]
    /\ at[c] = "add" => Len(queue) = seen[c] + parts[entry[c]]
    /\ at[c] \in {"check", "clear"} => length = Len(queue)
    /\ at[c] = "drain" => /\ (shown \o buffer.text) \o queue = enqueued
                          /\ buffer.nulls = Len(buffer.text) + Len(queue)
    /\ at[c] \in {"reset", "copy", "write"} => queue = << >>
    /\ at[c] \in {"reset", "copy"} => /\ shown \o buffer.text = enqueued
                                      /\ buffer.nulls = Len(buffer.text)
    /\ at[c] \in {"copy", "write"} => length = 0
    /\ at[c] = "write" => /\ shown \o text[c].text = enqueued
                          /\ text[c].nulls = Len(text[c].text)

InOrder ==
    ~ overlapped =>
      /\ (\A c \in Callers : ~ Busy(c)) => Settled
      /\ \A c \in Callers : Busy(c) => Stage(c)
      /\ \A i \in 1 .. Len(console) : console[i].nulls = Len(console[i].text)

\* A server that has been started has set the bits of all levels.
LevelsAreOn ==
    /\ servers > 0 /\ setting = "no" => {1, 2} \subseteq flags
    /\ setting # "no" => servers < MaxServers

LogIInv ==
    /\ LogTypeOK /\ Numbered /\ NextIsNew /\ Held /\ Conserved /\ Separate /\ OneBusy /\ InOrder
    /\ LevelsAreOn

-----------------------------------------------------------------------------
(* Sequences of parts *)

\* An empty sequence has no part.
LEMMA PartsOfEmpty == PartsOf(<< >>) = {} /\ Once(<< >>)
BY DEF PartsOf, Once

\* A part is appended.
LEMMA PartsOfAppend ==
    ASSUME NEW S, NEW s \in Seq(S), NEW e \in S
    PROVE  /\ Append(s, e) \in Seq(S) /\ Len(Append(s, e)) = Len(s) + 1
           /\ PartsOf(Append(s, e)) = PartsOf(s) \cup {e}
           /\ Once(s) /\ e \notin PartsOf(s) => Once(Append(s, e))
<1>1. /\ Len(s) \in Nat /\ Append(s, e) \in Seq(S) /\ Len(Append(s, e)) = Len(s) + 1
      /\ \A i \in 1 .. Len(s) : Append(s, e)[i] = s[i]
      /\ Append(s, e)[Len(s) + 1] = e
    OBVIOUS
<1>2. \A i : i \in 1 .. Len(s) + 1 <=> i \in 1 .. Len(s) \/ i = Len(s) + 1
    BY <1>1
<1>3. PartsOf(Append(s, e)) = PartsOf(s) \cup {e}
    BY <1>1, <1>2 DEF PartsOf
<1>4. ASSUME Once(s), e \notin PartsOf(s) PROVE Once(Append(s, e))
    BY <1>1, <1>2, <1>4 DEF PartsOf, Once
<1> QED
    BY <1>1, <1>3, <1>4

\* A text is put behind another.
LEMMA PartsOfConcat ==
    ASSUME NEW S, NEW s \in Seq(S), NEW r \in Seq(S)
    PROVE  /\ s \o r \in Seq(S)
           /\ PartsOf(s \o r) = PartsOf(s) \cup PartsOf(r)
           /\ Once(s) /\ Once(r) /\ PartsOf(s) \cap PartsOf(r) = {} => Once(s \o r)
<1>1. /\ Len(s) \in Nat /\ Len(r) \in Nat /\ s \o r \in Seq(S) /\ Len(s \o r) = Len(s) + Len(r)
      /\ \A i \in 1 .. Len(s) : (s \o r)[i] = s[i]
      /\ \A i \in 1 .. Len(r) : (s \o r)[Len(s) + i] = r[i]
    OBVIOUS
<1>2. \A i \in 1 .. Len(s) + Len(r) :
          i \in 1 .. Len(s) \/ \E j \in 1 .. Len(r) : i = Len(s) + j
    <2>1. ASSUME NEW i \in 1 .. Len(s) + Len(r), i \notin 1 .. Len(s)
          PROVE  i - Len(s) \in 1 .. Len(r) /\ i = Len(s) + (i - Len(s))
        BY <1>1, <2>1
    <2> QED
        BY <2>1
<1>3. \A j \in 1 .. Len(r) : Len(s) + j \in 1 .. Len(s) + Len(r)
    BY <1>1
<1>4. \A i \in 1 .. Len(s) : i \in 1 .. Len(s) + Len(r)
    BY <1>1
<1>5. PartsOf(s \o r) = PartsOf(s) \cup PartsOf(r)
    <2>1. \A x \in PartsOf(s \o r) : x \in PartsOf(s) \cup PartsOf(r)
        BY <1>1, <1>2 DEF PartsOf
    <2>2. \A x \in PartsOf(s) \cup PartsOf(r) : x \in PartsOf(s \o r)
        BY <1>1, <1>3, <1>4 DEF PartsOf
    <2> QED
        BY <2>1, <2>2
<1>6. ASSUME Once(s), Once(r), PartsOf(s) \cap PartsOf(r) = {} PROVE Once(s \o r)
    <2> SUFFICES ASSUME NEW i \in 1 .. Len(s) + Len(r), NEW j \in 1 .. Len(s) + Len(r),
                        (s \o r)[i] = (s \o r)[j]
                 PROVE  i = j
        BY <1>1 DEF Once
    <2>1. \A k \in 1 .. Len(s), l \in 1 .. Len(r) : s[k] # r[l]
        BY <1>6 DEF PartsOf
    <2>2. CASE i \in 1 .. Len(s) /\ j \in 1 .. Len(s)
        BY <1>1, <1>6, <2>2 DEF Once
    <2>3. CASE i \in 1 .. Len(s) /\ j \notin 1 .. Len(s)
        BY <1>1, <1>2, <2>1, <2>3
    <2>4. CASE i \notin 1 .. Len(s) /\ j \in 1 .. Len(s)
        BY <1>1, <1>2, <2>1, <2>4
    <2>5. CASE i \notin 1 .. Len(s) /\ j \notin 1 .. Len(s)
        <3>1. PICK k \in 1 .. Len(r), l \in 1 .. Len(r) : i = Len(s) + k /\ j = Len(s) + l
            BY <1>2, <2>5
        <3>2. r[k] = r[l]
            BY <1>1, <3>1
        <3> QED
            BY <1>6, <3>1, <3>2 DEF Once
    <2> QED
        BY <2>2, <2>3, <2>4, <2>5
<1> QED
    BY <1>1, <1>5, <1>6

\* Appending to the end is appending to the last of two.
LEMMA ConcatThenAppend ==
    ASSUME NEW S, NEW s \in Seq(S), NEW r \in Seq(S), NEW e \in S
    PROVE  s \o Append(r, e) = Append(s \o r, e)
<1>1. s \o r \in Seq(S) /\ Append(r, e) \in Seq(S) /\ Len(s) \in Nat /\ Len(r) \in Nat
    OBVIOUS
<1>2. s \o Append(r, e) \in Seq(S) /\ Append(s \o r, e) \in Seq(S)
    BY <1>1
<1>3. Len(s \o Append(r, e)) = Len(Append(s \o r, e))
    BY <1>1
<1>4. ASSUME NEW i \in 1 .. Len(Append(s \o r, e))
      PROVE  (s \o Append(r, e))[i] = Append(s \o r, e)[i]
    <2>1. i \in 1 .. Len(s) + Len(r) + 1
        BY <1>1
    <2>2. CASE i \in 1 .. Len(s)
        BY <1>1, <2>2
    <2>3. CASE i > Len(s) /\ i <= Len(s) + Len(r)
        BY <1>1, <2>1, <2>3
    <2>4. CASE i = Len(s) + Len(r) + 1
        BY <1>1, <2>4
    <2> QED
        BY <1>1, <2>1, <2>2, <2>3, <2>4
<1> QED
    BY <1>2, <1>3, <1>4, SeqEqual

\* The first part is taken away.
LEMMA PartsOfTail ==
    ASSUME NEW S, NEW s \in Seq(S), s # << >>
    PROVE  /\ Head(s) \in S /\ Tail(s) \in Seq(S) /\ Len(s) = Len(Tail(s)) + 1
           /\ PartsOf(s) = {Head(s)} \cup PartsOf(Tail(s))
           /\ Once(s) => Once(Tail(s)) /\ Head(s) \notin PartsOf(Tail(s))
           /\ \A r \in Seq(S) : Append(r, Head(s)) \o Tail(s) = r \o s
<1>1. /\ Len(s) \in Nat /\ Len(s) # 0 /\ Head(s) = s[1] /\ Head(s) \in S
      /\ Tail(s) \in Seq(S) /\ Len(Tail(s)) = Len(s) - 1
      /\ \A i \in 1 .. Len(s) - 1 : Tail(s)[i] = s[i + 1]
    OBVIOUS
<1>2. \A i \in 1 .. Len(s) : i = 1 \/ \E j \in 1 .. Len(s) - 1 : i = j + 1
    <2>1. ASSUME NEW i \in 1 .. Len(s), i # 1
          PROVE  i - 1 \in 1 .. Len(s) - 1 /\ i = (i - 1) + 1
        BY <1>1, <2>1
    <2> QED
        BY <2>1
<1>3. 1 \in 1 .. Len(s) /\ \A j \in 1 .. Len(s) - 1 : j + 1 \in 1 .. Len(s) /\ j + 1 # 1
    BY <1>1
<1>4. PartsOf(s) = {Head(s)} \cup PartsOf(Tail(s))
    <2>1. ASSUME NEW i \in 1 .. Len(s) PROVE s[i] \in {Head(s)} \cup PartsOf(Tail(s))
        <3>1. CASE i = 1
            BY <1>1, <3>1
        <3>2. CASE i # 1
            <4>1. PICK j \in 1 .. Len(s) - 1 : i = j + 1
                BY <1>2, <3>2
            <4>2. s[i] = Tail(s)[j] /\ j \in 1 .. Len(Tail(s))
                BY <1>1, <4>1
            <4> QED
                BY <4>2 DEF PartsOf
        <3> QED
            BY <3>1, <3>2
    <2>2. \A x \in {Head(s)} \cup PartsOf(Tail(s)) : x \in PartsOf(s)
        BY <1>1, <1>3 DEF PartsOf
    <2>3. \A x \in PartsOf(s) : x \in {Head(s)} \cup PartsOf(Tail(s))
        BY <2>1 DEF PartsOf
    <2> QED
        BY <2>2, <2>3
<1>5. ASSUME Once(s) PROVE Once(Tail(s)) /\ Head(s) \notin PartsOf(Tail(s))
    <2>1. ASSUME NEW i \in 1 .. Len(s) - 1, NEW j \in 1 .. Len(s) - 1, Tail(s)[i] = Tail(s)[j]
          PROVE  i = j
        <3>1. s[i + 1] = s[j + 1] /\ i + 1 \in 1 .. Len(s) /\ j + 1 \in 1 .. Len(s)
            BY <1>1, <1>3, <2>1
        <3>2. i + 1 = j + 1
            BY <1>5, <3>1 DEF Once
        <3> QED
            BY <3>2
    <2>2. \A j \in 1 .. Len(s) - 1 : Tail(s)[j] # s[1]
        <3> SUFFICES ASSUME NEW j \in 1 .. Len(s) - 1, s[j + 1] = s[1] PROVE FALSE
            BY <1>1
        <3> QED
            BY <1>3, <1>5 DEF Once
    <2> QED
        BY <1>1, <2>1, <2>2 DEF Once, PartsOf
<1>6. ASSUME NEW r \in Seq(S) PROVE Append(r, Head(s)) \o Tail(s) = r \o s
    <2>1. /\ Append(r, Head(s)) \in Seq(S) /\ Len(Append(r, Head(s))) = Len(r) + 1
          /\ Len(r) \in Nat
        BY <1>1
    <2>2. Len(Append(r, Head(s)) \o Tail(s)) = Len(r \o s)
        BY <1>1, <2>1
    <2>3. ASSUME NEW i \in 1 .. Len(r \o s)
          PROVE  (Append(r, Head(s)) \o Tail(s))[i] = (r \o s)[i]
        <3>1. i \in 1 .. Len(r) + Len(s)
            BY <2>1
        <3>2. CASE i \in 1 .. Len(r)
            BY <1>1, <2>1, <3>2
        <3>3. CASE i = Len(r) + 1
            BY <1>1, <2>1, <3>3
        <3>4. CASE i > Len(r) + 1
            BY <1>1, <2>1, <3>1, <3>4
        <3> QED
            BY <2>1, <3>1, <3>2, <3>3, <3>4
    <2> QED
        BY <1>1, <2>1, <2>2, <2>3, ConcatProperties, SeqEqual
<1> QED
    BY <1>1, <1>4, <1>5, <1>6

-----------------------------------------------------------------------------
(* The state *)

\* What the types say of the variables.
LEMMA Types ==
    ASSUME LogTypeOK, Numbered
    PROVE  /\ Len(parts) \in Nat /\ Len(queue) \in Nat /\ Len(buffer.text) \in Nat
           /\ Len(dropped) \in Nat /\ Len(parts) + Len(dropped) <= MaxEntries
           /\ queue \in Seq(Parts) /\ enqueued \in Seq(Parts) /\ shown \in Seq(Parts)
           /\ buffer.text \in Seq(Parts) /\ buffer.nulls \in Nat
           /\ \A c \in Callers : text[c] \in Texts /\ text[c].text \in Seq(Parts)
           /\ \A t \in Threads : at[t] \in Entering =>
                 entry[t] \in 1 .. Len(parts) /\ parts[entry[t]] \in PartCounts
                   /\ parts[entry[t]] \in Nat \ {0}
<1>1. Len(parts) \in Nat /\ Len(queue) \in Nat /\ Len(buffer.text) \in Nat
    BY DEF LogTypeOK, Texts
<1>2. queue \in Seq(Parts) /\ enqueued \in Seq(Parts) /\ shown \in Seq(Parts)
    BY DEF LogTypeOK
<1>3. /\ buffer.text \in Seq(Parts) /\ buffer.nulls \in Nat
      /\ \A c \in Callers : text[c] \in Texts /\ text[c].text \in Seq(Parts)
    BY DEF LogTypeOK, Texts
<1>4. Len(dropped) \in Nat /\ Len(parts) + Len(dropped) <= MaxEntries
    BY DEF LogTypeOK
<1>5. ASSUME NEW t \in Threads, at[t] \in Entering
      PROVE  entry[t] \in 1 .. Len(parts) /\ parts[entry[t]] \in PartCounts
               /\ parts[entry[t]] \in Nat \ {0}
    <2>1. entry[t] # 0 /\ entry[t] <= Len(parts) /\ entry[t] \in 0 .. MaxEntries
        BY <1>5 DEF Numbered, LogTypeOK
    <2>2. entry[t] \in 1 .. Len(parts)
        BY <1>1, <2>1, BoundsAreNatural
    <2>3. parts[entry[t]] \in PartCounts
        BY <2>2 DEF LogTypeOK
    <2> QED
        BY <2>2, <2>3, EntriesHaveParts
<1> QED
    BY <1>1, <1>2, <1>3, <1>4, <1>5

\* A thread that goes from one place to the next takes nobody else along.
LEMMA Moves ==
    ASSUME LogTypeOK, NEW c \in Callers, NEW x, at' = [at EXCEPT ![c] = x]
    PROVE  /\ at'[c] = x
           /\ \A d \in Callers \ {c} : at'[d] = at[d] /\ (Busy(d)' <=> Busy(d))
           /\ x \in Calling \cup {"idle"} => at' \in [Callers -> Calling \cup {"idle"}]
<1>1. at \in [Callers -> Calling \cup {"idle"}]
    BY DEF LogTypeOK
<1>2. /\ at'[c] = x
      /\ \A d \in Callers \ {c} : at'[d] = at[d]
      /\ x \in Calling \cup {"idle"} => at' \in [Callers -> Calling \cup {"idle"}]
    BY <1>1
<1> QED
    BY <1>2 DEF Busy

\* The parts are where they were.
LEMMA PlacesKeep ==
    ASSUME Conserved, Separate, UNCHANGED << queue, enqueued, shown, text >>,
           ~ met' => ~ met /\ Gathered' = Gathered
    PROVE  Conserved' /\ Separate'
<1>1. \A c \in Callers : text'[c] = text[c]
    OBVIOUS
<1>2. Conserved'
    <2> SUFFICES ASSUME ~ met' PROVE Conserved'
        BY DEF Conserved
    <2>1. \A p \in PartsOf(enqueued') :
            \/ p \in PartsOf(queue') \/ p \in PartsOf(Gathered') \/ p \in PartsOf(shown')
            \/ \E c \in Callers : p \in PartsOf(text'[c].text)
        BY DEF Conserved
    <2>2. /\ PartsOf(queue') \cup PartsOf(Gathered') \cup PartsOf(shown') \subseteq PartsOf(enqueued')
          /\ \A c \in Callers : PartsOf(text'[c].text) \subseteq PartsOf(enqueued')
        BY DEF Conserved
    <2> QED
        BY <2>1, <2>2 DEF Conserved, PartsOf
<1>3. Separate'
    <2> SUFFICES ASSUME ~ met' PROVE Separate'
        BY DEF Separate
    <2>1. /\ Once(queue') /\ Once(Gathered') /\ Once(shown')
          /\ PartsOf(queue') \cap PartsOf(Gathered') = {}
          /\ PartsOf(queue') \cap PartsOf(shown') = {}
          /\ PartsOf(Gathered') \cap PartsOf(shown') = {}
        BY DEF Separate
    <2>2. \A c \in Callers :
            /\ Once(text'[c].text)
            /\ PartsOf(text'[c].text) \cap PartsOf(queue') = {}
            /\ PartsOf(text'[c].text) \cap PartsOf(Gathered') = {}
            /\ PartsOf(text'[c].text) \cap PartsOf(shown') = {}
            /\ \A d \in Callers \ {c} : PartsOf(text'[c].text) \cap PartsOf(text'[d].text) = {}
        BY DEF Separate
    <2> QED
        BY <2>1, <2>2 DEF Separate, PartsOf, Once
<1> QED
    BY <1>2, <1>3

\* What was gathered is still, as long as nobody takes or leaves the buffer.
LEMMA GatheredKeeps ==
    ASSUME LogTypeOK, NEW c \in Callers, NEW x, at' = [at EXCEPT ![c] = x],
           x \in InBuffer <=> at[c] \in InBuffer, buffer' = buffer
    PROVE  Gathered' = Gathered
<1>1. \A d \in Callers : at'[d] \in InBuffer <=> at[d] \in InBuffer
    BY Moves
<1> QED
    BY <1>1 DEF Gathered

\* A call that is alone goes on, in order.
LEMMA OrderGoesOn ==
    ASSUME LogTypeOK, NEW c \in Callers, NEW x, at' = [at EXCEPT ![c] = x],
           ~ overlapped' => \A d \in Callers \ {c} : ~ Busy(d),
           ~ overlapped' /\ Busy(c)' => Stage(c)',
           ~ overlapped' /\ ~ Busy(c)' => Settled',
           ~ overlapped' => \A i \in 1 .. Len(console') : console'[i].nulls = Len(console'[i].text)
    PROVE  OneBusy' /\ InOrder'
<1>1. ~ overlapped' => \A d \in Callers \ {c} : ~ Busy(d)'
    BY Moves
<1> QED
    BY <1>1 DEF OneBusy, InOrder

\* The timer that looks, and one that has nothing to do, are in nobody's way.
LEMMA OrderKeeps ==
    ASSUME LogTypeOK, OneBusy, InOrder, NEW c \in Callers, NEW x, at' = [at EXCEPT ![c] = x],
           ~ Busy(c), ~ Busy(c)', overlapped' = overlapped,
           UNCHANGED << doTimer, queue, length, buffer, local, console, history >>
    PROVE  OneBusy' /\ InOrder'
<1>1. \A d \in Callers : Busy(d)' <=> Busy(d)
    BY Moves
<1>2. \A d \in Callers : Busy(d) => at'[d] = at[d]
    BY Moves
<1>3. OneBusy'
    BY <1>1 DEF OneBusy
<1>4. ~ overlapped => (Settled' <=> Settled)
    BY DEF Settled, history
<1>5. \A d \in Callers : Busy(d) /\ Stage(d) => Stage(d)'
    BY <1>2 DEF Stage, local, history
<1> QED
    BY <1>1, <1>3, <1>4, <1>5 DEF InOrder

\* A call that goes on is the only one that goes on, as long as none overlap.
LEMMA NoOtherIsBusy ==
    ASSUME OneBusy, NEW c \in Callers, Busy(c)
    PROVE  ~ overlapped => \A d \in Callers \ {c} : ~ Busy(d)
BY DEF OneBusy

\* Whatever leaves the entries and the calls alone.
LEMMA LogUntouched ==
    ASSUME LogIInv,
           UNCHANGED << doTimer, queue, length, buffer, at, local, console, parts, enqueued, shown,
                        races >>
    PROVE  Numbered' /\ NextIsNew' /\ Held' /\ Conserved' /\ Separate' /\ OneBusy' /\ InOrder'
<1>1. Gathered' = Gathered
    BY DEF Gathered
<1>2. Conserved' /\ Separate'
    BY <1>1, PlacesKeep DEF LogIInv, local, races
<1>3. Numbered' /\ NextIsNew' /\ Held'
    BY DEF LogIInv, Numbered, NextIsNew, Held, PartsOf, Once, local, races
<1>4. OneBusy'
    BY DEF LogIInv, OneBusy, Busy, races
<1>5. InOrder'
    <2>1. \A d \in Callers : (Busy(d)' <=> Busy(d)) /\ (Stage(d)' <=> Stage(d))
        BY DEF Busy, Stage, local
    <2>2. Settled' <=> Settled
        BY DEF Settled
    <2> QED
        BY <2>1, <2>2 DEF LogIInv, InOrder, races
<1> QED
    BY <1>2, <1>3, <1>4, <1>5

-----------------------------------------------------------------------------
(* The flags *)

LEMMA LogInitInv == LogInit => LogIInv
<1> SUFFICES ASSUME LogInit PROVE LogIInv
    OBVIOUS
<1>1. PartsOf(<< >>) = {} /\ Once(<< >>)
    BY PartsOfEmpty
<1>2. /\ << >> \in Seq(Parts) /\ << >> \in Seq(Texts)
      /\ << >> \in Seq(PartCounts) /\ << >> \in Seq(Levels)
    OBVIOUS
<1>3. Empty \in Texts /\ Empty.text = << >>
    BY <1>2 DEF Empty, Texts
<1>4. LogTypeOK
    <2>1. {doTimer, due, overlapped, met} \subseteq BOOLEAN
        BY Zenon DEF LogInit
    <2>2. text \in [Callers -> Texts] /\ buffer \in Texts
        BY <1>3 DEF LogInit
    <2>3. at \in [Callers -> Calling \cup {"idle"}]
        BY DEF LogInit
    <2>4. /\ entry \in [Threads -> 0 .. MaxEntries] /\ next \in [Threads -> Nat \ {0}]
          /\ seen \in [Threads -> Nat] /\ servers \in 0 .. MaxServers
          /\ Len(parts) + Len(dropped) <= MaxEntries
        BY <1>2, BoundsAreNatural DEF LogInit
    <2> QED
        BY <1>2, <2>1, <2>2, <2>3, <2>4 DEF LogInit, LogTypeOK
<1>5. \A c \in Callers : at[c] = "idle" /\ text[c] = Empty
    BY DEF LogInit
<1>6. Numbered /\ NextIsNew /\ Held
    <2>1. "timer" \in Callers /\ Threads \subseteq Callers
        BY DEF Callers
    <2> QED
        BY <1>1, <1>5, <2>1, TimerIsNoWriter
           DEF LogInit, Numbered, NextIsNew, Held, Entering, InBuffer
<1>7. Gathered = << >>
    BY <1>5 DEF Gathered, InBuffer
<1>8. Conserved /\ Separate
    <2>1. \A c \in Callers : PartsOf(text[c].text) = {} /\ Once(text[c].text)
        BY <1>1, <1>3, <1>5
    <2>2. /\ PartsOf(queue) = {} /\ PartsOf(Gathered) = {} /\ PartsOf(shown) = {}
          /\ PartsOf(enqueued) = {} /\ Once(queue) /\ Once(Gathered) /\ Once(shown)
        BY <1>1, <1>7 DEF LogInit
    <2> QED
        BY <2>1, <2>2 DEF Conserved, Separate
<1>9. OneBusy /\ InOrder
    <2>1. \A c \in Callers : ~ Busy(c)
        BY <1>5 DEF Busy, Calling
    <2>2. Settled
        BY DEF LogInit, Settled
    <2>3. Len(console) = 0
        BY DEF LogInit
    <2> QED
        BY <2>1, <2>2, <2>3 DEF OneBusy, InOrder
<1>10. LevelsAreOn
    BY DEF LogInit, LevelsAreOn
<1> QED
    BY <1>4, <1>6, <1>8, <1>9, <1>10 DEF LogIInv

\* A server sets the flags, and those of all levels before it has set the last.
LEMMA FlagsStep ==
    ASSUME LogIInv, \/ ClearFlags \/ SetOption("Info", "Warn") \/ SetOption("Warn", "Error")
                 \/ SetError
    PROVE  LogIInv'
<1>1. LogTypeOK /\ LevelsAreOn
    BY DEF LogIInv
<1>2. /\ UNCHANGED << doTimer, due, queue, length, buffer, at, local, console, parts, enqueued,
                      shown, dropped, races >>
    BY DEF ClearFlags, SetOption, SetError, timer, history
<1>3. Numbered' /\ NextIsNew' /\ Held' /\ Conserved' /\ Separate' /\ OneBusy' /\ InOrder'
    BY <1>2, LogUntouched
<1>4. \A l : Bits(l) \subseteq {1, 2} \/ l \notin Levels
    BY DEF Bits, Levels
<1>5. /\ flags' \subseteq {1, 2, 4} /\ servers' \in 0 .. MaxServers
      /\ setting' \in Levels \cup {"no"}
    <2>1. CASE ClearFlags
        BY <1>1, <2>1 DEF ClearFlags, LogTypeOK, Levels
    <2>2. CASE SetOption("Info", "Warn") \/ SetOption("Warn", "Error")
        BY <1>1, <1>4, <2>2 DEF SetOption, LogTypeOK, Levels
    <2>3. CASE SetError
        <3>1. servers' \in 0 .. MaxServers
            BY <1>1, <2>3, BoundsAreNatural DEF SetError, LogTypeOK, LevelsAreOn
        <3> QED
            BY <1>1, <1>4, <2>3, <3>1 DEF SetError, LogTypeOK, Levels
    <2> QED
        BY <2>1, <2>2, <2>3
<1>6. LogTypeOK'
    BY <1>1, <1>2, <1>5 DEF LogTypeOK, local, races
<1>7. LevelsAreOn'
    <2>1. CASE SetError
        BY <2>1 DEF SetError, LevelsAreOn, Bits
    <2>2. CASE ~ SetError
        BY <1>1, <2>2 DEF ClearFlags, SetOption, LevelsAreOn
    <2> QED
        BY <2>1, <2>2
<1> QED
    BY <1>3, <1>6, <1>7 DEF LogIInv

-----------------------------------------------------------------------------
(* Logging an entry *)

\* An entry that is dropped leaves the log as it is.
LEMMA DropStep ==
    ASSUME LogIInv, NEW t \in Threads, Drop(t)
    PROVE  LogIInv'
<1>1. LogTypeOK /\ LevelsAreOn /\ Numbered
    BY DEF LogIInv
<1>2. UNCHANGED << doTimer, due, flags, servers, setting, queue, length, buffer, at, local,
                   console, parts, enqueued, shown, races >>
    BY DEF Drop, timer, startup
<1>3. Numbered' /\ NextIsNew' /\ Held' /\ Conserved' /\ Separate' /\ OneBusy' /\ InOrder'
    BY <1>2, LogUntouched
<1>4. dropped' \in Seq(Levels) /\ Len(parts) + Len(dropped') <= MaxEntries
    <2>1. PICK level \in Levels : dropped' = Append(dropped, level)
        BY DEF Drop
    <2>2. dropped' \in Seq(Levels) /\ Len(dropped') = Len(dropped) + 1
        BY <1>1, <2>1 DEF LogTypeOK
    <2> QED
        BY <1>1, <2>2, Types, BoundsAreNatural DEF Drop, MayLog
<1>5. LogTypeOK'
    BY <1>1, <1>2, <1>4 DEF LogTypeOK, local, races
<1>6. LevelsAreOn'
    BY <1>1, <1>2 DEF LevelsAreOn
<1> QED
    BY <1>3, <1>5, <1>6 DEF LogIInv

\* Parts are numbered by their entry and their place in it.
LEMMA PartsAreNumbered ==
    /\ \A s \in Seq(Parts) : PartsOf(s) \subseteq Parts
    /\ \A p \in Parts : p[1] \in Nat /\ p[2] \in Nat
<1>1. \A s \in Seq(Parts) : PartsOf(s) \subseteq Parts
    BY DEF PartsOf
<1>2. UNION {1 .. n : n \in PartCounts} \subseteq Nat
    BY EntriesHaveParts
<1>3. \A p \in Parts : p[1] \in Nat /\ p[2] \in Nat
    <2> SUFFICES ASSUME NEW e \in 1 .. MaxEntries, NEW i \in UNION {1 .. n : n \in PartCounts}
                 PROVE  << e, i >>[1] \in Nat /\ << e, i >>[2] \in Nat
        BY DEF Parts
    <2> QED
        BY <1>2
<1> QED
    BY <1>1, <1>3

\* A new entry is the thread's own.
LEMMA LogStep ==
    ASSUME LogIInv, NEW t \in Threads, Log(t)
    PROVE  LogIInv'
<1>1. /\ LogTypeOK /\ Numbered /\ NextIsNew /\ Held /\ Conserved /\ Separate /\ OneBusy /\ InOrder
      /\ LevelsAreOn
    BY DEF LogIInv
<1>2. /\ t \in Callers /\ t # "timer" /\ "timer" \in Callers
      /\ at[t] = "idle" /\ ~ met /\ Len(parts) + Len(dropped) < MaxEntries
      /\ at' = [at EXCEPT ![t] = "enqueue"]
      /\ entry' = [entry EXCEPT ![t] = Len(parts) + 1] /\ next' = [next EXCEPT ![t] = 1]
      /\ overlapped' = (overlapped \/ OthersBusy(t))
      /\ UNCHANGED << doTimer, due, flags, servers, setting, queue, length, buffer, seen, text,
                      console, enqueued, shown, dropped, met >>
    BY TimerIsNoWriter DEF Log, MayLog, IsAt, Callers, timer, startup
<1>3. PICK n \in PartCounts : parts' = Append(parts, n)
    BY DEF Log
<1>4. /\ Len(parts) \in Nat /\ Len(dropped) \in Nat /\ n \in Nat \ {0}
      /\ parts' \in Seq(PartCounts) /\ Len(parts') = Len(parts) + 1
      /\ \A i \in 1 .. Len(parts) : parts'[i] = parts[i]
      /\ parts'[Len(parts) + 1] = n
    BY <1>1, <1>3, Types, EntriesHaveParts DEF LogTypeOK
<1>5. /\ at'[t] = "enqueue" /\ at' \in [Callers -> Calling \cup {"idle"}]
      /\ \A d \in Callers \ {t} : at'[d] = at[d]
    BY <1>1, <1>2, Moves DEF Calling
<1>6. /\ entry'[t] = Len(parts) + 1 /\ next'[t] = 1
      /\ \A u \in Threads \ {t} : entry'[u] = entry[u] /\ next'[u] = next[u]
    BY <1>1, <1>2 DEF LogTypeOK
<1>7. LogTypeOK'
    <2>1. {doTimer', due', overlapped', met'} \subseteq BOOLEAN
        BY <1>1, <1>2, Zenon DEF LogTypeOK, OthersBusy
    <2>2. Len(parts') + Len(dropped') <= MaxEntries
        BY <1>2, <1>4, BoundsAreNatural
    <2>3. entry' \in [Threads -> 0 .. MaxEntries] /\ next' \in [Threads -> Nat \ {0}]
        <3>1. Len(parts) + 1 \in 0 .. MaxEntries
            BY <1>2, <1>4, BoundsAreNatural
        <3> QED
            BY <1>1, <1>2, <3>1 DEF LogTypeOK
    <2> QED
        BY <1>1, <1>2, <1>4, <1>5, <2>1, <2>2, <2>3 DEF LogTypeOK
<1>8. Numbered'
    <2>0. \A u \in Threads : entry[u] \in Nat /\ entry[u] <= Len(parts)
        BY <1>1, BoundsAreNatural DEF Numbered, LogTypeOK
    <2>1. \A u \in Threads : entry'[u] <= Len(parts')
        BY <1>4, <1>6, <2>0
    <2>2. \A u, v \in Threads : entry'[u] = entry'[v] /\ entry'[u] # 0 => u = v
        BY <1>1, <1>4, <1>6, <2>0 DEF Numbered
    <2>3. \A u \in Threads : at'[u] \in Entering => entry'[u] # 0
        BY <1>1, <1>2, <1>4, <1>5, <1>6 DEF Numbered, Callers
    <2>4. ASSUME NEW u \in Threads, at'[u] = "enqueue" PROVE next'[u] <= parts'[entry'[u]]
        <3>1. CASE u = t
            BY <1>4, <1>6, <3>1
        <3>2. CASE u # t
            <4>1. at[u] = "enqueue" /\ entry[u] \in 1 .. Len(parts)
                BY <1>1, <1>5, <2>4, <3>2, Types DEF Callers, Entering
            <4> QED
                BY <1>1, <1>4, <1>6, <3>2, <4>1 DEF Numbered
        <3> QED
            BY <3>1, <3>2
    <2>5. at'["timer"] \notin Entering
        BY <1>1, <1>2, <1>5 DEF Numbered
    <2> QED
        BY <2>1, <2>2, <2>3, <2>4, <2>5 DEF Numbered
<1>9. NextIsNew'
    <2>1. \A p \in PartsOf(enqueued) : p[1] \in Nat /\ p[2] \in Nat /\ p[1] <= Len(parts)
        BY <1>1, PartsAreNumbered, Types DEF NextIsNew
    <2>2. \A p \in PartsOf(enqueued) : p[1] <= Len(parts') /\ p[1] # Len(parts) + 1
        BY <1>4, <2>1
    <2>3. \A u \in Threads : at'[u] = "enqueue" =>
             \A p \in PartsOf(enqueued) : p[1] = entry'[u] => p[2] < next'[u]
        BY <1>1, <1>5, <1>6, <2>2 DEF NextIsNew, Callers
    <2>4. PartsOf(enqueued)' = PartsOf(enqueued) /\ Once(enqueued)'
        BY <1>1, <1>2 DEF PartsOf, Once, NextIsNew
    <2> QED
        BY <2>2, <2>3, <2>4 DEF NextIsNew
<1>10. Held'
    BY <1>1, <1>2, <1>5 DEF Held, InBuffer
<1>11. Conserved' /\ Separate'
    <2>1. Gathered' = Gathered
        BY <1>1, <1>2, GatheredKeeps DEF InBuffer
    <2> QED
        BY <1>1, <1>2, <2>1, PlacesKeep
<1>12. OneBusy' /\ InOrder'
    <2>1. ~ Busy(t) /\ t # "timer"
        BY <1>2 DEF Busy, Calling
    <2>2. ~ overlapped' => \A d \in Callers \ {t} : ~ Busy(d)
        BY <1>2 DEF OthersBusy
    <2>3. ~ overlapped' => Settled
        BY <1>1, <1>2, <2>1, <2>2 DEF InOrder
    <2>4. Busy(t)'
        BY <1>5, <2>1 DEF Busy, Calling
    <2>5. ~ overlapped' => Stage(t)'
        <3> SUFFICES ASSUME Settled PROVE Stage(t)'
            BY <2>3
        <3>1. shown' \o queue' = enqueued'
            BY <1>2 DEF Settled
        <3>2. Len(queue') = length' + next'[t] - 1
            BY <1>1, <1>2, <1>6 DEF Settled, LogTypeOK
        <3> QED
            BY <1>5, <3>1, <3>2 DEF Stage
    <2>6. ~ overlapped' =>
             \A i \in 1 .. Len(console') : console'[i].nulls = Len(console'[i].text)
        BY <1>1, <1>2 DEF InOrder
    <2> QED
        BY <1>1, <1>2, <2>2, <2>4, <2>5, <2>6, OrderGoesOn
<1>13. LevelsAreOn'
    BY <1>1, <1>2 DEF LevelsAreOn
<1> QED
    BY <1>7, <1>8, <1>9, <1>10, <1>11, <1>12, <1>13 DEF LogIInv

\* A part goes into the queue.
LEMMA EnqueueStep ==
    ASSUME LogIInv, NEW t \in Threads, Enqueue(t)
    PROVE  LogIInv'
<1>1. /\ LogTypeOK /\ Numbered /\ NextIsNew /\ Held /\ Conserved /\ Separate /\ OneBusy /\ InOrder
      /\ LevelsAreOn
    BY DEF LogIInv
<1> DEFINE part == << entry[t], next[t] >>
           place == IF next[t] = parts[entry[t]] THEN "count" ELSE "enqueue"
<1>2. /\ t \in Callers /\ t # "timer" /\ "timer" \in Callers
      /\ at[t] = "enqueue" /\ ~ met
      /\ queue' = Append(queue, part) /\ enqueued' = Append(enqueued, part)
      /\ next' = [next EXCEPT ![t] = next[t] + 1]
      /\ at' = [at EXCEPT ![t] = place]
      /\ met' = (met \/ Others(InQueue, t))
      /\ UNCHANGED << doTimer, due, flags, servers, setting, length, buffer, entry, seen, text,
                      console, parts, shown, dropped, overlapped >>
    BY TimerIsNoWriter DEF Enqueue, IsAt, Callers, timer, startup
<1>3. /\ Len(parts) \in Nat /\ entry[t] \in 1 .. Len(parts)
      /\ parts[entry[t]] \in PartCounts /\ parts[entry[t]] \in Nat \ {0}
      /\ queue \in Seq(Parts) /\ enqueued \in Seq(Parts) /\ shown \in Seq(Parts)
      /\ Len(queue) \in Nat /\ length \in Nat
    BY <1>1, <1>2, Types DEF Entering, LogTypeOK
<1>4. /\ next[t] \in Nat \ {0} /\ next[t] <= parts[entry[t]]
    BY <1>1, <1>2 DEF LogTypeOK, Numbered
<1>5. part \in Parts
    <2>1. entry[t] \in 1 .. MaxEntries
        BY <1>1, <1>3 DEF LogTypeOK
    <2>2. next[t] \in 1 .. parts[entry[t]]
        BY <1>3, <1>4
    <2> QED
        BY <1>3, <2>1, <2>2 DEF Parts
<1>6. part \notin PartsOf(enqueued)
    <2>1. ASSUME part \in PartsOf(enqueued) PROVE next[t] < next[t]
        BY <1>1, <1>2, <2>1 DEF NextIsNew
    <2> QED
        BY <1>4, <2>1
<1>7. /\ queue' \in Seq(Parts) /\ enqueued' \in Seq(Parts) /\ Len(queue') = Len(queue) + 1
      /\ PartsOf(queue') = PartsOf(queue) \cup {part}
      /\ PartsOf(enqueued') = PartsOf(enqueued) \cup {part}
      /\ Once(queue) /\ part \notin PartsOf(queue) => Once(queue')
      /\ Once(enqueued')
    <2>1. /\ queue' \in Seq(Parts) /\ Len(queue') = Len(queue) + 1
          /\ PartsOf(queue') = PartsOf(queue) \cup {part}
          /\ Once(queue) /\ part \notin PartsOf(queue) => Once(queue')
        BY <1>2, <1>3, <1>5, PartsOfAppend
    <2>2. /\ enqueued' \in Seq(Parts)
          /\ PartsOf(enqueued') = PartsOf(enqueued) \cup {part}
          /\ Once(enqueued) /\ part \notin PartsOf(enqueued) => Once(enqueued')
        BY <1>2, <1>3, <1>5, PartsOfAppend
    <2> QED
        BY <1>1, <1>6, <2>1, <2>2 DEF NextIsNew
<1>8. /\ place \in {"enqueue", "count"} /\ at'[t] = place
      /\ at' \in [Callers -> Calling \cup {"idle"}]
      /\ \A d \in Callers \ {t} : at'[d] = at[d]
    BY <1>1, <1>2, Moves DEF Calling
<1>9. /\ next'[t] = next[t] + 1
      /\ \A u \in Threads \ {t} : next'[u] = next[u]
      /\ next' \in [Threads -> Nat \ {0}]
    BY <1>1, <1>2, <1>4 DEF LogTypeOK
<1>10. LogTypeOK'
    <2>1. {doTimer', due', overlapped', met'} \subseteq BOOLEAN
        BY <1>1, <1>2, Zenon DEF LogTypeOK, Others
    <2> QED
        BY <1>1, <1>2, <1>7, <1>8, <1>9, <2>1 DEF LogTypeOK
<1>11. Numbered'
    <2>1. at'[t] = "enqueue" => next'[t] <= parts'[entry'[t]]
        BY <1>2, <1>3, <1>4, <1>8, <1>9
    <2> QED
        BY <1>1, <1>2, <1>8, <1>9, <2>1 DEF Numbered, Entering, Callers
<1>12. NextIsNew'
    <2>1. \A p \in PartsOf(enqueued) : p[1] \in Nat /\ p[2] \in Nat
        BY <1>3, PartsAreNumbered
    <2>2. \A p \in PartsOf(enqueued') : p[1] <= Len(parts)
        BY <1>1, <1>3, <1>7 DEF NextIsNew
    <2>3. ASSUME NEW u \in Threads, at'[u] = "enqueue", NEW p \in PartsOf(enqueued'),
                 p[1] = entry[u]
          PROVE  p[2] < next'[u]
        <3>1. CASE u = t
            <4>1. p = part \/ (p \in PartsOf(enqueued) /\ p[2] < next[t])
                BY <1>1, <1>2, <1>7, <2>3, <3>1 DEF NextIsNew
            <4> QED
                BY <1>4, <1>9, <2>1, <3>1, <4>1
        <3>2. CASE u # t
            <4>1. at[u] = "enqueue" /\ next'[u] = next[u] /\ entry[u] # entry[t]
                BY <1>1, <1>2, <1>3, <1>8, <1>9, <2>3, <3>2 DEF Numbered, Callers
            <4>2. p \in PartsOf(enqueued)
                BY <1>7, <2>3, <4>1
            <4> QED
                BY <1>1, <2>3, <4>1, <4>2 DEF NextIsNew
        <3> QED
            BY <3>1, <3>2
    <2> QED
        BY <1>2, <1>7, <2>2, <2>3 DEF NextIsNew, PartsOf, Once
<1>13. Held'
    <2>1. at'[t] \notin InBuffer /\ at'[t] # "write"
        BY <1>8 DEF InBuffer
    <2> QED
        BY <1>1, <1>2, <1>8, <2>1 DEF Held, InBuffer
<1>14. Gathered' = Gathered
    <2>1. at[t] \notin InBuffer /\ place \notin InBuffer
        BY <1>2, <1>8 DEF InBuffer
    <2> QED
        BY <1>1, <1>2, <2>1, GatheredKeeps
<1>15. Conserved'
    <2> SUFFICES ASSUME ~ met' PROVE Conserved'
        BY DEF Conserved
    <2>1. \A p \in PartsOf(enqueued') :
            \/ p \in PartsOf(queue') \/ p \in PartsOf(Gathered') \/ p \in PartsOf(shown')
            \/ \E c \in Callers : p \in PartsOf(text'[c].text)
        BY <1>1, <1>2, <1>7, <1>14 DEF Conserved
    <2>2. /\ PartsOf(queue') \cup PartsOf(Gathered') \cup PartsOf(shown') \subseteq PartsOf(enqueued')
          /\ \A c \in Callers : PartsOf(text'[c].text) \subseteq PartsOf(enqueued')
        BY <1>1, <1>2, <1>7, <1>14 DEF Conserved
    <2> QED
        BY <2>1, <2>2 DEF Conserved, PartsOf
<1>16. Separate'
    <2> SUFFICES ASSUME ~ met' PROVE Separate'
        BY DEF Separate
    <2>1. /\ part \notin PartsOf(queue) /\ part \notin PartsOf(Gathered) /\ part \notin PartsOf(shown)
          /\ \A c \in Callers : part \notin PartsOf(text[c].text)
        BY <1>1, <1>2, <1>6 DEF Conserved
    <2>2. /\ Once(queue') /\ Once(Gathered') /\ Once(shown')
          /\ PartsOf(queue') \cap PartsOf(Gathered') = {}
          /\ PartsOf(queue') \cap PartsOf(shown') = {}
          /\ PartsOf(Gathered') \cap PartsOf(shown') = {}
        BY <1>1, <1>2, <1>7, <1>14, <2>1 DEF Separate
    <2>3. \A c \in Callers :
            /\ Once(text'[c].text)
            /\ PartsOf(text'[c].text) \cap PartsOf(queue') = {}
            /\ PartsOf(text'[c].text) \cap PartsOf(Gathered') = {}
            /\ PartsOf(text'[c].text) \cap PartsOf(shown') = {}
            /\ \A d \in Callers \ {c} : PartsOf(text'[c].text) \cap PartsOf(text'[d].text) = {}
        BY <1>1, <1>2, <1>7, <1>14, <2>1 DEF Separate
    <2> QED
        BY <2>2, <2>3 DEF Separate, PartsOf, Once
<1>17. OneBusy' /\ InOrder'
    <2>1. Busy(t)
        BY <1>2 DEF Busy, Calling
    <2>2. ~ overlapped' => \A d \in Callers \ {t} : ~ Busy(d)
        BY <1>1, <1>2, <2>1, NoOtherIsBusy
    <2>3. ~ overlapped' => Stage(t)'
        <3> SUFFICES ASSUME ~ overlapped PROVE Stage(t)'
            BY <1>2
        <3>1. shown \o queue = enqueued /\ Len(queue) = length + next[t] - 1
            BY <1>1, <1>2, <2>1 DEF InOrder, Stage
        <3>2. shown' \o queue' = enqueued'
            <4>1. shown \o Append(queue, part) = Append(shown \o queue, part)
                BY <1>3, <1>5, ConcatThenAppend
            <4> QED
                BY <1>2, <3>1, <4>1
        <3>3. Len(queue') = length + next'[t] - 1 /\ Len(queue') = length + next[t]
            <4>1. /\ Len(queue') = Len(queue) + 1 /\ Len(queue) \in Nat /\ length \in Nat
                  /\ next[t] \in Nat /\ next'[t] = next[t] + 1
                BY <1>3, <1>4, <1>7, <1>9
            <4> QED
                BY <3>1, <4>1
        <3>4. Len(queue') = length' + next'[t] - 1
            BY <1>2, <3>3
        <3>5. at'[t] = "count" => Len(queue') = length' + parts'[entry'[t]]
            BY <1>2, <1>8, <3>3
        <3> QED
            BY <1>8, <3>2, <3>4, <3>5 DEF Stage
    <2>4. ~ overlapped' =>
             \A i \in 1 .. Len(console') : console'[i].nulls = Len(console'[i].text)
        BY <1>1, <1>2 DEF InOrder
    <2>5. Busy(t)'
        BY <1>2, <1>8 DEF Busy, Calling
    <2> QED
        BY <1>1, <1>2, <2>2, <2>3, <2>4, <2>5, OrderGoesOn
<1>18. LevelsAreOn'
    BY <1>1, <1>2 DEF LevelsAreOn
<1> QED
    BY <1>10, <1>11, <1>12, <1>13, <1>15, <1>16, <1>17, <1>18 DEF LogIInv

\* A call that does not begin to enqueue leaves the entries as they are.
LEMMA EntriesKeep ==
    ASSUME LogTypeOK, Numbered, NextIsNew, NEW c \in Callers, NEW x,
           at' = [at EXCEPT ![c] = x], x \in Entering => at[c] \in Entering, x # "enqueue",
           UNCHANGED << entry, next, parts, enqueued >>
    PROVE  Numbered' /\ NextIsNew'
<1>1. /\ at'[c] = x /\ at'[c] # "enqueue" /\ (at'[c] \in Entering => at[c] \in Entering)
      /\ \A d \in Callers \ {c} : at'[d] = at[d]
    BY Moves
<1>2. "timer" \in Callers /\ Threads \subseteq Callers
    BY DEF Callers
<1>3. \A d \in Callers : /\ at'[d] \in Entering => at[d] \in Entering
                         /\ at'[d] = "enqueue" => at[d] = "enqueue"
    BY <1>1
<1>4. Numbered'
    BY <1>2, <1>3 DEF Numbered
<1>5. NextIsNew'
    BY <1>2, <1>3 DEF NextIsNew, PartsOf, Once
<1> QED
    BY <1>4, <1>5

\* The length is read.
LEMMA CountStep ==
    ASSUME LogIInv, NEW t \in Threads, Count(t)
    PROVE  LogIInv'
<1>1. /\ LogTypeOK /\ Numbered /\ NextIsNew /\ Held /\ Conserved /\ Separate /\ OneBusy /\ InOrder
      /\ LevelsAreOn
    BY DEF LogIInv
<1>2. /\ t \in Callers /\ t # "timer" /\ at[t] = "count"
      /\ seen' = [seen EXCEPT ![t] = length] /\ at' = [at EXCEPT ![t] = "add"]
      /\ UNCHANGED << doTimer, due, flags, servers, setting, queue, length, buffer, entry, next,
                      text, console, parts, enqueued, shown, dropped, overlapped, met >>
    BY TimerIsNoWriter DEF Count, IsAt, Callers, timer, startup, history, races
<1>3. /\ at'[t] = "add" /\ at' \in [Callers -> Calling \cup {"idle"}]
      /\ \A d \in Callers \ {t} : at'[d] = at[d]
    BY <1>1, <1>2, Moves DEF Calling
<1>4. seen'[t] = length /\ seen' \in [Threads -> Nat]
    BY <1>1, <1>2 DEF LogTypeOK
<1>5. LogTypeOK'
    BY <1>1, <1>2, <1>3, <1>4 DEF LogTypeOK
<1>6. Numbered' /\ NextIsNew'
    BY <1>1, <1>2, EntriesKeep DEF Entering
<1>7. Held'
    BY <1>1, <1>2, <1>3 DEF Held, InBuffer
<1>8. Gathered' = Gathered
    BY <1>1, <1>2, GatheredKeeps DEF InBuffer
<1>9. Conserved' /\ Separate'
    BY <1>1, <1>2, <1>8, PlacesKeep
<1>10. OneBusy' /\ InOrder'
    <2>1. Busy(t) /\ Busy(t)'
        BY <1>2, <1>3 DEF Busy, Calling
    <2>2. ~ overlapped' => \A d \in Callers \ {t} : ~ Busy(d)
        BY <1>1, <1>2, <2>1, NoOtherIsBusy
    <2>3. ~ overlapped' => Stage(t)'
        <3> SUFFICES ASSUME ~ overlapped PROVE Stage(t)'
            BY <1>2
        <3>1. shown \o queue = enqueued /\ Len(queue) = length + parts[entry[t]]
            BY <1>1, <1>2, <2>1 DEF InOrder, Stage
        <3> QED
            BY <1>2, <1>3, <1>4, <3>1 DEF Stage
    <2>4. ~ overlapped' =>
             \A i \in 1 .. Len(console') : console'[i].nulls = Len(console'[i].text)
        BY <1>1, <1>2 DEF InOrder
    <2> QED
        BY <1>1, <1>2, <2>1, <2>2, <2>3, <2>4, OrderGoesOn
<1>11. LevelsAreOn'
    BY <1>1, <1>2 DEF LevelsAreOn
<1> QED
    BY <1>5, <1>6, <1>7, <1>9, <1>10, <1>11 DEF LogIInv

\* The length is written.
LEMMA AddStep ==
    ASSUME LogIInv, NEW t \in Threads, Add(t)
    PROVE  LogIInv'
<1>1. /\ LogTypeOK /\ Numbered /\ NextIsNew /\ Held /\ Conserved /\ Separate /\ OneBusy /\ InOrder
      /\ LevelsAreOn
    BY DEF LogIInv
<1> DEFINE place == IF doTimer THEN "idle" ELSE "check"
<1>2. /\ t \in Callers /\ t # "timer" /\ at[t] = "add"
      /\ length' = seen[t] + parts[entry[t]] /\ at' = [at EXCEPT ![t] = place]
      /\ UNCHANGED << doTimer, due, flags, servers, setting, queue, buffer, entry, next, seen,
                      text, console, parts, enqueued, shown, dropped, overlapped, met >>
    BY TimerIsNoWriter DEF Add, IsAt, Callers, LengthOf, timer, startup, local, history, races
<1>3. /\ place \in {"idle", "check"} /\ at'[t] = place
      /\ at' \in [Callers -> Calling \cup {"idle"}]
      /\ \A d \in Callers \ {t} : at'[d] = at[d]
    BY <1>1, <1>2, Moves DEF Calling
<1>4. length' \in Nat
    <2>1. parts[entry[t]] \in Nat
        BY <1>1, <1>2, Types DEF Entering
    <2> QED
        BY <1>1, <1>2, <2>1 DEF LogTypeOK
<1>5. LogTypeOK'
    BY <1>1, <1>2, <1>3, <1>4 DEF LogTypeOK
<1>6. Numbered' /\ NextIsNew'
    <2>1. place \notin Entering /\ place # "enqueue"
        BY <1>3 DEF Entering
    <2> QED
        BY <1>1, <1>2, <2>1, EntriesKeep
<1>7. Held'
    BY <1>1, <1>2, <1>3 DEF Held, InBuffer
<1>8. Gathered' = Gathered
    <2>1. place \notin InBuffer /\ at[t] \notin InBuffer
        BY <1>2, <1>3 DEF InBuffer
    <2> QED
        BY <1>1, <1>2, <2>1, GatheredKeeps
<1>9. Conserved' /\ Separate'
    BY <1>1, <1>2, <1>8, PlacesKeep
<1>10. OneBusy' /\ InOrder'
    <2>1. Busy(t)
        BY <1>2 DEF Busy, Calling
    <2>2. ~ overlapped' => \A d \in Callers \ {t} : ~ Busy(d)
        BY <1>1, <1>2, <2>1, NoOtherIsBusy
    <2>3. ~ overlapped' => shown' \o queue' = enqueued' /\ length' = Len(queue')
        BY <1>1, <1>2, <2>1 DEF InOrder, Stage
    <2>4. ~ overlapped' /\ Busy(t)' => Stage(t)'
        <3>1. Busy(t)' => at'[t] = "check"
            BY <1>3 DEF Busy, Calling
        <3> QED
            BY <2>3, <3>1 DEF Stage
    <2>5. ~ overlapped' /\ ~ Busy(t)' => Settled'
        <3>1. ~ Busy(t)' => doTimer'
            BY <1>2, <1>3 DEF Busy, Calling
        <3> QED
            BY <2>3, <3>1 DEF Settled
    <2>6. ~ overlapped' =>
             \A i \in 1 .. Len(console') : console'[i].nulls = Len(console'[i].text)
        BY <1>1, <1>2 DEF InOrder
    <2> QED
        BY <1>1, <1>2, <2>2, <2>4, <2>5, <2>6, OrderGoesOn
<1>11. LevelsAreOn'
    BY <1>1, <1>2 DEF LevelsAreOn
<1> QED
    BY <1>5, <1>6, <1>7, <1>9, <1>10, <1>11 DEF LogIInv

-----------------------------------------------------------------------------
(* Flush *)

\* The timer's handler begins.
LEMMA TimerHandlerStep ==
    ASSUME LogIInv, TimerHandler
    PROVE  LogIInv'
<1>1. /\ LogTypeOK /\ Numbered /\ NextIsNew /\ Held /\ Conserved /\ Separate /\ OneBusy /\ InOrder
      /\ LevelsAreOn
    BY DEF LogIInv
<1>2. /\ "timer" \in Callers /\ at["timer"] = "idle"
      /\ due' = doTimer /\ at' = [at EXCEPT !["timer"] = "check"]
      /\ UNCHANGED << doTimer, flags, servers, setting, queue, length, buffer, entry, next, seen,
                      text, console, parts, enqueued, shown, dropped, overlapped, met >>
    BY DEF TimerHandler, IsAt, Callers, DueAgain, startup, local, history, races
<1>3. /\ at'["timer"] = "check" /\ at' \in [Callers -> Calling \cup {"idle"}]
      /\ \A d \in Callers \ {"timer"} : at'[d] = at[d]
    BY <1>1, <1>2, Moves DEF Calling
<1>4. LogTypeOK'
    <2>1. {doTimer', due', overlapped', met'} \subseteq BOOLEAN
        BY <1>1, <1>2, Zenon DEF LogTypeOK
    <2> QED
        BY <1>1, <1>2, <1>3, <2>1 DEF LogTypeOK
<1>5. Numbered' /\ NextIsNew'
    BY <1>1, <1>2, EntriesKeep DEF Entering
<1>6. Held'
    BY <1>1, <1>2, <1>3 DEF Held, InBuffer
<1>7. Gathered' = Gathered
    BY <1>1, <1>2, GatheredKeeps DEF InBuffer
<1>8. Conserved' /\ Separate'
    BY <1>1, <1>2, <1>7, PlacesKeep
<1>9. OneBusy' /\ InOrder'
    <2>1. ~ Busy("timer") /\ ~ Busy("timer")'
        BY <1>2, <1>3 DEF Busy, Calling
    <2> QED
        BY <1>1, <1>2, <2>1, OrderKeeps DEF local, history
<1>10. LevelsAreOn'
    BY <1>1, <1>2 DEF LevelsAreOn
<1> QED
    BY <1>4, <1>5, <1>6, <1>8, <1>9, <1>10 DEF LogIInv

\* The length is looked at: there is something to flush, or not.
LEMMA CheckStep ==
    ASSUME LogIInv, NEW c \in Callers, Check(c)
    PROVE  LogIInv'
<1>1. /\ LogTypeOK /\ Numbered /\ NextIsNew /\ Held /\ Conserved /\ Separate /\ OneBusy /\ InOrder
      /\ LevelsAreOn
    BY DEF LogIInv
<1> DEFINE place == IF length < 1 THEN "idle" ELSE "clear"
<1>2. /\ at[c] = "check" /\ at' = [at EXCEPT ![c] = place]
      /\ overlapped' = (overlapped \/ (length > 0 /\ OthersBusy(c)))
      /\ UNCHANGED << doTimer, due, flags, servers, setting, queue, length, buffer, entry, next,
                      seen, text, console, parts, enqueued, shown, dropped, met >>
    BY DEF Check, IsAt, timer, startup, local, history
<1>3. /\ place \in {"idle", "clear"} /\ at'[c] = place
      /\ at' \in [Callers -> Calling \cup {"idle"}]
      /\ \A d \in Callers \ {c} : at'[d] = at[d]
    BY <1>1, <1>2, Moves DEF Calling
<1>4. length \in Nat /\ Len(queue) \in Nat /\ queue \in Seq(Parts)
    BY <1>1, Types DEF LogTypeOK
<1>5. LogTypeOK'
    <2>1. {doTimer', due', overlapped', met'} \subseteq BOOLEAN
        BY <1>1, <1>2, Zenon DEF LogTypeOK, OthersBusy
    <2> QED
        BY <1>1, <1>2, <1>3, <2>1 DEF LogTypeOK
<1>6. Numbered' /\ NextIsNew'
    <2>1. place \notin Entering /\ place # "enqueue"
        BY <1>3 DEF Entering
    <2> QED
        BY <1>1, <1>2, <2>1, EntriesKeep
<1>7. Held'
    BY <1>1, <1>2, <1>3 DEF Held, InBuffer
<1>8. Gathered' = Gathered
    <2>1. place \notin InBuffer /\ at[c] \notin InBuffer
        BY <1>2, <1>3 DEF InBuffer
    <2> QED
        BY <1>1, <1>2, <2>1, GatheredKeeps
<1>9. Conserved' /\ Separate'
    BY <1>1, <1>2, <1>8, PlacesKeep
<1>10. OneBusy' /\ InOrder'
    <2>1. CASE c = "timer" /\ length < 1
        <3>1. ~ Busy(c) /\ ~ Busy(c)' /\ overlapped' = overlapped
            BY <1>1, <1>2, <1>3, <1>4, <2>1 DEF Busy, Calling, LogTypeOK
        <3> QED
            BY <1>1, <1>2, <3>1, OrderKeeps DEF local, history
    <2>2. CASE c # "timer" \/ length > 0
        <3>1. ~ overlapped' => \A d \in Callers \ {c} : ~ Busy(d)
            <4>1. CASE c # "timer"
                <5>1. Busy(c)
                    BY <1>2, <4>1 DEF Busy, Calling
                <5> QED
                    BY <1>1, <1>2, <5>1, NoOtherIsBusy
            <4>2. CASE length > 0
                BY <1>2, <4>2 DEF OthersBusy
            <4> QED
                BY <2>2, <4>1, <4>2
        <3>2. ~ overlapped' => shown \o queue = enqueued /\ length = Len(queue)
            <4>1. CASE Busy(c)
                BY <1>1, <1>2, <4>1 DEF InOrder, Stage
            <4>2. CASE ~ Busy(c)
                BY <1>1, <1>2, <3>1, <4>2 DEF InOrder, Settled
            <4> QED
                BY <4>1, <4>2
        <3>3. ~ overlapped' /\ Busy(c)' => Stage(c)'
            <4>1. Busy(c)' => at'[c] = "clear"
                BY <1>3 DEF Busy, Calling
            <4> QED
                BY <1>2, <3>2, <4>1 DEF Stage
        <3>4. ~ overlapped' /\ ~ Busy(c)' => Settled'
            <4>1. ~ Busy(c)' => length < 1
                BY <1>3 DEF Busy, Calling
            <4>2. length < 1 /\ length = Len(queue) => queue = << >>
                BY <1>4
            <4> QED
                BY <1>2, <3>2, <4>1, <4>2 DEF Settled
        <3>5. ~ overlapped' =>
                 \A i \in 1 .. Len(console') : console'[i].nulls = Len(console'[i].text)
            BY <1>1, <1>2 DEF InOrder
        <3> QED
            BY <1>1, <1>2, <3>1, <3>3, <3>4, <3>5, OrderGoesOn
    <2> QED
        BY <1>4, <2>1, <2>2
<1>11. LevelsAreOn'
    BY <1>1, <1>2 DEF LevelsAreOn
<1> QED
    BY <1>5, <1>6, <1>7, <1>9, <1>10, <1>11 DEF LogIInv

\* The buffer is emptied and given its length.
LEMMA ClearStep ==
    ASSUME LogIInv, NEW c \in Callers, Clear(c)
    PROVE  LogIInv'
<1>1. /\ LogTypeOK /\ Numbered /\ NextIsNew /\ Held /\ Conserved /\ Separate /\ OneBusy /\ InOrder
      /\ LevelsAreOn
    BY DEF LogIInv
<1>2. /\ at[c] = "clear" /\ ~ met /\ at' = [at EXCEPT ![c] = "drain"]
      /\ buffer' = [nulls |-> length, text |-> << >>]
      /\ met' = (met \/ Others(InBuffer, c))
      /\ UNCHANGED << doTimer, due, flags, servers, setting, queue, length, entry, next, seen,
                      text, console, parts, enqueued, shown, dropped, overlapped >>
    BY DEF Clear, Cleared, IsAt, timer, startup, local, history
<1>3. /\ at'[c] = "drain" /\ at' \in [Callers -> Calling \cup {"idle"}]
      /\ \A d \in Callers \ {c} : at'[d] = at[d]
    BY <1>1, <1>2, Moves DEF Calling
<1>4. /\ length \in Nat /\ Len(queue) \in Nat /\ queue \in Seq(Parts) /\ shown \in Seq(Parts)
      /\ buffer'.text = << >> /\ buffer'.nulls = length
    BY <1>1, <1>2, Types DEF LogTypeOK
<1>5. LogTypeOK'
    <2>1. {doTimer', due', overlapped', met'} \subseteq BOOLEAN
        BY <1>1, <1>2, Zenon DEF LogTypeOK, Others
    <2>2. buffer' \in Texts
        BY <1>2, <1>4 DEF Texts
    <2> QED
        BY <1>1, <1>2, <1>3, <2>1, <2>2 DEF LogTypeOK
<1>6. Numbered' /\ NextIsNew'
    BY <1>1, <1>2, EntriesKeep DEF Entering
<1>7. ~ met' => \A d \in Callers : at[d] \notin InBuffer
    BY <1>2 DEF Others, InBuffer
<1>8. Held'
    BY <1>1, <1>2, <1>3, <1>7 DEF Held
<1>9. ~ met' => Gathered' = Gathered
    <2>1. ~ met' => Gathered = << >>
        BY <1>7 DEF Gathered
    <2>2. Gathered' = << >>
        BY <1>4 DEF Gathered
    <2> QED
        BY <2>1, <2>2
<1>10. Conserved' /\ Separate'
    BY <1>1, <1>2, <1>9, PlacesKeep
<1>11. OneBusy' /\ InOrder'
    <2>1. Busy(c) /\ Busy(c)'
        BY <1>2, <1>3 DEF Busy, Calling
    <2>2. ~ overlapped' => \A d \in Callers \ {c} : ~ Busy(d)
        BY <1>1, <1>2, <2>1, NoOtherIsBusy
    <2>3. ~ overlapped' => Stage(c)'
        <3> SUFFICES ASSUME ~ overlapped PROVE Stage(c)'
            BY <1>2
        <3>1. shown \o queue = enqueued /\ length = Len(queue)
            BY <1>1, <1>2, <2>1 DEF InOrder, Stage
        <3>2. shown \o << >> = shown
            BY <1>4, ConcatEmptySeq
        <3>3. (shown' \o buffer'.text) \o queue' = enqueued'
            BY <1>2, <1>4, <3>1, <3>2
        <3>4. buffer'.nulls = Len(buffer'.text) + Len(queue')
            BY <1>2, <1>4, <3>1
        <3> QED
            BY <1>3, <3>3, <3>4 DEF Stage
    <2>4. ~ overlapped' =>
             \A i \in 1 .. Len(console') : console'[i].nulls = Len(console'[i].text)
        BY <1>1, <1>2 DEF InOrder
    <2> QED
        BY <1>1, <1>2, <2>1, <2>2, <2>3, <2>4, OrderGoesOn
<1>12. LevelsAreOn'
    BY <1>1, <1>2 DEF LevelsAreOn
<1> QED
    BY <1>5, <1>6, <1>8, <1>10, <1>11, <1>12 DEF LogIInv

\* The queue is found empty.
LEMMA DrainEndsStep ==
    ASSUME LogIInv, NEW c \in Callers, Drain(c), queue = << >>
    PROVE  LogIInv'
<1>1. /\ LogTypeOK /\ Numbered /\ NextIsNew /\ Held /\ Conserved /\ Separate /\ OneBusy /\ InOrder
      /\ LevelsAreOn
    BY DEF LogIInv
<1>2. /\ at[c] = "drain" /\ ~ met /\ at' = [at EXCEPT ![c] = "reset"]
      /\ met' = (met \/ Others(InQueue, c))
      /\ UNCHANGED << doTimer, due, flags, servers, setting, queue, buffer, length, entry, next,
                      seen, text, console, parts, enqueued, shown, dropped, overlapped >>
    BY DEF Drain, IsAt, timer, startup, local, history
<1>3. /\ at'[c] = "reset" /\ at' \in [Callers -> Calling \cup {"idle"}]
      /\ \A d \in Callers \ {c} : at'[d] = at[d]
    BY <1>1, <1>2, Moves DEF Calling
<1>4. /\ shown \in Seq(Parts) /\ buffer.text \in Seq(Parts) /\ Len(buffer.text) \in Nat
    BY <1>1, Types
<1>5. LogTypeOK'
    <2>1. {doTimer', due', overlapped', met'} \subseteq BOOLEAN
        BY <1>1, <1>2, Zenon DEF LogTypeOK, Others
    <2> QED
        BY <1>1, <1>2, <1>3, <2>1 DEF LogTypeOK
<1>6. Numbered' /\ NextIsNew'
    BY <1>1, <1>2, EntriesKeep DEF Entering
<1>7. Held'
    BY <1>1, <1>2, <1>3 DEF Held, InBuffer
<1>8. Gathered' = Gathered
    BY <1>1, <1>2, GatheredKeeps DEF InBuffer
<1>9. Conserved' /\ Separate'
    BY <1>1, <1>2, <1>8, PlacesKeep
<1>10. OneBusy' /\ InOrder'
    <2>1. Busy(c) /\ Busy(c)'
        BY <1>2, <1>3 DEF Busy, Calling
    <2>2. ~ overlapped' => \A d \in Callers \ {c} : ~ Busy(d)
        BY <1>1, <1>2, <2>1, NoOtherIsBusy
    <2>3. ~ overlapped' => Stage(c)'
        <3> SUFFICES ASSUME ~ overlapped PROVE Stage(c)'
            BY <1>2
        <3>1. /\ (shown \o buffer.text) \o queue = enqueued
              /\ buffer.nulls = Len(buffer.text) + Len(queue)
            BY <1>1, <1>2, <2>1 DEF InOrder, Stage
        <3>2. (shown \o buffer.text) \o << >> = shown \o buffer.text
            BY <1>4, ConcatEmptySeq, PartsOfConcat
        <3>3. shown \o buffer.text = enqueued /\ buffer.nulls = Len(buffer.text)
            BY <1>4, <3>1, <3>2
        <3> QED
            BY <1>2, <1>3, <3>3 DEF Stage
    <2>4. ~ overlapped' =>
             \A i \in 1 .. Len(console') : console'[i].nulls = Len(console'[i].text)
        BY <1>1, <1>2 DEF InOrder
    <2> QED
        BY <1>1, <1>2, <2>1, <2>2, <2>3, <2>4, OrderGoesOn
<1>11. LevelsAreOn'
    BY <1>1, <1>2 DEF LevelsAreOn
<1> QED
    BY <1>5, <1>6, <1>7, <1>9, <1>10, <1>11 DEF LogIInv

\* A part is taken from the queue and put into the buffer.
LEMMA DrainGoesOnStep ==
    ASSUME LogIInv, NEW c \in Callers, Drain(c), queue # << >>
    PROVE  LogIInv'
<1>1. /\ LogTypeOK /\ Numbered /\ NextIsNew /\ Held /\ Conserved /\ Separate /\ OneBusy /\ InOrder
      /\ LevelsAreOn
    BY DEF LogIInv
<1> DEFINE part == Head(queue)
<1>2. /\ at[c] = "drain" /\ ~ met /\ at' = at /\ queue' = Tail(queue)
      /\ buffer' = [buffer EXCEPT !.text = Append(buffer.text, part)]
      /\ met' = (met \/ Others(InQueue, c))
      /\ UNCHANGED << doTimer, due, flags, servers, setting, length, entry, next,
                      seen, text, console, parts, enqueued, shown, dropped, overlapped >>
    BY DEF Drain, IsAt, timer, startup, local, history
<1>3. /\ queue \in Seq(Parts) /\ shown \in Seq(Parts) /\ buffer.text \in Seq(Parts)
      /\ Len(buffer.text) \in Nat /\ buffer.nulls \in Nat /\ Len(queue) \in Nat
    BY <1>1, Types
<1>4. /\ part \in Parts /\ queue' \in Seq(Parts) /\ Len(queue) = Len(queue') + 1
      /\ PartsOf(queue) = {part} \cup PartsOf(queue')
      /\ Once(queue) => Once(queue') /\ part \notin PartsOf(queue')
      /\ \A r \in Seq(Parts) : Append(r, part) \o queue' = r \o queue
    BY <1>2, <1>3, PartsOfTail
<1>5. buffer'.text = Append(buffer.text, part) /\ buffer'.nulls = buffer.nulls /\ buffer' \in Texts
    <2>1. Append(buffer.text, part) \in Seq(Parts)
        BY <1>3, <1>4
    <2> QED
        BY <1>1, <1>2, <2>1 DEF LogTypeOK, Texts
<1>6. /\ Len(buffer'.text) = Len(buffer.text) + 1
      /\ PartsOf(buffer'.text) = PartsOf(buffer.text) \cup {part}
      /\ Once(buffer.text) /\ part \notin PartsOf(buffer.text) => Once(buffer'.text)
    BY <1>3, <1>4, <1>5, PartsOfAppend
<1>7. at' = [at EXCEPT ![c] = "drain"]
    BY <1>1, <1>2 DEF LogTypeOK
<1>8. LogTypeOK'
    <2>1. {doTimer', due', overlapped', met'} \subseteq BOOLEAN
        BY <1>1, <1>2, Zenon DEF LogTypeOK, Others
    <2> QED
        BY <1>1, <1>2, <1>4, <1>5, <2>1 DEF LogTypeOK
<1>9. Numbered' /\ NextIsNew'
    BY <1>1, <1>2, <1>7, EntriesKeep DEF Entering
<1>10. Held'
    BY <1>1, <1>2 DEF Held
<1>11. Gathered = buffer.text /\ Gathered' = buffer'.text
    BY <1>2 DEF Gathered, InBuffer
<1>12. Conserved'
    <2> SUFFICES ASSUME ~ met' PROVE Conserved'
        BY DEF Conserved
    <2>1. \A p \in PartsOf(enqueued') :
            \/ p \in PartsOf(queue') \/ p \in PartsOf(Gathered') \/ p \in PartsOf(shown')
            \/ \E d \in Callers : p \in PartsOf(text'[d].text)
        BY <1>1, <1>2, <1>4, <1>6, <1>11 DEF Conserved
    <2>2. /\ PartsOf(queue') \cup PartsOf(Gathered') \cup PartsOf(shown') \subseteq PartsOf(enqueued')
          /\ \A d \in Callers : PartsOf(text'[d].text) \subseteq PartsOf(enqueued')
        BY <1>1, <1>2, <1>4, <1>6, <1>11 DEF Conserved
    <2> QED
        BY <2>1, <2>2 DEF Conserved, PartsOf
<1>13. Separate'
    <2> SUFFICES ASSUME ~ met' PROVE Separate'
        BY DEF Separate
    <2>1. /\ part \notin PartsOf(queue') /\ part \notin PartsOf(Gathered) /\ part \notin PartsOf(shown)
          /\ \A d \in Callers : part \notin PartsOf(text[d].text)
        BY <1>1, <1>2, <1>4 DEF Separate
    <2>2. /\ Once(queue') /\ Once(Gathered') /\ Once(shown')
          /\ PartsOf(queue') \cap PartsOf(Gathered') = {}
          /\ PartsOf(queue') \cap PartsOf(shown') = {}
          /\ PartsOf(Gathered') \cap PartsOf(shown') = {}
        BY <1>1, <1>2, <1>4, <1>6, <1>11, <2>1 DEF Separate
    <2>3. \A d \in Callers :
            /\ Once(text'[d].text)
            /\ PartsOf(text'[d].text) \cap PartsOf(queue') = {}
            /\ PartsOf(text'[d].text) \cap PartsOf(Gathered') = {}
            /\ PartsOf(text'[d].text) \cap PartsOf(shown') = {}
            /\ \A e \in Callers \ {d} : PartsOf(text'[d].text) \cap PartsOf(text'[e].text) = {}
        BY <1>1, <1>2, <1>4, <1>6, <1>11, <2>1 DEF Separate
    <2> QED
        BY <2>2, <2>3 DEF Separate, PartsOf, Once
<1>14. OneBusy' /\ InOrder'
    <2>1. Busy(c) /\ Busy(c)'
        BY <1>2 DEF Busy, Calling
    <2>2. ~ overlapped' => \A d \in Callers \ {c} : ~ Busy(d)
        BY <1>1, <1>2, <2>1, NoOtherIsBusy
    <2>3. ~ overlapped' => Stage(c)'
        <3> SUFFICES ASSUME ~ overlapped PROVE Stage(c)'
            BY <1>2
        <3>1. /\ (shown \o buffer.text) \o queue = enqueued
              /\ buffer.nulls = Len(buffer.text) + Len(queue)
            BY <1>1, <1>2, <2>1 DEF InOrder, Stage
        <3>2. (shown \o Append(buffer.text, part)) \o queue' = enqueued
            <4> HIDE DEF part
            <4>1. shown \o Append(buffer.text, part) = Append(shown \o buffer.text, part)
                <5>1. \A s, r \in Seq(Parts), e \in Parts : s \o Append(r, e) = Append(s \o r, e)
                    BY ConcatThenAppend
                <5> QED
                    BY <1>3, <1>4, <5>1, Zenon
            <4>2. shown \o buffer.text \in Seq(Parts)
                BY <1>3, PartsOfConcat
            <4> QED
                BY <1>4, <3>1, <4>1, <4>2
        <3>3. (shown' \o buffer'.text) \o queue' = enqueued'
            BY <1>2, <1>5, <3>2
        <3>4. buffer'.nulls = Len(buffer'.text) + Len(queue')
            <4>1. /\ Len(queue') \in Nat /\ Len(queue) = Len(queue') + 1
                  /\ Len(buffer'.text) = Len(buffer.text) + 1 /\ Len(buffer.text) \in Nat
                BY <1>3, <1>4, <1>6
            <4>2. buffer'.nulls = Len(buffer.text) + Len(queue)
                BY <1>5, <3>1
            <4>3. \A a, b \in Nat : a + (b + 1) = (a + 1) + b
                OBVIOUS
            <4>4. Len(buffer.text) + (Len(queue') + 1) = (Len(buffer.text) + 1) + Len(queue')
                BY <4>1, <4>3
            <4> QED
                BY <1>2, <4>1, <4>2, <4>4, Zenon
        <3> QED
            BY <1>2, <3>3, <3>4 DEF Stage
    <2>4. ~ overlapped' =>
             \A i \in 1 .. Len(console') : console'[i].nulls = Len(console'[i].text)
        BY <1>1, <1>2 DEF InOrder
    <2> QED
        BY <1>1, <1>2, <1>7, <2>1, <2>2, <2>3, <2>4, OrderGoesOn
<1>15. LevelsAreOn'
    BY <1>1, <1>2 DEF LevelsAreOn
<1> QED
    BY <1>8, <1>9, <1>10, <1>12, <1>13, <1>14, <1>15 DEF LogIInv

\* The length is set to zero.
LEMMA ResetLengthStep ==
    ASSUME LogIInv, NEW c \in Callers, Reset(c)
    PROVE  LogIInv'
<1>1. /\ LogTypeOK /\ Numbered /\ NextIsNew /\ Held /\ Conserved /\ Separate /\ OneBusy /\ InOrder
      /\ LevelsAreOn
    BY DEF LogIInv
<1>2. /\ at[c] = "reset" /\ at' = [at EXCEPT ![c] = "copy"] /\ length' = 0
      /\ UNCHANGED << doTimer, due, flags, servers, setting, queue, buffer, entry, next, seen,
                      text, console, parts, enqueued, shown, dropped, overlapped, met >>
    BY DEF Reset, LengthAfterFlush, IsAt, timer, startup, local, history, races
<1>3. /\ at'[c] = "copy" /\ at' \in [Callers -> Calling \cup {"idle"}]
      /\ \A d \in Callers \ {c} : at'[d] = at[d]
    BY <1>1, <1>2, Moves DEF Calling
<1>4. LogTypeOK'
    BY <1>1, <1>2, <1>3 DEF LogTypeOK
<1>5. Numbered' /\ NextIsNew'
    BY <1>1, <1>2, EntriesKeep DEF Entering
<1>6. Held'
    BY <1>1, <1>2, <1>3 DEF Held, InBuffer
<1>7. Gathered' = Gathered
    BY <1>1, <1>2, GatheredKeeps DEF InBuffer
<1>8. Conserved' /\ Separate'
    BY <1>1, <1>2, <1>7, PlacesKeep
<1>9. OneBusy' /\ InOrder'
    <2>1. Busy(c) /\ Busy(c)'
        BY <1>2, <1>3 DEF Busy, Calling
    <2>2. ~ overlapped' => \A d \in Callers \ {c} : ~ Busy(d)
        BY <1>1, <1>2, <2>1, NoOtherIsBusy
    <2>3. ~ overlapped' => Stage(c)'
        <3> SUFFICES ASSUME ~ overlapped PROVE Stage(c)'
            BY <1>2
        <3>1. /\ queue = << >> /\ shown \o buffer.text = enqueued
              /\ buffer.nulls = Len(buffer.text)
            BY <1>1, <1>2, <2>1 DEF InOrder, Stage
        <3> QED
            BY <1>2, <1>3, <3>1 DEF Stage
    <2>4. ~ overlapped' =>
             \A i \in 1 .. Len(console') : console'[i].nulls = Len(console'[i].text)
        BY <1>1, <1>2 DEF InOrder
    <2> QED
        BY <1>1, <1>2, <2>1, <2>2, <2>3, <2>4, OrderGoesOn
<1>10. LevelsAreOn'
    BY <1>1, <1>2 DEF LevelsAreOn
<1> QED
    BY <1>4, <1>5, <1>6, <1>8, <1>9, <1>10 DEF LogIInv

\* The buffer becomes a text.
LEMMA CopyStep ==
    ASSUME LogIInv, NEW c \in Callers, Copy(c)
    PROVE  LogIInv'
<1>1. /\ LogTypeOK /\ Numbered /\ NextIsNew /\ Held /\ Conserved /\ Separate /\ OneBusy /\ InOrder
      /\ LevelsAreOn
    BY DEF LogIInv
<1>2. /\ at[c] = "copy" /\ ~ met /\ at' = [at EXCEPT ![c] = "write"]
      /\ text' = [text EXCEPT ![c] = buffer]
      /\ UNCHANGED << doTimer, due, flags, servers, setting, queue, length, buffer, entry, next,
                      seen, console, parts, enqueued, shown, dropped, overlapped, met >>
    BY DEF Copy, IsAt, timer, startup, history, races
<1>3. /\ at'[c] = "write" /\ at' \in [Callers -> Calling \cup {"idle"}]
      /\ \A d \in Callers \ {c} : at'[d] = at[d]
    BY <1>1, <1>2, Moves DEF Calling
<1>4. /\ text'[c] = buffer /\ text' \in [Callers -> Texts]
      /\ \A d \in Callers \ {c} : text'[d] = text[d]
    BY <1>1, <1>2 DEF LogTypeOK
<1>5. LogTypeOK'
    BY <1>1, <1>2, <1>3, <1>4 DEF LogTypeOK
<1>6. Numbered' /\ NextIsNew'
    BY <1>1, <1>2, EntriesKeep DEF Entering
<1>7. Held'
    BY <1>1, <1>2, <1>3, <1>4 DEF Held, InBuffer
<1>8. /\ Gathered = buffer.text /\ Gathered' = << >>
      /\ PartsOf(Gathered') = {} /\ Once(Gathered')
    <2>1. \A d \in Callers : at'[d] \notin InBuffer
        BY <1>1, <1>2, <1>3 DEF Held, InBuffer
    <2>2. Gathered = buffer.text
        BY <1>2 DEF Gathered, InBuffer
    <2>3. Gathered' = << >>
        BY <2>1 DEF Gathered
    <2> QED
        BY <2>2, <2>3, PartsOfEmpty
<1>9. PartsOf(text[c].text) = {}
    <2>1. text[c].text = << >>
        BY <1>1, <1>2 DEF Held, Empty
    <2> QED
        BY <2>1, PartsOfEmpty
<1>10. PartsOf(text'[c].text) = PartsOf(Gathered)
    BY <1>4, <1>8
<1>11. Conserved'
    <2>1. \A p \in PartsOf(enqueued') :
            \/ p \in PartsOf(queue') \/ p \in PartsOf(Gathered') \/ p \in PartsOf(shown')
            \/ \E d \in Callers : p \in PartsOf(text'[d].text)
        <3> SUFFICES ASSUME NEW p \in PartsOf(enqueued), p \notin PartsOf(queue),
                            p \notin PartsOf(shown)
                     PROVE  \E d \in Callers : p \in PartsOf(text'[d].text)
            BY <1>2
        <3>1. CASE p \in PartsOf(Gathered)
            BY <1>10, <3>1
        <3>2. CASE \E d \in Callers : p \in PartsOf(text[d].text)
            <4>1. PICK d \in Callers \ {c} : p \in PartsOf(text[d].text)
                BY <1>9, <3>2
            <4> QED
                BY <1>4, <4>1
        <3> QED
            BY <1>1, <1>2, <3>1, <3>2 DEF Conserved
    <2>2. PartsOf(queue') \cup PartsOf(Gathered') \cup PartsOf(shown') \subseteq PartsOf(enqueued')
        BY <1>1, <1>2, <1>8 DEF Conserved
    <2>3. \A d \in Callers : PartsOf(text'[d].text) \subseteq PartsOf(enqueued')
        <3> SUFFICES ASSUME NEW d \in Callers PROVE PartsOf(text'[d].text) \subseteq PartsOf(enqueued)
            BY <1>2
        <3>1. CASE d = c
            BY <1>1, <1>2, <1>10, <3>1 DEF Conserved
        <3>2. CASE d # c
            BY <1>1, <1>2, <1>4, <3>2 DEF Conserved
        <3> QED
            BY <3>1, <3>2
    <2> QED
        BY <2>1, <2>2, <2>3 DEF Conserved, PartsOf
<1>12. Separate'
    <2>1. /\ Once(queue) /\ Once(Gathered) /\ Once(shown)
          /\ PartsOf(queue) \cap PartsOf(Gathered) = {}
          /\ PartsOf(queue) \cap PartsOf(shown) = {}
          /\ PartsOf(Gathered) \cap PartsOf(shown) = {}
          /\ \A d \in Callers :
                /\ Once(text[d].text)
                /\ PartsOf(text[d].text) \cap PartsOf(queue) = {}
                /\ PartsOf(text[d].text) \cap PartsOf(Gathered) = {}
                /\ PartsOf(text[d].text) \cap PartsOf(shown) = {}
                /\ \A e \in Callers \ {d} : PartsOf(text[d].text) \cap PartsOf(text[e].text) = {}
        BY <1>1, <1>2 DEF Separate
    <2>2. /\ Once(queue') /\ Once(Gathered') /\ Once(shown')
          /\ PartsOf(queue') \cap PartsOf(Gathered') = {}
          /\ PartsOf(queue') \cap PartsOf(shown') = {}
          /\ PartsOf(Gathered') \cap PartsOf(shown') = {}
        BY <1>2, <1>8, <2>1
    <2>3. ASSUME NEW d \in Callers
          PROVE  /\ Once(text'[d].text)
                 /\ PartsOf(text'[d].text) \cap PartsOf(queue') = {}
                 /\ PartsOf(text'[d].text) \cap PartsOf(Gathered') = {}
                 /\ PartsOf(text'[d].text) \cap PartsOf(shown') = {}
                 /\ \A e \in Callers \ {d} : PartsOf(text'[d].text) \cap PartsOf(text'[e].text) = {}
        <3>1. CASE d = c
            <4>1. Once(text'[c].text)
                BY <1>4, <1>8, <2>1
            <4>2. \A e \in Callers \ {c} : PartsOf(text'[c].text) \cap PartsOf(text'[e].text) = {}
                BY <1>4, <1>10, <2>1
            <4> QED
                BY <1>2, <1>8, <1>10, <2>1, <3>1, <4>1, <4>2
        <3>2. CASE d # c
            <4>1. text'[d] = text[d]
                BY <1>4, <3>2
            <4>2. PartsOf(text'[d].text) \cap PartsOf(text'[c].text) = {}
                BY <1>10, <2>1, <4>1
            <4>3. \A e \in Callers \ {c, d} : PartsOf(text'[d].text) \cap PartsOf(text'[e].text) = {}
                BY <1>4, <2>1, <4>1
            <4> QED
                BY <1>2, <1>8, <2>1, <4>1, <4>2, <4>3
        <3> QED
            BY <3>1, <3>2
    <2> QED
        BY <2>2, <2>3 DEF Separate, PartsOf, Once
<1>13. OneBusy' /\ InOrder'
    <2>1. Busy(c) /\ Busy(c)'
        BY <1>2, <1>3 DEF Busy, Calling
    <2>2. ~ overlapped' => \A d \in Callers \ {c} : ~ Busy(d)
        BY <1>1, <1>2, <2>1, NoOtherIsBusy
    <2>3. ~ overlapped' => Stage(c)'
        <3> SUFFICES ASSUME ~ overlapped PROVE Stage(c)'
            BY <1>2
        <3>1. /\ queue = << >> /\ length = 0 /\ shown \o buffer.text = enqueued
              /\ buffer.nulls = Len(buffer.text)
            BY <1>1, <1>2, <2>1 DEF InOrder, Stage
        <3> QED
            BY <1>2, <1>3, <1>4, <3>1 DEF Stage
    <2>4. ~ overlapped' =>
             \A i \in 1 .. Len(console') : console'[i].nulls = Len(console'[i].text)
        BY <1>1, <1>2 DEF InOrder
    <2> QED
        BY <1>1, <1>2, <2>1, <2>2, <2>3, <2>4, OrderGoesOn
<1>14. LevelsAreOn'
    BY <1>1, <1>2 DEF LevelsAreOn
<1> QED
    BY <1>5, <1>6, <1>7, <1>11, <1>12, <1>13, <1>14 DEF LogIInv

\* The console takes the text.
LEMMA WriteStep ==
    ASSUME LogIInv, NEW c \in Callers, Write(c)
    PROVE  LogIInv'
<1>1. /\ LogTypeOK /\ Numbered /\ NextIsNew /\ Held /\ Conserved /\ Separate /\ OneBusy /\ InOrder
      /\ LevelsAreOn
    BY DEF LogIInv
<1>2. /\ at[c] = "write" /\ ~ met /\ at' = [at EXCEPT ![c] = "idle"]
      /\ text' = [text EXCEPT ![c] = Empty]
      /\ console' = Append(console, text[c]) /\ shown' = shown \o text[c].text
      /\ UNCHANGED << doTimer, due, flags, servers, setting, queue, length, buffer, entry, next,
                      seen, parts, enqueued, dropped, overlapped, met >>
    BY DEF Write, IsAt, timer, startup, races
<1>3. /\ at'[c] = "idle" /\ at' \in [Callers -> Calling \cup {"idle"}]
      /\ \A d \in Callers \ {c} : at'[d] = at[d]
    BY <1>1, <1>2, Moves DEF Calling
<1>4. /\ text[c] \in Texts /\ text[c].text \in Seq(Parts) /\ shown \in Seq(Parts)
      /\ console \in Seq(Texts)
    BY <1>1, Types DEF LogTypeOK
<1>5. /\ shown' \in Seq(Parts)
      /\ PartsOf(shown') = PartsOf(shown) \cup PartsOf(text[c].text)
      /\ Once(shown) /\ Once(text[c].text) /\ PartsOf(shown) \cap PartsOf(text[c].text) = {}
            => Once(shown')
    BY <1>2, <1>4, PartsOfConcat
<1>6. /\ text'[c] = Empty /\ text' \in [Callers -> Texts]
      /\ \A d \in Callers \ {c} : text'[d] = text[d]
    <2>1. Empty \in Texts
        BY DEF Empty, Texts
    <2> QED
        BY <1>1, <1>2, <2>1 DEF LogTypeOK
<1>7. PartsOf(text'[c].text) = {} /\ Once(text'[c].text)
    BY <1>6, PartsOfEmpty DEF Empty
<1>8. LogTypeOK'
    <2>1. console' \in Seq(Texts)
        BY <1>2, <1>4
    <2> QED
        BY <1>1, <1>2, <1>3, <1>5, <1>6, <2>1 DEF LogTypeOK
<1>9. Numbered' /\ NextIsNew'
    BY <1>1, <1>2, EntriesKeep DEF Entering
<1>10. Held'
    BY <1>1, <1>2, <1>3, <1>6 DEF Held, InBuffer
<1>11. Gathered' = Gathered
    BY <1>1, <1>2, GatheredKeeps DEF InBuffer
<1>12. Conserved'
    <2>1. \A p \in PartsOf(enqueued') :
            \/ p \in PartsOf(queue') \/ p \in PartsOf(Gathered') \/ p \in PartsOf(shown')
            \/ \E d \in Callers : p \in PartsOf(text'[d].text)
        <3> SUFFICES ASSUME NEW p \in PartsOf(enqueued), p \notin PartsOf(queue),
                            p \notin PartsOf(Gathered), p \notin PartsOf(shown')
                     PROVE  \E d \in Callers : p \in PartsOf(text'[d].text)
            BY <1>2, <1>11
        <3>1. PICK d \in Callers : p \in PartsOf(text[d].text)
            BY <1>1, <1>2, <1>5 DEF Conserved
        <3>2. d # c
            BY <1>5, <3>1
        <3> QED
            BY <1>6, <3>1, <3>2
    <2>2. PartsOf(queue') \cup PartsOf(Gathered') \cup PartsOf(shown') \subseteq PartsOf(enqueued')
        BY <1>1, <1>2, <1>5, <1>11 DEF Conserved
    <2>3. \A d \in Callers : PartsOf(text'[d].text) \subseteq PartsOf(enqueued')
        <3> SUFFICES ASSUME NEW d \in Callers PROVE PartsOf(text'[d].text) \subseteq PartsOf(enqueued)
            BY <1>2
        <3>1. CASE d = c
            BY <1>7, <3>1
        <3>2. CASE d # c
            BY <1>1, <1>2, <1>6, <3>2 DEF Conserved
        <3> QED
            BY <3>1, <3>2
    <2> QED
        BY <2>1, <2>2, <2>3 DEF Conserved, PartsOf
<1>13. Separate'
    <2>1. /\ Once(queue) /\ Once(Gathered) /\ Once(shown)
          /\ PartsOf(queue) \cap PartsOf(Gathered) = {}
          /\ PartsOf(queue) \cap PartsOf(shown) = {}
          /\ PartsOf(Gathered) \cap PartsOf(shown) = {}
          /\ \A d \in Callers :
                /\ Once(text[d].text)
                /\ PartsOf(text[d].text) \cap PartsOf(queue) = {}
                /\ PartsOf(text[d].text) \cap PartsOf(Gathered) = {}
                /\ PartsOf(text[d].text) \cap PartsOf(shown) = {}
                /\ \A e \in Callers \ {d} : PartsOf(text[d].text) \cap PartsOf(text[e].text) = {}
        BY <1>1, <1>2 DEF Separate
    <2>2. /\ Once(queue') /\ Once(Gathered') /\ Once(shown')
          /\ PartsOf(queue') \cap PartsOf(Gathered') = {}
          /\ PartsOf(queue') \cap PartsOf(shown') = {}
          /\ PartsOf(Gathered') \cap PartsOf(shown') = {}
        BY <1>2, <1>5, <1>11, <2>1
    <2>3. ASSUME NEW d \in Callers
          PROVE  /\ Once(text'[d].text)
                 /\ PartsOf(text'[d].text) \cap PartsOf(queue') = {}
                 /\ PartsOf(text'[d].text) \cap PartsOf(Gathered') = {}
                 /\ PartsOf(text'[d].text) \cap PartsOf(shown') = {}
                 /\ \A e \in Callers \ {d} : PartsOf(text'[d].text) \cap PartsOf(text'[e].text) = {}
        <3>1. CASE d = c
            BY <1>7, <3>1
        <3>2. CASE d # c
            <4>1. text'[d] = text[d] /\ PartsOf(text[d].text) \cap PartsOf(text[c].text) = {}
                BY <1>6, <2>1, <3>2
            <4>2. PartsOf(text'[d].text) \cap PartsOf(shown') = {}
                BY <1>5, <2>1, <4>1
            <4>3. \A e \in Callers \ {d} : PartsOf(text'[d].text) \cap PartsOf(text'[e].text) = {}
                BY <1>6, <1>7, <2>1, <4>1
            <4> QED
                BY <1>2, <1>11, <2>1, <4>1, <4>2, <4>3
        <3> QED
            BY <3>1, <3>2
    <2> QED
        BY <2>2, <2>3 DEF Separate, PartsOf, Once
<1>14. OneBusy' /\ InOrder'
    <2>1. Busy(c) /\ ~ Busy(c)'
        BY <1>2, <1>3 DEF Busy, Calling
    <2>2. ~ overlapped' => \A d \in Callers \ {c} : ~ Busy(d)
        BY <1>1, <1>2, <2>1, NoOtherIsBusy
    <2>3. ~ overlapped' => Stage(c)
        BY <1>1, <1>2, <2>1 DEF InOrder
    <2>4. ~ overlapped' => Settled'
        <3> SUFFICES ASSUME ~ overlapped PROVE Settled'
            BY <1>2
        <3>1. /\ queue = << >> /\ length = 0 /\ shown' = enqueued
            BY <1>2, <2>3 DEF Stage
        <3>2. shown' \o << >> = shown'
            BY <1>5, ConcatEmptySeq
        <3> QED
            BY <1>2, <3>1, <3>2 DEF Settled
    <2>5. ~ overlapped' =>
             \A i \in 1 .. Len(console') : console'[i].nulls = Len(console'[i].text)
        <3> SUFFICES ASSUME ~ overlapped, NEW i \in 1 .. Len(console')
                     PROVE  console'[i].nulls = Len(console'[i].text)
            BY <1>2
        <3>1. /\ Len(console') = Len(console) + 1 /\ Len(console) \in Nat
              /\ \A j \in 1 .. Len(console) : console'[j] = console[j]
              /\ console'[Len(console) + 1] = text[c]
            BY <1>2, <1>4
        <3>2. CASE i \in 1 .. Len(console)
            BY <1>1, <3>1, <3>2 DEF InOrder
        <3>3. CASE i = Len(console) + 1
            BY <1>2, <2>3, <3>1, <3>3 DEF Stage
        <3> QED
            BY <3>1, <3>2, <3>3
    <2> QED
        BY <1>1, <1>2, <2>1, <2>2, <2>4, <2>5, OrderGoesOn
<1>15. LevelsAreOn'
    BY <1>1, <1>2 DEF LevelsAreOn
<1> QED
    BY <1>8, <1>9, <1>10, <1>12, <1>13, <1>14, <1>15 DEF LogIInv

-----------------------------------------------------------------------------
(* The theorems *)

LEMMA LogNextInv == LogIInv /\ [LogNext]_logVars => LogIInv'
<1> SUFFICES ASSUME LogIInv, [LogNext]_logVars PROVE LogIInv'
    OBVIOUS
<1>1. CASE ClearFlags \/ SetOption("Info", "Warn") \/ SetOption("Warn", "Error") \/ SetError
    BY <1>1, FlagsStep
<1>2. ASSUME NEW t \in Threads, Drop(t) \/ Log(t) \/ EnqueueEntry(t) PROVE LogIInv'
    BY <1>2, DropStep, LogStep, EnqueueStep, CountStep, AddStep DEF EnqueueEntry
<1>3. ASSUME NEW c \in Callers, Flush(c) PROVE LogIInv'
    BY <1>3, CheckStep, ClearStep, DrainEndsStep, DrainGoesOnStep, ResetLengthStep, CopyStep, WriteStep
       DEF Flush
<1>4. CASE UNCHANGED logVars
    <2>1. UNCHANGED << doTimer, due, flags, servers, setting, queue, length, buffer, at, local,
                       console, parts, enqueued, shown, dropped, races >>
        BY <1>4 DEF logVars, timer, startup, history
    <2>2. Numbered' /\ NextIsNew' /\ Held' /\ Conserved' /\ Separate' /\ OneBusy' /\ InOrder'
        BY <2>1, LogUntouched
    <2>3. LogTypeOK' /\ LevelsAreOn'
        BY <2>1 DEF LogIInv, LogTypeOK, LevelsAreOn, local, races
    <2> QED
        BY <2>2, <2>3 DEF LogIInv
<1> QED
    BY <1>1, <1>2, <1>3, <1>4, TimerHandlerStep DEF LogNext

\* Logger: the variables keep their types.
THEOREM LogTypeCorrect == LogSpec => []LogTypeOK
<1>1. LogIInv => LogTypeOK
    BY DEF LogIInv
<1> QED
    BY <1>1, LogInitInv, LogNextInv, PTL DEF LogSpec

\* Logger.Flush loses no part of an entry and shows none twice, as long as no two threads
\* meet in the queue or in the buffer.
THEOREM PartsAreConserved == LogSpec => []EachPartOnce
<1>1. LogIInv => EachPartOnce
    <2> SUFFICES ASSUME LogIInv, ~ met, NEW i \in 1 .. Len(enqueued)
                 PROVE  \E p \in Places(enqueued[i]) : Places(enqueued[i]) = {p}
        BY DEF EachPartOnce
    <2> DEFINE part == enqueued[i]
    <2>1. Conserved /\ Separate
        BY DEF LogIInv
    <2>2. part \in PartsOf(enqueued)
        BY DEF PartsOf
    <2> HIDE DEF part
    <2>3. \A s : In(part, s) = {} <=> part \notin PartsOf(s)
        BY DEF In, PartsOf
    <2>4. \A s : Once(s) /\ part \in PartsOf(s) => \E j : In(part, s) = {j}
        <3> SUFFICES ASSUME NEW s, Once(s), NEW j \in 1 .. Len(s), part = s[j]
                     PROVE  In(part, s) = {j}
            BY DEF PartsOf
        <3> QED
            BY DEF In, Once
    <2>5. CASE part \in PartsOf(queue)
        <3>1. PICK j : In(part, queue) = {j}
            BY <2>1, <2>4, <2>5 DEF Separate
        <3>2. In(part, Gathered) = {} /\ In(part, shown) = {}
            BY <2>1, <2>3, <2>5 DEF Separate
        <3>3. \A c \in Callers : In(part, text[c].text) = {}
            BY <2>1, <2>3, <2>5 DEF Separate
        <3>4. InTexts(part) = {}
            BY <3>3 DEF InTexts
        <3>5. Places(part) = {<< "queue", j >>}
            BY <3>1, <3>2, <3>4 DEF Places
        <3> QED
            BY <3>5 DEF part
    <2>6. CASE part \in PartsOf(Gathered)
        <3>1. PICK j : In(part, Gathered) = {j}
            BY <2>1, <2>4, <2>6 DEF Separate
        <3>2. In(part, queue) = {} /\ In(part, shown) = {}
            BY <2>1, <2>3, <2>6 DEF Separate
        <3>3. \A c \in Callers : In(part, text[c].text) = {}
            BY <2>1, <2>3, <2>6 DEF Separate
        <3>4. InTexts(part) = {}
            BY <3>3 DEF InTexts
        <3>5. Places(part) = {<< "buffer", j >>}
            BY <3>1, <3>2, <3>4 DEF Places
        <3> QED
            BY <3>5 DEF part
    <2>7. CASE part \in PartsOf(shown)
        <3>1. PICK j : In(part, shown) = {j}
            BY <2>1, <2>4, <2>7 DEF Separate
        <3>2. In(part, queue) = {} /\ In(part, Gathered) = {}
            BY <2>1, <2>3, <2>7 DEF Separate
        <3>3. \A c \in Callers : In(part, text[c].text) = {}
            BY <2>1, <2>3, <2>7 DEF Separate
        <3>4. InTexts(part) = {}
            BY <3>3 DEF InTexts
        <3>5. Places(part) = {<< "console", j >>}
            BY <3>1, <3>2, <3>4 DEF Places
        <3> QED
            BY <3>5 DEF part
    <2>8. CASE \E c \in Callers : part \in PartsOf(text[c].text)
        <3>1. PICK c \in Callers : part \in PartsOf(text[c].text)
            BY <2>8
        <3>2. PICK j : In(part, text[c].text) = {j}
            BY <2>1, <2>4, <3>1 DEF Separate
        <3>3. In(part, queue) = {} /\ In(part, Gathered) = {} /\ In(part, shown) = {}
            BY <2>1, <2>3, <3>1 DEF Separate
        <3>4. \A d \in Callers \ {c} : In(part, text[d].text) = {}
            BY <2>1, <2>3, <3>1 DEF Separate
        <3>5. InTexts(part) = {<< "text", j, c >>}
            <4>1. << "text", j, c >> \in InTexts(part)
                BY <3>2 DEF InTexts
            <4>2. \A d \in Callers : \A k \in In(part, text[d].text) : d = c /\ k = j
                BY <3>2, <3>4
            <4> QED
                BY <4>1, <4>2 DEF InTexts
        <3>6. Places(part) = {<< "text", j, c >>}
            BY <3>3, <3>5 DEF Places
        <3> QED
            BY <3>6 DEF part
    <2> QED
        BY <2>1, <2>2, <2>5, <2>6, <2>7, <2>8 DEF Conserved
<1> QED
    BY <1>1, LogInitInv, LogNextInv, PTL DEF LogSpec

\* Logger shows entries whole and in the order they were enqueued, and CurrentQueueLength
\* counts the rest, as long as no two calls overlap.
THEOREM EntriesAreInOrder == LogSpec => []ShownInOrder
<1>1. LogIInv => ShownInOrder
    BY DEF LogIInv, InOrder, Settled, ShownInOrder
<1> QED
    BY <1>1, LogInitInv, LogNextInv, PTL DEF LogSpec

\* Logger drops no error once a server is up, but while Server.StartAsync sets the flags.
THEOREM ErrorsStay == LogSpec => ErrorsAreKept
<1>1. LogIInv /\ [LogNext]_logVars =>
          [dropped' # dropped /\ dropped'[Len(dropped')] = "Error" =>
              servers = 0 \/ setting # "no"]_logVars
    <2> SUFFICES ASSUME LogIInv, LogNext, dropped' # dropped, servers # 0, setting = "no",
                        dropped'[Len(dropped')] = "Error"
                 PROVE  FALSE
        OBVIOUS
    <2>1. PICK t \in Threads : Drop(t)
        BY DEF LogNext, ClearFlags, SetOption, SetError, Log, EnqueueEntry, Enqueue, Count, Add,
               TimerHandler, Flush, Check, Clear, Drain, Reset, Copy, Write, history
    <2>2. PICK level \in Levels : ~ Passes(level) /\ dropped' = Append(dropped, level)
        BY <2>1 DEF Drop
    <2>3. level = "Error"
        BY <2>2 DEF LogIInv, LogTypeOK
    <2>4. {1, 2} \subseteq flags
        BY DEF LogIInv, LogTypeOK, LevelsAreOn
    <2> QED
        BY <2>2, <2>3, <2>4 DEF Passes, Bits
<1> QED
    BY <1>1, LogInitInv, LogNextInv, PTL DEF LogSpec, ErrorsAreKept
=============================================================================
