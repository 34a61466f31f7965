----------------------------- MODULE LoginClient -----------------------------
(***************************************************************************)
(* A login session.  Its one request is answered by a write whose task is  *)
(* put into SendQueue; SendAsync takes tasks out and awaits them until it  *)
(* finds the queue empty, once, beginning when the receive loop first      *)
(* waits.  From then on the receive loop enqueues on one thread while      *)
(* SendAsync dequeues on another.  AuthClient uses a queue the same way.   *)
(*                                                                         *)
(* Queue is the runtime's: an array, empty at first, with a head, a tail   *)
(* and a size.  Its operations are taken apart where two threads can meet. *)
(***************************************************************************)
EXTENDS Integers, Sequences

CONSTANTS MaxRequests,   \* bound: requests of the client
          TimeoutEnabled \* a client timeout above zero is configured

\* The length of the array once it has grown.
Capacity == 4

ASSUME OneGrowth == MaxRequests \in 1 .. Capacity - 1
ASSUME TimeoutIsSwitch == TimeoutEnabled \in BOOLEAN

VARIABLES
    open,     \* the socket is open
    reset,    \* the peer has reset the connection
    disposed, \* disposedValue
    recv,     \* receive task: "reading", in Enqueue "storing" or "counting",
              \* "clearing" in Dispose, "ended" or "faulted"
    write,    \* the task of each reply: "pending", "written" or "failed"
    array,    \* the tasks in the array, by number; 0 is null
    head, tail, size,
    counted,  \* the size Enqueue has read and will add one to
    send,     \* send task: "none", "looking", in TryDequeue "captured",
              \* "nonempty" or "counting", "awaiting", "ended", or the
              \* exception that ended it: "index", "null" or "failed"
    captured, \* the length of the array TryDequeue has taken hold of
    taken,    \* the task it took
    left,     \* the size TryDequeue has read and will take one from
    awaited,  \* history: the tasks that were awaited
    raced     \* history: two threads were in the queue at once

connection == << open, reset, disposed >>
dequeue == << send, captured, taken, left >>
queue == << array, head, tail, size >>
history == << awaited, raced >>
vars == << connection, recv, write, queue, counted, dequeue, history >>

Requests == Len(write)
Faults == {"index", "null", "failed"}
SendOver == send \in Faults \cup {"ended"}

InEnqueue == recv \in {"storing", "counting", "clearing"}
InDequeue == send \in {"captured", "nonempty", "counting"}

\* Faulty variant: an index that stays.
Step_Stays(i) == i

\* MoveNext: the head and the tail go round the array.
Step(i) == (i + 1) % Capacity

-----------------------------------------------------------------------------
Init ==
    /\ open = TRUE /\ reset = FALSE /\ disposed = FALSE
    /\ recv = "reading"
    /\ write = << >>
    /\ array = << >> /\ head = 0 /\ tail = 0 /\ size = 0
    /\ counted = 0
    /\ send = "none" /\ captured = 0 /\ taken = 0 /\ left = 0
    /\ awaited = << >> /\ raced = FALSE

-----------------------------------------------------------------------------
(* The receive task *)

\* Service answers a RequestQueryLoginServerInfo: Client.SendAsync starts the
\* write, which may complete at once, and Enqueue begins.
Answer ==
    /\ recv = "reading" /\ open /\ ~ reset
    /\ Requests < MaxRequests
    /\ \E state \in {"pending", "written"} : write' = Append(write, state)
    /\ recv' = "storing"
    /\ raced' = (raced \/ InDequeue)
    /\ UNCHANGED << connection, queue, counted, dequeue, awaited >>

\* Enqueue grows the array when it is full, stores the task, and reads _size.
Store ==
    /\ recv = "storing"
    /\ LET grows == size = Len(array)
           a == IF grows THEN [i \in 1 .. Capacity |-> 0] ELSE array
           t == IF grows THEN size ELSE tail
       IN  /\ array' = [a EXCEPT ![t + 1] = Requests]
           /\ head' = IF grows THEN 0 ELSE head
           /\ tail' = Step(t)
    /\ counted' = size
    /\ recv' = "counting"
    /\ UNCHANGED << connection, write, size, dequeue, history >>

Count(n) == n + 1

\* _size is written, and the handler returns to the receive loop.
Enqueued ==
    /\ recv = "counting"
    /\ size' = Count(counted)
    /\ recv' = "reading"
    /\ UNCHANGED << connection, write, array, head, tail, counted, dequeue, history >>

\* Another message, or one that does not parse: Dispose closes the socket.
Refuse ==
    /\ recv = "reading" /\ open /\ ~ reset
    /\ open' = FALSE
    /\ recv' = "clearing"
    /\ raced' = (raced \/ InDequeue)
    /\ UNCHANGED << reset, disposed, write, queue, counted, dequeue, awaited >>

\* Faulty variant: Dispose forgets the queue.
SizeAfterClear_Kept == size

SizeAfterClear == 0

\* Then it clears the queue; back in the receive loop the client is not connected.
ClearQueue ==
    /\ recv = "clearing"
    /\ array' = [i \in DOMAIN array |-> 0]
    /\ head' = 0 /\ tail' = 0 /\ size' = SizeAfterClear
    /\ disposed' = TRUE
    /\ recv' = "ended"
    /\ UNCHANGED << open, reset, write, counted, dequeue, history >>

\* What the framing or the cipher rejects is an exception that nobody catches.
Malformed ==
    /\ recv = "reading" /\ open /\ ~ reset
    /\ recv' = "faulted"
    /\ UNCHANGED << connection, write, queue, counted, dequeue, history >>

\* Faulty variant: the timer leaves the socket open.
Closes_Not == open

\* Client.Close in ReceiveAsync.
Closes == FALSE

\* The cancellation source of the connection fires during a read.
Timeout ==
    /\ TimeoutEnabled
    /\ recv = "reading" /\ open
    /\ open' = Closes
    /\ recv' = "ended"
    /\ UNCHANGED << reset, disposed, write, queue, counted, dequeue, history >>

\* A reset fails the read, unless the loop sees first that it is not connected.
PeerResets ==
    /\ recv = "reading" /\ open /\ ~ reset
    /\ reset' = TRUE
    /\ \/ recv' = "faulted" /\ UNCHANGED open
       \/ recv' = "ended" /\ open' = FALSE
    /\ UNCHANGED << disposed, write, queue, counted, dequeue, history >>

-----------------------------------------------------------------------------
(* The writes *)

WriteCompletes(i) ==
    /\ write[i] = "pending" /\ open /\ ~ reset
    /\ write' = [write EXCEPT ![i] = "written"]
    /\ UNCHANGED << connection, recv, queue, counted, dequeue, history >>

\* A write on a connection that is closed or reset fails.
WriteFails(i) ==
    /\ write[i] = "pending" /\ (~ open \/ reset)
    /\ write' = [write EXCEPT ![i] = "failed"]
    /\ UNCHANGED << connection, recv, queue, counted, dequeue, history >>

-----------------------------------------------------------------------------
(* The send task *)

\* OnAccepted calls SendAsync when the receive loop first waits, or is over.
StartSend ==
    /\ send = "none"
    /\ ~ InEnqueue
    /\ send' = "looking"
    /\ UNCHANGED << connection, recv, write, queue, counted, captured, taken, left,
                    awaited, raced >>

\* TryDequeue takes hold of the array and the head before it reads the size.
Capture ==
    /\ send = "looking"
    /\ send' = "captured"
    /\ captured' = Len(array)
    /\ raced' = (raced \/ InEnqueue)
    /\ UNCHANGED << connection, recv, write, queue, counted, taken, left, awaited >>

\* Faulty variant: nobody asks.
IsEmpty_Unasked == FALSE

IsEmpty == size = 0

Look ==
    /\ send = "captured"
    /\ send' = IF IsEmpty THEN "ended" ELSE "nonempty"
    /\ UNCHANGED << connection, recv, write, queue, counted, captured, taken, left, history >>

\* The task is taken out and the head moves on, and _size is read.
Take ==
    /\ send = "nonempty"
    /\ IF head < captured
         THEN /\ send' = "counting"
              /\ taken' = array[head + 1]
              /\ array' = [array EXCEPT ![head + 1] = 0]
              /\ head' = Step(head)
              /\ left' = size
         ELSE /\ send' = "index"
              /\ UNCHANGED << taken, array, head, left >>
    /\ UNCHANGED << connection, recv, write, tail, size, counted, captured, history >>

\* _size is written, and the task that was taken is awaited, if there is one.
Dequeued ==
    /\ send = "counting"
    /\ size' = left - 1
    /\ IF taken = 0
         THEN send' = "null" /\ UNCHANGED awaited
         ELSE send' = "awaiting" /\ awaited' = Append(awaited, taken)
    /\ UNCHANGED << connection, recv, write, array, head, tail, counted, captured,
                    taken, left, raced >>

\* The exception of a write leaves SendAsync.
Await ==
    /\ send = "awaiting"
    /\ \/ write[taken] = "written" /\ send' = "looking"
       \/ write[taken] = "failed" /\ send' = "failed"
    /\ UNCHANGED << connection, recv, write, queue, counted, captured, taken, left, history >>

-----------------------------------------------------------------------------
ReceiveStep == Store \/ Enqueued \/ ClearQueue
SendStep == Capture \/ Look \/ Take \/ Dequeued \/ Await

Next ==
    \/ Answer \/ Refuse \/ Malformed \/ Timeout \/ PeerResets
    \/ ReceiveStep
    \/ \E i \in 1 .. Requests : WriteCompletes(i) \/ WriteFails(i)
    \/ StartSend
    \/ SendStep

\* Threads run, the timer fires, and a write on a closed socket returns.
Fairness ==
    /\ WF_vars(ReceiveStep)
    /\ WF_vars(SendStep)
    /\ WF_vars(Timeout)
    /\ WF_vars(\E i \in 1 .. Requests : WriteFails(i))

Spec == Init /\ [][Next]_vars /\ Fairness

-----------------------------------------------------------------------------
(* Properties *)

TypeOK ==
    /\ {open, reset, disposed, raced} \subseteq BOOLEAN
    /\ recv \in {"reading", "storing", "counting", "clearing", "ended", "faulted"}
    /\ write \in Seq({"pending", "written", "failed"}) /\ Requests <= MaxRequests
    /\ array \in Seq(0 .. Requests) /\ Len(array) \in {0, Capacity}
    /\ {head, tail} \subseteq 0 .. Capacity - 1
    /\ {size, counted, left} \subseteq -1 .. MaxRequests
    /\ send \in {"none", "looking", "captured", "nonempty", "counting", "awaiting", "ended"}
                  \cup Faults
    /\ captured \in {0, Capacity}
    /\ taken \in 0 .. Requests
    /\ awaited \in Seq(1 .. Requests)

\* Tasks are awaited in the order of the requests, none twice and none left out
\* in between, even when the queue is used by two threads at once.
\* (LoginClient.SendAsync)
AwaitedInOrder == \A i \in 1 .. Len(awaited) : awaited[i] = i

\* Without a race, what the queue says it holds is what was answered and never
\* awaited: it grows by one for each request after SendAsync has ended, and only
\* Dispose empties it.  (LoginClient.SendQueue)
QueueHoldsTheRest ==
    ~ raced /\ ~ InEnqueue /\ send # "counting" =>
        size = IF disposed THEN 0 ELSE Requests - Len(awaited)

\* The send task faults for a write that failed, which only a lost connection
\* makes it do, or because the two threads met in the queue: it took a null, or
\* it held the array the queue had before it grew.  (LoginClient.SendAsync)
SendFaultHasCause ==
    /\ send \in {"index", "null"} => raced
    /\ send = "failed" => write[taken] = "failed" /\ (~ open \/ reset)

\* A send task that was started ends, if there is a timeout: the socket is
\* closed in the end, unless the receive task has faulted.
\* (LoginClient.SendAsync, NetTcpClient.ReceiveAsync)
SendEnds == TimeoutEnabled => [](send # "none" => <>(SendOver \/ recv = "faulted"))
=============================================================================
