------------------------- MODULE LoginClient_proofs -------------------------
(***************************************************************************)
(* Proofs about the queue of a login session, which two threads use.       *)
(***************************************************************************)
EXTENDS LoginClient, SequenceTheorems, TLAPS

\* Requests whose task is in the array or has been there.
Stored == IF recv = "storing" THEN Requests - 1 ELSE Requests

\* How often SendAsync has taken a task out, or the null it found in its place.
Dequeues == Len(awaited) + (IF send \in {"counting", "null"} THEN 1 ELSE 0)

\* The array grows for the first task.  Task i is put into place i, for the tail never
\* comes round, and stays there until the head has passed or Dispose clears the queue.
Places ==
    /\ ~ disposed => /\ tail = Stored
                     /\ Len(array) = IF Stored = 0 THEN 0 ELSE Capacity
    /\ \A i \in 1 .. Len(array) :
           /\ array[i] \in {0, i}
           /\ disposed => array[i] = 0
           /\ ~ disposed /\ send # "null" /\ Dequeues < i /\ i <= Stored => array[i] = i

\* What SendAsync has taken is the next task, or a null.
Taking ==
    /\ Len(awaited) <= Requests
    /\ ~ disposed => head = IF Dequeues = Capacity THEN 0 ELSE Dequeues
    /\ send = "counting" => taken \in {0, Len(awaited) + 1}
    /\ send \in {"awaiting", "failed"} => taken = Len(awaited) /\ taken \in 1 .. Requests
    /\ captured # 0 \/ Dequeues > 0 => Len(array) = Capacity
    /\ send \in {"counting", "awaiting"} => captured # 0

\* How far the sizes that two threads write can be off.
Sizes ==
    /\ size <= Stored
    /\ recv = "counting" => size < Requests /\ counted \in 0 .. Requests - 1
    /\ size < 0 => disposed /\ send = "null"
    /\ left \in 0 .. Requests
    /\ send = "counting" /\ left = 0 => disposed /\ taken = 0
    /\ send = "nonempty" /\ ~ disposed => size > 0

\* Stages of the receive task.
Stages ==
    /\ disposed => recv = "ended"
    /\ recv \in {"storing", "counting"} => Requests > 0

\* As long as the two threads have not met, each finds the queue as it should be.
Undisturbed ==
    ~ raced =>
        /\ ~ (InEnqueue /\ InDequeue)
        /\ size = IF disposed THEN 0
                  ELSE Requests - Len(awaited)
                       - (IF recv \in {"storing", "counting"} THEN 1 ELSE 0)
        /\ recv = "counting" => counted = size
        /\ send \in {"captured", "nonempty"} => captured = Len(array)
        /\ send \in {"nonempty", "counting"} => size > 0
        /\ send = "counting" => left = size /\ taken = Len(awaited) + 1
        /\ send \notin {"index", "null"}

\* Writes fail on lost connections only.
WritesFailForCause ==
    /\ \A i \in 1 .. Requests : write[i] = "failed" => ~ open \/ reset
    /\ send = "failed" => write[taken] = "failed"

IInv ==
    /\ TypeOK
    /\ Places /\ Taking /\ Sizes /\ Stages /\ Undisturbed /\ WritesFailForCause
    /\ AwaitedInOrder
-----------------------------------------------------------------------------
(* Types *)

\* What the types say of the numbers.
LEMMA Ranges ==
    ASSUME TypeOK
    PROVE  /\ Requests \in 0 .. 3 /\ Len(awaited) \in Nat /\ Len(array) \in {0, 4}
           /\ MaxRequests \in 1 .. 3 /\ head \in 0 .. 3 /\ tail \in 0 .. 3
           /\ size \in -1 .. 3 /\ counted \in -1 .. 3 /\ left \in -1 .. 3
<1>1. MaxRequests \in 1 .. 3
    BY OneGrowth DEF Capacity
<1>2. Requests \in Nat /\ Requests <= MaxRequests /\ Len(awaited) \in Nat
    BY DEF TypeOK, Requests
<1>3. head \in 0 .. 3 /\ tail \in 0 .. 3 /\ Len(array) \in {0, 4}
    BY DEF TypeOK, Capacity
<1>4. size \in -1 .. 3 /\ counted \in -1 .. 3 /\ left \in -1 .. 3
    <2>1. size \in -1 .. MaxRequests /\ counted \in -1 .. MaxRequests /\ left \in -1 .. MaxRequests
        BY Zenon DEF TypeOK
    <2> QED
        BY <1>1, <2>1
<1> QED
    BY <1>1, <1>2, <1>3, <1>4

\* Head and tail go round the array.
LEMMA StepIs == \A i \in 0 .. 3 : Step(i) = IF i = 3 THEN 0 ELSE i + 1
<1> SUFFICES ASSUME NEW i \in 0 .. 3 PROVE (i + 1) % 4 = IF i = 3 THEN 0 ELSE i + 1
    BY DEF Step, Capacity
<1> QED
    BY i = 0 \/ i = 1 \/ i = 2 \/ i = 3

LEMMA InitInv == Init => IInv
<1> SUFFICES ASSUME Init PROVE IInv
    OBVIOUS
<1>1. Requests = 0 /\ Len(awaited) = 0 /\ Len(array) = 0
    BY DEF Init, Requests
<1>2. TypeOK
    <2>1. 0 \in -1 .. MaxRequests /\ 0 \in 0 .. Capacity - 1
        BY OneGrowth DEF Capacity
    <2>2. /\ {open, reset, disposed, raced} \subseteq BOOLEAN
          /\ {head, tail} \subseteq 0 .. Capacity - 1
          /\ {size, counted, left} \subseteq -1 .. MaxRequests
        BY <2>1, Zenon DEF Init
    <2>3. \A S : << >> \in Seq(S)
        OBVIOUS
    <2>4. Requests <= MaxRequests /\ taken \in 0 .. Requests
        BY <1>1, OneGrowth DEF Init, Capacity
    <2> QED
        BY <1>1, <2>2, <2>3, <2>4 DEF Init, TypeOK
<1>3. Places /\ Taking /\ Sizes /\ Stages
    BY <1>1 DEF Init, Places, Stored, Dequeues, Taking, Sizes, Stages, Capacity
<1>4. Undisturbed /\ WritesFailForCause /\ AwaitedInOrder
    BY <1>1 DEF Init, Undisturbed, InEnqueue, InDequeue, WritesFailForCause, AwaitedInOrder
<1> QED
    BY <1>2, <1>3, <1>4 DEF IInv

\* A request is answered.
LEMMA AnswerStep ==
    ASSUME IInv, Answer
    PROVE  IInv'
<1>1. /\ TypeOK /\ Places /\ Taking /\ Sizes /\ Stages /\ Undisturbed
      /\ WritesFailForCause /\ AwaitedInOrder
    BY DEF IInv
<1>2. /\ Requests \in 0 .. 3 /\ Len(awaited) \in Nat /\ Len(array) \in {0, 4}
      /\ MaxRequests \in 1 .. 3 /\ head \in 0 .. 3 /\ tail \in 0 .. 3
      /\ size \in -1 .. 3 /\ counted \in -1 .. 3 /\ left \in -1 .. 3
    BY <1>1, Ranges
<1>3. PICK state \in {"pending", "written"} : write' = Append(write, state)
    BY DEF Answer
<1>4. /\ write' \in Seq({"pending", "written", "failed"})
      /\ Len(write') = Requests + 1 /\ write'[Requests + 1] = state
      /\ \A i \in 1 .. Requests : write'[i] = write[i]
    BY <1>1, <1>3 DEF TypeOK, Requests
<1>5. Requests' = Requests + 1 /\ Requests < MaxRequests
    BY <1>4 DEF Answer, Requests
<1>11. TypeOK'
    BY <1>1, <1>2, <1>4, <1>5
       DEF TypeOK, Faults, Answer, connection, queue, dequeue, history
<1>12. Places'
    BY <1>1, <1>2, <1>4, <1>5
       DEF Places, Stored, Dequeues, Capacity, Answer, connection, queue, dequeue, history
<1>13. Taking'
    BY <1>1, <1>2, <1>4, <1>5
       DEF Taking, Dequeues, Capacity, Answer, connection, queue, dequeue, history
<1>14. Sizes'
    BY <1>1, <1>2, <1>4, <1>5
       DEF Sizes, Stored, Answer, connection, queue, dequeue, history
<1>15. Stages'
    BY <1>1, <1>2, <1>4, <1>5
       DEF Stages, Answer, connection, queue, dequeue, history
<1>16. Undisturbed'
    <2>1. raced' = (raced \/ InDequeue) /\ recv = "reading" /\ recv' = "storing"
        BY DEF Answer
    <2>2. InDequeue' <=> InDequeue
        BY DEF Answer, InDequeue, dequeue
    <2>3. UNCHANGED << disposed, size, array, awaited, send, captured, left, taken >>
        BY DEF Answer, connection, queue, dequeue
    <2>4. ASSUME ~ raced' PROVE ~ raced /\ ~ InDequeue
        BY <2>1, <2>4
    <2> QED
        BY <1>1, <1>2, <1>5, <2>1, <2>2, <2>3, <2>4 DEF Undisturbed, InDequeue, Stages
<1>17. WritesFailForCause'
    <2>1. UNCHANGED << open, reset, send, taken >>
        BY DEF Answer, connection, dequeue
    <2>2. \A i \in 1 .. Requests' : write'[i] = "failed" => i \in 1 .. Requests /\ write[i] = "failed"
        BY <1>2, <1>3, <1>4, <1>5
    <2>3. send = "failed" => taken \in 1 .. Requests
        BY <1>1 DEF Taking
    <2> QED
        BY <1>1, <1>4, <2>1, <2>2, <2>3 DEF WritesFailForCause
<1>18. AwaitedInOrder'
    BY <1>1, <1>2, <1>4, <1>5
       DEF AwaitedInOrder, Answer, connection, queue, dequeue, history
<1> QED
    BY <1>11, <1>12, <1>13, <1>14, <1>15, <1>16, <1>17, <1>18 DEF IInv

\* The task is stored.
LEMMA StoreStep ==
    ASSUME IInv, Store
    PROVE  IInv'
<1>1. /\ TypeOK /\ Places /\ Taking /\ Sizes /\ Stages /\ Undisturbed
      /\ WritesFailForCause /\ AwaitedInOrder
    BY DEF IInv
<1>2. /\ Requests \in 0 .. 3 /\ Len(awaited) \in Nat /\ Len(array) \in {0, 4}
      /\ MaxRequests \in 1 .. 3 /\ head \in 0 .. 3 /\ tail \in 0 .. 3
      /\ size \in -1 .. 3 /\ counted \in -1 .. 3 /\ left \in -1 .. 3
    BY <1>1, Ranges
<1>3. /\ Requests' = Requests /\ Requests > 0 /\ recv = "storing" /\ recv' = "counting"
      /\ counted' = size /\ UNCHANGED << connection, write, size, dequeue, history >>
    BY <1>1 DEF Store, Requests, Stages
<1>4. Stored = Requests - 1 /\ Stored' = Requests /\ ~ disposed /\ tail = Requests - 1
    BY <1>1, <1>3 DEF Stored, Stages, Places
<1>5. size \in 0 .. Requests - 1
    BY <1>1, <1>2, <1>3, <1>4 DEF Sizes
<1>6. /\ Len(array') = 4 /\ array' \in Seq(0 .. Requests)
      /\ \A i \in 1 .. 4 : array'[i] = IF i = Requests THEN Requests
                                      ELSE IF Requests = 1 THEN 0 ELSE array[i]
      /\ head' = head
      /\ tail' = Requests
    <2>1. CASE Requests = 1
        <3> DEFINE empty == [i \in 1 .. 4 |-> 0]
        <3>1. Len(array) = 0 /\ size = 0 /\ head = 0
            <4>1. Len(array) = 0
                BY <1>1, <1>4, <2>1 DEF Places
            <4>2. captured = 0
                BY <1>1, <4>1 DEF Taking, Capacity
            <4>3. Dequeues = 0
                BY <1>1, <1>2, <4>1 DEF Taking, Dequeues, Capacity
            <4>4. size = 0
                BY <1>5, <2>1
            <4>5. head = 0
                BY <1>1, <1>4, <4>3 DEF Taking, Capacity
            <4> QED
                BY <4>1, <4>4, <4>5
        <3>2. /\ array' = [empty EXCEPT ![1] = 1] /\ head' = 0 /\ tail' = Step(0)
            BY <2>1, <3>1 DEF Store, Capacity
        <3>3. /\ Len(empty) = 4 /\ empty \in Seq(0 .. Requests)
              /\ \A i \in 1 .. 4 : empty[i] = 0
            BY <1>2
        <3> HIDE DEF empty
        <3>4. Step(0) = 1
            BY StepIs
        <3>5. 1 \in 1 .. Len(empty) /\ 1 \in 0 .. Requests
            BY <2>1, <3>3
        <3>6. /\ Len(array') = 4 /\ array' \in Seq(0 .. Requests)
              /\ \A i \in 1 .. 4 : array'[i] = IF i = 1 THEN 1 ELSE empty[i]
            BY <3>2, <3>3, <3>5, ExceptSeq
        <3> QED
            BY <2>1, <3>1, <3>2, <3>3, <3>4, <3>6
    <2>2. CASE Requests > 1
        <3>1. Len(array) = 4 /\ size # 4
            BY <1>1, <1>2, <1>4, <1>5, <2>2 DEF Places, Capacity
        <3>2. /\ array' = [array EXCEPT ![Requests] = Requests]
              /\ head' = head /\ tail' = Step(Requests - 1)
            BY <1>2, <1>4, <3>1 DEF Store
        <3>3. array \in Seq(0 .. Requests) /\ Requests \in 1 .. Len(array) /\ Requests \in 0 .. Requests
            BY <1>1, <1>2, <2>2, <3>1 DEF TypeOK
        <3>4. /\ Len(array') = 4 /\ array' \in Seq(0 .. Requests)
              /\ \A i \in 1 .. 4 : array'[i] = IF i = Requests THEN Requests ELSE array[i]
            <4>1. /\ [array EXCEPT ![Requests] = Requests] \in Seq(0 .. Requests)
                  /\ Len([array EXCEPT ![Requests] = Requests]) = Len(array)
                  /\ \A i \in 1 .. Len(array) : [array EXCEPT ![Requests] = Requests][i]
                                              = IF i = Requests THEN Requests ELSE array[i]
                BY <3>3, ExceptSeq
            <4> QED
                BY <3>1, <3>2, <4>1
        <3>5. Step(Requests - 1) = Requests
            BY <1>2, <2>2, StepIs
        <3> QED
            BY <2>2, <3>2, <3>4, <3>5
    <2> QED
        BY <1>2, <1>3, <2>1, <2>2
<1>11. TypeOK'
    <2>1. {head', tail'} \subseteq 0 .. Capacity - 1 /\ {size', counted', left'} \subseteq -1 .. MaxRequests
        BY <1>1, <1>2, <1>3, <1>5, <1>6 DEF TypeOK, Capacity, dequeue
    <2> QED
        BY <1>1, <1>3, <1>6, <2>1 DEF TypeOK, Capacity, connection, dequeue, history
<1>12. Places'
    <2>1. ~ disposed' /\ Stored' = Requests /\ Requests' # 0 /\ Dequeues' = Dequeues /\ send' = send
        BY <1>3, <1>4 DEF Dequeues, connection, dequeue, history
    <2>2. ASSUME NEW i \in 1 .. 4
          PROVE  /\ array'[i] \in {0, i}
                 /\ send # "null" /\ Dequeues < i /\ i <= Requests => array'[i] = i
        <3>1. CASE i = Requests \/ Requests = 1
            BY <1>2, <1>3, <1>6, <3>1
        <3>2. CASE i # Requests /\ Requests > 1
            <4>1. Len(array) = 4 /\ array'[i] = array[i]
                BY <1>1, <1>2, <1>4, <1>6, <3>2 DEF Places, Capacity
            <4> QED
                BY <1>1, <1>2, <1>4, <3>2, <4>1 DEF Places
        <3> QED
            BY <1>2, <1>3, <3>1, <3>2
    <2> QED
        BY <1>3, <1>6, <2>1, <2>2 DEF Places, Capacity, Stored
<1>13. Taking'
    <2>1. Dequeues' = Dequeues /\ UNCHANGED << send, taken, captured, awaited, disposed >>
        BY <1>3 DEF Dequeues, dequeue, history, connection
    <2> QED
        BY <1>1, <1>3, <1>6, <2>1 DEF Taking, Capacity
<1>14. Sizes'
    BY <1>1, <1>2, <1>3, <1>4, <1>5, <1>6
       DEF Sizes, Stored, connection, queue, dequeue, history
<1>15. Stages'
    BY <1>1, <1>2, <1>3, <1>4, <1>5, <1>6
       DEF Stages, connection, queue, dequeue, history
<1>16. Undisturbed'
    BY <1>1, <1>2, <1>3, <1>4, <1>5, <1>6
       DEF Undisturbed, InEnqueue, InDequeue, connection, queue, dequeue, history
<1>17. WritesFailForCause'
    BY <1>1, <1>2, <1>3, <1>4, <1>5, <1>6
       DEF WritesFailForCause, connection, queue, dequeue, history
<1>18. AwaitedInOrder'
    BY <1>1, <1>2, <1>3, <1>4, <1>5, <1>6
       DEF AwaitedInOrder, connection, queue, dequeue, history
<1> QED
    BY <1>11, <1>12, <1>13, <1>14, <1>15, <1>16, <1>17, <1>18 DEF IInv

\* The size is written, one more than was read.
LEMMA EnqueuedStep ==
    ASSUME IInv, Enqueued
    PROVE  IInv'
<1>1. /\ TypeOK /\ Places /\ Taking /\ Sizes /\ Stages /\ Undisturbed
      /\ WritesFailForCause /\ AwaitedInOrder
    BY DEF IInv
<1>2. /\ Requests \in 0 .. 3 /\ Len(awaited) \in Nat /\ Len(array) \in {0, 4}
      /\ MaxRequests \in 1 .. 3 /\ head \in 0 .. 3 /\ tail \in 0 .. 3
      /\ size \in -1 .. 3 /\ counted \in -1 .. 3 /\ left \in -1 .. 3
    BY <1>1, Ranges
<1>3. /\ Requests' = Requests /\ recv = "counting" /\ recv' = "reading"
      /\ size' = counted + 1
      /\ UNCHANGED << connection, write, array, head, tail, counted, dequeue, history >>
    BY DEF Enqueued, Count, Requests
<1>4. counted \in 0 .. Requests - 1 /\ Requests > 0 /\ Stored = Requests /\ Stored' = Requests
    BY <1>1, <1>3 DEF Sizes, Stages, Stored
<1>11. TypeOK'
    <2>1. {size', counted', left'} \subseteq -1 .. MaxRequests
        BY <1>1, <1>2, <1>3, <1>4 DEF TypeOK, dequeue
    <2> QED
        BY <1>1, <1>3, <2>1 DEF TypeOK, connection, dequeue, history
<1>12. Places'
    BY <1>1, <1>2, <1>3, <1>4
       DEF Places, Stored, Dequeues, Capacity, connection, queue, dequeue, history
<1>13. Taking'
    BY <1>1, <1>2, <1>3, <1>4
       DEF Taking, Dequeues, Capacity, connection, queue, dequeue, history
<1>14. Sizes'
    BY <1>1, <1>2, <1>3, <1>4
       DEF Sizes, Stored, connection, queue, dequeue, history
<1>15. Stages'
    BY <1>1, <1>2, <1>3, <1>4
       DEF Stages, connection, queue, dequeue, history
<1>16. Undisturbed'
    <2>1. ASSUME ~ raced'
          PROVE  /\ ~ raced /\ ~ InDequeue /\ ~ disposed /\ ~ disposed'
                 /\ counted = Requests - Len(awaited) - 1
        BY <1>1, <1>3, <2>1 DEF Undisturbed, InEnqueue, Stages, history, connection
    <2>2. UNCHANGED << send, awaited >> /\ (send' \notin {"captured", "nonempty", "counting"} <=> ~ InDequeue)
        BY <1>3 DEF dequeue, history, InDequeue
    <2> QED
        BY <1>1, <1>2, <1>3, <1>4, <2>1, <2>2 DEF Undisturbed, InDequeue
<1>17. WritesFailForCause'
    BY <1>1, <1>2, <1>3, <1>4
       DEF WritesFailForCause, connection, queue, dequeue, history
<1>18. AwaitedInOrder'
    BY <1>1, <1>2, <1>3, <1>4
       DEF AwaitedInOrder, connection, queue, dequeue, history
<1> QED
    BY <1>11, <1>12, <1>13, <1>14, <1>15, <1>16, <1>17, <1>18 DEF IInv

\* A message is refused.
LEMMA RefuseStep ==
    ASSUME IInv, Refuse
    PROVE  IInv'
<1>1. /\ TypeOK /\ Places /\ Taking /\ Sizes /\ Stages /\ Undisturbed
      /\ WritesFailForCause /\ AwaitedInOrder
    BY DEF IInv
<1>2. /\ Requests \in 0 .. 3 /\ Len(awaited) \in Nat /\ Len(array) \in {0, 4}
      /\ MaxRequests \in 1 .. 3 /\ head \in 0 .. 3 /\ tail \in 0 .. 3
      /\ size \in -1 .. 3 /\ counted \in -1 .. 3 /\ left \in -1 .. 3
    BY <1>1, Ranges
<1>11. TypeOK'
    BY <1>1, <1>2
       DEF TypeOK, Faults, Refuse, connection, queue, dequeue, history, Requests
<1>12. Places'
    BY <1>1, <1>2
       DEF Places, Stored, Dequeues, Capacity, Refuse, connection, queue, dequeue, history, Requests
<1>13. Taking'
    BY <1>1, <1>2
       DEF Taking, Dequeues, Capacity, Refuse, connection, queue, dequeue, history, Requests
<1>14. Sizes'
    BY <1>1, <1>2
       DEF Sizes, Stored, Refuse, connection, queue, dequeue, history, Requests
<1>15. Stages'
    BY <1>1, <1>2
       DEF Stages, Refuse, connection, queue, dequeue, history, Requests
<1>16. Undisturbed'
    BY <1>1, <1>2
       DEF Undisturbed, InEnqueue, InDequeue, Refuse, connection, queue, dequeue, history, Requests
<1>17. WritesFailForCause'
    BY <1>1, <1>2
       DEF WritesFailForCause, Refuse, connection, queue, dequeue, history, Requests
<1>18. AwaitedInOrder'
    BY <1>1, <1>2
       DEF AwaitedInOrder, Refuse, connection, queue, dequeue, history, Requests
<1> QED
    BY <1>11, <1>12, <1>13, <1>14, <1>15, <1>16, <1>17, <1>18 DEF IInv

\* Dispose clears the queue.
LEMMA ClearStep ==
    ASSUME IInv, ClearQueue
    PROVE  IInv'
<1>1. /\ TypeOK /\ Places /\ Taking /\ Sizes /\ Stages /\ Undisturbed
      /\ WritesFailForCause /\ AwaitedInOrder
    BY DEF IInv
<1>2. /\ Requests \in 0 .. 3 /\ Len(awaited) \in Nat /\ Len(array) \in {0, 4}
      /\ MaxRequests \in 1 .. 3 /\ head \in 0 .. 3 /\ tail \in 0 .. 3
      /\ size \in -1 .. 3 /\ counted \in -1 .. 3 /\ left \in -1 .. 3
    BY <1>1, Ranges
<1>3. /\ Len(array') = Len(array) /\ array' \in Seq(0 .. Requests)
      /\ \A i \in 1 .. Len(array) : array'[i] = 0
    <2>1. PICK n \in {0, 4} : n = Len(array) /\ DOMAIN array = 1 .. n
        BY <1>1, <1>2, LenProperties DEF TypeOK
    <2>2. array' = [i \in 1 .. n |-> 0]
        BY <2>1 DEF ClearQueue
    <2> QED
        BY <1>2, <2>1, <2>2
<1>11. TypeOK'
    <2>1. {head', tail'} \subseteq 0 .. Capacity - 1 /\ {size', counted', left'} \subseteq -1 .. MaxRequests
        BY <1>1, <1>2 DEF TypeOK, ClearQueue, SizeAfterClear, Capacity, dequeue
    <2>2. {open', reset', disposed', raced'} \subseteq BOOLEAN
        BY <1>1 DEF TypeOK, ClearQueue, history
    <2> QED
        BY <1>1, <1>3, <2>1, <2>2 DEF TypeOK, ClearQueue, Requests, dequeue, history
<1>12. Places'
    BY <1>1, <1>2, <1>3
       DEF Places, Stored, Dequeues, Capacity, ClearQueue, SizeAfterClear, connection, queue,
           dequeue, history, Requests
<1>13. Taking'
    BY <1>1, <1>2, <1>3
       DEF Taking, Dequeues, Capacity, ClearQueue, SizeAfterClear, connection, queue, dequeue,
           history, Requests
<1>14. Sizes'
    BY <1>1, <1>2, <1>3
       DEF Sizes, Stored, ClearQueue, SizeAfterClear, connection, queue, dequeue, history, Requests
<1>15. Stages'
    BY <1>1, <1>2, <1>3
       DEF Stages, ClearQueue, SizeAfterClear, connection, queue, dequeue, history, Requests
<1>16. Undisturbed'
    BY <1>1, <1>2, <1>3
       DEF Undisturbed, InEnqueue, InDequeue, ClearQueue, SizeAfterClear, connection, queue,
           dequeue, history, Requests
<1>17. WritesFailForCause'
    BY <1>1, <1>2, <1>3
       DEF WritesFailForCause, ClearQueue, SizeAfterClear, connection, queue, dequeue, history,
           Requests
<1>18. AwaitedInOrder'
    BY <1>1, <1>2, <1>3
       DEF AwaitedInOrder, ClearQueue, SizeAfterClear, connection, queue, dequeue, history, Requests
<1> QED
    BY <1>11, <1>12, <1>13, <1>14, <1>15, <1>16, <1>17, <1>18 DEF IInv

\* A message is malformed.
LEMMA MalformedStep ==
    ASSUME IInv, Malformed
    PROVE  IInv'
<1>1. /\ TypeOK /\ Places /\ Taking /\ Sizes /\ Stages /\ Undisturbed
      /\ WritesFailForCause /\ AwaitedInOrder
    BY DEF IInv
<1>2. /\ Requests \in 0 .. 3 /\ Len(awaited) \in Nat /\ Len(array) \in {0, 4}
      /\ MaxRequests \in 1 .. 3 /\ head \in 0 .. 3 /\ tail \in 0 .. 3
      /\ size \in -1 .. 3 /\ counted \in -1 .. 3 /\ left \in -1 .. 3
    BY <1>1, Ranges
<1>11. TypeOK'
    BY <1>1, <1>2
       DEF TypeOK, Faults, Malformed, connection, queue, dequeue, history, Requests
<1>12. Places'
    BY <1>1, <1>2
       DEF Places, Stored, Dequeues, Capacity, Malformed, connection, queue, dequeue, history,
           Requests
<1>13. Taking'
    BY <1>1, <1>2
       DEF Taking, Dequeues, Capacity, Malformed, connection, queue, dequeue, history, Requests
<1>14. Sizes'
    BY <1>1, <1>2
       DEF Sizes, Stored, Malformed, connection, queue, dequeue, history, Requests
<1>15. Stages'
    BY <1>1, <1>2
       DEF Stages, Malformed, connection, queue, dequeue, history, Requests
<1>16. Undisturbed'
    BY <1>1, <1>2
       DEF Undisturbed, InEnqueue, InDequeue, Malformed, connection, queue, dequeue, history,
           Requests
<1>17. WritesFailForCause'
    BY <1>1, <1>2
       DEF WritesFailForCause, Malformed, connection, queue, dequeue, history, Requests
<1>18. AwaitedInOrder'
    BY <1>1, <1>2
       DEF AwaitedInOrder, Malformed, connection, queue, dequeue, history, Requests
<1> QED
    BY <1>11, <1>12, <1>13, <1>14, <1>15, <1>16, <1>17, <1>18 DEF IInv

\* The timeout fires.
LEMMA TimeoutStep ==
    ASSUME IInv, Timeout
    PROVE  IInv'
<1>1. /\ TypeOK /\ Places /\ Taking /\ Sizes /\ Stages /\ Undisturbed
      /\ WritesFailForCause /\ AwaitedInOrder
    BY DEF IInv
<1>2. /\ Requests \in 0 .. 3 /\ Len(awaited) \in Nat /\ Len(array) \in {0, 4}
      /\ MaxRequests \in 1 .. 3 /\ head \in 0 .. 3 /\ tail \in 0 .. 3
      /\ size \in -1 .. 3 /\ counted \in -1 .. 3 /\ left \in -1 .. 3
    BY <1>1, Ranges
<1>11. TypeOK'
    BY <1>1, <1>2
       DEF TypeOK, Faults, Timeout, Closes, connection, queue, dequeue, history, Requests
<1>12. Places'
    BY <1>1, <1>2
       DEF Places, Stored, Dequeues, Capacity, Timeout, Closes, connection, queue, dequeue,
           history, Requests
<1>13. Taking'
    BY <1>1, <1>2
       DEF Taking, Dequeues, Capacity, Timeout, Closes, connection, queue, dequeue, history,
           Requests
<1>14. Sizes'
    BY <1>1, <1>2
       DEF Sizes, Stored, Timeout, Closes, connection, queue, dequeue, history, Requests
<1>15. Stages'
    BY <1>1, <1>2
       DEF Stages, Timeout, Closes, connection, queue, dequeue, history, Requests
<1>16. Undisturbed'
    BY <1>1, <1>2
       DEF Undisturbed, InEnqueue, InDequeue, Timeout, Closes, connection, queue, dequeue,
           history, Requests
<1>17. WritesFailForCause'
    BY <1>1, <1>2
       DEF WritesFailForCause, Timeout, Closes, connection, queue, dequeue, history, Requests
<1>18. AwaitedInOrder'
    BY <1>1, <1>2
       DEF AwaitedInOrder, Timeout, Closes, connection, queue, dequeue, history, Requests
<1> QED
    BY <1>11, <1>12, <1>13, <1>14, <1>15, <1>16, <1>17, <1>18 DEF IInv

\* The peer resets the connection.
LEMMA ResetsStep ==
    ASSUME IInv, PeerResets
    PROVE  IInv'
<1>1. /\ TypeOK /\ Places /\ Taking /\ Sizes /\ Stages /\ Undisturbed
      /\ WritesFailForCause /\ AwaitedInOrder
    BY DEF IInv
<1>2. /\ Requests \in 0 .. 3 /\ Len(awaited) \in Nat /\ Len(array) \in {0, 4}
      /\ MaxRequests \in 1 .. 3 /\ head \in 0 .. 3 /\ tail \in 0 .. 3
      /\ size \in -1 .. 3 /\ counted \in -1 .. 3 /\ left \in -1 .. 3
    BY <1>1, Ranges
<1>11. TypeOK'
    BY <1>1, <1>2
       DEF TypeOK, Faults, PeerResets, connection, queue, dequeue, history, Requests
<1>12. Places'
    BY <1>1, <1>2
       DEF Places, Stored, Dequeues, Capacity, PeerResets, connection, queue, dequeue, history,
           Requests
<1>13. Taking'
    BY <1>1, <1>2
       DEF Taking, Dequeues, Capacity, PeerResets, connection, queue, dequeue, history, Requests
<1>14. Sizes'
    BY <1>1, <1>2
       DEF Sizes, Stored, PeerResets, connection, queue, dequeue, history, Requests
<1>15. Stages'
    BY <1>1, <1>2
       DEF Stages, PeerResets, connection, queue, dequeue, history, Requests
<1>16. Undisturbed'
    BY <1>1, <1>2
       DEF Undisturbed, InEnqueue, InDequeue, PeerResets, connection, queue, dequeue, history,
           Requests
<1>17. WritesFailForCause'
    BY <1>1, <1>2
       DEF WritesFailForCause, PeerResets, connection, queue, dequeue, history, Requests
<1>18. AwaitedInOrder'
    BY <1>1, <1>2
       DEF AwaitedInOrder, PeerResets, connection, queue, dequeue, history, Requests
<1> QED
    BY <1>11, <1>12, <1>13, <1>14, <1>15, <1>16, <1>17, <1>18 DEF IInv

\* A write completes.
LEMMA CompletesStep ==
    ASSUME IInv, NEW i \in 1 .. Requests, WriteCompletes(i)
    PROVE  IInv'
<1>1. /\ TypeOK /\ Places /\ Taking /\ Sizes /\ Stages /\ Undisturbed
      /\ WritesFailForCause /\ AwaitedInOrder
    BY DEF IInv
<1>2. /\ Requests \in 0 .. 3 /\ Len(awaited) \in Nat /\ Len(array) \in {0, 4}
      /\ MaxRequests \in 1 .. 3 /\ head \in 0 .. 3 /\ tail \in 0 .. 3
      /\ size \in -1 .. 3 /\ counted \in -1 .. 3 /\ left \in -1 .. 3
    BY <1>1, Ranges
<1>3. /\ write' \in Seq({"pending", "written", "failed"}) /\ Requests' = Requests
      /\ \A j \in 1 .. Requests : write'[j] = IF j = i THEN "written" ELSE write[j]
    BY <1>1, ExceptSeq DEF TypeOK, Requests, WriteCompletes
<1>11. TypeOK'
    BY <1>1, <1>2, <1>3
       DEF TypeOK, Faults, WriteCompletes, connection, queue, dequeue, history
<1>12. Places'
    BY <1>1, <1>2, <1>3
       DEF Places, Stored, Dequeues, Capacity, WriteCompletes, connection, queue, dequeue, history
<1>13. Taking'
    BY <1>1, <1>2, <1>3
       DEF Taking, Dequeues, Capacity, WriteCompletes, connection, queue, dequeue, history
<1>14. Sizes'
    BY <1>1, <1>2, <1>3
       DEF Sizes, Stored, WriteCompletes, connection, queue, dequeue, history
<1>15. Stages'
    BY <1>1, <1>2, <1>3
       DEF Stages, WriteCompletes, connection, queue, dequeue, history
<1>16. Undisturbed'
    BY <1>1, <1>2, <1>3
       DEF Undisturbed, InEnqueue, InDequeue, WriteCompletes, connection, queue, dequeue, history
<1>17. WritesFailForCause'
    BY <1>1, <1>2, <1>3
       DEF WritesFailForCause, WriteCompletes, connection, queue, dequeue, history
<1>18. AwaitedInOrder'
    BY <1>1, <1>2, <1>3
       DEF AwaitedInOrder, WriteCompletes, connection, queue, dequeue, history
<1> QED
    BY <1>11, <1>12, <1>13, <1>14, <1>15, <1>16, <1>17, <1>18 DEF IInv

\* A write fails.
LEMMA FailsStep ==
    ASSUME IInv, NEW i \in 1 .. Requests, WriteFails(i)
    PROVE  IInv'
<1>1. /\ TypeOK /\ Places /\ Taking /\ Sizes /\ Stages /\ Undisturbed
      /\ WritesFailForCause /\ AwaitedInOrder
    BY DEF IInv
<1>2. /\ Requests \in 0 .. 3 /\ Len(awaited) \in Nat /\ Len(array) \in {0, 4}
      /\ MaxRequests \in 1 .. 3 /\ head \in 0 .. 3 /\ tail \in 0 .. 3
      /\ size \in -1 .. 3 /\ counted \in -1 .. 3 /\ left \in -1 .. 3
    BY <1>1, Ranges
<1>3. /\ write' \in Seq({"pending", "written", "failed"}) /\ Requests' = Requests
      /\ \A j \in 1 .. Requests : write'[j] = IF j = i THEN "failed" ELSE write[j]
    BY <1>1, ExceptSeq DEF TypeOK, Requests, WriteFails
<1>11. TypeOK'
    BY <1>1, <1>2, <1>3
       DEF TypeOK, Faults, WriteFails, connection, queue, dequeue, history
<1>12. Places'
    BY <1>1, <1>2, <1>3
       DEF Places, Stored, Dequeues, Capacity, WriteFails, connection, queue, dequeue, history
<1>13. Taking'
    BY <1>1, <1>2, <1>3
       DEF Taking, Dequeues, Capacity, WriteFails, connection, queue, dequeue, history
<1>14. Sizes'
    BY <1>1, <1>2, <1>3
       DEF Sizes, Stored, WriteFails, connection, queue, dequeue, history
<1>15. Stages'
    BY <1>1, <1>2, <1>3
       DEF Stages, WriteFails, connection, queue, dequeue, history
<1>16. Undisturbed'
    BY <1>1, <1>2, <1>3
       DEF Undisturbed, InEnqueue, InDequeue, WriteFails, connection, queue, dequeue, history
<1>17. WritesFailForCause'
    BY <1>1, <1>2, <1>3
       DEF WritesFailForCause, WriteFails, connection, queue, dequeue, history
<1>18. AwaitedInOrder'
    BY <1>1, <1>2, <1>3
       DEF AwaitedInOrder, WriteFails, connection, queue, dequeue, history
<1> QED
    BY <1>11, <1>12, <1>13, <1>14, <1>15, <1>16, <1>17, <1>18 DEF IInv

\* SendAsync is called.
LEMMA StartStep ==
    ASSUME IInv, StartSend
    PROVE  IInv'
<1>1. /\ TypeOK /\ Places /\ Taking /\ Sizes /\ Stages /\ Undisturbed
      /\ WritesFailForCause /\ AwaitedInOrder
    BY DEF IInv
<1>2. /\ Requests \in 0 .. 3 /\ Len(awaited) \in Nat /\ Len(array) \in {0, 4}
      /\ MaxRequests \in 1 .. 3 /\ head \in 0 .. 3 /\ tail \in 0 .. 3
      /\ size \in -1 .. 3 /\ counted \in -1 .. 3 /\ left \in -1 .. 3
    BY <1>1, Ranges
<1>11. TypeOK'
    BY <1>1, <1>2
       DEF TypeOK, Faults, StartSend, connection, queue, dequeue, history, Requests
<1>12. Places'
    BY <1>1, <1>2
       DEF Places, Stored, Dequeues, Capacity, StartSend, connection, queue, dequeue, history,
           Requests
<1>13. Taking'
    BY <1>1, <1>2
       DEF Taking, Dequeues, Capacity, StartSend, connection, queue, dequeue, history, Requests
<1>14. Sizes'
    BY <1>1, <1>2
       DEF Sizes, Stored, StartSend, connection, queue, dequeue, history, Requests
<1>15. Stages'
    BY <1>1, <1>2
       DEF Stages, StartSend, connection, queue, dequeue, history, Requests
<1>16. Undisturbed'
    BY <1>1, <1>2
       DEF Undisturbed, InEnqueue, InDequeue, StartSend, connection, queue, dequeue, history,
           Requests
<1>17. WritesFailForCause'
    BY <1>1, <1>2
       DEF WritesFailForCause, StartSend, connection, queue, dequeue, history, Requests
<1>18. AwaitedInOrder'
    BY <1>1, <1>2
       DEF AwaitedInOrder, StartSend, connection, queue, dequeue, history, Requests
<1> QED
    BY <1>11, <1>12, <1>13, <1>14, <1>15, <1>16, <1>17, <1>18 DEF IInv

\* TryDequeue takes hold of the array.
LEMMA CaptureStep ==
    ASSUME IInv, Capture
    PROVE  IInv'
<1>1. /\ TypeOK /\ Places /\ Taking /\ Sizes /\ Stages /\ Undisturbed
      /\ WritesFailForCause /\ AwaitedInOrder
    BY DEF IInv
<1>2. /\ Requests \in 0 .. 3 /\ Len(awaited) \in Nat /\ Len(array) \in {0, 4}
      /\ MaxRequests \in 1 .. 3 /\ head \in 0 .. 3 /\ tail \in 0 .. 3
      /\ size \in -1 .. 3 /\ counted \in -1 .. 3 /\ left \in -1 .. 3
    BY <1>1, Ranges
<1>11. TypeOK'
    BY <1>1, <1>2
       DEF TypeOK, Faults, Capture, connection, queue, dequeue, history, Requests
<1>12. Places'
    BY <1>1, <1>2
       DEF Places, Stored, Dequeues, Capacity, Capture, connection, queue, dequeue, history,
           Requests
<1>13. Taking'
    BY <1>1, <1>2
       DEF Taking, Dequeues, Capacity, Capture, connection, queue, dequeue, history, Requests
<1>14. Sizes'
    BY <1>1, <1>2
       DEF Sizes, Stored, Capture, connection, queue, dequeue, history, Requests
<1>15. Stages'
    BY <1>1, <1>2
       DEF Stages, Capture, connection, queue, dequeue, history, Requests
<1>16. Undisturbed'
    BY <1>1, <1>2
       DEF Undisturbed, InEnqueue, InDequeue, Capture, connection, queue, dequeue, history, Requests
<1>17. WritesFailForCause'
    BY <1>1, <1>2
       DEF WritesFailForCause, Capture, connection, queue, dequeue, history, Requests
<1>18. AwaitedInOrder'
    BY <1>1, <1>2
       DEF AwaitedInOrder, Capture, connection, queue, dequeue, history, Requests
<1> QED
    BY <1>11, <1>12, <1>13, <1>14, <1>15, <1>16, <1>17, <1>18 DEF IInv

\* TryDequeue looks at the size.
LEMMA LookStep ==
    ASSUME IInv, Look
    PROVE  IInv'
<1>1. /\ TypeOK /\ Places /\ Taking /\ Sizes /\ Stages /\ Undisturbed
      /\ WritesFailForCause /\ AwaitedInOrder
    BY DEF IInv
<1>2. /\ Requests \in 0 .. 3 /\ Len(awaited) \in Nat /\ Len(array) \in {0, 4}
      /\ MaxRequests \in 1 .. 3 /\ head \in 0 .. 3 /\ tail \in 0 .. 3
      /\ size \in -1 .. 3 /\ counted \in -1 .. 3 /\ left \in -1 .. 3
    BY <1>1, Ranges
<1>11. TypeOK'
    BY <1>1, <1>2
       DEF TypeOK, Faults, Look, IsEmpty, connection, queue, dequeue, history, Requests
<1>12. Places'
    BY <1>1, <1>2
       DEF Places, Stored, Dequeues, Capacity, Look, IsEmpty, connection, queue, dequeue,
           history, Requests
<1>13. Taking'
    BY <1>1, <1>2
       DEF Taking, Dequeues, Capacity, Look, IsEmpty, connection, queue, dequeue, history, Requests
<1>14. Sizes'
    BY <1>1, <1>2
       DEF Sizes, Stored, Look, IsEmpty, connection, queue, dequeue, history, Requests
<1>15. Stages'
    BY <1>1, <1>2
       DEF Stages, Look, IsEmpty, connection, queue, dequeue, history, Requests
<1>16. Undisturbed'
    <2>1. /\ send = "captured" /\ Requests' = Requests
          /\ (send' = "nonempty" /\ size # 0) \/ send' = "ended"
          /\ UNCHANGED << disposed, recv, size, array, awaited, counted, captured, left, taken, raced >>
        BY DEF Look, IsEmpty, Requests, connection, queue, history
    <2> SUFFICES ASSUME ~ raced PROVE Undisturbed'
        BY <2>1 DEF Undisturbed
    <2>2. /\ ~ InEnqueue /\ captured = Len(array)
          /\ size = IF disposed THEN 0 ELSE Requests - Len(awaited)
        BY <1>1, <1>2, <2>1 DEF Undisturbed, InEnqueue, InDequeue
    <2>3. size # 0 => size > 0
        BY <1>1, <1>2, <2>1 DEF Sizes
    <2> QED
        BY <1>2, <2>1, <2>2, <2>3 DEF Undisturbed, InEnqueue, InDequeue
<1>17. WritesFailForCause'
    BY <1>1, <1>2
       DEF WritesFailForCause, Look, IsEmpty, connection, queue, dequeue, history, Requests
<1>18. AwaitedInOrder'
    BY <1>1, <1>2
       DEF AwaitedInOrder, Look, IsEmpty, connection, queue, dequeue, history, Requests
<1> QED
    BY <1>11, <1>12, <1>13, <1>14, <1>15, <1>16, <1>17, <1>18 DEF IInv

\* TryDequeue takes a task out.
LEMMA TakeStep ==
    ASSUME IInv, Take
    PROVE  IInv'
<1>1. /\ TypeOK /\ Places /\ Taking /\ Sizes /\ Stages /\ Undisturbed
      /\ WritesFailForCause /\ AwaitedInOrder
    BY DEF IInv
<1>2. /\ Requests \in 0 .. 3 /\ Len(awaited) \in Nat /\ Len(array) \in {0, 4}
      /\ MaxRequests \in 1 .. 3 /\ head \in 0 .. 3 /\ tail \in 0 .. 3
      /\ size \in -1 .. 3 /\ counted \in -1 .. 3 /\ left \in -1 .. 3
    BY <1>1, Ranges
<1>3. /\ send = "nonempty" /\ Requests' = Requests /\ Stored' = Stored
      /\ UNCHANGED << connection, recv, write, tail, size, counted, captured, history >>
    BY DEF Take, Stored, Requests
<1>4. \/ /\ head < captured /\ send' = "counting" /\ taken' = array[head + 1]
         /\ array' = [array EXCEPT ![head + 1] = 0] /\ head' = Step(head) /\ left' = size
      \/ /\ head >= captured /\ send' = "index"
         /\ UNCHANGED << taken, array, head, left >>
    BY <1>1, <1>2 DEF Take, TypeOK, Capacity
<1>5. Dequeues = Len(awaited) /\ (~ disposed => head = Len(awaited))
    BY <1>1, <1>2, <1>3 DEF Dequeues, Taking, Capacity
<1>6. size \in 0 .. Requests /\ (~ disposed => size > 0) /\ Stored \in 0 .. 3 /\ Stored <= Requests
    BY <1>1, <1>2, <1>3 DEF Sizes, Stored, Stages
<1>7. CASE send' = "index" /\ head >= captured /\ UNCHANGED << taken, array, head, left >>
    <2>1. raced
        <3> SUFFICES ASSUME ~ raced PROVE FALSE
            OBVIOUS
        <3>1. /\ captured = Len(array) /\ size > 0 /\ ~ disposed /\ size = Requests - Len(awaited)
              /\ recv \notin {"storing", "counting"}
            BY <1>1, <1>2, <1>3 DEF Undisturbed, InEnqueue, InDequeue
        <3>2. Stored = Requests /\ Requests > 0
            BY <1>2, <3>1 DEF Stored
        <3>3. captured = 4
            BY <1>1, <3>1, <3>2 DEF Places, Capacity
        <3> QED
            BY <1>2, <1>7, <3>3
    <2>2. TypeOK'
        BY <1>1, <1>3, <1>7 DEF TypeOK, Faults, connection, history
    <2>3. Places' /\ Taking'
        <3>1. Dequeues' = Dequeues
            BY <1>3, <1>7 DEF Dequeues, history
        <3> QED
            BY <1>1, <1>3, <1>7, <3>1 DEF Places, Taking, connection, history
    <2>4. Sizes' /\ Stages' /\ Undisturbed'
        BY <1>1, <1>3, <1>7, <2>1, <1>6 DEF Sizes, Stages, Undisturbed, connection, history
    <2>5. WritesFailForCause' /\ AwaitedInOrder'
        BY <1>1, <1>3, <1>7 DEF WritesFailForCause, AwaitedInOrder, connection, history
    <2> QED
        BY <2>2, <2>3, <2>4, <2>5 DEF IInv
<1>8. CASE /\ head < captured /\ send' = "counting" /\ taken' = array[head + 1]
           /\ array' = [array EXCEPT ![head + 1] = 0] /\ head' = Step(head) /\ left' = size
    <2>1. Len(array) = 4 /\ captured # 0
        BY <1>1, <1>2, <1>8 DEF Taking, Capacity
    <2>2. /\ array' \in Seq(0 .. Requests) /\ Len(array') = 4
          /\ \A i \in 1 .. 4 : array'[i] = IF i = head + 1 THEN 0 ELSE array[i]
        <3>1. array \in Seq(0 .. Requests) /\ head + 1 \in 1 .. Len(array) /\ 0 \in 0 .. Requests
            BY <1>1, <1>2, <2>1 DEF TypeOK
        <3>2. PICK i \in 1 .. Len(array) : i = head + 1
            BY <3>1
        <3>3. /\ [array EXCEPT ![i] = 0] \in Seq(0 .. Requests)
              /\ Len([array EXCEPT ![i] = 0]) = Len(array)
              /\ \A j \in 1 .. Len(array) : [array EXCEPT ![i] = 0][j] = IF j = i THEN 0 ELSE array[j]
            BY <3>1, ExceptSeq
        <3> QED
            BY <1>8, <2>1, <3>2, <3>3
    <2>3. /\ taken' \in {0, head + 1} /\ (disposed => taken' = 0) /\ taken' \in 0 .. Requests
          /\ head' = IF head = 3 THEN 0 ELSE head + 1
        <3>1. head + 1 \in 1 .. Len(array) /\ array \in Seq(0 .. Requests)
            BY <1>1, <1>2, <2>1 DEF TypeOK
        <3> QED
            <4>1. PICK i \in 1 .. Len(array) : i = head + 1
                BY <3>1
            <4>3. /\ array[i] \in {0, i} /\ (disposed => array[i] = 0)
                  /\ array[i] \in 0 .. Requests
                <5>1. array[i] \in {0, i} /\ (disposed => array[i] = 0)
                    BY <1>1, Zenon DEF Places
                <5>2. array[i] \in 0 .. Requests
                    BY <3>1, ElementOfSeq
                <5> QED
                    BY <5>1, <5>2
            <4>2. Step(head) = IF head = 3 THEN 0 ELSE head + 1
                BY <1>2, StepIs
            <4> QED
                BY <1>8, <4>1, <4>2, <4>3
    <2>4. Dequeues' = Len(awaited) + 1 /\ awaited' = awaited /\ disposed' = disposed
        BY <1>3, <1>8 DEF Dequeues, history, connection
    <2>5. TypeOK'
        <3>1. {head', tail'} \subseteq 0 .. Capacity - 1 /\ {size', counted', left'} \subseteq -1 .. MaxRequests
            BY <1>1, <1>2, <1>3, <1>8, <2>3 DEF TypeOK, Capacity
        <3> QED
            BY <1>1, <1>3, <1>8, <2>2, <2>3, <3>1 DEF TypeOK, Capacity, connection, history
    <2>6. Places'
        <3>1. ASSUME NEW i \in 1 .. 4
              PROVE  /\ array'[i] \in {0, i} /\ (disposed => array'[i] = 0)
                     /\ ~ disposed /\ Len(awaited) + 1 < i /\ i <= Stored => array'[i] = i
            <4>1. send # "null"
                BY <1>3
            <4> QED
                BY <1>1, <1>2, <1>5, <1>6, <2>1, <2>2, <4>1 DEF Places
        <3> QED
            BY <1>1, <1>3, <2>1, <2>2, <2>4, <3>1 DEF Places
    <2>7. Taking'
        BY <1>1, <1>2, <1>3, <1>5, <1>8, <2>1, <2>2, <2>3, <2>4 DEF Taking, Capacity
    <2>8. Sizes' /\ Stages'
        BY <1>1, <1>3, <1>6, <1>8, <2>3, <2>4 DEF Sizes, Stages
    <2>9. Undisturbed'
        <3> SUFFICES ASSUME ~ raced PROVE Undisturbed'
            BY <1>3 DEF Undisturbed, history
        <3>1. /\ captured = Len(array) /\ size > 0 /\ ~ disposed /\ size = Requests - Len(awaited)
              /\ recv \notin {"storing", "counting", "clearing"}
            BY <1>1, <1>2, <1>3 DEF Undisturbed, InEnqueue, InDequeue
        <3>2. Stored = Requests /\ Len(awaited) + 1 \in 1 .. 4 /\ Len(awaited) + 1 <= Stored
            BY <1>2, <3>1 DEF Stored
        <3>3. taken' = Len(awaited) + 1
            BY <1>1, <1>3, <1>5, <1>8, <2>1, <3>1, <3>2 DEF Places
        <3>4. ~ InEnqueue' /\ recv' \notin {"storing", "counting"} /\ size' = size /\ ~ disposed'
            BY <1>3, <3>1 DEF InEnqueue, connection
        <3> QED
            BY <1>3, <1>8, <2>4, <3>1, <3>3, <3>4 DEF Undisturbed
    <2>10. WritesFailForCause' /\ AwaitedInOrder'
        BY <1>1, <1>3, <1>8, <2>4 DEF WritesFailForCause, AwaitedInOrder, connection
    <2> QED
        BY <2>5, <2>6, <2>7, <2>8, <2>9, <2>10 DEF IInv
<1> QED
    BY <1>4, <1>7, <1>8

\* The size is written, one less than was read.
LEMMA DequeuedStep ==
    ASSUME IInv, Dequeued
    PROVE  IInv'
<1>1. /\ TypeOK /\ Places /\ Taking /\ Sizes /\ Stages /\ Undisturbed
      /\ WritesFailForCause /\ AwaitedInOrder
    BY DEF IInv
<1>2. /\ Requests \in 0 .. 3 /\ Len(awaited) \in Nat /\ Len(array) \in {0, 4}
      /\ MaxRequests \in 1 .. 3 /\ head \in 0 .. 3 /\ tail \in 0 .. 3
      /\ size \in -1 .. 3 /\ counted \in -1 .. 3 /\ left \in -1 .. 3
    BY <1>1, Ranges
<1>3. /\ send = "counting" /\ Requests' = Requests /\ Stored' = Stored /\ size' = left - 1
      /\ UNCHANGED << connection, recv, write, array, head, tail, counted, captured,
                      taken, left, raced >>
      /\ IF taken = 0 THEN send' = "null" /\ UNCHANGED awaited
         ELSE send' = "awaiting" /\ awaited' = Append(awaited, taken)
    BY DEF Dequeued, Stored, Requests
<1>4. /\ awaited \in Seq(1 .. Requests) /\ taken \in 0 .. Requests /\ left \in 0 .. Requests
      /\ taken \in {0, Len(awaited) + 1}
    BY <1>1, <1>3 DEF TypeOK, Sizes, Taking
<1>5. taken # 0 => /\ awaited' \in Seq(1 .. Requests) /\ Len(awaited') = Len(awaited) + 1
                   /\ taken = Len(awaited) + 1 /\ awaited'[Len(awaited) + 1] = taken
                   /\ \A i \in 1 .. Len(awaited) : awaited'[i] = awaited[i]
    <2>1. taken # 0 => taken \in 1 .. Requests /\ taken = Len(awaited) + 1
        BY <1>2, <1>4
    <2> SUFFICES ASSUME taken # 0
                 PROVE  /\ awaited' \in Seq(1 .. Requests) /\ Len(awaited') = Len(awaited) + 1
                        /\ awaited'[Len(awaited) + 1] = taken
                        /\ \A i \in 1 .. Len(awaited) : awaited'[i] = awaited[i]
        BY <2>1
    <2>2. awaited' = Append(awaited, taken) /\ taken \in 1 .. Requests
        BY <1>3, <2>1
    <2> QED
        BY <1>4, <2>2
<1>6. Dequeues = Len(awaited) + 1 /\ Dequeues' = Dequeues
    BY <1>2, <1>3, <1>5 DEF Dequeues
<1>7. size' \in -1 .. Requests - 1 /\ (size' = -1 => disposed /\ taken = 0) /\ Requests - 1 <= Stored
    BY <1>1, <1>2, <1>3, <1>4 DEF Sizes, Stored
<1>11. TypeOK'
    <2>1. {size', counted', left'} \subseteq -1 .. MaxRequests
        BY <1>1, <1>2, <1>3, <1>7 DEF TypeOK
    <2>2. awaited' \in Seq(1 .. Requests) /\ send' \in {"null", "awaiting"}
        BY <1>3, <1>4, <1>5
    <2> QED
        BY <1>1, <1>3, <2>1, <2>2 DEF TypeOK, Faults, connection
<1>12. Places'
    <2>1. UNCHANGED << disposed, tail, array >> /\ (send' = "null" \/ send' = "awaiting")
        BY <1>3 DEF connection
    <2> QED
        BY <1>1, <1>3, <1>6, <2>1 DEF Places
<1>13. Taking'
    <2>1. UNCHANGED << disposed, head, captured, array, taken >> /\ captured # 0
        BY <1>1, <1>3 DEF Taking, connection
    <2>2. CASE taken = 0
        BY <1>1, <1>3, <1>6, <2>1, <2>2 DEF Taking
    <2>3. CASE taken # 0
        BY <1>1, <1>2, <1>3, <1>4, <1>5, <1>6, <2>1, <2>3 DEF Taking
    <2> QED
        BY <2>2, <2>3
<1>14. Sizes'
    BY <1>1, <1>2, <1>3, <1>4, <1>5, <1>6, <1>7
       DEF Sizes, Stored, connection
<1>15. Stages'
    BY <1>1, <1>2, <1>3, <1>4, <1>5, <1>6, <1>7
       DEF Stages, connection
<1>16. Undisturbed'
    <2> SUFFICES ASSUME ~ raced PROVE Undisturbed'
        BY <1>3 DEF Undisturbed
    <2>1. /\ ~ InEnqueue /\ left = size /\ size > 0 /\ taken = Len(awaited) + 1
          /\ ~ disposed /\ size = Requests - Len(awaited)
        BY <1>1, <1>2, <1>3 DEF Undisturbed, InEnqueue, InDequeue
    <2>2. send' = "awaiting" /\ Len(awaited') = Len(awaited) + 1 /\ disposed' = disposed /\ recv' = recv
        BY <1>2, <1>3, <1>5, <2>1 DEF connection
    <2> QED
        BY <1>2, <1>3, <2>1, <2>2 DEF Undisturbed, InEnqueue, InDequeue
<1>17. WritesFailForCause'
    BY <1>1, <1>2, <1>3, <1>4, <1>5, <1>6, <1>7
       DEF WritesFailForCause, connection
<1>18. AwaitedInOrder'
    <2>1. CASE taken = 0
        BY <1>1, <1>3, <2>1 DEF AwaitedInOrder
    <2>2. CASE taken # 0
        BY <1>1, <1>2, <1>5, <2>2 DEF AwaitedInOrder
    <2> QED
        BY <2>1, <2>2
<1> QED
    BY <1>11, <1>12, <1>13, <1>14, <1>15, <1>16, <1>17, <1>18 DEF IInv

\* The task that was taken is over.
LEMMA AwaitStep ==
    ASSUME IInv, Await
    PROVE  IInv'
<1>1. /\ TypeOK /\ Places /\ Taking /\ Sizes /\ Stages /\ Undisturbed
      /\ WritesFailForCause /\ AwaitedInOrder
    BY DEF IInv
<1>2. /\ Requests \in 0 .. 3 /\ Len(awaited) \in Nat /\ Len(array) \in {0, 4}
      /\ MaxRequests \in 1 .. 3 /\ head \in 0 .. 3 /\ tail \in 0 .. 3
      /\ size \in -1 .. 3 /\ counted \in -1 .. 3 /\ left \in -1 .. 3
    BY <1>1, Ranges
<1>11. TypeOK'
    BY <1>1, <1>2
       DEF TypeOK, Faults, Await, connection, queue, dequeue, history, Requests
<1>12. Places'
    BY <1>1, <1>2
       DEF Places, Stored, Dequeues, Capacity, Await, connection, queue, dequeue, history, Requests
<1>13. Taking'
    BY <1>1, <1>2
       DEF Taking, Dequeues, Capacity, Await, connection, queue, dequeue, history, Requests
<1>14. Sizes'
    BY <1>1, <1>2
       DEF Sizes, Stored, Await, connection, queue, dequeue, history, Requests
<1>15. Stages'
    BY <1>1, <1>2
       DEF Stages, Await, connection, queue, dequeue, history, Requests
<1>16. Undisturbed'
    BY <1>1, <1>2
       DEF Undisturbed, InEnqueue, InDequeue, Await, connection, queue, dequeue, history, Requests
<1>17. WritesFailForCause'
    BY <1>1, <1>2
       DEF WritesFailForCause, Await, connection, queue, dequeue, history, Requests
<1>18. AwaitedInOrder'
    BY <1>1, <1>2
       DEF AwaitedInOrder, Await, connection, queue, dequeue, history, Requests
<1> QED
    BY <1>11, <1>12, <1>13, <1>14, <1>15, <1>16, <1>17, <1>18 DEF IInv

LEMMA NextInv == IInv /\ [Next]_vars => IInv'
<1> SUFFICES ASSUME IInv, [Next]_vars PROVE IInv'
    OBVIOUS
<1>1. CASE UNCHANGED vars
    BY <1>1 DEF IInv, TypeOK, Places, Stored, Dequeues, Taking, Sizes, Stages, Undisturbed,
                InEnqueue, InDequeue, WritesFailForCause, AwaitedInOrder, Requests, vars,
                connection, queue, dequeue, history
<1>2. CASE ReceiveStep
    BY <1>2, StoreStep, EnqueuedStep, ClearStep DEF ReceiveStep
<1>3. CASE SendStep
    BY <1>3, CaptureStep, LookStep, TakeStep, DequeuedStep, AwaitStep DEF SendStep
<1> QED
    BY <1>1, <1>2, <1>3, AnswerStep, RefuseStep, MalformedStep, TimeoutStep, ResetsStep,
       CompletesStep, FailsStep, StartStep DEF Next

\* LoginClient: its variables keep their types, whichever steps of the two threads meet.
THEOREM TypeCorrect == Spec => []TypeOK
<1>1. IInv => TypeOK
    BY DEF IInv
<1> QED
    BY <1>1, InitInv, NextInv, PTL DEF Spec

\* LoginClient.SendAsync awaits the tasks in the order of the requests, each once and
\* none left out in between, although Queue is not made for two threads.
THEOREM TasksAreAwaitedInOrder == Spec => []AwaitedInOrder
<1>1. IInv => AwaitedInOrder
    BY DEF IInv
<1> QED
    BY <1>1, InitInv, NextInv, PTL DEF Spec

\* LoginClient.SendQueue holds what was answered and never awaited, unless the two
\* threads have met in it.
THEOREM QueueIsExact == Spec => []QueueHoldsTheRest
<1>1. IInv => QueueHoldsTheRest
    <2> SUFFICES ASSUME IInv, ~ raced, ~ InEnqueue
                 PROVE  size = IF disposed THEN 0 ELSE Requests - Len(awaited)
        BY DEF QueueHoldsTheRest
    <2>1. Requests \in 0 .. 3 /\ Len(awaited) \in Nat
        BY Ranges DEF IInv
    <2> QED
        BY <2>1 DEF IInv, Undisturbed, InEnqueue
<1> QED
    BY <1>1, InitInv, NextInv, PTL DEF Spec

\* LoginClient.SendAsync throws only for a write that failed on a lost connection, or
\* because the two threads have met in the queue.
THEOREM SendFaultsForCause == Spec => []SendFaultHasCause
<1>1. IInv => SendFaultHasCause
    <2> SUFFICES ASSUME IInv PROVE SendFaultHasCause
        OBVIOUS
    <2>1. send \in {"index", "null"} => raced
        BY DEF IInv, Undisturbed
    <2>2. send = "failed" => taken \in 1 .. Requests /\ write[taken] = "failed"
        BY DEF IInv, Taking, WritesFailForCause
    <2> QED
        BY <2>1, <2>2 DEF IInv, WritesFailForCause, SendFaultHasCause
<1> QED
    BY <1>1, InitInv, NextInv, PTL DEF Spec

=============================================================================
