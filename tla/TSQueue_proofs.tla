--------------------------- MODULE TSQueue_proofs ---------------------------
(***************************************************************************)
(* Proofs about TSQueue for any number of producers, any items and any     *)
(* bound on the pushes: type correctness, mutual exclusion on the deque,   *)
(* freedom from deadlock, that the queue implements FifoChannel, and where *)
(* alone a wakeup can be lost.                                             *)
(***************************************************************************)
EXTENDS TSQueue, TLAPS

\* Each mutex is owned by exactly the thread that is in its critical section.
LockInv == /\ \A t \in Threads : (mxQueue = t) <=> HoldsQueue(t)
           /\ \A t \in Threads : (mtx_update = t) <=> HoldsUpdate(t)

\* Nobody else removes items, so what empty() saw is still there at pop_front.
PopReady == pc[Consumer] \in {"pop", "pop_front"} => deqQueue # <<>>

IInv == TypeOK /\ LockInv /\ PopReady

\* Every item pushed was popped or is in the deque, in the order of the pushes.
Conserved ==
    /\ Len(pushed) = Len(popped) + Len(deqQueue)
    /\ \A i \in 1..Len(popped) : popped[i] = pushed[i]
    /\ \A i \in 1..Len(deqQueue) : deqQueue[i] = pushed[Len(popped) + i]

\* What emplace_back does to the deque.
LEMMA AppendFacts ==
  ASSUME NEW S, NEW s \in Seq(S), NEW x \in S
  PROVE  /\ Append(s, x) \in Seq(S)
         /\ Append(s, x) # <<>>
         /\ Len(Append(s, x)) = Len(s) + 1
         /\ \A i \in 1..Len(s) : Append(s, x)[i] = s[i]
         /\ Append(s, x)[Len(s) + 1] = x
  <1>1. Append(s, x) \in Seq(S) /\ Len(Append(s, x)) = Len(s) + 1
    OBVIOUS
  <1>2. Append(s, x) # <<>>
    <2>1. Len(Append(s, x)) # Len(<<>>)
      BY <1>1
    <2> QED
      BY <2>1
  <1> QED
    BY <1>1, <1>2

LEMMA InitIInv == Init => IInv
  <1> SUFFICES ASSUME Init PROVE IInv
    OBVIOUS
  <1> USE ThreadsAssumption DEF Init, Threads
  <1>1. TypeOK
    BY DEF TypeOK, ProducerPoints, ConsumerPoints
  <1>2. LockInv
    BY DEF LockInv, HoldsQueue, HoldsUpdate
  <1>3. PopReady
    BY DEF PopReady
  <1> QED
    BY <1>1, <1>2, <1>3 DEF IInv

LEMMA StepIInv == IInv /\ [Next]_vars => IInv'
  <1> SUFFICES ASSUME IInv, [Next]_vars PROVE IInv'
    OBVIOUS
  <1> USE ThreadsAssumption
         DEF IInv, TypeOK, LockInv, PopReady, HoldsQueue, HoldsUpdate, Threads,
             ProducerPoints, ConsumerPoints
  <1>1. ASSUME NEW p \in Producers, CallPush(p) PROVE IInv'
    BY <1>1 DEF CallPush, Goto
  <1>2. ASSUME NEW p \in Producers, PushLock(p) PROVE IInv'
    BY <1>2 DEF PushLock, Goto, LockQueue
  <1>3. ASSUME NEW p \in Producers, NEW x \in Items, Emplace(p, x) PROVE IInv'
    <2>1. deqQueue' \in Seq(Items) /\ deqQueue' # <<>> /\ pushed' \in Seq(Items)
      BY <1>3, AppendFacts DEF Emplace
    <2> QED
      BY <1>3, <2>1 DEF Emplace, Goto
  <1>4. ASSUME NEW p \in Producers, PushNotify(p) PROVE IInv'
    BY <1>4 DEF PushNotify, LockUpdate, NotifyOne
  <1>5. ASSUME NEW p \in Producers, PushUnlockUpdate(p) PROVE IInv'
    BY <1>5 DEF PushUnlockUpdate, Goto
  <1>6. ASSUME NEW p \in Producers, PushUnlockQueue(p) PROVE IInv'
    BY <1>6 DEF PushUnlockQueue, Goto
  <1>7. CASE WaitLock
    BY <1>7 DEF WaitLock, Goto, LockQueue
  <1>8. CASE WaitEmpty
    BY <1>8 DEF WaitEmpty, Goto
  <1>9. CASE WaitLockUpdate
    BY <1>9 DEF WaitLockUpdate, Goto, LockUpdate
  <1>10. CASE CvWait
    BY <1>10 DEF CvWait, Goto
  <1>11. CASE WaitRelock
    BY <1>11 DEF WaitRelock, Goto, LockUpdate
  <1>12. CASE WaitEndScope
    BY <1>12 DEF WaitEndScope, Goto
  <1>13. CASE DrainLock
    BY <1>13 DEF DrainLock, Goto, LockQueue
  <1>14. CASE DrainEmpty
    BY <1>14 DEF DrainEmpty, Goto
  <1>15. CASE PopLock
    BY <1>15 DEF PopLock, Goto, LockQueue
  <1>16. CASE PopFront
    <2>1. deqQueue # <<>>
      BY <1>16 DEF PopFront, Goto
    <2>2. deqQueue' \in Seq(Items) /\ popped' \in Seq(Items)
      BY <1>16, <2>1 DEF PopFront
    <2> QED
      BY <1>16, <2>2 DEF PopFront, Goto
  <1>17. CASE Handle
    BY <1>17 DEF Handle, Goto
  <1>18. CASE SpuriousWakeup
    BY <1>18 DEF SpuriousWakeup, Goto
  <1>19. CASE UNCHANGED vars
    BY <1>19 DEF vars
  <1> QED
    BY <1>1, <1>2, <1>3, <1>4, <1>5, <1>6, <1>7, <1>8, <1>9, <1>10, <1>11,
       <1>12, <1>13, <1>14, <1>15, <1>16, <1>17, <1>18, <1>19
       DEF Next, PushBack, OperateUserRequests, Wait

LEMMA Invariance == Spec => []IInv
  BY InitIInv, StepIInv, PTL DEF Spec

\* The variables keep their types (TypeOK), for every number of producers.
THEOREM TypeCorrect == Spec => []TypeOK
  BY Invariance, PTL DEF IInv

\* No two of push_back, empty and pop_front are ever inside the deque together
\* (mxQueue in thread_safe_queues.h), for every number of producers.
THEOREM MutualExclusion == Spec => []DequeMutualExclusion
  <1>1. IInv => DequeMutualExclusion
    BY DEF IInv, LockInv, DequeMutualExclusion
  <1> QED
    BY <1>1, Invariance, PTL

\* push_back nests mtx_update in mxQueue and wait() does not nest them at all, so
\* the threads never block each other for ever, however many producers there are.
THEOREM DeadlockFreedom == Spec => []NoDeadlock
  <1>1. ASSUME IInv, ~Quiet PROVE \E t \in Threads : Runnable(t)
    <2> USE <1>1, ThreadsAssumption
           DEF IInv, TypeOK, LockInv, Threads, HoldsQueue, HoldsUpdate, Runnable,
               LocksQueueNext, LocksUpdateNext
    <2>1. CASE mtx_update # NoThread
      <3>1. mtx_update \in Threads /\ HoldsUpdate(mtx_update)
        BY <2>1
      <3> QED
        BY <3>1
    <2>2. CASE mtx_update = NoThread /\ mxQueue # NoThread
      <3>1. mxQueue \in Threads /\ HoldsQueue(mxQueue)
        BY <2>2
      <3> QED
        BY <2>2, <3>1
    <2>3. CASE mtx_update = NoThread /\ mxQueue = NoThread
      <3>1. CASE pc[Consumer] # "asleep"
        BY <2>3, <3>1 DEF ConsumerPoints
      <3>2. CASE \E p \in Producers : pc[p] # "idle"
        BY <2>3, <3>2 DEF ProducerPoints
      <3> QED
        BY <3>1, <3>2 DEF Quiet
    <2> QED
      BY <2>1, <2>2, <2>3
  <1>2. IInv => NoDeadlock
    BY <1>1 DEF NoDeadlock
  <1> QED
    BY <1>2, Invariance, PTL

-----------------------------------------------------------------------------
(* The queue implements FifoChannel. *)

LEMMA InitConserved == Init => Conserved
  BY DEF Init, Conserved

LEMMA StepConserved == IInv /\ Conserved /\ [Next]_vars => Conserved'
  <1> SUFFICES ASSUME IInv, Conserved, [Next]_vars PROVE Conserved'
    OBVIOUS
  <1> USE DEF Conserved
  <1>1. ASSUME NEW p \in Producers, NEW x \in Items, Emplace(p, x) PROVE Conserved'
    <2>1. deqQueue \in Seq(Items) /\ pushed \in Seq(Items) /\ popped \in Seq(Items)
      BY DEF IInv, TypeOK
    <2>2. /\ popped' = popped
          /\ deqQueue' = Append(deqQueue, x)
          /\ pushed' = Append(pushed, x)
      BY <1>1 DEF Emplace
    <2>3. Len(pushed') = Len(popped') + Len(deqQueue')
      <3>1. Len(pushed') = Len(pushed) + 1
        BY <2>1, <2>2, AppendFacts
      <3>2. Len(deqQueue') = Len(deqQueue) + 1
        BY <2>1, <2>2, AppendFacts
      <3>3. Len(popped) \in Nat /\ Len(deqQueue) \in Nat
        BY <2>1
      <3> QED
        BY <2>2, <3>1, <3>2, <3>3
    <2>4. \A i \in 1..Len(popped') : popped'[i] = pushed'[i]
      <3> SUFFICES ASSUME NEW i \in 1..Len(popped) PROVE popped[i] = pushed'[i]
        BY <2>2
      <3>1. i \in 1..Len(pushed)
        BY <2>1
      <3>2. pushed'[i] = pushed[i]
        BY <2>1, <2>2, <3>1, AppendFacts
      <3> QED
        BY <3>2
    <2>5. \A i \in 1..Len(deqQueue') : deqQueue'[i] = pushed'[Len(popped') + i]
      <3> SUFFICES ASSUME NEW i \in 1..Len(deqQueue')
                   PROVE  deqQueue'[i] = pushed'[Len(popped') + i]
        OBVIOUS
      <3>1. CASE i = Len(deqQueue) + 1
        BY <2>1, <2>2, <3>1, AppendFacts
      <3>2. CASE i \in 1..Len(deqQueue)
        BY <2>1, <2>2, <3>2, AppendFacts
      <3>3. Len(deqQueue') = Len(deqQueue) + 1 /\ Len(deqQueue) \in Nat
        BY <2>1, <2>2, AppendFacts
      <3> QED
        BY <3>1, <3>2, <3>3
    <2> QED
      BY <2>3, <2>4, <2>5
  <1>2. CASE PopFront
    <2>1. deqQueue # <<>>
      BY <1>2 DEF PopFront, Goto, IInv, PopReady
    <2> QED
      BY <1>2, <2>1 DEF PopFront, IInv, TypeOK
  <1>3. CASE UNCHANGED <<deqQueue, pushed, popped>>
    BY <1>3
  <1> QED
    BY <1>1, <1>2, <1>3
       DEF Next, vars, CallPush, PushBack, PushLock, PushNotify, PushUnlockUpdate,
           PushUnlockQueue, OperateUserRequests, Wait, WaitLock, WaitEmpty,
           WaitLockUpdate, CvWait, WaitRelock, WaitEndScope, DrainLock, DrainEmpty,
           PopLock, Handle, SpuriousWakeup

\* Every step of the queue is a Put, a Take or nothing to the channel.
LEMMA StepRefines == IInv /\ Conserved /\ [Next]_vars => [Fifo!Next]_(Fifo!vars)
  <1> SUFFICES ASSUME IInv, Conserved, [Next]_vars PROVE [Fifo!Next]_(Fifo!vars)
    OBVIOUS
  <1> USE DEF Fifo!Next, Fifo!Put, Fifo!Take, Fifo!vars
  <1>1. ASSUME NEW p \in Producers, NEW x \in Items, Emplace(p, x)
        PROVE  [Fifo!Next]_(Fifo!vars)
    BY <1>1 DEF Emplace
  <1>2. CASE PopFront
    <2>1. deqQueue # <<>>
      BY <1>2 DEF PopFront, Goto, IInv, PopReady
    <2>2. Len(popped) < Len(pushed) /\ Head(deqQueue) = pushed[Len(popped) + 1]
      BY <2>1 DEF IInv, TypeOK, Conserved
    <2> QED
      BY <1>2, <2>2 DEF PopFront
  <1>3. CASE UNCHANGED <<deqQueue, pushed, popped>>
    BY <1>3
  <1> QED
    BY <1>1, <1>2, <1>3
       DEF Next, vars, CallPush, PushBack, PushLock, PushNotify, PushUnlockUpdate,
           PushUnlockQueue, OperateUserRequests, Wait, WaitLock, WaitEmpty,
           WaitLockUpdate, CvWait, WaitRelock, WaitEndScope, DrainLock, DrainEmpty,
           PopLock, Handle, SpuriousWakeup

\* What the main thread takes out of the queue is what the event loop put in, in
\* order and once (push_back and pop_front), for every number of producers.
THEOREM FifoRefinement == Spec => ImplementsFifo
  <1>1. Init => Fifo!Init
    BY DEF Init, Fifo!Init
  <1>2. Spec => []Conserved
    BY InitConserved, StepConserved, Invariance, PTL DEF Spec
  <1> QED
    BY <1>1, <1>2, StepRefines, Invariance, PTL DEF Spec, ImplementsFifo, Fifo!Spec
-----------------------------------------------------------------------------
(* The lost wakeup *)

\* No push notifies while wait() has seen the queue empty and has not locked
\* mtx_update yet (thread_safe_queues.h:75).
NoneInTheGap ==
    [][\A p \in Producers : PushNotify(p) => pc[Consumer] # "lock_update"]_vars

\* Between the test of the queue and the wakeup, something is in the queue only if its
\* push is about to notify.
NotifyInv ==
    pc[Consumer] \in {"lock_update", "cv_wait", "asleep"} /\ deqQueue # <<>>
        => \E p \in Producers : pc[p] = "notify"

\* The main thread does not sleep over a request, unless its push notifies next.
NothingStranded ==
    pc[Consumer] = "asleep" /\ deqQueue # <<>> => \E p \in Producers : pc[p] = "notify"

LEMMA StepNotifyInv ==
  ASSUME IInv, NotifyInv, [Next]_vars,
         \A p \in Producers : PushNotify(p) => pc[Consumer] # "lock_update"
  PROVE  NotifyInv'
  <1> USE ThreadsAssumption DEF NotifyInv
  <1>t. /\ pc \in [Threads -> ProducerPoints \cup ConsumerPoints]
        /\ Consumer \in Threads /\ \A p \in Producers : p \in Threads /\ p # Consumer
    BY DEF IInv, TypeOK, Threads
  <1>1. ASSUME NEW p \in Producers, CallPush(p) \/ PushLock(p) \/ PushUnlockUpdate(p)
                                       \/ PushUnlockQueue(p)
        PROVE  NotifyInv'
    <2>1. /\ pc[p] # "notify" /\ deqQueue' = deqQueue
          /\ \A t \in Threads : t # p => pc'[t] = pc[t]
      BY <1>1, <1>t DEF CallPush, PushLock, PushUnlockUpdate, PushUnlockQueue, Goto
    <2> QED
      BY <1>t, <2>1
  <1>2. ASSUME NEW p \in Producers, NEW x \in Items, Emplace(p, x) PROVE NotifyInv'
    BY <1>2, <1>t DEF Emplace, Goto
  <1>3. ASSUME NEW p \in Producers, PushNotify(p) PROVE NotifyInv'
    <2>1. pc[Consumer] # "lock_update"
      BY <1>3
    <2>2. pc[Consumer] # "cv_wait"
      <3>1. mtx_update = NoThread
        BY <1>3 DEF PushNotify, LockUpdate
      <3> QED
        BY <1>t, <3>1 DEF IInv, LockInv, HoldsUpdate
    <2>3. pc'[Consumer] = NotifyOne
      BY <1>3, <1>t DEF PushNotify
    <2> QED
      BY <2>1, <2>2, <2>3 DEF NotifyOne
  <1>4. CASE OperateUserRequests \/ SpuriousWakeup
    <2>1. \A p \in Producers : pc'[p] = pc[p]
      BY <1>4, <1>t
         DEF OperateUserRequests, Wait, WaitLock, WaitEmpty, WaitLockUpdate, CvWait,
             WaitRelock, WaitEndScope, DrainLock, DrainEmpty, PopLock, PopFront, Handle,
             SpuriousWakeup, Goto
    <2>2. CASE WaitEmpty
      BY <1>t, <2>2 DEF WaitEmpty, Goto
    <2>3. CASE WaitLockUpdate \/ CvWait
      BY <1>t, <2>1, <2>3 DEF WaitLockUpdate, CvWait, Goto
    <2>4. CASE ~(WaitEmpty \/ WaitLockUpdate \/ CvWait)
      <3>1. pc'[Consumer] \notin {"lock_update", "cv_wait", "asleep"}
        BY <1>4, <1>t, <2>4
           DEF OperateUserRequests, Wait, WaitLock, WaitRelock, WaitEndScope, DrainLock,
               DrainEmpty, PopLock, PopFront, Handle, SpuriousWakeup, Goto
      <3> QED
        BY <3>1
    <2> QED
      BY <2>2, <2>3, <2>4
  <1>5. CASE UNCHANGED vars
    BY <1>5 DEF vars
  <1> QED
    BY <1>1, <1>2, <1>3, <1>4, <1>5 DEF Next, PushBack

\* The gap between empty() and mtx_update in wait() is the only place where a
\* notification is lost: while no push notifies there, the main thread never falls
\* asleep, nor stays so, over a request that nobody is about to announce.
THEOREM OnlyTheGapStrands == Spec /\ NoneInTheGap => []NothingStranded
  <1>1. Init => NotifyInv
    BY DEF Init, NotifyInv
  <1>2. /\ IInv /\ NotifyInv /\ [Next]_vars
        /\ [\A p \in Producers : PushNotify(p) => pc[Consumer] # "lock_update"]_vars
        => NotifyInv'
    <2>1. ASSUME IInv, NotifyInv, UNCHANGED vars PROVE NotifyInv'
      BY <2>1 DEF NotifyInv, vars
    <2> QED
      BY <2>1, StepNotifyInv
  <1>3. NotifyInv => NothingStranded
    BY DEF NotifyInv, NothingStranded
  <1> QED
    BY <1>1, <1>2, <1>3, Invariance, PTL DEF Spec, NoneInTheGap

=============================================================================
