------------------------------ MODULE TSQueue ------------------------------
(***************************************************************************)
(* lib/networking/thread_safe_queues.h: sptv::ts_queue, at the grain of    *)
(* its two mutexes and its condition variable, together with the loop that *)
(* drains it, spotivar_server::operate_user_requests (server.cpp).         *)
(*                                                                         *)
(* The event-loop thread of the server (a producer) calls push_back from   *)
(* connection::add_to_incomming_queue; the main thread (the consumer)      *)
(* runs operate_user_requests for ever.  push_back takes mxQueue, then,    *)
(* inside it, mtx_update; wait() takes them one after the other and never  *)
(* together, so it looks at the queue and falls asleep in two separate     *)
(* critical sections.                                                      *)
(***************************************************************************)
EXTENDS Naturals, Sequences, FiniteSets

CONSTANTS Producers,   \* threads that call push_back
          Consumer,    \* the thread that runs operate_user_requests
          Items,       \* what is queued: owned messages
          MaxPushes,   \* bound on the calls of push_back in one behaviour
          NoThread     \* the owner of a free mutex

Threads == Producers \cup {Consumer}

ASSUME ThreadsAssumption == /\ Consumer \notin Producers
                            /\ NoThread \notin Threads
ASSUME BoundAssumption == MaxPushes \in Nat

VARIABLES deqQueue,    \* the deque
          mxQueue,     \* which thread owns the mutex of the deque
          mtx_update,  \* which thread owns the mutex of the condition variable
          pc,          \* where each thread is
          pushed,      \* history: the items emplaced, in order
          popped       \* history: the items handed to on_message_recieved

vars == <<deqQueue, mxQueue, mtx_update, pc, pushed, popped>>

\* The control points, by what the thread does next.
ProducerPoints == {"idle", "push", "emplace", "notify", "unlock_update",
                   "unlock_queue"}
ConsumerPoints == {"wait", "wait_empty", "lock_update", "cv_wait", "asleep",
                   "woken", "end_scope", "drain", "drain_empty", "pop",
                   "pop_front", "handle"}

Goto(t, here, there) == /\ pc[t] = here
                        /\ pc' = [pc EXCEPT ![t] = there]

LockQueue(t) == mxQueue = NoThread /\ mxQueue' = t
LockUpdate(t) == mtx_update = NoThread /\ mtx_update' = t

Init == /\ deqQueue = <<>>
        /\ mxQueue = NoThread
        /\ mtx_update = NoThread
        /\ pc = [t \in Threads |-> IF t = Consumer THEN "wait" ELSE "idle"]
        /\ pushed = <<>>
        /\ popped = <<>>
-----------------------------------------------------------------------------
(* push_back, the producer's side *)

\* The number of items pushed, and of pushes begun but not yet emplaced.
Calls == Len(pushed) + Cardinality({p \in Producers : pc[p] \in {"push", "emplace"}})

CallPush(p) == /\ Calls < MaxPushes
               /\ Goto(p, "idle", "push")
               /\ UNCHANGED <<deqQueue, mxQueue, mtx_update, pushed, popped>>

\* A push that forgets to lock the deque.
PushLockUnguarded(p) == /\ Goto(p, "push", "emplace")
                        /\ mxQueue' = p
                        /\ UNCHANGED <<deqQueue, mtx_update, pushed, popped>>

PushLock(p) == /\ Goto(p, "push", "emplace")
               /\ LockQueue(p)
               /\ UNCHANGED <<deqQueue, mtx_update, pushed, popped>>

Emplace(p, x) == /\ Goto(p, "emplace", "notify")
                 /\ deqQueue' = Append(deqQueue, x)
                 /\ pushed' = Append(pushed, x)
                 /\ UNCHANGED <<mxQueue, mtx_update, popped>>

\* A push that never notifies.
NoNotify == pc[Consumer]

\* notify_one: it wakes the consumer if the consumer is asleep, and is lost
\* if it is not.
NotifyOne == IF pc[Consumer] = "asleep" THEN "woken" ELSE pc[Consumer]

\* cv_blocking.notify_one() under mtx_update and mxQueue.
PushNotify(p) ==
    /\ pc[p] = "notify"
    /\ LockUpdate(p)
    /\ pc' = [pc EXCEPT ![p] = "unlock_update", ![Consumer] = NotifyOne]
    /\ UNCHANGED <<deqQueue, mxQueue, pushed, popped>>

\* The two guards go out of scope in the reverse order of their construction.
PushUnlockUpdate(p) == /\ Goto(p, "unlock_update", "unlock_queue")
                       /\ mtx_update' = NoThread
                       /\ UNCHANGED <<deqQueue, mxQueue, pushed, popped>>

PushUnlockQueue(p) == /\ Goto(p, "unlock_queue", "idle")
                      /\ mxQueue' = NoThread
                      /\ UNCHANGED <<deqQueue, mtx_update, pushed, popped>>

PushBack(p) == \/ PushLock(p)
               \/ \E x \in Items : Emplace(p, x)
               \/ PushNotify(p)
               \/ PushUnlockUpdate(p)
               \/ PushUnlockQueue(p)
-----------------------------------------------------------------------------
(* wait(), the consumer's side *)

WaitLock == /\ Goto(Consumer, "wait", "wait_empty")
            /\ LockQueue(Consumer)
            /\ UNCHANGED <<deqQueue, mtx_update, pushed, popped>>

\* while (empty()): empty() unlocks mxQueue before its result is used.
WaitEmpty == /\ Goto(Consumer, "wait_empty",
                     IF deqQueue = <<>> THEN "lock_update" ELSE "drain")
             /\ mxQueue' = NoThread
             /\ UNCHANGED <<deqQueue, mtx_update, pushed, popped>>

WaitLockUpdate == /\ Goto(Consumer, "lock_update", "cv_wait")
                  /\ LockUpdate(Consumer)
                  /\ UNCHANGED <<deqQueue, mxQueue, pushed, popped>>

\* cv_blocking.wait(ul) releases mtx_update and falls asleep in one step.
CvWait == /\ Goto(Consumer, "cv_wait", "asleep")
          /\ mtx_update' = NoThread
          /\ UNCHANGED <<deqQueue, mxQueue, pushed, popped>>

\* A condition variable may wake its waiter although nobody notified it.
SpuriousWakeup == /\ Goto(Consumer, "asleep", "woken")
                  /\ UNCHANGED <<deqQueue, mxQueue, mtx_update, pushed, popped>>

WaitRelock == /\ Goto(Consumer, "woken", "end_scope")
              /\ LockUpdate(Consumer)
              /\ UNCHANGED <<deqQueue, mxQueue, pushed, popped>>

\* The guard declared outside the loop: mtx_update stays locked while
\* empty() is called again.
WaitScopeHoisted == /\ Goto(Consumer, "end_scope", "wait")
                    /\ UNCHANGED <<deqQueue, mxQueue, mtx_update, pushed, popped>>

\* The guard on mtx_update ends with the body of the loop.
WaitEndScope == /\ Goto(Consumer, "end_scope", "wait")
                /\ mtx_update' = NoThread
                /\ UNCHANGED <<deqQueue, mxQueue, pushed, popped>>

Wait == WaitLock \/ WaitEmpty \/ WaitLockUpdate \/ CvWait \/ WaitRelock
          \/ WaitEndScope
-----------------------------------------------------------------------------
(* The rest of operate_user_requests: while (!empty()) pop_front and handle. *)

DrainLock == /\ Goto(Consumer, "drain", "drain_empty")
             /\ LockQueue(Consumer)
             /\ UNCHANGED <<deqQueue, mtx_update, pushed, popped>>

\* The caller calls operate_user_requests once, not for ever.
DrainOnce == /\ Goto(Consumer, "drain_empty",
                     IF deqQueue = <<>> THEN "idle" ELSE "pop")
             /\ mxQueue' = NoThread
             /\ UNCHANGED <<deqQueue, mtx_update, pushed, popped>>

DrainEmpty == /\ Goto(Consumer, "drain_empty",
                      IF deqQueue = <<>> THEN "wait" ELSE "pop")
              /\ mxQueue' = NoThread
              /\ UNCHANGED <<deqQueue, mtx_update, pushed, popped>>

PopLock == /\ Goto(Consumer, "pop", "pop_front")
           /\ LockQueue(Consumer)
           /\ UNCHANGED <<deqQueue, mtx_update, pushed, popped>>

\* pop_front with pop_back's mistake: it returns the front and removes the back.
PopFrontRemovesBack ==
    /\ Goto(Consumer, "pop_front", "handle")
    /\ popped' = Append(popped, Head(deqQueue))
    /\ deqQueue' = SubSeq(deqQueue, 1, Len(deqQueue) - 1)
    /\ mxQueue' = NoThread
    /\ UNCHANGED <<mtx_update, pushed>>

PopFront == /\ Goto(Consumer, "pop_front", "handle")
            /\ popped' = Append(popped, Head(deqQueue))
            /\ deqQueue' = Tail(deqQueue)
            /\ mxQueue' = NoThread
            /\ UNCHANGED <<mtx_update, pushed>>

\* on_message_recieved returns; it does not touch this queue.
Handle == /\ Goto(Consumer, "handle", "drain")
          /\ UNCHANGED <<deqQueue, mxQueue, mtx_update, pushed, popped>>

OperateUserRequests == Wait \/ DrainLock \/ DrainEmpty \/ PopLock \/ PopFront
                         \/ Handle
-----------------------------------------------------------------------------
Next == \/ \E p \in Producers : CallPush(p) \/ PushBack(p)
        \/ OperateUserRequests
        \/ SpuriousWakeup

\* A running thread that is not blocked for ever gets to run: the push it has
\* begun is finished and the main loop goes on.  Nobody has to call push_back,
\* and no spurious wakeup is owed to anybody.
Fairness == /\ WF_vars(OperateUserRequests)
            /\ \A p \in Producers : WF_vars(PushBack(p))

Spec == Init /\ [][Next]_vars

FairSpec == Spec /\ Fairness
-----------------------------------------------------------------------------
TypeOK ==
    /\ deqQueue \in Seq(Items)
    /\ mxQueue \in Threads \cup {NoThread}
    /\ mtx_update \in Threads \cup {NoThread}
    /\ pc \in [Threads -> ProducerPoints \cup ConsumerPoints]
    /\ pc[Consumer] \in ConsumerPoints
    /\ \A p \in Producers : pc[p] \in ProducerPoints
    /\ pushed \in Seq(Items)
    /\ popped \in Seq(Items)

\* Where a thread is inside a critical section of each mutex.
HoldsQueue(t) == pc[t] \in {"emplace", "notify", "unlock_update", "unlock_queue",
                            "wait_empty", "drain_empty", "pop_front"}
HoldsUpdate(t) == pc[t] \in {"unlock_update", "cv_wait", "end_scope"}

\* The deque is not a thread-safe container: two threads are never both inside
\* a section that reads or changes it, whatever the interleaving of push_back,
\* empty and pop_front.
DequeMutualExclusion ==
    \A t, u \in Threads : HoldsQueue(t) /\ HoldsQueue(u) => t = u

\* Where a thread's next step is to lock a mutex.
LocksQueueNext(t) == pc[t] \in {"push", "wait", "drain", "pop"}
LocksUpdateNext(t) == pc[t] \in {"notify", "lock_update", "woken"}

Runnable(t) == /\ pc[t] \notin {"idle", "asleep"}
               /\ LocksQueueNext(t) => mxQueue = NoThread
               /\ LocksUpdateNext(t) => mtx_update = NoThread

Quiet == pc[Consumer] = "asleep" /\ \A p \in Producers : pc[p] = "idle"

\* push_back holds mxQueue while it waits for mtx_update.  The threads never
\* wait for each other in a circle: if nobody can run, every push_back has
\* returned and the main thread is asleep in wait().
NoDeadlock == Quiet \/ \E t \in Threads : Runnable(t)

\* The queue carries messages from the event loop to the main thread: every one
\* once, in the order they were received.
Fifo == INSTANCE FifoChannel WITH sent <- pushed, received <- popped
ImplementsFifo == Fifo!Spec

\* A push that reaches notify_one while the main thread is asleep gets the whole
\* queue handled, whatever was stranded in it before.
LaterPushDrains ==
    (pc[Consumer] = "asleep" /\ \E p \in Producers : pc[p] = "notify")
        ~> (deqQueue = <<>>)

\* server.cpp:136 says of deq_message_in.wait(): "wait for new users request or
\* if there are some already".  A request that is in the queue is then always
\* handled in the end.
RequestsAreHandled == (deqQueue # <<>>) ~> (deqQueue = <<>>)
=============================================================================
