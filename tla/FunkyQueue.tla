----------------------------- MODULE FunkyQueue -----------------------------
(***************************************************************************)
(* The queue between two threads (class FunkyQueue), down to its mutex and *)
(* its condition variable.                                                 *)
(*                                                                         *)
(* Producers push under the mutex, release it, and only then notify.  The  *)
(* consumer is the processing loop of a stream: it calls                   *)
(* wait_dequeue_timed again and again.  cv.wait_for releases the mutex and *)
(* falls asleep in one step; it wakes on a notification, on the timeout or *)
(* spuriously, takes the mutex again and evaluates its predicate.          *)
(***************************************************************************)
EXTENDS Naturals, Sequences

CONSTANTS
    Producers,  \* the threads that enqueue
    m_capacity,
    MaxCalls    \* bound on the elements a producer offers

ASSUME QueueAssumption == m_capacity \in Nat \ {0} /\ MaxCalls \in Nat

Consumer == "consumer"
Free == "free"

ASSUME ThreadAssumption == Consumer \notin Producers /\ Free \notin Producers

VARIABLES
    queue,
    mtx,    \* the thread that holds the mutex, or Free
    pc,     \* where each thread is
    n,      \* how many elements each producer has offered
    taken   \* every element wait_dequeue_timed returned, in order

vars == <<queue, mtx, pc, n, taken>>

\* The i-th element offered by p.
Elements == Producers \X (1 .. MaxCalls)

Init ==
    /\ queue = <<>>
    /\ mtx = Free
    /\ pc = [t \in Producers \cup {Consumer} |->
                IF t = Consumer THEN "dequeue" ELSE "idle"]
    /\ n = [p \in Producers |-> 0]
    /\ taken = <<>>

Goto(t, label) == pc' = [pc EXCEPT ![t] = label]

\* std::unique_lock: wait for the mutex.
Lock(t, from, to) ==
    /\ pc[t] = from
    /\ mtx = Free
    /\ mtx' = t
    /\ Goto(t, to)

-----------------------------------------------------------------------------
(* The producers.                                                          *)

Call(p) ==
    /\ n[p] < MaxCalls
    /\ n' = [n EXCEPT ![p] = @ + 1]
    /\ \E op \in {"try_enqueue", "enqueue_or_clear_enqueue"} :
           Lock(p, "idle", op)
    /\ UNCHANGED <<queue, taken>>

\* Leave the critical section; the caller has its answer after the notify.
Unlock(p, label) ==
    /\ mtx' = Free
    /\ Goto(p, label)
    /\ UNCHANGED <<n, taken>>

try_enqueue(p) ==
    /\ pc[p] = "try_enqueue"
    /\ \/ /\ Len(queue) >= m_capacity
          /\ Unlock(p, "idle")
          /\ UNCHANGED queue
       \/ /\ Len(queue) < m_capacity
          /\ queue' = Append(queue, <<p, n[p]>>)
          /\ Unlock(p, "notify")

\* Mutant: a full queue is not cleared.
EnqueueAnyway(p) ==
    /\ pc[p] = "enqueue_or_clear_enqueue"
    /\ queue' = Append(queue, <<p, n[p]>>)
    /\ Unlock(p, "notify")

enqueue_or_clear_enqueue(p) ==
    /\ pc[p] = "enqueue_or_clear_enqueue"
    /\ queue' = IF Len(queue) >= m_capacity
                THEN <<<<p, n[p]>>>>
                ELSE Append(queue, <<p, n[p]>>)
    /\ Unlock(p, "notify")

\* Mutant: the notification is forgotten.
ForgetNotify(p) ==
    /\ pc[p] = "notify"
    /\ Goto(p, "idle")
    /\ UNCHANGED <<queue, mtx, n, taken>>

\* cv.notify_one: wakes the consumer if it sleeps, else is lost.
notify_one(p) ==
    /\ pc[p] = "notify"
    /\ pc' = [pc EXCEPT ![p] = "idle",
                        ![Consumer] = IF @ = "asleep" THEN "awake" ELSE @]
    /\ UNCHANGED <<queue, mtx, n, taken>>

\* Another thread asks for the size: it only holds the mutex for a moment.
get_current_size(p) ==
    /\ \/ Lock(p, "idle", "get_current_size")
       \/ /\ pc[p] = "get_current_size"
          /\ mtx' = Free
          /\ Goto(p, "idle")
    /\ UNCHANGED <<queue, n, taken>>

-----------------------------------------------------------------------------
(* The consumer: wait_dequeue_timed.                                       *)

Acquire ==
    /\ \/ Lock(Consumer, "dequeue", "check")
       \/ Lock(Consumer, "awake", "check")
       \/ Lock(Consumer, "timedOut", "lastCheck")
    /\ UNCHANGED <<queue, n, taken>>

Pop ==
    /\ pc[Consumer] \in {"check", "lastCheck"}
    /\ queue # <<>>
    /\ queue' = Tail(queue)
    /\ taken' = Append(taken, Head(queue))
    /\ mtx' = Free
    /\ Goto(Consumer, "dequeue")
    /\ UNCHANGED n

\* Mutant: the mutex is released one step before the thread sleeps.
SleepAfterUnlock ==
    /\ \/ /\ pc[Consumer] = "check"
          /\ queue = <<>>
          /\ mtx' = Free
          /\ Goto(Consumer, "falling")
       \/ /\ pc[Consumer] = "falling"
          /\ Goto(Consumer, "asleep")
          /\ UNCHANGED mtx
    /\ UNCHANGED <<queue, n, taken>>

Sleep ==
    /\ pc[Consumer] = "check"
    /\ queue = <<>>
    /\ mtx' = Free
    /\ Goto(Consumer, "asleep")
    /\ UNCHANGED <<queue, n, taken>>

Wake ==
    /\ pc[Consumer] = "asleep"
    /\ \E reason \in {"timedOut", "awake"} : Goto(Consumer, reason)
    /\ UNCHANGED <<queue, mtx, n, taken>>

\* The predicate is evaluated a last time after the timeout: return nullopt.
Timeout ==
    /\ pc[Consumer] = "lastCheck"
    /\ queue = <<>>
    /\ mtx' = Free
    /\ Goto(Consumer, "dequeue")
    /\ UNCHANGED <<queue, n, taken>>

ProducerStep(p) ==
    try_enqueue(p) \/ enqueue_or_clear_enqueue(p) \/ notify_one(p)

ConsumerStep == Acquire \/ Pop \/ Sleep \/ Timeout

Next ==
    \/ \E p \in Producers : Call(p) \/ ProducerStep(p) \/ get_current_size(p)
    \/ ConsumerStep
    \/ Wake

\* The threads run; a waiting thread gets the mutex in the end.  Nothing is
\* assumed of the timeout: an element must not need it to be noticed.
Spec ==
    /\ Init /\ [][Next]_vars
    /\ \A p \in Producers :
           /\ WF_vars(ProducerStep(p))
           /\ WF_vars(pc[p] = "get_current_size" /\ get_current_size(p))
    /\ SF_vars(Acquire)
    /\ WF_vars(Pop \/ Sleep \/ Timeout)

-----------------------------------------------------------------------------
(* Properties.                                                             *)

\* No wake-up is lost although producers notify after they released the mutex:
\* while the consumer sleeps on a queue that is not empty, a notification is
\* still to come (FunkyQueue.h:31-32, 65-66).
NoLostWakeup ==
    pc[Consumer] = "asleep" /\ queue # <<>> =>
        \E p \in Producers : pc[p] = "notify"

\* To its users the class is an atomic FIFO that never holds more than its
\* capacity, although a call is several steps of several threads: elements are
\* taken in the order they were offered, none twice, whatever was refused or
\* cleared in between.
Atomic == INSTANCE BoundedQueue WITH queue <- queue, taken <- taken,
    m_capacity <- m_capacity, Elements <- Elements
IsBoundedQueue == Atomic!QueueInit /\ [][Atomic!QueueNext]_(Atomic!queueVars)

\* An element in the queue is handed out in the end, without the help of the
\* timeout of wait_dequeue_timed.
ElementsAreTaken == WF_(Atomic!queueVars)(Atomic!Dequeue)

=============================================================================
