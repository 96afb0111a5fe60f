-------------------------- MODULE FunkyQueueProofs --------------------------
(***************************************************************************)
(* The queue keeps its promise for any number of producers, any capacity   *)
(* and any number of calls.                                                *)
(***************************************************************************)
EXTENDS FunkyQueue, TLAPS

Threads == Producers \cup {Consumer}

\* What the proofs need of the types: where the threads are, and that an
\* element being enqueued is one of the producer's.
FQType ==
    /\ queue \in Seq(Elements)
    /\ taken \in Seq(Elements)
    /\ n \in [Producers -> 0 .. MaxCalls]
    /\ DOMAIN pc = Threads
    /\ \A p \in Producers :
           /\ pc[p] \in {"idle", "try_enqueue", "enqueue_or_clear_enqueue",
                         "notify", "get_current_size"}
           /\ pc[p] \in {"try_enqueue", "enqueue_or_clear_enqueue"} => n[p] > 0

\* The types hold at the start ...
LEMMA InitType == Init => FQType
  BY QueueAssumption, ThreadAssumption
     DEF Init, FQType, Threads, Elements

\* ... and after every step of a thread.
LEMMA StepType == FQType /\ [Next]_vars => FQType'
<1> SUFFICES ASSUME FQType, [Next]_vars PROVE FQType'
  OBVIOUS
<1> USE QueueAssumption, ThreadAssumption DEF Threads, FQType, Goto
<1>1. ASSUME NEW p \in Producers, Call(p) PROVE FQType'
  BY <1>1 DEF Call, Lock
<1>2. ASSUME NEW p \in Producers, try_enqueue(p) PROVE FQType'
  <2>1. <<p, n[p]>> \in Elements
    BY <1>2 DEF try_enqueue, Elements
  <2>2. queue' \in Seq(Elements)
    <3>1. Append(queue, <<p, n[p]>>) \in Seq(Elements)
      BY <2>1
    <3> QED
      BY ONLY <1>2, <3>1, queue \in Seq(Elements) DEF try_enqueue
  <2> QED
    BY <1>2, <2>2 DEF try_enqueue, Unlock
<1>3. ASSUME NEW p \in Producers, enqueue_or_clear_enqueue(p) PROVE FQType'
  <2>1. <<p, n[p]>> \in Elements
    BY <1>3 DEF enqueue_or_clear_enqueue, Elements
  <2>2. queue' \in Seq(Elements)
    BY <1>3, <2>1 DEF enqueue_or_clear_enqueue
  <2> QED
    BY <1>3, <2>2 DEF enqueue_or_clear_enqueue, Unlock
<1>4. ASSUME NEW p \in Producers, notify_one(p) PROVE FQType'
  BY <1>4 DEF notify_one
<1>5. ASSUME NEW p \in Producers, get_current_size(p) PROVE FQType'
  BY <1>5 DEF get_current_size, Lock
<1>6. ASSUME Acquire PROVE FQType'
  BY <1>6 DEF Acquire, Lock
<1>7. ASSUME Pop PROVE FQType'
  <2>1. queue' \in Seq(Elements) /\ taken' \in Seq(Elements)
    BY <1>7 DEF Pop
  <2> QED
    BY <1>7, <2>1 DEF Pop
<1>8. ASSUME Sleep \/ Wake \/ Timeout PROVE FQType'
  BY <1>8 DEF Sleep, Wake, Timeout
<1>9. ASSUME UNCHANGED vars PROVE FQType'
  BY <1>9 DEF vars
<1> QED
  BY <1>1, <1>2, <1>3, <1>4, <1>5, <1>6, <1>7, <1>8, <1>9
     DEF Next, ProducerStep, ConsumerStep

\* Only the notification is needed, never the timeout: a consumer that sleeps
\* on a queue with elements has a notification coming.
THEOREM WakeupIsNotLost == Spec => []NoLostWakeup
<1> USE ThreadAssumption DEF Threads, FQType, Goto
<1>1. Init => NoLostWakeup
  BY DEF Init, NoLostWakeup
<1>2. FQType /\ NoLostWakeup /\ [Next]_vars => NoLostWakeup'
  <2> SUFFICES ASSUME FQType, NoLostWakeup, [Next]_vars PROVE NoLostWakeup'
    OBVIOUS
  <2> USE DEF NoLostWakeup
  <2>1. ASSUME NEW p \in Producers, Call(p) PROVE NoLostWakeup'
    BY <2>1 DEF Call, Lock
  <2>2. ASSUME NEW p \in Producers, try_enqueue(p) PROVE NoLostWakeup'
    BY <2>2 DEF try_enqueue, Unlock
  <2>3. ASSUME NEW p \in Producers, enqueue_or_clear_enqueue(p)
        PROVE NoLostWakeup'
    BY <2>3 DEF enqueue_or_clear_enqueue, Unlock
  <2>4. ASSUME NEW p \in Producers, notify_one(p) PROVE NoLostWakeup'
    BY <2>4 DEF notify_one
  <2>5. ASSUME NEW p \in Producers, get_current_size(p) PROVE NoLostWakeup'
    BY <2>5 DEF get_current_size, Lock
  <2>6. ASSUME Acquire PROVE NoLostWakeup'
    BY <2>6 DEF Acquire, Lock
  <2>7. ASSUME Pop \/ Sleep \/ Wake \/ Timeout PROVE NoLostWakeup'
    BY <2>7 DEF Pop, Sleep, Wake, Timeout
  <2>8. ASSUME UNCHANGED vars PROVE NoLostWakeup'
    BY <2>8 DEF vars
  <2> QED
    BY <2>1, <2>2, <2>3, <2>4, <2>5, <2>6, <2>7, <2>8
       DEF Next, ProducerStep, ConsumerStep
<1> QED
  BY <1>1, <1>2, InitType, StepType, PTL DEF Spec

\* The class implements the atomic bounded FIFO the streams are built on.
THEOREM ImplementsBoundedQueue == Spec => IsBoundedQueue
<1> USE DEF Atomic!queueVars
<1>1. Init => Atomic!QueueInit
  BY DEF Init, Atomic!QueueInit
<1>2. FQType /\ [Next]_vars => [Atomic!QueueNext]_(Atomic!queueVars)
  <2> SUFFICES ASSUME FQType, [Next]_vars
               PROVE  Atomic!QueueNext \/ UNCHANGED <<queue, taken>>
    OBVIOUS
  <2> USE DEF Atomic!QueueNext, Atomic!Full
  <2>1. ASSUME NEW p \in Producers, try_enqueue(p)
        PROVE  Atomic!QueueNext \/ UNCHANGED <<queue, taken>>
    <3>1. <<p, n[p]>> \in Elements
      BY <2>1, QueueAssumption DEF try_enqueue, Elements, FQType
    <3>2. CASE Len(queue) < m_capacity
      <4>1. Atomic!Enqueue(<<p, n[p]>>)
        BY ONLY <2>1, <3>2, QueueAssumption, FQType
           DEF try_enqueue, Unlock, Atomic!Enqueue, Atomic!Full, FQType
      <4> QED
        BY <3>1, <4>1
    <3>3. CASE ~(Len(queue) < m_capacity)
      BY ONLY <2>1, <3>3 DEF try_enqueue, Unlock
    <3> QED
      BY <3>2, <3>3
  <2>2. ASSUME NEW p \in Producers, enqueue_or_clear_enqueue(p)
        PROVE  Atomic!QueueNext \/ UNCHANGED <<queue, taken>>
    <3>1. <<p, n[p]>> \in Elements
      BY <2>2, QueueAssumption DEF enqueue_or_clear_enqueue, Elements, FQType
    <3> QED
      BY <2>2, <3>1, QueueAssumption
         DEF enqueue_or_clear_enqueue, Unlock, Atomic!Enqueue,
             Atomic!ClearEnqueue, FQType
  <2>3. ASSUME Pop PROVE Atomic!QueueNext
    BY <2>3 DEF Pop, Atomic!Dequeue
  <2>4. ASSUME NEW p \in Producers,
               Call(p) \/ notify_one(p) \/ get_current_size(p)
        PROVE  UNCHANGED <<queue, taken>>
    BY <2>4 DEF Call, notify_one, get_current_size
  <2>5. ASSUME Acquire \/ Sleep \/ Wake \/ Timeout \/ UNCHANGED vars
        PROVE  UNCHANGED <<queue, taken>>
    BY <2>5 DEF Acquire, Sleep, Wake, Timeout, vars
  <2> QED
    BY <2>1, <2>2, <2>3, <2>4, <2>5 DEF Next, ProducerStep, ConsumerStep
<1> QED
  BY <1>1, <1>2, InitType, StepType, PTL DEF Spec, IsBoundedQueue
=============================================================================
