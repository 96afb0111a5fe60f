---------------------------- MODULE BoundedQueue ----------------------------
(***************************************************************************)
(* What a data queue between two threads promises: a FIFO of at most       *)
(* m_capacity elements whose operations are atomic.  FunkyQueue shows that *)
(* the class of that name keeps the promise; the streams are modelled on   *)
(* top of it.                                                              *)
(***************************************************************************)
EXTENDS Naturals, Sequences

CONSTANTS m_capacity, Elements

VARIABLES
    queue,  \* the elements waiting, oldest first
    taken   \* every element handed to the consumer, in order

queueVars == <<queue, taken>>

QueueInit == queue = <<>> /\ taken = <<>>

Full == Len(queue) >= m_capacity

Enqueue(x) ==
    /\ ~Full
    /\ queue' = Append(queue, x)
    /\ UNCHANGED taken

\* A full queue makes space by forgetting everything it holds.
ClearEnqueue(x) ==
    /\ Full
    /\ queue' = <<x>>
    /\ UNCHANGED taken

Dequeue ==
    /\ queue # <<>>
    /\ queue' = Tail(queue)
    /\ taken' = Append(taken, Head(queue))

QueueNext == (\E x \in Elements : Enqueue(x) \/ ClearEnqueue(x)) \/ Dequeue

\* A consumer that keeps asking gets what is there.
QueueSpec == QueueInit /\ [][QueueNext]_queueVars /\ WF_queueVars(Dequeue)
=============================================================================
