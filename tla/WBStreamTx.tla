----------------------------- MODULE WBStreamTx -----------------------------
(***************************************************************************)
(* The sending side of a stream (class WBStreamTx): a producer thread (the *)
(* video encoder, the telemetry) hands in frames or packets, a thread of   *)
(* the stream takes them from the data queue, splits frames into FEC       *)
(* blocks and injects the result.                                          *)
(*                                                                         *)
(* The queue is the atomic one that FunkyQueue implements.  An instance    *)
(* either does FEC and takes frames, or does not and takes packets.        *)
(***************************************************************************)
EXTENDS BlockSizeHelper, BoundedQueue, SequencesExt

CONSTANTS
    Shapes,   \* what a frame may look like, see Item
    MaxItems  \* bound on the items handed in

ASSUME TxAssumption ==
    /\ m_capacity \in Nat \ {0} /\ MaxItems \in Nat
    /\ \A shape \in Shapes :
           /\ shape.n \in Nat \ {0} /\ shape.bytes \in Nat \ {0}
           /\ shape.max \in 1 .. MAX_N_P_FRAGMENTS_PER_BLOCK
           /\ shape.perc \in Nat \ {0}

VARIABLES
    enable_fec,
    n_offered,             \* items handed in, which also numbers them
    m_n_dropped_packets,
    m_n_dropped_frames,
    lastKey,               \* the last item handed in by enqueue_block_dropping
    rejected,              \* items refused because of a fragment's size
    thread,                \* the processing thread: "loop" (at its
                           \* test), "waiting" (for data), "sending", "exited"
    m_process_data_thread_run,
    blocks,                \* the blocks of the item the thread has taken
    next                   \* the one of them it sends next

stats == <<m_n_dropped_packets, m_n_dropped_frames>>
threadVars == <<thread, m_process_data_thread_run, blocks, next>>
history == <<lastKey, rejected>>
vars == <<queue, taken, enable_fec, n_offered, stats, history, threadVars>>

TxInit ==
    /\ QueueInit
    /\ enable_fec \in BOOLEAN
    /\ n_offered = 0 /\ rejected = 0 /\ lastKey = 0
    /\ m_n_dropped_packets = 0
    /\ m_n_dropped_frames = 0
    /\ thread = "loop"
    /\ m_process_data_thread_run = TRUE
    /\ blocks = <<>>
    /\ next = 1

\* An EnqueuedBlock or EnqueuedPacket: the shape gives the fragments of a frame
\* (or the bytes of a frame that is not yet fragmented), the limit and the FEC
\* percentage in force when it was handed in, and the injections of a packet.
Item(kind, shape) == [id |-> n_offered + 1, kind |-> kind, shape |-> shape]

-----------------------------------------------------------------------------
(* The producer.  Each call runs while the stream is not being destroyed.  *)

Offer(fec) ==
    /\ m_process_data_thread_run
    /\ enable_fec = fec
    /\ n_offered < MaxItems
    /\ n_offered' = n_offered + 1
    /\ UNCHANGED <<enable_fec, threadVars>>

\* A frame with an empty or too big fragment is not taken, by either call.
Reject ==
    /\ Offer(TRUE)
    /\ rejected' = rejected + 1
    /\ UNCHANGED <<queue, taken, lastKey, m_n_dropped_packets, m_n_dropped_frames>>

\* try_enqueue into the data queue; a refused item costs nPackets packets and
\* nFrames frames.
TryEnqueue(item, nPackets, nFrames) ==
    /\ UNCHANGED rejected
    /\ \/ /\ Enqueue(item)
          /\ UNCHANGED <<m_n_dropped_packets, m_n_dropped_frames>>
       \/ /\ Full
          /\ m_n_dropped_packets' = m_n_dropped_packets + nPackets
          /\ m_n_dropped_frames' = m_n_dropped_frames + nFrames
          /\ UNCHANGED queueVars

try_enqueue_block(shape) ==
    /\ Offer(TRUE)
    /\ TryEnqueue(Item("block", shape), shape.n, 1)
    /\ UNCHANGED lastKey

\* Mutants: the frames that made space are not counted; a full queue refuses
\* the frame as try_enqueue_block does.
DroppingUncounted(shape) ==
    /\ Offer(TRUE)
    /\ Enqueue(Item("idr", shape)) \/ ClearEnqueue(Item("idr", shape))
    /\ m_n_dropped_packets' = m_n_dropped_packets + (IF Full THEN shape.n ELSE 0)
    /\ lastKey' = n_offered'
    /\ UNCHANGED <<rejected, m_n_dropped_frames>>

DroppingTheNew(shape) ==
    /\ Offer(TRUE)
    /\ TryEnqueue(Item("idr", shape), shape.n, 1)
    /\ lastKey' = n_offered'

\* A full queue is cleared for the new frame.  The frames that went are
\* counted; the fragments counted are those of the new frame.
enqueue_block_dropping(shape) ==
    /\ Offer(TRUE)
    /\ lastKey' = n_offered'
    /\ UNCHANGED rejected
    /\ \/ /\ Enqueue(Item("idr", shape))
          /\ UNCHANGED <<m_n_dropped_packets, m_n_dropped_frames>>
       \/ /\ ClearEnqueue(Item("idr", shape))
          /\ m_n_dropped_packets' = m_n_dropped_packets + shape.n
          /\ m_n_dropped_frames' = m_n_dropped_frames + Len(queue)

\* A frame that is not yet fragmented.
try_enqueue_frame(shape) ==
    /\ Offer(TRUE)
    /\ TryEnqueue(Item("frame", shape), 1, 1)
    /\ UNCHANGED lastKey

try_enqueue_packet(shape) ==
    /\ Offer(FALSE)
    /\ TryEnqueue(Item("packet", shape), 1, 0)
    /\ UNCHANGED lastKey

enqueue_packet_dropping(shape) ==
    /\ Offer(FALSE)
    /\ \/ /\ Enqueue(Item("packet", shape))
          /\ UNCHANGED m_n_dropped_packets
       \/ /\ ClearEnqueue(Item("packet", shape))
          /\ m_n_dropped_packets' = m_n_dropped_packets + Len(queue)
    /\ UNCHANGED <<m_n_dropped_frames, history>>

-----------------------------------------------------------------------------
(* The thread of the stream: loop_process_data.                            *)

\* process_enqueued_block / dirty_process_enqueued_frame: the blocks of an item
\* with the sizes that will be in their headers.
Block(item, nPrimary) ==
    [item |-> item.id, nPrimary |-> nPrimary, nData |-> nPrimary,
     nSecondary |-> calculate_n_secondary_fragments(nPrimary, item.shape.perc)]

BlocksOfFrame(item) ==
    LET sizes == calculate_best_fit_block_sizes(item.shape.n, item.shape.max)
    IN  [i \in DOMAIN sizes |-> Block(item, sizes[i])]

\* An unfragmented frame becomes one block, whatever the limit is.
BlockOfBytes(item) ==
    LET nPrimary == div_ceil(item.shape.bytes, MTU)
    IN  <<[Block(item, nPrimary) EXCEPT
              !.nData = Len(FragmentSizes(item.shape.bytes, nPrimary))]>>

\* process_enqueued_packet: one packet with one sequence number, sent often.
PacketInjections(item) ==
    <<[item |-> item.id, nPrimary |-> 1, nData |-> item.shape.injections,
       nSecondary |-> 0]>>

BlocksOf(item) ==
    CASE item.kind = "packet" -> PacketInjections(item)
      [] item.kind = "frame"  -> BlockOfBytes(item)
      [] OTHER                -> BlocksOfFrame(item)

\* The test of the loop, then wait_dequeue_timed.
LoopTest ==
    /\ thread = "loop"
    /\ thread' = IF m_process_data_thread_run THEN "waiting" ELSE "exited"
    /\ UNCHANGED <<queueVars, enable_fec, n_offered, stats, history,
                   m_process_data_thread_run, blocks, next>>

TakeItem ==
    /\ thread = "waiting"
    /\ Dequeue
    /\ blocks' = BlocksOf(Head(queue))
    /\ next' = 1
    /\ thread' = "sending"
    /\ UNCHANGED <<enable_fec, n_offered, stats, history,
                   m_process_data_thread_run>>

\* Mutant: the thread waits for data without a timeout.
NoTimeout == FALSE /\ UNCHANGED vars

\* No data within the timeout of wait_dequeue_timed.
Timeout ==
    /\ thread = "waiting"
    /\ queue = <<>>
    /\ thread' = "loop"
    /\ UNCHANGED <<queueVars, enable_fec, n_offered, stats, history,
                   m_process_data_thread_run, blocks, next>>

\* encode_block or process_enqueued_packet: everything of one block is
\* injected, then the next one.
SendBlock ==
    /\ thread = "sending"
    /\ next' = next + 1
    /\ thread' = IF next = Len(blocks) THEN "loop" ELSE "sending"
    /\ UNCHANGED <<queueVars, enable_fec, n_offered, stats, history,
                   m_process_data_thread_run, blocks>>

\* ~WBStreamTx begins: the thread leaves its loop the next time it gets to its
\* test, and is joined.
Destroy ==
    /\ m_process_data_thread_run
    /\ m_process_data_thread_run' = FALSE
    /\ UNCHANGED <<queueVars, enable_fec, n_offered, stats, history, thread,
                   blocks, next>>

TxNext ==
    \/ Reject
    \/ \E shape \in Shapes :
           \/ try_enqueue_block(shape) \/ enqueue_block_dropping(shape)
           \/ try_enqueue_frame(shape)
           \/ try_enqueue_packet(shape) \/ enqueue_packet_dropping(shape)
    \/ LoopTest \/ TakeItem \/ Timeout \/ SendBlock
    \/ Destroy

\* The thread runs, and its wait ends with data or after 100 ms.
TxSpec ==
    /\ TxInit /\ [][TxNext]_vars
    /\ WF_vars(LoopTest \/ TakeItem \/ Timeout \/ SendBlock)

-----------------------------------------------------------------------------
(* Properties.                                                             *)

\* Every item that was handed in and not rejected is injected, in work, queued
\* or counted as dropped, exactly once, over all refusals and clears of the
\* queue.  The count drives the bitrate of the encoder.
ItemsAccounted ==
    n_offered - rejected =
        Len(taken) + Len(queue)
            + (IF enable_fec THEN m_n_dropped_frames ELSE m_n_dropped_packets)

\* The places for fragments in some blocks.
Places(bs) == UNION {{i} \X (1 .. bs[i].nPrimary) : i \in DOMAIN bs}

\* A reference for the split of a frame (BlockSizeHelper.hpp:57-60): a place for
\* each of its fragments, in as few blocks as the limit allows, the sizes
\* differing by at most one.
SplitIsEven ==
    thread = "sending" /\ Last(taken).kind \in {"block", "idr"} =>
        LET shape == Last(taken).shape
            size(i) == blocks[i].nPrimary
        IN  /\ Cardinality(Places(blocks)) = shape.n
            /\ (Len(blocks) - 1) * shape.max < shape.n
            /\ \A i, j \in DOMAIN blocks :
                   size(i) <= shape.max /\ size(i) <= size(j) + 1

\* What the encoder asserts of a block (FECEncoder.cpp:19-20) or assumes: it
\* fits the tables, has correction data if FEC is on, and has as many data
\* fragments as its header says.  There are two exceptions: a frame handed in as
\* bytes is one block however long it is (WBStreamTx.cpp:288), and the settings
\* allow a percentage that asks for more correction fragments than the tables
\* hold (validate_settings_helper.h:74).
EncoderAssertions ==
    thread = "sending" /\ enable_fec =>
        \A i \in DOMAIN blocks :
            /\ blocks[i].nPrimary >= 1
            /\ \/ blocks[i].nPrimary <= MAX_N_P_FRAGMENTS_PER_BLOCK
               \/ /\ Last(taken).kind = "frame"
                  /\ Last(taken).shape.bytes > MAX_N_P_FRAGMENTS_PER_BLOCK * MTU
            /\ blocks[i].nData = blocks[i].nPrimary
            /\ blocks[i].nSecondary >= 1
            /\ \/ blocks[i].nSecondary <= MAX_N_S_FRAGMENTS_PER_BLOCK
               \/ blocks[i].nPrimary * Last(taken).shape.perc
                      > 100 * MAX_N_S_FRAGMENTS_PER_BLOCK

\* What reaches the encoder is the whole frame in blocks it can encode: the
\* split of BlockSizeHelper.hpp and the assertions of FECEncoder.cpp together.
BlocksAreValid == SplitIsEven /\ EncoderAssertions

\* The point of enqueue_block_dropping: a key frame is sent even when it comes
\* to a full queue, unless a later key frame pushes it out or the stream is
\* destroyed.
Sent(id) == \E i \in DOMAIN taken : taken[i].id = id
KeyFramesAreSent ==
    \A id \in 1 .. MaxItems :
        lastKey = id ~>
            Sent(id) \/ lastKey > id \/ ~m_process_data_thread_run

\* The destructor returns: the thread ends although nobody feeds it any more.
ThreadIsJoined == ~m_process_data_thread_run ~> thread = "exited"
=============================================================================
