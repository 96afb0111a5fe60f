----------------------------- MODULE FECDecoder -----------------------------
(***************************************************************************)
(* The receive side of an FEC protected stream (class FECDecoder).         *)
(*                                                                         *)
(* The decoder is handed fragments by the radio.  Nothing is assumed of    *)
(* their order: they may be lost, repeated (several receiving cards hear   *)
(* the same packet) and reordered, so the environment offers any fragment  *)
(* of any block at any time.  What it may not do is invent one: block b    *)
(* consists of NPrimary[b] data fragments and NSecondary[b] correction     *)
(* fragments, the layout the encoder announced in each packet header.      *)
(*                                                                         *)
(* One action is one call of process_valid_packet, together with every     *)
(* block the call evicts, forwards, rebuilds and removes.                  *)
(***************************************************************************)
EXTENDS RxBlock, Sequences

CONSTANTS
    BlockIdx,               \* the block indices the sender uses
    NPrimary, NSecondary,   \* the layout of each block
    RX_QUEUE_MAX_SIZE,      \* depth of the rx queue
    maxNFragmentsPerBlock,  \* size of the fragment map of a block
    m_forward_gapped_fragments

ASSUME LayoutAssumption ==
    /\ BlockIdx \subseteq Nat
    /\ maxNFragmentsPerBlock \in Nat
    /\ NPrimary \in [BlockIdx -> 1 .. maxNFragmentsPerBlock]
    /\ NSecondary \in [BlockIdx -> Nat]

ASSUME DecoderAssumption ==
    /\ RX_QUEUE_MAX_SIZE \in 1 .. 19
    /\ m_forward_gapped_fragments \in BOOLEAN

VARIABLES
    rx_queue,          \* the unfinished blocks, oldest first
    last_known_block,  \* newest block index seen, NoBlock before the first
    stats,             \* FECRxStats, the counters of blocks and fragments
    out,               \* the pulls of the last call, in the order they were sent
    delivered,         \* every <<block, fragment>> sent up since the last reset
    session            \* first block and lost count when the session began

vars == <<rx_queue, last_known_block, stats, out, delivered, session>>

\* last_known_block is a uint64_t that starts at (uint64_t)-1.
NoBlock == -1

\* The fragments the encoder makes of block b.
Fragments(b) == 0 .. (NPrimary[b] + NSecondary[b] - 1)

\* A pull of one block, as it is passed to mSendDecodedPayloadCallback.
Batch(block, discard) ==
    [block |-> block.blockIdx, frags |-> Pull(block, discard)]

Emitted(batches) ==
    UNION {{<<batches[i].block, f>> : f \in batches[i].frags} :
               i \in DOMAIN batches}

Init ==
    /\ rx_queue = <<>>
    /\ last_known_block = NoBlock
    /\ stats = [total |-> 0, lost |-> 0, recovered |-> 0, fragments |-> 0]
    /\ out = <<>>
    /\ delivered = {}
    /\ session = [first |-> NoBlock, lostBefore |-> 0]

-----------------------------------------------------------------------------
(* Finding or creating the block of a packet: rxRingFindCreateBlockByIdx.  *)

InQueue(b) == \E i \in DOMAIN rx_queue : rx_queue[i].blockIdx = b

AlreadyProcessed(b) ==
    ~InQueue(b) /\ last_known_block # NoBlock /\ b <= last_known_block

NNeededNewBlocks(b) ==
    IF last_known_block = NoBlock THEN 1 ELSE b - last_known_block

\* Mutants: the skipped blocks are not counted as lost, or are counted without
\* the test that any were skipped.
NSkippedUncounted(b) == 0
NSkippedUnchecked(b) == NNeededNewBlocks(b) - RX_QUEUE_MAX_SIZE

\* Blocks that never enter the queue because it is too short for the jump.
NSkipped(b) ==
    IF ~InQueue(b) /\ NNeededNewBlocks(b) > RX_QUEUE_MAX_SIZE
    THEN NNeededNewBlocks(b) - RX_QUEUE_MAX_SIZE
    ELSE 0

\* Mutant: only the packet's own block is created, not the missing ones before.
OwnBlockOnly(b) == IF InQueue(b) THEN 0 ELSE 1

NNewBlocks(b) ==
    IF InQueue(b) THEN 0
    ELSE IF NNeededNewBlocks(b) > RX_QUEUE_MAX_SIZE THEN RX_QUEUE_MAX_SIZE
    ELSE NNeededNewBlocks(b)

\* rxRingCreateNewSafe in a loop: with n new blocks, the oldest ones beyond the
\* capacity leave at the front.  n is at most the capacity, so none of the new
\* blocks is among them.
NEvicted(b) ==
    IF Len(rx_queue) + NNewBlocks(b) > RX_QUEUE_MAX_SIZE
    THEN Len(rx_queue) + NNewBlocks(b) - RX_QUEUE_MAX_SIZE
    ELSE 0

Evictions(b) == [i \in 1 .. NEvicted(b) |-> Batch(rx_queue[i], TRUE)]

NewBlocks(b) ==
    [i \in 1 .. NNewBlocks(b) |-> NewRxBlock(b - NNewBlocks(b) + i)]

\* The queue in which the packet's block is found.
Ring(b) ==
    SubSeq(rx_queue, NEvicted(b) + 1, Len(rx_queue)) \o NewBlocks(b)

\* rxQueuePopFront counts a block that is not entirely forwarded as lost.
NLost(queue, n, discard) ==
    Cardinality({i \in 1 .. n :
        ~allPrimaryFragmentsHaveBeenForwarded(Pulled(queue[i], discard))})

-----------------------------------------------------------------------------
(* Steps shared by the outcomes of process_with_rx_queue.  A call evicts   *)
(* and creates blocks, then changes the queue to `queue`, sends `batches`, *)
(* and drops `nFlushed` further blocks at the front; recovered is the set  *)
(* of fragments that FEC rebuilt in the packet's block.                    *)

Step(b, queue, batches, nFlushed, recovered) ==
    LET lost == NSkipped(b) + NLost(rx_queue, NEvicted(b), TRUE)
                + NLost(Ring(b), nFlushed, m_forward_gapped_fragments)
    IN  /\ rx_queue' = queue
        /\ last_known_block' = IF InQueue(b) THEN last_known_block ELSE b
        /\ out' = Evictions(b) \o batches
        /\ delivered' = delivered \cup Emitted(out')
        /\ stats' = [stats EXCEPT
                        !.total = @ + NNewBlocks(b),
                        !.lost = @ + lost,
                        !.recovered = @ + IF recovered = {} THEN 0 ELSE 1,
                        !.fragments = @ + Cardinality(recovered)]
        /\ session' = [session EXCEPT
                          !.first = IF @ = NoBlock THEN b ELSE @]

\* The packet's block, the i-th of the ring, with the new fragment in it.
WithFragment(b, f, i) == addFragment(Ring(b)[i], f, NPrimary[b])

\* The packet is accepted into the i-th block of the ring.
Accepted(b, f, i) ==
    /\ f < maxNFragmentsPerBlock
    /\ ~AlreadyProcessed(b)
    /\ i \in DOMAIN Ring(b)
    /\ Ring(b)[i].blockIdx = b
    /\ ~hasFragment(Ring(b)[i], f)

\* The packet changes nothing: its fragment index is out of bounds, its block
\* is already processed, or the fragment is already there.
Ignore(b, f) ==
    /\ \/ f >= maxNFragmentsPerBlock
       \/ AlreadyProcessed(b)
       \/ \E i \in DOMAIN rx_queue :
              /\ rx_queue[i].blockIdx = b
              /\ hasFragment(rx_queue[i], f)
    /\ out' = <<>>
    /\ UNCHANGED <<rx_queue, last_known_block, stats, delivered, session>>

\* The block is the oldest one: forward up to the first gap and keep it.
ForwardFront(b, f) ==
    LET block == WithFragment(b, f, 1)
    IN  /\ Accepted(b, f, 1)
        /\ ~allPrimaryFragmentsHaveBeenForwarded(Pulled(block, FALSE))
        /\ ~allPrimaryFragmentsCanBeRecovered(block)
        /\ Step(b, [Ring(b) EXCEPT ![1] = Pulled(block, FALSE)],
                <<Batch(block, FALSE)>>, 0, {})

\* ... all its data has been forwarded: remove it.
CompleteFront(b, f) ==
    LET block == WithFragment(b, f, 1)
    IN  /\ Accepted(b, f, 1)
        /\ allPrimaryFragmentsHaveBeenForwarded(Pulled(block, FALSE))
        /\ Step(b, Tail(Ring(b)), <<Batch(block, FALSE)>>, 0, {})

\* ... it can be recovered: forward what is there, rebuild the rest, forward
\* it and remove the block.
RecoverFront(b, f) ==
    LET block == WithFragment(b, f, 1)
        pulled == Pulled(block, FALSE)
    IN  /\ Accepted(b, f, 1)
        /\ ~allPrimaryFragmentsHaveBeenForwarded(pulled)
        /\ allPrimaryFragmentsCanBeRecovered(block)
        /\ Step(b, Tail(Ring(b)),
                <<Batch(block, FALSE),
                  Batch(reconstructAllMissingData(pulled), FALSE)>>,
                0, MissingPrimary(block))

\* Mutant: a block behind the oldest is only given to FEC once all its data
\* has arrived.
StoreRecoverable(b, f, i) ==
    LET block == WithFragment(b, f, i)
    IN  /\ Accepted(b, f, i)
        /\ ~allPrimaryFragmentsAreAvailable(block)
        /\ Step(b, [Ring(b) EXCEPT ![i] = block], <<>>, 0, {})

\* The block is behind an older one and still incomplete: keep the fragment.
StoreBehind(b, f, i) ==
    LET block == WithFragment(b, f, i)
    IN  /\ Accepted(b, f, i)
        /\ ~allPrimaryFragmentsAreAvailable(block)
        /\ ~allPrimaryFragmentsCanBeRecovered(block)
        /\ Step(b, [Ring(b) EXCEPT ![i] = block], <<>>, 0, {})

\* ... it is complete or can be recovered: give up every older block, then
\* forward this one and remove it.
Flush(b, f, i) ==
    LET block == WithFragment(b, f, i)
        older == [j \in 1 .. i - 1 |->
                     Batch(Ring(b)[j], m_forward_gapped_fragments)]
    IN  /\ Accepted(b, f, i)
        /\ \/ allPrimaryFragmentsAreAvailable(block)
           \/ allPrimaryFragmentsCanBeRecovered(block)
        /\ Step(b, SubSeq(Ring(b), i + 1, Len(Ring(b))),
                Append(older, Batch(reconstructAllMissingData(block), FALSE)),
                i - 1, MissingPrimary(block))

\* reset_rx_queue, on a new session: the sender restarted and numbers its
\* blocks from zero again.  The unfinished blocks go without being counted.
reset_rx_queue ==
    /\ rx_queue' = <<>>
    /\ last_known_block' = NoBlock
    /\ out' = <<>>
    /\ delivered' = {}
    /\ session' = [first |-> NoBlock, lostBefore |-> stats.lost]
    /\ UNCHANGED stats

process_valid_packet(b, f) ==
    \/ Ignore(b, f)
    \/ ForwardFront(b, f)
    \/ CompleteFront(b, f)
    \/ RecoverFront(b, f)
    \/ \E i \in 2 .. RX_QUEUE_MAX_SIZE : StoreBehind(b, f, i)
    \/ \E i \in 2 .. RX_QUEUE_MAX_SIZE : Flush(b, f, i)

Next ==
    \/ reset_rx_queue
    \/ \E b \in BlockIdx : \E f \in Fragments(b) : process_valid_packet(b, f)

Spec == Init /\ [][Next]_vars

-----------------------------------------------------------------------------
(* Properties.                                                             *)

TypeOK ==
    /\ rx_queue \in Seq(RxBlockType)
    /\ last_known_block \in Nat \cup {NoBlock}
    /\ stats \in [total: Nat, lost: Nat, recovered: Nat, fragments: Nat]
    /\ out \in Seq([block: Nat, frags: SUBSET Nat])
    /\ delivered \subseteq Nat \X Nat
    /\ session \in [first: Nat \cup {NoBlock}, lostBefore: Nat]

\* The rx ring never exceeds its depth and has no gaps between the block
\* indices (FECDecoder.cpp:156): it holds the newest blocks, ending with
\* last_known_block, whatever mix of evictions, skips and flushes led here.
QueueContiguous ==
    /\ Len(rx_queue) <= RX_QUEUE_MAX_SIZE
    /\ \A i \in DOMAIN rx_queue :
           rx_queue[i].blockIdx = last_known_block - Len(rx_queue) + i

\* A block that FEC can complete never waits in the queue: each queued block
\* lacks more fragments than it has, so a block is given up as lost only when
\* fewer than NPrimary of its fragments arrived in time.
NoDecodableBlockWaits ==
    \A i \in DOMAIN rx_queue :
        ~allPrimaryFragmentsCanBeRecovered(rx_queue[i])

\* Lexicographic order of <<block, fragment>>, the order of the sender's data.
Before(x, y) == x[1] < y[1] \/ (x[1] = y[1] /\ x[2] < y[2])

\* "data forwarded on this callback is always in-order but possibly with gaps"
\* (FECDecoder.h:42): whatever a call sends comes after all that was sent
\* before in the session, and the pulls of one call follow each other in order.
\* In particular nothing is sent twice.
InOrderDelivery ==
    [][/\ \A x \in delivered, y \in Emitted(out') : Before(x, y)
       /\ \A i, j \in DOMAIN out' : i < j =>
              \A f \in out'[i].frags, g \in out'[j].frags :
                  Before(<<out'[i].block, f>>, <<out'[j].block, g>>)]_vars

\* Only data the sender made is handed up.
DeliveredIsData ==
    \A x \in delivered : x[1] \in BlockIdx /\ x[2] < NPrimary[x[1]]

\* The assertions on the way to FEC hold for every packet that may come next:
\* fecDecode is given exactly as many correction fragments as data fragments
\* are missing (FEC.h:105-108), and a rebuilt block is forwarded to its last
\* fragment (FECDecoder.cpp:210, 237, 243).
FecAssertions ==
    \A b \in BlockIdx : \A f \in Fragments(b), i \in 1 .. RX_QUEUE_MAX_SIZE :
        LET block == WithFragment(b, f, i)
            start == IF i = 1 THEN Pulled(block, FALSE) ELSE block
        IN  Accepted(b, f, i) /\ allPrimaryFragmentsCanBeRecovered(block) =>
                /\ Cardinality(MissingPrimary(block)) =
                       Cardinality(AvailableSecondary(block))
                /\ allPrimaryFragmentsHaveBeenForwarded(
                       Pulled(reconstructAllMissingData(start), FALSE))

\* The blocks of the session of which every data fragment has been sent up.
CompleteBlocks ==
    {b \in BlockIdx : \A f \in 0 .. NPrimary[b] - 1 : <<b, f>> \in delivered}

\* Every block between the first and the newest one of a session is accounted
\* for exactly once: forwarded completely, counted as lost, or still queued.
\* The lost count is what the ground reports of its link (wb_link.cpp:985).
BlocksAccounted ==
    last_known_block # NoBlock =>
        (stats.lost - session.lostBefore) + Cardinality(CompleteBlocks)
            + Len(rx_queue) = last_known_block - session.first + 1

=============================================================================
