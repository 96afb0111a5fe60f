------------------------------- MODULE FECLink -------------------------------
(***************************************************************************)
(* An FEC protected stream end to end: the encoder (class FECEncoder), the *)
(* air and the receive queue (FECDecoder).                                 *)
(*                                                                         *)
(* The encoder numbers its blocks with a uint32_t and hands the fragments  *)
(* of a block, data first, to the radio.  One receiving card keeps their   *)
(* order; a packet on air may be lost, and a second card may hear it too,  *)
(* in which case the receive queue sees it twice.                          *)
(***************************************************************************)
EXTENDS FECDecoder

CONSTANTS
    IdxModulus,  \* 2^32 in the code: m_curr_block_idx is a uint32_t
    MaxBlocks    \* bound on the blocks encoded in a behaviour

ASSUME LinkAssumption ==
    /\ IdxModulus \in Nat \ {0} /\ MaxBlocks \in Nat
    /\ BlockIdx = 0 .. IdxModulus - 1
    \* MAX_TOTAL_FRAGMENTS_PER_BLOCK holds what the encoder may make.
    /\ \A b \in BlockIdx : NPrimary[b] + NSecondary[b] <= maxNFragmentsPerBlock

VARIABLES
    m_curr_block_idx,  \* index of the block that is encoded next
    n_encoded,         \* blocks encoded so far, never wraps
    air,               \* packets sent and not yet received, in order
    lost_on_air,       \* how many fragments of each block were lost
    n_arrived          \* blocks whose last fragment has left the air

linkVars == <<vars, m_curr_block_idx, n_encoded, air, lost_on_air, n_arrived>>

LinkInit ==
    /\ Init
    /\ m_curr_block_idx = 0
    /\ n_encoded = 0
    /\ air = <<>>
    /\ lost_on_air = [b \in BlockIdx |-> 0]
    /\ n_arrived = 0

\* Mutant: the index of the first correction fragment is that of the last data
\* fragment.
OverlappingPackets(b) ==
    [i \in 1 .. NPrimary[b] + NSecondary[b] |->
        <<b, IF i > NPrimary[b] THEN i - 2 ELSE i - 1>>]

\* The fragments create_forward_save_fragment and create_fec_packets pass on:
\* fragment_idx counts through the data fragments and on through the
\* correction fragments.  No correction fragment when NSecondary is 0.
Packets(b) == [i \in 1 .. NPrimary[b] + NSecondary[b] |-> <<b, i - 1>>]

\* encode_block: one block, sent in full before the next one is begun.
encode_block ==
    /\ n_encoded < MaxBlocks
    /\ air' = air \o Packets(m_curr_block_idx)
    /\ m_curr_block_idx' = (m_curr_block_idx + 1) % IdxModulus
    /\ n_encoded' = n_encoded + 1
    /\ lost_on_air' = [lost_on_air EXCEPT ![m_curr_block_idx] = 0]
    /\ UNCHANGED <<vars, n_arrived>>

\* The first packet on air is the last one of its block.
LastOfBlock == Head(air)[2] = NPrimary[Head(air)[1]] + NSecondary[Head(air)[1]] - 1

LeaveAir ==
    /\ air' = Tail(air)
    /\ n_arrived' = IF LastOfBlock THEN n_arrived + 1 ELSE n_arrived

Receive ==
    /\ air # <<>>
    /\ process_valid_packet(Head(air)[1], Head(air)[2])
    /\ LeaveAir
    /\ UNCHANGED <<m_curr_block_idx, n_encoded, lost_on_air>>

\* A second card hears the packet as well.
ReceiveTwice ==
    /\ air # <<>>
    /\ process_valid_packet(Head(air)[1], Head(air)[2])
    /\ UNCHANGED <<m_curr_block_idx, n_encoded, air, lost_on_air, n_arrived>>

Lose ==
    /\ air # <<>>
    /\ LeaveAir
    /\ lost_on_air' = [lost_on_air EXCEPT ![Head(air)[1]] = @ + 1]
    /\ UNCHANGED <<vars, m_curr_block_idx, n_encoded>>

LinkNext == encode_block \/ Receive \/ ReceiveTwice \/ Lose

LinkSpec == LinkInit /\ [][LinkNext]_linkVars

-----------------------------------------------------------------------------
(* Properties.                                                             *)

\* All data of block b has been handed up.
Complete(b) == \A f \in 0 .. NPrimary[b] - 1 : <<b, f>> \in delivered

\* The promise of the code rate: a block of which no more fragments are lost
\* than it has correction fragments is handed up completely, and at the latest
\* when its last fragment has passed, whatever happens to the blocks before and
\* after it (as long as the block index does not wrap around).
FecCoversLosses ==
    \A b \in 0 .. n_arrived - 1 :
        lost_on_air[b] <= NSecondary[b] => Complete(b)

\* A block is counted as lost or still queued only if more of its fragments
\* were lost than FEC can replace.  With FecCoversLosses: count_blocks_lost is
\* exactly right once a later block arrived.
LostCountJustified ==
    stats.lost <= Cardinality({b \in BlockIdx :
                      b < n_arrived /\ lost_on_air[b] > NSecondary[b]})

=============================================================================
