-------------------------- MODULE BlockSizeHelper --------------------------
(***************************************************************************)
(* How a frame becomes FEC blocks: the pure helpers of namespace blocksize *)
(* and of FEC.cpp, and the fragmenting loop of FECEncoder.                 *)
(***************************************************************************)
EXTENDS Naturals, Sequences, FiniteSets

CONSTANTS
    MAX_N_P_FRAGMENTS_PER_BLOCK,  \* 128
    MAX_N_S_FRAGMENTS_PER_BLOCK,  \* 128
    MTU                           \* 1440, bytes of a fragment

ASSUME BlockAssumption ==
    /\ MAX_N_P_FRAGMENTS_PER_BLOCK \in Nat \ {0}
    /\ MAX_N_S_FRAGMENTS_PER_BLOCK \in Nat \ {0}
    /\ MTU \in Nat \ {0}

div_ceil(numerator, denominator) ==
    (numerator \div denominator)
        + (IF numerator % denominator # 0 THEN 1 ELSE 0)

\* Mutant: the quotient is cut off.
MinBlocksFloor(nFragments, max_block_size) == nFragments \div max_block_size

\* The float quotient is exact enough for the ceiling at these sizes.
calc_min_n_of_blocks(nFragments, max_block_size) ==
    div_ceil(nFragments, max_block_size)

\* The fragments are dealt to the blocks one by one, like cards: block i of k
\* gets those whose turn, counted modulo k, is its own.
calculate_best_fit_block_sizes(nFragments, max_block_size) ==
    LET k == calc_min_n_of_blocks(nFragments, max_block_size)
    IN  IF nFragments <= max_block_size THEN <<nFragments>>
        ELSE [i \in 1 .. k |->
                 Cardinality({turn \in 0 .. nFragments - 1 : turn % k = i - 1})]

\* lroundf of the share, but at least one correction fragment.
calculate_n_secondary_fragments(nPrimary, fec_overhead_perc) ==
    IF fec_overhead_perc = 0 THEN 0
    ELSE IF nPrimary * fec_overhead_perc <= 100 THEN 1
    ELSE (nPrimary * fec_overhead_perc + 50) \div 100

\* fragment_and_encode: the sizes of the data fragments when `remaining` bytes
\* go into the last `n` fragments of a block.  Each fragment takes its even
\* share of the rest; the loop ends when nothing remains.
FragmentSizes(data_len, nPrimary) ==
    LET cut[n \in 0 .. nPrimary] == [remaining \in 0 .. data_len |->
            IF n = 0 \/ remaining = 0 THEN <<>>
            ELSE <<div_ceil(remaining, n)>>
                    \o cut[n - 1][remaining - div_ceil(remaining, n)]]
    IN  cut[nPrimary][data_len]
=============================================================================
