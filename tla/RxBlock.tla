------------------------------ MODULE RxBlock ------------------------------
(***************************************************************************)
(* One FEC block on the receiving side (class RxBlock).                    *)
(*                                                                         *)
(* A block is a record.  fragment_map is the set of the fragment indices   *)
(* marked available, nPrimary is m_n_primary_fragments_in_block (Unknown,  *)
(* -1, until the first fragment arrived) and nForwarded is                 *)
(* nAlreadyForwardedPrimaryFragments.  The two availability counters of    *)
(* the class are the cardinalities of the two parts of fragment_map.       *)
(* Payload bytes are abstracted to the fragment's index: the erasure code  *)
(* itself (lib/fec) rebuilds the primary fragments from any nPrimary       *)
(* fragments of the block.                                                 *)
(***************************************************************************)
EXTENDS Integers, FiniteSets

Unknown == -1

RxBlockType ==
    [blockIdx: Nat, fragment_map: SUBSET Nat, nForwarded: Nat,
     nPrimary: Nat \cup {Unknown}]

\* RxBlock::RxBlock: every fragment is marked unavailable.
NewRxBlock(idx) ==
    [blockIdx |-> idx, fragment_map |-> {}, nForwarded |-> 0,
     nPrimary |-> Unknown]

hasFragment(block, f) == f \in block.fragment_map

\* m_n_available_primary_fragments
NAvailablePrimary(block) ==
    Cardinality({f \in block.fragment_map : f < block.nPrimary})

\* m_n_available_primary_fragments + m_n_available_secondary_fragments
getNAvailableFragments(block) == Cardinality(block.fragment_map)

allPrimaryFragmentsHaveBeenForwarded(block) ==
    block.nPrimary # Unknown /\ block.nForwarded = block.nPrimary

\* Mutant: one fragment more than FEC needs.
RecoverableLate(block) ==
    block.nPrimary # Unknown /\ getNAvailableFragments(block) > block.nPrimary

allPrimaryFragmentsCanBeRecovered(block) ==
    block.nPrimary # Unknown /\ getNAvailableFragments(block) >= block.nPrimary

allPrimaryFragmentsAreAvailable(block) ==
    block.nPrimary # Unknown /\ NAvailablePrimary(block) = block.nPrimary

\* nPrimary is in the header of every fragment of the block; the first one
\* fixes it.
addFragment(block, f, nPrimary) ==
    [block EXCEPT !.fragment_map = @ \cup {f},
                  !.nPrimary = IF @ = Unknown THEN nPrimary ELSE @]

\* Mutants: the scan starts at the first fragment again, or counts correction
\* fragments as data.
PullScanFromZero(block) == 0 .. (NAvailablePrimary(block) - 1)
PullScanAll(block) == block.nForwarded .. (getNAvailableFragments(block) - 1)

\* The indices pullAvailablePrimaryFragments returns, in ascending order.  The
\* scan starts at the first index that has not been forwarded, runs to the
\* NUMBER of available primary fragments, and stops at the first gap unless the
\* caller discards missing packets.
PullScan(block) == block.nForwarded .. (NAvailablePrimary(block) - 1)

Pull(block, discardMissing) ==
    {i \in PullScan(block) :
        /\ i \in block.fragment_map
        /\ discardMissing \/ \A j \in block.nForwarded .. i :
                                 j \in block.fragment_map}

\* The block after that call.
Pulled(block, discardMissing) ==
    [block EXCEPT !.nForwarded = @ + Cardinality(Pull(block, discardMissing))]

\* The primary fragments fecDecode has to rebuild, and the secondary fragments
\* it is given.
MissingPrimary(block) == (0 .. block.nPrimary - 1) \ block.fragment_map
AvailableSecondary(block) == {f \in block.fragment_map : f >= block.nPrimary}

reconstructAllMissingData(block) ==
    [block EXCEPT !.fragment_map = @ \cup MissingPrimary(block)]

=============================================================================
