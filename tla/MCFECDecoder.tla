---------------------------- MODULE MCFECDecoder ----------------------------
(* Bounded instances of FECDecoder. *)
EXTENDS FECDecoder, TLC

CONSTANT MaxTotal  \* bound on the blocks created over all sessions

\* Blocks of one, two and three data fragments; block 1 has one fragment more
\* than the receiver's fragment map holds.
MCNPrimary == (0 :> 2) @@ (1 :> 3) @@ (2 :> 1) @@ (3 :> 2) @@ (4 :> 1)
MCNSecondary == (0 :> 1) @@ (1 :> 2) @@ (2 :> 1) @@ (3 :> 1) @@ (4 :> 0)

StatsBound == stats.total <= MaxTotal
=============================================================================
