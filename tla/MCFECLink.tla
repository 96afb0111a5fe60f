------------------------------ MODULE MCFECLink ------------------------------
(* Bounded instances of FECLink. *)
EXTENDS FECLink, TLC

\* Layouts with and without correction fragments.
LinkNPrimary == (0 :> 2) @@ (1 :> 1) @@ (2 :> 3) @@ (3 :> 2)
LinkNSecondary == (0 :> 1) @@ (1 :> 2) @@ (2 :> 1) @@ (3 :> 0)
=============================================================================
