----------------------------- MODULE MCTeardown -----------------------------
(* The two programs; everything is finite as it stands. *)
EXTENDS Teardown
=============================================================================
