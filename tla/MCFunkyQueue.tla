---------------------------- MODULE MCFunkyQueue ----------------------------
(* Bounded instance of FunkyQueue. *)
EXTENDS FunkyQueue, TLC
=============================================================================
