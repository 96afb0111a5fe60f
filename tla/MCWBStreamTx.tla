---------------------------- MODULE MCWBStreamTx ----------------------------
(* Bounded instances of WBStreamTx. *)
EXTENDS WBStreamTx

Shape(n, max, perc, bytes, injections) ==
    [n |-> n, max |-> max, perc |-> perc, bytes |-> bytes,
     injections |-> injections]

\* A frame of one fragment (or of the largest block, when it is handed in as
\* bytes), one that needs three uneven blocks, and one with a percentage that
\* asks for more correction fragments than the tables hold (and whose bytes are
\* more than the largest block holds).
MCShapes == {Shape(1, 3, 10, 20, 1), Shape(7, 3, 50, 7, 2), Shape(4, 5, 200, 21, 2)}
=============================================================================
