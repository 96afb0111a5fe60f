--------------------------- MODULE MCVideoFrames ---------------------------
(***************************************************************************)
(* The video path for TLC.                                                 *)
(***************************************************************************)
EXTENDS VideoFrames

=============================================================================
