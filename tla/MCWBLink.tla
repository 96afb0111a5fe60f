------------------------------ MODULE MCWBLink ------------------------------
(* Bounded instances of WBLink. *)
EXTENDS WBLink

TwoChannels == <<5180, 5220>>
=============================================================================
