---------------------------- MODULE MCWBSession ----------------------------
(* Bounded instances of WBSession. *)
EXTENDS WBSession

Config(n, threading) == [n_cards |-> n, enable_threading |-> threading]

MCConfigurations == {Config(1, FALSE), Config(1, TRUE), Config(2, FALSE)}

\* With one card enough that the decoder forgets sequence numbers.
MCMaxPackets == <<2, 1>>
MCMaxBacklog == <<3, 2>>
=============================================================================
