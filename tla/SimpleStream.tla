---------------------------- MODULE SimpleStream ----------------------------
(***************************************************************************)
(* The receiving side of a stream without FEC (class FECDisabledDecoder):  *)
(* a decoder is a record of the sequence numbers it remembers and of       *)
(* whether a packet ever came.                                             *)
(***************************************************************************)
EXTENDS Naturals, FiniteSets

CONSTANT FEC_DISABLED_MAX_SIZE_OF_MAP

\* 100 in the code; the house keeping leaves something from 3 on.
ASSUME MapAssumption == FEC_DISABLED_MAX_SIZE_OF_MAP \in Nat \ (0 .. 2)

NewDecoder == [known |-> {}, first_ever_packet |-> TRUE]

\* The map is ordered: its first element is the smallest sequence number.
Oldest(known) == {s \in known : \A t \in known : s <= t}

\* The packet is handed up.
Forwards(decoder, seq) ==
    decoder.first_ever_packet \/ seq \notin decoder.known

\* Mutant: the house keeping removes the newest sequence number.
ForgetsNewest(decoder, seq) ==
    LET known == IF decoder.first_ever_packet THEN {seq}
                 ELSE decoder.known \cup {seq}
    IN  [known |-> IF Cardinality(known) >= FEC_DISABLED_MAX_SIZE_OF_MAP - 1
                   THEN known \ {s \in known : \A t \in known : s >= t}
                   ELSE known,
         first_ever_packet |-> FALSE]

\* process_packet_seq_nr_and_payload, with its house keeping.
Processed(decoder, seq) ==
    LET known == IF decoder.first_ever_packet THEN {seq}
                 ELSE decoder.known \cup {seq}
    IN  [known |-> IF Cardinality(known) >= FEC_DISABLED_MAX_SIZE_OF_MAP - 1
                   THEN known \ Oldest(known)
                   ELSE known,
         first_ever_packet |-> FALSE]

\* Mutant: the map survives a new session.
KeepPacketsMap(decoder) == decoder

reset_packets_map(decoder) == [decoder EXCEPT !.known = {}]
=============================================================================
