------------------------ MODULE MCPersistentSettings ------------------------
(* A frequency, a width and wb_qp_max; 5180 is longer than 40, which is as   *)
(* long as the default. The text around the values has a fixed length.       *)
EXTENDS PersistentSettings

MCFields == {"frequency", "width", "qp"}
MCStored == {"frequency", "width"}
MCValues == {20, 40, 5180}
Digits(v) == IF v = 5180 THEN 4 ELSE 2
MCTextLength ==
  [c \in [MCStored -> MCValues] |-> Digits(c["frequency"]) + Digits(c["width"])]
=============================================================================
