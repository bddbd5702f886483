---------------------------- MODULE MCRepeatLoad ----------------------------
(* Two lists and two groups of one and two bytes. *)
EXTENDS RepeatLoad

Sizes == [i \in {1, 2, 11, 12} |-> IF i \in {1, 11} THEN 1 ELSE 2]
=============================================================================
