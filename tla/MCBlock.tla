------------------------------- MODULE MCBlock -------------------------------
(* Block over the 15 byte strings of up to three bytes 0 and 1.             *)
EXTENDS Block

CONSTANTS v1, v2
MCValue == {v1, v2}
MCValueLen == [v \in MCValue |-> IF v = v1 THEN 0 ELSE 9]
=============================================================================
