---------------------------- MODULE MCMemoryStream ----------------------------
(* Instances of MemoryStream for TLC: w1 is earlier than w2 and w3, which are   *)
(* different keys (at= and start=/end=) of the same effective time.            *)
EXTENDS MemoryStream

CONSTANTS w1, w2, w3

EffectiveAtDef == [w \in Windows |-> IF w = w1 THEN 1 ELSE 2]
===============================================================================
