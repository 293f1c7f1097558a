-------------------------- MODULE MCEvaluationStream --------------------------
(* Instances of EvaluationStream for TLC: three windows, two of which are      *)
(* different keys (at= and start=/end=) with the same effective time.          *)
EXTENDS EvaluationStream, TLC

CONSTANTS w1, w2, w3

\* w1 is earlier; w2 and w3 share their effective time.
EffectiveAtDef == [w \in Windows |-> IF w = w1 THEN 1 ELSE 2]

\* The workers are alike, and so are the two keys of one effective time.
StreamSymmetry == Permutations(Workers) \cup Permutations({w2, w3})
===============================================================================
