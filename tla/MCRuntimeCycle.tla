---------------------------- MODULE MCRuntimeCycle ----------------------------
(* Instances of RuntimeCycle for TLC.                                          *)
EXTENDS RuntimeCycle, TLC

\* Every metric is evaluated every two ticks of the clock.
IntervalDef == [m \in Metrics |-> 2]

\* Long ago, and at a time that is not a tick.
EarlierDef == {<<1, -9>>}

WorkerSymmetry == Permutations(Workers)
===============================================================================
