--------------------------- MODULE MCOutboxDelivery ---------------------------
(* Instances of OutboxDelivery for TLC.                                        *)
EXTENDS OutboxDelivery, TLC

WorkerSymmetry == Permutations(Workers)
===============================================================================
