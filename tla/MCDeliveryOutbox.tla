--------------------------- MODULE MCDeliveryOutbox ---------------------------
(* Instances of DeliveryOutbox for TLC. *)
EXTENDS DeliveryOutbox, TLC

CONSTANTS e1, e2, w1, w2

\* Ids are only compared for equality.
WorkerSymmetry == Permutations(Workers)
===============================================================================
