------------------------ MODULE MCExecutionDispatcher ------------------------
(* Instances of ExecutionDispatcher for TLC. *)
EXTENDS ExecutionDispatcher, TLC

CONSTANTS r1, r2, a1, a2, e1, o1, w1, w2
===============================================================================
