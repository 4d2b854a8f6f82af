---------------------------- MODULE MCEffectLedger ----------------------------
(* Instances of EffectLedger for TLC. *)
EXTENDS EffectLedger, TLC

CONSTANTS r1, r2, c1, c2, c3, k1, k2

\* Delegated calls of the grant's run and a guarded call of a job.
TwoRuns == [c \in Calls |-> IF c = c3 THEN r2 ELSE r1]

\* Calls of one kind and run, and keys, are only compared for equality.
LedgerSymmetry == Permutations(Delegated) \cup Permutations(Keys)
===============================================================================
