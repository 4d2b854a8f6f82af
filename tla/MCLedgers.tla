------------------------------ MODULE MCLedgers ------------------------------
(* The two ledgers that must survive crashes without doing anything twice:   *)
(* the effects of a job run and the deliveries of the outbox.  They share no *)
(* state; a behaviour is about one of them, and one about the effects has    *)
(* either finalizations that raise or a grant that is revoked or expires.    *)
EXTENDS EffectLedger, DeliveryOutbox, TLC

CONSTANTS r1, c1, c2, k1, k2, e1, w1, w2

VARIABLE part   \* which of the two this behaviour is about

\* Both calls are delegated calls of the grant's run.
OneRun == [c \in Calls |-> r1]

LedgersInit ==
  /\ part \in {"effects", "errors", "delivery"}
  /\ LedgerInit
  /\ Init

LedgersNext ==
  \/ /\ part = "effects" /\ LedgerNext /\ UNCHANGED <<part, vars>>
     /\ cutShort' = {}
  \/ /\ part = "errors" /\ LedgerNext /\ UNCHANGED <<part, vars>>
     /\ revoker' = "idle" /\ ~grantExpired'
  \/ part = "delivery" /\ Next /\ UNCHANGED <<part, ledgerVars>>

LedgersSpec == LedgersInit /\ [][LedgersNext]_<<part, ledgerVars, vars>>

\* Calls and keys are only compared for equality.
LedgersSymmetry == Permutations(Delegated) \cup Permutations(Keys)
===============================================================================
