----------------------------- MODULE MCFairParts -----------------------------
(* The liveness instances: one dispatcher and its requests, and the upgrade *)
(* of an installation.  A behaviour is about one of them.                   *)
EXTENDS ExecutionDispatcher, UpgradeCoordinator, TLC

CONSTANTS r1, r2, a1, a2, e1, o1, w1, w2

VARIABLE part   \* which of the two this behaviour is about

FairPartsInit ==
  /\ part \in {"dispatcher", "upgrade"}
  /\ DispatcherInit
  /\ UpgradeInit

FairPartsNext ==
  \/ part = "dispatcher" /\ DispatcherNext /\ UNCHANGED <<part, upgradeVars>>
  \/ part = "upgrade" /\ UpgradeNext /\ UNCHANGED <<part, vars>>

\* Time passes and live workers are scheduled; nothing makes a person decide.  A
\* coordinator that was started goes on, and the operator tries both commands again
\* and again, as every error message of the coordinator asks for.
FairParts ==
  /\ FairPartsInit
  /\ [][FairPartsNext]_<<part, vars, upgradeVars>>
  /\ WF_vars(part = "dispatcher" /\ Tick /\ UNCHANGED dispatchVars)
  /\ \A w \in Workers : WF_vars(part = "dispatcher" /\ Progress(w))
  /\ WF_upgradeVars(part = "upgrade" /\ (ForwardStep \/ RollbackStep \/ FailureStep))
  /\ \A rollback \in BOOLEAN : SF_upgradeVars(part = "upgrade" /\ BeginRecovery(rollback))
===============================================================================
