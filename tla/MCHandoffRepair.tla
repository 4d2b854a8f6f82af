---------------------------- MODULE MCHandoffRepair ----------------------------
(* Two messages, none of which says /new, on the service's own loops: no crash,   *)
(* no cancellation, no operator, no session lease that runs out.                  *)
EXTENDS GatewayTurn

MCNoRotation == [m \in {} |-> m]

LoopsNext ==
  \/ \E m \in Messages : Ingest(m) \/ LapseClaim(m) \/ Deliver(m)
  \/ WorkerStep
  \/ ReconcileStep

LoopsSpec == GatewayInit /\ [][LoopsNext]_gatewayVars /\ GatewayFairness
=================================================================================
