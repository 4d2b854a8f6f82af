----------------------------- MODULE OnceOnlyWork -----------------------------
(***************************************************************************)
(* What the execution store promises a conversation about one piece of     *)
(* background work, with claims, leases, fences, approvals and deadlines   *)
(* out of sight: work is announced before it is ready, begins at most      *)
(* once, is never put back once it has begun, keeps a request to stop, and *)
(* only a person turns an unknown outcome into a known one.                *)
(***************************************************************************)
CONSTANT Items

VARIABLES
  phase,  \* where each item is in its life
  begun   \* whether each item ever began

workVars == <<phase, begun>>

Phases == {"none", "held", "ready", "working", "stopping", "stopped", "over", "unknown", "gone"}

\* Move(i, P, Q): item i goes from a phase of P to one of Q without beginning.
Move(i, P, Q) == phase[i] \in P /\ phase'[i] \in Q /\ begun'[i] = begun[i]

Accept(i) == ~begun[i] /\ Move(i, {"none"}, {"held", "ready"})

Announce(i) == Move(i, {"held"}, {"ready"})

Begin(i) == phase[i] = "ready" /\ ~begun[i] /\ phase'[i] = "working" /\ begun'[i] = TRUE

AskToStop(i) == Move(i, {"working"}, {"stopping"})

\* Work that has not begun is cancelled, or runs out of time.
Withdraw(i) == ~begun[i] /\ Move(i, {"held", "ready"}, {"stopped", "over"})

\* Work that has begun ends; one that was asked to stop does not end otherwise.
End(i) ==
  \/ begun[i] /\ Move(i, {"working"}, {"over", "stopped", "unknown"})
  \/ begun[i] /\ Move(i, {"stopping"}, {"stopped", "unknown"})

Settle(i) == Move(i, {"unknown"}, {"over"})

Forget(i) == Move(i, {"over", "stopped"}, {"gone"})

Rest(i) == phase'[i] = phase[i] /\ begun'[i] = begun[i]

ItemStep(i) ==
  Accept(i) \/ Announce(i) \/ Begin(i) \/ AskToStop(i) \/ Withdraw(i) \/ End(i) \/ Settle(i) \/ Forget(i)

WorkInit ==
  /\ phase = [i \in Items |-> "none"]
  /\ begun = [i \in Items |-> FALSE]

\* One step of the store may settle several items: recovery and retention do.
WorkNext ==
  /\ phase' \in [Items -> Phases]
  /\ begun' \in [Items -> BOOLEAN]
  /\ \A i \in Items : Rest(i) \/ ItemStep(i)

WorkSpec == WorkInit /\ [][WorkNext]_workVars
===============================================================================
