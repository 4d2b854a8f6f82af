----------------------------- MODULE MCGatewayTurn -----------------------------
(***************************************************************************)
(* Two messages of one conversation, one of which says /new.  Each         *)
(* behaviour has one kind of trouble, chosen in the initial state: a crash *)
(* of the gateway and leases that run out after it, cancellations and      *)
(* operators that act while it is alive, or a second process that runs     *)
(* turns in the same session.  Two further kinds leave the gateway alone   *)
(* and are about the durable tasks its sessions share: the tools of an     *)
(* attended session and two concurrent calls of an unattended one, and     *)
(* their parkings.                                                         *)
(***************************************************************************)
EXTENDS GatewayTurn, DurableTasks, TLC

CONSTANTS m1, m2, s1, s2, r2, t1, person, job, p1, j1, j2

VARIABLE trouble

\* The sessions drawn for new conversations are interchangeable.
Symmetry == Permutations({s1, s2})

MCRotation == m2 :> r2

MCSessionOf == (p1 :> person) @@ (j1 :> job) @@ (j2 :> job)

\* The operations each call may be about.  Explored without parkings, where one of the
\* concurrent calls hands the task over and the other would change it, and with parkings,
\* beside the claim of a concurrent call.
ToolsOps == (p1 :> {"claim", "ask_user"}) @@ (j1 :> {"claim", "ask_user"}) @@ (j2 :> {"claim", "progress"})
ParksOps == (p1 :> {}) @@ (j1 :> {}) @@ (j2 :> {"claim"})

ToolsFocus ==
  /\ \A c \in ToolCalls : /\ toolCall'[c].op \in ToolsOps[c] \cup {"none"}
                          /\ toolCall'[c].pc \in {"idle", "guarded", "tool", "sync"}
  /\ \A t \in TaskIds : tasks'[t].revision < MaxRevision
ParksFocus == \A c \in ToolCalls : toolCall'[c].op \in ParksOps[c] \cup {"none"}

MCGatewayInit ==
  /\ GatewayInit
  /\ TaskInit
  /\ trouble \in {"crash", "operator", "processes", "tools", "parks"}

MCGatewayNext ==
  /\ UNCHANGED trouble
  /\ \/ /\ trouble = "tools" /\ TaskNext /\ ToolsFocus
        /\ UNCHANGED gatewayVars
     \/ /\ trouble = "parks" /\ TaskNext /\ ParksFocus
        /\ UNCHANGED gatewayVars
     \/ /\ trouble = "crash"
        /\ GatewayNext /\ UNCHANGED taskVars
        /\ dismissed' = dismissed
        /\ crashes' = 0 => /\ \A m \in Messages : ~inbox'[m].lapsed
                           /\ \A s \in Sessions : ~session'[s].lapsed
        /\ worker'.pc = "cancel" => worker.pc = "except"
     \/ /\ trouble = "operator"
        /\ GatewayNext /\ UNCHANGED taskVars
        /\ crashes' = crashes
        /\ \A s \in Sessions : ~session'[s].lapsed
     \/ /\ trouble = "processes"
        /\ SessionNext
        /\ session'[r2] = session[r2]
        /\ Cardinality({s \in Sessions : session'[s].status # "absent"}) <= 1
        /\ UNCHANGED taskVars
        /\ UNCHANGED <<gatewayTables, worker, recovery, dismissed, crashes>>

MCGatewaySpec == MCGatewayInit /\ [][MCGatewayNext]_<<gatewayVars, taskVars, trouble>>
=================================================================================
