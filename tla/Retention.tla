------------------------------- MODULE Retention -------------------------------
(***************************************************************************)
(* Pruning of finished records (gateway/retention.py) beside the workers   *)
(* of ExecutionDispatcher.  apply() goes through the stores one group      *)
(* after the other; what it protects is read before what it deletes, in    *)
(* other transactions.  The groups that hold no execution state (inbound   *)
(* messages, turn results, archived conversations, logs) are left out.     *)
(***************************************************************************)
EXTENDS ExecutionDispatcher

CONSTANTS
  MinAge,             \* retention.min_age_seconds
  KeepRequests,       \* retention.execution_requests
  KeepNotifications   \* retention.notifications

VARIABLES
  pass,       \* the apply() call in progress
  created     \* <<request, status>> -> when its notification was enqueued

retentionVars == <<pass, created>>
allVars == <<vars, retentionVars>>

NoPass == [stage |-> "idle", cutoff |-> 0, handoffs |-> {}, plan |-> {}]

Reports == Requests \X Terminal

-------------------------------------------------------------------------------
(* The other processes go on; enqueue() stamps a notification once *)

Otherwise ==
  /\ DispatcherNext
  /\ created' = [p \in Reports |-> IF p \in notified' \ notified THEN now ELSE created[p]]
  /\ UNCHANGED pass

-------------------------------------------------------------------------------
(* GatewayRetention._run *)

PendingAcknowledgements ==
  {r \in Requests : /\ Stored(r)
                    /\ requests[r].handoff_title
                    /\ requests[r].acknowledgement_delivered_at = Never}

\* A cancelled handoff whose acknowledgement never went out ages normally;
\* gone are the acknowledgements whose outbox entry is cancelled.
ProtectedHandoffs(cutoff, gone) ==
  {r \in PendingAcknowledgements :
     ~ /\ requests[r].status = "cancelled"
       /\ requests[r].acknowledgement_expires_at <= cutoff
       /\ requests[r].acknowledgement_outbox_id \in {None} \cup gone}

\* Contracts are never deleted: every parent one of them named is protected.
ProtectedParents ==
  {requests[r].parent_request_id : r \in {q \in Requests : requests[q].kind = "ad_hoc"}} \ {None}

\* All but the Keep newest of the finished requests older than the cutoff.
Prunable(cutoff) ==
  LET old == {r \in Requests : /\ requests[r].status \in {"succeeded", "cancelled"}
                               /\ requests[r].created_at < cutoff}
  IN {S \in SUBSET old :
        /\ Cardinality(old \ S) = Lesser(KeepRequests, Cardinality(old))
        /\ \A r \in S, q \in old \ S : requests[r].created_at <= requests[q].created_at}

ReadHandoffs ==
  /\ pass.stage = "idle"
  /\ now >= MinAge
  /\ \E gone \in SUBSET Outboxes :
       pass' = [NoPass EXCEPT !.stage = "handoffs", !.cutoff = now - MinAge,
                              !.handoffs = ProtectedHandoffs(now - MinAge, gone)]
  /\ UNCHANGED <<vars, created>>

PlanExecutions ==
  /\ pass.stage = "handoffs"
  /\ \E S \in Prunable(pass.cutoff) :
       pass' = [pass EXCEPT !.stage = "executions",
                            !.plan = S \ (pass.handoffs \cup ProtectedParents)]
  /\ UNCHANGED <<vars, created>>

\* The planned rows that are still finished are deleted, in the order of their
\* random ids and in one transaction; deleting a row before the row of its
\* retry is a foreign key error, which ends the whole apply().
PruneExecutions ==
  LET S == {r \in pass.plan : requests[r].status \in {"succeeded", "cancelled"}}
  IN /\ pass.stage = "executions"
     /\ \/ /\ IF S = {} THEN UNCHANGED storeVars ELSE Prune(S)
           /\ pass' = [pass EXCEPT !.stage = "notifications", !.plan = {}]
        \/ /\ \E q \in Requests : Stored(q) /\ requests[q].parent_request_id \in S
           /\ pass' = NoPass
           /\ UNCHANGED storeVars
     /\ UNCHANGED <<dispatchVars, created>>

\* Delivered notifications older than the cutoff, all but the newest.
PruneNotifications ==
  LET old == {p \in notified : created[p] < pass.cutoff}
  IN /\ pass.stage = "notifications"
     /\ \E S \in SUBSET old :
          /\ Cardinality(old \ S) >= Lesser(KeepNotifications, Cardinality(old))
          /\ notified' = notified \ S
     /\ pass' = NoPass
     /\ UNCHANGED <<storeVars, slot, tool, observable, dispatched, created>>

-------------------------------------------------------------------------------
RetentionInit ==
  /\ DispatcherInit
  /\ pass = NoPass
  /\ created = [p \in Reports |-> 0]

RetentionNext ==
  \/ Otherwise
  \/ ReadHandoffs \/ PlanExecutions \/ PruneExecutions \/ PruneNotifications

RetentionSpec == RetentionInit /\ [][RetentionNext]_allVars

-------------------------------------------------------------------------------
(* Properties *)

\* "Retention can only ever remove a record that is ... unreferenced by
\* anything unresolved" (gateway/retention.py): no planned request is the
\* parent of a retry that is not over.
PlanUnreferenced ==
  pass.stage = "executions" =>
    \A r \in Requests :
      requests[r].parent_request_id \in pass.plan => requests[r].status \in Terminal
================================================================================
