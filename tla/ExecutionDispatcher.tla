-------------------------- MODULE ExecutionDispatcher --------------------------
(***************************************************************************)
(* The workers that execute queued requests (executions/dispatcher.py),    *)
(* the lease heartbeat around a run (owned_operation.py) and the tool that *)
(* parks a browser effect until its approval (executions/parked.py), over  *)
(* the store of ExecutionStore.                                            *)
(*                                                                         *)
(* A worker is one dispatch slot of a process.  Between two awaits it is   *)
(* one action; every store call is an await, so other workers, users and   *)
(* the clock act in between.  "Parallel" processes are real: the gateway   *)
(* service runs a worker and so does the command `ricky execution worker`. *)
(***************************************************************************)
EXTENDS ExecutionStore

VARIABLES
  slot,        \* worker -> where its _dispatch_one is
  tool,        \* worker -> what its run's parked tool is doing
  observable,  \* requests whose run left durable evidence of work
  dispatched,  \* history: how often each logical effect reached the provider
  notified     \* <<request, status>> pairs with a notification

dispatchVars == <<slot, tool, observable, dispatched, notified>>
vars == <<storeVars, dispatchVars>>

\* One claim per slot: a batch of claims is a batch of slots.
ASSUME SlotAssumption == Limit = 1

Idle == [pc |-> "idle", request |-> None, fence |-> 0, held |-> 0, verdict |-> "none"]

NoTool == [state |-> "none", approval |-> None]

\* Worker w goes on at pc, with the same request and claim.
Goto(w, pc) == slot' = [slot EXCEPT ![w].pc = pc]

Return(w) == slot' = [slot EXCEPT ![w] = Idle]

Mine(w) == requests[slot[w].request]

\* Mutant: a held request reports before its acknowledgement.
ReportableAlways(r) == TRUE

\* An acknowledged or never held request reports its result.
Reportable(r) ==
  requests[r].handoff_title => requests[r].acknowledgement_delivered_at # Never

\* _notify: enqueue one notification per request and status.
Reported(r, status) ==
  IF Reportable(r) THEN notified \cup {<<r, status>>} ELSE notified

-------------------------------------------------------------------------------
(* worker_once: recover, project notifications, claim *)

WorkerRecover(w) ==
  /\ slot[w].pc = "idle"
  /\ RecoverExpired
  /\ Goto(w, "projecting")
  /\ UNCHANGED <<tool, observable, dispatched, notified>>

\* Mutant: nothing fills the gap between a finish and its notification.
ProjectNothing(w) ==
  /\ slot[w].pc = "projecting"
  /\ Goto(w, "claiming")
  /\ UNCHANGED <<storeVars, tool, observable, dispatched, notified>>

\* Terminal requests without any notification yet get the one a crash lost.
ProjectNotifications(w) ==
  /\ slot[w].pc = "projecting"
  /\ notified' = notified \cup
       {<<r, requests[r].status>> : r \in {q \in Requests :
          /\ requests[q].status \in Terminal
          /\ Reportable(q)
          /\ \A s \in Terminal : <<q, s>> \notin notified}}
  /\ Goto(w, "claiming")
  /\ UNCHANGED <<storeVars, tool, observable, dispatched>>

WorkerClaimRecover(w) ==
  /\ slot[w].pc = "claiming"
  /\ ClaimRecover(w)
  /\ UNCHANGED dispatchVars

WorkerClaim(w) ==
  /\ slot[w].pc = "claiming"
  /\ ClaimQueued(w)
  /\ LET won == {r \in Requests : requests'[r].claim_fence # requests[r].claim_fence}
     IN slot' = [slot EXCEPT ![w] =
          IF won = {} THEN Idle
          ELSE LET r == CHOOSE q \in won : TRUE
               IN [Idle EXCEPT !.pc = "claimed", !.request = r,
                               !.fence = requests'[r].claim_fence]]
  /\ UNCHANGED <<tool, observable, dispatched, notified>>

-------------------------------------------------------------------------------
(* _dispatch_one: start the run and keep its lease *)

\* start() is refused when the claim was recovered or cancelled meanwhile.
StartRun(w) ==
  LET r == slot[w].request
      k == slot[w].fence
  IN /\ slot[w].pc = "claimed"
     /\ \/ Start(r, k) /\ Goto(w, "running")
        \/ /\ ~(Fenced(r, k) /\ requests[r].status = "claimed")
           /\ Goto(w, "raised")
           /\ UNCHANGED storeVars
     /\ UNCHANGED <<tool, observable, dispatched, notified>>

\* The contract, the task or the named job is not the pinned one any more.
DispatchRaises(w) ==
  /\ slot[w].pc = "claimed"
  /\ Goto(w, "raised")
  /\ UNCHANGED <<storeVars, tool, observable, dispatched, notified>>

\* The run calls the model, a tool, or writes its transcript.
WorkObservably(w) ==
  /\ slot[w].pc = "running"
  /\ observable' = observable \cup {slot[w].request}
  /\ UNCHANGED <<storeVars, slot, tool, dispatched, notified>>

\* A refused renewal, or one that reveals a cancellation, stops the run.
Heartbeat(w) ==
  LET r == slot[w].request
      owned == Fenced(r, slot[w].fence)
  IN /\ slot[w].pc = "running"
     /\ IF owned THEN Renew(r, slot[w].fence) ELSE UNCHANGED storeVars
     /\ slot' = IF owned /\ requests[r].status # "cancel_requested" THEN slot
                ELSE [slot EXCEPT ![w].pc = "stopping",
                                  ![w].verdict = IF owned THEN "cancelling" ELSE "lost"]
     /\ UNCHANGED <<tool, observable, dispatched, notified>>

\* renew() raises for a reason of its own, a busy database for example.
HeartbeatFails(w) ==
  /\ slot[w].pc = "running"
  /\ slot' = [slot EXCEPT ![w].pc = "stopping", ![w].verdict = "lost"]
  /\ UNCHANGED <<storeVars, tool, observable, dispatched, notified>>

\* asyncio cancels the dispatch: the process shuts down, or the user cancels
\* this request in the same process.  An interrupted handler just leaves, as
\* after a crash.
Interrupt(w) ==
  /\ slot[w].pc \in {"claimed", "running", "ended", "finishing"}
  /\ slot' = [slot EXCEPT ![w].pc = IF @ = "running" THEN "stopping" ELSE "interrupted",
                          ![w].verdict = "interrupted"]
  /\ UNCHANGED <<storeVars, tool, observable, dispatched, notified>>

\* The job run returns.  _execution_outcome maps its outcome to a status; the
\* outcomes other than failure and interruption are themselves evidence.
RunEnds(w, outcome) ==
  /\ slot[w].pc = "running"
  /\ tool[w] = NoTool
  /\ slot' = [slot EXCEPT ![w].pc = "ended",
       ![w].verdict = IF outcome = "interrupted" THEN "uncertain" ELSE outcome]
  /\ observable' = IF outcome \in {"succeeded", "blocked", "uncertain"}
                   THEN observable \cup {slot[w].request} ELSE observable
  /\ UNCHANGED <<storeVars, tool, dispatched, notified>>

RunRaises(w) ==
  /\ slot[w].pc = "running"
  /\ tool[w] = NoTool
  /\ Goto(w, "raised")
  /\ UNCHANGED <<storeVars, tool, observable, dispatched, notified>>

\* The process dies, while its lease can still lapse before MaxTime.
Crash(w) ==
  /\ slot[w].pc # "idle"
  /\ now + ClaimSeconds <= MaxTime
  /\ Return(w)
  /\ tool' = [tool EXCEPT ![w] = NoTool]
  /\ scanning' = [scanning EXCEPT ![w] = Never]
  /\ UNCHANGED <<requests, approvals, resolved, now, runs, observable, dispatched, notified>>

-------------------------------------------------------------------------------
(* ParkedPreparedEffectTool *)

ToolPark(w, a, effect) ==
  /\ slot[w].pc = "running"
  /\ tool[w] = NoTool
  /\ Park(a, slot[w].request, slot[w].fence, effect)
  /\ tool' = [tool EXCEPT ![w] = [state |-> "waiting", approval |-> a]]
  /\ UNCHANGED <<slot, observable, dispatched, notified>>

\* wait_for_browser_approval returns; a pending occurrence of a cancelled
\* request is left as it is.
ToolDecided(w) ==
  LET state == approvals[tool[w].approval].state
  IN /\ slot[w].pc = "running"
     /\ tool[w].state = "waiting"
     /\ state # "pending" \/ Mine(w).status = "cancel_requested"
     /\ tool' = [tool EXCEPT ![w] =
          IF state = "pending" THEN NoTool
          ELSE [@ EXCEPT !.state = IF state = "approved" THEN "approved" ELSE "refused"]]
     /\ UNCHANGED <<storeVars, slot, observable, dispatched, notified>>

\* _resume_unconsumed: a refusal by the store is swallowed.
ToolResume(w) ==
  LET a == tool[w].approval
      k == slot[w].fence
  IN /\ slot[w].pc = "running"
     /\ tool[w].state = "refused"
     /\ \/ ResumeUnconsumed(a, k)
        \/ ~OwnsParked(a, k) /\ UNCHANGED storeVars
     /\ tool' = [tool EXCEPT ![w] = NoTool]
     /\ UNCHANGED <<slot, observable, dispatched, notified>>

\* _invalidate, with its fallback for an occurrence settled meanwhile.
Abandon(a, k) ==
  \/ Invalidate(a, k)
  \/ ResumeUnconsumed(a, k)
  \/ ~OwnsParked(a, k) /\ UNCHANGED storeVars

\* Notification, live revalidation or the outer reservation failed.
ToolAbort(w) ==
  /\ slot[w].pc = "running"
  /\ tool[w].state \in {"waiting", "approved"}
  /\ Abandon(tool[w].approval, slot[w].fence)
  /\ tool' = [tool EXCEPT ![w] = NoTool]
  /\ UNCHANGED <<slot, observable, dispatched, notified>>

\* run_prepared consumes the approval, or reports the effect not performed.
ToolConsume(w) ==
  LET a == tool[w].approval
      k == slot[w].fence
      usable == OwnsParked(a, k) /\ approvals[a].state \in {"approved", "expired"}
  IN /\ slot[w].pc = "running"
     /\ tool[w].state = "approved"
     /\ IF usable THEN ResumeConsuming(a, k) ELSE UNCHANGED storeVars
     /\ tool' = [tool EXCEPT ![w] =
          IF usable /\ approvals'[a].state = "consumed" THEN [@ EXCEPT !.state = "consumed"]
          ELSE NoTool]
     /\ UNCHANGED <<slot, observable, dispatched, notified>>

ToolDispatch(w) ==
  /\ slot[w].pc = "running"
  /\ tool[w].state = "consumed"
  /\ dispatched' = [dispatched EXCEPT ![approvals[tool[w].approval].logical_effect_key] = @ + 1]
  /\ observable' = observable \cup {slot[w].request}
  /\ tool' = [tool EXCEPT ![w] = NoTool]
  /\ UNCHANGED <<storeVars, slot, notified>>

\* A stopped run is awaited: its tool gives the occurrence up first.
StopRun(w) ==
  /\ slot[w].pc = "stopping"
  /\ IF tool[w].state \in {"waiting", "approved"}
     THEN Abandon(tool[w].approval, slot[w].fence)
     ELSE UNCHANGED storeVars
  /\ tool' = [tool EXCEPT ![w] = NoTool]
  /\ Goto(w, slot[w].verdict)
  /\ UNCHANGED <<observable, dispatched, notified>>

-------------------------------------------------------------------------------
(* _dispatch_one: settle *)

\* Take the current row, and the claim it holds now, to _finish_interruption.
Settle(w, clean) ==
  slot' = [slot EXCEPT ![w].pc = "evidence", ![w].held = Mine(w).claim_fence,
                       ![w].verdict = clean]

\* The run returned: read the row, then finish under the own claim.
HandleEnded(w) ==
  /\ slot[w].pc = "ended"
  /\ CASE Mine(w).status = "cancel_requested" -> Settle(w, "cancelled")
       [] Mine(w).status = "running"          -> Goto(w, "finishing")
       [] OTHER                               -> Return(w)
  /\ UNCHANGED <<storeVars, tool, observable, dispatched, notified>>

FinishRun(w) ==
  LET r == slot[w].request
  IN /\ slot[w].pc = "finishing"
     /\ \/ Finish(r, slot[w].fence, slot[w].verdict) /\ Goto(w, "notifying")
        \/ /\ ~Finishable(r, slot[w].fence, slot[w].verdict)
           /\ Goto(w, "raised")
           /\ UNCHANGED storeVars
     /\ UNCHANGED <<tool, observable, dispatched, notified>>

\* except _CancellationRequested.
HandleCancelling(w) ==
  /\ slot[w].pc = "cancelling"
  /\ IF Mine(w).status = "cancel_requested" THEN Settle(w, "cancelled") ELSE Return(w)
  /\ UNCHANGED <<storeVars, tool, observable, dispatched, notified>>

\* except _ExecutionOwnershipLost.
HandleLost(w) ==
  /\ slot[w].pc = "lost"
  /\ CASE Mine(w).status = "cancel_requested" -> Settle(w, "cancelled")
       [] Mine(w).status = "running"          -> Settle(w, "failed")
       [] OTHER                               -> Return(w)
  /\ UNCHANGED <<storeVars, tool, observable, dispatched, notified>>

\* except asyncio.CancelledError.
HandleInterrupted(w) ==
  /\ slot[w].pc = "interrupted"
  /\ IF Mine(w).status \in {"cancel_requested", "running"}
     THEN Settle(w, "cancelled") ELSE Return(w)
  /\ UNCHANGED <<storeVars, tool, observable, dispatched, notified>>

\* except Exception: a claim that never started is started to be failed; the
\* own token guards both writes.
HandleRaised(w) ==
  LET r == slot[w].request
      k == slot[w].fence
  IN /\ slot[w].pc = "raised"
     /\ \/ /\ requests[r].status = "claimed"
           /\ \/ Start(r, k) /\ slot' = [slot EXCEPT ![w].pc = "failing"]
              \/ ~Fenced(r, k) /\ Return(w) /\ UNCHANGED storeVars
        \/ /\ requests[r].status = "cancel_requested"
           /\ Settle(w, "cancelled")
           /\ UNCHANGED storeVars
        \/ /\ requests[r].status = "running"
           /\ Goto(w, "failing")
           /\ UNCHANGED storeVars
        \/ /\ requests[r].status \notin {"claimed", "cancel_requested", "running"}
           /\ Return(w)
           /\ UNCHANGED storeVars
     /\ UNCHANGED <<tool, observable, dispatched, notified>>

\* Mutant: a refused finish is reported all the same.
FailRunReportingRefusal(w) ==
  /\ slot[w].pc = "failing"
  /\ \/ Finish(slot[w].request, slot[w].fence, "failed")
     \/ ~Finishable(slot[w].request, slot[w].fence, "failed") /\ UNCHANGED storeVars
  /\ slot' = [slot EXCEPT ![w].pc = "notifying", ![w].verdict = "failed"]
  /\ UNCHANGED <<tool, observable, dispatched, notified>>

FailRun(w) ==
  LET r == slot[w].request
      k == slot[w].fence
  IN /\ slot[w].pc = "failing"
     /\ \/ /\ Finish(r, k, "failed")
           /\ slot' = [slot EXCEPT ![w].pc = "notifying", ![w].verdict = "failed"]
        \/ ~Finishable(r, k, "failed") /\ Return(w) /\ UNCHANGED storeVars
     /\ UNCHANGED <<tool, observable, dispatched, notified>>

\* Mutant: the run's evidence is not looked at.
AssumeNothingObservable(w) ==
  /\ slot[w].pc = "evidence"
  /\ Goto(w, "settling")
  /\ UNCHANGED <<storeVars, tool, observable, dispatched, notified>>

\* _durable_run_evidence of the run the row names: unreadable evidence counts
\* as observable work.
ReadEvidence(w) ==
  /\ slot[w].pc = "evidence"
  /\ \E seen \in {slot[w].request \in observable, TRUE} :
       slot' = [slot EXCEPT ![w].pc = "settling", ![w].verdict = IF seen THEN "uncertain" ELSE @]
  /\ UNCHANGED <<storeVars, tool, observable, dispatched, notified>>

\* _finish_interruption, with the claim the row held when it was read.
FinishInterruption(w) ==
  LET r == slot[w].request
      k == slot[w].held
  IN /\ slot[w].pc = "settling"
     /\ \/ Finish(r, k, slot[w].verdict) /\ Goto(w, "notifying")
        \/ ~Finishable(r, k, slot[w].verdict) /\ Return(w) /\ UNCHANGED storeVars
     /\ UNCHANGED <<tool, observable, dispatched, notified>>

\* The record finish() returned is reported.
Notify(w) ==
  /\ slot[w].pc = "notifying"
  /\ notified' = Reported(slot[w].request, slot[w].verdict)
  /\ Return(w)
  /\ UNCHANGED <<storeVars, tool, observable, dispatched>>

\* The task update or the enqueue raises: the row is terminal, nobody reports.
NotifyRaises(w) ==
  /\ slot[w].pc = "notifying"
  /\ Return(w)
  /\ UNCHANGED <<storeVars, tool, observable, dispatched, notified>>

-------------------------------------------------------------------------------
(* Users and maintenance *)

\* cancel_execution_request reports an immediate cancellation, unless the
\* process dies first.
UserCancel(r) ==
  /\ Cancel(r)
  /\ notified' \in {notified} \cup
       {Reported(q, "cancelled") : q \in {p \in {r} : requests'[p].status = "cancelled"}}
  /\ UNCHANGED <<slot, tool, observable, dispatched>>

\* reconcile_browser_transaction attests and reports, unless it dies between.
UserAttest(a, status) ==
  /\ AttestTransaction(a, status)
  /\ notified' \in {notified, Reported(approvals[a].request_id, status)}
  /\ UNCHANGED <<slot, tool, observable, dispatched>>

StoreStep ==
  /\ \/ Tick
     \/ ExpireApprovals
     \/ \E r \in Requests :
          \/ Submit(r)
          \/ \E outbox \in Outboxes :
               AttachAcknowledgement(r, outbox) \/ ReleaseAcknowledged(r, outbox)
          \/ \E child \in Requests : Retry(r, child)
          \/ \E status \in {"succeeded", "failed"} : Resolve(r, status)
     \/ \E a \in Approvals, decision \in {"approved", "denied"} : Decide(a, decision)
  /\ UNCHANGED dispatchVars

-------------------------------------------------------------------------------
Outcomes == {"succeeded", "failed", "blocked", "uncertain", "interrupted"}

\* What a live worker goes on doing by itself.
Progress(w) ==
  \/ WorkerRecover(w) \/ ProjectNotifications(w) \/ WorkerClaimRecover(w) \/ WorkerClaim(w)
  \/ StartRun(w) \/ Heartbeat(w) \/ StopRun(w)
  \/ \E outcome \in Outcomes : RunEnds(w, outcome)
  \/ ToolDecided(w) \/ ToolResume(w) \/ ToolConsume(w) \/ ToolDispatch(w)
  \/ HandleEnded(w) \/ FinishRun(w) \/ HandleCancelling(w) \/ HandleLost(w)
  \/ HandleInterrupted(w) \/ HandleRaised(w) \/ FailRun(w)
  \/ ReadEvidence(w) \/ FinishInterruption(w) \/ Notify(w)

\* What may happen to a worker.
Mishap(w) ==
  \/ DispatchRaises(w) \/ RunRaises(w) \/ HeartbeatFails(w) \/ NotifyRaises(w)
  \/ Interrupt(w) \/ Crash(w)
  \/ WorkObservably(w) \/ ToolAbort(w)
  \/ \E a \in Approvals, effect \in Effects : ToolPark(w, a, effect)

DispatcherInit ==
  /\ Init
  /\ slot = [w \in Workers |-> Idle]
  /\ tool = [w \in Workers |-> NoTool]
  /\ observable = {}
  /\ dispatched = [e \in Effects |-> 0]
  /\ notified = {}

DispatcherNext ==
  \/ StoreStep
  \/ \E r \in Requests : UserCancel(r)
  \/ \E a \in Approvals, status \in {"succeeded", "failed"} : UserAttest(a, status)
  \/ \E w \in Workers : Progress(w) \/ Mishap(w)

DispatcherSpec == DispatcherInit /\ [][DispatcherNext]_vars

-------------------------------------------------------------------------------
(* Properties *)

\* An approval a person can still give belongs to a run that is parked for
\* it under the same claim: cancelling, losing the lease, expiry and every
\* exit of the tool leave no approval behind that a later answer would use.
ApprovalHasWaiter ==
  \A a \in Approvals : approvals[a].state \in ActiveApproval =>
    LET row == requests[approvals[a].request_id]
    IN row.status = approvals[a].kind /\ row.claim_fence = approvals[a].claim_fence

\* A logical browser effect reaches the provider at most once, whatever is
\* retried, expires, crashes or is approved again.
EffectDispatchedOnce == \A e \in Effects : dispatched[e] <= 1

\* "Persistent work becomes `cancelled` only when durable evidence shows
\* nothing observable" (.designs/architecture.md): no run of a cancelled
\* request has called a model, used a tool or written its transcript.
CancelledMeansNothingObservable ==
  \A r \in Requests : requests[r].status = "cancelled" => r \notin observable

\* A request whose fence still is the first one is never `cancelled` after
\* observable work: its one slot reads the evidence before it settles the row,
\* and no second claim can leave evidence in between.  The violation of the
\* property above needs a lapsed lease and a second claim.  (The retry of a
\* named job inherits its parent's fence.)
CancelledAfterOneClaim ==
  \A r \in Requests :
    requests[r].status = "cancelled" /\ r \in observable => requests[r].claim_fence > 1

\* What a user was told is what the store says, unless a person has settled
\* the uncertain outcome since: a refused finish is never reported.
ReportMatchesOutcome ==
  \A r \in Requests, s \in Terminal :
    <<r, s>> \in notified => requests[r].status = s \/ r \in resolved

\* The result of handed off work never overtakes the acknowledgement that
\* announces it, although a held request may be cancelled or expire.
ResultAfterAcknowledgement ==
  \A r \in Requests, s \in Terminal :
    <<r, s>> \in notified /\ requests[r].handoff_title
      => requests[r].acknowledgement_delivered_at # Never

\* No worker holds r and its lease lapses only after the explored time.
OutlivesClock(r) ==
  /\ requests[r].claim_expires_at > MaxTime
  /\ \A w \in Workers : slot[w].request # r

\* A cancellation request is settled, by its worker or after its lease, also
\* when the worker dies or its own finish loses against the cancellation.
CancelSettles ==
  \A r \in Requests :
    requests[r].status = "cancel_requested"
      ~> requests[r].status # "cancel_requested" \/ OutlivesClock(r)

\* Every finished request that may report does so, whichever process dies
\* between the finish and its notification.
TerminalNotified ==
  \A r \in Requests :
    requests[r].status \in Terminal /\ Reportable(r) ~> \E s \in Terminal : <<r, s>> \in notified
================================================================================
