----------------------- MODULE ExecutionDispatcherProofs -----------------------
(***************************************************************************)
(* Proofs about the dispatcher, for every number of workers, requests,     *)
(* approvals and effects.                                                  *)
(*                                                                         *)
(* A dispatcher step takes a step of the store or leaves it alone, so what *)
(* is proved of the store holds here too.  What the store cannot promise   *)
(* by itself is that only the worker that parked an occurrence comes back  *)
(* to it: the invariant ties each slot to its claim, each tool to the      *)
(* occurrence it parked, and each open occurrence to the one slot and tool *)
(* that can settle it.                                                     *)
(*                                                                         *)
(* The last sections are about Retention, which deletes rows under the     *)
(* workers.  Less of the invariant holds there (Steering), enough for the  *)
(* steps to remain steps of the store.                                     *)
(***************************************************************************)
EXTENDS Retention, ExecutionStoreProofs

-------------------------------------------------------------------------------
(* The inductive invariant *)

PCs == {"idle", "projecting", "claiming", "claimed", "running", "stopping", "cancelling", "lost",
        "interrupted", "ended", "finishing", "raised", "failing", "evidence", "settling",
        "notifying"}

Unowned == {"idle", "projecting", "claiming"}

\* The verdicts of a run that was stopped name the handler that follows.
Handlers == {"cancelling", "lost", "interrupted"}

Verdicts == {"none"} \cup Handlers \cup Terminal

SlotRow == [pc : PCs, request : Requests \cup {None}, fence : Nat, held : Nat, verdict : Verdicts]

ToolRow == [state : {"none", "waiting", "approved", "refused", "consumed"},
            approval : Approvals \cup {None}]

DispatcherTypes ==
  /\ slot \in [Workers -> SlotRow]
  /\ tool \in [Workers -> ToolRow]
  /\ observable \subseteq Requests
  /\ dispatched \in [Effects -> Nat]
  /\ notified \subseteq Requests \X Terminal

Owning(w) == slot[w].pc \notin Unowned

\* A slot at work has a request and a claim of it that was issued.
SlotOwns(w) ==
  Owning(w) =>
    /\ slot[w].request \in Requests
    /\ requests[slot[w].request].status # "absent"
    /\ slot[w].fence # 0
    /\ slot[w].fence <= requests[slot[w].request].claim_fence

\* What a slot will write or report.
SlotVerdict(w) ==
  /\ slot[w].pc = "stopping" => slot[w].verdict \in Handlers
  /\ slot[w].pc \in {"ended", "finishing"} => slot[w].verdict \in Terminal \ {"cancelled"}
  /\ slot[w].pc \in {"evidence", "settling", "notifying"} => slot[w].verdict \in Terminal
  /\ slot[w].pc = "notifying" =>
       /\ requests[slot[w].request].status \in Terminal
       /\ requests[slot[w].request].status = slot[w].verdict \/ slot[w].request \in resolved

\* No two slots work under the same claim.
SlotsDiffer ==
  \A w, v \in Workers :
    w # v /\ Owning(w) /\ Owning(v) /\ slot[w].request = slot[v].request
      => slot[w].fence # slot[v].fence

\* A tool at work waits for an occurrence of its own slot's claim.
ToolOwns(w) ==
  tool[w].state # "none" =>
    LET a == tool[w].approval
    IN /\ slot[w].pc \in {"running", "stopping"}
       /\ a \in Approvals
       /\ approvals[a].state # "absent"
       /\ approvals[a].request_id = slot[w].request
       /\ approvals[a].claim_fence = slot[w].fence
       /\ tool[w].state = "approved" => approvals[a].state # "pending"
       /\ tool[w].state = "refused" => approvals[a].state \notin ActiveApproval
       /\ tool[w].state = "consumed" => approvals[a].state = "consumed"

\* An approval that was asked for has a request, whose fence has not gone back.
Asked ==
  \A a \in Approvals : approvals[a].state # "absent" =>
    approvals[a].request_id \in Requests /\ approvals[a].logical_effect_key \in Effects

\* Under its claim, an open approval is the one the slot's tool is at.
OpenIsTooled ==
  \A w \in Workers, b \in Approvals :
    /\ Owning(w)
    /\ approvals[b].state \in ActiveApproval
    /\ approvals[b].request_id = slot[w].request
    /\ approvals[b].claim_fence = slot[w].fence
    => tool[w].approval = b /\ tool[w].state \in {"waiting", "approved"}

\* At most one approval of an effect is open or consumed.
OneChance ==
  \A a, b \in Approvals :
    /\ approvals[a].logical_effect_key = approvals[b].logical_effect_key
    /\ {approvals[a].state, approvals[b].state} \subseteq ActiveApproval \cup {"consumed"}
    => a = b

\* A consumed approval is dispatched by at most one tool, and not again.
OneDispatch ==
  /\ \A w, v \in Workers :
       /\ tool[w].state = "consumed" /\ tool[v].state = "consumed"
       /\ tool[w].approval = tool[v].approval
       => w = v
  /\ \A e \in Effects : dispatched[e] # 0 =>
       /\ dispatched[e] = 1
       /\ \E a \in Approvals : approvals[a].state = "consumed" /\ approvals[a].logical_effect_key = e
       /\ \A w \in Workers : tool[w].state = "consumed"
            => approvals[tool[w].approval].logical_effect_key # e

\* What was reported is over, matches and was acknowledged.
ReportsSound ==
  /\ \A r \in resolved : requests[r].status \in Settled
  /\ \A r \in Requests, s \in Terminal : <<r, s>> \in notified =>
       /\ requests[r].status \in Terminal
       /\ requests[r].status = s \/ r \in resolved
       /\ Reportable(r)

FencesBounded == \A r \in Requests : requests[r].claim_fence <= MaxFence

NothingPruned == \A r \in Requests : requests[r].status # "pruned"

DInv ==
  /\ IInv
  /\ DispatcherTypes
  /\ FencesBounded
  /\ NothingPruned
  /\ \A w \in Workers : SlotOwns(w) /\ SlotVerdict(w) /\ ToolOwns(w)
  /\ SlotsDiffer
  /\ Asked
  /\ OpenIsTooled
  /\ ApprovalHasWaiter
  /\ OneChance
  /\ OneDispatch
  /\ ReportsSound

\* What a worker must know for its next step to be a step of the store; this much holds
\* beside retention too, which deletes rows under the workers.
Concluding == {"ended", "finishing", "evidence", "settling"}

Steered(row) ==
  /\ row.pc \notin Unowned => row.request \in Requests
  /\ row.pc = "stopping" => row.verdict \in Handlers
  /\ row.pc \in Concluding => row.verdict \in Terminal

SlotsSteered ==
  /\ slot \in [Workers -> SlotRow]
  /\ \A w \in Workers : Steered(slot[w])

ToolsSteered ==
  /\ tool \in [Workers -> ToolRow]
  /\ \A w \in Workers : tool[w].state # "none" => tool[w].approval \in Approvals

Steering == IInv /\ FencesBounded /\ SlotsSteered /\ ToolsSteered

LEMMA InvariantSteers == DInv => Steering
  BY DEF DInv, DispatcherTypes, SlotOwns, SlotVerdict, ToolOwns, Owning, Steering, SlotsSteered,
     ToolsSteered, Steered, Concluding

-------------------------------------------------------------------------------
(* Every step of the dispatcher is a step of the store *)

\* A claim the store accepts is one it has issued.
LEMMA FencedIssued ==
  ASSUME IInv, FencesBounded, NEW r \in Requests, NEW k, Fenced(r, k)
  PROVE  k \in 1..MaxFence
<1>1. requests[r] \in Request /\ ValidRow(requests[r])
  BY DEF IInv, TypeOK, GoodRow, RowInv
<1>2. requests[r].claim_fence \in Nat /\ requests[r].claim_fence # 0 /\ requests[r].claim_fence <= MaxFence
  BY <1>1 DEF Fenced, ValidRow, Request, FencesBounded
<1> QED
  BY <1>2 DEF Fenced

LEMMA ClaimedServes ==
  ASSUME IInv, FencesBounded, NEW r \in Requests, NEW k, ClaimedOperation(r, k)
  PROVE  Serve
<1>1. Fenced(r, k)
  BY DEF ClaimedOperation, Start, Release, Renew, Finish, Finishable, Park
<1> QED
  BY <1>1, FencedIssued DEF Serve, RequestOperation

LEMMA OwnerServes ==
  ASSUME IInv, FencesBounded, NEW a \in Approvals, NEW k,
         ResumeConsuming(a, k) \/ ResumeUnconsumed(a, k) \/ Invalidate(a, k)
  PROVE  Serve
<1>1. approvals[a].request_id \in Requests /\ Fenced(approvals[a].request_id, k)
  BY DEF ResumeConsuming, ResumeUnconsumed, Invalidate, OwnsParked, IInv, TypeOK, Approval
<1>2. k \in 1..MaxFence
  BY <1>1, FencedIssued
<1> QED
  BY <1>2 DEF Serve, ApprovalOperation

LEMMA AbandonServes ==
  ASSUME IInv, FencesBounded, NEW a \in Approvals, NEW k, Abandon(a, k)
  PROVE  Serve \/ UNCHANGED storeVars
  BY OwnerServes DEF Abandon

LEMMA StoreStepServes == ASSUME StoreStep PROVE Serve
<1>1. CASE Tick \/ ExpireApprovals
  BY <1>1 DEF Serve
<1>2. ASSUME NEW r \in Requests,
             \/ Submit(r)
             \/ \E outbox \in Outboxes : AttachAcknowledgement(r, outbox) \/ ReleaseAcknowledged(r, outbox)
             \/ \E child \in Requests : Retry(r, child)
             \/ \E status \in {"succeeded", "failed"} : Resolve(r, status)
      PROVE  RequestOperation(r)
  BY <1>2 DEF RequestOperation
<1>3. ASSUME NEW a \in Approvals, NEW decision \in {"approved", "denied"}, Decide(a, decision)
      PROVE  ApprovalOperation(a)
  BY <1>3 DEF ApprovalOperation
<1> QED
  BY <1>1, <1>2, <1>3 DEF StoreStep, Serve

\* What a worker does by itself.
LEMMA ProgressServes ==
  ASSUME Steering, NEW w \in Workers, Progress(w)
  PROVE  Serve \/ UNCHANGED storeVars
<1>1. Owning(w) => slot[w].request \in Requests
  BY DEF Steering, SlotsSteered, Steered, Owning
<1>2. tool[w].state # "none" => tool[w].approval \in Approvals
  BY DEF Steering, ToolsSteered
<1>3. IInv /\ FencesBounded
  BY DEF Steering
<1>4. CASE WorkerRecover(w) \/ WorkerClaimRecover(w) \/ WorkerClaim(w)
  BY <1>4 DEF WorkerRecover, WorkerClaimRecover, WorkerClaim, Serve
<1>5. CASE StartRun(w) \/ HandleRaised(w)
  <2>1. slot[w].request \in Requests
    BY <1>1, <1>5 DEF StartRun, HandleRaised, Owning, Unowned
  <2>2. Start(slot[w].request, slot[w].fence) => Serve
    BY <1>3, <2>1, ClaimedServes DEF ClaimedOperation
  <2> QED
    BY <1>5, <2>2 DEF StartRun, HandleRaised
<1>6. CASE Heartbeat(w)
  <2>1. slot[w].request \in Requests
    BY <1>1, <1>6 DEF Heartbeat, Owning, Unowned
  <2>2. Renew(slot[w].request, slot[w].fence) => Serve
    BY <1>3, <2>1, ClaimedServes DEF ClaimedOperation
  <2> QED
    BY <1>6, <2>2 DEF Heartbeat
<1>7. CASE FinishRun(w) \/ FailRun(w) \/ FinishInterruption(w)
  <2>1. slot[w].request \in Requests
    BY <1>1, <1>7 DEF FinishRun, FailRun, FinishInterruption, Owning, Unowned
  <2>2. ASSUME NEW k, NEW status \in Terminal, Finish(slot[w].request, k, status) PROVE Serve
    BY <1>3, <2>1, <2>2, ClaimedServes DEF ClaimedOperation
  <2>3. slot[w].pc \in {"finishing", "settling"} => slot[w].verdict \in Terminal
    BY DEF Steering, SlotsSteered, Steered, Concluding
  <2>4. "failed" \in Terminal
    BY DEF Terminal
  <2> QED
    BY <1>7, <2>2, <2>3, <2>4 DEF FinishRun, FailRun, FinishInterruption
<1>8. CASE ToolResume(w) \/ ToolConsume(w)
  <2>1. tool[w].approval \in Approvals
    BY <1>2, <1>8 DEF ToolResume, ToolConsume
  <2> QED
    BY <1>3, <1>8, <2>1, OwnerServes DEF ToolResume, ToolConsume
<1>9. CASE StopRun(w)
  <2>1. tool[w].state \in {"waiting", "approved"} => tool[w].approval \in Approvals
    BY <1>2
  <2> QED
    BY <1>3, <1>9, <2>1, AbandonServes DEF StopRun
<1>10. CASE \/ ProjectNotifications(w) \/ ToolDecided(w) \/ ToolDispatch(w) \/ HandleEnded(w)
            \/ HandleCancelling(w) \/ HandleLost(w) \/ HandleInterrupted(w) \/ ReadEvidence(w)
            \/ Notify(w) \/ \E outcome \in Outcomes : RunEnds(w, outcome)
  BY <1>10 DEF ProjectNotifications, ToolDecided, ToolDispatch, HandleEnded, HandleCancelling,
     HandleLost, HandleInterrupted, ReadEvidence, Notify, RunEnds
<1> QED
  BY <1>4, <1>5, <1>6, <1>7, <1>8, <1>9, <1>10 DEF Progress

LEMMA MishapServes ==
  ASSUME Steering, NEW w \in Workers, Mishap(w)
  PROVE  Serve \/ UNCHANGED storeVars
<1>1. IInv /\ FencesBounded
  BY DEF Steering
<1>2. CASE Crash(w)
  <2>1. CASE scanning[w] = Never
    <3>1. scanning' = scanning
      BY <1>1, <1>2, <2>1 DEF Crash, IInv, TypeOK
    <3> QED
      BY <1>2, <3>1 DEF Crash, storeVars
  <2>2. CASE scanning[w] # Never
    BY <1>2, <2>2 DEF Crash, ClaimDropped, Serve
  <2> QED
    BY <2>1, <2>2
<1>3. CASE ToolAbort(w)
  <2>1. tool[w].approval \in Approvals
    BY <1>3 DEF ToolAbort, Steering, ToolsSteered
  <2> QED
    BY <1>1, <1>3, <2>1, AbandonServes DEF ToolAbort
<1>4. ASSUME NEW a \in Approvals, NEW effect \in Effects, ToolPark(w, a, effect) PROVE Serve
  <2>1. slot[w].request \in Requests
    BY <1>4 DEF ToolPark, Steering, SlotsSteered, Steered, Unowned
  <2> QED
    BY <1>1, <1>4, <2>1, ClaimedServes DEF ToolPark, ClaimedOperation
<1>5. CASE DispatchRaises(w) \/ RunRaises(w) \/ HeartbeatFails(w) \/ NotifyRaises(w) \/ Interrupt(w)
           \/ WorkObservably(w)
  BY <1>5 DEF DispatchRaises, RunRaises, HeartbeatFails, NotifyRaises, Interrupt, WorkObservably
<1> QED
  BY <1>2, <1>3, <1>4, <1>5 DEF Mishap

LEMMA UserServes ==
  /\ \A r \in Requests : UserCancel(r) => Serve
  /\ \A a \in Approvals, status \in {"succeeded", "failed"} : UserAttest(a, status) => Serve
  BY DEF UserCancel, UserAttest, Serve, RequestOperation, ApprovalOperation

\* A step of the dispatcher is one of the store, or leaves the store alone.
LEMMA DispatcherServes ==
  ASSUME Steering, [DispatcherNext]_vars
  PROVE  Serve \/ UNCHANGED storeVars
  BY StoreStepServes, ProgressServes, MishapServes, UserServes DEF DispatcherNext, vars

-------------------------------------------------------------------------------
(* What the operations of the store make of approvals *)

\* An approval keeps what it is about; once settled, it keeps its state.
Ages(x, y) ==
  /\ x.state = "absent" => y = x
  /\ x.state # "absent" =>
       /\ y.state # "absent" /\ y.kind = x.kind /\ y.request_id = x.request_id
       /\ y.logical_effect_key = x.logical_effect_key /\ y.claim_fence = x.claim_fence
       /\ x.state \notin ActiveApproval => y.state = x.state
       /\ x.state = "approved" => y.state # "pending"
       /\ y.state = "consumed" => x.state \in {"approved", "consumed"}

AllAge == \A a \in Approvals : Ages(approvals[a], approvals'[a])

\* The requests of the approvals that stay open are parked as before.
WaitersStay ==
  \A a \in Approvals : approvals'[a].state \in ActiveApproval =>
    LET r == approvals[a].request_id
    IN /\ approvals[a].state \in ActiveApproval
       /\ requests'[r].status = requests[r].status
       /\ requests'[r].claim_fence = requests[r].claim_fence

LEMMA SameAge == ASSUME UNCHANGED approvals PROVE AllAge
  BY DEF AllAge, Ages, ActiveApproval

\* The request of an open approval is parked.
LEMMA OpenIsParked ==
  ASSUME IInv, Asked, ApprovalHasWaiter, NEW a \in Approvals, approvals[a].state \in ActiveApproval
  PROVE  /\ approvals[a].request_id \in Requests
         /\ requests[approvals[a].request_id].status \in Parked
         /\ requests[approvals[a].request_id].claim_fence = approvals[a].claim_fence
<1>1. approvals[a].kind \in Parked
  BY DEF IInv, TypeOK, Approval
<1> QED
  BY <1>1 DEF Asked, ApprovalHasWaiter, ActiveApproval

\* An operation on one row that is not parked, or that leaves status and fence alone.
LEMMA OneRowStays ==
  ASSUME IInv, Asked, ApprovalHasWaiter, UNCHANGED approvals, NEW r \in Requests, NEW row,
         requests' = [requests EXCEPT ![r] = row],
         \/ requests[r].status \notin Parked
         \/ row.status = requests[r].status /\ row.claim_fence = requests[r].claim_fence
  PROVE  AllAge /\ WaitersStay
<1>1. \A q \in Requests : q # r => requests'[q] = requests[q]
  BY DEF IInv, TypeOK
<1>2. requests'[r] = row
  BY DEF IInv, TypeOK
<1> QED
  BY <1>1, <1>2, SameAge, OpenIsParked DEF WaitersStay

\* An operation that touches no request and may settle approvals.
LEMMA SettledStays ==
  ASSUME IInv, UNCHANGED requests,
         \A a \in Approvals :
           \/ approvals'[a] = approvals[a]
           \/ \E state \in {"approved", "denied", "expired"} :
                /\ approvals[a].state \in ActiveApproval
                /\ approvals[a].state = "approved" => state # "approved"
                /\ approvals'[a] = [approvals[a] EXCEPT !.state = state]
  PROVE  AllAge /\ WaitersStay
<1> SUFFICES ASSUME NEW a \in Approvals
             PROVE  /\ Ages(approvals[a], approvals'[a])
                    /\ approvals'[a].state \in ActiveApproval => approvals[a].state \in ActiveApproval
  BY DEF AllAge, WaitersStay
<1>1. approvals[a] \in Approval
  BY DEF IInv, TypeOK
<1>2. CASE approvals'[a] = approvals[a]
  BY <1>2 DEF Ages, ActiveApproval
<1>3. ASSUME NEW state \in {"approved", "denied", "expired"}, approvals[a].state \in ActiveApproval,
             approvals'[a] = [approvals[a] EXCEPT !.state = state]
      PROVE  /\ Ages(approvals[a], approvals'[a])
             /\ approvals'[a].state \in ActiveApproval => approvals[a].state \in ActiveApproval
  BY <1>1, <1>3 DEF Ages, ActiveApproval, Approval
<1> QED
  BY <1>2, <1>3

\* Invalidation of the open approvals of the requests of S.
LEMMA InvalidateStays ==
  ASSUME IInv, Asked, ApprovalHasWaiter, NEW S, approvals' = InvalidateActive(S),
         \A r \in Requests \ S : requests[r].status \in Parked =>
           /\ requests'[r].status = requests[r].status
           /\ requests'[r].claim_fence = requests[r].claim_fence
  PROVE  AllAge /\ WaitersStay
<1>1. \A a \in Approvals : approvals[a] \in Approval
  BY DEF IInv, TypeOK
<1>2. ASSUME NEW a \in Approvals
      PROVE  /\ Ages(approvals[a], approvals'[a])
             /\ approvals'[a].state \in ActiveApproval =>
                  approvals[a].state \in ActiveApproval /\ approvals[a].request_id \notin S
  <2>1. CASE approvals[a].request_id \in S /\ approvals[a].state \in ActiveApproval
    <3>1. approvals'[a] = [approvals[a] EXCEPT !.state = "invalidated"]
      BY <2>1 DEF InvalidateActive
    <3> QED
      BY <1>1, <2>1, <3>1 DEF Ages, ActiveApproval, Approval
  <2>2. CASE ~(approvals[a].request_id \in S /\ approvals[a].state \in ActiveApproval)
    <3>1. approvals'[a] = approvals[a]
      BY <2>2 DEF InvalidateActive
    <3> QED
      BY <2>2, <3>1 DEF Ages, ActiveApproval
  <2> QED
    BY <2>1, <2>2
<1> QED
  BY <1>2, OpenIsParked DEF AllAge, WaitersStay

LEMMA RecoverStays ==
  ASSUME IInv, Asked, ApprovalHasWaiter, Recover(now)
  PROVE  AllAge /\ WaitersStay
<1> DEFINE S == {r \in Requests : requests[r].status \in Parked /\ requests[r].claim_expires_at <= now}
<1>1. approvals' = InvalidateActive(S)
  BY DEF Recover
<1>2. ASSUME NEW r \in Requests \ S, requests[r].status \in Parked PROVE requests'[r] = requests[r]
  <2>1. ~(requests[r].claim_expires_at <= now)
    BY <1>2
  <2>2. requests'[r] = Recovered(requests[r], now)
    BY <1>2 DEF Recover
  <2> QED
    BY <1>2, <2>1, <2>2 DEF Recovered, Parked
<1> HIDE DEF S
<1> QED
  BY <1>1, <1>2, InvalidateStays

LEMMA ClaimStays ==
  ASSUME IInv, Asked, ApprovalHasWaiter, NEW w \in Workers, ClaimQueued(w)
  PROVE  AllAge /\ WaitersStay
<1>1. \A r \in Requests : requests[r].status \in Parked => requests'[r] = requests[r]
  BY DEF ClaimQueued, Claimable, Parked
<1> QED
  BY <1>1, SameAge, OpenIsParked DEF WaitersStay, ClaimQueued

LEMMA CancelStays ==
  ASSUME IInv, Asked, ApprovalHasWaiter, NEW r \in Requests, Cancel(r)
  PROVE  AllAge /\ WaitersStay
<1>1. \A q \in Requests \ {r} : requests'[q] = requests[q]
  BY DEF Cancel, IInv, TypeOK
<1>2. CASE requests[r].status \in Parked
  BY <1>1, <1>2, InvalidateStays DEF Cancel
<1>3. CASE requests[r].status \notin Parked
  BY <1>3, OneRowStays DEF Cancel
<1> QED
  BY <1>2, <1>3

LEMMA RequestStays ==
  ASSUME IInv, Asked, ApprovalHasWaiter, NEW r \in Requests, UNCHANGED approvals,
         \/ Submit(r)
         \/ \E outbox \in Outboxes : AttachAcknowledgement(r, outbox) \/ ReleaseAcknowledged(r, outbox)
         \/ \E child \in Requests : Retry(r, child)
         \/ \E status \in {"succeeded", "failed"} : Resolve(r, status)
         \/ \E k : Start(r, k) \/ Renew(r, k) \/ \E status \in Terminal : Finish(r, k, status)
  PROVE  AllAge /\ WaitersStay
<1>1. requests[r] \in Request
  BY DEF IInv, TypeOK
<1>2. CASE Submit(r)
  <2>1. PICK row : requests' = [requests EXCEPT ![r] = row]
    BY <1>2 DEF Submit
  <2> QED
    BY <1>2, <2>1, OneRowStays DEF Submit, Parked
<1>3. ASSUME NEW outbox \in Outboxes, AttachAcknowledgement(r, outbox) PROVE AllAge /\ WaitersStay
  BY <1>1, <1>3, OneRowStays DEF AttachAcknowledgement, Request
<1>4. ASSUME NEW outbox \in Outboxes, ReleaseAcknowledged(r, outbox) PROVE AllAge /\ WaitersStay
  <2> DEFINE row == requests'[r]
  <2>1. /\ requests' = [requests EXCEPT ![r] = row]
        /\ row.claim_fence = requests[r].claim_fence
        /\ requests[r].status # "awaiting_acknowledgement" => row.status = requests[r].status
    BY <1>1, <1>4 DEF ReleaseAcknowledged, IInv, TypeOK, Request
  <2> HIDE DEF row
  <2> QED
    BY <2>1, OneRowStays DEF Parked
<1>5. ASSUME NEW child \in Requests, Retry(r, child) PROVE AllAge /\ WaitersStay
  BY <1>5, OneRowStays DEF Retry, Parked
<1>6. ASSUME NEW status \in {"succeeded", "failed"}, Resolve(r, status) PROVE AllAge /\ WaitersStay
  BY <1>6, OneRowStays DEF Resolve, Parked
<1>7. ASSUME NEW k, Start(r, k) PROVE AllAge /\ WaitersStay
  <2>1. PICK row : requests' = [requests EXCEPT ![r] = row]
    BY <1>7 DEF Start, IInv, TypeOK
  <2> QED
    BY <1>7, <2>1, OneRowStays DEF Start, Parked
<1>8. ASSUME NEW k, Renew(r, k) PROVE AllAge /\ WaitersStay
  BY <1>1, <1>8, OneRowStays DEF Renew, Request
<1>9. ASSUME NEW k, NEW status \in Terminal, Finish(r, k, status) PROVE AllAge /\ WaitersStay
  BY <1>9, OneRowStays DEF Finish, Finishable, Parked
<1> QED
  BY <1>2, <1>3, <1>4, <1>5, <1>6, <1>7, <1>8, <1>9

LEMMA DecideStays ==
  ASSUME IInv, NEW a \in Approvals, NEW decision \in {"approved", "denied"}, Decide(a, decision)
  PROVE  AllAge /\ WaitersStay
<1>1. PICK state \in {"approved", "denied", "expired"} :
        approvals' = [approvals EXCEPT ![a] = [approvals[a] EXCEPT !.state = state]]
  BY DEF Decide
<1>2. approvals[a].state = "pending" /\ UNCHANGED requests
  BY DEF Decide
<1> QED
  BY <1>1, <1>2, SettledStays DEF IInv, TypeOK, ActiveApproval

LEMMA ExpireStays == ASSUME IInv, ExpireApprovals PROVE AllAge /\ WaitersStay
  BY SettledStays DEF ExpireApprovals

LEMMA AttestStays ==
  ASSUME IInv, Asked, ApprovalHasWaiter, NEW a \in Approvals, NEW status \in {"succeeded", "failed"},
         AttestTransaction(a, status)
  PROVE  AllAge /\ WaitersStay
<1>1. approvals[a].request_id \in Requests
  BY DEF AttestTransaction, IInv, TypeOK, Approval
<1> QED
  BY <1>1, OneRowStays DEF AttestTransaction, Parked

LEMMA StoreStepStays ==
  ASSUME IInv, Asked, ApprovalHasWaiter, StoreStep
  PROVE  AllAge /\ WaitersStay
<1>1. CASE Tick
  BY <1>1, SameAge DEF Tick, WaitersStay
<1>2. ASSUME NEW r \in Requests,
             \/ Submit(r)
             \/ \E outbox \in Outboxes : AttachAcknowledgement(r, outbox) \/ ReleaseAcknowledged(r, outbox)
             \/ \E child \in Requests : Retry(r, child)
             \/ \E status \in {"succeeded", "failed"} : Resolve(r, status)
      PROVE  AllAge /\ WaitersStay
  <2>1. UNCHANGED approvals
    BY <1>2 DEF Submit, AttachAcknowledgement, ReleaseAcknowledged, Retry, Resolve
  <2> QED
    BY <1>2, <2>1, RequestStays
<1> QED
  BY <1>1, <1>2, ExpireStays, DecideStays DEF StoreStep

-------------------------------------------------------------------------------
(* What a step keeps *)

\* A fence is never raised past the bound.
LEMMA FencesKeep ==
  ASSUME IInv, FencesBounded, RowsMove
  PROVE  FencesBounded'
<1>1. \A r \in Requests : requests[r].claim_fence \in Nat
  BY DEF IInv, TypeOK, Request
<1> SUFFICES ASSUME NEW r \in Requests PROVE requests'[r].claim_fence <= MaxFence
  BY DEF FencesBounded
<1>2. CASE requests[r].status = "absent"
  <2>1. \/ requests'[r] = requests[r]
        \/ requests'[r].claim_fence = 0
        \/ \E p \in Requests : requests'[r].claim_fence = requests[p].claim_fence
    BY <1>2 DEF RowsMove, Appears
  <2> QED
    BY <1>1, <2>1, TimeAssumption DEF FencesBounded
<1>3. CASE requests[r].status # "absent"
  BY <1>1, <1>3 DEF RowsMove, Evolves, FencesBounded
<1> QED
  BY <1>2, <1>3

\* The rows after any step: the store's invariant, bounded fences, known outcomes.
LEMMA RowsKeep ==
  ASSUME DInv, Serve \/ UNCHANGED storeVars
  PROVE  /\ IInv' /\ RowsMove /\ FencesBounded' /\ NothingPruned'
         /\ \A r \in resolved' : requests'[r].status \in Settled
<1>1. IInv /\ FencesBounded /\ NothingPruned /\ \A r \in resolved : requests[r].status \in Settled
  BY DEF DInv, ReportsSound
<1>2. IInv'
  BY <1>1, InvNext DEF Serve, Next
<1>3. RowsMove
  BY <1>1, ServeMoves, NoneMoves DEF storeVars
<1>4. FencesBounded'
  BY <1>1, <1>3, FencesKeep
<1>5. NothingPruned'
  <2> SUFFICES ASSUME NEW r \in Requests PROVE requests'[r].status # "pruned"
    BY DEF NothingPruned
  <2>1. CASE requests[r].status = "absent"
    BY <1>1, <1>3, <2>1 DEF RowsMove, Appears, NothingPruned
  <2>2. CASE requests[r].status # "absent"
    BY <1>1, <1>3, <2>2 DEF RowsMove, Evolves, NothingPruned
  <2> QED
    BY <2>1, <2>2
<1>6. ASSUME NEW r \in resolved' PROVE requests'[r].status \in Settled
  <2>1. CASE r \in resolved
    <3>1. r \in Requests /\ requests[r].status \in Settled
      BY <1>1, <2>1 DEF IInv, TypeOK
    <3> QED
      BY <1>3, <3>1 DEF RowsMove, Evolves, Settled, Terminal
  <2>2. CASE r \notin resolved
    BY <1>3, <2>2 DEF RowsMove
  <2> QED
    BY <2>1, <2>2
<1> QED
  BY <1>2, <1>3, <1>4, <1>5, <1>6

\* A slot at work was at work before, on the same claim.
Calm(w) ==
  Owning(w)' => Owning(w) /\ slot'[w].request = slot[w].request /\ slot'[w].fence = slot[w].fence

CalmSlots == \A w \in Workers : Calm(w)

LEMMA SlotKeeps ==
  ASSUME DInv, RowsMove, IInv', NEW w \in Workers, Calm(w)
  PROVE  SlotOwns(w)'
<1> SUFFICES ASSUME Owning(w)' PROVE SlotOwns(w)'
  BY DEF SlotOwns
<1> DEFINE r == slot[w].request
<1>1. /\ r \in Requests /\ requests[r].status # "absent" /\ slot[w].fence # 0
      /\ slot[w].fence <= requests[r].claim_fence
      /\ slot'[w].request = r /\ slot'[w].fence = slot[w].fence
  BY DEF DInv, SlotOwns, Calm
<1>2. slot[w].fence \in Nat /\ requests[r].claim_fence \in Nat
  BY <1>1 DEF DInv, DispatcherTypes, SlotRow, IInv, TypeOK, Request
<1>3. requests'[r].status # "absent" /\ requests'[r].claim_fence >= requests[r].claim_fence
      /\ requests'[r].claim_fence \in Nat
  <2>1. Evolves(requests[r], requests'[r], r \in resolved')
    BY <1>1 DEF RowsMove
  <2>2. requests'[r].claim_fence \in Nat
    BY <1>1 DEF IInv, TypeOK, Request
  <2> QED
    BY <1>1, <1>2, <2>1, <2>2 DEF Evolves
<1> HIDE DEF r
<1> QED
  BY <1>1, <1>2, <1>3 DEF SlotOwns

LEMMA SlotsKeep ==
  ASSUME DInv, RowsMove, IInv', CalmSlots
  PROVE  (\A w \in Workers : SlotOwns(w)') /\ SlotsDiffer'
<1>1. SlotsDiffer'
  BY DEF DInv, SlotsDiffer, CalmSlots, Calm
<1> QED
  BY <1>1, SlotKeeps DEF CalmSlots

\* A slot nobody touches keeps the right to its verdict.
LEMMA VerdictKeeps ==
  ASSUME DInv, RowsMove, NEW w \in Workers, slot'[w] = slot[w]
  PROVE  SlotVerdict(w)'
<1>1. SlotVerdict(w) /\ SlotOwns(w)
  BY DEF DInv
<1>2. CASE slot[w].pc = "notifying"
  <2> DEFINE r == slot[w].request
  <2>1. /\ r \in Requests /\ requests[r].status \in Terminal /\ slot[w].verdict \in Terminal
        /\ requests[r].status = slot[w].verdict \/ r \in resolved
    BY <1>1, <1>2 DEF SlotVerdict, SlotOwns, Owning, Unowned
  <2>2. \/ requests'[r].status = requests[r].status
        \/ requests'[r].status \in {"succeeded", "failed"} /\ r \in resolved'
    BY <2>1 DEF RowsMove, Evolves, Settled, Terminal
  <2>3. resolved \subseteq resolved'
    BY DEF RowsMove
  <2> QED
    BY <1>2, <2>1, <2>2, <2>3 DEF SlotVerdict, Terminal
<1>3. CASE slot[w].pc # "notifying"
  BY <1>1, <1>3 DEF SlotVerdict
<1> QED
  BY <1>2, <1>3

\* What is reported now is over, matches and was acknowledged.
NewReports ==
  \A r \in Requests, s \in Terminal : <<r, s>> \in notified' /\ <<r, s>> \notin notified =>
    /\ requests'[r].status \in Terminal
    /\ requests'[r].status = s \/ r \in resolved'
    /\ Reportable(r)'

\* What was reported stays true; what is reported now is.
LEMMA ReportsKeep ==
  ASSUME DInv, RowsMove, IInv', NewReports, \A r \in resolved' : requests'[r].status \in Settled
  PROVE  ReportsSound'
<1>1. ASSUME NEW r \in Requests, NEW s \in Terminal, <<r, s>> \in notified
      PROVE  /\ requests'[r].status \in Terminal
             /\ requests'[r].status = s \/ r \in resolved'
             /\ Reportable(r)'
  <2>1. requests[r].status \in Terminal /\ (requests[r].status = s \/ r \in resolved) /\ Reportable(r)
    BY <1>1 DEF DInv, ReportsSound
  <2>2. \/ requests'[r].status = requests[r].status
        \/ requests'[r].status \in {"succeeded", "failed"} /\ r \in resolved'
    BY <2>1 DEF RowsMove, Evolves, Settled, Terminal
  <2>3. resolved \subseteq resolved'
    BY DEF RowsMove
  <2>4. Reportable(r)'
    BY <2>1 DEF RowsMove, Evolves, Reportable, Terminal
  <2> QED
    BY <2>1, <2>2, <2>3, <2>4 DEF Terminal
<1> QED
  BY <1>1 DEF ReportsSound, NewReports

\* Approvals that age keep their requests, effects and waiters.
LEMMA ApprovalsKeep ==
  ASSUME DInv, AllAge, WaitersStay
  PROVE  Asked' /\ OneChance' /\ ApprovalHasWaiter'
<1>1. Asked'
  BY DEF DInv, Asked, AllAge, Ages
<1>2. ASSUME NEW a \in Approvals, approvals'[a].state \in ActiveApproval \cup {"consumed"}
      PROVE  /\ approvals[a].state \in ActiveApproval \cup {"consumed"}
             /\ approvals'[a].logical_effect_key = approvals[a].logical_effect_key
  BY <1>2 DEF AllAge, Ages, ActiveApproval, WaitersStay
<1>3. OneChance'
  BY <1>2 DEF DInv, OneChance
<1>4. ApprovalHasWaiter'
  <2> SUFFICES ASSUME NEW a \in Approvals, approvals'[a].state \in ActiveApproval
               PROVE  LET row == requests'[approvals'[a].request_id]
                      IN row.status = approvals'[a].kind /\ row.claim_fence = approvals'[a].claim_fence
    BY DEF ApprovalHasWaiter
  <2>1. approvals[a].state \in ActiveApproval
    BY DEF WaitersStay
  <2>2. /\ approvals'[a].request_id = approvals[a].request_id /\ approvals'[a].kind = approvals[a].kind
        /\ approvals'[a].claim_fence = approvals[a].claim_fence
    BY <2>1 DEF AllAge, Ages, ActiveApproval
  <2> QED
    BY <2>1, <2>2 DEF WaitersStay, DInv, ApprovalHasWaiter
<1> QED
  BY <1>1, <1>3, <1>4

\* A tool keeps to its open approval, or the approval is no longer open.
Quiet(w) ==
  Owning(w)' =>
    \/ tool'[w] = tool[w]
    \/ tool'[w].approval = tool[w].approval /\ tool'[w].state \in {"waiting", "approved"}
    \/ tool[w].state \notin {"waiting", "approved"}
    \/ approvals'[tool[w].approval].state \notin ActiveApproval

LEMMA OpenKeeps ==
  ASSUME DInv, AllAge, WaitersStay, CalmSlots, \A w \in Workers : Quiet(w)
  PROVE  OpenIsTooled'
<1> SUFFICES ASSUME NEW w \in Workers, NEW b \in Approvals, Owning(w)',
                    approvals'[b].state \in ActiveApproval,
                    approvals'[b].request_id = slot'[w].request,
                    approvals'[b].claim_fence = slot'[w].fence
             PROVE  tool'[w].approval = b /\ tool'[w].state \in {"waiting", "approved"}
  BY DEF OpenIsTooled
<1>1. /\ approvals[b].state \in ActiveApproval
      /\ approvals'[b].request_id = approvals[b].request_id
      /\ approvals'[b].claim_fence = approvals[b].claim_fence
  BY DEF WaitersStay, AllAge, Ages, ActiveApproval
<1>2. tool[w].approval = b /\ tool[w].state \in {"waiting", "approved"}
  BY <1>1 DEF CalmSlots, Calm, DInv, OpenIsTooled
<1> QED
  BY <1>2 DEF Quiet

\* No tool gets to a consumed approval.
NoneConsumed == \A w \in Workers : tool'[w].state = "consumed" => tool'[w] = tool[w]

LEMMA DispatchKeeps ==
  ASSUME DInv, UNCHANGED dispatched, NoneConsumed,
         \A a \in Approvals : approvals[a].state = "consumed" =>
           /\ approvals'[a].state = "consumed"
           /\ approvals'[a].logical_effect_key = approvals[a].logical_effect_key
  PROVE  OneDispatch'
<1>1. \A w \in Workers : tool'[w].state = "consumed" =>
        /\ tool'[w] = tool[w] /\ tool[w].approval \in Approvals
        /\ approvals'[tool[w].approval].logical_effect_key = approvals[tool[w].approval].logical_effect_key
  BY DEF NoneConsumed, DInv, ToolOwns
<1>2. OneDispatch
  BY DEF DInv
<1>3. \A w, v \in Workers :
       /\ tool'[w].state = "consumed" /\ tool'[v].state = "consumed"
       /\ tool'[w].approval = tool'[v].approval
       => w = v
  BY <1>1, <1>2 DEF OneDispatch
<1>4. ASSUME NEW e \in Effects, dispatched[e] # 0
      PROVE  /\ dispatched[e] = 1
             /\ \E a \in Approvals : approvals'[a].state = "consumed" /\ approvals'[a].logical_effect_key = e
             /\ \A w \in Workers : tool'[w].state = "consumed"
                  => approvals'[tool'[w].approval].logical_effect_key # e
  BY <1>1, <1>2, <1>4 DEF OneDispatch
<1> QED
  BY <1>3, <1>4 DEF OneDispatch

LEMMA AgesDispatch ==
  ASSUME DInv, UNCHANGED dispatched, NoneConsumed, AllAge
  PROVE  OneDispatch'
<1>1. \A a \in Approvals : approvals[a].state = "consumed" =>
        approvals'[a].state = "consumed" /\ approvals'[a].logical_effect_key = approvals[a].logical_effect_key
  BY DEF AllAge, Ages, ActiveApproval
<1> QED
  BY <1>1, DispatchKeeps

\* A tool nobody touches stays with its approval.
LEMMA ToolStays ==
  ASSUME DInv, AllAge, NEW w \in Workers, tool'[w] = tool[w],
         tool[w].state # "none" =>
           /\ slot'[w].pc \in {"running", "stopping"}
           /\ slot'[w].request = slot[w].request /\ slot'[w].fence = slot[w].fence
  PROVE  ToolOwns(w)'
<1>1. ToolOwns(w)
  BY DEF DInv
<1> QED
  BY <1>1 DEF ToolOwns, AllAge, Ages, ActiveApproval

\* A step after which the slots and tools are sound.
LEMMA StepKeeps ==
  ASSUME DInv, Serve \/ UNCHANGED storeVars, AllAge, WaitersStay, NewReports, DispatcherTypes',
         \A w \in Workers : SlotOwns(w)' /\ SlotVerdict(w)' /\ ToolOwns(w)',
         SlotsDiffer', OpenIsTooled', OneDispatch'
  PROVE  DInv'
<1>1. /\ IInv' /\ RowsMove /\ FencesBounded' /\ NothingPruned'
      /\ \A r \in resolved' : requests'[r].status \in Settled
  BY RowsKeep
<1>2. Asked' /\ OneChance' /\ ApprovalHasWaiter'
  BY ApprovalsKeep
<1>3. ReportsSound'
  BY <1>1, ReportsKeep
<1> QED
  BY <1>1, <1>2, <1>3 DEF DInv

\* A worker that does nothing.
LEMMA OthersKeep ==
  ASSUME DInv, RowsMove, AllAge, NEW v \in Workers, slot'[v] = slot[v], tool'[v] = tool[v]
  PROVE  Calm(v) /\ Quiet(v) /\ SlotVerdict(v)' /\ ToolOwns(v)'
<1>1. Calm(v) /\ Quiet(v)
  BY DEF Calm, Quiet, Owning
<1>2. SlotVerdict(v)'
  BY VerdictKeeps
<1>3. ToolOwns(v)'
  BY ToolStays DEF DInv, ToolOwns
<1> QED
  BY <1>1, <1>2, <1>3

\* A step in which nobody claims or parks.
LEMMA CalmKeeps ==
  ASSUME DInv, Serve \/ UNCHANGED storeVars, AllAge, WaitersStay, NewReports, DispatcherTypes',
         \A v \in Workers : Calm(v) /\ Quiet(v) /\ SlotVerdict(v)' /\ ToolOwns(v)',
         OneDispatch'
  PROVE  DInv'
<1>1. IInv' /\ RowsMove
  BY RowsKeep
<1>2. (\A v \in Workers : SlotOwns(v)') /\ SlotsDiffer'
  BY <1>1, SlotsKeep DEF CalmSlots
<1>3. OpenIsTooled'
  BY OpenKeeps DEF CalmSlots
<1> QED
  BY <1>2, <1>3, StepKeeps

OthersStay(w) == \A v \in Workers \ {w} : slot'[v] = slot[v] /\ tool'[v] = tool[v]

\* The step of a worker w that neither claims nor parks keeps the invariant.
LEMMA ActorKeeps ==
  ASSUME DInv, NEW w \in Workers, Serve \/ UNCHANGED storeVars, AllAge, WaitersStay, NewReports,
         DispatcherTypes', OthersStay(w), Calm(w), Quiet(w), SlotVerdict(w)', ToolOwns(w)',
         OneDispatch'
  PROVE  DInv'
<1>1. RowsMove
  BY RowsKeep
<1>2. ASSUME NEW v \in Workers PROVE Calm(v) /\ Quiet(v) /\ SlotVerdict(v)' /\ ToolOwns(v)'
  BY <1>1, OthersKeep DEF OthersStay
<1> QED
  BY <1>2, CalmKeeps

\* The step of a worker that moves its slot only.
LEMMA SlotMoves ==
  ASSUME DInv, NEW w \in Workers, Serve \/ UNCHANGED storeVars, AllAge, WaitersStay,
         slot' = [slot EXCEPT ![w] = slot'[w]], slot'[w] \in SlotRow, Calm(w), SlotVerdict(w)',
         tool[w].state # "none" => slot'[w].pc \in {"running", "stopping"},
         observable' \subseteq Requests, UNCHANGED <<tool, dispatched, notified>>
  PROVE  DInv'
<1>1. DispatcherTypes' /\ OthersStay(w)
  BY DEF DInv, DispatcherTypes, OthersStay
<1>2. Quiet(w) /\ NewReports /\ NoneConsumed
  BY DEF Quiet, NewReports, NoneConsumed
<1>3. ToolOwns(w)'
  <2>1. tool[w].state # "none" => Owning(w)'
    BY DEF Owning, Unowned
  <2> QED
    BY <2>1, ToolStays DEF Calm
<1> QED
  BY <1>1, <1>2, <1>3, ActorKeeps, AgesDispatch

LEMMA SameStays == ASSUME UNCHANGED storeVars PROVE AllAge /\ WaitersStay
  BY SameAge DEF storeVars, WaitersStay

-------------------------------------------------------------------------------
(* The steps of a worker that leave the store alone *)

\* A slot that gives up or is done.
LEMMA ReturnMoves ==
  ASSUME DInv, NEW w \in Workers, Return(w), tool[w].state = "none",
         UNCHANGED <<storeVars, tool, observable, dispatched, notified>>
  PROVE  DInv'
<1>1. slot'[w] = Idle /\ slot' = [slot EXCEPT ![w] = slot'[w]] /\ Idle \in SlotRow
  BY DEF Return, DInv, DispatcherTypes, Idle, SlotRow, PCs, Verdicts
<1>2. Calm(w) /\ SlotVerdict(w)'
  BY <1>1 DEF Calm, SlotVerdict, Idle, Owning, Unowned
<1> QED
  BY <1>1, <1>2, SameStays, SlotMoves DEF DInv, DispatcherTypes

\* A slot goes on to pc with a verdict, on the same claim.
Moved(w, pc, verdict) ==
  /\ slot' = [slot EXCEPT ![w] = slot'[w]]
  /\ slot'[w] \in SlotRow
  /\ slot'[w].pc = pc /\ slot'[w].verdict = verdict
  /\ slot'[w].request = slot[w].request /\ slot'[w].fence = slot[w].fence

LEMMA RowMoved ==
  ASSUME DInv, NEW w \in Workers, NEW pc \in PCs, NEW held \in Nat, NEW verdict \in Verdicts,
         slot' = [slot EXCEPT ![w] = [slot[w] EXCEPT !.pc = pc, !.held = held, !.verdict = verdict]]
  PROVE  Moved(w, pc, verdict)
<1> DEFINE x == slot[w]
           y == slot'[w]
<1>1. slot \in [Workers -> SlotRow]
  BY DEF DInv, DispatcherTypes
<1>2. /\ x \in SlotRow /\ y = [x EXCEPT !.pc = pc, !.held = held, !.verdict = verdict]
      /\ slot' = [slot EXCEPT ![w] = y]
  BY <1>1
<1> HIDE DEF x, y
<1>3. y = [pc |-> pc, request |-> x.request, fence |-> x.fence, held |-> held, verdict |-> verdict]
  BY <1>2 DEF SlotRow
<1>4. x.request \in Requests \cup {None} /\ x.fence \in Nat
  BY <1>2 DEF SlotRow
<1>5. y \in SlotRow
  BY <1>3, <1>4 DEF SlotRow
<1>6. y.pc = pc /\ y.verdict = verdict /\ y.request = x.request /\ y.fence = x.fence
  BY <1>3
<1> QED
  BY <1>2, <1>5, <1>6 DEF x, y, Moved

LEMMA GotoMoved ==
  ASSUME DInv, NEW w \in Workers, NEW pc \in PCs, Goto(w, pc)
  PROVE  Moved(w, pc, slot[w].verdict)
<1>1. slot \in [Workers -> SlotRow]
  BY DEF DInv, DispatcherTypes
<1>2. slot[w].held \in Nat /\ slot[w].verdict \in Verdicts
  BY <1>1 DEF SlotRow
<1>3. slot' = [slot EXCEPT ![w] =
                 [slot[w] EXCEPT !.pc = pc, !.held = slot[w].held, !.verdict = slot[w].verdict]]
  BY <1>1 DEF Goto, SlotRow
<1> QED
  BY <1>2, <1>3, RowMoved

LEMMA VerdictMoved ==
  ASSUME DInv, NEW w \in Workers, NEW pc \in PCs, NEW verdict \in Verdicts,
         slot' = [slot EXCEPT ![w].pc = pc, ![w].verdict = verdict]
  PROVE  Moved(w, pc, verdict)
<1>1. slot \in [Workers -> SlotRow]
  BY DEF DInv, DispatcherTypes
<1>2. slot[w].held \in Nat
  BY <1>1 DEF SlotRow
<1>3. slot' = [slot EXCEPT ![w] =
                 [slot[w] EXCEPT !.pc = pc, !.held = slot[w].held, !.verdict = verdict]]
  BY <1>1 DEF SlotRow
<1> QED
  BY <1>2, <1>3, RowMoved

LEMMA SettleMoved ==
  ASSUME DInv, NEW w \in Workers, Owning(w), NEW clean \in Terminal, Settle(w, clean)
  PROVE  Moved(w, "evidence", clean)
<1>1. slot \in [Workers -> SlotRow] /\ Mine(w).claim_fence \in Nat
  BY DEF DInv, DispatcherTypes, SlotOwns, IInv, TypeOK, Request, Mine
<1>2. slot' = [slot EXCEPT ![w] =
                 [slot[w] EXCEPT !.pc = "evidence", !.held = Mine(w).claim_fence, !.verdict = clean]]
  BY <1>1 DEF Settle, SlotRow
<1> QED
  BY <1>1, <1>2, RowMoved DEF PCs, Verdicts

LEMMA GoesOn ==
  ASSUME DInv, NEW w \in Workers, Owning(w), NEW pc, NEW verdict, Moved(w, pc, verdict),
         pc # "notifying",
         pc = "stopping" => verdict \in Handlers,
         pc \in {"ended", "finishing"} => verdict \in Terminal \ {"cancelled"},
         pc \in {"evidence", "settling"} => verdict \in Terminal,
         tool[w].state # "none" => pc \in {"running", "stopping"},
         Serve \/ UNCHANGED storeVars, AllAge, WaitersStay,
         observable' \subseteq Requests, UNCHANGED <<tool, dispatched, notified>>
  PROVE  DInv'
<1>1. Calm(w) /\ SlotVerdict(w)'
  BY DEF Calm, SlotVerdict, Moved
<1> QED
  BY <1>1, SlotMoves DEF Moved

\* A slot that is not running its request has no tool at work.
LEMMA ToolIdle ==
  ASSUME DInv, NEW w \in Workers, slot[w].pc \notin {"running", "stopping"}
  PROVE  tool[w].state = "none"
  BY DEF DInv, ToolOwns

LEMMA QuietSteps ==
  ASSUME DInv, NEW w \in Workers,
         \/ DispatchRaises(w) \/ HeartbeatFails(w) \/ Interrupt(w) \/ RunRaises(w)
         \/ \E outcome \in Outcomes : RunEnds(w, outcome)
  PROVE  DInv'
<1>1. AllAge /\ WaitersStay /\ UNCHANGED storeVars /\ UNCHANGED <<tool, dispatched, notified>>
  BY SameStays DEF DispatchRaises, HeartbeatFails, Interrupt, RunRaises, RunEnds
<1>2. Owning(w) /\ slot[w].request \in Requests /\ observable \subseteq Requests
  BY DEF DispatchRaises, HeartbeatFails, Interrupt, RunRaises, RunEnds, Owning, Unowned, DInv,
     SlotOwns, DispatcherTypes
<1>3. CASE DispatchRaises(w) \/ RunRaises(w)
  <2>1. Moved(w, "raised", slot[w].verdict) /\ observable' = observable
    BY <1>3, GotoMoved DEF DispatchRaises, RunRaises, PCs
  <2>2. tool[w].state = "none"
    BY <1>3, ToolIdle DEF DispatchRaises, RunRaises, NoTool
  <2> QED
    BY <1>1, <1>2, <2>1, <2>2, GoesOn
<1>4. CASE HeartbeatFails(w)
  <2>1. Moved(w, "stopping", "lost") /\ observable' = observable
    BY <1>4, VerdictMoved DEF HeartbeatFails, PCs, Verdicts, Handlers
  <2> QED
    BY <1>1, <1>2, <2>1, GoesOn DEF Handlers
<1>5. CASE Interrupt(w)
  <2> DEFINE pc == IF slot[w].pc = "running" THEN "stopping" ELSE "interrupted"
  <2>1. pc \in PCs /\ "interrupted" \in Verdicts
    BY DEF PCs, Verdicts, Handlers
  <2>2. slot' = [slot EXCEPT ![w].pc = pc, ![w].verdict = "interrupted"] /\ observable' = observable
    BY <1>5 DEF Interrupt, DInv, DispatcherTypes
  <2>3. tool[w].state # "none" => pc = "stopping"
    BY <1>5, ToolIdle DEF Interrupt
  <2>4. pc \in {"stopping", "interrupted"}
    OBVIOUS
  <2> HIDE DEF pc
  <2>5. Moved(w, pc, "interrupted")
    BY <2>1, <2>2, VerdictMoved
  <2> QED
    BY <1>1, <1>2, <2>2, <2>3, <2>4, <2>5, GoesOn DEF Handlers
<1>6. ASSUME NEW outcome \in Outcomes, RunEnds(w, outcome) PROVE DInv'
  <2> DEFINE verdict == IF outcome = "interrupted" THEN "uncertain" ELSE outcome
  <2>1. verdict \in Terminal \ {"cancelled"} /\ verdict \in Verdicts /\ "ended" \in PCs
    BY DEF Outcomes, Terminal, Verdicts, PCs
  <2>2. slot' = [slot EXCEPT ![w].pc = "ended", ![w].verdict = verdict] /\ observable' \subseteq Requests
    BY <1>2, <1>6 DEF RunEnds
  <2>3. tool[w].state = "none"
    BY <1>6 DEF RunEnds, NoTool
  <2> HIDE DEF verdict
  <2>4. Moved(w, "ended", verdict)
    BY <2>1, <2>2, VerdictMoved
  <2> QED
    BY <1>1, <1>2, <2>1, <2>2, <2>3, <2>4, GoesOn
<1> QED
  BY <1>3, <1>4, <1>5, <1>6

\* A handler settles what it read, or leaves.
LEMMA HandlerSteps ==
  ASSUME DInv, NEW w \in Workers, slot[w].pc \notin Unowned \cup {"running", "stopping"},
         \/ \E clean \in Terminal : Settle(w, clean)
         \/ Goto(w, "finishing") /\ slot[w].pc = "ended"
         \/ \E pc \in {"raised", "failing"} : Goto(w, pc)
         \/ Return(w),
         UNCHANGED <<storeVars, tool, observable, dispatched, notified>>
  PROVE  DInv'
<1>1. AllAge /\ WaitersStay /\ observable \subseteq Requests
  BY SameStays DEF DInv, DispatcherTypes
<1>2. Owning(w) /\ tool[w].state = "none"
  BY ToolIdle DEF Owning
<1>3. ASSUME NEW clean \in Terminal, Settle(w, clean) PROVE DInv'
  <2>1. Moved(w, "evidence", clean)
    BY <1>2, <1>3, SettleMoved
  <2> QED
    BY <1>1, <1>2, <2>1, GoesOn
<1>4. CASE Goto(w, "finishing") /\ slot[w].pc = "ended"
  <2>1. Moved(w, "finishing", slot[w].verdict)
    BY <1>4, GotoMoved DEF PCs
  <2>2. slot[w].verdict \in Terminal \ {"cancelled"}
    BY <1>4 DEF DInv, SlotVerdict
  <2> QED
    BY <1>1, <1>2, <2>1, <2>2, GoesOn
<1>5. ASSUME NEW pc \in {"raised", "failing"}, Goto(w, pc) PROVE DInv'
  <2>1. Moved(w, pc, slot[w].verdict)
    BY <1>5, GotoMoved DEF PCs
  <2> QED
    BY <1>1, <1>2, <2>1, GoesOn
<1>6. CASE Return(w)
  BY <1>2, <1>6, ReturnMoves
<1> QED
  BY <1>3, <1>4, <1>5, <1>6

LEMMA HandleSteps ==
  ASSUME DInv, NEW w \in Workers,
         HandleEnded(w) \/ HandleCancelling(w) \/ HandleLost(w) \/ HandleInterrupted(w) \/ NotifyRaises(w)
  PROVE  DInv'
<1>1. slot[w].pc \notin Unowned \cup {"running", "stopping"}
  BY DEF HandleEnded, HandleCancelling, HandleLost, HandleInterrupted, NotifyRaises, Unowned
<1>2. UNCHANGED <<storeVars, tool, observable, dispatched, notified>>
  BY DEF HandleEnded, HandleCancelling, HandleLost, HandleInterrupted, NotifyRaises
<1>3. "cancelled" \in Terminal /\ "failed" \in Terminal
  BY DEF Terminal
<1>4. \/ \E clean \in Terminal : Settle(w, clean)
      \/ Goto(w, "finishing") /\ slot[w].pc = "ended"
      \/ Return(w)
  BY <1>3 DEF HandleEnded, HandleCancelling, HandleLost, HandleInterrupted, NotifyRaises
<1> QED
  BY <1>1, <1>2, <1>4, HandlerSteps

LEMMA EvidenceStep ==
  ASSUME DInv, NEW w \in Workers, ReadEvidence(w)
  PROVE  DInv'
<1>1. PICK seen \in BOOLEAN :
        slot' = [slot EXCEPT ![w].pc = "settling", ![w].verdict = IF seen THEN "uncertain" ELSE @]
  BY DEF ReadEvidence
<1> DEFINE verdict == IF seen THEN "uncertain" ELSE slot[w].verdict
<1>2. slot' = [slot EXCEPT ![w].pc = "settling", ![w].verdict = verdict]
  BY <1>1 DEF DInv, DispatcherTypes
<1>3. verdict \in Terminal
  BY DEF ReadEvidence, DInv, SlotVerdict, Terminal
<1>4. AllAge /\ WaitersStay /\ observable' \subseteq Requests /\ tool[w].state = "none" /\ Owning(w)
  BY SameStays, ToolIdle DEF ReadEvidence, DInv, DispatcherTypes, Owning, Unowned
<1> HIDE DEF verdict
<1>5. Moved(w, "settling", verdict)
  BY <1>2, <1>3, VerdictMoved DEF PCs, Verdicts
<1> QED
  BY <1>3, <1>4, <1>5, GoesOn DEF ReadEvidence

\* The report of a finished run is the outcome the row has.
LEMMA NotifyStep ==
  ASSUME DInv, NEW w \in Workers, Notify(w)
  PROVE  DInv'
<1> DEFINE r == slot[w].request
           s == slot[w].verdict
<1>1. /\ r \in Requests /\ s \in Terminal /\ requests[r].status \in Terminal
      /\ requests[r].status = s \/ r \in resolved
  BY DEF Notify, DInv, SlotOwns, SlotVerdict, Owning, Unowned
<1>2. /\ slot'[w] = Idle /\ OthersStay(w) /\ tool'[w] = tool[w] /\ tool[w].state = "none"
      /\ slot' = [slot EXCEPT ![w] = Idle] /\ NoneConsumed
  BY ToolIdle DEF Notify, Return, DInv, DispatcherTypes, OthersStay, NoneConsumed
<1>3. notified' = notified \/ (Reportable(r) /\ notified' = notified \cup {<<r, s>>})
  BY DEF Notify, Reported
<1>4. UNCHANGED storeVars /\ UNCHANGED <<tool, observable, dispatched>>
  BY DEF Notify
<1>5. notified' \subseteq Requests \X Terminal
  BY <1>1, <1>3 DEF DInv, DispatcherTypes
<1>6. DispatcherTypes'
  BY <1>2, <1>4, <1>5 DEF DInv, DispatcherTypes, SlotRow, Idle, PCs, Verdicts
<1>7. Calm(w) /\ SlotVerdict(w)' /\ Quiet(w) /\ ToolOwns(w)'
  BY <1>2 DEF Calm, SlotVerdict, Quiet, ToolOwns, Idle, Owning, Unowned
<1>8. NewReports
  BY <1>1, <1>3, <1>4 DEF NewReports, Reportable, storeVars
<1> QED
  BY <1>2, <1>4, <1>6, <1>7, <1>8, ActorKeeps, AgesDispatch, SameStays

LEMMA ObservablyStep ==
  ASSUME DInv, NEW w \in Workers, WorkObservably(w)
  PROVE  DInv'
<1>1. slot[w].request \in Requests /\ slot[w] \in SlotRow /\ slot' = [slot EXCEPT ![w] = slot'[w]]
  BY DEF WorkObservably, DInv, SlotOwns, DispatcherTypes, Owning, Unowned
<1>2. Calm(w) /\ SlotVerdict(w)'
  BY DEF Calm, WorkObservably, SlotVerdict, Owning
<1>3. /\ AllAge /\ WaitersStay /\ UNCHANGED storeVars /\ UNCHANGED <<tool, dispatched, notified>>
      /\ observable' \subseteq Requests /\ slot'[w] \in SlotRow /\ slot'[w].pc = "running"
  BY <1>1, SameStays DEF WorkObservably, DInv, DispatcherTypes
<1> QED
  BY <1>1, <1>2, <1>3, SlotMoves

-------------------------------------------------------------------------------
(* The steps of a worker that use the store *)

\* worker_once before it has a claim.
LEMMA PollSteps ==
  ASSUME DInv, NEW w \in Workers,
         WorkerRecover(w) \/ ProjectNotifications(w) \/ WorkerClaimRecover(w)
  PROVE  DInv'
<1>1. IInv /\ Asked /\ ApprovalHasWaiter /\ slot \in [Workers -> SlotRow] /\ observable \subseteq Requests
  BY DEF DInv, DispatcherTypes
<1>2. slot[w].pc \in Unowned /\ tool[w].state = "none"
  BY ToolIdle DEF WorkerRecover, ProjectNotifications, WorkerClaimRecover, Unowned
<1>3. slot' = slot \/ \E pc \in {"projecting", "claiming"} : Goto(w, pc)
  BY DEF WorkerRecover, ProjectNotifications, WorkerClaimRecover, dispatchVars
<1>4. slot'[w] \in SlotRow /\ slot'[w].pc \in Unowned /\ slot' = [slot EXCEPT ![w] = slot'[w]]
  <2>1. CASE slot' = slot
    BY <1>1, <1>2, <2>1
  <2>2. ASSUME NEW pc \in {"projecting", "claiming"}, Goto(w, pc)
        PROVE  slot'[w] \in SlotRow /\ slot'[w].pc \in Unowned /\ slot' = [slot EXCEPT ![w] = slot'[w]]
    BY <2>2, GotoMoved DEF PCs, Moved, Unowned
  <2> QED
    BY <1>3, <2>1, <2>2
<1>5. Calm(w) /\ SlotVerdict(w)'
  BY <1>4 DEF Calm, SlotVerdict, Owning, Unowned
<1>6. CASE WorkerRecover(w) \/ WorkerClaimRecover(w)
  <2>1. Recover(now) /\ UNCHANGED <<tool, observable, dispatched, notified>>
    BY <1>6 DEF WorkerRecover, WorkerClaimRecover, RecoverExpired, ClaimRecover, dispatchVars
  <2>2. AllAge /\ WaitersStay /\ Serve
    BY <1>1, <1>6, <2>1, RecoverStays DEF WorkerRecover, WorkerClaimRecover, Serve
  <2> QED
    BY <1>1, <1>2, <1>4, <1>5, <2>1, <2>2, SlotMoves
<1>7. CASE ProjectNotifications(w)
  <2>1. UNCHANGED storeVars /\ UNCHANGED <<tool, observable, dispatched>>
    BY <1>7 DEF ProjectNotifications
  <2>2. \A x \in notified' : x \in notified \/
          \E r \in Requests : x = <<r, requests[r].status>> /\ requests[r].status \in Terminal /\ Reportable(r)
    BY <1>7 DEF ProjectNotifications
  <2>3. notified' \subseteq Requests \X Terminal
    BY <2>2 DEF DInv, DispatcherTypes
  <2>4. DispatcherTypes' /\ OthersStay(w) /\ NoneConsumed
    BY <1>4, <2>1, <2>3 DEF DInv, DispatcherTypes, OthersStay, NoneConsumed
  <2>5. NewReports
    BY <2>1, <2>2 DEF NewReports, Reportable, storeVars
  <2>6. Quiet(w) /\ ToolOwns(w)'
    BY <1>2, <2>1 DEF Quiet, ToolOwns
  <2> QED
    BY <1>5, <2>1, <2>4, <2>5, <2>6, SameStays, ActorKeeps, AgesDispatch
<1> QED
  BY <1>6, <1>7

\* start() takes the claim to running, from the slot's run or to be failed.
LEMMA StartKeeps ==
  ASSUME DInv, NEW w \in Workers, Owning(w), slot[w].pc \notin {"running", "stopping"},
         Start(slot[w].request, slot[w].fence), NEW pc \in {"running", "failing"}, Goto(w, pc),
         UNCHANGED <<tool, observable, dispatched, notified>>
  PROVE  DInv'
<1> DEFINE r == slot[w].request
           k == slot[w].fence
<1>1. /\ r \in Requests /\ IInv /\ FencesBounded /\ Asked /\ ApprovalHasWaiter
      /\ observable \subseteq Requests
  BY DEF DInv, SlotOwns, DispatcherTypes
<1>2. Start(r, k)
  OBVIOUS
<1> HIDE DEF r, k
<1>3. Serve
  BY <1>1, <1>2, ClaimedServes DEF ClaimedOperation
<1>4. UNCHANGED approvals
  BY <1>2 DEF Start
<1>5. AllAge /\ WaitersStay
  BY <1>1, <1>2, <1>4, RequestStays
<1>6. Moved(w, pc, slot[w].verdict)
  BY GotoMoved DEF PCs
<1>7. tool[w].state = "none"
  BY ToolIdle
<1> QED
  BY <1>1, <1>3, <1>5, <1>6, <1>7, GoesOn

LEMMA StartSteps ==
  ASSUME DInv, NEW w \in Workers, StartRun(w) \/ HandleRaised(w)
  PROVE  DInv'
<1>1. Owning(w) /\ slot[w].pc \notin Unowned \cup {"running", "stopping"}
  BY DEF StartRun, HandleRaised, Owning, Unowned
<1>2. UNCHANGED <<tool, observable, dispatched, notified>>
  BY DEF StartRun, HandleRaised
<1>3. \/ Start(slot[w].request, slot[w].fence) /\ \E pc \in {"running", "failing"} : Goto(w, pc)
      \/ /\ UNCHANGED storeVars
         /\ \/ Settle(w, "cancelled")
            \/ \E pc \in {"raised", "failing"} : Goto(w, pc)
            \/ Return(w)
  BY DEF StartRun, HandleRaised, Goto
<1>4. "cancelled" \in Terminal
  BY DEF Terminal
<1> QED
  BY <1>1, <1>2, <1>3, <1>4, StartKeeps, HandlerSteps

LEMMA FinishKeeps ==
  ASSUME DInv, NEW w \in Workers, Owning(w), slot[w].pc \notin {"running", "stopping"},
         NEW k, NEW status \in Terminal, Finish(slot[w].request, k, status),
         Moved(w, "notifying", status),
         UNCHANGED <<tool, observable, dispatched, notified>>
  PROVE  DInv'
<1> DEFINE r == slot[w].request
<1>1. /\ r \in Requests /\ IInv /\ FencesBounded /\ Asked /\ ApprovalHasWaiter
      /\ observable \subseteq Requests
  BY DEF DInv, SlotOwns, DispatcherTypes
<1>2. Finish(r, k, status) /\ slot'[w].request = r
  BY DEF Moved
<1>3. /\ slot' = [slot EXCEPT ![w] = slot'[w]] /\ slot'[w] \in SlotRow
      /\ slot'[w].pc = "notifying" /\ slot'[w].verdict = status /\ Calm(w)
  BY DEF Moved, Calm
<1> HIDE DEF r
<1>4. Serve
  BY <1>1, <1>2, ClaimedServes DEF ClaimedOperation
<1>5. UNCHANGED approvals
  BY <1>2 DEF Finish
<1>6. AllAge /\ WaitersStay
  BY <1>1, <1>2, <1>5, RequestStays
<1>7. requests'[r].status = status
  <2>1. requests[r] \in Request /\ requests'[r] = Unclaimed(WithStatus(requests[r], status))
    BY <1>1, <1>2 DEF Finish, IInv, TypeOK
  <2> QED
    BY <2>1 DEF Unclaimed, WithStatus, Request
<1>8. SlotVerdict(w)'
  BY <1>2, <1>3, <1>7 DEF SlotVerdict
<1>9. tool[w].state = "none"
  BY ToolIdle
<1> QED
  BY <1>1, <1>3, <1>4, <1>6, <1>8, <1>9, SlotMoves

LEMMA FinishSteps ==
  ASSUME DInv, NEW w \in Workers, FinishRun(w) \/ FailRun(w) \/ FinishInterruption(w)
  PROVE  DInv'
<1>1. Owning(w) /\ slot[w].pc \notin Unowned \cup {"running", "stopping"}
  BY DEF FinishRun, FailRun, FinishInterruption, Owning, Unowned
<1>2. UNCHANGED <<tool, observable, dispatched, notified>>
  BY DEF FinishRun, FailRun, FinishInterruption
<1>3. slot[w].pc \in {"finishing", "settling"} => slot[w].verdict \in Terminal
  BY DEF DInv, SlotVerdict
<1>4. "failed" \in Terminal /\ "failed" \in Verdicts /\ "notifying" \in PCs
  BY DEF Terminal, Verdicts, PCs
<1>5. \/ \E k : \E status \in Terminal :
           Finish(slot[w].request, k, status) /\ Moved(w, "notifying", status)
      \/ UNCHANGED storeVars /\ (Goto(w, "raised") \/ Return(w))
  <2>1. CASE FinishRun(w)
    BY <1>3, <1>4, <2>1, GotoMoved DEF FinishRun
  <2>2. CASE FailRun(w)
    BY <1>4, <2>2, VerdictMoved DEF FailRun
  <2>3. CASE FinishInterruption(w)
    BY <1>3, <1>4, <2>3, GotoMoved DEF FinishInterruption
  <2> QED
    BY <2>1, <2>2, <2>3
<1> QED
  BY <1>1, <1>2, <1>5, FinishKeeps, HandlerSteps

\* A heartbeat renews the lease or stops the run.
LEMMA HeartbeatStep ==
  ASSUME DInv, NEW w \in Workers, Heartbeat(w)
  PROVE  DInv'
<1> DEFINE r == slot[w].request
<1>1. /\ Owning(w) /\ r \in Requests /\ IInv /\ FencesBounded /\ Asked /\ ApprovalHasWaiter
      /\ observable \subseteq Requests /\ slot[w] \in SlotRow /\ slot \in [Workers -> SlotRow]
  BY DEF Heartbeat, Owning, Unowned, DInv, SlotOwns, DispatcherTypes
<1>2. UNCHANGED <<tool, observable, dispatched, notified>> /\ slot[w].pc = "running"
  BY DEF Heartbeat
<1>3. Renew(r, slot[w].fence) \/ UNCHANGED storeVars
  BY DEF Heartbeat
<1>4. slot' = slot \/ \E verdict \in {"cancelling", "lost"} :
        slot' = [slot EXCEPT ![w].pc = "stopping", ![w].verdict = verdict]
  BY DEF Heartbeat
<1> HIDE DEF r
<1>5. (Serve \/ UNCHANGED storeVars) /\ AllAge /\ WaitersStay
  <2>1. CASE Renew(r, slot[w].fence)
    <3>1. UNCHANGED approvals
      BY <2>1 DEF Renew
    <3> QED
      BY <1>1, <2>1, <3>1, ClaimedServes, RequestStays DEF ClaimedOperation
  <2>2. CASE UNCHANGED storeVars
    BY <2>2, SameStays
  <2> QED
    BY <1>3, <2>1, <2>2
<1>6. CASE slot' = slot
  <2>1. /\ slot' = [slot EXCEPT ![w] = slot'[w]] /\ slot'[w] \in SlotRow /\ slot'[w].pc = "running"
    BY <1>1, <1>2, <1>6
  <2>2. Calm(w) /\ SlotVerdict(w)'
    BY <1>2, <1>6 DEF Calm, SlotVerdict, Owning
  <2> QED
    BY <1>1, <1>2, <1>5, <2>1, <2>2, SlotMoves
<1>7. ASSUME NEW verdict \in {"cancelling", "lost"},
             slot' = [slot EXCEPT ![w].pc = "stopping", ![w].verdict = verdict]
      PROVE  DInv'
  <2>1. Moved(w, "stopping", verdict)
    BY <1>7, VerdictMoved DEF PCs, Verdicts, Handlers
  <2> QED
    BY <1>1, <1>2, <1>5, <2>1, GoesOn DEF Handlers
<1> QED
  BY <1>4, <1>6, <1>7

\* A crash leaves the rows as they are.
LEMMA CrashStep ==
  ASSUME DInv, NEW w \in Workers, Crash(w)
  PROVE  DInv'
<1>1. /\ slot' = [slot EXCEPT ![w] = Idle] /\ tool' = [tool EXCEPT ![w] = NoTool]
      /\ UNCHANGED <<requests, approvals, resolved, observable, dispatched, notified>>
  BY DEF Crash, Return
<1>2. Serve \/ UNCHANGED storeVars
  BY InvariantSteers, MishapServes DEF Mishap
<1>3. AllAge /\ WaitersStay
  BY <1>1, SameAge DEF WaitersStay
<1>4. Idle \in SlotRow /\ NoTool \in ToolRow
  BY DEF Idle, SlotRow, PCs, Verdicts, NoTool, ToolRow
<1>5. DispatcherTypes' /\ OthersStay(w) /\ slot'[w] = Idle /\ tool'[w] = NoTool
  BY <1>1, <1>4 DEF DInv, DispatcherTypes, OthersStay
<1>6. NewReports
  BY <1>1 DEF NewReports
<1>7. Calm(w) /\ Quiet(w) /\ SlotVerdict(w)' /\ ToolOwns(w)'
  BY <1>5 DEF Calm, Quiet, SlotVerdict, ToolOwns, Idle, NoTool, Owning, Unowned
<1>8. NoneConsumed
  BY <1>5 DEF OthersStay, NoneConsumed, NoTool
<1> QED
  BY <1>1, <1>2, <1>3, <1>5, <1>6, <1>7, <1>8, ActorKeeps, AgesDispatch

-------------------------------------------------------------------------------
(* The steps of users and maintenance *)

\* A step of the store in which no worker moves.
LEMMA BystandersKeep ==
  ASSUME DInv, Serve, AllAge, WaitersStay, NewReports, UNCHANGED <<slot, tool, observable, dispatched>>,
         notified' \subseteq Requests \X Terminal
  PROVE  DInv'
<1>1. DispatcherTypes' /\ NoneConsumed
  BY DEF DInv, DispatcherTypes, NoneConsumed
<1>2. \A v \in Workers : Calm(v) /\ Quiet(v) /\ SlotVerdict(v)' /\ ToolOwns(v)'
  BY OthersKeep, RowsKeep
<1> QED
  BY <1>1, <1>2, CalmKeeps, AgesDispatch

\* What Reported adds is about a reportable request.
LEMMA ReportedPairs ==
  ASSUME NEW r, NEW s
  PROVE  Reported(r, s) = notified \/ (Reportable(r) /\ Reported(r, s) = notified \cup {<<r, s>>})
  BY DEF Reported

LEMMA UserCancelStep ==
  ASSUME DInv, NEW r \in Requests, UserCancel(r)
  PROVE  DInv'
<1>1. IInv /\ Asked /\ ApprovalHasWaiter /\ notified \subseteq Requests \X Terminal
  BY DEF DInv, DispatcherTypes
<1>2. Cancel(r) /\ UNCHANGED <<slot, tool, observable, dispatched>>
  BY DEF UserCancel
<1>3. Serve
  BY <1>2 DEF Serve, RequestOperation
<1>4. AllAge /\ WaitersStay
  BY <1>1, <1>2, CancelStays
<1>5. \/ notified' = notified
      \/ /\ requests'[r].status = "cancelled" /\ Reportable(r)
         /\ notified' = notified \cup {<<r, "cancelled">>}
  BY ReportedPairs DEF UserCancel
<1>6. Reportable(r) => Reportable(r)'
  <2>1. /\ requests[r].handoff_title = requests'[r].handoff_title
        /\ requests[r].acknowledgement_delivered_at = requests'[r].acknowledgement_delivered_at
    BY <1>1, <1>2 DEF Cancel, IInv, TypeOK, Request, WithStatus, Unclaimed
  <2> QED
    BY <2>1 DEF Reportable
<1>7. notified' \subseteq Requests \X Terminal
  BY <1>1, <1>5 DEF Terminal
<1>8. NewReports
  BY <1>5, <1>6 DEF NewReports, Terminal
<1> QED
  BY <1>2, <1>3, <1>4, <1>7, <1>8, BystandersKeep

LEMMA UserAttestStep ==
  ASSUME DInv, NEW a \in Approvals, NEW status \in {"succeeded", "failed"}, UserAttest(a, status)
  PROVE  DInv'
<1>1. /\ IInv /\ Asked /\ ApprovalHasWaiter /\ notified \subseteq Requests \X Terminal
      /\ requests \in [Requests -> Request]
  BY DEF DInv, DispatcherTypes, IInv, TypeOK
<1>2. AttestTransaction(a, status) /\ UNCHANGED <<slot, tool, observable, dispatched>>
  BY DEF UserAttest
<1>3. Serve
  BY <1>2 DEF Serve, ApprovalOperation
<1>4. AllAge /\ WaitersStay
  BY <1>1, <1>2, AttestStays
<1>5. PICK r \in Requests : /\ r = approvals[a].request_id
                          /\ requests' = [requests EXCEPT ![r].status = status]
                          /\ r \in resolved'
  BY <1>1, <1>2 DEF AttestTransaction, IInv, TypeOK, Approval
<1>6. notified' = notified \/ (Reportable(r) /\ notified' = notified \cup {<<r, status>>})
  BY <1>5, ReportedPairs DEF UserAttest
<1>7. Reportable(r) => Reportable(r)'
  BY <1>1, <1>5 DEF Reportable, Request
<1>8. requests'[r].status = status
  BY <1>1, <1>5 DEF Request
<1>9. notified' \subseteq Requests \X Terminal
  BY <1>1, <1>5, <1>6 DEF Terminal
<1>10. NewReports
  BY <1>5, <1>6, <1>7, <1>8 DEF NewReports, Terminal
<1> QED
  BY <1>2, <1>3, <1>4, <1>9, <1>10, BystandersKeep

LEMMA StoreStepStep == ASSUME DInv, StoreStep PROVE DInv'
<1>1. UNCHANGED <<slot, tool, observable, dispatched>> /\ notified' = notified
  BY DEF StoreStep, dispatchVars
<1>2. IInv /\ Asked /\ ApprovalHasWaiter /\ notified \subseteq Requests \X Terminal
  BY DEF DInv, DispatcherTypes
<1>3. NewReports
  BY <1>1 DEF NewReports
<1> QED
  BY <1>1, <1>2, <1>3, StoreStepServes, StoreStepStays, BystandersKeep

-------------------------------------------------------------------------------
(* The steps of the parked tool *)

\* The types and the others when w changes its tool only.
LEMMA ToolMoves ==
  ASSUME DInv, NEW w \in Workers, slot' = slot, NEW t \in ToolRow, tool' = [tool EXCEPT ![w] = t],
         observable' \subseteq Requests, dispatched' \in [Effects -> Nat], UNCHANGED notified,
         slot[w].pc \in {"running", "stopping"}
  PROVE  /\ DispatcherTypes' /\ OthersStay(w) /\ tool'[w] = t /\ Calm(w)
         /\ slot[w].pc = "running" => SlotVerdict(w)'
         /\ t.state # "consumed" => NoneConsumed
         /\ NewReports
<1>1. tool \in [Workers -> ToolRow] /\ slot \in [Workers -> SlotRow] /\ notified \subseteq Requests \X Terminal
  BY DEF DInv, DispatcherTypes
<1>2. tool'[w] = t /\ tool' \in [Workers -> ToolRow]
  BY <1>1
<1>3. OthersStay(w)
  BY <1>1 DEF OthersStay
<1>4. DispatcherTypes'
  BY <1>1, <1>2 DEF DispatcherTypes
<1>5. t.state # "consumed" => NoneConsumed
  BY <1>2, <1>3 DEF OthersStay, NoneConsumed
<1>6. Calm(w) /\ (slot[w].pc = "running" => SlotVerdict(w)') /\ NewReports
  BY DEF Calm, SlotVerdict, Owning, NewReports
<1> QED
  BY <1>2, <1>3, <1>4, <1>5, <1>6

\* An open approval of the slot's claim is the owner's to settle.
LEMMA OpenIsOwned ==
  ASSUME DInv, NEW w \in Workers, tool[w].state # "none",
         approvals[tool[w].approval].state \in ActiveApproval
  PROVE  OwnsParked(tool[w].approval, slot[w].fence)
<1> DEFINE a == tool[w].approval
           r == approvals[a].request_id
<1>1. a \in Approvals /\ approvals[a].claim_fence = slot[w].fence /\ approvals[a].state \in ActiveApproval
  BY DEF DInv, ToolOwns
<1>2. /\ r \in Requests /\ requests[r].status \in Parked
      /\ requests[r].claim_fence = approvals[a].claim_fence
  BY <1>1, OpenIsParked DEF DInv
<1>3. requests[r].claim_token = requests[r].claim_fence
  BY <1>2 DEF DInv, IInv, Executing, GoodRow, RowInv
<1> QED
  BY <1>1, <1>2, <1>3, NoneAssumption DEF OwnsParked, Fenced, Active

\* Resuming the run of a tool's occurrence disturbs no other occurrence.
LEMMA OwnerStays ==
  ASSUME DInv, NEW w \in Workers, tool[w].state # "none", NEW a, a = tool[w].approval,
         OwnsParked(a, slot[w].fence), NEW state,
         approvals' = [approvals EXCEPT ![a].state = state],
         state \notin ActiveApproval /\ state # "absent",
         approvals[a].state \notin ActiveApproval => state = approvals[a].state,
         state = "consumed" => approvals[a].state \in {"approved", "consumed"},
         requests' = [requests EXCEPT ![approvals[a].request_id].status = "running"]
  PROVE  AllAge /\ WaitersStay /\ a \in Approvals /\ approvals'[a] = [approvals[a] EXCEPT !.state = state]
<1>1. PICK r : r = approvals[a].request_id
  OBVIOUS
<1>2. PICK k : k = slot[w].fence
  OBVIOUS
<1>3. /\ a \in Approvals /\ approvals[a].state # "absent" /\ slot[w].request = r
      /\ approvals[a].claim_fence = k /\ Owning(w)
  BY <1>1, <1>2 DEF DInv, ToolOwns, Owning, Unowned
<1>4. requests[r].claim_fence = k /\ r \in Requests
  BY <1>1, <1>2, <1>3 DEF OwnsParked, Fenced, DInv, Asked
<1>5. approvals \in [Approvals -> Approval] /\ requests \in [Requests -> Request]
  BY DEF DInv, IInv, TypeOK
<1>6. /\ approvals'[a] = [approvals[a] EXCEPT !.state = state]
      /\ \A b \in Approvals : b # a => approvals'[b] = approvals[b]
      /\ \A q \in Requests : q # r => requests'[q] = requests[q]
  BY <1>1, <1>3, <1>4, <1>5
<1>7. Ages(approvals[a], approvals'[a]) /\ approvals'[a].state = state
  BY <1>3, <1>5, <1>6 DEF Ages, Approval, ActiveApproval
<1>8. AllAge
  <2> SUFFICES ASSUME NEW b \in Approvals PROVE Ages(approvals[b], approvals'[b])
    BY DEF AllAge
  <2>1. CASE b = a
    BY <1>7, <2>1
  <2>2. CASE b # a
    BY <1>6, <2>2 DEF Ages, ActiveApproval
  <2> QED
    BY <2>1, <2>2
<1>9. ASSUME NEW b \in Approvals, approvals'[b].state \in ActiveApproval
      PROVE  /\ approvals[b].state \in ActiveApproval
             /\ approvals[b].request_id \in Requests /\ approvals[b].request_id # r
  <2>1. b # a /\ approvals[b].state \in ActiveApproval
    BY <1>6, <1>7, <1>9
  <2>2. /\ approvals[b].request_id \in Requests
        /\ requests[approvals[b].request_id].claim_fence = approvals[b].claim_fence
    BY <2>1, OpenIsParked DEF DInv
  <2>3. approvals[b].request_id = r => tool[w].approval = b
    BY <1>2, <1>3, <1>4, <2>1, <2>2 DEF DInv, OpenIsTooled
  <2> QED
    BY <2>1, <2>2, <2>3
<1>10. WaitersStay
  BY <1>6, <1>9 DEF WaitersStay
<1> QED
  BY <1>3, <1>6, <1>8, <1>10

\* Giving an occurrence up leaves it settled, whoever settled it.
LEMMA GivenUp ==
  ASSUME DInv, NEW w \in Workers, tool[w].state # "none",
         \/ ResumeUnconsumed(tool[w].approval, slot[w].fence)
         \/ Invalidate(tool[w].approval, slot[w].fence)
         \/ ~OwnsParked(tool[w].approval, slot[w].fence) /\ UNCHANGED storeVars
  PROVE  /\ Serve \/ UNCHANGED storeVars
         /\ AllAge /\ WaitersStay
         /\ approvals'[tool[w].approval].state \notin ActiveApproval
<1>1. PICK a \in Approvals : a = tool[w].approval
  BY DEF DInv, ToolOwns
<1>2. PICK k : k = slot[w].fence
  OBVIOUS
<1>3. IInv /\ FencesBounded /\ approvals \in [Approvals -> Approval]
  BY DEF DInv, IInv, TypeOK
<1>4. CASE ResumeUnconsumed(a, k)
  <2>1. PICK state : state = approvals[a].state
    OBVIOUS
  <2>2. approvals' = [approvals EXCEPT ![a].state = state]
    BY <1>3, <1>4, <2>1 DEF ResumeUnconsumed, Approval
  <2>3. /\ OwnsParked(a, k) /\ requests' = [requests EXCEPT ![approvals[a].request_id].status = "running"]
        /\ state \notin ActiveApproval /\ state # "absent" /\ state # "consumed"
    BY <1>4, <2>1 DEF ResumeUnconsumed, ActiveApproval
  <2>4. AllAge /\ WaitersStay
    BY <1>1, <1>2, <2>1, <2>2, <2>3, OwnerStays
  <2>5. Serve
    BY <1>3, <1>4, OwnerServes
  <2>6. approvals' = approvals
    BY <1>4 DEF ResumeUnconsumed
  <2> QED
    BY <1>1, <2>1, <2>3, <2>4, <2>5, <2>6
<1>5. CASE Invalidate(a, k)
  <2>1. /\ OwnsParked(a, k) /\ requests' = [requests EXCEPT ![approvals[a].request_id].status = "running"]
        /\ approvals' = [approvals EXCEPT ![a].state = "invalidated"]
        /\ approvals[a].state \in ActiveApproval
    BY <1>5 DEF Invalidate
  <2>2. "invalidated" \notin ActiveApproval
    BY DEF ActiveApproval
  <2>3. AllAge /\ WaitersStay
    BY <1>1, <1>2, <2>1, <2>2, OwnerStays
  <2>4. Serve
    BY <1>3, <1>5, OwnerServes
  <2>5. approvals'[a].state = "invalidated"
    BY <1>3, <2>1 DEF Approval
  <2> QED
    BY <1>1, <2>2, <2>3, <2>4, <2>5
<1>6. CASE ~OwnsParked(a, k) /\ UNCHANGED storeVars
  <2>1. approvals[a].state \notin ActiveApproval
    BY <1>1, <1>2, <1>6, OpenIsOwned
  <2> QED
    BY <1>1, <1>6, <2>1, SameStays DEF storeVars
<1> QED
  BY <1>1, <1>2, <1>4, <1>5, <1>6

LEMMA NoToolRow == NoTool \in ToolRow /\ NoTool.state = "none"
  BY DEF NoTool, ToolRow

LEMMA GiveUpSteps ==
  ASSUME DInv, NEW w \in Workers, ToolResume(w) \/ ToolAbort(w)
  PROVE  DInv'
<1>1. /\ slot[w].pc = "running" /\ tool[w].state # "none"
      /\ \/ ResumeUnconsumed(tool[w].approval, slot[w].fence)
         \/ Invalidate(tool[w].approval, slot[w].fence)
         \/ ~OwnsParked(tool[w].approval, slot[w].fence) /\ UNCHANGED storeVars
  BY DEF ToolResume, ToolAbort, Abandon
<1>2. /\ tool' = [tool EXCEPT ![w] = NoTool] /\ slot' = slot
      /\ UNCHANGED <<observable, dispatched, notified>>
  BY DEF ToolResume, ToolAbort
<1>3. /\ Serve \/ UNCHANGED storeVars
      /\ AllAge /\ WaitersStay
      /\ approvals'[tool[w].approval].state \notin ActiveApproval
  BY <1>1, GivenUp
<1>4. observable' \subseteq Requests /\ dispatched' \in [Effects -> Nat]
  BY <1>2 DEF DInv, DispatcherTypes
<1>5. /\ DispatcherTypes' /\ OthersStay(w) /\ tool'[w] = NoTool /\ Calm(w) /\ SlotVerdict(w)'
      /\ NoneConsumed /\ NewReports
  BY <1>1, <1>2, <1>4, NoToolRow, ToolMoves
<1>6. Quiet(w) /\ ToolOwns(w)'
  BY <1>3, <1>5, NoToolRow DEF Quiet, ToolOwns
<1> QED
  BY <1>2, <1>3, <1>5, <1>6, ActorKeeps, AgesDispatch

\* The run of a stopped slot is over when its tool has given up.
LEMMA StopStep ==
  ASSUME DInv, NEW w \in Workers, StopRun(w)
  PROVE  DInv'
<1>1. Owning(w) /\ slot[w].verdict \in Handlers
  BY DEF StopRun, Owning, Unowned, DInv, SlotVerdict
<1>2. /\ Serve \/ UNCHANGED storeVars
      /\ AllAge /\ WaitersStay
      /\ \/ tool[w].state \notin {"waiting", "approved"}
         \/ approvals'[tool[w].approval].state \notin ActiveApproval
  <2>1. CASE tool[w].state \in {"waiting", "approved"}
    BY <2>1, GivenUp DEF StopRun, Abandon
  <2>2. CASE tool[w].state \notin {"waiting", "approved"}
    BY <2>2, SameStays DEF StopRun
  <2> QED
    BY <2>1, <2>2
<1>3. Moved(w, slot[w].verdict, slot[w].verdict)
  BY <1>1, GotoMoved DEF StopRun, PCs, Handlers
<1>4. /\ slot' = [slot EXCEPT ![w] = slot'[w]] /\ slot'[w] \in SlotRow /\ Calm(w) /\ SlotVerdict(w)'
  BY <1>1, <1>3 DEF Moved, Calm, SlotVerdict, Handlers
<1>5. tool' = [tool EXCEPT ![w] = NoTool] /\ UNCHANGED <<observable, dispatched, notified>>
  BY DEF StopRun
<1>6. DispatcherTypes' /\ OthersStay(w) /\ tool'[w] = NoTool
  BY <1>4, <1>5, NoToolRow DEF DInv, DispatcherTypes, OthersStay
<1>7. NoneConsumed /\ NewReports
  BY <1>5, <1>6, NoToolRow DEF NoneConsumed, OthersStay, NewReports
<1>8. Quiet(w) /\ ToolOwns(w)'
  BY <1>2, <1>6, NoToolRow DEF Quiet, ToolOwns
<1> QED
  BY <1>2, <1>4, <1>5, <1>6, <1>7, <1>8, ActorKeeps, AgesDispatch

\* A tool learns what became of the occurrence it waits for.
LEMMA DecidedStep ==
  ASSUME DInv, NEW w \in Workers, ToolDecided(w)
  PROVE  DInv'
<1>1. PICK a \in Approvals : a = tool[w].approval
  BY DEF ToolDecided, DInv, ToolOwns
<1>2. /\ slot[w].pc = "running" /\ tool[w].state = "waiting" /\ tool[w] \in ToolRow
      /\ approvals[a].request_id = slot[w].request /\ approvals[a].claim_fence = slot[w].fence
      /\ approvals[a].state # "absent" /\ tool \in [Workers -> ToolRow]
  BY <1>1 DEF ToolDecided, DInv, ToolOwns, DispatcherTypes
<1>3. approvals[a].state # "pending"
  <2>1. approvals[a].state = "pending" => requests[slot[w].request].status \in Parked
    BY <1>1, <1>2, OpenIsParked DEF DInv, ActiveApproval
  <2> QED
    BY <1>1, <2>1 DEF ToolDecided, Mine, Parked
<1>4. PICK state \in {"approved", "refused"} :
        /\ tool' = [tool EXCEPT ![w] = [state |-> state, approval |-> a]]
        /\ state = "approved" <=> approvals[a].state = "approved"
  <2>1. [tool[w] EXCEPT !.state = IF approvals[a].state = "approved" THEN "approved" ELSE "refused"]
          = [state |-> IF approvals[a].state = "approved" THEN "approved" ELSE "refused", approval |-> a]
    BY <1>1, <1>2 DEF ToolRow
  <2>2. tool' = [tool EXCEPT ![w] =
          [tool[w] EXCEPT !.state = IF approvals[a].state = "approved" THEN "approved" ELSE "refused"]]
    BY <1>1, <1>2, <1>3 DEF ToolDecided
  <2> QED
    BY <2>1, <2>2
<1>5. /\ slot' = slot /\ UNCHANGED storeVars /\ UNCHANGED <<observable, dispatched, notified>>
      /\ approvals' = approvals
  BY DEF ToolDecided, storeVars
<1>6. PICK t \in ToolRow : /\ t = [state |-> state, approval |-> a] /\ t.state = state /\ t.approval = a
                         /\ tool' = [tool EXCEPT ![w] = t]
  BY <1>4 DEF ToolRow
<1>7. observable' \subseteq Requests /\ dispatched' \in [Effects -> Nat]
  BY <1>5 DEF DInv, DispatcherTypes
<1>8. /\ DispatcherTypes' /\ OthersStay(w) /\ tool'[w] = t /\ Calm(w) /\ SlotVerdict(w)'
      /\ NoneConsumed /\ NewReports
  BY <1>2, <1>5, <1>6, <1>7, ToolMoves
<1>9. Quiet(w)
  BY <1>1, <1>3, <1>4, <1>5, <1>6, <1>8 DEF Quiet, ActiveApproval
<1>10. ToolOwns(w)'
  BY <1>2, <1>3, <1>4, <1>5, <1>6, <1>8 DEF ToolOwns, ActiveApproval
<1> QED
  BY <1>5, <1>8, <1>9, <1>10, SameStays, ActorKeeps, AgesDispatch

\* The consumed occurrence reaches the provider.
LEMMA DispatchStep ==
  ASSUME DInv, NEW w \in Workers, ToolDispatch(w)
  PROVE  DInv'
<1>1. PICK a \in Approvals : a = tool[w].approval
  BY DEF ToolDispatch, DInv, ToolOwns
<1>2. PICK e : e = approvals[a].logical_effect_key
  OBVIOUS
<1>3. /\ slot[w].pc = "running" /\ tool[w].state = "consumed" /\ approvals[a].state = "consumed"
      /\ e \in Effects /\ slot[w].request \in Requests
  BY <1>1, <1>2 DEF ToolDispatch, DInv, ToolOwns, Asked, SlotOwns, Owning, Unowned
<1>4. /\ slot' = slot /\ UNCHANGED storeVars /\ UNCHANGED notified /\ approvals' = approvals
      /\ tool' = [tool EXCEPT ![w] = NoTool] /\ dispatched' = [dispatched EXCEPT ![e] = @ + 1]
  BY <1>1, <1>2 DEF ToolDispatch, storeVars
<1>5. observable' \subseteq Requests /\ dispatched \in [Effects -> Nat]
  BY <1>3 DEF DInv, DispatcherTypes, ToolDispatch
<1>6. dispatched' \in [Effects -> Nat]
  BY <1>3, <1>4, <1>5
<1>7. /\ DispatcherTypes' /\ OthersStay(w) /\ tool'[w] = NoTool /\ Calm(w) /\ SlotVerdict(w)'
      /\ NoneConsumed /\ NewReports
  BY <1>3, <1>4, <1>5, <1>6, NoToolRow, ToolMoves
<1>8. Quiet(w) /\ ToolOwns(w)'
  BY <1>3, <1>7, NoToolRow DEF Quiet, ToolOwns
<1>9. OneDispatch /\ OneChance
  BY DEF DInv
<1>10. dispatched[e] = 0
  BY <1>1, <1>2, <1>3, <1>9 DEF OneDispatch
<1>11. \A v \in Workers : tool'[v].state = "consumed" =>
         /\ v # w /\ tool'[v] = tool[v] /\ tool[v].approval \in Approvals
         /\ approvals[tool[v].approval].state = "consumed"
  BY <1>7, NoToolRow DEF NoneConsumed, DInv, ToolOwns
<1>12. \A v \in Workers : tool'[v].state = "consumed" => approvals[tool[v].approval].logical_effect_key # e
  <2> SUFFICES ASSUME NEW v \in Workers, tool'[v].state = "consumed",
                      approvals[tool[v].approval].logical_effect_key = e
               PROVE  FALSE
    OBVIOUS
  <2>1. tool[v].approval = a
    BY <1>2, <1>3, <1>9, <1>11 DEF OneChance
  <2> QED
    BY <1>1, <1>3, <1>9, <1>11, <2>1 DEF OneDispatch
<1>13. OneDispatch'
  <2>1. \A u, v \in Workers :
          /\ tool'[u].state = "consumed" /\ tool'[v].state = "consumed"
          /\ tool'[u].approval = tool'[v].approval
          => u = v
    BY <1>9, <1>11 DEF OneDispatch
  <2>2. ASSUME NEW x \in Effects, dispatched'[x] # 0
        PROVE  /\ dispatched'[x] = 1
               /\ \E b \in Approvals : approvals[b].state = "consumed" /\ approvals[b].logical_effect_key = x
               /\ \A v \in Workers : tool'[v].state = "consumed"
                    => approvals[tool'[v].approval].logical_effect_key # x
    <3>1. CASE x = e
      <4>1. dispatched'[x] = 1
        BY <1>3, <1>4, <1>5, <1>10, <3>1
      <4> QED
        BY <1>2, <1>3, <1>11, <1>12, <3>1, <4>1
    <3>2. CASE x # e
      <4>1. dispatched'[x] = dispatched[x]
        BY <1>4, <1>5, <3>2
      <4> QED
        BY <1>9, <1>11, <2>2, <4>1 DEF OneDispatch
    <3> QED
      BY <3>1, <3>2
  <2> QED
    BY <1>4, <2>1, <2>2 DEF OneDispatch
<1> QED
  BY <1>4, <1>7, <1>8, <1>13, SameStays, ActorKeeps

\* run_prepared takes the approval, or gives the occurrence up.
LEMMA ConsumeStep ==
  ASSUME DInv, NEW w \in Workers, ToolConsume(w)
  PROVE  DInv'
<1>1. PICK a \in Approvals : a = tool[w].approval
  BY DEF ToolConsume, DInv, ToolOwns
<1>2. PICK k : k = slot[w].fence
  OBVIOUS
<1>3. /\ slot[w].pc = "running" /\ tool[w].state = "approved" /\ tool[w] \in ToolRow
      /\ approvals[a].request_id = slot[w].request /\ approvals[a].claim_fence = k
      /\ approvals[a].state # "absent" /\ approvals[a].state # "pending"
      /\ approvals \in [Approvals -> Approval] /\ IInv /\ FencesBounded
      /\ tool \in [Workers -> ToolRow]
  BY <1>1, <1>2 DEF ToolConsume, DInv, ToolOwns, DispatcherTypes, IInv, TypeOK
<1>4. /\ slot' = slot /\ UNCHANGED <<observable, dispatched, notified>>
      /\ observable' \subseteq Requests /\ dispatched' \in [Effects -> Nat]
  BY DEF ToolConsume, DInv, DispatcherTypes
<1>5. CASE OwnsParked(a, k) /\ approvals[a].state \in {"approved", "expired"}
  <2>1. ResumeConsuming(a, k)
    BY <1>1, <1>2, <1>5 DEF ToolConsume
  <2>2. PICK state \in {"consumed", "expired"} :
          /\ approvals' = [approvals EXCEPT ![a].state = state]
          /\ state = "consumed" => approvals[a].state = "approved"
    BY <2>1 DEF ResumeConsuming
  <2>3. requests' = [requests EXCEPT ![approvals[a].request_id].status = "running"]
    BY <2>1 DEF ResumeConsuming
  <2>4. state \notin ActiveApproval /\ state # "absent"
    BY DEF ActiveApproval
  <2>5. approvals[a].state \notin ActiveApproval => state = approvals[a].state
    BY <1>5, <2>2 DEF ActiveApproval
  <2>6. AllAge /\ WaitersStay
    BY <1>1, <1>2, <1>3, <1>5, <2>2, <2>3, <2>4, <2>5, OwnerStays
  <2>7. Serve
    BY <1>3, <2>1, OwnerServes
  <2>8. approvals'[a] = [approvals[a] EXCEPT !.state = state] /\ approvals'[a].state = state
    BY <1>3, <2>2 DEF Approval
  <2>9. CASE state = "expired"
    <3>1. tool' = [tool EXCEPT ![w] = NoTool]
      BY <1>1, <2>8, <2>9 DEF ToolConsume
    <3>2. /\ DispatcherTypes' /\ OthersStay(w) /\ tool'[w] = NoTool /\ Calm(w) /\ SlotVerdict(w)'
          /\ NoneConsumed /\ NewReports
      BY <1>3, <1>4, <3>1, NoToolRow, ToolMoves
    <3>3. Quiet(w) /\ ToolOwns(w)'
      BY <1>1, <2>4, <2>8, <3>2, NoToolRow DEF Quiet, ToolOwns
    <3> QED
      BY <1>4, <2>6, <2>7, <3>2, <3>3, ActorKeeps, AgesDispatch
  <2>10. CASE state = "consumed"
    <3>1. tool' = [tool EXCEPT ![w] = [tool[w] EXCEPT !.state = "consumed"]]
      BY <1>1, <1>2, <1>3, <1>5, <2>8, <2>10 DEF ToolConsume
    <3>2. PICK t \in ToolRow : /\ t = [state |-> "consumed", approval |-> a]
                             /\ t.state = "consumed" /\ t.approval = a
      <4>1. [state |-> "consumed", approval |-> a] \in ToolRow
        BY DEF ToolRow
      <4> QED
        BY <4>1
    <3>3. tool' = [tool EXCEPT ![w] = t]
      <4>1. [tool[w] EXCEPT !.state = "consumed"] = [state |-> "consumed", approval |-> a]
        BY <1>1, <1>3 DEF ToolRow
      <4> QED
        BY <3>1, <3>2, <4>1
    <3>4. /\ DispatcherTypes' /\ OthersStay(w) /\ tool'[w] = t /\ Calm(w) /\ SlotVerdict(w)'
          /\ NewReports
      BY <1>3, <1>4, <3>3, ToolMoves
    <3>5. Quiet(w)
      BY <1>1, <2>4, <2>8 DEF Quiet
    <3>6. ToolOwns(w)'
      <4>1. /\ approvals'[a].request_id = approvals[a].request_id
            /\ approvals'[a].claim_fence = approvals[a].claim_fence
        BY <1>3, <2>8 DEF Approval
      <4> QED
        BY <1>2, <1>3, <1>4, <2>8, <2>10, <3>2, <3>4, <4>1 DEF ToolOwns
    <3>7. OneDispatch /\ OneChance /\ Asked
      BY DEF DInv
    <3>8. approvals[a].state = "approved"
      BY <2>2, <2>10
    <3>9. \A v \in Workers : v # w /\ tool'[v].state = "consumed" =>
            /\ tool'[v] = tool[v] /\ tool[v].approval \in Approvals /\ tool[v].approval # a
            /\ approvals[tool[v].approval].state = "consumed"
      BY <3>4, <3>8 DEF OthersStay, DInv, ToolOwns
    <3>10. \A b \in Approvals \ {a} : approvals'[b] = approvals[b]
      BY <1>3, <2>2
    <3>11. approvals'[a].logical_effect_key = approvals[a].logical_effect_key
      BY <1>3, <2>8 DEF Approval
    <3>12. \A e \in Effects : dispatched[e] # 0 => approvals[a].logical_effect_key # e
      BY <3>7, <3>8 DEF OneDispatch, OneChance, ActiveApproval
    <3>13. OneDispatch'
      <4>1. \A u, v \in Workers :
              /\ tool'[u].state = "consumed" /\ tool'[v].state = "consumed"
              /\ tool'[u].approval = tool'[v].approval
              => u = v
        <5>1. tool'[w].approval = a
          BY <3>2, <3>4
        <5>2. ASSUME NEW u \in Workers, NEW v \in Workers, u # w, v # w,
                     tool'[u].state = "consumed", tool'[v].state = "consumed",
                     tool'[u].approval = tool'[v].approval
              PROVE  u = v
          BY <3>7, <3>9, <5>2 DEF OneDispatch
        <5>3. \A v \in Workers : v # w /\ tool'[v].state = "consumed" => tool'[v].approval # a
          BY <3>9
        <5> QED
          BY <5>1, <5>2, <5>3
      <4>2. ASSUME NEW e \in Effects, dispatched[e] # 0
            PROVE  /\ dispatched[e] = 1
                   /\ \E b \in Approvals : approvals'[b].state = "consumed" /\ approvals'[b].logical_effect_key = e
                   /\ \A v \in Workers : tool'[v].state = "consumed"
                        => approvals'[tool'[v].approval].logical_effect_key # e
        <5>1. PICK b \in Approvals : approvals[b].state = "consumed" /\ approvals[b].logical_effect_key = e
          BY <3>7, <4>2 DEF OneDispatch
        <5>2. approvals'[b].state = "consumed" /\ approvals'[b].logical_effect_key = e
          BY <3>8, <3>10, <5>1
        <5>3. dispatched[e] = 1
          BY <3>7, <4>2 DEF OneDispatch
        <5>4. ASSUME NEW v \in Workers, tool'[v].state = "consumed"
              PROVE  approvals'[tool'[v].approval].logical_effect_key # e
          <6>1. CASE v = w
            BY <3>2, <3>4, <3>11, <3>12, <4>2, <6>1
          <6>2. CASE v # w
            BY <3>7, <3>9, <3>10, <4>2, <5>4, <6>2 DEF OneDispatch
          <6> QED
            BY <6>1, <6>2
        <5> QED
          BY <5>2, <5>3, <5>4
      <4> QED
        BY <1>4, <4>1, <4>2 DEF OneDispatch
    <3> QED
      BY <2>6, <2>7, <3>4, <3>5, <3>6, <3>13, ActorKeeps
  <2> QED
    BY <2>9, <2>10
<1>6. CASE ~(OwnsParked(a, k) /\ approvals[a].state \in {"approved", "expired"})
  <2>1. UNCHANGED storeVars /\ tool' = [tool EXCEPT ![w] = NoTool]
    BY <1>1, <1>2, <1>6 DEF ToolConsume
  <2>2. approvals[a].state \notin ActiveApproval
    BY <1>1, <1>2, <1>3, <1>6, OpenIsOwned DEF ActiveApproval
  <2>3. /\ DispatcherTypes' /\ OthersStay(w) /\ tool'[w] = NoTool /\ Calm(w) /\ SlotVerdict(w)'
        /\ NoneConsumed /\ NewReports
    BY <1>3, <1>4, <2>1, NoToolRow, ToolMoves
  <2>4. Quiet(w) /\ ToolOwns(w)'
    BY <1>1, <2>1, <2>2, <2>3, NoToolRow DEF Quiet, ToolOwns, storeVars
  <2> QED
    BY <1>4, <2>1, <2>3, <2>4, SameStays, ActorKeeps, AgesDispatch
<1> QED
  BY <1>5, <1>6

\* A running tool parks an occurrence for itself.
LEMMA ParkStep ==
  ASSUME DInv, NEW w \in Workers, NEW a \in Approvals, NEW effect \in Effects, ToolPark(w, a, effect)
  PROVE  DInv'
<1>1. PICK r \in Requests : r = slot[w].request
  BY DEF ToolPark, DInv, SlotOwns, Owning, Unowned
<1>2. PICK k : k = slot[w].fence
  OBVIOUS
<1>3. /\ slot[w].pc = "running" /\ tool[w] = NoTool /\ Owning(w) /\ Park(a, r, k, effect)
      /\ tool' = [tool EXCEPT ![w] = [state |-> "waiting", approval |-> a]]
      /\ UNCHANGED <<slot, observable, dispatched, notified>>
  BY <1>1, <1>2 DEF ToolPark, Owning, Unowned
<1>4. /\ IInv /\ FencesBounded /\ approvals \in [Approvals -> Approval]
      /\ requests \in [Requests -> Request] /\ observable \subseteq Requests
      /\ dispatched \in [Effects -> Nat]
  BY DEF DInv, IInv, TypeOK, DispatcherTypes
<1>5. PICK kind \in Parked :
        /\ approvals' = [approvals EXCEPT ![a] =
             [kind |-> kind, state |-> "pending", request_id |-> r,
              logical_effect_key |-> effect, claim_fence |-> k,
              expires_at |-> now + ApprovalSeconds]]
        /\ requests' = [requests EXCEPT ![r].status = kind]
  BY <1>3 DEF Park
<1>6. /\ approvals[a].state = "absent" /\ requests[r].claim_fence = k
      /\ \A b \in Approvals :
           /\ approvals[b].logical_effect_key = effect
                => approvals[b].state \notin ActiveApproval \cup {"consumed"}
           /\ approvals[b].request_id = r => approvals[b].state \notin ActiveApproval
  BY <1>3 DEF Park, Fenced
<1>7. /\ approvals'[a].kind = kind /\ approvals'[a].state = "pending" /\ approvals'[a].request_id = r
      /\ approvals'[a].logical_effect_key = effect /\ approvals'[a].claim_fence = k
      /\ \A b \in Approvals : b # a => approvals'[b] = approvals[b]
  BY <1>4, <1>5
<1>8. /\ requests'[r].status = kind /\ requests'[r].claim_fence = k
      /\ \A q \in Requests : q # r => requests'[q] = requests[q]
  BY <1>4, <1>5, <1>6 DEF Request
<1>9. Serve
  BY <1>3, <1>4, ClaimedServes DEF ClaimedOperation
<1>10. /\ IInv' /\ RowsMove /\ FencesBounded' /\ NothingPruned'
       /\ \A q \in resolved' : requests'[q].status \in Settled
  BY <1>9, RowsKeep
<1>11. PICK t \in ToolRow : t = [state |-> "waiting", approval |-> a] /\ t.state = "waiting" /\ t.approval = a
  <2>1. [state |-> "waiting", approval |-> a] \in ToolRow
    BY DEF ToolRow
  <2> QED
    BY <2>1
<1>12. /\ DispatcherTypes' /\ OthersStay(w) /\ tool'[w] = t /\ Calm(w) /\ SlotVerdict(w)'
       /\ NoneConsumed /\ NewReports
  BY <1>3, <1>4, <1>11, ToolMoves
<1>13. CalmSlots
  BY <1>3 DEF CalmSlots, Calm, Owning
<1>14. (\A v \in Workers : SlotOwns(v)') /\ SlotsDiffer'
  BY <1>10, <1>12, <1>13, SlotsKeep
<1>15. \A v \in Workers : SlotVerdict(v)'
  BY <1>3, <1>10, VerdictKeeps
<1>16. ASSUME NEW v \in Workers PROVE ToolOwns(v)'
  <2>1. CASE v = w
    BY <1>1, <1>2, <1>3, <1>7, <1>11, <1>12, <2>1 DEF ToolOwns, ActiveApproval
  <2>2. CASE v # w
    <3>1. tool'[v] = tool[v] /\ ToolOwns(v)
      BY <1>12, <2>2 DEF OthersStay, DInv
    <3>2. tool[v].state # "none" => approvals'[tool[v].approval] = approvals[tool[v].approval]
      BY <1>6, <1>7, <3>1 DEF ToolOwns
    <3> QED
      BY <1>3, <3>1, <3>2 DEF ToolOwns
  <2> QED
    BY <2>1, <2>2
<1>17. Asked'
  BY <1>7 DEF DInv, Asked
<1>18. OpenIsTooled'
  <2> SUFFICES ASSUME NEW v \in Workers, NEW b \in Approvals, Owning(v)',
                      approvals'[b].state \in ActiveApproval,
                      approvals'[b].request_id = slot'[v].request,
                      approvals'[b].claim_fence = slot'[v].fence
               PROVE  tool'[v].approval = b /\ tool'[v].state \in {"waiting", "approved"}
    BY DEF OpenIsTooled
  <2>1. Owning(v) /\ slot'[v] = slot[v]
    BY <1>3 DEF Owning
  <2>2. CASE b = a
    <3>1. slot[v].request = slot[w].request /\ slot[v].fence = slot[w].fence
      BY <1>1, <1>2, <1>7, <2>1, <2>2
    <3>2. v = w
      BY <1>3, <2>1, <3>1 DEF DInv, SlotsDiffer
    <3> QED
      BY <1>11, <1>12, <2>2, <3>2
  <2>3. CASE b # a
    <3>1. tool[v].approval = b /\ tool[v].state \in {"waiting", "approved"}
      BY <1>7, <2>1, <2>3 DEF DInv, OpenIsTooled
    <3>2. v # w
      BY <1>3, <3>1, NoToolRow
    <3> QED
      BY <1>12, <3>1, <3>2 DEF OthersStay
  <2> QED
    BY <2>2, <2>3
<1>19. ApprovalHasWaiter'
  <2> SUFFICES ASSUME NEW b \in Approvals, approvals'[b].state \in ActiveApproval
               PROVE  LET row == requests'[approvals'[b].request_id]
                      IN row.status = approvals'[b].kind /\ row.claim_fence = approvals'[b].claim_fence
    BY DEF ApprovalHasWaiter
  <2>1. CASE b = a
    BY <1>7, <1>8, <2>1
  <2>2. CASE b # a
    <3>1. approvals'[b] = approvals[b] /\ approvals[b].request_id # r
      BY <1>6, <1>7, <2>2
    <3>2. approvals[b].request_id \in Requests
      BY <3>1, OpenIsParked DEF DInv
    <3> QED
      BY <1>8, <3>1, <3>2 DEF DInv, ApprovalHasWaiter
  <2> QED
    BY <2>1, <2>2
<1>20. OneChance'
  <2>1. \A b \in Approvals : b # a /\ approvals'[b].logical_effect_key = effect
          => approvals'[b].state \notin ActiveApproval \cup {"consumed"}
    BY <1>6, <1>7
  <2>2. OneChance
    BY DEF DInv
  <2> QED
    BY <1>7, <2>1, <2>2 DEF OneChance
<1>21. OneDispatch'
  <2>1. \A b \in Approvals : approvals[b].state = "consumed" => approvals'[b] = approvals[b]
    BY <1>6, <1>7
  <2> QED
    BY <1>3, <1>12, <2>1, DispatchKeeps
<1>22. ReportsSound'
  BY <1>10, <1>12, ReportsKeep
<1> QED
  BY <1>10, <1>12, <1>14, <1>15, <1>16, <1>17, <1>18, <1>19, <1>20, <1>21, <1>22 DEF DInv

-------------------------------------------------------------------------------
(* A claim *)

\* What a claim does to the rows it wins.
LEMMA WonRow ==
  ASSUME IInv, NEW w \in Workers, ClaimQueued(w), NEW r \in Requests,
         requests'[r].claim_fence # requests[r].claim_fence
  PROVE  /\ requests[r].status = "queued" /\ requests'[r].status = "claimed"
         /\ requests[r].claim_fence \in Nat /\ requests'[r].claim_fence = requests[r].claim_fence + 1
<1>1. PICK S \in SUBSET {q \in Requests : Claimable(q, scanning[w])} :
        requests' = [q \in Requests |->
          IF q \in S THEN ClaimedRow(requests[q], scanning[w]) ELSE requests[q]]
  BY DEF ClaimQueued
<1>2. requests[r] \in Request
  BY DEF IInv, TypeOK
<1>3. r \in S /\ requests'[r] = ClaimedRow(requests[r], scanning[w])
  BY <1>1
<1> QED
  BY <1>1, <1>2, <1>3 DEF Claimable, ClaimedRow, Request

\* The slot after a claim: nothing to do, or a request with the fence it got.
ClaimedSlot(w, row) ==
  /\ slot' = [slot EXCEPT ![w] = row]
  /\ \/ row = Idle
     \/ \E r \in Requests :
          /\ requests'[r].claim_fence # requests[r].claim_fence
          /\ row = [Idle EXCEPT !.pc = "claimed", !.request = r, !.fence = requests'[r].claim_fence]

LEMMA SlotClaimed == ASSUME NEW w \in Workers, WorkerClaim(w) PROVE \E row : ClaimedSlot(w, row)
<1> DEFINE won == {r \in Requests : requests'[r].claim_fence # requests[r].claim_fence}
           r == CHOOSE q \in won : TRUE
<1>1. won # {} => r \in won
  OBVIOUS
<1>2. slot' = [slot EXCEPT ![w] =
        IF won = {} THEN Idle
        ELSE [Idle EXCEPT !.pc = "claimed", !.request = r, !.fence = requests'[r].claim_fence]]
  BY DEF WorkerClaim
<1>3. CASE won = {}
  BY <1>2, <1>3 DEF ClaimedSlot
<1>4. CASE won # {}
  <2>1. r \in Requests /\ requests'[r].claim_fence # requests[r].claim_fence
    BY <1>1, <1>4
  <2> HIDE DEF r
  <2> QED
    BY <1>2, <1>4, <2>1 DEF ClaimedSlot
<1> QED
  BY <1>3, <1>4

LEMMA ClaimStep ==
  ASSUME DInv, NEW w \in Workers, WorkerClaim(w)
  PROVE  DInv'
<1>1. /\ IInv /\ Asked /\ ApprovalHasWaiter /\ slot \in [Workers -> SlotRow]
      /\ notified \subseteq Requests \X Terminal
  BY DEF DInv, DispatcherTypes
<1>2. /\ slot[w].pc = "claiming" /\ ClaimQueued(w) /\ UNCHANGED approvals
      /\ UNCHANGED <<tool, observable, dispatched, notified>>
  BY DEF WorkerClaim, ClaimQueued
<1>3. Serve /\ AllAge /\ WaitersStay
  BY <1>1, <1>2, ClaimStays DEF Serve
<1>4. /\ tool[w].state = "none" /\ tool'[w] = tool[w] /\ NoneConsumed /\ NewReports
  BY <1>2, ToolIdle DEF NoneConsumed, NewReports
<1>5. OneDispatch'
  BY <1>2, <1>3, <1>4, AgesDispatch
<1>6. IInv' /\ RowsMove
  BY <1>3, RowsKeep
<1>7. PICK row : ClaimedSlot(w, row)
  BY SlotClaimed
<1>8. slot'[w] = row /\ OthersStay(w)
  BY <1>1, <1>2, <1>7 DEF OthersStay, ClaimedSlot
<1>9. CASE row = Idle
  <2>1. DispatcherTypes'
    BY <1>2, <1>7, <1>9 DEF ClaimedSlot, DInv, DispatcherTypes, Idle, SlotRow, PCs, Verdicts
  <2>2. Calm(w) /\ Quiet(w) /\ SlotVerdict(w)' /\ ToolOwns(w)'
    BY <1>4, <1>8, <1>9 DEF Calm, Quiet, SlotVerdict, ToolOwns, Idle, Owning, Unowned
  <2> QED
    BY <1>3, <1>4, <1>5, <1>8, <2>1, <2>2, ActorKeeps
<1>10. ASSUME NEW r \in Requests, requests'[r].claim_fence # requests[r].claim_fence,
              row = [Idle EXCEPT !.pc = "claimed", !.request = r, !.fence = requests'[r].claim_fence]
       PROVE  DInv'
  <2>1. PICK k \in Nat : k = requests[r].claim_fence
    BY <1>1, <1>2, <1>10, WonRow
  <2>2. requests[r].status = "queued" /\ requests'[r].status = "claimed" /\ requests'[r].claim_fence = k + 1
    BY <1>1, <1>2, <1>10, <2>1, WonRow
  <2>3. row = [pc |-> "claimed", request |-> r, fence |-> k + 1, held |-> 0, verdict |-> "none"]
    BY <1>10, <2>2 DEF Idle
  <2>4. row \in SlotRow
    BY <2>1, <2>3 DEF SlotRow, PCs, Verdicts
  <2>5. DispatcherTypes'
    BY <1>2, <1>7, <2>4 DEF ClaimedSlot, DInv, DispatcherTypes
  <2>6. slot'[w].pc = "claimed" /\ slot'[w].request = r /\ slot'[w].fence = k + 1 /\ Owning(w)'
    BY <1>8, <2>3 DEF Owning, Unowned
  <2>7. SlotVerdict(w)' /\ ToolOwns(w)' /\ SlotOwns(w)'
    BY <1>4, <2>1, <2>2, <2>6 DEF SlotVerdict, ToolOwns, SlotOwns
  <2>8. ASSUME NEW v \in Workers, v # w
        PROVE  /\ slot'[v] = slot[v] /\ Calm(v) /\ Quiet(v) /\ SlotVerdict(v)' /\ ToolOwns(v)'
               /\ SlotOwns(v)'
    <3>1. slot'[v] = slot[v] /\ tool'[v] = tool[v]
      BY <1>8, <2>8 DEF OthersStay
    <3>2. Calm(v) /\ Quiet(v) /\ SlotVerdict(v)' /\ ToolOwns(v)'
      BY <1>3, <1>6, <3>1, OthersKeep
    <3>3. SlotOwns(v)'
      BY <1>6, <3>2, SlotKeeps
    <3> QED
      BY <3>1, <3>2, <3>3
  <2>9. \A v \in Workers : SlotOwns(v)' /\ SlotVerdict(v)' /\ ToolOwns(v)'
    BY <2>7, <2>8
  <2>10. \A v \in Workers : v # w /\ Owning(v)' /\ slot'[v].request = r => slot'[v].fence # k + 1
    <3> SUFFICES ASSUME NEW v \in Workers, v # w, Owning(v)', slot'[v].request = r
                 PROVE  slot'[v].fence # k + 1
      OBVIOUS
    <3>1. slot'[v] = slot[v] /\ Owning(v)
      BY <2>8 DEF Owning
    <3>2. slot[v].fence <= k /\ slot[v].fence \in Nat
      BY <1>1, <2>1, <3>1 DEF DInv, SlotOwns, SlotRow
    <3> QED
      BY <2>1, <3>1, <3>2
  <2>11. SlotsDiffer'
    <3>1. \A u, v \in Workers : u # w /\ v # w /\ u # v /\ Owning(u)' /\ Owning(v)'
            /\ slot'[u].request = slot'[v].request => slot'[u].fence # slot'[v].fence
      BY <2>8 DEF DInv, SlotsDiffer, Owning
    <3> QED
      BY <2>6, <2>10, <3>1 DEF SlotsDiffer
  <2>12. OpenIsTooled'
    <3> SUFFICES ASSUME NEW v \in Workers, NEW b \in Approvals, Owning(v)',
                        approvals'[b].state \in ActiveApproval,
                        approvals'[b].request_id = slot'[v].request,
                        approvals'[b].claim_fence = slot'[v].fence
                 PROVE  tool'[v].approval = b /\ tool'[v].state \in {"waiting", "approved"}
      BY DEF OpenIsTooled
    <3>1. v # w
      <4>1. requests[approvals[b].request_id].status \in Parked
        BY <1>1, <1>2, OpenIsParked
      <4> QED
        BY <1>2, <2>2, <2>6, <4>1 DEF Parked
    <3>2. slot'[v] = slot[v]
      BY <2>8, <3>1
    <3> QED
      BY <1>2, <3>2 DEF DInv, OpenIsTooled, Owning
  <2> QED
    BY <1>3, <1>4, <1>5, <2>5, <2>9, <2>11, <2>12, StepKeeps
<1> QED
  BY <1>7, <1>9, <1>10 DEF ClaimedSlot

-------------------------------------------------------------------------------
(* The theorems *)

LEMMA DInvInit == ASSUME DispatcherInit PROVE DInv
<1>1. IInv
  BY InvInit DEF DispatcherInit
<1>2. /\ requests = [r \in Requests |-> NoRequest] /\ approvals = [a \in Approvals |-> NoApproval]
      /\ resolved = {} /\ notified = {} /\ slot = [w \in Workers |-> Idle]
      /\ tool = [w \in Workers |-> NoTool] /\ dispatched = [e \in Effects |-> 0] /\ observable = {}
  BY DEF DispatcherInit, Init
<1>3. DispatcherTypes
  BY <1>2 DEF DispatcherTypes, Idle, SlotRow, PCs, Verdicts, NoTool, ToolRow
<1>4. FencesBounded /\ NothingPruned
  BY <1>2, TimeAssumption DEF FencesBounded, NothingPruned, NoRequest
<1>5. \A w \in Workers : SlotOwns(w) /\ SlotVerdict(w) /\ ToolOwns(w) /\ ~Owning(w)
  BY <1>2 DEF SlotOwns, SlotVerdict, ToolOwns, Owning, Unowned, Idle, NoTool
<1>6. SlotsDiffer /\ OpenIsTooled
  BY <1>5 DEF SlotsDiffer, OpenIsTooled
<1>7. Asked /\ ApprovalHasWaiter /\ OneChance
  BY <1>2 DEF Asked, ApprovalHasWaiter, OneChance, NoApproval, ActiveApproval
<1>8. OneDispatch /\ ReportsSound
  BY <1>2 DEF OneDispatch, ReportsSound, NoTool
<1> QED
  BY <1>1, <1>3, <1>4, <1>5, <1>6, <1>7, <1>8 DEF DInv

LEMMA ProgressKeeps == ASSUME DInv, NEW w \in Workers, Progress(w) PROVE DInv'
  BY PollSteps, ClaimStep, StartSteps, HeartbeatStep, StopStep, QuietSteps, DecidedStep, GiveUpSteps,
     ConsumeStep, DispatchStep, HandleSteps, FinishSteps, EvidenceStep, NotifyStep
     DEF Progress

LEMMA MishapKeeps == ASSUME DInv, NEW w \in Workers, Mishap(w) PROVE DInv'
  BY QuietSteps, HandleSteps, CrashStep, ObservablyStep, GiveUpSteps, ParkStep DEF Mishap

LEMMA DInvNext == ASSUME DInv, [DispatcherNext]_vars PROVE DInv'
<1>1. CASE DispatcherNext
  BY <1>1, StoreStepStep, UserCancelStep, UserAttestStep, ProgressKeeps, MishapKeeps DEF DispatcherNext
<1>2. CASE UNCHANGED vars
  <2>1. UNCHANGED storeVars /\ UNCHANGED <<slot, tool, observable, dispatched, notified>>
    BY <1>2 DEF vars, dispatchVars
  <2>2. DispatcherTypes' /\ NoneConsumed /\ NewReports
    BY <2>1 DEF DInv, DispatcherTypes, NoneConsumed, NewReports
  <2>3. AllAge /\ WaitersStay
    BY <2>1, SameStays
  <2>4. \A v \in Workers : Calm(v) /\ Quiet(v) /\ SlotVerdict(v)' /\ ToolOwns(v)'
    BY <2>1, <2>3, OthersKeep, RowsKeep
  <2> QED
    BY <2>1, <2>2, <2>3, <2>4, CalmKeeps, AgesDispatch
<1> QED
  BY <1>1, <1>2

LEMMA Inductive == DispatcherSpec => []DInv
<1>1. DispatcherInit => DInv
  BY DInvInit
<1>2. DInv /\ [DispatcherNext]_vars => DInv'
  BY DInvNext
<1> QED
  BY <1>1, <1>2, PTL DEF DispatcherSpec

\* The workers, their tools, crashes and users use the store as its specification says:
\* each step of dispatcher.py, parked.py and owned_operation.py is one operation of the
\* store or none, whatever claims they still hold.  Every theorem about Spec is thereby
\* one about DispatcherSpec.
THEOREM DispatcherUsesStore == DispatcherSpec => Spec
<1>1. DispatcherInit => Init
  BY DEF DispatcherInit
<1>2. DInv /\ [DispatcherNext]_vars => [Next]_storeVars
  BY InvariantSteers, DispatcherServes DEF Serve, Next
<1> QED
  BY <1>1, <1>2, Inductive, PTL DEF DispatcherSpec, Spec

\* Every approval a person can still give has the run that waits for it, parked under the
\* claim that asked: Cancel, Recover, Park and the exits of ParkedPreparedEffectTool never
\* leave one behind.
THEOREM OpenApprovalsAwaited == DispatcherSpec => []ApprovalHasWaiter
<1>1. DInv => ApprovalHasWaiter
  BY DEF DInv
<1> QED
  BY <1>1, Inductive, PTL

\* A logical browser effect reaches the provider at most once, with any number of workers,
\* crashes, lapsed leases and renewed approvals: Park refuses a second chance while one is
\* open or used, and only the tool that consumed an approval dispatches.
THEOREM EffectsNotRepeated == DispatcherSpec => []EffectDispatchedOnce
<1>1. DInv => EffectDispatchedOnce
  <2> SUFFICES ASSUME DInv, NEW e \in Effects PROVE dispatched[e] <= 1
    BY DEF EffectDispatchedOnce
  <2>1. dispatched[e] = 0 \/ dispatched[e] = 1
    BY DEF DInv, OneDispatch
  <2> QED
    BY <2>1
<1> QED
  BY <1>1, Inductive, PTL

\* A notification names the status of the row, unless a person has settled an uncertain
\* outcome since; a finish the store refused is never reported.
THEOREM ReportsAreTrue == DispatcherSpec => []ReportMatchesOutcome
<1>1. DInv => ReportMatchesOutcome
  BY DEF DInv, ReportsSound, ReportMatchesOutcome
<1> QED
  BY <1>1, Inductive, PTL

\* The result of handed off work is reported only after its acknowledgement was delivered.
THEOREM ReportsFollowAcknowledgement == DispatcherSpec => []ResultAfterAcknowledgement
<1>1. DInv => ResultAfterAcknowledgement
  BY DEF DInv, ReportsSound, Reportable, ResultAfterAcknowledgement
<1> QED
  BY <1>1, Inductive, PTL

-------------------------------------------------------------------------------
(* `cancelled` and the evidence of a request that one slot at a time works on *)

\* Two slots at work on request r: a worker went on after its lease had lapsed
\* and another one claimed the request.
Rivals(r) ==
  \E w, v \in Workers :
    w # v /\ Owning(w) /\ Owning(v) /\ slot[w].request = r /\ slot[v].request = r

\* A running slot's request was started, so nobody can cancel it outright.
RunStarted(w) ==
  slot[w].pc = "running"
    => runs[slot[w].request] # {} /\ requests[slot[w].request].status # "cancelled"

NothingSeen(w) ==
  slot[w].pc \in {"settling", "notifying"} /\ slot[w].verdict = "cancelled"
    => slot[w].request \notin observable

EvidenceStands(r) == r \in observable => runs[r] # {} /\ requests[r].status # "cancelled"

\* What runs was started; what is to be cancelled, or is, has left no evidence.
SoleInv(r) ==
  /\ \A w \in Workers : slot[w].request = r => RunStarted(w) /\ NothingSeen(w)
  /\ EvidenceStands(r)

\* No row becomes cancelled after its start, and no run is forgotten.
Unerased ==
  \A r \in Requests :
    /\ requests'[r].status = "cancelled" => requests[r].status = "cancelled" \/ runs[r] = {}
    /\ runs[r] # {} => runs'[r] # {}

LEMMA OneRowUnerased ==
  ASSUME IInv, NEW r \in Requests, NEW row, requests' = [requests EXCEPT ![r] = row], UNCHANGED runs,
         row.status = "cancelled" => requests[r].status = "cancelled" \/ runs[r] = {}
  PROVE  Unerased
<1>1. /\ \A q \in Requests : q # r => requests'[q] = requests[q]
      /\ requests'[r] = row
  BY DEF IInv, TypeOK
<1> QED
  BY <1>1 DEF Unerased

LEMMA SameUnerased == ASSUME UNCHANGED <<requests, runs>> PROVE Unerased
  BY DEF Unerased

LEMMA RecoverUnerased == ASSUME IInv, Recover(now), UNCHANGED runs PROVE Unerased
<1> SUFFICES ASSUME NEW r \in Requests, requests'[r].status = "cancelled"
             PROVE  requests[r].status = "cancelled"
  BY DEF Unerased
<1>1. requests[r] \in Request /\ requests'[r] = Recovered(requests[r], now) /\ now \in Nat
  BY DEF IInv, TypeOK, Recover
<1>2. requests'[r].status \in {"blocked", "queued", "uncertain", requests[r].status}
  BY <1>1, RecoveredRow
<1> QED
  BY <1>2

LEMMA ClaimUnerased ==
  ASSUME IInv, NEW w \in Workers, ClaimQueued(w)
  PROVE  Unerased
<1>1. UNCHANGED runs
  BY DEF ClaimQueued
<1>2. ASSUME NEW r \in Requests
      PROVE  requests'[r] = requests[r] \/ (requests[r].status = "queued" /\ requests'[r].status = "claimed")
  <2>1. PICK S \in SUBSET {q \in Requests : Claimable(q, scanning[w])} :
          requests' = [q \in Requests |->
            IF q \in S THEN ClaimedRow(requests[q], scanning[w]) ELSE requests[q]]
    BY DEF ClaimQueued
  <2>2. requests[r] \in Request
    BY DEF IInv, TypeOK
  <2> QED
    BY <2>1, <2>2 DEF Claimable, ClaimedRow, Request
<1> QED
  BY <1>1, <1>2 DEF Unerased, Executing, Parked

LEMMA CancelUnerased ==
  ASSUME IInv, NEW r \in Requests, Cancel(r)
  PROVE  Unerased
<1> DEFINE row == requests'[r]
<1>1. requests[r] \in Request /\ RowInv(requests[r], runs[r])
  BY DEF IInv, TypeOK, GoodRow
<1>2. requests' = [requests EXCEPT ![r] = row] /\ UNCHANGED runs
  BY DEF Cancel, IInv, TypeOK
<1>3. CASE requests[r].status \in {"running"} \cup Parked
  <2>1. row = WithStatus(requests[r], "cancel_requested")
    BY <1>3 DEF Cancel, IInv, TypeOK
  <2>2. row.status = "cancel_requested"
    BY <1>1, <2>1 DEF WithStatus, Request
  <2> HIDE DEF row
  <2> QED
    BY <1>2, <2>2, OneRowUnerased DEF Executing
<1>4. CASE requests[r].status \notin {"running"} \cup Parked
  <2>1. requests[r].status \in Unstarted /\ requests[r].status \notin Executing
    BY <1>1, <1>4 DEF Cancel, Stored, Request, Statuses, Unstarted, Active, Executing, Terminal
  <2>2. runs[r] = {}
    BY <1>1, <2>1 DEF RowInv
  <2> HIDE DEF row
  <2> QED
    BY <1>2, <2>1, <2>2, OneRowUnerased
<1> QED
  BY <1>3, <1>4

\* The operations of users and maintenance.
LEMMA UsersUnerased ==
  ASSUME IInv, \/ StoreStep
               \/ \E r \in Requests : UserCancel(r)
               \/ \E a \in Approvals, status \in {"succeeded", "failed"} : UserAttest(a, status)
  PROVE  Unerased
<1>1. \A r \in Requests : requests[r] \in Request
  BY DEF IInv, TypeOK
<1>2. ASSUME NEW r \in Requests, NEW row, requests' = [requests EXCEPT ![r] = row], UNCHANGED runs,
             row.status # "cancelled", requests[r].status \notin Executing
      PROVE  Unerased
  BY <1>2, OneRowUnerased
<1>3. ASSUME NEW r \in Requests, Submit(r) PROVE Unerased
  <2>1. PICK kind, held, expires, parent :
          requests' = [requests EXCEPT ![r] = NewRequest(kind, held, expires, parent)]
    BY <1>3 DEF Submit
  <2>2. NewRequest(kind, held, expires, parent).status # "cancelled"
    BY DEF NewRequest
  <2> QED
    BY <1>2, <1>3, <2>1, <2>2 DEF Submit, Executing, Parked
<1>4. ASSUME NEW r \in Requests, NEW outbox \in Outboxes, AttachAcknowledgement(r, outbox)
      PROVE  Unerased
  <2>1. /\ requests' = [requests EXCEPT ![r] = [requests[r] EXCEPT !.acknowledgement_outbox_id = outbox]]
        /\ UNCHANGED runs
    BY <1>4 DEF AttachAcknowledgement
  <2>2. [requests[r] EXCEPT !.acknowledgement_outbox_id = outbox].status = requests[r].status
    BY <1>1 DEF Request
  <2> QED
    BY <2>1, <2>2, OneRowUnerased
<1>5. ASSUME NEW r \in Requests, NEW outbox \in Outboxes, ReleaseAcknowledged(r, outbox)
      PROVE  Unerased
  <2> DEFINE row == requests'[r]
  <2>1. /\ requests' = [requests EXCEPT ![r] = row] /\ UNCHANGED runs
        /\ \/ row.status = requests[r].status
           \/ requests[r].status = "awaiting_acknowledgement" /\ row.status \in {"blocked", "queued"}
    BY <1>1, <1>5 DEF ReleaseAcknowledged, IInv, TypeOK, Request
  <2> HIDE DEF row
  <2> QED
    BY <2>1, OneRowUnerased DEF Executing, Parked
<1>6. ASSUME NEW r \in Requests, NEW child \in Requests, Retry(r, child) PROVE Unerased
  <2>1. RetryChild(r).status # "cancelled"
    BY <1>1 DEF RetryChild, Request
  <2> QED
    BY <1>2, <1>6, <2>1 DEF Retry, Executing, Parked
<1>7. ASSUME NEW r \in Requests, NEW status \in {"succeeded", "failed"}, requests[r].status = "uncertain",
             requests' = [requests EXCEPT ![r].status = status], UNCHANGED runs
      PROVE  Unerased
  <2>1. [requests[r] EXCEPT !.status = status].status = status
    BY <1>1 DEF Request
  <2> QED
    BY <1>2, <1>7, <2>1 DEF Executing, Parked
<1>8. ASSUME NEW a \in Approvals, NEW status \in {"succeeded", "failed"}, AttestTransaction(a, status)
      PROVE  Unerased
  <2>1. approvals[a].request_id \in Requests
    BY <1>8 DEF AttestTransaction, IInv, TypeOK, Approval
  <2> QED
    BY <1>7, <1>8, <2>1 DEF AttestTransaction
<1>9. CASE Tick \/ ExpireApprovals \/ \E a \in Approvals, decision \in {"approved", "denied"} : Decide(a, decision)
  BY <1>9, SameUnerased DEF Tick, ExpireApprovals, Decide
<1>10. ASSUME NEW r \in Requests, NEW status \in {"succeeded", "failed"}, Resolve(r, status)
       PROVE  Unerased
  BY <1>7, <1>10 DEF Resolve
<1> QED
  BY <1>3, <1>4, <1>5, <1>6, <1>8, <1>9, <1>10, CancelUnerased DEF StoreStep, UserCancel, UserAttest

\* The operations of a run's owner.
LEMMA OwnerUnerased ==
  ASSUME IInv, NEW a \in Approvals, NEW k,
         ResumeConsuming(a, k) \/ ResumeUnconsumed(a, k) \/ Invalidate(a, k)
  PROVE  Unerased
<1>1. PICK r \in Requests : r = approvals[a].request_id /\ requests[r] \in Request
  BY DEF ResumeConsuming, ResumeUnconsumed, Invalidate, OwnsParked, IInv, TypeOK, Approval
<1>2. requests' = [requests EXCEPT ![r] = [requests[r] EXCEPT !.status = "running"]] /\ UNCHANGED runs
  BY <1>1 DEF ResumeConsuming, ResumeUnconsumed, Invalidate
<1>3. [requests[r] EXCEPT !.status = "running"].status = "running"
  BY <1>1 DEF Request
<1> QED
  BY <1>2, <1>3, OneRowUnerased DEF Executing

LEMMA RunUnerased ==
  ASSUME IInv, NEW r \in Requests, NEW k,
         Start(r, k) \/ Renew(r, k) \/ \E a \in Approvals, effect \in Effects : Park(a, r, k, effect)
  PROVE  Unerased
<1>1. requests[r] \in Request /\ runs \in [Requests -> SUBSET Nat]
  BY DEF IInv, TypeOK
<1>2. CASE Start(r, k)
  <2>1. \A q \in Requests : q # r => requests'[q] = requests[q] /\ runs'[q] = runs[q]
    BY <1>1, <1>2 DEF Start, IInv, TypeOK
  <2>2. requests'[r].status = "running" /\ runs'[r] = runs[r] \cup {k}
    BY <1>1, <1>2 DEF Start, IInv, TypeOK, Request
  <2> QED
    BY <2>1, <2>2 DEF Unerased, Executing
<1>3. CASE Renew(r, k)
  <2>1. [requests[r] EXCEPT !.claim_expires_at = now + ClaimSeconds].status = requests[r].status
    BY <1>1 DEF Request
  <2>2. requests' = [requests EXCEPT ![r] = [requests[r] EXCEPT !.claim_expires_at = now + ClaimSeconds]]
        /\ UNCHANGED runs
    BY <1>3 DEF Renew
  <2> QED
    BY <2>1, <2>2, OneRowUnerased
<1>4. ASSUME NEW a \in Approvals, NEW effect \in Effects, Park(a, r, k, effect)
      PROVE  Unerased
  <2>1. PICK kind \in Parked : requests' = [requests EXCEPT ![r] = [requests[r] EXCEPT !.status = kind]]
    BY <1>4 DEF Park
  <2>2. [requests[r] EXCEPT !.status = kind].status = kind /\ UNCHANGED runs
    BY <1>1, <1>4 DEF Request, Park
  <2> QED
    BY <2>1, <2>2, OneRowUnerased DEF Executing, Parked
<1> QED
  BY <1>2, <1>3, <1>4

\* What a slot does to its own request, when it adds no evidence but its run's and the
\* request keeps its start.
Works(w) ==
  /\ \A v \in Workers \ {w} : slot'[v] = slot[v]
  /\ \A q \in observable' \ observable : q = slot[w].request /\ slot[w].pc = "running"

\* Without a rival, only the acting slot matters.
LEMMA SoleActor ==
  ASSUME DInv, NEW r \in Requests, SoleInv(r), ~Rivals(r), NEW w \in Workers, Works(w), Unerased,
         slot'[w].request = r => RunStarted(w)' /\ NothingSeen(w)'
  PROVE  SoleInv(r)'
<1>1. ASSUME r \in observable' \ observable
      PROVE  slot[w].request = r /\ slot[w].pc = "running"
  BY <1>1 DEF Works
<1>2. EvidenceStands(r)'
  BY <1>1 DEF EvidenceStands, SoleInv, RunStarted, Unerased
<1>3. ASSUME NEW v \in Workers, v # w, slot[v].request = r, Owning(v)
      PROVE  r \notin observable' \ observable
  BY <1>1, <1>3 DEF Rivals, Owning, Unowned
<1>4. ASSUME NEW v \in Workers, v # w, slot'[v].request = r
      PROVE  RunStarted(v)' /\ NothingSeen(v)'
  <2>1. slot'[v] = slot[v] /\ RunStarted(v) /\ NothingSeen(v)
    BY <1>4 DEF Works, SoleInv
  <2>2. RunStarted(v)'
    BY <1>4, <2>1 DEF RunStarted, Unerased
  <2>3. slot[v].pc \in {"settling", "notifying"} => Owning(v)
    BY DEF Owning, Unowned
  <2>4. NothingSeen(v)'
    BY <1>3, <1>4, <2>1, <2>3 DEF NothingSeen
  <2> QED
    BY <2>2, <2>4
<1> QED
  BY <1>2, <1>4 DEF SoleInv

\* Where the acting slot stands after the step.
Lands(w, S) == slot'[w].pc \in S /\ \A v \in Workers \ {w} : slot'[v] = slot[v]

Quits == PCs \ {"running", "settling", "notifying"}

LEMMA MovedLands ==
  ASSUME DInv, NEW w \in Workers, NEW pc, NEW verdict, Moved(w, pc, verdict)
  PROVE  Lands(w, {pc})
  BY DEF Moved, Lands, DInv, DispatcherTypes

LEMMA ReturnLands ==
  ASSUME DInv, NEW w \in Workers, Return(w)
  PROVE  Lands(w, {"idle"}) /\ slot'[w] = Idle
  BY DEF Return, Lands, Idle, DInv, DispatcherTypes

\* The acting slot is not left running or settling.
LEMMA QuitsSole ==
  ASSUME DInv, NEW r \in Requests, SoleInv(r), ~Rivals(r), NEW w \in Workers, Works(w), Unerased,
         NEW pc \in Quits, Lands(w, {pc})
  PROVE  SoleInv(r)'
<1>1. RunStarted(w)' /\ NothingSeen(w)'
  BY DEF Lands, Quits, RunStarted, NothingSeen
<1> QED
  BY <1>1, SoleActor

\* The acting slot goes on running.
LEMMA RunningSole ==
  ASSUME DInv, NEW r \in Requests, SoleInv(r), ~Rivals(r), NEW w \in Workers, Unerased,
         slot' = slot, slot[w].pc = "running",
         \A q \in observable' \ observable : q = slot[w].request
  PROVE  SoleInv(r)'
<1>1. Works(w)
  BY DEF Works
<1>2. slot'[w].request = r => RunStarted(w)' /\ NothingSeen(w)'
  BY DEF SoleInv, RunStarted, NothingSeen, Unerased
<1> QED
  BY <1>1, <1>2, SoleActor

LEMMA PollSole ==
  ASSUME DInv, NEW r \in Requests, SoleInv(r), ~Rivals(r), NEW w \in Workers,
         WorkerRecover(w) \/ ProjectNotifications(w) \/ WorkerClaimRecover(w) \/ WorkerClaim(w)
  PROVE  SoleInv(r)'
<1>1. IInv /\ slot \in [Workers -> SlotRow]
  BY DEF DInv, DispatcherTypes
<1>2. Unerased
  <2>1. CASE WorkerRecover(w) \/ WorkerClaimRecover(w)
    BY <1>1, <2>1, RecoverUnerased DEF WorkerRecover, WorkerClaimRecover, RecoverExpired, ClaimRecover
  <2>2. CASE ProjectNotifications(w)
    BY <2>2, SameUnerased DEF ProjectNotifications, storeVars
  <2>3. CASE WorkerClaim(w)
    BY <1>1, <2>3, ClaimUnerased DEF WorkerClaim
  <2> QED
    BY <2>1, <2>2, <2>3
<1>3. Works(w)
  BY <1>1 DEF WorkerRecover, ProjectNotifications, WorkerClaimRecover, WorkerClaim, Goto, dispatchVars, Works
<1>4. slot'[w].pc \in {"projecting", "claiming", "claimed", "idle"}
  <2>1. ASSUME NEW pc \in {"projecting", "claiming"}, Goto(w, pc) PROVE slot'[w].pc = pc
    BY <2>1, GotoMoved DEF PCs, Moved
  <2>2. CASE WorkerClaimRecover(w)
    BY <2>2 DEF WorkerClaimRecover, dispatchVars
  <2>3. CASE WorkerClaim(w)
    <3>1. PICK row : ClaimedSlot(w, row)
      BY <2>3, SlotClaimed
    <3>2. slot'[w] = row
      BY <1>1, <3>1 DEF ClaimedSlot
    <3>3. ASSUME NEW q, NEW k,
                 row = [Idle EXCEPT !.pc = "claimed", !.request = q, !.fence = k]
          PROVE  row.pc = "claimed"
      BY <3>3 DEF Idle
    <3>4. row = Idle => row.pc = "idle"
      BY DEF Idle
    <3> QED
      BY <3>1, <3>2, <3>3, <3>4 DEF ClaimedSlot
  <2> QED
    BY <2>1, <2>2, <2>3 DEF WorkerRecover, ProjectNotifications
<1>5. slot'[w].pc \in Quits /\ Lands(w, {slot'[w].pc})
  BY <1>3, <1>4 DEF Quits, PCs, Lands, Works
<1> QED
  BY <1>2, <1>3, <1>5, QuitsSole

\* A handler settles what it read, or leaves.
LEMMA HandlerLands ==
  ASSUME DInv, NEW w \in Workers, Owning(w),
         \/ \E clean \in Terminal : Settle(w, clean)
         \/ \E pc \in {"finishing", "raised", "failing"} : Goto(w, pc)
         \/ Return(w)
  PROVE  \E pc \in Quits : Lands(w, {pc})
<1>1. ASSUME NEW clean \in Terminal, Settle(w, clean) PROVE Lands(w, {"evidence"})
  BY <1>1, SettleMoved, MovedLands
<1>2. ASSUME NEW pc \in {"finishing", "raised", "failing"}, Goto(w, pc) PROVE Lands(w, {pc})
  <2>1. Moved(w, pc, slot[w].verdict)
    BY <1>2, GotoMoved DEF PCs
  <2> QED
    BY <2>1, MovedLands
<1>3. {"evidence", "finishing", "raised", "failing", "idle"} \subseteq Quits
  BY DEF Quits, PCs
<1> QED
  BY <1>1, <1>2, <1>3, ReturnLands

\* Runs that stop or end, and the handlers that follow.
LEMMA HandlingSole ==
  ASSUME DInv, NEW r \in Requests, SoleInv(r), ~Rivals(r), NEW w \in Workers,
         \/ DispatchRaises(w) \/ HeartbeatFails(w) \/ Interrupt(w) \/ RunRaises(w)
         \/ \E outcome \in Outcomes : RunEnds(w, outcome)
         \/ HandleEnded(w) \/ HandleCancelling(w) \/ HandleLost(w) \/ HandleInterrupted(w)
         \/ Notify(w) \/ NotifyRaises(w)
  PROVE  SoleInv(r)'
<1>1. UNCHANGED storeVars
  BY DEF DispatchRaises, HeartbeatFails, Interrupt, RunRaises, RunEnds, HandleEnded, HandleCancelling,
     HandleLost, HandleInterrupted, Notify, NotifyRaises
<1>2. Unerased
  BY <1>1, SameUnerased DEF storeVars
<1>3. Owning(w)
  BY DEF DispatchRaises, HeartbeatFails, Interrupt, RunRaises, RunEnds, HandleEnded, HandleCancelling,
     HandleLost, HandleInterrupted, Notify, NotifyRaises, Owning, Unowned
<1>4. {"raised", "stopping", "interrupted", "ended"} \subseteq Quits
  BY DEF Quits, PCs
<1>5. \E pc \in Quits : Lands(w, {pc})
  <2>1. CASE DispatchRaises(w) \/ RunRaises(w)
    BY <1>3, <2>1, HandlerLands DEF DispatchRaises, RunRaises
  <2>2. CASE HeartbeatFails(w)
    <3>1. Moved(w, "stopping", "lost")
      BY <2>2, VerdictMoved DEF HeartbeatFails, PCs, Verdicts, Handlers
    <3> QED
      BY <1>4, <3>1, MovedLands
  <2>3. CASE Interrupt(w)
    <3> DEFINE pc == IF slot[w].pc = "running" THEN "stopping" ELSE "interrupted"
    <3>1. pc \in {"stopping", "interrupted"} /\ pc \in PCs /\ "interrupted" \in Verdicts
      BY DEF PCs, Verdicts, Handlers
    <3>2. slot' = [slot EXCEPT ![w].pc = pc, ![w].verdict = "interrupted"]
      BY <2>3 DEF Interrupt, DInv, DispatcherTypes
    <3> HIDE DEF pc
    <3>3. Moved(w, pc, "interrupted")
      BY <3>1, <3>2, VerdictMoved
    <3> QED
      BY <1>4, <3>1, <3>3, MovedLands
  <2>4. ASSUME NEW outcome \in Outcomes, RunEnds(w, outcome) PROVE Lands(w, {"ended"})
    <3> DEFINE verdict == IF outcome = "interrupted" THEN "uncertain" ELSE outcome
    <3>1. verdict \in Verdicts /\ "ended" \in PCs
      BY DEF Outcomes, Terminal, Verdicts, PCs
    <3>2. slot' = [slot EXCEPT ![w].pc = "ended", ![w].verdict = verdict]
      BY <2>4 DEF RunEnds
    <3> HIDE DEF verdict
    <3>3. Moved(w, "ended", verdict)
      BY <3>1, <3>2, VerdictMoved
    <3> QED
      BY <3>3, MovedLands
  <2>5. CASE HandleEnded(w) \/ HandleCancelling(w) \/ HandleLost(w) \/ HandleInterrupted(w)
             \/ Notify(w) \/ NotifyRaises(w)
    <3>1. "cancelled" \in Terminal /\ "failed" \in Terminal
      BY DEF Terminal
    <3>2. Goto(w, "finishing") \/ Return(w) \/ \E clean \in Terminal : Settle(w, clean)
      BY <2>5, <3>1 DEF HandleEnded, HandleCancelling, HandleLost, HandleInterrupted, Notify, NotifyRaises
    <3> QED
      BY <1>3, <3>2, HandlerLands
  <2> QED
    BY <1>4, <2>1, <2>2, <2>3, <2>4, <2>5
<1>6. Works(w)
  <2>1. \A v \in Workers \ {w} : slot'[v] = slot[v]
    BY <1>5 DEF Lands
  <2> QED
    BY <2>1 DEF Works, DispatchRaises, HeartbeatFails, Interrupt, RunRaises, RunEnds, HandleEnded,
       HandleCancelling, HandleLost, HandleInterrupted, Notify, NotifyRaises
<1> QED
  BY <1>2, <1>5, <1>6, QuitsSole

\* A run that starts executes; a handler that cannot start leaves.
LEMMA StartingSole ==
  ASSUME DInv, NEW r \in Requests, SoleInv(r), ~Rivals(r), NEW w \in Workers, StartRun(w) \/ HandleRaised(w)
  PROVE  SoleInv(r)'
<1>1. /\ Owning(w) /\ observable' = observable
      /\ IInv /\ slot[w].request \in Requests
  BY DEF StartRun, HandleRaised, Owning, Unowned, DInv, SlotOwns
<1>2. \/ Start(slot[w].request, slot[w].fence) /\ Goto(w, "running")
      \/ Start(slot[w].request, slot[w].fence) /\ Goto(w, "failing")
      \/ /\ UNCHANGED storeVars
         /\ \/ Settle(w, "cancelled")
            \/ \E pc \in {"raised", "failing"} : Goto(w, pc)
            \/ Return(w)
  BY DEF StartRun, HandleRaised, Goto
<1>3. Unerased
  BY <1>1, <1>2, RunUnerased, SameUnerased DEF storeVars
<1>4. CASE Start(slot[w].request, slot[w].fence) /\ Goto(w, "running")
  <2>1. Moved(w, "running", slot[w].verdict)
    BY <1>4, GotoMoved DEF PCs
  <2>2. requests'[slot[w].request].status = "running" /\ runs'[slot[w].request] # {}
    <3>1. /\ requests[slot[w].request] \in Request /\ requests \in [Requests -> Request]
          /\ runs \in [Requests -> SUBSET Nat]
      BY <1>1 DEF IInv, TypeOK
    <3>2. requests'[slot[w].request].status = "running"
      BY <1>1, <1>4, <3>1 DEF Start, Request
    <3>3. runs'[slot[w].request] = runs[slot[w].request] \cup {slot[w].fence}
      BY <1>1, <1>4, <3>1 DEF Start
    <3> QED
      BY <3>2, <3>3
  <2>3. RunStarted(w)' /\ NothingSeen(w)'
    BY <2>1, <2>2 DEF Moved, RunStarted, NothingSeen
  <2>4. Lands(w, {"running"})
    BY <2>1, MovedLands
  <2>5. Works(w)
    BY <1>1, <2>4 DEF Lands, Works
  <2> QED
    BY <1>3, <2>3, <2>5, SoleActor
<1>5. CASE ~(Start(slot[w].request, slot[w].fence) /\ Goto(w, "running"))
  <2>1. "cancelled" \in Terminal
    BY DEF Terminal
  <2>2. PICK pc \in Quits : Lands(w, {pc})
    BY <1>1, <1>2, <1>5, <2>1, HandlerLands
  <2>3. Works(w)
    BY <1>1, <2>2 DEF Lands, Works
  <2> QED
    BY <1>3, <2>2, <2>3, QuitsSole
<1> QED
  BY <1>4, <1>5

\* The lease is renewed, or the run is stopped.
LEMMA LeaseSole ==
  ASSUME DInv, NEW r \in Requests, SoleInv(r), ~Rivals(r), NEW w \in Workers, Heartbeat(w) \/ StopRun(w)
  PROVE  SoleInv(r)'
<1>1. /\ observable' = observable
      /\ IInv /\ slot[w].request \in Requests
  BY DEF Heartbeat, StopRun, Owning, Unowned, DInv, SlotOwns
<1>2. CASE Heartbeat(w)
  <2>1. slot[w].pc = "running"
    BY <1>2 DEF Heartbeat
  <2>2. Renew(slot[w].request, slot[w].fence) \/ UNCHANGED storeVars
    BY <1>2 DEF Heartbeat
  <2>3. Unerased
    BY <1>1, <2>2, RunUnerased, SameUnerased DEF storeVars
  <2>4. slot' = slot \/ \E verdict \in {"cancelling", "lost"} :
          slot' = [slot EXCEPT ![w].pc = "stopping", ![w].verdict = verdict]
    BY <1>2 DEF Heartbeat
  <2>5. CASE slot' = slot
    BY <1>1, <2>1, <2>3, <2>5, RunningSole
  <2>6. ASSUME NEW verdict \in {"cancelling", "lost"},
               slot' = [slot EXCEPT ![w].pc = "stopping", ![w].verdict = verdict]
        PROVE  SoleInv(r)'
    <3>1. Moved(w, "stopping", verdict)
      BY <2>6, VerdictMoved DEF PCs, Verdicts, Handlers
    <3>2. Lands(w, {"stopping"}) /\ "stopping" \in Quits
      BY <3>1, MovedLands DEF Quits, PCs
    <3>3. Works(w)
      BY <1>1, <3>2 DEF Lands, Works
    <3> QED
      BY <2>3, <3>2, <3>3, QuitsSole
  <2> QED
    BY <2>4, <2>5, <2>6
<1>3. CASE StopRun(w)
  <2>1. slot[w].verdict \in Handlers
    BY <1>3 DEF StopRun, DInv, SlotVerdict
  <2>2. Moved(w, slot[w].verdict, slot[w].verdict)
    BY <1>3, <2>1, GotoMoved DEF StopRun, PCs, Handlers
  <2>3. Lands(w, {slot[w].verdict}) /\ slot[w].verdict \in Quits
    BY <2>1, <2>2, MovedLands DEF Quits, PCs, Handlers
  <2>4. Unerased
    <3>1. tool[w].state \in {"waiting", "approved"} => tool[w].approval \in Approvals
      BY DEF DInv, ToolOwns
    <3> QED
      BY <1>1, <1>3, <3>1, OwnerUnerased, SameUnerased DEF StopRun, Abandon, storeVars
  <2>5. Works(w)
    BY <1>1, <2>3 DEF Lands, Works
  <2> QED
    BY <2>3, <2>4, <2>5, QuitsSole
<1> QED
  BY <1>2, <1>3

\* Evidence is read before anything is called cancelled.
LEMMA EvidenceSole ==
  ASSUME DInv, NEW r \in Requests, SoleInv(r), ~Rivals(r), NEW w \in Workers, ReadEvidence(w)
  PROVE  SoleInv(r)'
<1>1. PICK seen \in {slot[w].request \in observable, TRUE} :
        slot' = [slot EXCEPT ![w].pc = "settling", ![w].verdict = IF seen THEN "uncertain" ELSE @]
  BY DEF ReadEvidence
<1> DEFINE verdict == IF seen THEN "uncertain" ELSE slot[w].verdict
<1>2. slot[w].pc = "evidence" /\ observable' = observable /\ UNCHANGED storeVars /\ slot[w].verdict \in Terminal
  BY DEF ReadEvidence, DInv, SlotVerdict
<1>3. verdict \in Verdicts /\ (verdict = "cancelled" => slot[w].request \notin observable)
  BY <1>2 DEF Verdicts, Terminal
<1>4. slot' = [slot EXCEPT ![w].pc = "settling", ![w].verdict = verdict]
  BY <1>1 DEF DInv, DispatcherTypes
<1> HIDE DEF verdict
<1>5. Moved(w, "settling", verdict)
  BY <1>3, <1>4, VerdictMoved DEF PCs
<1>6. Lands(w, {"settling"})
  BY <1>5, MovedLands
<1>7. RunStarted(w)' /\ NothingSeen(w)'
  BY <1>2, <1>3, <1>5 DEF Moved, RunStarted, NothingSeen
<1>8. Unerased /\ Works(w)
  BY <1>2, <1>6, SameUnerased DEF storeVars, Lands, Works
<1> QED
  BY <1>7, <1>8, SoleActor

\* A finish writes `cancelled` only over a row without evidence.
LEMMA FinishSole ==
  ASSUME DInv, NEW r \in Requests, SoleInv(r), ~Rivals(r), NEW w \in Workers, Owning(w),
         NEW k, NEW status \in Terminal, Finish(slot[w].request, k, status),
         Moved(w, "notifying", status), observable' = observable,
         status = "cancelled" => slot[w].request # r \/ r \notin observable
  PROVE  SoleInv(r)'
<1>1. Lands(w, {"notifying"})
  BY MovedLands
<1>2. slot'[w].request = r => RunStarted(w)' /\ NothingSeen(w)'
  BY DEF Moved, RunStarted, NothingSeen
<1>3. /\ requests[r] \in Request /\ requests \in [Requests -> Request] /\ slot[w].request \in Requests
      /\ runs' = runs
      /\ requests' = [requests EXCEPT ![slot[w].request] = Unclaimed(WithStatus(@, status))]
  BY DEF DInv, IInv, TypeOK, SlotOwns, Finish
<1>4. CASE slot[w].request = r
  <2>1. requests'[r] = Unclaimed(WithStatus(requests[r], status))
    BY <1>3, <1>4
  <2>2. requests'[r].status = status
    BY <1>3, <2>1 DEF Unclaimed, WithStatus, Request
  <2>3. EvidenceStands(r)'
    BY <1>3, <1>4, <2>2 DEF EvidenceStands, SoleInv
  <2>4. ASSUME NEW v \in Workers, slot'[v].request = r, v # w
        PROVE  RunStarted(v)' /\ NothingSeen(v)'
    <3>1. slot'[v] = slot[v] /\ ~Owning(v)
      BY <1>1, <1>4, <2>4 DEF Lands, Rivals
    <3> QED
      BY <3>1 DEF RunStarted, NothingSeen, Owning, Unowned
  <2> QED
    BY <1>2, <2>3, <2>4 DEF SoleInv
<1>5. CASE slot[w].request # r
  <2>1. requests'[r] = requests[r] /\ runs'[r] = runs[r]
    BY <1>3, <1>5
  <2>2. slot'[w].request = slot[w].request
    BY DEF Moved
  <2>3. ASSUME NEW v \in Workers, slot'[v].request = r
        PROVE  RunStarted(v)' /\ NothingSeen(v)'
    <3>1. v # w /\ slot'[v] = slot[v]
      BY <1>1, <1>5, <2>2, <2>3 DEF Lands
    <3>2. slot[v].request = r /\ RunStarted(v) /\ NothingSeen(v)
      BY <2>3, <3>1 DEF SoleInv
    <3> QED
      BY <2>1, <3>1, <3>2 DEF RunStarted, NothingSeen
  <2> QED
    BY <2>1, <2>3 DEF SoleInv, EvidenceStands
<1> QED
  BY <1>4, <1>5

LEMMA FinishingSole ==
  ASSUME DInv, NEW r \in Requests, SoleInv(r), ~Rivals(r), NEW w \in Workers,
         FinishRun(w) \/ FailRun(w) \/ FinishInterruption(w)
  PROVE  SoleInv(r)'
<1>1. Owning(w) /\ observable' = observable
  BY DEF FinishRun, FailRun, FinishInterruption, Owning, Unowned
<1>2. "failed" \in Terminal /\ "failed" \in Verdicts /\ "notifying" \in PCs
  BY DEF Terminal, Verdicts, PCs
<1>3. \/ \E k : \E status \in Terminal :
           /\ Finish(slot[w].request, k, status) /\ Moved(w, "notifying", status)
           /\ status = "cancelled" => slot[w].request # r \/ r \notin observable
      \/ UNCHANGED storeVars /\ (Goto(w, "raised") \/ Return(w))
  <2>1. CASE FinishRun(w)
    <3>1. slot[w].verdict \in Terminal \ {"cancelled"}
      BY <2>1 DEF FinishRun, DInv, SlotVerdict
    <3> QED
      BY <1>2, <2>1, <3>1, GotoMoved DEF FinishRun
  <2>2. CASE FailRun(w)
    BY <1>2, <2>2, VerdictMoved DEF FailRun
  <2>3. CASE FinishInterruption(w)
    <3>1. /\ slot[w].verdict \in Terminal
          /\ slot[w].verdict = "cancelled" => slot[w].request # r \/ r \notin observable
      BY <2>3 DEF FinishInterruption, DInv, SlotVerdict, SoleInv, NothingSeen
    <3> QED
      BY <1>2, <2>3, <3>1, GotoMoved DEF FinishInterruption
  <2> QED
    BY <2>1, <2>2, <2>3
<1>4. CASE UNCHANGED storeVars /\ (Goto(w, "raised") \/ Return(w))
  <2>1. PICK pc \in Quits : Lands(w, {pc})
    BY <1>1, <1>4, HandlerLands
  <2>2. Unerased
    BY <1>4, SameUnerased DEF storeVars
  <2>3. Works(w)
    BY <1>1, <2>1 DEF Lands, Works
  <2> QED
    BY <2>1, <2>2, <2>3, QuitsSole
<1> QED
  BY <1>1, <1>3, <1>4, FinishSole

\* The run and its parked tool.
LEMMA ToolSole ==
  ASSUME DInv, NEW r \in Requests, SoleInv(r), ~Rivals(r), NEW w \in Workers,
         \/ WorkObservably(w) \/ ToolDecided(w) \/ ToolResume(w) \/ ToolAbort(w)
         \/ ToolConsume(w) \/ ToolDispatch(w)
         \/ \E a \in Approvals, effect \in Effects : ToolPark(w, a, effect)
  PROVE  SoleInv(r)'
<1>1. /\ slot' = slot /\ slot[w].pc = "running"
      /\ \A q \in observable' \ observable : q = slot[w].request
  BY DEF WorkObservably, ToolDecided, ToolResume, ToolAbort, ToolConsume, ToolDispatch, ToolPark
<1>2. IInv /\ slot[w].request \in Requests
  BY <1>1 DEF DInv, SlotOwns, Owning, Unowned
<1>3. tool[w].state # "none" => tool[w].approval \in Approvals
  BY DEF DInv, ToolOwns
<1>4. Unerased
  <2>1. CASE WorkObservably(w) \/ ToolDecided(w) \/ ToolDispatch(w)
    BY <2>1, SameUnerased DEF WorkObservably, ToolDecided, ToolDispatch, storeVars
  <2>2. CASE ToolResume(w) \/ ToolAbort(w) \/ ToolConsume(w)
    BY <1>2, <1>3, <2>2, OwnerUnerased, SameUnerased
       DEF ToolResume, ToolAbort, ToolConsume, Abandon, storeVars
  <2>3. CASE \E a \in Approvals, effect \in Effects : ToolPark(w, a, effect)
    BY <1>2, <2>3, RunUnerased DEF ToolPark
  <2> QED
    BY <2>1, <2>2, <2>3
<1> QED
  BY <1>1, <1>4, RunningSole

\* A crash ends the only work there was.
LEMMA CrashSole ==
  ASSUME DInv, NEW r \in Requests, SoleInv(r), ~Rivals(r), NEW w \in Workers, Crash(w)
  PROVE  SoleInv(r)'
<1>1. Lands(w, {"idle"}) /\ "idle" \in Quits
  BY ReturnLands DEF Crash, Quits, PCs
<1>2. Unerased /\ observable' = observable
  BY SameUnerased DEF Crash
<1>3. Works(w)
  BY <1>1, <1>2 DEF Lands, Works
<1> QED
  BY <1>1, <1>2, <1>3, QuitsSole

\* Users and maintenance neither erase evidence nor cancel what was started.
LEMMA UsersSole ==
  ASSUME DInv, NEW r \in Requests, SoleInv(r),
         \/ StoreStep
         \/ \E q \in Requests : UserCancel(q)
         \/ \E a \in Approvals, status \in {"succeeded", "failed"} : UserAttest(a, status)
  PROVE  SoleInv(r)'
<1>1. UNCHANGED <<slot, observable>> /\ IInv
  BY DEF StoreStep, UserCancel, UserAttest, dispatchVars, DInv
<1>2. Unerased
  BY <1>1, UsersUnerased
<1>3. EvidenceStands(r)'
  BY <1>1, <1>2 DEF EvidenceStands, SoleInv, Unerased
<1>4. ASSUME NEW w \in Workers, slot[w].request = r PROVE RunStarted(w)' /\ NothingSeen(w)'
  BY <1>1, <1>2, <1>4 DEF SoleInv, RunStarted, NothingSeen, Unerased
<1> QED
  BY <1>1, <1>3, <1>4 DEF SoleInv

LEMMA SoleNext ==
  ASSUME DInv, NEW r \in Requests, SoleInv(r), ~Rivals(r), [DispatcherNext]_vars
  PROVE  SoleInv(r)'
<1>1. ASSUME NEW w \in Workers, Progress(w) PROVE SoleInv(r)'
  BY <1>1, PollSole, HandlingSole, StartingSole, LeaseSole, EvidenceSole, FinishingSole, ToolSole
     DEF Progress
<1>2. ASSUME NEW w \in Workers, Mishap(w) PROVE SoleInv(r)'
  BY <1>2, HandlingSole, ToolSole, CrashSole DEF Mishap
<1>3. CASE UNCHANGED vars
  BY <1>3 DEF vars, storeVars, dispatchVars, SoleInv, RunStarted, NothingSeen, EvidenceStands
<1> QED
  BY <1>1, <1>2, <1>3, UsersSole DEF DispatcherNext

LEMMA SoleInit == ASSUME DispatcherInit, NEW r \in Requests PROVE SoleInv(r)
  BY DEF DispatcherInit, SoleInv, RunStarted, NothingSeen, EvidenceStands, Idle

\* A request never becomes `cancelled` after observable work while no second slot works on
\* it, whatever the other workers and requests, crashes, interruptions, lapsed leases and
\* cancellations do: the handlers of _dispatch_one read the run's evidence before they write
\* `cancelled`, and only a rival's run could leave evidence between the two.
THEOREM CancelledWorkUnobservedWithoutRivals ==
  ASSUME NEW r \in Requests
  PROVE  DispatcherSpec /\ []~Rivals(r) => [](requests[r].status = "cancelled" => r \notin observable)
<1>1. DispatcherInit => SoleInv(r)
  BY SoleInit
<1>2. DInv /\ ~Rivals(r) /\ SoleInv(r) /\ [DispatcherNext]_vars => SoleInv(r)'
  BY SoleNext
<1>3. SoleInv(r) => (requests[r].status = "cancelled" => r \notin observable)
  BY DEF SoleInv, EvidenceStands
<1> QED
  BY <1>1, <1>2, <1>3, Inductive, PTL DEF DispatcherSpec

-------------------------------------------------------------------------------
(* A request that was claimed once has no rivals *)

\* Two slots on a request hold two of its claims, so its fence is beyond 1.
LEMMA OneClaimOneSlot ==
  ASSUME DInv, NEW r \in Requests, requests[r].status = "absent" \/ requests[r].claim_fence <= 1
  PROVE  ~Rivals(r)
<1> SUFFICES ASSUME NEW w \in Workers, NEW v \in Workers, w # v, Owning(w), Owning(v),
                    slot[w].request = r, slot[v].request = r
             PROVE  FALSE
  BY DEF Rivals
<1>1. /\ requests[r].status # "absent"
      /\ slot[w].fence # 0 /\ slot[w].fence <= requests[r].claim_fence
      /\ slot[v].fence # 0 /\ slot[v].fence <= requests[r].claim_fence
  BY DEF DInv, SlotOwns
<1>2. slot[w].fence \in Nat /\ slot[v].fence \in Nat /\ requests[r].claim_fence \in Nat
  BY DEF DInv, DispatcherTypes, SlotRow, IInv, TypeOK, Request
<1>3. slot[w].fence # slot[v].fence
  BY DEF DInv, SlotsDiffer
<1> QED
  BY <1>1, <1>2, <1>3

\* An absent request will appear with a fence of its own or its parent's.
OneClaimSole ==
  \A r \in Requests : requests[r].status = "absent" \/ requests[r].claim_fence <= 1 => SoleInv(r)

LEMMA OneClaimNext == ASSUME DInv, OneClaimSole, [DispatcherNext]_vars PROVE OneClaimSole'
<1> SUFFICES ASSUME NEW r \in Requests, requests'[r].status = "absent" \/ requests'[r].claim_fence <= 1
             PROVE  SoleInv(r)'
  BY DEF OneClaimSole
<1>1. IInv' /\ RowsMove
  BY InvariantSteers, DispatcherServes, RowsKeep
<1>2. requests[r].claim_fence \in Nat /\ requests'[r].claim_fence \in Nat
  BY <1>1 DEF DInv, IInv, TypeOK, Request
<1>3. requests[r].status = "absent" \/ requests[r].claim_fence <= 1
  BY <1>1, <1>2 DEF RowsMove, Evolves
<1> QED
  BY <1>3, OneClaimOneSlot, SoleNext DEF OneClaimSole

\* A request whose fence still is the first one is never `cancelled` after observable work,
\* for any number of workers: a slot of _dispatch_one that settles an interruption reads the
\* evidence of a run that only it could have continued.
THEOREM OneClaimCancelsCleanly == DispatcherSpec => []CancelledAfterOneClaim
<1>1. DispatcherInit => OneClaimSole
  BY SoleInit DEF OneClaimSole
<1>2. DInv /\ OneClaimSole /\ [DispatcherNext]_vars => OneClaimSole'
  BY OneClaimNext
<1>3. DInv /\ OneClaimSole => CancelledAfterOneClaim
  <2> SUFFICES ASSUME DInv, OneClaimSole, NEW r \in Requests, requests[r].status = "cancelled",
                      r \in observable, ~(requests[r].claim_fence > 1)
               PROVE  FALSE
    BY DEF CancelledAfterOneClaim
  <2>1. requests[r].claim_fence \in Nat
    BY DEF DInv, IInv, TypeOK, Request
  <2> QED
    BY <2>1 DEF OneClaimSole, SoleInv, EvidenceStands
<1> QED
  BY <1>1, <1>2, <1>3, Inductive, PTL DEF DispatcherSpec

\* Workers, crashes, users and maintenance together keep what the store promises about one
\* piece of work: it is announced before it is ready, begins at most once and is never put
\* back.  OnceOnlyWork is thereby implemented by the dispatcher over the store.
THEOREM DispatchedWorkIsOnceOnly == DispatcherSpec => ImplementsWork
  BY DispatcherUsesStore, WorkIsOnceOnly


-------------------------------------------------------------------------------
(* Beside retention: what the workers know whoever deletes rows *)

LEMMA RowSteers ==
  ASSUME SlotsSteered, NEW w \in Workers, NEW row \in SlotRow, Steered(row),
         slot' = [slot EXCEPT ![w] = row]
  PROVE  SlotsSteered'
  BY DEF SlotsSteered

\* A slot goes on under its claim, or to where it needs none.
LEMMA AimSteers ==
  ASSUME SlotsSteered, NEW w \in Workers, NEW pc \in PCs, NEW held \in Nat, NEW verdict \in Verdicts,
         pc \in Unowned \/ Owning(w),
         pc = "stopping" => verdict \in Handlers,
         pc \in Concluding => verdict \in Terminal,
         slot' = [slot EXCEPT ![w] = [slot[w] EXCEPT !.pc = pc, !.held = held, !.verdict = verdict]]
  PROVE  SlotsSteered'
<1> DEFINE x == slot[w]
           y == slot'[w]
<1>1. slot \in [Workers -> SlotRow] /\ (pc \notin Unowned => slot[w].request \in Requests)
  BY DEF SlotsSteered, Steered, Owning
<1>2. /\ x \in SlotRow /\ (pc \notin Unowned => x.request \in Requests)
      /\ y = [x EXCEPT !.pc = pc, !.held = held, !.verdict = verdict]
      /\ slot' = [slot EXCEPT ![w] = y]
  BY <1>1
<1> HIDE DEF x, y
<1>3. y = [pc |-> pc, request |-> x.request, fence |-> x.fence, held |-> held, verdict |-> verdict]
  BY <1>2 DEF SlotRow
<1>4. x.request \in Requests \cup {None} /\ x.fence \in Nat
  BY <1>2 DEF SlotRow
<1>5. y \in SlotRow
  BY <1>3, <1>4 DEF SlotRow
<1>6. Steered(y)
  BY <1>2, <1>3 DEF Steered
<1> QED
  BY <1>2, <1>5, <1>6, RowSteers

LEMMA GotoSteers ==
  ASSUME SlotsSteered, NEW w \in Workers, NEW pc \in PCs, Goto(w, pc), pc \in Unowned \/ Owning(w),
         pc = "stopping" => slot[w].verdict \in Handlers,
         pc \in Concluding => slot[w].verdict \in Terminal
  PROVE  SlotsSteered'
<1>1. slot \in [Workers -> SlotRow] /\ slot[w].held \in Nat /\ slot[w].verdict \in Verdicts
  BY DEF SlotsSteered, SlotRow
<1>2. slot' = [slot EXCEPT ![w] =
                 [slot[w] EXCEPT !.pc = pc, !.held = slot[w].held, !.verdict = slot[w].verdict]]
  BY <1>1 DEF Goto, SlotRow
<1> QED
  BY <1>1, <1>2, AimSteers

LEMMA VerdictSteers ==
  ASSUME SlotsSteered, NEW w \in Workers, NEW pc \in PCs, NEW verdict \in Verdicts,
         slot' = [slot EXCEPT ![w].pc = pc, ![w].verdict = verdict], Owning(w),
         pc = "stopping" => verdict \in Handlers,
         pc \in Concluding => verdict \in Terminal
  PROVE  SlotsSteered'
<1>1. slot \in [Workers -> SlotRow] /\ slot[w].held \in Nat
  BY DEF SlotsSteered, SlotRow
<1>2. slot' = [slot EXCEPT ![w] =
                 [slot[w] EXCEPT !.pc = pc, !.held = slot[w].held, !.verdict = verdict]]
  BY <1>1 DEF SlotRow
<1> QED
  BY <1>1, <1>2, AimSteers

LEMMA SettleSteers ==
  ASSUME IInv, SlotsSteered, NEW w \in Workers, NEW clean \in Terminal, Settle(w, clean), Owning(w)
  PROVE  SlotsSteered'
<1>1. slot \in [Workers -> SlotRow] /\ Mine(w).claim_fence \in Nat
  BY DEF SlotsSteered, Steered, Owning, IInv, TypeOK, Request, Mine
<1>2. slot' = [slot EXCEPT ![w] =
                 [slot[w] EXCEPT !.pc = "evidence", !.held = Mine(w).claim_fence, !.verdict = clean]]
  BY <1>1 DEF Settle, SlotRow
<1> QED
  BY <1>1, <1>2, AimSteers DEF PCs, Verdicts

LEMMA ReturnSteers ==
  ASSUME SlotsSteered, NEW w \in Workers, Return(w)
  PROVE  SlotsSteered'
<1>1. Idle \in SlotRow /\ Steered(Idle)
  BY DEF Idle, SlotRow, PCs, Verdicts, Steered, Unowned, Concluding
<1> QED
  BY <1>1, RowSteers DEF Return

LEMMA PollSteers ==
  ASSUME Steering, IInv', NEW w \in Workers,
         \/ WorkerRecover(w) \/ ProjectNotifications(w) \/ WorkerClaimRecover(w) \/ WorkerClaim(w)
         \/ Notify(w) \/ NotifyRaises(w) \/ Crash(w)
  PROVE  SlotsSteered'
<1>1. SlotsSteered
  BY DEF Steering
<1>2. CASE WorkerRecover(w) \/ ProjectNotifications(w)
  <2>1. \E pc \in {"projecting", "claiming"} : Goto(w, pc)
    BY <1>2 DEF WorkerRecover, ProjectNotifications
  <2> QED
    BY <1>1, <2>1, GotoSteers DEF PCs, Unowned, Concluding
<1>3. CASE WorkerClaimRecover(w)
  BY <1>1, <1>3 DEF WorkerClaimRecover, dispatchVars, SlotsSteered
<1>4. CASE WorkerClaim(w)
  <2>1. PICK row : ClaimedSlot(w, row)
    BY <1>4, SlotClaimed
  <2>2. CASE row = Idle
    BY <1>1, <2>1, <2>2, ReturnSteers DEF ClaimedSlot, Return
  <2>3. CASE row # Idle
    <3>1. PICK r \in Requests :
            row = [Idle EXCEPT !.pc = "claimed", !.request = r, !.fence = requests'[r].claim_fence]
      BY <2>1, <2>3 DEF ClaimedSlot
    <3>2. requests'[r].claim_fence \in Nat
      BY DEF IInv, TypeOK, Request
    <3>3. row = [pc |-> "claimed", request |-> r, fence |-> requests'[r].claim_fence, held |-> 0,
                 verdict |-> "none"]
      BY <3>1 DEF Idle
    <3>4. row \in SlotRow /\ Steered(row)
      BY <3>2, <3>3 DEF SlotRow, PCs, Verdicts, Steered, Concluding
    <3> QED
      BY <1>1, <2>1, <3>4, RowSteers DEF ClaimedSlot
  <2> QED
    BY <2>2, <2>3
<1>5. CASE Notify(w) \/ NotifyRaises(w) \/ Crash(w)
  BY <1>1, <1>5, ReturnSteers DEF Notify, NotifyRaises, Crash
<1> QED
  BY <1>2, <1>3, <1>4, <1>5

LEMMA RunSteers ==
  ASSUME Steering, NEW w \in Workers,
         \/ StartRun(w) \/ DispatchRaises(w) \/ Heartbeat(w) \/ HeartbeatFails(w) \/ Interrupt(w)
         \/ RunRaises(w) \/ StopRun(w) \/ \E outcome \in Outcomes : RunEnds(w, outcome)
  PROVE  SlotsSteered'
<1>1. SlotsSteered /\ Owning(w)
  BY DEF Steering, StartRun, DispatchRaises, Heartbeat, HeartbeatFails, Interrupt, RunRaises, StopRun,
     RunEnds, Owning, Unowned
<1>2. CASE StartRun(w) \/ DispatchRaises(w) \/ RunRaises(w)
  <2>1. \E pc \in {"running", "raised"} : Goto(w, pc)
    BY <1>2 DEF StartRun, DispatchRaises, RunRaises
  <2> QED
    BY <1>1, <2>1, GotoSteers DEF PCs, Concluding
<1>3. CASE Heartbeat(w) \/ HeartbeatFails(w)
  <2>1. \/ slot' = slot
        \/ \E verdict \in {"cancelling", "lost"} :
             slot' = [slot EXCEPT ![w].pc = "stopping", ![w].verdict = verdict]
    BY <1>3 DEF Heartbeat, HeartbeatFails
  <2>2. ASSUME NEW verdict \in {"cancelling", "lost"},
               slot' = [slot EXCEPT ![w].pc = "stopping", ![w].verdict = verdict]
        PROVE  SlotsSteered'
    BY <1>1, <2>2, VerdictSteers DEF PCs, Verdicts, Handlers, Concluding
  <2> QED
    BY <1>1, <2>1, <2>2 DEF SlotsSteered
<1>4. CASE Interrupt(w)
  <2>1. \E pc \in {"stopping", "interrupted"} :
          slot' = [slot EXCEPT ![w].pc = pc, ![w].verdict = "interrupted"]
    BY <1>1, <1>4 DEF Interrupt, SlotsSteered
  <2>2. ASSUME NEW pc \in {"stopping", "interrupted"},
               slot' = [slot EXCEPT ![w].pc = pc, ![w].verdict = "interrupted"]
        PROVE  SlotsSteered'
    BY <1>1, <2>2, VerdictSteers DEF PCs, Verdicts, Handlers, Concluding
  <2> QED
    BY <2>1, <2>2
<1>5. CASE StopRun(w)
  <2>1. slot[w].verdict \in Handlers /\ Goto(w, slot[w].verdict)
    BY <1>1, <1>5 DEF StopRun, SlotsSteered, Steered
  <2> QED
    BY <1>1, <2>1, GotoSteers DEF PCs, Handlers, Concluding
<1>6. ASSUME NEW outcome \in Outcomes, RunEnds(w, outcome) PROVE SlotsSteered'
  <2> DEFINE verdict == IF outcome = "interrupted" THEN "uncertain" ELSE outcome
  <2>1. verdict \in Terminal
    BY DEF Outcomes, Terminal
  <2>2. slot' = [slot EXCEPT ![w].pc = "ended", ![w].verdict = verdict]
    BY <1>6 DEF RunEnds
  <2> HIDE DEF verdict
  <2> QED
    BY <1>1, <2>1, <2>2, VerdictSteers DEF PCs, Verdicts
<1> QED
  BY <1>2, <1>3, <1>4, <1>5, <1>6

LEMMA HandlersSteer ==
  ASSUME Steering, NEW w \in Workers,
         \/ HandleEnded(w) \/ FinishRun(w) \/ HandleCancelling(w) \/ HandleLost(w) \/ HandleInterrupted(w)
         \/ HandleRaised(w) \/ FailRun(w) \/ ReadEvidence(w) \/ FinishInterruption(w)
  PROVE  SlotsSteered'
<1>1. IInv /\ SlotsSteered /\ Owning(w)
  BY DEF Steering, HandleEnded, FinishRun, HandleCancelling, HandleLost, HandleInterrupted, HandleRaised,
     FailRun, ReadEvidence, FinishInterruption, Owning, Unowned
<1>2. ASSUME NEW clean \in {"cancelled", "failed"}, Settle(w, clean) PROVE SlotsSteered'
  BY <1>1, <1>2, SettleSteers DEF Terminal
<1>3. ASSUME NEW pc \in {"notifying", "raised", "failing"}, Goto(w, pc) PROVE SlotsSteered'
  BY <1>1, <1>3, GotoSteers DEF PCs, Concluding
<1>4. CASE HandleEnded(w)
  <2>1. slot[w].verdict \in Terminal
    BY <1>1, <1>4 DEF HandleEnded, SlotsSteered, Steered, Concluding
  <2>2. CASE Goto(w, "finishing")
    BY <1>1, <2>1, <2>2, GotoSteers DEF PCs
  <2> QED
    BY <1>1, <1>2, <1>4, <2>2, ReturnSteers DEF HandleEnded
<1>5. CASE HandleCancelling(w) \/ HandleLost(w) \/ HandleInterrupted(w)
  BY <1>1, <1>2, <1>5, ReturnSteers DEF HandleCancelling, HandleLost, HandleInterrupted
<1>6. CASE FinishRun(w) \/ FinishInterruption(w)
  BY <1>1, <1>3, <1>6, ReturnSteers DEF FinishRun, FinishInterruption
<1>7. CASE HandleRaised(w)
  BY <1>1, <1>2, <1>3, <1>7, ReturnSteers DEF HandleRaised, Goto
<1>8. CASE FailRun(w)
  <2>1. CASE slot' = [slot EXCEPT ![w].pc = "notifying", ![w].verdict = "failed"]
    BY <1>1, <2>1, VerdictSteers DEF PCs, Verdicts, Terminal, Concluding
  <2> QED
    BY <1>1, <1>8, <2>1, ReturnSteers DEF FailRun
<1>9. CASE ReadEvidence(w)
  <2>1. slot[w].verdict \in Terminal /\ slot \in [Workers -> SlotRow]
    BY <1>1, <1>9 DEF ReadEvidence, SlotsSteered, Steered, Concluding
  <2>2. \E verdict \in {"uncertain", slot[w].verdict} :
          slot' = [slot EXCEPT ![w].pc = "settling", ![w].verdict = verdict]
    BY <1>9, <2>1 DEF ReadEvidence, SlotRow
  <2>3. ASSUME NEW verdict \in Terminal,
               slot' = [slot EXCEPT ![w].pc = "settling", ![w].verdict = verdict]
        PROVE  SlotsSteered'
    BY <1>1, <2>3, VerdictSteers DEF PCs, Verdicts
  <2> QED
    BY <2>1, <2>2, <2>3 DEF Terminal
<1> QED
  BY <1>4, <1>5, <1>6, <1>7, <1>8, <1>9


LEMMA ToolSteers ==
  ASSUME ToolsSteered, NEW w \in Workers, NEW row \in ToolRow,
         row.state # "none" => row.approval \in Approvals,
         tool' = [tool EXCEPT ![w] = row]
  PROVE  ToolsSteered'
  BY DEF ToolsSteered

LEMMA NoToolSteers ==
  ASSUME ToolsSteered, NEW w \in Workers, tool' = [tool EXCEPT ![w] = NoTool]
  PROVE  ToolsSteered'
  BY NoToolRow, ToolSteers

\* A tool goes on with its approval.
LEMMA ToolGoesOn ==
  ASSUME ToolsSteered, NEW w \in Workers, NEW state \in {"approved", "refused", "consumed"},
         tool[w].state # "none",
         tool' = [tool EXCEPT ![w] = [tool[w] EXCEPT !.state = state]]
  PROVE  ToolsSteered'
<1> DEFINE x == tool[w]
           y == [state |-> state, approval |-> x.approval]
<1>1. x \in ToolRow /\ x.approval \in Approvals
  BY DEF ToolsSteered
<1>2. [x EXCEPT !.state = state] = y
  BY <1>1 DEF ToolRow
<1>3. y \in ToolRow /\ (y.state # "none" => y.approval \in Approvals)
  BY <1>1 DEF ToolRow
<1> QED
  BY <1>2, <1>3, ToolSteers

\* The steps of the browser tool.
LEMMA ToolsSteer ==
  ASSUME Steering, NEW w \in Workers,
         \/ ToolDecided(w) \/ ToolResume(w) \/ ToolAbort(w) \/ ToolConsume(w) \/ ToolDispatch(w)
         \/ StopRun(w) \/ Crash(w)
         \/ \E a \in Approvals, effect \in Effects : ToolPark(w, a, effect)
  PROVE  ToolsSteered'
<1>1. ToolsSteered
  BY DEF Steering
<1>2. tool[w] = [tool[w] EXCEPT !.state = tool[w].state]
  BY <1>1 DEF ToolsSteered, ToolRow
<1>3. CASE ToolResume(w) \/ ToolAbort(w) \/ ToolDispatch(w) \/ StopRun(w) \/ Crash(w)
  BY <1>1, <1>3, NoToolSteers DEF ToolResume, ToolAbort, ToolDispatch, StopRun, Crash
<1>4. CASE ToolDecided(w)
  <2>1. \/ tool' = [tool EXCEPT ![w] = NoTool]
        \/ \E state \in {"approved", "refused"} : tool' = [tool EXCEPT ![w] = [tool[w] EXCEPT !.state = state]]
    BY <1>1, <1>4 DEF ToolDecided, ToolsSteered
  <2>2. tool[w].state # "none"
    BY <1>4 DEF ToolDecided
  <2> QED
    BY <1>1, <2>1, <2>2, NoToolSteers, ToolGoesOn
<1>5. CASE ToolConsume(w)
  <2>1. \/ tool' = [tool EXCEPT ![w] = NoTool]
        \/ tool' = [tool EXCEPT ![w] = [tool[w] EXCEPT !.state = "consumed"]]
    BY <1>1, <1>5 DEF ToolConsume, ToolsSteered
  <2>2. tool[w].state # "none"
    BY <1>5 DEF ToolConsume
  <2> QED
    BY <1>1, <2>1, <2>2, NoToolSteers, ToolGoesOn
<1>6. ASSUME NEW a \in Approvals, NEW effect \in Effects, ToolPark(w, a, effect) PROVE ToolsSteered'
  BY <1>1, <1>6, ToolSteers DEF ToolPark, ToolRow
<1> QED
  BY <1>3, <1>4, <1>5, <1>6

\* What is steered stays steered, whatever users, workers and maintenance do.
LEMMA SteeringNext == ASSUME Steering, [DispatcherNext]_vars PROVE Steering'
<1>1. IInv /\ FencesBounded /\ SlotsSteered /\ ToolsSteered
  BY DEF Steering
<1>2. Serve \/ UNCHANGED storeVars
  BY DispatcherServes
<1>3. IInv'
  BY <1>1, <1>2, InvNext DEF Serve, Next
<1>4. RowsMove
  BY <1>1, <1>2, ServeMoves, NoneMoves DEF storeVars
<1>5. FencesBounded'
  BY <1>1, <1>4, FencesKeep
<1>6. CASE UNCHANGED <<slot, tool>>
  BY <1>1, <1>3, <1>5, <1>6 DEF Steering, SlotsSteered, ToolsSteered
<1>7. CASE StoreStep \/ (\E r \in Requests : UserCancel(r))
           \/ (\E a \in Approvals, status \in {"succeeded", "failed"} : UserAttest(a, status))
  <2>1. UNCHANGED <<slot, tool>>
    BY <1>7 DEF StoreStep, UserCancel, UserAttest, dispatchVars
  <2> QED
    BY <1>6, <2>1
<1>8. ASSUME NEW w \in Workers, Progress(w) \/ Mishap(w) PROVE SlotsSteered'
  <2>1. CASE slot' = slot
    BY <1>1, <2>1 DEF SlotsSteered
  <2>2. CASE \/ ToolDecided(w) \/ ToolResume(w) \/ ToolAbort(w) \/ ToolConsume(w) \/ ToolDispatch(w)
             \/ WorkObservably(w) \/ \E a \in Approvals, effect \in Effects : ToolPark(w, a, effect)
    BY <2>1, <2>2 DEF ToolDecided, ToolResume, ToolAbort, ToolConsume, ToolDispatch, WorkObservably, ToolPark
  <2> QED
    BY <1>3, <1>8, <2>2, PollSteers, RunSteers, HandlersSteer DEF Progress, Mishap
<1>9. ASSUME NEW w \in Workers, Progress(w) \/ Mishap(w) PROVE ToolsSteered'
  <2>1. CASE tool' = tool
    BY <1>1, <2>1 DEF ToolsSteered
  <2>2. CASE \/ WorkerRecover(w) \/ ProjectNotifications(w) \/ WorkerClaimRecover(w) \/ WorkerClaim(w)
             \/ StartRun(w) \/ Heartbeat(w) \/ (\E outcome \in Outcomes : RunEnds(w, outcome))
             \/ HandleEnded(w) \/ FinishRun(w) \/ HandleCancelling(w) \/ HandleLost(w)
             \/ HandleInterrupted(w) \/ HandleRaised(w) \/ FailRun(w)
             \/ ReadEvidence(w) \/ FinishInterruption(w) \/ Notify(w)
    <3>1. tool' = tool
      BY <2>2 DEF WorkerRecover, ProjectNotifications, WorkerClaimRecover, WorkerClaim, StartRun,
         Heartbeat, RunEnds, HandleEnded, FinishRun, HandleCancelling, HandleLost, HandleInterrupted,
         HandleRaised, FailRun, ReadEvidence, FinishInterruption, Notify, dispatchVars
    <3> QED
      BY <2>1, <3>1
  <2>3. CASE DispatchRaises(w) \/ RunRaises(w) \/ HeartbeatFails(w) \/ NotifyRaises(w) \/ Interrupt(w)
             \/ WorkObservably(w)
    BY <2>1, <2>3 DEF DispatchRaises, RunRaises, HeartbeatFails, NotifyRaises, Interrupt, WorkObservably
  <2> QED
    BY <1>9, <2>2, <2>3, ToolsSteer DEF Progress, Mishap
<1>10. CASE UNCHANGED vars
  BY <1>6, <1>10 DEF vars, dispatchVars
<1> QED
  BY <1>3, <1>5, <1>7, <1>8, <1>9, <1>10 DEF DispatcherNext, Steering


\* What apply() plans to delete is finished, and stays so until it is deleted: the check
\* _prune_requests repeats under its lock finds every planned row.
PlanFinished ==
  pass.stage = "executions" =>
    \A r \in pass.plan : r \in Requests /\ requests[r].status \in {"succeeded", "cancelled"}

RetentionInv == Steering /\ PlanFinished

LEMMA PruneSteers ==
  ASSUME Steering, NEW S \in SUBSET Requests, Prune(S), UNCHANGED dispatchVars
  PROVE  Steering'
<1>1. IInv /\ FencesBounded /\ SlotsSteered /\ ToolsSteered
  BY DEF Steering
<1>2. IInv'
  BY <1>1, PruneInv
<1>3. FencesBounded'
  <2> SUFFICES ASSUME NEW r \in Requests PROVE requests'[r].claim_fence <= MaxFence
    BY DEF FencesBounded
  <2>1. WithStatus(NoRequest, "pruned").claim_fence = 0
    BY DEF WithStatus, NoRequest
  <2> QED
    BY <1>1, <2>1, TimeAssumption DEF FencesBounded, Prune
<1> QED
  BY <1>1, <1>2, <1>3 DEF Steering, SlotsSteered, ToolsSteered, dispatchVars

LEMMA PlanPrunes ==
  ASSUME RetentionInv, PruneExecutions
  PROVE  /\ UNCHANGED storeVars \/ \E S \in SUBSET Requests : Prune(S)
         /\ UNCHANGED dispatchVars /\ pass'.stage # "executions"
<1> DEFINE S == {r \in pass.plan : requests[r].status \in {"succeeded", "cancelled"}}
<1>1. S \in SUBSET Requests
  BY DEF RetentionInv, PlanFinished, PruneExecutions
<1>2. UNCHANGED storeVars \/ Prune(S)
  BY DEF PruneExecutions
<1>3. pass'.stage # "executions"
  <2>1. CASE pass' = [pass EXCEPT !.stage = "notifications", !.plan = {}]
    BY <2>1 DEF PruneExecutions
  <2> QED
    BY <2>1 DEF PruneExecutions, NoPass
<1> QED
  BY <1>1, <1>2, <1>3 DEF PruneExecutions

LEMMA RetentionStep ==
  ASSUME RetentionInv, [RetentionNext]_allVars
  PROVE  RetentionInv' /\ [Next]_storeVars
<1>1. Steering /\ PlanFinished
  BY DEF RetentionInv
<1>2. CASE [DispatcherNext]_vars /\ UNCHANGED pass
  <2>1. Steering' /\ (Serve \/ UNCHANGED storeVars)
    BY <1>1, <1>2, SteeringNext, DispatcherServes
  <2>2. RowsMove
    BY <1>1, <2>1, ServeMoves, NoneMoves DEF Steering, storeVars
  <2>3. PlanFinished'
    BY <1>1, <1>2, <2>2 DEF PlanFinished, RowsMove, Evolves, Settled, Terminal
  <2> QED
    BY <2>1, <2>3 DEF RetentionInv, Serve, Next
<1>3. CASE ReadHandoffs \/ PruneNotifications
  <2>1. UNCHANGED <<storeVars, slot, tool>> /\ pass'.stage # "executions"
    <3>1. CASE ReadHandoffs
      <4>1. UNCHANGED vars /\ \E cutoff, handoffs :
              pass' = [NoPass EXCEPT !.stage = "handoffs", !.cutoff = cutoff, !.handoffs = handoffs]
        BY <3>1, Zenon DEF ReadHandoffs
      <4> QED
        BY <4>1 DEF NoPass, vars, dispatchVars
    <3>2. CASE PruneNotifications
      <4>1. UNCHANGED <<storeVars, slot, tool>> /\ pass' = NoPass
        BY <3>2, Zenon DEF PruneNotifications
      <4> QED
        BY <4>1 DEF NoPass
    <3> QED
      BY <1>3, <3>1, <3>2
  <2>2. IInv'
    BY <1>1, <2>1, InvNext DEF Steering
  <2>3. FencesBounded' /\ SlotsSteered' /\ ToolsSteered'
    BY <1>1, <2>1 DEF Steering, FencesBounded, SlotsSteered, ToolsSteered, storeVars
  <2> QED
    BY <2>1, <2>2, <2>3 DEF RetentionInv, PlanFinished, Steering
<1>4. CASE PlanExecutions
  <2>1. [DispatcherNext]_vars
    BY <1>4 DEF PlanExecutions
  <2>2. Steering'
    BY <1>1, <2>1, SteeringNext
  <2>3. \A r \in pass'.plan : r \in Requests /\ requests[r].status \in {"succeeded", "cancelled"}
    BY <1>4 DEF PlanExecutions, Prunable
  <2>4. PlanFinished'
    BY <1>4, <2>3 DEF PlanExecutions, PlanFinished, vars, storeVars
  <2> QED
    BY <1>4, <2>2, <2>4 DEF PlanExecutions, vars, RetentionInv
<1>5. CASE PruneExecutions
  <2>1. /\ UNCHANGED storeVars \/ \E S \in SUBSET Requests : Prune(S)
        /\ UNCHANGED dispatchVars /\ pass'.stage # "executions"
    BY <1>5, PlanPrunes
  <2>2. CASE UNCHANGED storeVars
    <3>1. Steering'
      BY <1>1, <2>1, <2>2, SteeringNext DEF vars
    <3> QED
      BY <2>1, <2>2, <3>1 DEF RetentionInv, PlanFinished
  <2>3. ASSUME NEW S \in SUBSET Requests, Prune(S) PROVE RetentionInv' /\ Next
    BY <1>1, <2>1, <2>3, PruneSteers DEF RetentionInv, PlanFinished, Next
  <2> QED
    BY <2>1, <2>2, <2>3
<1>6. CASE UNCHANGED allVars
  BY <1>2, <1>6 DEF allVars, retentionVars
<1> QED
  BY <1>2, <1>3, <1>4, <1>5, <1>6 DEF RetentionNext, Otherwise

LEMMA RetentionStarts == RetentionInit => RetentionInv /\ Init
<1>1. DispatcherInit => DInv
  BY DInvInit
<1> QED
  BY <1>1, InvariantSteers DEF RetentionInit, DispatcherInit, RetentionInv, PlanFinished, NoPass

LEMMA RetentionInvariant == RetentionSpec => []RetentionInv
<1>1. RetentionInit => RetentionInv
  BY RetentionStarts
<1>2. RetentionInv /\ [RetentionNext]_allVars => RetentionInv'
  BY RetentionStep
<1> QED
  BY <1>1, <1>2, PTL DEF RetentionSpec

\* Workers, users, maintenance and the pruning of gateway/retention.py together only take
\* steps of the execution store, whenever a pass deletes.
THEOREM RetentionUsesStore == RetentionSpec => Spec
<1>1. RetentionInit => Init
  BY RetentionStarts
<1>2. RetentionInv /\ [RetentionNext]_allVars => [Next]_storeVars
  BY RetentionStep
<1> QED
  BY <1>1, <1>2, RetentionInvariant, PTL DEF RetentionSpec, Spec

\* Deleting finished rows between the steps of the workers lets no work begin twice and no
\* retry run beside the attempt it repeats.
THEOREM RetainedWorkIsOnceOnly == RetentionSpec => ImplementsWork /\ []NoParallelAttempts
  BY RetentionUsesStore, WorkIsOnceOnly, RetryAfterEnd

\* Whatever happens between the plan of apply() and its transaction, _prune_requests finds
\* every planned request still finished: a plan is carried out whole or not at all.
THEOREM PlansStayFinished == RetentionSpec => []PlanFinished
<1>1. RetentionInv => PlanFinished
  BY DEF RetentionInv
<1> QED
  BY <1>1, RetentionInvariant, PTL

-------------------------------------------------------------------------------
(* Handoffs a pass spares *)

\* The steps of the store never set the clock back.
LEMMA ClockMoves == ASSUME IInv, Serve \/ UNCHANGED storeVars PROVE now <= now'
<1>1. now \in Nat
  BY DEF IInv, TypeOK
<1>2. CASE Tick
  BY <1>1, <1>2 DEF Tick
<1>3. ASSUME NEW r \in Requests, RequestOperation(r) PROVE now' = now
  BY <1>3 DEF RequestOperation, ClaimedOperation, Submit, AttachAcknowledgement, ReleaseAcknowledged, Start,
     Release, Renew, Finish, Cancel, Retry, Resolve, Park
<1>4. ASSUME NEW a \in Approvals, ApprovalOperation(a) PROVE now' = now
  BY <1>4 DEF ApprovalOperation, Decide, AttestTransaction, ResumeConsuming, ResumeUnconsumed, Invalidate
<1>5. CASE RecoverExpired \/ ExpireApprovals
           \/ \E w \in Workers : ClaimRecover(w) \/ ClaimQueued(w) \/ ClaimDropped(w)
  BY <1>1, <1>5 DEF RecoverExpired, ExpireApprovals, ClaimRecover, ClaimQueued, ClaimDropped
<1> QED
  BY <1>1, <1>2, <1>3, <1>4, <1>5 DEF Serve, storeVars

\* A handoff that a pass may delete without its acknowledgement: it was cancelled, and the
\* acknowledgement had lapsed at the cutoff.
AcknowledgementLapsed(r) ==
  requests[r].status = "cancelled" /\ requests[r].acknowledgement_expires_at <= pass.cutoff

\* What a pass read of the handoffs, before the other processes went on, still says which
\* handoffs it must spare.
HandoffsRead ==
  pass.stage \in {"handoffs", "executions"} =>
    /\ pass.cutoff \in Nat /\ pass.cutoff <= now
    /\ \A r \in PendingAcknowledgements :
         requests[r].created_at < pass.cutoff /\ r \notin pass.handoffs => AcknowledgementLapsed(r)
    /\ pass.stage = "executions" =>
         \A r \in pass.plan : requests[r].created_at < pass.cutoff /\ r \notin pass.handoffs

\* "Retention can only ever remove a record that is ... unreferenced by anything unresolved"
\* (gateway/retention.py): a handoff whose acknowledgement is not delivered is deleted only
\* when it was cancelled and the acknowledgement lapsed before the cutoff.
PendingHandoffsSpared ==
  [][\A r \in PendingAcknowledgements : requests'[r].status = "pruned"
       => AcknowledgementLapsed(r)]_allVars

\* The other processes make no handoff pending that the pass did not see.
LEMMA OthersSpare ==
  ASSUME RetentionInv, HandoffsRead, [DispatcherNext]_vars, UNCHANGED pass
  PROVE  HandoffsRead'
<1>1. IInv /\ (Serve \/ UNCHANGED storeVars)
  BY DispatcherServes DEF RetentionInv, Steering
<1>2. RowsMove /\ now <= now' /\ now \in Nat /\ now' \in Nat
  BY <1>1, ServeMoves, NoneMoves, ClockMoves, InvNext DEF storeVars, Serve, Next, IInv, TypeOK
<1> SUFFICES ASSUME pass.stage \in {"handoffs", "executions"}
             PROVE  /\ \A r \in PendingAcknowledgements' :
                         requests'[r].created_at < pass.cutoff /\ r \notin pass.handoffs => AcknowledgementLapsed(r)'
                    /\ pass.stage = "executions" =>
                         \A r \in pass.plan : requests'[r].created_at < pass.cutoff /\ r \notin pass.handoffs
  BY <1>2 DEF HandoffsRead
<1>3. pass.cutoff \in Nat /\ pass.cutoff <= now
  BY DEF HandoffsRead
<1>4. ASSUME NEW r \in PendingAcknowledgements', requests'[r].created_at < pass.cutoff, r \notin pass.handoffs
      PROVE  AcknowledgementLapsed(r)'
  <2>1. /\ r \in Requests /\ requests'[r].status \notin {"absent", "pruned"}
        /\ requests'[r].handoff_title /\ requests'[r].acknowledgement_delivered_at = Never
    BY <1>4 DEF PendingAcknowledgements, Stored
  <2>2. requests[r].status # "absent"
    BY <1>2, <1>3, <1>4, <2>1 DEF RowsMove, Appears
  <2>3. Evolves(requests[r], requests'[r], r \in resolved')
    BY <1>2, <2>1 DEF RowsMove
  <2>4. r \in PendingAcknowledgements
    BY <2>1, <2>2, <2>3 DEF Evolves, PendingAcknowledgements, Stored
  <2>5. AcknowledgementLapsed(r)
    BY <1>4, <2>2, <2>3, <2>4 DEF Evolves, HandoffsRead
  <2> QED
    BY <2>2, <2>3, <2>5 DEF Evolves, AcknowledgementLapsed, Settled, Terminal
<1>5. ASSUME pass.stage = "executions", NEW r \in pass.plan
      PROVE  requests'[r].created_at < pass.cutoff /\ r \notin pass.handoffs
  <2>1. r \in Requests /\ requests[r].status \in {"succeeded", "cancelled"}
    BY <1>5 DEF RetentionInv, PlanFinished
  <2> QED
    BY <1>2, <1>5, <2>1 DEF RowsMove, Evolves, HandoffsRead
<1> QED
  BY <1>4, <1>5

LEMMA ReadSpares ==
  ASSUME MinAge \in Nat, RetentionInv, ReadHandoffs
  PROVE  HandoffsRead'
<1>1. PICK gone \in SUBSET Outboxes :
        pass' = [NoPass EXCEPT !.stage = "handoffs", !.cutoff = now - MinAge,
                               !.handoffs = ProtectedHandoffs(now - MinAge, gone)]
  BY DEF ReadHandoffs
<1>2. /\ pass'.stage = "handoffs" /\ pass'.cutoff = now - MinAge
      /\ pass'.handoffs = ProtectedHandoffs(now - MinAge, gone)
  BY <1>1 DEF NoPass
<1>3. now \in Nat /\ now >= MinAge /\ requests' = requests /\ now' = now
  BY DEF ReadHandoffs, vars, storeVars, RetentionInv, Steering, IInv, TypeOK
<1>4. PendingAcknowledgements' = PendingAcknowledgements
  BY <1>3 DEF PendingAcknowledgements, Stored
<1>5. now - MinAge \in Nat /\ now - MinAge <= now
  BY <1>3
<1>6. ASSUME NEW r \in PendingAcknowledgements, r \notin ProtectedHandoffs(now - MinAge, gone)
      PROVE  AcknowledgementLapsed(r)'
  BY <1>2, <1>3, <1>6 DEF ProtectedHandoffs, PendingAcknowledgements, AcknowledgementLapsed
<1> QED
  BY <1>2, <1>3, <1>4, <1>5, <1>6 DEF HandoffsRead

LEMMA PlanSpares ==
  ASSUME HandoffsRead, PlanExecutions
  PROVE  HandoffsRead'
<1>1. PICK S \in Prunable(pass.cutoff) :
        pass' = [pass EXCEPT !.stage = "executions", !.plan = S \ (pass.handoffs \cup ProtectedParents)]
  BY DEF PlanExecutions
<1>2. UNCHANGED <<requests, now>> /\ pass.stage = "handoffs"
  BY DEF PlanExecutions, vars, storeVars
<1>3. \A r \in S : requests[r].created_at < pass.cutoff
  BY <1>1 DEF Prunable
<1>4. /\ pass'.cutoff = pass.cutoff /\ pass'.handoffs = pass.handoffs
      /\ \A r \in pass'.plan : r \in S /\ r \notin pass.handoffs
  BY <1>1
<1> QED
  BY <1>2, <1>3, <1>4 DEF HandoffsRead, PendingAcknowledgements, Stored, AcknowledgementLapsed


\* What apply() reads of the handoffs stays true until it deletes.
LEMMA HandoffsStep ==
  ASSUME MinAge \in Nat, RetentionInv, HandoffsRead, [RetentionNext]_allVars
  PROVE  HandoffsRead'
<1>1. CASE Otherwise \/ UNCHANGED allVars
  BY <1>1, OthersSpare DEF Otherwise, allVars, retentionVars
<1>2. CASE PruneExecutions
  <2>1. pass' = NoPass \/ pass' = [pass EXCEPT !.stage = "notifications", !.plan = {}]
    BY <1>2 DEF PruneExecutions
  <2>2. CASE pass' = [pass EXCEPT !.stage = "notifications", !.plan = {}]
    BY <1>2, <2>2 DEF PruneExecutions, HandoffsRead
  <2>3. CASE pass' = NoPass
    BY <2>3 DEF NoPass, HandoffsRead
  <2> QED
    BY <2>1, <2>2, <2>3
<1>3. CASE PruneNotifications
  <2>1. pass' = NoPass
    BY <1>3, Zenon DEF PruneNotifications
  <2> QED
    BY <2>1 DEF NoPass, HandoffsRead
<1> QED
  BY <1>1, <1>2, <1>3, ReadSpares, PlanSpares DEF RetentionNext

\* Only the transaction of a pass deletes requests, and only the planned ones.
LEMMA StepSpares ==
  ASSUME RetentionInv, HandoffsRead, [RetentionNext]_allVars, NEW r \in PendingAcknowledgements,
         requests'[r].status = "pruned"
  PROVE  AcknowledgementLapsed(r)
<1>1. r \in Requests /\ requests[r].status \notin {"absent", "pruned"}
  BY DEF PendingAcknowledgements, Stored
<1>2. CASE [DispatcherNext]_vars
  <2>1. RowsMove
    BY <1>2, DispatcherServes, ServeMoves, NoneMoves DEF RetentionInv, Steering, storeVars
  <2> QED
    BY <1>1, <2>1 DEF RowsMove, Evolves
<1>3. CASE UNCHANGED requests
  BY <1>1, <1>3
<1>4. CASE PruneExecutions
  <2> DEFINE S == {q \in pass.plan : requests[q].status \in {"succeeded", "cancelled"}}
  <2>1. pass.stage = "executions" /\ (UNCHANGED storeVars \/ Prune(S))
    BY <1>4 DEF PruneExecutions
  <2>2. CASE UNCHANGED storeVars
    BY <1>3, <2>2 DEF storeVars
  <2>3. CASE Prune(S)
    <3>1. r \in S
      BY <1>1, <2>3 DEF Prune
    <3>2. requests[r].created_at < pass.cutoff /\ r \notin pass.handoffs
      BY <2>1, <3>1 DEF HandoffsRead
    <3> QED
      BY <2>1, <3>2 DEF HandoffsRead
  <2> QED
    BY <2>1, <2>2, <2>3
<1>5. CASE ReadHandoffs \/ PlanExecutions \/ PruneNotifications
  <2>1. UNCHANGED storeVars
    BY <1>5, Zenon DEF ReadHandoffs, PlanExecutions, PruneNotifications, vars
  <2> QED
    BY <1>3, <2>1 DEF storeVars
<1>6. CASE UNCHANGED allVars
  BY <1>2, <1>6 DEF allVars
<1> QED
  BY <1>2, <1>4, <1>5, <1>6 DEF RetentionNext, Otherwise

\* A handoff that still owes its acknowledgement survives every pass of gateway/retention.py,
\* although the pass reads the handoffs, plans and deletes in three transactions with the
\* workers in between, unless it was cancelled and its acknowledgement had lapsed; MinAge
\* counts seconds (GatewayRetentionSettings bounds it below by 0).
THEOREM HandoffsSpared == ASSUME MinAge \in Nat PROVE RetentionSpec => PendingHandoffsSpared
<1>1. RetentionInit => HandoffsRead
  BY DEF RetentionInit, HandoffsRead, NoPass
<1>2. RetentionInv /\ HandoffsRead /\ [RetentionNext]_allVars => HandoffsRead'
  BY HandoffsStep
<1>3. RetentionInv /\ HandoffsRead /\ [RetentionNext]_allVars
        => [\A r \in PendingAcknowledgements : requests'[r].status = "pruned" => AcknowledgementLapsed(r)]_allVars
  BY StepSpares
<1> QED
  BY <1>1, <1>2, <1>3, RetentionInvariant, PTL DEF RetentionSpec, PendingHandoffsSpared
===============================================================================
