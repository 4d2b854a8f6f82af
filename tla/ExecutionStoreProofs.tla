------------------------- MODULE ExecutionStoreProofs -------------------------
(***************************************************************************)
(* Theorems about the execution store, for every value of its constants.   *)
(*                                                                         *)
(* The inductive invariant is row by row: GoodRow relates one row of       *)
(* execution_requests to the history of its starts.  Each operation's      *)
(* effect on a row is shown once to keep a good row good; the theorems     *)
(* about the table follow because every action rewrites whole rows.        *)
(***************************************************************************)
EXTENDS ExecutionStore, TLAPS

USE NoneAssumption, TimeAssumption, KindsAssumption

\* Statuses of a request that never started.
Unstarted == {"absent", "awaiting_acknowledgement", "queued", "claimed"}

\* What holds of a row and of the fences R under which it was started.
RowInv(row, R) ==
  /\ ValidRow(row)
  /\ row.kind = "named_job" => row.expires_at = Never
  /\ row.status \in Executing =>
       /\ row.run_id = row.claim_fence
       /\ row.claim_token = row.claim_fence
       /\ R = {row.claim_fence}
  /\ row.status \in Unstarted => R = {}
  /\ \A j, k \in R : j = k
  /\ row.handoff_title =>
       /\ row.status \in {"queued", "claimed"} \cup Executing
            => row.acknowledgement_delivered_at # Never
       /\ R # {} => row.acknowledgement_delivered_at # Never

GoodRow(row, R) == row \in Request /\ R \in SUBSET Nat /\ RowInv(row, R)

\* The inductive invariant.
IInv ==
  /\ TypeOK
  /\ now <= MaxTime
  /\ \A w \in Workers : scanning[w] # Never => scanning[w] <= MaxTime
  /\ \A r \in Requests : GoodRow(requests[r], runs[r])

-------------------------------------------------------------------------------
(* What each row update preserves *)

\* The two updates of a row that most operations share.
LEMMA StatusType ==
  ASSUME NEW row \in Request, NEW status \in Statuses
  PROVE  WithStatus(row, status) \in Request
  BY DEF WithStatus, Request

LEMMA UnclaimedType ==
  ASSUME NEW row \in Request
  PROVE  Unclaimed(row) \in Request
  BY DEF Unclaimed, Request

\* No row, and a deleted row, are good.
LEMMA GoodNone ==
  /\ GoodRow(NoRequest, {})
  /\ \A R \in SUBSET Nat : (\A j, k \in R : j = k)
       => GoodRow(WithStatus(NoRequest, "pruned"), R)
<1>1. NoRequest \in Request
  BY DEF NoRequest, Request, Statuses
<1>2. WithStatus(NoRequest, "pruned") \in Request
  BY <1>1, StatusType DEF Statuses
<1>3. NoRequest.status = "absent" /\ WithStatus(NoRequest, "pruned").status = "pruned"
  BY DEF NoRequest, WithStatus
<1>4. \A R : (\A j, k \in R : j = k)
        => RowInv(WithStatus(NoRequest, "pruned"), R) /\ RowInv(NoRequest, {})
  BY <1>3 DEF RowInv, ValidRow, NoRequest, WithStatus, Active, Executing, Unstarted, Parked
<1> QED
  BY <1>1, <1>2, <1>4 DEF GoodRow

\* submit inserts a good row.
LEMMA GoodNew ==
  ASSUME NEW kind \in Kinds, NEW held \in Holds, NEW expires \in Nat,
         now \in Nat, now < expires, now <= MaxTime,
         kind = "named_job" => expires = Never,
         NEW parent \in Requests \cup {None}
  PROVE  GoodRow(NewRequest(kind, held, expires, parent), {})
<1>1. NewRequest(kind, held, expires, parent) \in Request
  BY DEF NewRequest, Request, Statuses, Lesser
<1> QED
  BY <1>1 DEF GoodRow, RowInv, ValidRow, NewRequest, Lesser, Active, Executing, Unstarted, Parked

\* _recover_expired keeps a row good: only an unstarted claim is requeued.
LEMMA GoodRecovered ==
  ASSUME NEW row, NEW R, GoodRow(row, R), NEW t \in Nat
  PROVE  GoodRow(Recovered(row, t), R)
<1>1. Recovered(row, t) \in Request
  <2>1. row \in Request /\ {"queued", "blocked", "uncertain"} \subseteq Statuses
    BY DEF GoodRow, Statuses, Terminal
  <2> QED
    BY <2>1, StatusType, UnclaimedType DEF Recovered
<1> QED
  BY <1>1 DEF GoodRow, RowInv, ValidRow, Recovered, Request, Unclaimed, WithStatus,
              Active, Executing, Unstarted, Parked

\* claim gives a queued row a complete claim.
LEMMA GoodClaimed ==
  ASSUME NEW row, NEW R, GoodRow(row, R), row.status = "queued", NEW t \in Nat, t <= MaxTime
  PROVE  GoodRow(ClaimedRow(row, t), R)
<1>1. ClaimedRow(row, t) \in Request
  <2>1. "claimed" \in Statuses /\ row \in Request
    BY DEF GoodRow, Statuses, Active
  <2>2. row.claim_fence + 1 \in Nat /\ t + ClaimSeconds \in Nat
    BY <2>1 DEF Request
  <2> QED
    BY <2>1, <2>2 DEF ClaimedRow, Request
<1> QED
  BY <1>1 DEF GoodRow, RowInv, ValidRow, ClaimedRow, Request, Active, Executing, Unstarted, Parked

\* A row whose claim is cleared stays good in every status it may then take.
LEMMA GoodUnclaimed ==
  ASSUME NEW row, NEW R, GoodRow(row, R), NEW status \in Terminal \cup {"queued"},
         row.status \in Active \cup {"queued", "awaiting_acknowledgement"},
         status = "queued" => row.status = "claimed"
  PROVE  GoodRow(Unclaimed(WithStatus(row, status)), R)
<1>1. Unclaimed(WithStatus(row, status)) \in Request
  BY DEF GoodRow, Unclaimed, WithStatus, Request, Statuses
<1> QED
  BY <1>1 DEF GoodRow, RowInv, ValidRow, Unclaimed, WithStatus, Request, Terminal,
              Active, Executing, Unstarted, Parked

\* The owner of a run moves it between the executing statuses.
LEMMA GoodExecuting ==
  ASSUME NEW row, NEW R, GoodRow(row, R), NEW status \in Executing, row.status \in Executing
  PROVE  GoodRow([row EXCEPT !.status = status], R)
<1>1. [row EXCEPT !.status = status] \in Request
  BY DEF GoodRow, Request, Statuses, Executing, Active
<1> QED
  BY <1>1 DEF GoodRow, RowInv, ValidRow, Request, Active, Executing, Unstarted, Parked

\* A person settles an uncertain outcome.
LEMMA GoodResolved ==
  ASSUME NEW row, NEW R, GoodRow(row, R), NEW status \in {"succeeded", "failed"},
         row.status = "uncertain"
  PROVE  GoodRow([row EXCEPT !.status = status], R)
<1>1. [row EXCEPT !.status = status] \in Request
  BY DEF GoodRow, Request, Statuses, Terminal
<1> QED
  BY <1>1 DEF GoodRow, RowInv, ValidRow, Request, Active, Executing, Unstarted, Parked
-------------------------------------------------------------------------------
(* The inductive invariant *)

LEMMA InvInit == Init => IInv
<1> SUFFICES ASSUME Init PROVE IInv
  OBVIOUS
<1>1. NoRequest \in Request
  BY GoodNone DEF GoodRow
<1>2. NoApproval \in Approval
  BY DEF NoApproval, Approval, ApprovalStates, Parked
<1>3. TypeOK
  BY <1>1, <1>2 DEF Init, TypeOK
<1> QED
  BY <1>3, GoodNone DEF Init, IInv

\* An action that replaces one row by a good one, and touches neither the
\* clock nor the claim calls, keeps the invariant.
LEMMA OneRow ==
  ASSUME IInv, NEW r \in Requests, NEW row, NEW R, GoodRow(row, R),
         requests' = [requests EXCEPT ![r] = row],
         runs' = [runs EXCEPT ![r] = R],
         approvals' \in [Approvals -> Approval], resolved' \in SUBSET Requests,
         UNCHANGED <<scanning, now>>
  PROVE  IInv'
<1>1. TypeOK'
  BY DEF IInv, TypeOK, GoodRow
<1>2. \A q \in Requests : GoodRow(requests'[q], runs'[q])
  BY DEF IInv, TypeOK
<1> QED
  BY <1>1, <1>2 DEF IInv

\* runs is a function: writing back its own value changes nothing.
LEMMA SameRuns ==
  ASSUME TypeOK, NEW r \in Requests, runs' = runs
  PROVE  runs' = [runs EXCEPT ![r] = runs[r]]
  BY DEF TypeOK

LEMMA SubmitInv == ASSUME IInv, NEW r \in Requests, Submit(r) PROVE IInv'
<1>1. PICK kind \in Kinds, held \in Holds :
        \E expires \in ContractDeadlines(kind), parent \in ContractParents(kind) :
          requests' = [requests EXCEPT ![r] = NewRequest(kind, held, expires, parent)]
  BY DEF Submit
<1>2. PICK expires \in ContractDeadlines(kind), parent \in ContractParents(kind) :
        requests' = [requests EXCEPT ![r] = NewRequest(kind, held, expires, parent)]
  BY <1>1
<1>3. now \in Nat /\ now <= MaxTime
  BY DEF IInv, TypeOK
<1>4. expires \in Nat /\ now < expires /\ (kind = "named_job" => expires = Never)
  BY <1>3 DEF ContractDeadlines
<1>5. parent \in Requests \cup {None}
  BY DEF ContractParents
<1>6. GoodRow(NewRequest(kind, held, expires, parent), {})
  BY <1>3, <1>4, <1>5, GoodNew
<1>7. runs[r] = {}
  BY DEF IInv, Submit, GoodRow, RowInv, Unstarted
<1> QED
  BY <1>2, <1>6, <1>7, OneRow, SameRuns DEF Submit, IInv, TypeOK

LEMMA AcknowledgementInv ==
  ASSUME IInv, NEW r \in Requests, NEW outbox \in Outboxes,
         AttachAcknowledgement(r, outbox) \/ ReleaseAcknowledged(r, outbox)
  PROVE  IInv'
<1>1. /\ requests[r] \in Request
      /\ GoodRow(requests[r], runs[r])
      /\ now \in Nat /\ now # Never
  BY DEF IInv, TypeOK
<1>2. CASE AttachAcknowledgement(r, outbox)
  <2> DEFINE row == [requests[r] EXCEPT !.acknowledgement_outbox_id = outbox]
  <2>1. row \in Request
    BY <1>1 DEF Request
  <2>2. GoodRow(row, runs[r])
    BY <1>1, <2>1 DEF GoodRow, RowInv, ValidRow, Request
  <2> QED
    BY <1>2, <2>2, OneRow, SameRuns DEF AttachAcknowledgement, IInv, TypeOK
<1>3. CASE ReleaseAcknowledged(r, outbox)
  <2> DEFINE old == requests[r]
             status == IF old.status # "awaiting_acknowledgement" THEN old.status
                       ELSE IF \/ old.acknowledgement_expires_at <= now
                               \/ old.expires_at <= now THEN "blocked" ELSE "queued"
             delivered == IF old.acknowledgement_delivered_at = Never THEN now
                          ELSE old.acknowledgement_delivered_at
             row == [old EXCEPT !.acknowledgement_delivered_at = delivered, !.status = status]
  <2>1. status \in Statuses /\ delivered \in Nat
    BY <1>1 DEF Request, Statuses, Terminal
  <2>2. row \in Request
    BY <1>1, <2>1 DEF Request
  <2>3. GoodRow(row, runs[r])
    BY <1>1, <1>3, <2>2 DEF GoodRow, RowInv, ValidRow, Request, ReleaseAcknowledged,
       Unstarted, Active, Executing, Parked
  <2>4. requests' = [requests EXCEPT ![r] = row]
    BY <1>1, <1>3 DEF ReleaseAcknowledged, IInv, TypeOK
  <2> HIDE DEF row
  <2> QED
    BY <1>3, <2>3, <2>4, OneRow, SameRuns DEF ReleaseAcknowledged, IInv, TypeOK
<1> QED
  BY <1>2, <1>3
\* A change of state keeps an approval an approval.
LEMMA ApprovalState ==
  ASSUME NEW approval \in Approval, NEW state \in ApprovalStates
  PROVE  [approval EXCEPT !.state = state] \in Approval
  BY DEF Approval

LEMMA InvalidateType ==
  ASSUME TypeOK, NEW S
  PROVE  InvalidateActive(S) \in [Approvals -> Approval]
<1>1. "invalidated" \in ApprovalStates
  BY DEF ApprovalStates
<1> QED
  BY <1>1, ApprovalState DEF TypeOK, InvalidateActive

LEMMA RecoverInv ==
  ASSUME IInv, Recover(now), UNCHANGED <<resolved, now, runs>>,
         scanning' \in [Workers -> Nat],
         \A w \in Workers : scanning'[w] # Never => scanning'[w] <= MaxTime
  PROVE  IInv'
<1>1. now \in Nat
  BY DEF IInv, TypeOK
<1>2. \A r \in Requests : GoodRow(Recovered(requests[r], now), runs[r])
  BY <1>1, GoodRecovered DEF IInv
<1>3. approvals' \in [Approvals -> Approval]
  BY InvalidateType DEF Recover, IInv
<1>4. requests' \in [Requests -> Request]
  BY <1>2 DEF Recover, GoodRow
<1>5. \A r \in Requests : requests'[r] = Recovered(requests[r], now)
  BY DEF Recover
<1> QED
  BY <1>2, <1>3, <1>4, <1>5 DEF IInv, TypeOK

LEMMA ClaimRecoverInv == ASSUME IInv, NEW w \in Workers, ClaimRecover(w) PROVE IInv'
<1>1. scanning' \in [Workers -> Nat]
  BY DEF ClaimRecover, IInv, TypeOK
<1>2. \A v \in Workers : scanning'[v] # Never => scanning'[v] <= MaxTime
  BY DEF ClaimRecover, IInv, TypeOK
<1> QED
  BY <1>1, <1>2, RecoverInv DEF ClaimRecover

LEMMA ClaimDroppedInv == ASSUME IInv, NEW w \in Workers, ClaimDropped(w) PROVE IInv'
<1>1. scanning' \in [Workers -> Nat]
  BY DEF ClaimDropped, IInv, TypeOK
<1>2. \A v \in Workers : scanning'[v] # Never => scanning'[v] <= MaxTime
  BY DEF ClaimDropped, IInv, TypeOK
<1> QED
  BY <1>1, <1>2 DEF ClaimDropped, IInv, TypeOK

LEMMA ClaimQueuedInv == ASSUME IInv, NEW w \in Workers, ClaimQueued(w) PROVE IInv'
<1> DEFINE t == scanning[w]
<1>1. t \in Nat /\ t <= MaxTime
  BY DEF ClaimQueued, IInv, TypeOK
<1>2. PICK S \in SUBSET {r \in Requests : Claimable(r, t)} :
        requests' = [r \in Requests |->
          IF r \in S THEN ClaimedRow(requests[r], t) ELSE requests[r]]
  BY DEF ClaimQueued
<1>3. \A r \in Requests : GoodRow(requests'[r], runs[r])
  <2> SUFFICES ASSUME NEW r \in Requests PROVE GoodRow(requests'[r], runs[r])
    OBVIOUS
  <2>1. GoodRow(requests[r], runs[r])
    BY DEF IInv
  <2>2. CASE r \in S
    <3>1. requests[r].status = "queued"
      BY <2>2 DEF Claimable
    <3>2. GoodRow(ClaimedRow(requests[r], t), runs[r])
      BY <1>1, <2>1, <3>1, GoodClaimed
    <3> QED
      BY <1>2, <2>2, <3>2
  <2>3. CASE r \notin S
    BY <1>2, <2>1, <2>3
  <2> QED
    BY <2>2, <2>3
<1>4. requests' \in [Requests -> Request]
  BY <1>2, <1>3 DEF GoodRow
<1>5. /\ scanning' \in [Workers -> Nat]
      /\ \A v \in Workers : scanning'[v] # Never => scanning'[v] <= MaxTime
  BY DEF ClaimQueued, IInv, TypeOK
<1> QED
  BY <1>3, <1>4, <1>5 DEF ClaimQueued, IInv, TypeOK

LEMMA StartInv == ASSUME IInv, NEW r \in Requests, NEW k \in 1..MaxFence, Start(r, k) PROVE IInv'
<1> DEFINE row == [requests[r] EXCEPT !.status = "running", !.run_id = k]
<1>1. requests[r] \in Request /\ GoodRow(requests[r], runs[r]) /\ k \in Nat /\ k # 0
  BY DEF IInv, TypeOK
<1>2. row \in Request
  BY <1>1 DEF Request, Statuses, Active
<1>3. runs[r] = {}
  BY <1>1 DEF Start, GoodRow, RowInv, Unstarted
<1>4. GoodRow(row, {k})
  BY <1>1, <1>2 DEF Start, Fenced, GoodRow, RowInv, ValidRow, Request, Unstarted, Active,
                    Executing, Parked
<1>5. requests' = [requests EXCEPT ![r] = row]
  BY <1>1 DEF Start, IInv, TypeOK
<1>6. runs' = [runs EXCEPT ![r] = {k}]
  BY <1>3 DEF Start
<1> HIDE DEF row
<1> QED
  BY <1>4, <1>5, <1>6, OneRow DEF Start, IInv, TypeOK

LEMMA ReleaseInv ==
  ASSUME IInv, NEW r \in Requests, NEW k \in 1..MaxFence, Release(r, k) PROVE IInv'
<1> DEFINE row == Unclaimed(WithStatus(requests[r], "queued"))
<1>1. GoodRow(requests[r], runs[r])
  BY DEF IInv
<1>2. GoodRow(row, runs[r])
  BY <1>1, GoodUnclaimed DEF Release, Active
<1>3. requests' = [requests EXCEPT ![r] = row]
  BY DEF Release
<1> HIDE DEF row
<1> QED
  BY <1>2, <1>3, OneRow, SameRuns DEF Release, IInv, TypeOK

LEMMA RenewInv ==
  ASSUME IInv, NEW r \in Requests, NEW k \in 1..MaxFence, Renew(r, k) PROVE IInv'
<1> DEFINE row == [requests[r] EXCEPT !.claim_expires_at = now + ClaimSeconds]
<1>1. requests[r] \in Request /\ GoodRow(requests[r], runs[r])
  BY DEF IInv, TypeOK
<1>2. now + ClaimSeconds \in Nat /\ now + ClaimSeconds # Never
  BY DEF IInv, TypeOK
<1>3. row \in Request
  BY <1>1, <1>2 DEF Request
<1>4. GoodRow(row, runs[r])
  BY <1>1, <1>2, <1>3 DEF Renew, Fenced, GoodRow, RowInv, ValidRow, Request
<1>5. requests' = [requests EXCEPT ![r] = row]
  BY <1>1 DEF Renew, IInv, TypeOK
<1> HIDE DEF row
<1> QED
  BY <1>4, <1>5, OneRow, SameRuns DEF Renew, IInv, TypeOK

LEMMA FinishInv ==
  ASSUME IInv, NEW r \in Requests, NEW k \in 1..MaxFence, NEW status \in Terminal,
         Finish(r, k, status)
  PROVE  IInv'
<1> DEFINE row == Unclaimed(WithStatus(requests[r], status))
<1>1. GoodRow(requests[r], runs[r])
  BY DEF IInv
<1>2. GoodRow(row, runs[r])
  BY <1>1, GoodUnclaimed DEF Finish, Finishable, Fenced, Terminal
<1>3. requests' = [requests EXCEPT ![r] = row]
  BY DEF Finish
<1> HIDE DEF row
<1> QED
  BY <1>2, <1>3, OneRow, SameRuns DEF Finish, IInv, TypeOK
LEMMA CancelInv == ASSUME IInv, NEW r \in Requests, Cancel(r) PROVE IInv'
<1> DEFINE old == requests[r]
           row == IF old.status \in {"running"} \cup Parked
                  THEN WithStatus(old, "cancel_requested")
                  ELSE Unclaimed(WithStatus(old, "cancelled"))
<1>1. GoodRow(old, runs[r]) /\ old \in Request
  BY DEF IInv, TypeOK
<1>2. GoodRow(row, runs[r])
  <2>1. CASE old.status \in {"running"} \cup Parked
    BY <1>1, <2>1, GoodExecuting DEF Executing, WithStatus
  <2>2. CASE old.status \notin {"running"} \cup Parked
    <3>1. old.status \in Active \cup {"queued", "awaiting_acknowledgement"}
      BY <1>1 DEF Cancel, Stored, Request, Statuses
    <3> QED
      BY <1>1, <2>2, <3>1, GoodUnclaimed DEF Terminal
  <2> QED
    BY <2>1, <2>2
<1>3. requests' = [requests EXCEPT ![r] = row]
  BY DEF Cancel
<1>4. approvals' \in [Approvals -> Approval]
  BY InvalidateType DEF Cancel, IInv, TypeOK
<1> HIDE DEF row
<1> QED
  BY <1>2, <1>3, <1>4, OneRow, SameRuns DEF Cancel, IInv, TypeOK

LEMMA RetryInv ==
  ASSUME IInv, NEW r \in Requests, NEW child \in Requests, Retry(r, child) PROVE IInv'
<1>1. /\ requests[r] \in Request /\ GoodRow(requests[r], runs[r])
      /\ now \in Nat /\ now < Never
  BY DEF IInv, TypeOK
<1>2. RetryChild(r) \in Request
  BY <1>1 DEF RetryChild, Request, Statuses
<1>3. runs[child] = {}
  BY DEF Retry, IInv, GoodRow, RowInv, Unstarted
<1>4. GoodRow(RetryChild(r), {})
  BY <1>1, <1>2 DEF Retry, RetryChild, GoodRow, RowInv, ValidRow, Request, Unstarted, Active,
                    Executing, Parked
<1> QED
  BY <1>3, <1>4, OneRow, SameRuns DEF Retry, IInv, TypeOK

LEMMA ResolveInv ==
  ASSUME IInv, NEW r \in Requests, NEW status \in {"succeeded", "failed"},
         requests[r].status = "uncertain",
         requests' = [requests EXCEPT ![r].status = status],
         resolved' = resolved \cup {r},
         UNCHANGED <<approvals, scanning, now, runs>>
  PROVE  IInv'
<1> DEFINE row == [requests[r] EXCEPT !.status = status]
<1>1. GoodRow(row, runs[r])
  BY GoodResolved DEF IInv
<1>2. requests' = [requests EXCEPT ![r] = row]
  BY DEF IInv, TypeOK
<1> HIDE DEF row
<1> QED
  BY <1>1, <1>2, OneRow, SameRuns DEF IInv, TypeOK

LEMMA PruneInv == ASSUME IInv, NEW S \in SUBSET Requests, Prune(S) PROVE IInv'
<1>1. \A r \in Requests : GoodRow(requests[r], runs[r])
  BY DEF IInv
<1>2. \A r \in Requests : GoodRow(WithStatus(NoRequest, "pruned"), runs[r])
  BY <1>1, GoodNone DEF GoodRow, RowInv
<1>3. \A r \in Requests : GoodRow(requests'[r], runs[r])
  BY <1>1, <1>2 DEF Prune
<1>4. requests' \in [Requests -> Request]
  BY <1>3 DEF Prune, GoodRow
<1>5. [NoApproval EXCEPT !.state = "pruned"] \in Approval
  BY DEF NoApproval, Approval, ApprovalStates, Parked
<1>6. approvals' \in [Approvals -> Approval]
  BY <1>5 DEF Prune, IInv, TypeOK
<1> QED
  BY <1>3, <1>4, <1>6 DEF Prune, IInv, TypeOK

\* The operations of an owner on its parked run only move the row between
\* executing statuses.
LEMMA ExecutingInv ==
  ASSUME IInv, NEW r \in Requests, NEW status \in Executing, requests[r].status \in Executing,
         requests' = [requests EXCEPT ![r].status = status],
         approvals' \in [Approvals -> Approval],
         UNCHANGED <<resolved, scanning, now, runs>>
  PROVE  IInv'
<1> DEFINE row == [requests[r] EXCEPT !.status = status]
<1>1. GoodRow(row, runs[r])
  BY GoodExecuting DEF IInv
<1>2. requests' = [requests EXCEPT ![r] = row]
  BY DEF IInv, TypeOK
<1> HIDE DEF row
<1> QED
  BY <1>1, <1>2, OneRow, SameRuns DEF IInv, TypeOK

LEMMA ParkInv ==
  ASSUME IInv, NEW a \in Approvals, NEW r \in Requests, NEW k \in 1..MaxFence,
         NEW effect \in Effects, Park(a, r, k, effect)
  PROVE  IInv'
<1> DEFINE parked(kind) == [kind |-> kind, state |-> "pending", request_id |-> r,
             logical_effect_key |-> effect, claim_fence |-> k,
             expires_at |-> now + ApprovalSeconds]
<1>1. PICK kind \in Parked :
        /\ approvals' = [approvals EXCEPT ![a] = parked(kind)]
        /\ requests' = [requests EXCEPT ![r].status = kind]
  BY DEF Park
<1>2. parked(kind) \in Approval
  BY DEF Approval, ApprovalStates, IInv, TypeOK
<1> HIDE DEF parked
<1>3. approvals' \in [Approvals -> Approval]
  BY <1>1, <1>2 DEF IInv, TypeOK
<1>4. kind \in Executing /\ requests[r].status \in Executing
  BY DEF Park, Executing
<1> QED
  BY <1>1, <1>3, <1>4, ExecutingInv DEF Park

\* Decisions and the expiry sweep touch approvals only.
LEMMA ApprovalOnly ==
  ASSUME IInv, approvals' \in [Approvals -> Approval],
         UNCHANGED <<requests, resolved, scanning, now, runs>>
  PROVE  IInv'
  BY DEF IInv, TypeOK

LEMMA DecideInv ==
  ASSUME IInv, NEW a \in Approvals, NEW decision \in {"approved", "denied"}, Decide(a, decision)
  PROVE  IInv'
<1>1. {"approved", "denied", "expired"} \subseteq ApprovalStates
  BY DEF ApprovalStates
<1>2. approvals' \in [Approvals -> Approval]
  BY <1>1 DEF Decide, IInv, TypeOK, Approval
<1> QED
  BY <1>2, ApprovalOnly DEF Decide

LEMMA ExpireInv == ASSUME IInv, ExpireApprovals PROVE IInv'
<1>1. "expired" \in ApprovalStates
  BY DEF ApprovalStates
<1>2. approvals' \in [Approvals -> Approval]
  BY <1>1, ApprovalState DEF ExpireApprovals, IInv, TypeOK
<1> QED
  BY <1>2, ApprovalOnly DEF ExpireApprovals

LEMMA OwnerInv ==
  ASSUME IInv, NEW a \in Approvals, NEW k \in 1..MaxFence,
         ResumeConsuming(a, k) \/ ResumeUnconsumed(a, k) \/ Invalidate(a, k)
  PROVE  IInv'
<1>1. OwnsParked(a, k)
  BY DEF ResumeConsuming, ResumeUnconsumed, Invalidate
<1>2. approvals[a].request_id \in Requests
  BY <1>1 DEF OwnsParked, IInv, TypeOK, Approval
<1>3. "running" \in Executing /\ requests[approvals[a].request_id].status \in Executing
  BY <1>1 DEF OwnsParked, Executing
<1>4. \A state \in {"consumed", "expired", "invalidated"} :
        [approvals EXCEPT ![a].state = state] \in [Approvals -> Approval]
  BY DEF ApprovalStates, IInv, TypeOK, Approval
<1>5. approvals' \in [Approvals -> Approval]
  BY <1>4 DEF ResumeConsuming, ResumeUnconsumed, Invalidate, IInv, TypeOK
<1>6. /\ requests' = [requests EXCEPT ![approvals[a].request_id].status = "running"]
      /\ UNCHANGED <<resolved, scanning, now, runs>>
  BY DEF ResumeConsuming, ResumeUnconsumed, Invalidate
<1> QED
  BY <1>2, <1>3, <1>5, <1>6, ExecutingInv
LEMMA InvNext == IInv /\ [Next]_storeVars => IInv'
<1> SUFFICES ASSUME IInv, [Next]_storeVars PROVE IInv'
  OBVIOUS
<1>1. CASE UNCHANGED storeVars
  BY <1>1 DEF storeVars, IInv, TypeOK
<1>2. CASE Tick
  BY <1>2 DEF Tick, IInv, TypeOK
<1>3. CASE RecoverExpired
  BY <1>3, RecoverInv DEF RecoverExpired, IInv, TypeOK
<1>4. CASE ExpireApprovals
  BY <1>4, ExpireInv
<1>5. CASE \E w \in Workers : ClaimRecover(w) \/ ClaimQueued(w) \/ ClaimDropped(w)
  BY <1>5, ClaimRecoverInv, ClaimQueuedInv, ClaimDroppedInv
<1>6. ASSUME NEW r \in Requests, RequestOperation(r) PROVE IInv'
  <2>1. CASE \E k \in 1..MaxFence : ClaimedOperation(r, k)
    BY <2>1, StartInv, ReleaseInv, RenewInv, FinishInv, ParkInv DEF ClaimedOperation
  <2>2. CASE \E status \in {"succeeded", "failed"} : Resolve(r, status)
    BY <2>2, ResolveInv DEF Resolve
  <2> QED
    BY <1>6, <2>1, <2>2, SubmitInv, AcknowledgementInv, CancelInv, RetryInv DEF RequestOperation
<1>7. ASSUME NEW a \in Approvals, ApprovalOperation(a) PROVE IInv'
  <2>1. ASSUME NEW status \in {"succeeded", "failed"}, AttestTransaction(a, status) PROVE IInv'
    <3>1. approvals[a].request_id \in Requests
      BY <2>1 DEF AttestTransaction, IInv, TypeOK, Approval
    <3> QED
      BY <2>1, <3>1, ResolveInv DEF AttestTransaction
  <2> QED
    BY <1>7, <2>1, DecideInv, OwnerInv DEF ApprovalOperation
<1>8. CASE \E S \in SUBSET Requests : Prune(S)
  BY <1>8, PruneInv
<1> QED
  BY <1>1, <1>2, <1>3, <1>4, <1>5, <1>6, <1>7, <1>8 DEF Next

LEMMA Invariance == Spec => []IInv
  BY InvInit, InvNext, PTL DEF Spec

-------------------------------------------------------------------------------
(* The theorems *)

\* The tables always hold rows of their types.
THEOREM TypeCorrect == Spec => []TypeOK
<1>1. IInv => TypeOK
  BY DEF IInv
<1> QED
  BY <1>1, Invariance, PTL

\* No operation leaves a row the ExecutionRequest validator would reject, so
\* no scan of the table ever raises on a row.
THEOREM RowsStayValid == Spec => []RowsValid
<1>1. IInv => RowsValid
  BY DEF IInv, RowsValid, GoodRow, RowInv
<1> QED
  BY <1>1, Invariance, PTL

\* The run in progress belongs to the current claim: fencing keeps a stalled
\* worker's run out of a request that was claimed again.
THEOREM RunOwnership == Spec => []RunOwnedByClaim
<1>1. IInv => RunOwnedByClaim
  BY DEF IInv, RunOwnedByClaim, GoodRow, RowInv
<1> QED
  BY <1>1, Invariance, PTL

\* However many workers claim, stall and lose leases, a request starts at
\* most once.
THEOREM StartedOnce == Spec => []AtMostOneRun
<1>1. IInv => AtMostOneRun
  BY DEF IInv, AtMostOneRun, GoodRow, RowInv
<1> QED
  BY <1>1, Invariance, PTL

\* A handed off request never starts before its acknowledgement is recorded
\* as delivered.
THEOREM HandoffGated == Spec => []HandoffGate
<1>1. IInv => HandoffGate
  BY DEF IInv, HandoffGate, GoodRow, RowInv
<1> QED
  BY <1>1, Invariance, PTL
-------------------------------------------------------------------------------
(* The store implements OnceOnlyWork *)

\* What a step may make of a request in status s that began iff b, given that it is
\* then in status t and began iff c.
Allowed(s, b, t, c) ==
  \/ PhaseOf(s) = PhaseOf(t) /\ b = c
  \/ s = "absent" /\ t \in {"awaiting_acknowledgement", "queued"} /\ ~b /\ ~c
  \/ s = "awaiting_acknowledgement" /\ t \in {"queued", "blocked", "cancelled"} /\ ~b /\ ~c
  \/ s \in {"queued", "claimed"} /\ t \in {"blocked", "cancelled"} /\ ~b /\ ~c
  \/ s = "claimed" /\ t = "running" /\ ~b /\ c
  \/ s \in {"running"} \cup Parked /\ t \in Terminal \cup {"cancel_requested"} /\ b /\ c
  \/ s = "cancel_requested" /\ t \in {"cancelled", "uncertain"} /\ b /\ c
  \/ s = "uncertain" /\ t \in {"succeeded", "failed"} /\ b = c
  \/ s \in {"succeeded", "cancelled"} /\ t = "pruned" /\ b = c

AllAllowed ==
  \A r \in Requests :
    Allowed(requests[r].status, runs[r] # {}, requests'[r].status, runs'[r] # {})

\* The phases, status by status.
LEMMA PhaseValues ==
  /\ PhaseOf("absent") = "none" /\ PhaseOf("awaiting_acknowledgement") = "held"
  /\ PhaseOf("queued") = "ready" /\ PhaseOf("claimed") = "ready"
  /\ PhaseOf("running") = "working" /\ PhaseOf("awaiting_protected_approval") = "working"
  /\ PhaseOf("awaiting_transaction_approval") = "working"
  /\ PhaseOf("cancel_requested") = "stopping" /\ PhaseOf("cancelled") = "stopped"
  /\ PhaseOf("uncertain") = "unknown" /\ PhaseOf("pruned") = "gone"
  /\ PhaseOf("succeeded") = "over" /\ PhaseOf("failed") = "over" /\ PhaseOf("blocked") = "over"
  BY DEF PhaseOf, Parked

\* Rows that move as allowed take an abstract step.
LEMMA WorkStep == ASSUME AllAllowed PROVE Work!WorkNext
<1>1. \A s : PhaseOf(s) \in Work!Phases
  BY DEF PhaseOf, Work!Phases
<1>2. ASSUME NEW i \in Requests PROVE Work!ItemStep(i) \/ Work!Rest(i)
  <2> DEFINE s == requests[i].status
             t == requests'[i].status
             b == runs[i] # {}
             c == runs'[i] # {}
             phase == [r \in Requests |-> PhaseOf(requests[r].status)]
             begun == [r \in Requests |-> runs[r] # {}]
  <2>1. Allowed(s, b, t, c)
    BY DEF AllAllowed
  <2>2. /\ phase[i] = PhaseOf(s) /\ phase'[i] = PhaseOf(t)
        /\ begun[i] = b /\ begun'[i] = c
    OBVIOUS
  <2> HIDE DEF s, t, b, c
  <2>3. CASE PhaseOf(s) = PhaseOf(t) /\ b = c
    BY <2>2, <2>3 DEF Work!Rest
  <2>4. CASE s = "absent" /\ t \in {"awaiting_acknowledgement", "queued"} /\ ~b /\ ~c
    BY <2>2, <2>4, PhaseValues DEF Work!Accept, Work!Move, Work!ItemStep
  <2>5. CASE s = "awaiting_acknowledgement" /\ t \in {"queued", "blocked", "cancelled"} /\ ~b /\ ~c
    BY <2>2, <2>5, PhaseValues DEF Work!Announce, Work!Withdraw, Work!Move, Work!ItemStep
  <2>6. CASE s \in {"queued", "claimed"} /\ t \in {"blocked", "cancelled"} /\ ~b /\ ~c
    <3>1. PhaseOf(s) = "ready" /\ PhaseOf(t) \in {"stopped", "over"}
      BY <2>6, PhaseValues
    <3> QED
      BY <2>2, <2>6, <3>1 DEF Work!Withdraw, Work!Move, Work!ItemStep
  <2>7. CASE s = "claimed" /\ t = "running" /\ ~b /\ c
    BY <2>2, <2>7, PhaseValues DEF Work!Begin, Work!ItemStep
  <2>8. CASE s \in {"running"} \cup Parked /\ t \in Terminal \cup {"cancel_requested"} /\ b /\ c
    <3>1. PhaseOf(s) = "working"
      BY <2>8, PhaseValues DEF Parked
    <3>2. PhaseOf(t) \in {"stopped", "over", "unknown", "stopping"}
      BY <2>8, PhaseValues DEF Terminal
    <3>3. CASE PhaseOf(t) = "stopping"
      BY <2>2, <2>8, <3>1, <3>3 DEF Work!AskToStop, Work!Move, Work!ItemStep
    <3>4. CASE PhaseOf(t) \in {"stopped", "over", "unknown"}
      BY <2>2, <2>8, <3>1, <3>4 DEF Work!End, Work!Move, Work!ItemStep
    <3> QED
      BY <3>2, <3>3, <3>4
  <2>9. CASE s = "cancel_requested" /\ t \in {"cancelled", "uncertain"} /\ b /\ c
    BY <2>2, <2>9, PhaseValues DEF Work!End, Work!Move, Work!ItemStep
  <2>10. CASE s = "uncertain" /\ t \in {"succeeded", "failed"} /\ b = c
    BY <2>2, <2>10, PhaseValues DEF Work!Settle, Work!Move, Work!ItemStep
  <2>11. CASE s \in {"succeeded", "cancelled"} /\ t = "pruned" /\ b = c
    BY <2>2, <2>11, PhaseValues DEF Work!Forget, Work!Move, Work!ItemStep
  <2> QED
    BY <2>1, <2>3, <2>4, <2>5, <2>6, <2>7, <2>8, <2>9, <2>10, <2>11 DEF Allowed
<1> QED
  BY <1>1, <1>2 DEF Work!WorkNext

\* An action that rewrites one row as allowed.
LEMMA OneAllowed ==
  ASSUME TypeOK, NEW r \in Requests, NEW row, NEW R,
         requests' = [requests EXCEPT ![r] = row], runs' = [runs EXCEPT ![r] = R],
         Allowed(requests[r].status, runs[r] # {}, row.status, R # {})
  PROVE  AllAllowed
<1>1. \A s, b : Allowed(s, b, s, b)
  BY DEF Allowed
<1> QED
  BY <1>1 DEF AllAllowed, TypeOK

\* What a good row's status says of its history.
LEMMA BegunByStatus ==
  ASSUME IInv, NEW r \in Requests
  PROVE  /\ requests[r] \in Request
         /\ requests[r].status \in Executing => runs[r] # {}
         /\ requests[r].status \in Unstarted => runs[r] = {}
  BY DEF IInv, GoodRow, RowInv

LEMMA RecoverAllowed == ASSUME IInv, Recover(now), runs' = runs PROVE AllAllowed
<1> SUFFICES ASSUME NEW r \in Requests
             PROVE  Allowed(requests[r].status, runs[r] # {}, requests'[r].status, runs'[r] # {})
  BY DEF AllAllowed
<1>1. requests'[r] = Recovered(requests[r], now)
  BY DEF Recover
<1>2. requests[r] \in Request
  BY BegunByStatus
<1> QED
  BY <1>1, <1>2, BegunByStatus DEF Recovered, Unclaimed, WithStatus, Request, Allowed, PhaseOf,
     Active, Executing, Unstarted, Parked, Terminal

LEMMA ClaimAllowed == ASSUME IInv, NEW w \in Workers, ClaimQueued(w) PROVE AllAllowed
<1>1. PICK S \in SUBSET {r \in Requests : Claimable(r, scanning[w])} :
        requests' = [r \in Requests |->
          IF r \in S THEN ClaimedRow(requests[r], scanning[w]) ELSE requests[r]]
  BY DEF ClaimQueued
<1> SUFFICES ASSUME NEW r \in Requests
             PROVE  Allowed(requests[r].status, runs[r] # {}, requests'[r].status, runs'[r] # {})
  BY DEF AllAllowed
<1>2. runs' = runs /\ requests[r] \in Request
  BY BegunByStatus DEF ClaimQueued
<1>3. CASE r \in S
  <2>1. requests[r].status = "queued" /\ requests'[r] = ClaimedRow(requests[r], scanning[w])
    BY <1>1, <1>3 DEF Claimable
  <2>2. ClaimedRow(requests[r], scanning[w]).status = "claimed"
    BY <1>2 DEF ClaimedRow, Request
  <2> QED
    BY <1>2, <2>1, <2>2, PhaseValues DEF Allowed
<1>4. CASE r \notin S
  BY <1>1, <1>2, <1>4 DEF Allowed
<1> QED
  BY <1>3, <1>4

LEMMA PruneAllowed == ASSUME IInv, NEW S \in SUBSET Requests, Prune(S) PROVE AllAllowed
  BY DEF Prune, AllAllowed, Allowed, WithStatus, NoRequest, IInv, TypeOK

\* The operations that rewrite one row.
LEMMA RequestAllowed ==
  ASSUME IInv, NEW r \in Requests, RequestOperation(r)
  PROVE  AllAllowed
<1>1. ASSUME NEW q \in Requests, NEW row,
             requests' = [requests EXCEPT ![q] = row], runs' = runs,
             Allowed(requests[q].status, runs[q] # {}, row.status, runs[q] # {})
      PROVE  AllAllowed
  BY <1>1, OneAllowed, SameRuns DEF IInv
<1>2. TypeOK /\ requests[r] \in Request
  BY DEF IInv, TypeOK
<1>3. CASE Submit(r)
  <2>1. PICK kind \in Kinds, held \in Holds :
          \E expires \in ContractDeadlines(kind), parent \in ContractParents(kind) :
            requests' = [requests EXCEPT ![r] = NewRequest(kind, held, expires, parent)]
    BY <1>3 DEF Submit
  <2>2. PICK expires, parent :
          requests' = [requests EXCEPT ![r] = NewRequest(kind, held, expires, parent)]
    BY <2>1
  <2>3. NewRequest(kind, held, expires, parent).status \in {"awaiting_acknowledgement", "queued"}
    BY DEF NewRequest
  <2>4. requests[r].status = "absent" /\ runs[r] = {} /\ runs' = runs
    BY <1>3, BegunByStatus DEF Submit, Unstarted
  <2> QED
    BY <1>1, <2>2, <2>3, <2>4 DEF Allowed
<1>4. ASSUME NEW outbox \in Outboxes, AttachAcknowledgement(r, outbox) PROVE AllAllowed
  <2> DEFINE row == [requests[r] EXCEPT !.acknowledgement_outbox_id = outbox]
  <2>1. requests' = [requests EXCEPT ![r] = row] /\ runs' = runs
    BY <1>2, <1>4 DEF AttachAcknowledgement, TypeOK
  <2>2. row.status = requests[r].status
    BY <1>2 DEF Request
  <2> HIDE DEF row
  <2> QED
    BY <1>1, <2>1, <2>2 DEF Allowed
<1>5. ASSUME NEW outbox \in Outboxes, ReleaseAcknowledged(r, outbox) PROVE AllAllowed
  <2> SUFFICES ASSUME NEW q \in Requests
               PROVE  Allowed(requests[q].status, runs[q] # {}, requests'[q].status, runs'[q] # {})
    BY DEF AllAllowed
  <2>1. runs' = runs /\ (q # r => requests'[q] = requests[q])
    BY <1>2, <1>5 DEF ReleaseAcknowledged, TypeOK
  <2>2. \/ requests'[r].status = requests[r].status
        \/ /\ requests[r].status = "awaiting_acknowledgement"
           /\ requests'[r].status \in {"queued", "blocked"}
    BY <1>2, <1>5 DEF ReleaseAcknowledged, TypeOK, Request
  <2> QED
    BY <2>1, <2>2, BegunByStatus DEF Allowed, Unstarted
<1>6. CASE Cancel(r)
  <2> DEFINE row == IF requests[r].status \in {"running"} \cup Parked
                    THEN WithStatus(requests[r], "cancel_requested")
                    ELSE Unclaimed(WithStatus(requests[r], "cancelled"))
  <2>1. requests' = [requests EXCEPT ![r] = row] /\ runs' = runs
    BY <1>6 DEF Cancel
  <2>2. requests[r].status \in {"awaiting_acknowledgement", "queued", "claimed", "running"} \cup Parked
    BY <1>2, <1>6 DEF Cancel, Stored, Request, Statuses, Active
  <2>3. Allowed(requests[r].status, runs[r] # {}, row.status, runs[r] # {})
    BY <1>2, <2>2, BegunByStatus DEF WithStatus, Unclaimed, Request, Allowed, Parked, Unstarted,
       Executing
  <2> HIDE DEF row
  <2> QED
    BY <1>1, <2>1, <2>3
<1>7. ASSUME NEW child \in Requests, Retry(r, child) PROVE AllAllowed
  <2>1. /\ requests' = [requests EXCEPT ![child] = RetryChild(r)] /\ runs' = runs
        /\ requests[child].status = "absent" /\ runs[child] = {}
    BY <1>7, BegunByStatus DEF Retry, Unstarted
  <2>2. RetryChild(r).status = "queued"
    BY <1>2 DEF RetryChild, Request
  <2> QED
    BY <1>1, <2>1, <2>2 DEF Allowed
<1>8. ASSUME NEW status \in {"succeeded", "failed"}, Resolve(r, status) PROVE AllAllowed
  <2> DEFINE row == [requests[r] EXCEPT !.status = status]
  <2>1. requests' = [requests EXCEPT ![r] = row] /\ runs' = runs
    BY <1>2, <1>8 DEF Resolve, TypeOK
  <2>2. row.status = status /\ requests[r].status = "uncertain"
    BY <1>2, <1>8 DEF Request, Resolve
  <2> HIDE DEF row
  <2> QED
    BY <1>1, <2>1, <2>2 DEF Allowed
<1>9. ASSUME NEW k \in 1..MaxFence, ClaimedOperation(r, k) PROVE AllAllowed
  <2>1. CASE Start(r, k)
    <3> DEFINE row == [requests[r] EXCEPT !.status = "running", !.run_id = k]
    <3>1. requests' = [requests EXCEPT ![r] = row]
      BY <1>2, <2>1 DEF Start, TypeOK
    <3>2. runs' = [runs EXCEPT ![r] = runs[r] \cup {k}]
      BY <2>1 DEF Start
    <3>3. row.status = "running" /\ requests[r].status = "claimed" /\ runs[r] = {}
      BY <1>2, <2>1, BegunByStatus DEF Start, Request, Unstarted
    <3> HIDE DEF row
    <3>4. Allowed(requests[r].status, runs[r] # {}, row.status, runs[r] \cup {k} # {})
      BY <3>3 DEF Allowed
    <3> QED
      BY <1>2, <3>1, <3>2, <3>4, OneAllowed
  <2>2. CASE Release(r, k)
    <3>1. Unclaimed(WithStatus(requests[r], "queued")).status = "queued"
      BY <1>2 DEF Unclaimed, WithStatus, Request
    <3> QED
      BY <1>1, <2>2, <3>1 DEF Release, Allowed, PhaseOf, Parked
  <2>3. CASE Renew(r, k)
    <3> DEFINE row == [requests[r] EXCEPT !.claim_expires_at = now + ClaimSeconds]
    <3>1. requests' = [requests EXCEPT ![r] = row] /\ runs' = runs
      BY <1>2, <2>3 DEF Renew, TypeOK
    <3>2. row.status = requests[r].status
      BY <1>2 DEF Request
    <3> HIDE DEF row
    <3> QED
      BY <1>1, <3>1, <3>2 DEF Allowed
  <2>4. ASSUME NEW status \in Terminal, Finish(r, k, status) PROVE AllAllowed
    <3> DEFINE row == Unclaimed(WithStatus(requests[r], status))
    <3>1. requests' = [requests EXCEPT ![r] = row] /\ runs' = runs
      BY <2>4 DEF Finish
    <3>2. row.status = status
      BY <1>2 DEF Unclaimed, WithStatus, Request
    <3>3. /\ requests[r].status \in {"running", "cancel_requested"} /\ runs[r] # {}
          /\ requests[r].status = "cancel_requested" => status \in {"cancelled", "uncertain"}
      BY <2>4, BegunByStatus DEF Finish, Finishable, Executing
    <3> HIDE DEF row
    <3> QED
      BY <1>1, <3>1, <3>2, <3>3 DEF Allowed
  <2>5. ASSUME NEW a \in Approvals, NEW effect \in Effects, Park(a, r, k, effect) PROVE AllAllowed
    <3>1. PICK kind \in Parked : requests' = [requests EXCEPT ![r].status = kind]
      BY <2>5 DEF Park
    <3> DEFINE row == [requests[r] EXCEPT !.status = kind]
    <3>2. requests' = [requests EXCEPT ![r] = row] /\ runs' = runs
      BY <1>2, <2>5, <3>1 DEF Park, TypeOK
    <3>3. row.status = kind /\ requests[r].status = "running"
      BY <1>2, <2>5 DEF Park, Request
    <3> HIDE DEF row
    <3> QED
      BY <1>1, <3>2, <3>3 DEF Allowed, PhaseOf, Parked
  <2> QED
    BY <1>9, <2>1, <2>2, <2>3, <2>4, <2>5 DEF ClaimedOperation
<1> QED
  BY <1>3, <1>4, <1>5, <1>6, <1>7, <1>8, <1>9 DEF RequestOperation

LEMMA ApprovalAllowed ==
  ASSUME IInv, NEW a \in Approvals, ApprovalOperation(a)
  PROVE  AllAllowed
<1> DEFINE r == approvals[a].request_id
<1>1. ASSUME r \in Requests, NEW status, requests' = [requests EXCEPT ![r].status = status],
             runs' = runs, Allowed(requests[r].status, runs[r] # {}, status, runs[r] # {})
      PROVE  AllAllowed
  <2> DEFINE row == [requests[r] EXCEPT !.status = status]
  <2>1. requests' = [requests EXCEPT ![r] = row]
    BY <1>1 DEF IInv, TypeOK
  <2>2. row.status = status
    BY <1>1 DEF IInv, TypeOK, Request
  <2>3. TypeOK /\ runs' = [runs EXCEPT ![r] = runs[r]]
    BY <1>1, SameRuns DEF IInv
  <2>4. Allowed(requests[r].status, runs[r] # {}, row.status, runs[r] # {})
    BY <1>1, <2>2
  <2>5. r \in Requests
    BY <1>1
  <2> HIDE DEF row, r
  <2> QED
    BY <2>1, <2>3, <2>4, <2>5, OneAllowed
<1>2. r # None => r \in Requests
  BY DEF IInv, TypeOK, Approval
<1>3. ASSUME NEW decision, Decide(a, decision) PROVE AllAllowed
  BY <1>3 DEF Decide, AllAllowed, Allowed
<1>4. ASSUME NEW status \in {"succeeded", "failed"}, AttestTransaction(a, status) PROVE AllAllowed
  <2>1. r \in Requests /\ requests[r].status = "uncertain"
    BY <1>2, <1>4 DEF AttestTransaction
  <2>2. requests' = [requests EXCEPT ![r].status = status] /\ runs' = runs
    BY <1>4 DEF AttestTransaction
  <2> HIDE DEF r
  <2> QED
    BY <1>1, <2>1, <2>2 DEF Allowed
<1>5. ASSUME NEW k, OwnsParked(a, k),
             requests' = [requests EXCEPT ![r].status = "running"], runs' = runs
      PROVE  AllAllowed
  <2>1. r \in Requests /\ requests[r].status \in Parked
    BY <1>2, <1>5 DEF OwnsParked
  <2> HIDE DEF r
  <2> QED
    BY <1>1, <1>5, <2>1 DEF Allowed, PhaseOf, Parked
<1> QED
  BY <1>3, <1>4, <1>5 DEF ApprovalOperation, ResumeConsuming, ResumeUnconsumed, Invalidate

\* The execution store implements OnceOnlyWork, for any number of requests, workers,
\* claims and approvals: each row's history of starts decides the phases it may reach.
THEOREM WorkIsOnceOnly == Spec => ImplementsWork
<1>1. ASSUME Init PROVE Work!WorkInit
  <2>1. \A r \in Requests : requests[r].status = "absent" /\ runs[r] = {}
    BY <1>1 DEF Init, NoRequest
  <2>2. \A r \in Requests : PhaseOf(requests[r].status) = "none" /\ (runs[r] # {}) = FALSE
    BY <2>1, PhaseValues
  <2> QED
    BY <2>2 DEF Work!WorkInit
<1>2. ASSUME IInv, [Next]_storeVars PROVE [Work!WorkNext]_Work!workVars
  <2>1. CASE UNCHANGED storeVars
    BY <2>1 DEF storeVars, Work!workVars
  <2>2. CASE Tick
    BY <1>2, <2>2, WorkStep DEF Tick, AllAllowed, Allowed
  <2>3. CASE RecoverExpired
    BY <1>2, <2>3, WorkStep, RecoverAllowed DEF RecoverExpired
  <2>4. CASE ExpireApprovals
    BY <1>2, <2>4, WorkStep DEF ExpireApprovals, AllAllowed, Allowed
  <2>5. CASE \E w \in Workers : ClaimRecover(w) \/ ClaimQueued(w)
    BY <1>2, <2>5, WorkStep, RecoverAllowed, ClaimAllowed DEF ClaimRecover
  <2>9. CASE \E w \in Workers : ClaimDropped(w)
    BY <1>2, <2>9, WorkStep DEF ClaimDropped, AllAllowed, Allowed
  <2>6. CASE \E r \in Requests : RequestOperation(r)
    BY <1>2, <2>6, WorkStep, RequestAllowed
  <2>7. CASE \E a \in Approvals : ApprovalOperation(a)
    BY <1>2, <2>7, WorkStep, ApprovalAllowed
  <2>8. CASE \E S \in SUBSET Requests : Prune(S)
    BY <1>2, <2>8, WorkStep, PruneAllowed
  <2> QED
    BY <1>2, <2>1, <2>2, <2>3, <2>4, <2>5, <2>6, <2>7, <2>8, <2>9 DEF Next
<1> QED
  BY <1>1, <1>2, Invariance, PTL DEF Spec, ImplementsWork, Work!WorkSpec

-------------------------------------------------------------------------------
(* Retries *)

Settled == Terminal \ {"uncertain"}

\* The operations that keep every row: all but Prune.
Serve ==
  \/ Tick \/ RecoverExpired \/ ExpireApprovals
  \/ \E w \in Workers : ClaimRecover(w) \/ ClaimQueued(w) \/ ClaimDropped(w)
  \/ \E r \in Requests : RequestOperation(r)
  \/ \E a \in Approvals : ApprovalOperation(a)

\* What an operation other than Prune may make of a row x: an outcome that is known is
\* kept, one that is not is settled by a person only, fences only grow and dates stay.
Evolves(x, y, settledNow) ==
  x.status # "absent" =>
    /\ y.status # "absent"
    /\ y.parent_request_id = x.parent_request_id
    /\ y.handoff_title = x.handoff_title
    /\ y.created_at = x.created_at
    /\ y.acknowledgement_expires_at = x.acknowledgement_expires_at
    /\ x.acknowledgement_delivered_at # Never => y.acknowledgement_delivered_at # Never
    /\ \/ y.claim_fence = x.claim_fence
       \/ /\ x.status = "queued" /\ y.status = "claimed"
          /\ y.claim_fence = x.claim_fence + 1 /\ y.claim_fence <= MaxFence
    /\ y.status = "pruned" => x.status = "pruned"
    /\ x.status \in Settled \cup {"pruned"} => y.status = x.status
    /\ x.status = "uncertain" =>
         y.status = "uncertain" \/ (y.status \in {"succeeded", "failed"} /\ settledNow)

\* A row that was not there is a new request, or the retry of a settled one.
Appears(r) ==
  requests[r].status = "absent" =>
    \/ requests'[r] = requests[r]
    \/ /\ requests'[r].status \in {"queued", "awaiting_acknowledgement"}
       /\ requests'[r].claim_fence \in {0} \cup {requests[p].claim_fence : p \in Requests}
       /\ requests'[r].created_at = now
       /\ LET p == requests'[r].parent_request_id
          IN p # None => p \in Requests /\ requests[p].status \in Settled

RowsMove ==
  /\ resolved \subseteq resolved'
  /\ \A r \in resolved' \ resolved : requests'[r].status \in Settled
  /\ \A r \in Requests : Appears(r) /\ Evolves(requests[r], requests'[r], r \in resolved')

\* A row that keeps its status and columns has moved.
LEMMA SameMoves == ASSUME NEW row \in Request, NEW b PROVE Evolves(row, row, b)
  BY DEF Evolves, Request

LEMMA NoneMoves == ASSUME IInv, UNCHANGED <<requests, resolved>> PROVE RowsMove
<1>1. \A r \in Requests : requests[r] \in Request
  BY DEF IInv, TypeOK
<1> QED
  BY <1>1, SameMoves DEF RowsMove, Appears

\* An operation rewrites one row that was there.
LEMMA OneMoves ==
  ASSUME IInv, NEW r \in Requests, NEW row, requests' = [requests EXCEPT ![r] = row],
         requests[r].status # "absent", resolved \subseteq resolved', resolved' \subseteq resolved \cup {r},
         r \in resolved' \ resolved => row.status \in Settled,
         Evolves(requests[r], row, r \in resolved')
  PROVE  RowsMove
<1>1. /\ \A q \in Requests : requests[q] \in Request
      /\ requests'[r] = row /\ \A q \in Requests : q # r => requests'[q] = requests[q]
  BY DEF IInv, TypeOK
<1>2. \A q \in Requests : Evolves(requests[q], requests'[q], q \in resolved')
  BY <1>1, SameMoves
<1>3. \A q \in Requests : Appears(q)
  BY <1>1 DEF Appears
<1> QED
  BY <1>1, <1>2, <1>3 DEF RowsMove

\* An operation inserts one row.
LEMMA NewMoves ==
  ASSUME IInv, NEW r \in Requests, NEW row, requests' = [requests EXCEPT ![r] = row],
         requests[r].status = "absent", UNCHANGED resolved,
         row.status \in {"queued", "awaiting_acknowledgement"},
         row.claim_fence \in {0} \cup {requests[p].claim_fence : p \in Requests},
         row.created_at = now,
         row.parent_request_id # None =>
           row.parent_request_id \in Requests /\ requests[row.parent_request_id].status \in Settled
  PROVE  RowsMove
<1>1. /\ \A q \in Requests : requests[q] \in Request
      /\ requests'[r] = row /\ \A q \in Requests : q # r => requests'[q] = requests[q]
  BY DEF IInv, TypeOK
<1>2. \A q \in Requests : Evolves(requests[q], requests'[q], q \in resolved')
  <2> TAKE q \in Requests
  <2>1. CASE q = r
    BY <2>1 DEF Evolves
  <2>2. CASE q # r
    BY <1>1, <2>2, SameMoves
  <2> QED
    BY <2>1, <2>2
<1>3. \A q \in Requests : Appears(q)
  BY <1>1 DEF Appears
<1> QED
  BY <1>2, <1>3 DEF RowsMove

\* What recovery leaves of a row, and what it changes.
LEMMA RecoveredRow ==
  ASSUME NEW row \in Request, NEW t \in Nat
  PROVE  /\ Recovered(row, t).parent_request_id = row.parent_request_id
         /\ Recovered(row, t).handoff_title = row.handoff_title
         /\ Recovered(row, t).created_at = row.created_at
         /\ Recovered(row, t).acknowledgement_expires_at = row.acknowledgement_expires_at
         /\ Recovered(row, t).acknowledgement_delivered_at = row.acknowledgement_delivered_at
         /\ Recovered(row, t).claim_fence = row.claim_fence
         /\ \/ Recovered(row, t).status = row.status
            \/ /\ row.status \in Active \cup {"awaiting_acknowledgement", "queued"}
               /\ Recovered(row, t).status \in {"blocked", "queued", "uncertain"}
<1>1. ASSUME NEW status
      PROVE  /\ WithStatus(row, status).parent_request_id = row.parent_request_id
             /\ WithStatus(row, status).handoff_title = row.handoff_title
             /\ WithStatus(row, status).created_at = row.created_at
             /\ WithStatus(row, status).acknowledgement_expires_at
                  = row.acknowledgement_expires_at
             /\ WithStatus(row, status).acknowledgement_delivered_at = row.acknowledgement_delivered_at
             /\ WithStatus(row, status).claim_fence = row.claim_fence
             /\ WithStatus(row, status).status = status
             /\ Unclaimed(WithStatus(row, status)).parent_request_id = row.parent_request_id
             /\ Unclaimed(WithStatus(row, status)).handoff_title = row.handoff_title
             /\ Unclaimed(WithStatus(row, status)).created_at = row.created_at
             /\ Unclaimed(WithStatus(row, status)).acknowledgement_expires_at
                  = row.acknowledgement_expires_at
             /\ Unclaimed(WithStatus(row, status)).acknowledgement_delivered_at
                  = row.acknowledgement_delivered_at
             /\ Unclaimed(WithStatus(row, status)).claim_fence = row.claim_fence
             /\ Unclaimed(WithStatus(row, status)).status = status
  BY DEF WithStatus, Unclaimed, Request
<1> QED
  BY <1>1 DEF Recovered

LEMMA RecoverMoves == ASSUME IInv, Recover(now), UNCHANGED resolved PROVE RowsMove
<1>1. \A r \in Requests : requests'[r] = Recovered(requests[r], now) /\ requests[r] \in Request
  BY DEF Recover, IInv, TypeOK
<1>2. ASSUME NEW r \in Requests PROVE Evolves(requests[r], requests'[r], r \in resolved')
  <2>1. now \in Nat
    BY DEF IInv, TypeOK
  <2> QED
    BY <1>1, <2>1, RecoveredRow DEF Evolves, Settled, Terminal, Active, Parked
<1>3. \A r \in Requests : Appears(r)
  BY <1>1 DEF Appears, Recovered, Active, Parked
<1> QED
  BY <1>2, <1>3 DEF RowsMove

LEMMA ClaimMoves == ASSUME IInv, NEW w \in Workers, ClaimQueued(w) PROVE RowsMove
<1>1. PICK S \in SUBSET {r \in Requests : Claimable(r, scanning[w])} :
        /\ \A r \in S : requests[r].claim_fence < MaxFence
        /\ requests' = [r \in Requests |->
             IF r \in S THEN ClaimedRow(requests[r], scanning[w]) ELSE requests[r]]
  BY DEF ClaimQueued
<1>2. \A r \in Requests : requests[r] \in Request
  BY DEF IInv, TypeOK
<1>3. ASSUME NEW r \in Requests
      PROVE  Appears(r) /\ Evolves(requests[r], requests'[r], r \in resolved')
  <2>1. CASE r \in S
    <3> DEFINE x == requests[r]
               y == requests'[r]
    <3>1. x.status = "queued" /\ y = ClaimedRow(x, scanning[w]) /\ x.claim_fence < MaxFence
      BY <1>1, <2>1 DEF Claimable
    <3>2. x \in Request
      BY <1>2
    <3>3. /\ y.status = "claimed" /\ y.claim_fence = x.claim_fence + 1
          /\ y.parent_request_id = x.parent_request_id
          /\ y.handoff_title = x.handoff_title
          /\ y.created_at = x.created_at
          /\ y.acknowledgement_expires_at = x.acknowledgement_expires_at
          /\ y.acknowledgement_delivered_at = x.acknowledgement_delivered_at
      BY <3>1, <3>2 DEF ClaimedRow, Request
    <3>4. x.claim_fence \in Nat
      BY <3>2 DEF Request
    <3> HIDE DEF x, y
    <3>5. Evolves(x, y, r \in resolved')
      BY <3>1, <3>3, <3>4 DEF Evolves, Settled, Terminal
    <3> QED
      BY <3>1, <3>5 DEF Appears, x, y
  <2>2. CASE r \notin S
    BY <1>1, <1>2, <2>2, SameMoves DEF Appears
  <2> QED
    BY <2>1, <2>2
<1> QED
  BY <1>3 DEF RowsMove, ClaimQueued

LEMMA SubmitMoves == ASSUME IInv, NEW r \in Requests, Submit(r) PROVE RowsMove
<1>1. PICK kind \in Kinds, held \in Holds :
        \E expires \in ContractDeadlines(kind), parent \in ContractParents(kind) :
          requests' = [requests EXCEPT ![r] = NewRequest(kind, held, expires, parent)]
  BY DEF Submit
<1>2. PICK expires \in ContractDeadlines(kind), parent \in ContractParents(kind) :
        requests' = [requests EXCEPT ![r] = NewRequest(kind, held, expires, parent)]
  BY <1>1
<1> DEFINE row == NewRequest(kind, held, expires, parent)
<1>3. /\ row.status \in {"queued", "awaiting_acknowledgement"} /\ row.claim_fence = 0
      /\ row.parent_request_id = parent /\ row.created_at = now
  BY DEF NewRequest
<1>4. parent # None => parent \in Requests /\ requests[parent].status \in Settled
  BY DEF ContractParents, IsRetryable, Settled, Terminal
<1> HIDE DEF row
<1> QED
  BY <1>2, <1>3, <1>4, NewMoves DEF Submit, row

LEMMA RetryMoves ==
  ASSUME IInv, NEW r \in Requests, NEW child \in Requests, Retry(r, child) PROVE RowsMove
<1> DEFINE row == RetryChild(r)
<1>1. requests[r] \in Request
  BY DEF IInv, TypeOK
<1>2. /\ row.status = "queued" /\ row.claim_fence = requests[r].claim_fence
      /\ row.parent_request_id = r /\ row.created_at = now
  BY <1>1 DEF RetryChild, Request
<1>3. requests[r].status \in Settled
  BY DEF Retry, IsRetryable, Settled, Terminal
<1> HIDE DEF row
<1> QED
  BY <1>2, <1>3, NewMoves DEF Retry, row

\* An operation replaces the status of a row, and perhaps its claim, in an order the
\* outcomes allow.
LEMMA StatusMoves ==
  ASSUME IInv, NEW r \in Requests, NEW row, requests' = [requests EXCEPT ![r] = row],
         UNCHANGED resolved,
         requests[r].status \notin {"absent", "pruned"} \cup Terminal, row.status \notin {"absent", "pruned"},
         row.parent_request_id = requests[r].parent_request_id,
         row.handoff_title = requests[r].handoff_title,
         row.created_at = requests[r].created_at,
         row.acknowledgement_expires_at = requests[r].acknowledgement_expires_at,
         requests[r].acknowledgement_delivered_at # Never => row.acknowledgement_delivered_at # Never,
         row.claim_fence = requests[r].claim_fence
  PROVE  RowsMove
<1>1. Evolves(requests[r], row, r \in resolved')
  BY DEF Evolves, Settled, Terminal
<1> QED
  BY <1>1, OneMoves

LEMMA ClaimedMoves ==
  ASSUME IInv, NEW r \in Requests, NEW k, ClaimedOperation(r, k)
  PROVE  RowsMove
<1>1. requests[r] \in Request
  BY DEF IInv, TypeOK
<1>2. Fenced(r, k) /\ requests[r].status \notin {"absent", "pruned"} \cup Terminal
  BY DEF ClaimedOperation, Start, Release, Renew, Finish, Finishable, Park, Fenced, Active, Parked, Terminal
<1>3. CASE Start(r, k)
  BY <1>1, <1>2, <1>3, StatusMoves DEF Start, Request, IInv, TypeOK
<1>4. CASE Release(r, k)
  BY <1>1, <1>2, <1>4, StatusMoves DEF Release, Unclaimed, WithStatus, Request
<1>5. CASE Renew(r, k)
  BY <1>1, <1>2, <1>5, StatusMoves DEF Renew, Request
<1>6. ASSUME NEW status \in Terminal, Finish(r, k, status) PROVE RowsMove
  BY <1>1, <1>2, <1>6, StatusMoves DEF Finish, Unclaimed, WithStatus, Request, Terminal
<1>7. ASSUME NEW a \in Approvals, NEW effect \in Effects, Park(a, r, k, effect) PROVE RowsMove
  <2>1. PICK kind \in Parked : requests' = [requests EXCEPT ![r].status = kind]
    BY <1>7 DEF Park
  <2> QED
    BY <1>1, <1>2, <1>7, <2>1, StatusMoves DEF Park, Request, Parked
<1> QED
  BY <1>3, <1>4, <1>5, <1>6, <1>7 DEF ClaimedOperation

LEMMA CancelMoves == ASSUME IInv, NEW r \in Requests, Cancel(r) PROVE RowsMove
<1>1. requests[r] \in Request
  BY DEF IInv, TypeOK
<1> QED
  BY <1>1, StatusMoves DEF Cancel, Stored, Unclaimed, WithStatus, Request

LEMMA AcknowledgementMoves ==
  ASSUME IInv, NEW r \in Requests, NEW outbox \in Outboxes,
         AttachAcknowledgement(r, outbox) \/ ReleaseAcknowledged(r, outbox)
  PROVE  RowsMove
<1>1. requests[r] \in Request /\ requests[r].status \notin {"absent", "pruned"}
  BY DEF IInv, TypeOK, AttachAcknowledgement, ReleaseAcknowledged, Stored
<1>2. CASE AttachAcknowledgement(r, outbox)
  <2> DEFINE row == [requests[r] EXCEPT !.acknowledgement_outbox_id = outbox]
  <2>1. Evolves(requests[r], row, r \in resolved')
    BY <1>1 DEF Evolves, Request, Settled
  <2> QED
    BY <1>1, <1>2, <2>1, OneMoves DEF AttachAcknowledgement
<1>3. CASE ReleaseAcknowledged(r, outbox)
  <2> DEFINE row == requests'[r]
  <2>1. /\ requests' = [requests EXCEPT ![r] = row]
        /\ row.acknowledgement_delivered_at = IF requests[r].acknowledgement_delivered_at = Never
             THEN now ELSE requests[r].acknowledgement_delivered_at
        /\ row.status = IF requests[r].status # "awaiting_acknowledgement" THEN requests[r].status
             ELSE IF requests[r].acknowledgement_expires_at <= now \/ requests[r].expires_at <= now
                  THEN "blocked" ELSE "queued"
        /\ row.parent_request_id = requests[r].parent_request_id
        /\ row.handoff_title = requests[r].handoff_title
        /\ row.created_at = requests[r].created_at
        /\ row.acknowledgement_expires_at = requests[r].acknowledgement_expires_at
        /\ row.claim_fence = requests[r].claim_fence
    BY <1>1, <1>3 DEF ReleaseAcknowledged, IInv, TypeOK, Request
  <2> HIDE DEF row
  <2>2. Evolves(requests[r], row, r \in resolved')
    BY <1>1, <2>1 DEF Evolves, Request, Settled, Terminal
  <2> QED
    BY <1>1, <1>3, <2>1, <2>2, OneMoves DEF ReleaseAcknowledged
<1> QED
  BY <1>2, <1>3

\* A person settles an uncertain outcome.
LEMMA SettleMoves ==
  ASSUME IInv, NEW r \in Requests, NEW status \in {"succeeded", "failed"},
         requests[r].status = "uncertain", requests' = [requests EXCEPT ![r].status = status],
         resolved' = resolved \cup {r}
  PROVE  RowsMove
<1> DEFINE row == [requests[r] EXCEPT !.status = status]
<1>1. requests[r] \in Request
  BY DEF IInv, TypeOK
<1>2. row.status = status /\ Evolves(requests[r], row, r \in resolved')
  BY <1>1 DEF Evolves, Request, Settled
<1>3. status \in Settled
  BY DEF Settled, Terminal
<1> HIDE DEF row
<1> QED
  BY <1>2, <1>3, OneMoves DEF row

LEMMA ApprovalMoves ==
  ASSUME IInv, NEW a \in Approvals, ApprovalOperation(a)
  PROVE  RowsMove
<1> DEFINE r == approvals[a].request_id
<1>1. r # None => r \in Requests
  BY DEF IInv, TypeOK, Approval
<1>2. ASSUME NEW decision, Decide(a, decision) PROVE RowsMove
  BY <1>2, NoneMoves DEF Decide
<1>3. ASSUME NEW status \in {"succeeded", "failed"}, AttestTransaction(a, status) PROVE RowsMove
  BY <1>1, <1>3, SettleMoves DEF AttestTransaction
<1>4. ASSUME NEW k, ResumeConsuming(a, k) \/ ResumeUnconsumed(a, k) \/ Invalidate(a, k)
      PROVE  RowsMove
  <2>1. r \in Requests /\ requests[r].status \in Parked
    BY <1>1, <1>4 DEF ResumeConsuming, ResumeUnconsumed, Invalidate, OwnsParked
  <2>2. requests[r] \in Request
    BY <2>1 DEF IInv, TypeOK
  <2>3. requests' = [requests EXCEPT ![r] = [requests[r] EXCEPT !.status = "running"]]
        /\ UNCHANGED resolved
    BY <1>4 DEF ResumeConsuming, ResumeUnconsumed, Invalidate
  <2> HIDE DEF r
  <2> QED
    BY <2>1, <2>2, <2>3, StatusMoves DEF Request, Parked, Terminal
<1> QED
  BY <1>2, <1>3, <1>4 DEF ApprovalOperation

\* Every operation but Prune moves the rows as said.
LEMMA ServeMoves == ASSUME IInv, Serve PROVE RowsMove
<1>1. ASSUME NEW r \in Requests, RequestOperation(r) PROVE RowsMove
  <2>1. ASSUME NEW status \in {"succeeded", "failed"}, Resolve(r, status) PROVE RowsMove
    BY <2>1, SettleMoves DEF Resolve
  <2> QED
    BY <1>1, <2>1, SubmitMoves, AcknowledgementMoves, CancelMoves, RetryMoves, ClaimedMoves
       DEF RequestOperation
<1>2. CASE Tick \/ ExpireApprovals \/ \E w \in Workers : ClaimDropped(w)
  BY <1>2, NoneMoves DEF Tick, ExpireApprovals, ClaimDropped
<1> QED
  BY <1>1, <1>2, RecoverMoves, ClaimMoves, ApprovalMoves DEF Serve, RecoverExpired, ClaimRecover

\* No operation sets a retry beside an attempt that may still run, and the foreign key
\* keeps the attempt as long as its retry.
LEMMA ParallelNext ==
  ASSUME IInv, NoParallelAttempts, [Next]_storeVars
  PROVE  NoParallelAttempts'
<1> SUFFICES ASSUME NEW r \in Requests, Stored(r)', requests'[r].parent_request_id # None
             PROVE  requests'[requests'[r].parent_request_id].status \in Terminal \ {"uncertain"}
  BY DEF NoParallelAttempts
<1> DEFINE p == requests'[r].parent_request_id
<1>1. \A q \in Requests : requests[q].parent_request_id \in Requests \cup {None}
  BY DEF IInv, TypeOK, Request
<1>2. CASE RowsMove
  <2>1. p \in Requests /\ requests[p].status \in Settled
    <3>1. CASE requests[r].status = "absent"
      BY <1>2, <3>1 DEF RowsMove, Appears, Stored
    <3>2. CASE requests[r].status # "absent"
      <4>1. p = requests[r].parent_request_id /\ requests[r].status # "pruned"
        BY <1>2, <3>2 DEF RowsMove, Evolves, Stored, Settled
      <4> QED
        BY <1>1, <3>2, <4>1 DEF NoParallelAttempts, Stored, Settled
    <3> QED
      BY <3>1, <3>2
  <2>2. Evolves(requests[p], requests'[p], p \in resolved')
    BY <1>2, <2>1 DEF RowsMove
  <2> QED
    BY <2>1, <2>2 DEF Evolves, Settled, Terminal
<1>3. ASSUME NEW S \in SUBSET Requests, Prune(S) PROVE p \in Requests /\ requests'[p].status \in Settled
  <2>1. r \notin S /\ requests'[r] = requests[r]
    BY <1>3 DEF Prune, Stored, WithStatus, NoRequest
  <2>2. p \in Requests /\ requests[p].status \in Settled /\ p \notin S
    BY <1>1, <1>3, <2>1 DEF NoParallelAttempts, Stored, Settled, Prune
  <2> QED
    BY <1>3, <2>2 DEF Prune
<1>4. CASE UNCHANGED storeVars
  BY <1>4, <1>2, NoneMoves DEF storeVars
<1> QED
  BY <1>2, <1>3, <1>4, ServeMoves DEF Next, Serve, Settled

\* A retry and the attempt it repeats never execute side by side, whatever is submitted,
\* retried, resolved, recovered or pruned.
THEOREM RetryAfterEnd == Spec => []NoParallelAttempts
<1>1. Init => NoParallelAttempts
  BY DEF Init, NoParallelAttempts, Stored, NoRequest
<1> QED
  BY <1>1, Invariance, ParallelNext, PTL DEF Spec
===============================================================================
