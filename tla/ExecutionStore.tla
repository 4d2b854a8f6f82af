---------------------------- MODULE ExecutionStore ----------------------------
(***************************************************************************)
(* The durable store of background work, src/ricky/executions/store.py:    *)
(* one SQLite table of execution requests and one of parked browser        *)
(* approvals.  Every operation is one BEGIN IMMEDIATE transaction, hence   *)
(* one atomic action here; claim() is two transactions, hence two actions. *)
(*                                                                         *)
(* The callers are unconstrained: any claim ever issued may be presented   *)
(* at any later moment, as a worker that stalls past its lease does.  A    *)
(* call that raises changes nothing and is therefore no step at all.       *)
(*                                                                         *)
(* A SQL NULL deadline is Never, a time beyond the clock's reach: like     *)
(* NULL, it makes every "deadline <= now" false.  A NULL token, fence or   *)
(* run is 0.  The claim token issued with fence k is k: both are fresh for *)
(* every claim of a request.                                               *)
(***************************************************************************)
EXTENDS Naturals, FiniteSets

CONSTANTS
  Requests,         \* ids of execution requests, never reused
  Approvals,        \* ids of parked browser approvals, never reused
  Effects,          \* logical_effect_key values
  Outboxes,         \* ids of acknowledgement outbox records
  Workers,          \* processes that call claim()
  None,             \* SQL NULL where the column holds an id
  Kinds,            \* kinds of request submitted, of {"named_job", "ad_hoc"}
  Holds,            \* whether a submission may await its acknowledgement
  Lifetimes,        \* possible distances from creation to expires_at
  ClaimSeconds,     \* executions.claim_seconds
  AckSeconds,       \* executions.acknowledgement_ttl_seconds
  ApprovalSeconds,  \* lifetime of a browser approval
  Limit,            \* executions.concurrency, the size of a claim batch
  MaxTime,          \* bound of the exploration: last instant of the clock
  MaxFence,         \* bound of the exploration: claims of one request
  Never             \* NULL deadline

ASSUME NoneAssumption ==
  None \notin Requests \cup Outboxes

ASSUME KindsAssumption ==
  /\ Kinds \subseteq {"named_job", "ad_hoc"}
  /\ Holds \subseteq BOOLEAN

ASSUME TimeAssumption ==
  /\ ClaimSeconds \in Nat \ {0}
  /\ AckSeconds \in Nat \ {0}
  /\ ApprovalSeconds \in Nat \ {0}
  /\ Lifetimes \subseteq Nat \ {0}
  /\ Limit \in Nat \ {0}
  /\ MaxTime \in Nat
  /\ MaxFence \in Nat
  /\ Never \in Nat
  /\ MaxTime + ClaimSeconds < Never
  /\ MaxTime + AckSeconds < Never
  /\ MaxTime + ApprovalSeconds < Never
  /\ \A l \in Lifetimes : MaxTime + l < Never

VARIABLES
  requests,   \* table execution_requests
  approvals,  \* table execution_browser_approvals
  resolved,   \* requests with a row in execution_resolutions
  scanning,   \* worker -> the "now" its claim() call captured, or Never
  now,        \* the clock every caller reads
  runs        \* history: the fences under which each request was started

storeVars == <<requests, approvals, resolved, scanning, now, runs>>

-------------------------------------------------------------------------------
(* Statuses *)

Parked == {"awaiting_protected_approval", "awaiting_transaction_approval"}

Active == {"claimed", "running", "cancel_requested"} \cup Parked

\* The statuses in which a worker's run exists.
Executing == {"running", "cancel_requested"} \cup Parked

Terminal == {"succeeded", "failed", "blocked", "cancelled", "uncertain"}

\* "absent" and "pruned" are ids without a row, before and after its life.
Statuses ==
  {"absent", "awaiting_acknowledgement", "queued", "pruned"} \cup Active \cup Terminal

\* Mutant: an unresolved outcome may be retried.
IsRetryableWhileUncertain(status) == status \in Terminal

IsRetryable(status) == status \in {"succeeded", "failed", "blocked", "cancelled"}

Request == [
  kind : {"named_job", "ad_hoc"},
  status : Statuses,
  handoff_title : BOOLEAN,
  acknowledgement_outbox_id : Outboxes \cup {None},
  acknowledgement_delivered_at : Nat,
  acknowledgement_expires_at : Nat,
  expires_at : Nat,
  created_at : Nat,
  parent_request_id : Requests \cup {None},
  claim_token : Nat,
  claim_fence : Nat,
  claim_expires_at : Nat,
  run_id : Nat]

NoRequest == [
  kind |-> "named_job", status |-> "absent", handoff_title |-> FALSE,
  acknowledgement_outbox_id |-> None, acknowledgement_delivered_at |-> Never,
  acknowledgement_expires_at |-> Never, expires_at |-> Never, created_at |-> 0,
  parent_request_id |-> None, claim_token |-> 0, claim_fence |-> 0,
  claim_expires_at |-> Never, run_id |-> 0]

ActiveApproval == {"pending", "approved"}

ApprovalStates ==
  {"absent", "pending", "approved", "denied", "expired", "invalidated", "consumed", "pruned"}

Approval == [
  kind : Parked,
  state : ApprovalStates,
  request_id : Requests \cup {None},
  logical_effect_key : Effects \cup {None},
  claim_fence : Nat,
  expires_at : Nat]

NoApproval == [
  kind |-> "awaiting_transaction_approval", state |-> "absent", request_id |-> None,
  logical_effect_key |-> None, claim_fence |-> 0, expires_at |-> Never]

Lesser(a, b) == IF a <= b THEN a ELSE b

-------------------------------------------------------------------------------
(* Row updates shared by several operations *)

\* _required: the row exists.
Stored(r) == requests[r].status \notin {"absent", "pruned"}

Unclaimed(row) == [row EXCEPT !.claim_token = 0, !.claim_expires_at = Never]

WithStatus(row, status) == [row EXCEPT !.status = status]

\* Mutant: the caller's claim is not compared with the row's.
FencedByStatusAlone(r, k) == requests[r].status \in Active

\* _fenced: the caller's token and fence are the ones of the current claim.
Fenced(r, k) ==
  /\ requests[r].status \in Active
  /\ requests[r].claim_token = k
  /\ requests[r].claim_fence = k

\* _invalidate_active_browser_approval for every request of S.
InvalidateActive(S) ==
  [a \in Approvals |->
     IF approvals[a].request_id \in S /\ approvals[a].state \in ActiveApproval
     THEN [approvals[a] EXCEPT !.state = "invalidated"]
     ELSE approvals[a]]

-------------------------------------------------------------------------------
(* Admission *)

\* The row start_named_job and create_contract_execution_request build.
NewRequest(kind, held, expires, parent) == [
  kind |-> kind,
  status |-> IF held THEN "awaiting_acknowledgement" ELSE "queued",
  handoff_title |-> held,
  acknowledgement_outbox_id |-> None,
  acknowledgement_delivered_at |-> Never,
  acknowledgement_expires_at |-> IF held THEN Lesser(expires, now + AckSeconds) ELSE Never,
  expires_at |-> expires,
  created_at |-> now,
  parent_request_id |-> parent,
  claim_token |-> 0,
  claim_fence |-> 0,
  claim_expires_at |-> Never,
  run_id |-> 0]

\* Only a contract gives a request a deadline and a retried parent.
ContractDeadlines(kind) ==
  {Never} \cup (IF kind = "ad_hoc" THEN {now + l : l \in Lifetimes} ELSE {})

ContractParents(kind) ==
  {None} \cup {p \in Requests : /\ kind = "ad_hoc"
                                /\ requests[p].kind = "ad_hoc"
                                /\ IsRetryable(requests[p].status)}

\* A second submission of a request_key returns the stored row: no step.
Submit(r) ==
  /\ requests[r].status = "absent"
  /\ \E kind \in Kinds, held \in Holds :
       \E expires \in ContractDeadlines(kind), parent \in ContractParents(kind) :
         requests' = [requests EXCEPT ![r] = NewRequest(kind, held, expires, parent)]
  /\ UNCHANGED <<approvals, resolved, scanning, now, runs>>

AttachAcknowledgement(r, outbox) ==
  /\ Stored(r)
  /\ requests[r].acknowledgement_outbox_id \in {None, outbox}
  /\ requests[r].handoff_title
  /\ requests' = [requests EXCEPT ![r].acknowledgement_outbox_id = outbox]
  /\ UNCHANGED <<approvals, resolved, scanning, now, runs>>

\* Delivery is recorded whatever became of the request; only a held one moves.
ReleaseAcknowledged(r, outbox) ==
  LET row == requests[r]
      expired == row.acknowledgement_expires_at <= now \/ row.expires_at <= now
      released == IF row.status # "awaiting_acknowledgement" THEN row.status
                  ELSE IF expired THEN "blocked" ELSE "queued"
  IN /\ Stored(r)
     /\ row.acknowledgement_outbox_id = outbox
     /\ row.handoff_title
     /\ requests' = [requests EXCEPT
          ![r].acknowledgement_delivered_at = IF @ = Never THEN now ELSE @,
          ![r].status = released]
     /\ UNCHANGED <<approvals, resolved, scanning, now, runs>>

-------------------------------------------------------------------------------
(* Leases *)

\* Mutants of recovery: every lapsed claim is requeued; the claim columns
\* survive; a lapsed cancellation is forgotten.
RecoveredByRequeue(row, t) ==
  IF row.status \in Active /\ row.claim_expires_at <= t
  THEN Unclaimed(WithStatus(row, "queued")) ELSE row

RecoveredKeepingClaim(row, t) ==
  IF row.status = "claimed" /\ row.claim_expires_at <= t
  THEN WithStatus(row, "queued") ELSE row

RecoveredExceptCancellations(row, t) ==
  IF row.status \in Active \ {"cancel_requested"} /\ row.claim_expires_at <= t
  THEN Unclaimed(WithStatus(row, "uncertain")) ELSE row

\* What _recover_expired makes of one row at time t.
Recovered(row, t) ==
  IF \/ row.status = "awaiting_acknowledgement" /\ row.acknowledgement_expires_at <= t
     \/ row.status \in {"awaiting_acknowledgement", "queued"} /\ row.expires_at <= t
  THEN WithStatus(row, "blocked")
  ELSE IF row.status \in Active /\ row.claim_expires_at <= t
  THEN Unclaimed(WithStatus(row,
         IF row.status = "claimed" THEN "queued"
         ELSE IF row.status \in Parked THEN "blocked" ELSE "uncertain"))
  ELSE row

Recover(t) ==
  /\ requests' = [r \in Requests |-> Recovered(requests[r], t)]
  /\ approvals' = InvalidateActive(
       {r \in Requests : requests[r].status \in Parked /\ requests[r].claim_expires_at <= t})

RecoverExpired ==
  /\ Recover(now)
  /\ UNCHANGED <<resolved, scanning, now, runs>>

\* claim(), first transaction: recover, with the "now" both transactions use.
ClaimRecover(w) ==
  /\ scanning[w] = Never
  /\ Recover(now)
  /\ scanning' = [scanning EXCEPT ![w] = now]
  /\ UNCHANGED <<resolved, now, runs>>

\* Mutant: held requests are claimed with the queued ones.
ClaimableWhileHeld(r, t) ==
  /\ requests[r].status \in {"queued", "awaiting_acknowledgement"}
  /\ requests[r].expires_at > t

Claimable(r, t) == requests[r].status = "queued" /\ requests[r].expires_at > t

ClaimedRow(row, t) == [row EXCEPT
  !.status = "claimed", !.claim_fence = @ + 1, !.claim_token = row.claim_fence + 1,
  !.claim_expires_at = t + ClaimSeconds]

\* claim(), second transaction: the oldest claimable rows, at most Limit.
ClaimQueued(w) ==
  LET t == scanning[w]
      candidates == {r \in Requests : Claimable(r, t)}
  IN /\ t # Never
     /\ \E S \in SUBSET candidates :
          /\ Cardinality(S) = Lesser(Limit, Cardinality(candidates))
          /\ \A r \in S, q \in candidates \ S : requests[r].created_at <= requests[q].created_at
          /\ \A r \in S : requests[r].claim_fence < MaxFence
          /\ requests' = [r \in Requests |->
               IF r \in S THEN ClaimedRow(requests[r], t) ELSE requests[r]]
     /\ scanning' = [scanning EXCEPT ![w] = Never]
     /\ UNCHANGED <<approvals, resolved, now, runs>>

\* The process of a claim() call ends between its two transactions.
ClaimDropped(w) ==
  /\ scanning[w] # Never
  /\ scanning' = [scanning EXCEPT ![w] = Never]
  /\ UNCHANGED <<requests, approvals, resolved, now, runs>>

Start(r, k) ==
  /\ Fenced(r, k)
  /\ requests[r].status = "claimed"
  /\ requests' = [requests EXCEPT ![r].status = "running", ![r].run_id = k]
  /\ runs' = [runs EXCEPT ![r] = @ \cup {k}]
  /\ UNCHANGED <<approvals, resolved, scanning, now>>

Release(r, k) ==
  /\ Fenced(r, k)
  /\ requests[r].status = "claimed"
  /\ requests' = [requests EXCEPT ![r] = Unclaimed(WithStatus(@, "queued"))]
  /\ UNCHANGED <<approvals, resolved, scanning, now, runs>>

\* No expiry check: a lapsed lease nobody recovered yet is renewed.
Renew(r, k) ==
  /\ Fenced(r, k)
  /\ requests' = [requests EXCEPT ![r].claim_expires_at = now + ClaimSeconds]
  /\ UNCHANGED <<approvals, resolved, scanning, now, runs>>

\* A parked execution cannot finish: its approval is either unsettled, or
\* settled and then no longer found by _active_browser_approval.
Finishable(r, k, status) ==
  /\ Fenced(r, k)
  /\ requests[r].status \in {"running", "cancel_requested"}
  /\ requests[r].status = "cancel_requested" => status \in {"cancelled", "uncertain"}

Finish(r, k, status) ==
  /\ Finishable(r, k, status)
  /\ requests' = [requests EXCEPT ![r] = Unclaimed(WithStatus(@, status))]
  /\ UNCHANGED <<approvals, resolved, scanning, now, runs>>

-------------------------------------------------------------------------------
(* User operations *)

\* Mutant: the open approval of a cancelled request stays usable.
CancelKeepingApproval(r) ==
  /\ Stored(r)
  /\ requests[r].status \notin Terminal \cup {"cancel_requested"}
  /\ requests' = [requests EXCEPT ![r] =
       IF @.status \in {"running"} \cup Parked
       THEN WithStatus(@, "cancel_requested")
       ELSE Unclaimed(WithStatus(@, "cancelled"))]
  /\ UNCHANGED <<approvals, resolved, scanning, now, runs>>

Cancel(r) ==
  /\ Stored(r)
  /\ requests[r].status \notin Terminal \cup {"cancel_requested"}
  /\ requests' = [requests EXCEPT ![r] =
       IF @.status \in {"running"} \cup Parked
       THEN WithStatus(@, "cancel_requested")
       ELSE Unclaimed(WithStatus(@, "cancelled"))]
  /\ approvals' = IF requests[r].status \in Parked THEN InvalidateActive({r}) ELSE approvals
  /\ UNCHANGED <<resolved, scanning, now, runs>>

\* The child keeps everything of the original it does not reset here, its
\* claim_fence included.
RetryChild(r) == [requests[r] EXCEPT
  !.status = "queued", !.handoff_title = FALSE, !.acknowledgement_outbox_id = None,
  !.acknowledgement_delivered_at = Never, !.acknowledgement_expires_at = Never,
  !.parent_request_id = r, !.created_at = now, !.claim_token = 0,
  !.claim_expires_at = Never, !.run_id = 0]

\* retry_execution_request refuses ad hoc requests.
Retry(r, child) ==
  /\ Stored(r)
  /\ requests[r].kind = "named_job"
  /\ IsRetryable(requests[r].status)
  /\ requests[child].status = "absent"
  /\ requests' = [requests EXCEPT ![child] = RetryChild(r)]
  /\ UNCHANGED <<approvals, resolved, scanning, now, runs>>

\* Mutant: the disposition is stored as if it were the status.
ResolveUntranslated(r, status) ==
  /\ requests[r].status = "uncertain"
  /\ requests' = [requests EXCEPT ![r].status = "confirmed_completed"]
  /\ resolved' = resolved \cup {r}
  /\ UNCHANGED <<approvals, scanning, now, runs>>

Resolve(r, status) ==
  /\ requests[r].status = "uncertain"
  /\ requests' = [requests EXCEPT ![r].status = status]
  /\ resolved' = resolved \cup {r}
  /\ UNCHANGED <<approvals, scanning, now, runs>>

\* One transaction deletes all of S; a surviving row whose parent_request_id
\* names a deleted one is a foreign key error that undoes it all.
Prune(S) ==
  /\ S # {}
  /\ \A r \in S : requests[r].status \in {"succeeded", "cancelled"}
  /\ \A q \in Requests \ S : Stored(q) => requests[q].parent_request_id \notin S
  /\ requests' = [r \in Requests |->
       IF r \in S THEN WithStatus(NoRequest, "pruned") ELSE requests[r]]
  /\ approvals' = [a \in Approvals |->
       IF approvals[a].request_id \in S THEN [NoApproval EXCEPT !.state = "pruned"]
       ELSE approvals[a]]
  /\ resolved' = resolved \ S
  /\ UNCHANGED <<scanning, now, runs>>

-------------------------------------------------------------------------------
(* Parked browser approvals *)

\* Mutant: only the request's own open approval is looked for.
ParkIgnoringEffect(a, r, k, effect) ==
  /\ approvals[a].state = "absent"
  /\ Fenced(r, k)
  /\ requests[r].status = "running"
  /\ \A b \in Approvals : approvals[b].request_id = r => approvals[b].state \notin ActiveApproval
  /\ approvals' = [approvals EXCEPT ![a] =
       [kind |-> "awaiting_transaction_approval", state |-> "pending", request_id |-> r,
        logical_effect_key |-> effect, claim_fence |-> k, expires_at |-> now + ApprovalSeconds]]
  /\ requests' = [requests EXCEPT ![r].status = "awaiting_transaction_approval"]
  /\ UNCHANGED <<resolved, scanning, now, runs>>

Park(a, r, k, effect) ==
  /\ approvals[a].state = "absent"
  /\ Fenced(r, k)
  /\ requests[r].status = "running"
  /\ requests[r].kind = "ad_hoc"
  /\ requests[r].run_id = k
  /\ now + ApprovalSeconds <= requests[r].expires_at
  /\ \A b \in Approvals :
       /\ approvals[b].logical_effect_key = effect
            => approvals[b].state \notin ActiveApproval \cup {"consumed"}
       /\ approvals[b].request_id = r => approvals[b].state \notin ActiveApproval
  /\ \E kind \in Parked :
       /\ approvals' = [approvals EXCEPT ![a] =
            [kind |-> kind, state |-> "pending", request_id |-> r,
             logical_effect_key |-> effect, claim_fence |-> k,
             expires_at |-> now + ApprovalSeconds]]
       /\ requests' = [requests EXCEPT ![r].status = kind]
  /\ UNCHANGED <<resolved, scanning, now, runs>>

\* The bound principal answers in the bound conversation with the right code;
\* every other answer raises.  An answer that comes too late is recorded.
Decide(a, decision) ==
  LET r == approvals[a].request_id
  IN /\ approvals[a].state = "pending"
     /\ r # None
     /\ requests[r].status \in Parked
     /\ approvals' = [approvals EXCEPT ![a].state =
          IF approvals[a].expires_at <= now THEN "expired" ELSE decision]
     /\ UNCHANGED <<requests, resolved, scanning, now, runs>>

ExpireApprovals ==
  /\ approvals' = [a \in Approvals |->
       IF approvals[a].state \in ActiveApproval /\ approvals[a].expires_at <= now
       THEN [approvals[a] EXCEPT !.state = "expired"]
       ELSE approvals[a]]
  /\ UNCHANGED <<requests, resolved, scanning, now, runs>>

\* Mutant: the request need not be parked any more.
OwnsOccurrence(a, k) ==
  /\ approvals[a].request_id # None
  /\ Fenced(approvals[a].request_id, k)
  /\ approvals[a].claim_fence = k

\* The owner of claim k comes back to the occurrence it parked.
OwnsParked(a, k) ==
  /\ approvals[a].request_id # None
  /\ Fenced(approvals[a].request_id, k)
  /\ requests[approvals[a].request_id].status \in Parked
  /\ approvals[a].claim_fence = k

ResumeConsuming(a, k) ==
  /\ OwnsParked(a, k)
  /\ approvals[a].state \in {"approved", "expired"}
  /\ approvals' = [approvals EXCEPT ![a].state =
       IF approvals[a].state = "approved" /\ approvals[a].expires_at > now
       THEN "consumed" ELSE "expired"]
  /\ requests' = [requests EXCEPT ![approvals[a].request_id].status = "running"]
  /\ UNCHANGED <<resolved, scanning, now, runs>>

ResumeUnconsumed(a, k) ==
  /\ OwnsParked(a, k)
  /\ approvals[a].state \in {"denied", "expired", "invalidated"}
  /\ requests' = [requests EXCEPT ![approvals[a].request_id].status = "running"]
  /\ UNCHANGED <<approvals, resolved, scanning, now, runs>>

Invalidate(a, k) ==
  /\ OwnsParked(a, k)
  /\ approvals[a].state \in ActiveApproval
  /\ approvals' = [approvals EXCEPT ![a].state = "invalidated"]
  /\ requests' = [requests EXCEPT ![approvals[a].request_id].status = "running"]
  /\ UNCHANGED <<resolved, scanning, now, runs>>

AttestTransaction(a, status) ==
  LET r == approvals[a].request_id
  IN /\ approvals[a].state = "consumed"
     /\ approvals[a].kind = "awaiting_transaction_approval"
     /\ r # None
     /\ requests[r].status = "uncertain"
     /\ requests' = [requests EXCEPT ![r].status = status]
     /\ resolved' = resolved \cup {r}
     /\ UNCHANGED <<approvals, scanning, now, runs>>

-------------------------------------------------------------------------------
Tick ==
  /\ now < MaxTime
  /\ now' = now + 1
  /\ UNCHANGED <<requests, approvals, resolved, scanning, runs>>

Init ==
  /\ requests = [r \in Requests |-> NoRequest]
  /\ approvals = [a \in Approvals |-> NoApproval]
  /\ resolved = {}
  /\ scanning = [w \in Workers |-> Never]
  /\ now = 0
  /\ runs = [r \in Requests |-> {}]

\* Operations that take a claim: k ranges over every claim ever issued.
ClaimedOperation(r, k) ==
  \/ Start(r, k)
  \/ Release(r, k)
  \/ Renew(r, k)
  \/ \E status \in Terminal : Finish(r, k, status)
  \/ \E a \in Approvals, effect \in Effects : Park(a, r, k, effect)

RequestOperation(r) ==
  \/ Submit(r)
  \/ \E outbox \in Outboxes : AttachAcknowledgement(r, outbox)
  \/ \E outbox \in Outboxes : ReleaseAcknowledged(r, outbox)
  \/ Cancel(r)
  \/ \E child \in Requests : Retry(r, child)
  \/ \E status \in {"succeeded", "failed"} : Resolve(r, status)
  \/ \E k \in 1..MaxFence : ClaimedOperation(r, k)

ApprovalOperation(a) ==
  \/ \E decision \in {"approved", "denied"} : Decide(a, decision)
  \/ \E status \in {"succeeded", "failed"} : AttestTransaction(a, status)
  \/ \E k \in 1..MaxFence :
       \/ ResumeConsuming(a, k)
       \/ ResumeUnconsumed(a, k)
       \/ Invalidate(a, k)

Next ==
  \/ Tick
  \/ RecoverExpired
  \/ ExpireApprovals
  \/ \E w \in Workers : ClaimRecover(w) \/ ClaimQueued(w) \/ ClaimDropped(w)
  \/ \E r \in Requests : RequestOperation(r)
  \/ \E a \in Approvals : ApprovalOperation(a)
  \/ \E S \in SUBSET Requests : Prune(S)

Spec == Init /\ [][Next]_storeVars

-------------------------------------------------------------------------------
(* Properties *)

\* The tables hold rows of their types and history records real fences.
TypeOK ==
  /\ requests \in [Requests -> Request]
  /\ approvals \in [Approvals -> Approval]
  /\ resolved \in SUBSET Requests
  /\ scanning \in [Workers -> Nat]
  /\ now \in Nat
  /\ runs \in [Requests -> SUBSET Nat]

\* The ExecutionRequest validator.
ValidRow(row) ==
  /\ row.expires_at > row.created_at
  /\ row.status = "awaiting_acknowledgement" =>
       row.handoff_title /\ row.acknowledgement_expires_at # Never
  /\ row.acknowledgement_delivered_at # Never =>
       /\ row.acknowledgement_outbox_id # None
       /\ row.handoff_title
       /\ row.status # "awaiting_acknowledgement"
  /\ row.status \in Active =>
       row.claim_token # 0 /\ row.claim_expires_at # Never /\ row.claim_fence # 0
  /\ row.status \notin Active => row.claim_token = 0 /\ row.claim_expires_at = Never
  /\ row.status \in Executing => row.run_id # 0

\* Every row read back passes the ExecutionRequest validator, although the
\* operations update columns in SQL without it: one bad row would make every
\* scan of the table, and with it every worker, raise (_row, store.py).
RowsValid == \A r \in Requests : Stored(r) => ValidRow(requests[r])

\* The run in progress is the one its current claim started: no worker whose
\* claim was recovered and issued again has put its own run in the row.
RunOwnedByClaim ==
  \A r \in Requests : requests[r].status \in Executing =>
    /\ requests[r].run_id = requests[r].claim_fence
    /\ requests[r].claim_token = requests[r].claim_fence

\* A request is started at most once in its life, however often its lease
\* lapses: only a claim that never started goes back to the queue.
AtMostOneRun ==
  \A r \in Requests : \A j, k \in runs[r] : j = k

\* Work handed off by a conversation never runs before the acknowledgement
\* that announces it was recorded as delivered.
HandoffGate ==
  \A r \in Requests :
    requests[r].handoff_title /\ runs[r] # {} => requests[r].acknowledgement_delivered_at # Never

\* A retry exists only of an attempt that is over and whose outcome is known:
\* the two never execute side by side.
NoParallelAttempts ==
  \A r \in Requests :
    LET p == requests[r].parent_request_id
    IN Stored(r) /\ p # None => requests[p].status \in Terminal \ {"uncertain"}

\* The phase of background work a status stands for: a claim is not yet work.
PhaseOf(status) ==
  CASE status = "absent" -> "none"
    [] status = "awaiting_acknowledgement" -> "held"
    [] status \in {"queued", "claimed"} -> "ready"
    [] status \in {"running"} \cup Parked -> "working"
    [] status = "cancel_requested" -> "stopping"
    [] status = "cancelled" -> "stopped"
    [] status = "uncertain" -> "unknown"
    [] status = "pruned" -> "gone"
    [] OTHER -> "over"

Work == INSTANCE OnceOnlyWork WITH
  Items <- Requests,
  phase <- [r \in Requests |-> PhaseOf(requests[r].status)],
  begun <- [r \in Requests |-> runs[r] # {}]

\* The store implements OnceOnlyWork: whatever claims lapse, are recovered or are
\* presented late, a request begins at most once, a cancellation its worker has not
\* seen yet is not overwritten by what the run does meanwhile, an outcome is final,
\* and an uncertain one is settled by a person only (resolve, attest).
ImplementsWork == Work!WorkSpec

\* A lapsed lease or hold.
Lapsed(r) ==
  \/ requests[r].status \in Active /\ requests[r].claim_expires_at <= now
  \/ /\ requests[r].status = "awaiting_acknowledgement"
     /\ requests[r].acknowledgement_expires_at <= now

\* While a worker polls, no request stays behind a lapsed lease or hold.
LapsedIsSettled == \A r \in Requests : Lapsed(r) ~> ~Lapsed(r)
===============================================================================
