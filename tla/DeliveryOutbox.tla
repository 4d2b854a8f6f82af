----------------------------- MODULE DeliveryOutbox -----------------------------
(***************************************************************************)
(* Delivery of notifications: the outbox (notifications/store.py), the     *)
(* transport parts of each attempt (messaging/store.py, same database),    *)
(* the delivery loop (messaging/runtime.py) under its lease heartbeat, and *)
(* the recovery of stale claims (gateway/recovery.py).                     *)
(*                                                                         *)
(* Delivery runs in the gateway service and in the commands that deliver   *)
(* at once; each is a worker.  A store call is one transaction, hence one  *)
(* action.  The lease token issued with fence k is k; the lease of an      *)
(* entry nobody claimed is 0.                                              *)
(***************************************************************************)
EXTENDS Naturals, FiniteSets

CONSTANTS
  Entries,       \* outbox entries, one per deduplicated notification
  Workers,       \* delivery loops
  PartCount,     \* transport parts of a notification
  LeaseSeconds,  \* messaging.lease_seconds
  AttemptLimit,  \* messaging.delivery_attempt_limit
  Stalls,        \* may a call stall between reading the clock and its lock?
  None,          \* no entry
  MaxTime,       \* bound of the exploration: last instant of the clock
  MaxFence       \* bound of the exploration: claims of one entry

ASSUME DeliveryAssumption ==
  /\ None \notin Entries
  /\ Stalls \in BOOLEAN
  /\ {PartCount, LeaseSeconds, AttemptLimit} \subseteq Nat \ {0}
  /\ {MaxTime, MaxFence} \subseteq Nat

VARIABLES
  outbox,    \* table outbox
  attempts,  \* table delivery_attempts: outcome of each entry's fence
  parts,     \* table delivery_parts: status of each part, by entry and fence
  worker,    \* where each delivery loop is
  recovery,  \* where GatewayRecovery._recover_outbox is
  now,       \* the clock every caller reads
  sends,     \* history: how often each part reached the platform
  vouched    \* history: entries whose outcome an operator stated

tables == <<outbox, attempts, parts>>
vars == <<outbox, attempts, parts, worker, recovery, now, sends, vouched>>

Fences == 1..MaxFence
PartNumbers == 1..PartCount

OutboxStatuses ==
  {"absent", "pending", "claimed", "delivered", "failed", "in_doubt", "cancelled", "pruned"}

Outcomes == {"none", "claimed", "delivered", "not_performed", "in_doubt", "released"}

Idle == [pc |-> "idle", entry |-> None, fence |-> 0, part |-> 0, read |-> 0]

NoRecovery == [pc |-> "idle", entry |-> None, fence |-> 0, attempted |-> FALSE, moment |-> 0]

Unprepared == [p \in PartNumbers |-> "none"]

-------------------------------------------------------------------------------
(* Claims *)

\* _assert_lease and _assert_outbox_claim: the caller's claim at time t.
Live(e, k, t) ==
  outbox[e].status = "claimed" /\ outbox[e].fence = k /\ outbox[e].lease > t

Expired(e, k, t) ==
  outbox[e].status = "claimed" /\ outbox[e].fence = k /\ outbox[e].lease <= t

\* Mutant: the attempt that ends stays open in the ledger.
CloseEntryOnly(e, status, outcome) ==
  /\ outbox' = [outbox EXCEPT ![e].status = status, ![e].lease = 0]
  /\ UNCHANGED attempts

\* A claim ends: a released attempt does not count against the limit.
Close(e, status, outcome) ==
  /\ outbox' = [outbox EXCEPT
       ![e].status = status, ![e].lease = 0,
       ![e].attempt_count = IF status = "pending" THEN @ - 1 ELSE @]
  /\ attempts' = [attempts EXCEPT ![e][outbox[e].fence] = outcome]

Outcome(status) ==
  CASE status = "delivered" -> "delivered"
    [] status = "failed"    -> "not_performed"
    [] status = "in_doubt"  -> "in_doubt"
    [] status = "pending"   -> "released"

\* _finish_claim: a lapsed claim is persisted as in_doubt before it raises.
FinishClaim(e, k, status) ==
  \/ Live(e, k, now) /\ Close(e, status, Outcome(status))
  \/ Expired(e, k, now) /\ Close(e, "in_doubt", "in_doubt")
  \/ ~Live(e, k, now) /\ ~Expired(e, k, now) /\ UNCHANGED <<outbox, attempts>>

-------------------------------------------------------------------------------
(* Producers and operators *)

Enqueue(e) ==
  /\ outbox[e].status = "absent"
  /\ outbox' = [outbox EXCEPT ![e].status = "pending"]
  /\ UNCHANGED <<attempts, parts, worker, recovery, now, sends, vouched>>

Retry(e) ==
  /\ outbox[e].status = "failed"
  /\ outbox[e].attempt_count < AttemptLimit
  /\ outbox' = [outbox EXCEPT ![e].status = "pending"]
  /\ UNCHANGED <<attempts, parts, worker, recovery, now, sends, vouched>>

Resolve(e, disposition) ==
  /\ outbox[e].status = "in_doubt"
  /\ outbox' = [outbox EXCEPT ![e].status =
       IF disposition = "delivered" THEN "delivered" ELSE "failed"]
  /\ vouched' = vouched \cup {e}
  /\ UNCHANGED <<attempts, parts, worker, recovery, now, sends>>

Cancel(e) ==
  /\ outbox[e].status \in {"pending", "failed", "in_doubt"}
  /\ outbox' = [outbox EXCEPT ![e].status = "cancelled"]
  /\ UNCHANGED <<attempts, parts, worker, recovery, now, sends, vouched>>

\* The parts stay behind: only outbox, attempts and resolutions are deleted.
Prune(e) ==
  /\ outbox[e].status \in {"delivered", "cancelled"}
  /\ outbox' = [outbox EXCEPT ![e] = [@ EXCEPT !.status = "pruned", !.attempt_count = 0]]
  /\ attempts' = [attempts EXCEPT ![e] = [f \in Fences |-> "none"]]
  /\ UNCHANGED <<parts, worker, recovery, now, sends, vouched>>

-------------------------------------------------------------------------------
(* deliver_once *)

Goto(w, pc) == worker' = [worker EXCEPT ![w].pc = pc]

Leave(w) == worker' = [worker EXCEPT ![w] = Idle]

\* An entry of the pending list, which may be out of date when it is used.
Pick(w, e) ==
  /\ worker[w].pc = "idle"
  /\ outbox[e].status = "pending"
  /\ worker' = [worker EXCEPT ![w] = [Idle EXCEPT !.pc = "picked", !.entry = e]]
  /\ UNCHANGED <<tables, recovery, now, sends, vouched>>

\* fail_pending, after a route or message that cannot be used, or when the
\* attempts are exhausted.  It raises unless the entry is pending or failed.
FailPending(w) ==
  LET e == worker[w].entry
  IN /\ worker[w].pc \in {"picked", "exhausted"}
     /\ outbox' = IF outbox[e].status = "pending"
                  THEN [outbox EXCEPT ![e].status = "failed"] ELSE outbox
     /\ Leave(w)
     /\ UNCHANGED <<attempts, parts, recovery, now, sends, vouched>>

Claim(w) ==
  LET e == worker[w].entry
      k == outbox[e].fence + 1
  IN /\ worker[w].pc = "picked"
     /\ outbox[e].status = "pending"
     /\ outbox[e].attempt_count < AttemptLimit
     /\ k <= MaxFence
     /\ outbox' = [outbox EXCEPT ![e] =
          [status |-> "claimed", fence |-> k, attempt_count |-> @.attempt_count + 1,
           lease |-> now + LeaseSeconds]]
     /\ attempts' = [attempts EXCEPT ![e][k] = "claimed"]
     /\ worker' = [worker EXCEPT ![w].pc = "claimed", ![w].fence = k]
     /\ UNCHANGED <<parts, recovery, now, sends, vouched>>

\* The entry is not claimable: skipped, or persisted as in_doubt when it is
\* the lapsed claim of another worker.  A pending entry is exhausted only after
\* the configured limit was lowered: retry() compares it too.
ClaimRefused(w) ==
  LET e == worker[w].entry
      exhausted == outbox[e].status = "pending" /\ outbox[e].attempt_count >= AttemptLimit
      stale == outbox[e].status = "claimed" /\ outbox[e].lease <= now
  IN /\ worker[w].pc = "picked"
     /\ outbox[e].status # "pending" \/ exhausted
     /\ IF stale THEN Close(e, "in_doubt", "in_doubt") ELSE UNCHANGED <<outbox, attempts>>
     /\ IF exhausted THEN Goto(w, "exhausted") ELSE Leave(w)
     /\ UNCHANGED <<parts, recovery, now, sends, vouched>>

\* The transport is created, or the claim fails.
OpenTransport(w) ==
  LET e == worker[w].entry
      k == worker[w].fence
  IN /\ worker[w].pc = "claimed"
     /\ \/ /\ worker' = [worker EXCEPT ![w].pc = "preparing", ![w].read = now]
           /\ UNCHANGED <<outbox, attempts>>
        \/ FinishClaim(e, k, "failed") /\ Leave(w)
     /\ UNCHANGED <<parts, recovery, now, sends, vouched>>

-------------------------------------------------------------------------------
(* _deliver_claimed *)

\* prepare_parts reads the clock before it waits for the write lock.
PrepareTime(w) == IF Stalls THEN worker[w].read ELSE now

Prepare(w) ==
  LET e == worker[w].entry
      k == worker[w].fence
  IN /\ worker[w].pc = "preparing"
     /\ IF Live(e, k, PrepareTime(w)) /\ parts[e][k] = Unprepared
        THEN /\ parts' = [parts EXCEPT ![e][k] = [p \in PartNumbers |-> "pending"]]
             /\ worker' = [worker EXCEPT ![w].pc = "sending", ![w].part = 1]
        ELSE Goto(w, "releasing") /\ UNCHANGED parts
     /\ UNCHANGED <<outbox, attempts, recovery, now, sends, vouched>>

\* release(): nothing was sent under this claim.
ReleaseClaim(w) ==
  /\ worker[w].pc = "releasing"
  /\ FinishClaim(worker[w].entry, worker[w].fence, "pending")
  /\ Leave(w)
  /\ UNCHANGED <<parts, recovery, now, sends, vouched>>

SendsAfter(w) ==
  [sends EXCEPT ![worker[w].entry][worker[w].part] = IF @ < 2 THEN @ + 1 ELSE @]

SendSucceeds(w) ==
  /\ worker[w].pc = "sending"
  /\ sends' = SendsAfter(w)
  /\ Goto(w, "receipt")
  /\ UNCHANGED <<tables, recovery, now, vouched>>

\* AmbiguousDeliveryError.
SendAmbiguous(w) ==
  /\ worker[w].pc = "sending"
  /\ sends' \in {sends, SendsAfter(w)}
  /\ Goto(w, "doubt")
  /\ UNCHANGED <<tables, recovery, now, vouched>>

\* DeliveryNotPerformedError: a partial delivery cannot be retried.
SendNotPerformed(w) ==
  /\ worker[w].pc = "sending"
  /\ Goto(w, IF worker[w].part = 1 THEN "failing" ELSE "doubt")
  /\ UNCHANGED <<tables, recovery, now, sends, vouched>>

MarkFailed(w) ==
  /\ worker[w].pc = "failing"
  /\ FinishClaim(worker[w].entry, worker[w].fence, "failed")
  /\ Leave(w)
  /\ UNCHANGED <<parts, recovery, now, sends, vouched>>

\* A part of a live claim gets its status; a refused update raises.
MarkPart(w, status) ==
  LET e == worker[w].entry
      k == worker[w].fence
      p == worker[w].part
  IN /\ Live(e, k, now)
     /\ parts[e][k][p] = "pending"
     /\ parts' = [parts EXCEPT ![e][k][p] = status]

\* Mutant: one receipt settles the notification.
RecordOneReceipt(w) ==
  /\ worker[w].pc = "receipt"
  /\ MarkPart(w, "delivered")
  /\ Goto(w, "settling")
  /\ UNCHANGED <<outbox, attempts, recovery, now, sends, vouched>>

RecordReceipt(w) ==
  /\ worker[w].pc = "receipt"
  /\ MarkPart(w, "delivered")
  /\ worker' = IF worker[w].part < PartCount
               THEN [worker EXCEPT ![w].pc = "sending", ![w].part = @ + 1]
               ELSE [worker EXCEPT ![w].pc = "settling"]
  /\ UNCHANGED <<outbox, attempts, recovery, now, sends, vouched>>

\* mark_part_in_doubt, then the entry; "unsure" goes on when it is refused.
MarkPartInDoubt(w) ==
  /\ worker[w].pc \in {"doubt", "unsure"}
  /\ MarkPart(w, "in_doubt")
  /\ Goto(w, "doubting")
  /\ UNCHANGED <<outbox, attempts, recovery, now, sends, vouched>>

PartRefused(w) ==
  LET e == worker[w].entry
      k == worker[w].fence
  IN /\ worker[w].pc \in {"receipt", "doubt", "unsure"}
     /\ ~(Live(e, k, now) /\ parts[e][k][worker[w].part] = "pending")
     /\ IF worker[w].pc = "unsure" THEN Goto(w, "doubting") ELSE Leave(w)
     /\ UNCHANGED <<tables, recovery, now, sends, vouched>>

MarkInDoubt(w) ==
  /\ worker[w].pc = "doubting"
  /\ FinishClaim(worker[w].entry, worker[w].fence, "in_doubt")
  /\ Leave(w)
  /\ UNCHANGED <<parts, recovery, now, sends, vouched>>

MarkDelivered(w) ==
  /\ worker[w].pc = "settling"
  /\ FinishClaim(worker[w].entry, worker[w].fence, "delivered")
  /\ Leave(w)
  /\ UNCHANGED <<parts, recovery, now, sends, vouched>>

-------------------------------------------------------------------------------
(* The heartbeat, cancellation and crashes *)

Busy == {"preparing", "releasing", "sending", "receipt", "doubt", "unsure", "doubting",
         "failing", "settling"}

\* Where the cancelled _deliver_claimed goes on.
CancelledAt(pc) ==
  CASE pc = "preparing" -> "releasing"
    [] pc = "sending"   -> "doubt"
    [] pc = "receipt"   -> "unsure"
    [] OTHER            -> "idle"

CancelTask(w) ==
  LET pc == CancelledAt(worker[w].pc)
  IN /\ worker' = [worker EXCEPT ![w] = IF pc = "idle" THEN Idle ELSE [@ EXCEPT !.pc = pc]]
     /\ sends' \in {sends} \cup {SendsAfter(v) : v \in {u \in {w} : worker[u].pc = "sending"}}

Heartbeat(w) ==
  LET e == worker[w].entry
      k == worker[w].fence
  IN /\ worker[w].pc \in Busy
     /\ \/ /\ Live(e, k, now)
           /\ outbox' = [outbox EXCEPT ![e].lease = now + LeaseSeconds]
           /\ UNCHANGED <<attempts, worker, sends>>
        \/ Expired(e, k, now) /\ Close(e, "in_doubt", "in_doubt") /\ CancelTask(w)
        \/ /\ ~Live(e, k, now) /\ ~Expired(e, k, now)
           /\ CancelTask(w)
           /\ UNCHANGED <<outbox, attempts>>
     /\ UNCHANGED <<parts, recovery, now, vouched>>

\* The process shuts down in an orderly way; a transaction that already runs
\* in its thread is joined and may still commit.
Interrupt(w) ==
  LET e == worker[w].entry
      k == worker[w].fence
  IN /\ worker[w].pc \in Busy
     /\ CancelTask(w)
     /\ \/ UNCHANGED parts
        \/ /\ worker[w].pc = "preparing"
           /\ Live(e, k, PrepareTime(w))
           /\ parts' = [parts EXCEPT ![e][k] = [p \in PartNumbers |-> "pending"]]
        \/ worker[w].pc = "receipt" /\ MarkPart(w, "delivered")
     /\ UNCHANGED <<outbox, attempts, recovery, now, vouched>>

Crash(w) ==
  /\ worker[w].pc # "idle"
  /\ Leave(w)
  /\ UNCHANGED <<tables, recovery, now, sends, vouched>>

-------------------------------------------------------------------------------
(* GatewayRecovery._recover_outbox *)

ListStale(e) ==
  /\ recovery.pc = "idle"
  /\ outbox[e].status = "claimed"
  /\ outbox[e].lease <= now
  /\ recovery' = [NoRecovery EXCEPT !.pc = "parts", !.entry = e, !.fence = outbox[e].fence,
                                    !.moment = now]
  /\ UNCHANGED <<tables, worker, now, sends, vouched>>

\* Mutant: only a part with a receipt counts as attempted.
ReadReceipts ==
  /\ recovery.pc = "parts"
  /\ recovery' = [recovery EXCEPT !.pc = "claim",
       !.attempted = \E p \in PartNumbers : parts[recovery.entry][recovery.fence][p] = "delivered"]
  /\ UNCHANGED <<tables, worker, now, sends, vouched>>

ReadParts ==
  /\ recovery.pc = "parts"
  /\ recovery' = [recovery EXCEPT !.pc = "claim",
       !.attempted = parts[recovery.entry][recovery.fence] # Unprepared]
  /\ UNCHANGED <<tables, worker, now, sends, vouched>>

\* recover_claim checks the claim again, not the parts.
RecoverClaim ==
  LET e == recovery.entry
  IN /\ recovery.pc = "claim"
     /\ IF outbox[e].status = "claimed" /\ outbox[e].lease <= recovery.moment
        THEN IF recovery.attempted THEN Close(e, "in_doubt", "in_doubt")
             ELSE Close(e, "pending", "released")
        ELSE UNCHANGED <<outbox, attempts>>
     /\ recovery' = NoRecovery
     /\ UNCHANGED <<parts, worker, now, sends, vouched>>

Tick ==
  /\ now < MaxTime
  /\ now' = now + 1
  /\ UNCHANGED <<tables, worker, recovery, sends, vouched>>

-------------------------------------------------------------------------------
Init ==
  /\ outbox = [e \in Entries |->
       [status |-> "absent", fence |-> 0, attempt_count |-> 0, lease |-> 0]]
  /\ attempts = [e \in Entries |-> [f \in Fences |-> "none"]]
  /\ parts = [e \in Entries |-> [f \in Fences |-> Unprepared]]
  /\ worker = [w \in Workers |-> Idle]
  /\ recovery = NoRecovery
  /\ now = 0
  /\ sends = [e \in Entries |-> [p \in PartNumbers |-> 0]]
  /\ vouched = {}

Deliver(w) ==
  \/ \E e \in Entries : Pick(w, e)
  \/ FailPending(w) \/ Claim(w) \/ ClaimRefused(w) \/ OpenTransport(w)
  \/ Prepare(w) \/ ReleaseClaim(w)
  \/ SendSucceeds(w) \/ SendAmbiguous(w) \/ SendNotPerformed(w) \/ MarkFailed(w)
  \/ RecordReceipt(w) \/ MarkPartInDoubt(w) \/ PartRefused(w) \/ MarkInDoubt(w) \/ MarkDelivered(w)
  \/ Heartbeat(w) \/ Interrupt(w) \/ Crash(w)

Operate(e) ==
  \/ Enqueue(e) \/ Retry(e) \/ Cancel(e) \/ Prune(e)
  \/ \E disposition \in {"delivered", "not_delivered"} : Resolve(e, disposition)

Next ==
  \/ Tick
  \/ \E e \in Entries : Operate(e) \/ ListStale(e)
  \/ \E w \in Workers : Deliver(w)
  \/ ReadParts \/ RecoverClaim

Spec == Init /\ [][Next]_vars

-------------------------------------------------------------------------------
(* Properties *)

\* The two ledgers agree: exactly the attempt of the current claim is open,
\* and the attempts that count are the ones that were not given back.
LedgersAgree ==
  \A e \in Entries :
    /\ \A f \in Fences :
         attempts[e][f] = "claimed" <=> outbox[e].status = "claimed" /\ outbox[e].fence = f
    /\ outbox[e].status # "pruned" =>
         outbox[e].attempt_count =
           Cardinality({f \in Fences : attempts[e][f] \notin {"none", "released"}})

\* No part of a notification reaches the platform twice, unless an operator
\* stated the outcome of an earlier attempt: crashes, lapsed leases, retries
\* and recovery never repeat a send.
SentOnce ==
  \A e \in Entries \ vouched : \A p \in PartNumbers : sends[e][p] <= 1

\* What the outbox calls delivered was sent completely, and every part of the
\* delivering claim has its receipt: the evidence handed off work waits for.
DeliveredHasReceipts ==
  \A e \in Entries \ vouched :
    outbox[e].status = "delivered" =>
      /\ \A p \in PartNumbers : sends[e][p] >= 1
      /\ \A p \in PartNumbers : parts[e][outbox[e].fence][p] = "delivered"

\* "pending is legal only when the caller proved no transport part was ever
\* prepared for the claimed fence" (recover_claim, notifications/store.py).
RequeuedOnlyUnprepared ==
  [][\A e \in Entries :
       /\ recovery.pc = "claim" /\ recovery'.pc = "idle" /\ recovery.entry = e
       /\ outbox[e].status = "claimed" /\ outbox'[e].status = "pending"
       => parts[e][outbox[e].fence] = Unprepared]_vars
===============================================================================
