------------------------- MODULE DeliveryOutboxProofs -------------------------
(***************************************************************************)
(* Proofs about DeliveryOutbox: the two ledgers agree and what is called    *)
(* delivered was sent, for any number of entries, loops, parts, claims and  *)
(* crashes; and, as long as no call stalls between reading the clock and    *)
(* taking its lock, no part is sent twice and recovery requeues only what   *)
(* was never prepared.                                                      *)
(***************************************************************************)
EXTENDS DeliveryOutbox, FiniteSetTheorems, TLAPS

-------------------------------------------------------------------------------
(* The inductive invariant *)

EntryRow == [status : OutboxStatuses, fence : Nat, attempt_count : Nat, lease : Nat]

WorkerPCs == Busy \cup {"idle", "picked", "exhausted", "claimed"}

WorkerRow == [pc : WorkerPCs, entry : Entries \cup {None}, fence : Nat, part : Nat, read : Nat]

RecoveryRow == [pc : {"idle", "parts", "claim"}, entry : Entries \cup {None}, fence : Nat,
                attempted : BOOLEAN, moment : Nat]

PartStatuses == {"none", "pending", "delivered", "in_doubt"}

DeliveryTypes ==
  /\ outbox \in [Entries -> EntryRow]
  /\ attempts \in [Entries -> [Fences -> Outcomes]]
  /\ parts \in [Entries -> [Fences -> [PartNumbers -> PartStatuses]]]
  /\ worker \in [Workers -> WorkerRow]
  /\ recovery \in RecoveryRow
  /\ now \in Nat
  /\ sends \in [Entries -> [PartNumbers -> Nat]]

\* Where a loop has claimed its entry, and where it has prepared the parts.
Claiming == Busy \cup {"claimed"}
Sending == {"sending", "receipt", "doubt", "unsure", "doubting", "failing", "settling"}

\* A claim has one holder, and its fence was handed out.
Holders ==
  /\ recovery.pc # "idle" => recovery.entry \in Entries
  /\ \A w \in Workers : worker[w].pc # "idle" => worker[w].entry \in Entries
  /\ \A w \in Workers : worker[w].pc \in Claiming =>
       worker[w].fence \in 1..outbox[worker[w].entry].fence
  /\ \A v, w \in Workers :
       /\ worker[v].pc \in Claiming /\ worker[w].pc \in Claiming
       /\ worker[v].entry = worker[w].entry /\ worker[v].fence = worker[w].fence
       => v = w

\* The attempts that count.
Counted(e) == {f \in Fences : attempts[e][f] \notin {"none", "released"}}

FencesInOrder ==
  \A e \in Entries :
    /\ outbox[e].fence \in 0..MaxFence
    /\ outbox[e].status \in {"claimed", "in_doubt", "delivered"} => outbox[e].fence \in Fences
    /\ \A f \in Fences : f > outbox[e].fence => attempts[e][f] = "none"

Receipts(e, k, q) == sends[e][q] >= 1 /\ parts[e][k][q] = "delivered"

\* The parts before the one at hand were sent and have their receipts.
InOrder(w, e, k, p) ==
  /\ worker[w].pc \in Sending => p \in PartNumbers
  /\ worker[w].pc \in {"sending", "receipt"} => \A q \in PartNumbers : q < p => Receipts(e, k, q)
  /\ worker[w].pc = "receipt" => sends[e][p] >= 1
  /\ worker[w].pc = "settling" => \A q \in PartNumbers : Receipts(e, k, q)

SentInOrder ==
  \A w \in Workers : InOrder(w, worker[w].entry, worker[w].fence, worker[w].part)

DeliveryInv ==
  /\ DeliveryTypes
  /\ Holders
  /\ FencesInOrder
  /\ LedgersAgree
  /\ SentInOrder
  /\ DeliveredHasReceipts

Unsent(e) == \A p \in PartNumbers : sends[e][p] = 0

\* A claim that had lapsed when recovery listed it is still the claim recovery saw, and
\* nobody prepares it any more.
Lapsed(e) == outbox[e].status = "claimed" /\ outbox[e].lease <= recovery.moment

LapsedStays ==
  recovery.pc # "idle" =>
    /\ recovery.moment <= now
    /\ Lapsed(recovery.entry) =>
         /\ outbox[recovery.entry].fence = recovery.fence
         /\ recovery.pc = "claim" /\ ~recovery.attempted =>
              parts[recovery.entry][recovery.fence] = Unprepared

\* An entry of which something was sent is not claimed again.
SentIsOver(e) ==
  ~Unsent(e) =>
    /\ outbox[e].status \in {"claimed", "delivered", "in_doubt", "cancelled", "pruned"}
    /\ outbox[e].status = "claimed" => parts[e][outbox[e].fence] # Unprepared

\* A loop that may still give its claim back has sent nothing; one that may still send
\* has the last claim of the entry, and the parts from the one at hand on are unsent.
Sends(w, e, k, p) ==
  /\ worker[w].pc \in {"claimed", "preparing", "releasing"} =>
       (outbox[e].status = "claimed" /\ outbox[e].fence = k => Unsent(e))
  /\ worker[w].pc \in Sending =>
       /\ outbox[e].fence = k
       /\ outbox[e].status \notin {"absent", "pending", "failed"}
       /\ parts[e][k] # Unprepared
  /\ worker[w].pc = "sending" => \A q \in PartNumbers : q >= p => sends[e][q] = 0
  /\ worker[w].pc = "receipt" => \A q \in PartNumbers : q > p => sends[e][q] = 0
  /\ worker[w].pc = "failing" => Unsent(e)

SendersAlone ==
  /\ \A e \in Entries \ vouched : SentIsOver(e)
  /\ \A w \in Workers : worker[w].pc # "idle" /\ worker[w].entry \notin vouched =>
       Sends(w, worker[w].entry, worker[w].fence, worker[w].part)

\* What holds when no call stalls.
PromptInv ==
  /\ LapsedStays
  /\ SendersAlone
  /\ SentOnce

-------------------------------------------------------------------------------
(* How an entry and its attempts change *)

Same(e) == outbox'[e] = outbox[e] /\ attempts'[e] = attempts[e]

\* The heartbeat of a live claim.
Renewed(e) ==
  /\ outbox[e].status = "claimed" /\ outbox[e].lease > now
  /\ outbox'[e].status = "claimed" /\ outbox'[e].lease > now
  /\ outbox'[e].fence = outbox[e].fence
  /\ outbox'[e].attempt_count = outbox[e].attempt_count
  /\ attempts'[e] = attempts[e]

\* A producer, an operator or a loop writes an entry nobody has claimed.
Operated(e) ==
  /\ outbox[e].status \notin {"claimed", "delivered", "cancelled", "pruned"}
  /\ outbox'[e].status \in {"pending", "failed", "delivered", "cancelled"}
  /\ outbox'[e].status = "pending" => outbox[e].status \in {"absent", "failed"}
  /\ outbox'[e].status = "failed" => outbox[e].status = "pending" \/ e \in vouched'
  /\ outbox'[e].status = "delivered" => outbox[e].status = "in_doubt" /\ e \in vouched'
  /\ outbox'[e].fence = outbox[e].fence
  /\ outbox'[e].attempt_count = outbox[e].attempt_count
  /\ attempts'[e] = attempts[e]

Pruned(e) ==
  /\ outbox[e].status \in {"delivered", "cancelled"}
  /\ outbox'[e].status = "pruned"
  /\ outbox'[e].attempt_count = 0
  /\ outbox'[e].fence = outbox[e].fence
  /\ attempts'[e] = [f \in Fences |-> "none"]

Taken(e) ==
  /\ outbox[e].status = "pending" /\ outbox'[e].status = "claimed"
  /\ outbox'[e].fence = outbox[e].fence + 1 /\ outbox[e].fence + 1 \in Fences
  /\ outbox'[e].attempt_count = outbox[e].attempt_count + 1
  /\ outbox'[e].lease > now
  /\ attempts'[e] = [attempts[e] EXCEPT ![outbox[e].fence + 1] = "claimed"]

Ends == {"delivered", "failed", "in_doubt", "pending"}

Closed(e, status) ==
  /\ outbox[e].status = "claimed" /\ outbox'[e].status = status
  /\ outbox'[e].fence = outbox[e].fence
  /\ outbox'[e].attempt_count = IF status = "pending" THEN outbox[e].attempt_count - 1
                                ELSE outbox[e].attempt_count
  /\ attempts'[e] = [attempts[e] EXCEPT ![outbox[e].fence] = Outcome(status)]

\* Only its holder, or recovery, closes a claim otherwise than in doubt.
Closer(e, status, w) ==
  /\ worker[w].entry = e /\ worker[w].fence = outbox[e].fence
  /\ \/ worker[w].pc \in {"claimed", "failing"} /\ status = "failed"
     \/ worker[w].pc = "releasing" /\ status = "pending"
     \/ worker[w].pc = "settling" /\ status = "delivered"
  /\ worker'[w] = Idle

Requeues(e) == recovery.pc = "claim" /\ recovery.entry = e /\ ~recovery.attempted /\ Lapsed(e)

EntryStep(e) ==
  \/ Same(e) \/ Renewed(e) \/ Operated(e) \/ Pruned(e) \/ Taken(e)
  \/ \E status \in Ends :
       /\ Closed(e, status)
       /\ \/ status = "in_doubt"
          \/ status = "pending" /\ Requeues(e)
          \/ \E w \in Workers : Closer(e, status, w)

\* A row of the outbox, whatever its status, fence and count.
Shaped(row) ==
  /\ row = [status |-> row.status, fence |-> row.fence, attempt_count |-> row.attempt_count, lease |-> row.lease]
  /\ row.lease \in Nat

\* What is written: the row of one entry, and its attempts.
Written(e) ==
  /\ \A d \in Entries : d # e => Same(d)
  /\ outbox' = [d \in Entries |-> outbox'[d]]
  /\ attempts' = [d \in Entries |-> attempts'[d]]
  /\ Shaped(outbox'[e])

LEMMA RowShaped == ASSUME NEW row \in EntryRow PROVE Shaped(row)
  BY DEF EntryRow, Shaped

LEMMA EntryTypes ==
  ASSUME DeliveryTypes, NEW e \in Entries
  PROVE  /\ outbox[e] \in EntryRow
         /\ outbox[e].status \in OutboxStatuses /\ outbox[e].fence \in Nat
         /\ outbox[e].attempt_count \in Nat /\ outbox[e].lease \in Nat
         /\ attempts[e] \in [Fences -> Outcomes]
         /\ now \in Nat /\ LeaseSeconds \in Nat \ {0} /\ MaxFence \in Nat /\ PartCount \in Nat \ {0}
<1>1. outbox[e] \in EntryRow /\ attempts[e] \in [Fences -> Outcomes] /\ now \in Nat
  BY DEF DeliveryTypes
<1>2. LeaseSeconds \in Nat \ {0} /\ MaxFence \in Nat /\ PartCount \in Nat \ {0}
  BY DeliveryAssumption
<1> QED
  BY <1>1, <1>2 DEF EntryRow

LEMMA Unwritten ==
  ASSUME DeliveryTypes, UNCHANGED <<outbox, attempts>>
  PROVE  \A e \in Entries : Same(e) /\ Written(e)
  BY EntryTypes, RowShaped DEF DeliveryTypes, Same, Written

\* Only the status of an entry is written.
LEMMA StatusWritten ==
  ASSUME DeliveryTypes, NEW e \in Entries, NEW status \in OutboxStatuses,
         outbox' = [outbox EXCEPT ![e].status = status], UNCHANGED attempts
  PROVE  /\ Written(e)
         /\ outbox'[e].status = status
         /\ outbox'[e].fence = outbox[e].fence
         /\ outbox'[e].attempt_count = outbox[e].attempt_count
         /\ attempts'[e] = attempts[e]
<1>1. PICK row : row = [outbox[e] EXCEPT !.status = status]
  OBVIOUS
<1>2. row.status = status /\ row.fence = outbox[e].fence /\ row.lease = outbox[e].lease
      /\ row.attempt_count = outbox[e].attempt_count
  BY <1>1, EntryTypes DEF EntryRow
<1>3. outbox' = [outbox EXCEPT ![e] = row]
  BY <1>1
<1>4. outbox \in [Entries -> EntryRow] /\ attempts \in [Entries -> [Fences -> Outcomes]]
  BY DEF DeliveryTypes
<1> HIDE DEF EntryRow
<1>5. outbox'[e] = row /\ \A d \in Entries : d # e => outbox'[d] = outbox[d]
  BY <1>3, <1>4
<1>6. outbox' = [d \in Entries |-> outbox'[d]]
  BY <1>3, <1>4
<1>7. Shaped(row)
  BY <1>1, EntryTypes DEF EntryRow, Shaped
<1> QED
  BY <1>2, <1>4, <1>5, <1>6, <1>7 DEF Written, Same

LEMMA CloseWrites ==
  ASSUME DeliveryTypes, FencesInOrder, NEW e \in Entries, NEW status \in Ends, outbox[e].status = "claimed",
         Close(e, status, Outcome(status))
  PROVE  Written(e) /\ Closed(e, status)
<1>1. PICK row : row = [outbox[e] EXCEPT !.status = status, !.lease = 0,
                          !.attempt_count = IF status = "pending" THEN @ - 1 ELSE @]
  OBVIOUS
<1>2. /\ row.status = status /\ row.fence = outbox[e].fence /\ row.lease = 0
      /\ row.attempt_count = IF status = "pending" THEN outbox[e].attempt_count - 1 ELSE outbox[e].attempt_count
  BY <1>1, EntryTypes DEF EntryRow
<1>3. outbox' = [outbox EXCEPT ![e] = row]
  BY <1>1 DEF Close
<1>4. outbox \in [Entries -> EntryRow] /\ attempts \in [Entries -> [Fences -> Outcomes]]
  BY DEF DeliveryTypes
<1>5. PICK given : given = [attempts[e] EXCEPT ![outbox[e].fence] = Outcome(status)]
  OBVIOUS
<1>6. attempts' = [attempts EXCEPT ![e] = given]
  BY <1>5 DEF Close
<1>7. /\ outbox'[e] = row /\ \A d \in Entries : d # e => outbox'[d] = outbox[d]
      /\ outbox' = [d \in Entries |-> outbox'[d]]
  BY <1>3, <1>4
<1>8. /\ attempts'[e] = given /\ \A d \in Entries : d # e => attempts'[d] = attempts[d]
      /\ attempts' = [d \in Entries |-> attempts'[d]]
  BY <1>4, <1>6
<1>9. Shaped(row)
  BY <1>1, EntryTypes DEF EntryRow, Shaped
<1> QED
  BY <1>2, <1>5, <1>7, <1>8, <1>9 DEF Written, Same, Closed

LEMMA DoubtOutcome == Outcome("in_doubt") = "in_doubt" /\ Outcome("pending") = "released"
                      /\ \A status \in Ends : Outcome(status) \in Outcomes \ {"none", "claimed"}
  BY DEF Outcome, Outcomes, Ends

\* _finish_claim: the caller's status, doubt, or nothing.
LEMMA FinishWrites ==
  ASSUME DeliveryTypes, FencesInOrder, NEW e \in Entries, NEW k, NEW status \in Ends, FinishClaim(e, k, status)
  PROVE  /\ Written(e)
         /\ \/ Same(e)
            \/ Closed(e, "in_doubt")
            \/ Closed(e, status) /\ outbox[e].fence = k
<1>1. CASE Live(e, k, now) /\ Close(e, status, Outcome(status))
  BY <1>1, CloseWrites DEF Live
<1>2. CASE Expired(e, k, now) /\ Close(e, "in_doubt", "in_doubt")
  BY <1>2, CloseWrites, DoubtOutcome DEF Expired, Ends
<1>3. CASE UNCHANGED <<outbox, attempts>>
  BY <1>3, Unwritten
<1> QED
  BY <1>1, <1>2, <1>3 DEF FinishClaim

Stepped ==
  /\ outbox' = [d \in Entries |-> outbox'[d]]
  /\ attempts' = [d \in Entries |-> attempts'[d]]
  /\ \A d \in Entries : EntryStep(d) /\ Shaped(outbox'[d])

LEMMA OneStep ==
  ASSUME DeliveryTypes, NEW e \in Entries, Written(e), EntryStep(e)
  PROVE  Stepped
<1>1. ASSUME NEW d \in Entries, d # e PROVE EntryStep(d) /\ Shaped(outbox'[d])
  BY <1>1, EntryTypes, RowShaped DEF Written, EntryStep, Same
<1> QED
  BY <1>1 DEF Written, Stepped

LEMMA NoStep ==
  ASSUME DeliveryTypes, UNCHANGED <<outbox, attempts>>
  PROVE  Stepped
<1>1. \A d \in Entries : EntryStep(d)
  BY Unwritten DEF EntryStep
<1>2. \A d \in Entries : Shaped(outbox'[d])
  BY Unwritten DEF Written
<1>3. outbox \in [Entries -> EntryRow] /\ attempts \in [Entries -> [Fences -> Outcomes]]
  BY DEF DeliveryTypes
<1>4. outbox' = [d \in Entries |-> outbox'[d]] /\ attempts' = [d \in Entries |-> attempts'[d]]
  BY <1>3
<1> QED
  BY <1>1, <1>2, <1>4 DEF Stepped

LEMMA OperatorSteps ==
  ASSUME DeliveryInv, NEW e \in Entries, Operate(e)
  PROVE  Stepped
<1>1. DeliveryTypes
  BY DEF DeliveryInv
<1>2. ASSUME NEW status \in {"pending", "failed", "delivered", "cancelled"},
             outbox' = [outbox EXCEPT ![e].status = status], UNCHANGED attempts,
             outbox[e].status \notin {"claimed", "delivered", "cancelled", "pruned"},
             status = "pending" => outbox[e].status \in {"absent", "failed"},
             status = "failed" => outbox[e].status = "pending" \/ e \in vouched',
             status = "delivered" => outbox[e].status = "in_doubt" /\ e \in vouched'
      PROVE  Stepped
  <2>1. status \in OutboxStatuses
    BY DEF OutboxStatuses
  <2>2. Written(e) /\ Operated(e)
    BY <1>1, <1>2, <2>1, StatusWritten DEF Operated
  <2> QED
    BY <1>1, <2>2, OneStep DEF EntryStep
<1>3. CASE Enqueue(e)
  BY <1>2, <1>3 DEF Enqueue
<1>4. CASE Retry(e)
  BY <1>2, <1>4 DEF Retry
<1>5. CASE Cancel(e)
  BY <1>2, <1>5 DEF Cancel
<1>6. ASSUME NEW disposition, Resolve(e, disposition) PROVE Stepped
  BY <1>2, <1>6 DEF Resolve
<1>7. CASE Prune(e)
  <2>1. outbox \in [Entries -> EntryRow] /\ attempts \in [Entries -> [Fences -> Outcomes]]
    BY <1>1 DEF DeliveryTypes
  <2>2. PICK row : row = [outbox[e] EXCEPT !.status = "pruned", !.attempt_count = 0]
    OBVIOUS
  <2>3. row.status = "pruned" /\ row.fence = outbox[e].fence /\ row.attempt_count = 0
    BY <1>1, <2>2, EntryTypes DEF EntryRow
  <2>4. outbox' = [outbox EXCEPT ![e] = row] /\ attempts' = [attempts EXCEPT ![e] = [f \in Fences |-> "none"]]
    BY <1>7, <2>2 DEF Prune
  <2>5. /\ outbox'[e] = row /\ \A d \in Entries : d # e => outbox'[d] = outbox[d]
        /\ outbox' = [d \in Entries |-> outbox'[d]]
    BY <2>1, <2>4
  <2>6. /\ attempts'[e] = [f \in Fences |-> "none"] /\ \A d \in Entries : d # e => attempts'[d] = attempts[d]
        /\ attempts' = [d \in Entries |-> attempts'[d]]
    BY <2>1, <2>4
  <2>9. Shaped(row)
    BY <1>1, <2>2, EntryTypes DEF EntryRow, Shaped
  <2>7. Written(e)
    BY <2>5, <2>6, <2>9 DEF Written, Same
  <2>8. Pruned(e)
    BY <1>7, <2>3, <2>5, <2>6 DEF Prune, Pruned
  <2> QED
    BY <1>1, <2>7, <2>8, OneStep DEF EntryStep
<1> QED
  BY <1>3, <1>4, <1>5, <1>6, <1>7 DEF Operate

\* A claim that ends with the step of its holder.
LEMMA HolderEnds ==
  ASSUME DeliveryInv, NEW w \in Workers, worker[w].entry \in Entries, NEW status \in Ends,
         FinishClaim(worker[w].entry, worker[w].fence, status), Leave(w),
         \/ worker[w].pc \in {"claimed", "failing"} /\ status = "failed"
         \/ worker[w].pc = "releasing" /\ status = "pending"
         \/ worker[w].pc = "settling" /\ status = "delivered"
         \/ status = "in_doubt"
  PROVE  Stepped
<1>1. DeliveryTypes /\ FencesInOrder
  BY DEF DeliveryInv
<1>2. worker'[w] = Idle
  BY <1>1 DEF DeliveryTypes, Leave
<1>3. PICK e \in Entries : e = worker[w].entry
  OBVIOUS
<1>4. Written(e) /\ (Same(e) \/ Closed(e, "in_doubt") \/ (Closed(e, status) /\ outbox[e].fence = worker[w].fence))
  BY <1>1, <1>3, FinishWrites
<1>5. "in_doubt" \in Ends
  BY DEF Ends
<1>6. ASSUME Same(e) \/ Closed(e, "in_doubt") PROVE EntryStep(e)
  BY <1>5, <1>6 DEF EntryStep
<1>7. ASSUME Closed(e, status), outbox[e].fence = worker[w].fence PROVE EntryStep(e)
  <2>1. status = "in_doubt" \/ Closer(e, status, w)
    BY <1>2, <1>3, <1>7 DEF Closer
  <2> QED
    BY <1>7, <2>1 DEF EntryStep
<1> QED
  BY <1>1, <1>4, <1>6, <1>7, OneStep

LEMMA DoubtStep ==
  ASSUME DeliveryInv, NEW e \in Entries, outbox[e].status = "claimed", Close(e, "in_doubt", "in_doubt")
  PROVE  Stepped
<1>1. DeliveryTypes /\ FencesInOrder /\ "in_doubt" \in Ends
  BY DEF DeliveryInv, Ends
<1>2. Written(e) /\ Closed(e, "in_doubt")
  BY <1>1, DoubtOutcome, CloseWrites
<1> QED
  BY <1>1, <1>2, OneStep DEF EntryStep

LEMMA ClaimStep ==
  ASSUME DeliveryInv, NEW w \in Workers, worker[w].entry \in Entries, Claim(w)
  PROVE  /\ Stepped
         /\ Taken(worker[w].entry)
<1>1. DeliveryTypes
  BY DEF DeliveryInv
<1>2. PICK e \in Entries : e = worker[w].entry
  OBVIOUS
<1>3. outbox \in [Entries -> EntryRow] /\ attempts \in [Entries -> [Fences -> Outcomes]]
  BY <1>1 DEF DeliveryTypes
<1>4. PICK row : row = [status |-> "claimed", fence |-> outbox[e].fence + 1,
                        attempt_count |-> outbox[e].attempt_count + 1, lease |-> now + LeaseSeconds]
  OBVIOUS
<1>5. outbox' = [outbox EXCEPT ![e] = row]
  BY <1>2, <1>4 DEF Claim
<1>6. PICK given : given = [attempts[e] EXCEPT ![outbox[e].fence + 1] = "claimed"]
  OBVIOUS
<1>7. attempts' = [attempts EXCEPT ![e] = given]
  BY <1>2, <1>6 DEF Claim
<1>8. /\ outbox'[e] = row /\ \A d \in Entries : d # e => outbox'[d] = outbox[d]
      /\ outbox' = [d \in Entries |-> outbox'[d]]
  BY <1>3, <1>5
<1>9. /\ attempts'[e] = given /\ \A d \in Entries : d # e => attempts'[d] = attempts[d]
      /\ attempts' = [d \in Entries |-> attempts'[d]]
  BY <1>3, <1>7
<1>10. Shaped(row) /\ row.lease > now /\ outbox[e].fence + 1 \in Nat \ {0}
  BY <1>1, <1>4, EntryTypes DEF Shaped
<1>11. outbox[e].fence + 1 \in Fences
  BY <1>1, <1>2, <1>10, EntryTypes DEF Claim, Fences
<1>12. Written(e)
  BY <1>8, <1>9, <1>10 DEF Written, Same
<1>13. Taken(e)
  BY <1>2, <1>4, <1>6, <1>8, <1>9, <1>10, <1>11 DEF Taken, Claim
<1> QED
  BY <1>1, <1>2, <1>12, <1>13, OneStep DEF EntryStep

LEMMA RenewStep ==
  ASSUME DeliveryInv, NEW e \in Entries, outbox[e].status = "claimed", outbox[e].lease > now,
         outbox' = [outbox EXCEPT ![e].lease = now + LeaseSeconds], UNCHANGED attempts
  PROVE  Stepped
<1>1. DeliveryTypes
  BY DEF DeliveryInv
<1>2. outbox \in [Entries -> EntryRow] /\ attempts \in [Entries -> [Fences -> Outcomes]]
  BY <1>1 DEF DeliveryTypes
<1>3. PICK row : row = [outbox[e] EXCEPT !.lease = now + LeaseSeconds]
  OBVIOUS
<1>4. /\ row.status = "claimed" /\ row.fence = outbox[e].fence /\ row.lease = now + LeaseSeconds
      /\ row.attempt_count = outbox[e].attempt_count
  BY <1>1, <1>3, EntryTypes DEF EntryRow
<1>5. outbox' = [outbox EXCEPT ![e] = row]
  BY <1>3
<1>6. /\ outbox'[e] = row /\ \A d \in Entries : d # e => outbox'[d] = outbox[d]
      /\ outbox' = [d \in Entries |-> outbox'[d]]
  BY <1>2, <1>5
<1>7. row.lease > now
  BY <1>1, <1>4, EntryTypes
<1>8. attempts' = attempts /\ attempts' = [d \in Entries |-> attempts'[d]]
  BY <1>2
<1>10. Shaped(row)
  BY <1>1, <1>3, EntryTypes DEF EntryRow, Shaped
<1>9. Written(e) /\ Renewed(e)
  BY <1>4, <1>6, <1>7, <1>8, <1>10 DEF Written, Same, Renewed
<1> QED
  BY <1>1, <1>9, OneStep DEF EntryStep

LEMMA LoopSteps ==
  ASSUME DeliveryInv, NEW w \in Workers, Deliver(w)
  PROVE  Stepped
<1>1. DeliveryTypes /\ FencesInOrder /\ (worker[w].pc # "idle" => worker[w].entry \in Entries)
  BY DEF DeliveryInv, Holders
<1>2. CASE UNCHANGED <<outbox, attempts>>
  BY <1>1, <1>2, NoStep
<1>3. CASE \/ SendSucceeds(w) \/ SendAmbiguous(w) \/ SendNotPerformed(w) \/ RecordReceipt(w) \/ MarkPartInDoubt(w)
           \/ PartRefused(w) \/ Interrupt(w) \/ Crash(w) \/ Prepare(w) \/ \E e \in Entries : Pick(w, e)
  BY <1>2, <1>3 DEF SendSucceeds, SendAmbiguous, SendNotPerformed, RecordReceipt, MarkPartInDoubt, PartRefused,
     Interrupt, Crash, Prepare, Pick, tables
<1>4. {"failed", "pending", "delivered", "in_doubt"} \subseteq Ends
  BY DEF Ends
<1>5. CASE ReleaseClaim(w) \/ MarkFailed(w) \/ MarkInDoubt(w) \/ MarkDelivered(w)
  BY <1>1, <1>4, <1>5, HolderEnds DEF ReleaseClaim, MarkFailed, MarkInDoubt, MarkDelivered
<1>6. CASE OpenTransport(w)
  BY <1>1, <1>2, <1>4, <1>6, HolderEnds DEF OpenTransport
<1>7. CASE Claim(w)
  BY <1>1, <1>7, ClaimStep DEF Claim
<1>8. CASE ClaimRefused(w)
  BY <1>1, <1>2, <1>8, DoubtStep DEF ClaimRefused
<1>9. CASE FailPending(w) /\ ~UNCHANGED outbox
  <2>1. PICK e \in Entries : e = worker[w].entry
    BY <1>1, <1>9 DEF FailPending
  <2>2. outbox' = [outbox EXCEPT ![e].status = "failed"] /\ UNCHANGED attempts /\ outbox[e].status = "pending"
    BY <1>9, <2>1 DEF FailPending
  <2>3. "failed" \in OutboxStatuses
    BY DEF OutboxStatuses
  <2>4. Written(e) /\ Operated(e)
    BY <1>1, <2>2, <2>3, StatusWritten DEF Operated
  <2> QED
    BY <1>1, <2>4, OneStep DEF EntryStep
<1>10. CASE FailPending(w) /\ UNCHANGED outbox
  BY <1>2, <1>10 DEF FailPending
<1>11. CASE Heartbeat(w)
  <2>1. PICK e \in Entries : e = worker[w].entry
    BY <1>1, <1>11 DEF Heartbeat, Busy
  <2>2. CASE Live(e, worker[w].fence, now) /\ outbox' = [outbox EXCEPT ![e].lease = now + LeaseSeconds]
             /\ UNCHANGED attempts
    BY <2>2, RenewStep DEF Live
  <2>3. CASE Expired(e, worker[w].fence, now) /\ Close(e, "in_doubt", "in_doubt")
    BY <2>3, DoubtStep DEF Expired
  <2> QED
    BY <1>2, <1>11, <2>1, <2>2, <2>3 DEF Heartbeat
<1> QED
  BY <1>3, <1>5, <1>6, <1>7, <1>8, <1>9, <1>10, <1>11 DEF Deliver

LEMMA EntrySteps == ASSUME DeliveryInv, Next PROVE Stepped
<1>1. DeliveryTypes /\ FencesInOrder
  BY DEF DeliveryInv
<1>2. CASE Tick \/ ReadParts \/ \E e \in Entries : ListStale(e)
  BY <1>1, <1>2, NoStep DEF Tick, ReadParts, ListStale, tables
<1>3. CASE RecoverClaim
  <2>1. recovery.pc = "claim" /\ recovery.entry \in Entries
    BY <1>3 DEF RecoverClaim, DeliveryInv, Holders
  <2>2. PICK e \in Entries : e = recovery.entry
    BY <2>1
  <2>3. CASE Lapsed(e) /\ ~recovery.attempted
    <3>1. Close(e, "pending", "released") /\ "pending" \in Ends
      BY <1>3, <2>2, <2>3 DEF RecoverClaim, Lapsed, Ends
    <3>2. Written(e) /\ Closed(e, "pending")
      BY <1>1, <2>3, <3>1, CloseWrites, DoubtOutcome DEF Lapsed
    <3>3. Requeues(e)
      BY <2>1, <2>2, <2>3 DEF Requeues
    <3> QED
      BY <1>1, <3>1, <3>2, <3>3, OneStep DEF EntryStep
  <2>4. CASE Lapsed(e) /\ recovery.attempted
    BY <1>3, <2>2, <2>4, DoubtStep DEF RecoverClaim, Lapsed
  <2>5. CASE ~Lapsed(e)
    BY <1>1, <1>3, <2>2, <2>5, NoStep DEF RecoverClaim, Lapsed
  <2> QED
    BY <2>3, <2>4, <2>5
<1> QED
  BY <1>2, <1>3, OperatorSteps, LoopSteps DEF Next

-------------------------------------------------------------------------------
(* The two ledgers *)

LedgerOf(e) ==
  /\ outbox[e].fence \in 0..MaxFence
  /\ outbox[e].status \in {"claimed", "in_doubt", "delivered"} => outbox[e].fence \in Fences
  /\ \A f \in Fences : f > outbox[e].fence => attempts[e][f] = "none"
  /\ \A f \in Fences : attempts[e][f] = "claimed" <=> outbox[e].status = "claimed" /\ outbox[e].fence = f
  /\ outbox[e].status # "pruned" => outbox[e].attempt_count = Cardinality(Counted(e))

LEMMA LedgerEach == FencesInOrder /\ LedgersAgree <=> \A e \in Entries : LedgerOf(e)
  BY DEF FencesInOrder, LedgersAgree, LedgerOf, Counted

LEMMA CountedFinite ==
  ASSUME MaxFence \in Nat, NEW e
  PROVE  IsFiniteSet(Counted(e)) /\ Cardinality(Counted(e)) \in Nat
<1>1. IsFiniteSet(Fences)
  BY FS_Interval DEF Fences
<1>2. Counted(e) \in SUBSET Fences
  BY DEF Counted
<1> QED
  BY <1>1, <1>2, FS_Subset, FS_CardinalityType

\* One attempt gets another outcome.
LEMMA CountedMoves ==
  ASSUME MaxFence \in Nat, NEW e, attempts[e] \in [Fences -> Outcomes], NEW f \in Fences, NEW outcome,
         attempts'[e] = [attempts[e] EXCEPT ![f] = outcome]
  PROVE  /\ outcome \notin {"none", "released"} =>
              Cardinality(Counted(e)') = IF f \in Counted(e) THEN Cardinality(Counted(e))
                                         ELSE Cardinality(Counted(e)) + 1
         /\ outcome = "released" /\ f \in Counted(e) =>
              Cardinality(Counted(e)') = Cardinality(Counted(e)) - 1
<1>1. outcome \notin {"none", "released"} => Counted(e)' = Counted(e) \cup {f}
  BY DEF Counted
<1>2. outcome = "released" => Counted(e)' = Counted(e) \ {f}
  BY DEF Counted
<1>3. IsFiniteSet(Counted(e))
  BY CountedFinite
<1> QED
  BY <1>1, <1>2, <1>3, FS_AddElement, FS_RemoveElement

LEMMA LedgerTyped ==
  ASSUME DeliveryTypes, NEW e \in Entries, LedgerOf(e), EntryStep(e), Shaped(outbox'[e])
  PROVE  /\ LedgerOf(e)'
         /\ outbox'[e] \in EntryRow
         /\ attempts'[e] \in [Fences -> Outcomes]
<1>1. /\ outbox[e] \in EntryRow /\ outbox[e].status \in OutboxStatuses /\ outbox[e].fence \in Nat
      /\ outbox[e].attempt_count \in Nat /\ attempts[e] \in [Fences -> Outcomes] /\ MaxFence \in Nat
  BY EntryTypes
<1>2. ASSUME outbox'[e].status \in OutboxStatuses, outbox'[e].fence \in Nat, outbox'[e].attempt_count \in Nat
      PROVE  outbox'[e] \in EntryRow
  BY <1>2 DEF Shaped, EntryRow
<1>3. {"claimed", "pending", "failed", "delivered", "cancelled", "in_doubt"} \subseteq OutboxStatuses
      /\ "claimed" \in Outcomes /\ "none" \in Outcomes
  BY DEF OutboxStatuses, Outcomes
<1>4. CASE attempts'[e] = attempts[e] /\ outbox'[e].fence = outbox[e].fence
           /\ (outbox'[e].status = "claimed" <=> outbox[e].status = "claimed")
           /\ (outbox'[e].status \in {"in_doubt", "delivered"} => outbox[e].status \in {"in_doubt", "delivered"})
           /\ outbox'[e].status \in OutboxStatuses /\ outbox[e].status # "pruned"
           /\ outbox'[e].attempt_count = outbox[e].attempt_count
  <2>1. Counted(e)' = Counted(e)
    BY <1>4 DEF Counted
  <2>2. LedgerOf(e)'
    BY <1>4, <2>1 DEF LedgerOf
  <2> QED
    BY <1>1, <1>2, <1>4, <2>2
<1>5. CASE Same(e)
  <2>1. Counted(e)' = Counted(e)
    BY <1>5 DEF Counted, Same
  <2>2. LedgerOf(e)'
    BY <1>5, <2>1 DEF LedgerOf, Same
  <2> QED
    BY <1>1, <1>5, <2>2 DEF Same
<1>6. CASE Renewed(e)
  BY <1>3, <1>4, <1>6 DEF Renewed
<1>7. CASE Operated(e)
  BY <1>3, <1>4, <1>7 DEF Operated
<1>8. CASE Pruned(e)
  <2>1. attempts'[e] \in [Fences -> Outcomes]
    BY <1>3, <1>8 DEF Pruned
  <2>2. LedgerOf(e)'
    BY <1>8 DEF Pruned, LedgerOf
  <2>3. outbox'[e].attempt_count \in Nat
    BY <1>8 DEF Pruned
  <2> QED
    BY <1>1, <1>2, <1>8, <2>1, <2>2, <2>3 DEF Pruned, OutboxStatuses
<1>9. CASE Taken(e)
  <2>1. PICK k \in Fences : k = outbox[e].fence + 1
    BY <1>9 DEF Taken
  <2>2. attempts'[e] = [attempts[e] EXCEPT ![k] = "claimed"] /\ attempts[e][k] = "none" /\ k \in Nat
    BY <1>1, <1>9, <2>1 DEF Taken, LedgerOf, Fences
  <2>3. attempts'[e] \in [Fences -> Outcomes]
    BY <1>1, <1>3, <2>2
  <2>4. k \notin Counted(e)
    BY <2>2 DEF Counted
  <2>5. Cardinality(Counted(e)') = Cardinality(Counted(e)) + 1
    BY <1>1, <2>2, <2>4, CountedMoves
  <2>6. outbox'[e].attempt_count = Cardinality(Counted(e)')
    BY <1>9, <2>5 DEF Taken, LedgerOf
  <2>7. \A f \in Fences : attempts'[e][f] = IF f = k THEN "claimed" ELSE attempts[e][f]
    BY <1>1, <2>2
  <2>8. outbox'[e].fence = k /\ outbox'[e].status = "claimed" /\ k \in 0..MaxFence
    BY <1>1, <1>9, <2>1 DEF Taken, Fences
  <2>9. \A f \in Fences : f > k => attempts'[e][f] = "none"
    BY <1>1, <2>1, <2>7 DEF LedgerOf, Fences
  <2>10. \A f \in Fences : attempts'[e][f] = "claimed" <=> f = k
    BY <1>9, <2>7 DEF Taken, LedgerOf
  <2>11. LedgerOf(e)'
    BY <2>6, <2>8, <2>9, <2>10 DEF LedgerOf
  <2> QED
    BY <1>1, <1>2, <1>3, <1>9, <2>3, <2>8, <2>11 DEF Taken
<1>10. ASSUME NEW status \in Ends, Closed(e, status)
       PROVE  LedgerOf(e)' /\ outbox'[e] \in EntryRow /\ attempts'[e] \in [Fences -> Outcomes]
  <2>1. PICK k \in Fences : k = outbox[e].fence
    BY <1>10 DEF Closed, LedgerOf
  <2>2. PICK outcome \in Outcomes \ {"none", "claimed"} : outcome = Outcome(status)
    BY DoubtOutcome
  <2>3. attempts'[e] = [attempts[e] EXCEPT ![k] = outcome] /\ attempts[e][k] = "claimed"
    BY <1>10, <2>1, <2>2 DEF Closed, LedgerOf
  <2>4. attempts'[e] \in [Fences -> Outcomes]
    BY <1>1, <2>2, <2>3
  <2>5. k \in Counted(e) /\ outcome \in Outcomes
    BY <2>2, <2>3 DEF Counted
  <2>6. (outcome = "released") = (status = "pending")
    BY <2>2 DEF Outcome, Ends
  <2>7. Cardinality(Counted(e)') = IF status = "pending" THEN Cardinality(Counted(e)) - 1 ELSE Cardinality(Counted(e))
    BY <1>1, <2>2, <2>3, <2>5, <2>6, CountedMoves
  <2>8. outbox'[e].attempt_count = Cardinality(Counted(e)')
    BY <1>10, <2>7 DEF Closed, LedgerOf
  <2>9. outbox'[e].attempt_count \in Nat
    <3>1. IsFiniteSet(Counted(e)) /\ Cardinality(Counted(e)) \in Nat
      BY <1>1, CountedFinite
    <3>2. Cardinality(Counted(e)) # 0
      BY <2>5, <3>1, FS_EmptySet
    <3> QED
      BY <2>7, <2>8, <3>1, <3>2
  <2>10. \A f \in Fences : attempts'[e][f] = IF f = k THEN outcome ELSE attempts[e][f]
    BY <1>1, <2>3
  <2>11. outbox'[e].fence = k /\ outbox'[e].status = status /\ status # "claimed" /\ status \in OutboxStatuses
    BY <1>10, <2>1 DEF Closed, Ends, OutboxStatuses
  <2>12. \A f \in Fences : f > k => attempts'[e][f] = "none"
    BY <2>1, <2>10 DEF LedgerOf, Fences
  <2>13. \A f \in Fences : attempts'[e][f] # "claimed"
    BY <1>10, <2>1, <2>2, <2>10 DEF Closed, LedgerOf
  <2>14. outbox'[e].fence \in 0..MaxFence
    BY <1>10, <2>1, <2>11 DEF LedgerOf
  <2>15. LedgerOf(e)'
    BY <2>8, <2>11, <2>12, <2>13, <2>14 DEF LedgerOf
  <2> QED
    BY <1>1, <1>2, <2>1, <2>4, <2>9, <2>11, <2>15
<1> QED
  BY <1>5, <1>6, <1>7, <1>8, <1>9, <1>10 DEF EntryStep

LEMMA LedgersKeep ==
  ASSUME DeliveryInv, Stepped
  PROVE  /\ outbox' \in [Entries -> EntryRow] /\ attempts' \in [Entries -> [Fences -> Outcomes]]
         /\ FencesInOrder' /\ LedgersAgree'
<1>1. DeliveryTypes /\ \A e \in Entries : LedgerOf(e)
  BY LedgerEach DEF DeliveryInv
<1>2. ASSUME NEW e \in Entries
      PROVE  LedgerOf(e)' /\ outbox'[e] \in EntryRow /\ attempts'[e] \in [Fences -> Outcomes]
  BY <1>1, LedgerTyped DEF Stepped
<1>3. outbox' \in [Entries -> EntryRow]
  BY <1>2 DEF Stepped
<1>4. attempts' \in [Entries -> [Fences -> Outcomes]]
  BY <1>2 DEF Stepped
<1>5. FencesInOrder' /\ LedgersAgree'
  BY <1>2 DEF FencesInOrder, LedgersAgree, LedgerOf, Counted
<1> QED
  BY <1>3, <1>4, <1>5

-------------------------------------------------------------------------------
(* How a delivery loop moves, and what it writes *)

Goes(w, pc) ==
  /\ worker'[w].pc = pc
  /\ worker'[w].entry = worker[w].entry
  /\ worker'[w].fence = worker[w].fence
  /\ worker'[w].part = worker[w].part

Claims(w) ==
  /\ worker[w].pc = "picked" /\ worker'[w].pc = "claimed"
  /\ worker'[w].entry = worker[w].entry
  /\ worker'[w].fence = outbox[worker[w].entry].fence + 1
  /\ Taken(worker[w].entry)

\* The claim (e, k) at the moment a part of it is written.
Current(e, k) ==
  /\ outbox[e].status = "claimed" /\ outbox[e].fence = k
  /\ ~Stalls => outbox[e].lease > now

Prepares(w) ==
  /\ worker[w].pc = "preparing" /\ worker'[w].pc = "sending"
  /\ worker'[w].entry = worker[w].entry
  /\ worker'[w].fence = worker[w].fence
  /\ worker'[w].part = 1
  /\ Current(worker[w].entry, worker[w].fence)
  /\ parts'[worker[w].entry][worker[w].fence] # Unprepared
  /\ UNCHANGED <<outbox, sends>>

Receives(w) ==
  /\ worker[w].pc = "receipt"
  /\ worker'[w].entry = worker[w].entry
  /\ worker'[w].fence = worker[w].fence
  /\ parts'[worker[w].entry][worker[w].fence] =
       [parts[worker[w].entry][worker[w].fence] EXCEPT ![worker[w].part] = "delivered"]
  /\ UNCHANGED <<outbox, sends>>
  /\ \/ worker[w].part < PartCount /\ worker'[w].pc = "sending" /\ worker'[w].part = worker[w].part + 1
     \/ ~(worker[w].part < PartCount) /\ worker'[w].pc = "settling" /\ worker'[w].part = worker[w].part

Moves(w) ==
  \/ worker'[w] = Idle
  \/ worker[w].pc = "idle" /\ worker'[w].pc = "picked" /\ worker'[w].entry \in Entries
  \/ worker[w].pc = "picked" /\ Goes(w, "exhausted")
  \/ Claims(w)
  \/ worker[w].pc = "claimed" /\ Goes(w, "preparing")
  \/ Prepares(w)
  \/ worker[w].pc = "preparing" /\ Goes(w, "releasing")
  \/ worker[w].pc = "sending" /\ Goes(w, "receipt") /\ sends' = SendsAfter(w)
  \/ worker[w].pc = "sending" /\ Goes(w, "failing") /\ worker[w].part = 1 /\ UNCHANGED sends
  \/ Receives(w)
  \/ worker[w].pc \in {"sending", "receipt", "doubt", "unsure"}
     /\ \E pc \in {"doubt", "unsure", "doubting"} : Goes(w, pc)

\* The holder of a current claim writes its parts.
Writes(w, e, k) ==
  /\ worker[w].pc \in {"preparing", "receipt", "doubt", "unsure"}
  /\ worker[w].entry = e /\ worker[w].fence = k
  /\ worker'[w].pc # worker[w].pc
  /\ Current(e, k)
  /\ parts'[e][k] # Unprepared

PartsStep(e, k) == parts'[e][k] = parts[e][k] \/ \E w \in Workers : Writes(w, e, k)

SendsPart(w, e) ==
  /\ worker[w].pc = "sending" /\ worker[w].entry = e
  /\ worker'[w].pc \in {"receipt", "doubt"}
  /\ sends' = SendsAfter(w)

SendsStep(e) == sends'[e] = sends[e] \/ \E w \in Workers : SendsPart(w, e)

LEMMA WorkerFacts ==
  /\ Idle \in WorkerRow /\ Idle.pc = "idle"
  /\ \A w \in Workers : DeliveryTypes => worker[w] \in WorkerRow
  BY DEF Idle, WorkerRow, WorkerPCs, DeliveryTypes

LEMMA HolderFacts ==
  ASSUME DeliveryInv, NEW w \in Workers, worker[w].pc \in Claiming
  PROVE  /\ worker[w].entry \in Entries /\ worker[w].fence \in Fences
         /\ parts[worker[w].entry][worker[w].fence] \in [PartNumbers -> PartStatuses]
         /\ worker[w].pc \in Sending => worker[w].part \in PartNumbers
<1>1. worker[w].entry \in Entries /\ worker[w].fence \in 1..outbox[worker[w].entry].fence
  BY DEF DeliveryInv, Holders, Claiming, Busy
<1>2. outbox[worker[w].entry].fence \in 0..MaxFence /\ MaxFence \in Nat
  BY <1>1, DeliveryAssumption DEF DeliveryInv, FencesInOrder
<1>3. worker[w].fence \in Fences
  BY <1>1, <1>2 DEF Fences
<1>4. worker[w].pc \in Sending => worker[w].part \in PartNumbers
  BY DEF DeliveryInv, SentInOrder, InOrder
<1> QED
  BY <1>1, <1>3, <1>4 DEF DeliveryInv, DeliveryTypes

LEMMA GotoMoves ==
  ASSUME DeliveryTypes, NEW w \in Workers, NEW pc \in WorkerPCs, Goto(w, pc)
  PROVE  /\ worker' \in [Workers -> WorkerRow] /\ \A v \in Workers : v # w => worker'[v] = worker[v]
         /\ Goes(w, pc)
<1>1. PICK row : row = [worker[w] EXCEPT !.pc = pc]
  OBVIOUS
<1>2. /\ row \in WorkerRow /\ row.pc = pc /\ row.entry = worker[w].entry /\ row.fence = worker[w].fence
      /\ row.part = worker[w].part
  BY <1>1, WorkerFacts DEF WorkerRow
<1>3. worker' = [worker EXCEPT ![w] = row] /\ worker \in [Workers -> WorkerRow]
  BY <1>1 DEF Goto, DeliveryTypes
<1>4. worker' \in [Workers -> WorkerRow] /\ worker'[w] = row /\ \A v \in Workers : v # w => worker'[v] = worker[v]
  BY <1>2, <1>3
<1> QED
  BY <1>2, <1>4 DEF Goes

LEMMA LeaveMoves ==
  ASSUME DeliveryTypes, NEW w \in Workers, Leave(w)
  PROVE  /\ worker' \in [Workers -> WorkerRow] /\ \A v \in Workers : v # w => worker'[v] = worker[v]
         /\ worker'[w] = Idle
  BY WorkerFacts DEF Leave, DeliveryTypes

LEMMA CancelMoves ==
  ASSUME DeliveryTypes, NEW w \in Workers, worker[w].pc \in Busy, CancelTask(w)
  PROVE  /\ worker' \in [Workers -> WorkerRow] /\ \A v \in Workers : v # w => worker'[v] = worker[v]
         /\ Moves(w) /\ worker'[w].pc # worker[w].pc
         /\ sends' = sends \/ (worker[w].pc = "sending" /\ worker'[w].pc = "doubt" /\ sends' = SendsAfter(w))
<1>1. sends' = sends \/ (worker[w].pc = "sending" /\ sends' = SendsAfter(w))
  BY DEF CancelTask
<1>2. {"releasing", "doubt", "unsure"} \subseteq WorkerPCs
  BY DEF WorkerPCs, Busy
<1>3. CASE worker[w].pc \in {"preparing", "sending", "receipt"}
  <2>1. PICK pc \in {"releasing", "doubt", "unsure"} :
          /\ pc = CancelledAt(worker[w].pc)
          /\ worker[w].pc = "preparing" => pc = "releasing"
          /\ worker[w].pc = "sending" => pc = "doubt"
          /\ worker[w].pc = "receipt" => pc = "unsure"
    BY <1>3 DEF CancelledAt
  <2>2. Goto(w, pc)
    BY <2>1 DEF CancelTask, Goto
  <2>3. /\ worker' \in [Workers -> WorkerRow] /\ \A v \in Workers : v # w => worker'[v] = worker[v]
        /\ Goes(w, pc)
    BY <1>2, <2>1, <2>2, GotoMoves
  <2>4. Moves(w)
    BY <1>3, <2>1, <2>3 DEF Moves
  <2>5. worker'[w].pc = pc
    BY <2>3 DEF Goes
  <2> QED
    BY <1>1, <1>3, <2>1, <2>3, <2>4, <2>5
<1>4. CASE worker[w].pc \notin {"preparing", "sending", "receipt"}
  <2>1. CancelledAt(worker[w].pc) = "idle"
    BY <1>4 DEF CancelledAt
  <2>2. Leave(w)
    BY <2>1 DEF CancelTask, Leave
  <2>3. worker[w].pc # "idle"
    BY DEF Busy
  <2> QED
    BY <1>1, <1>4, <2>2, <2>3, LeaveMoves, WorkerFacts DEF Moves
<1> QED
  BY <1>3, <1>4

\* One loop at a time.
WorkersMoved ==
  /\ worker' \in [Workers -> WorkerRow]
  /\ \A w \in Workers : worker'[w] = worker[w] \/ Moves(w)
  /\ \A v, w \in Workers : v # w => worker'[v] = worker[v] \/ worker'[w] = worker[w]

PartsMoved ==
  /\ parts' \in [Entries -> [Fences -> [PartNumbers -> PartStatuses]]]
  /\ \A e \in Entries, k \in Fences : PartsStep(e, k)

SendsMoved == sends' \in [Entries -> [PartNumbers -> Nat]] /\ \A e \in Entries : SendsStep(e)

LEMMA OneWorkerMoves ==
  ASSUME NEW w \in Workers, worker' \in [Workers -> WorkerRow],
         \A v \in Workers : v # w => worker'[v] = worker[v],
         worker'[w] = worker[w] \/ Moves(w)
  PROVE  WorkersMoved
  BY DEF WorkersMoved

LEMMA PartsAlone == ASSUME DeliveryTypes, UNCHANGED parts PROVE PartsMoved
  BY DEF DeliveryTypes, PartsMoved, PartsStep

LEMMA SendsAlone == ASSUME DeliveryTypes, UNCHANGED sends PROVE SendsMoved
  BY DEF DeliveryTypes, SendsMoved, SendsStep

LEMMA PartSent ==
  ASSUME DeliveryInv, NEW w \in Workers, worker[w].pc = "sending", worker'[w].pc \in {"receipt", "doubt"},
         sends' = SendsAfter(w)
  PROVE  SendsMoved
<1>1. worker[w].entry \in Entries /\ worker[w].part \in PartNumbers
  BY HolderFacts DEF Claiming, Busy, Sending
<1>2. sends \in [Entries -> [PartNumbers -> Nat]]
  BY DEF DeliveryInv, DeliveryTypes
<1>3. PICK e \in Entries, p \in PartNumbers : e = worker[w].entry /\ p = worker[w].part
  BY <1>1
<1>4. PICK n \in Nat : n = IF sends[e][p] < 2 THEN sends[e][p] + 1 ELSE sends[e][p]
  <2>1. sends[e][p] \in Nat
    BY <1>2
  <2> QED
    BY <2>1
<1>5. sends' = [sends EXCEPT ![e] = [sends[e] EXCEPT ![p] = n]]
  BY <1>3, <1>4 DEF SendsAfter
<1>6. sends' \in [Entries -> [PartNumbers -> Nat]] /\ \A d \in Entries : d # e => sends'[d] = sends[d]
  BY <1>2, <1>5
<1>7. SendsPart(w, e)
  BY <1>3 DEF SendsPart
<1> QED
  BY <1>6, <1>7 DEF SendsMoved, SendsStep

\* The parts of one claim are written.
LEMMA ClaimWritten ==
  ASSUME DeliveryTypes, NEW e \in Entries, NEW k \in Fences, NEW given \in [PartNumbers -> PartStatuses],
         parts' = [parts EXCEPT ![e] = [parts[e] EXCEPT ![k] = given]]
  PROVE  /\ parts' \in [Entries -> [Fences -> [PartNumbers -> PartStatuses]]]
         /\ parts'[e][k] = given
         /\ \A d \in Entries, f \in Fences : d # e \/ f # k => parts'[d][f] = parts[d][f]
<1>1. parts \in [Entries -> [Fences -> [PartNumbers -> PartStatuses]]]
  BY DEF DeliveryTypes
<1>2. PICK P : P = [PartNumbers -> PartStatuses]
  OBVIOUS
<1>3. given \in P /\ parts \in [Entries -> [Fences -> P]]
  BY <1>1, <1>2
<1>4. /\ parts' \in [Entries -> [Fences -> P]] /\ parts'[e][k] = given
      /\ \A d \in Entries, f \in Fences : d # e \/ f # k => parts'[d][f] = parts[d][f]
  BY <1>3
<1> QED
  BY <1>2, <1>4

LEMMA PartMarked ==
  ASSUME DeliveryInv, NEW w \in Workers, worker[w].pc \in {"receipt", "doubt", "unsure"},
         NEW status \in {"delivered", "in_doubt"}, MarkPart(w, status), worker'[w].pc # worker[w].pc
  PROVE  /\ PartsMoved
         /\ parts'[worker[w].entry][worker[w].fence] =
              [parts[worker[w].entry][worker[w].fence] EXCEPT ![worker[w].part] = status]
<1>1. /\ DeliveryTypes
      /\ worker[w].entry \in Entries /\ worker[w].fence \in Fences /\ worker[w].part \in PartNumbers
      /\ parts[worker[w].entry][worker[w].fence] \in [PartNumbers -> PartStatuses]
  BY HolderFacts DEF DeliveryInv, Claiming, Busy, Sending
<1>2. PICK e \in Entries, k \in Fences, p \in PartNumbers :
        e = worker[w].entry /\ k = worker[w].fence /\ p = worker[w].part
  BY <1>1
<1>3. PICK given \in [PartNumbers -> PartStatuses] : given = [parts[e][k] EXCEPT ![p] = status]
  BY <1>1, <1>2 DEF PartStatuses
<1>4. given # Unprepared
  <2>1. given[p] = status
    BY <1>1, <1>2, <1>3
  <2>2. Unprepared[p] = "none"
    BY DEF Unprepared
  <2> QED
    BY <2>1, <2>2
<1>5. parts' = [parts EXCEPT ![e] = [parts[e] EXCEPT ![k] = given]]
  BY <1>2, <1>3 DEF MarkPart
<1>6. /\ parts' \in [Entries -> [Fences -> [PartNumbers -> PartStatuses]]]
      /\ parts'[e][k] = given
      /\ \A d \in Entries, f \in Fences : d # e \/ f # k => parts'[d][f] = parts[d][f]
  <2>1. DeliveryTypes
    BY <1>1
  <2> QED
    BY <1>5, <2>1, ClaimWritten, ZenonT(60)
<1>7. Writes(w, e, k)
  BY <1>2, <1>4, <1>6 DEF Writes, MarkPart, Live, Current
<1>8. \A d \in Entries, f \in Fences : PartsStep(d, f)
  BY <1>6, <1>7 DEF PartsStep
<1> QED
  BY <1>2, <1>3, <1>6, <1>8 DEF PartsMoved

LEMMA PartsPrepared ==
  ASSUME DeliveryInv, NEW w \in Workers, worker[w].pc = "preparing", worker'[w].pc # worker[w].pc,
         Live(worker[w].entry, worker[w].fence, PrepareTime(w)),
         parts' = [parts EXCEPT ![worker[w].entry][worker[w].fence] = [p \in PartNumbers |-> "pending"]]
  PROVE  /\ PartsMoved
         /\ Current(worker[w].entry, worker[w].fence)
         /\ parts'[worker[w].entry][worker[w].fence] # Unprepared
<1>1. /\ DeliveryTypes /\ worker[w].entry \in Entries /\ worker[w].fence \in Fences
  BY HolderFacts DEF DeliveryInv, Claiming, Busy
<1>2. PICK e \in Entries, k \in Fences : e = worker[w].entry /\ k = worker[w].fence
  BY <1>1
<1>3. PICK given : given = [p \in PartNumbers |-> "pending"]
  OBVIOUS
<1>4. given \in [PartNumbers -> PartStatuses] /\ given # Unprepared
  <2>1. 1 \in PartNumbers
    BY DeliveryAssumption DEF PartNumbers
  <2>2. given[1] = "pending" /\ Unprepared[1] = "none"
    BY <1>3, <2>1 DEF Unprepared
  <2> QED
    BY <1>3, <2>2 DEF PartStatuses
<1>5. parts' = [parts EXCEPT ![e] = [parts[e] EXCEPT ![k] = given]]
  BY <1>2, <1>3
<1>6. /\ parts' \in [Entries -> [Fences -> [PartNumbers -> PartStatuses]]]
      /\ parts'[e][k] = given
      /\ \A d \in Entries, f \in Fences : d # e \/ f # k => parts'[d][f] = parts[d][f]
  BY <1>1, <1>4, <1>5, ClaimWritten
<1>7. Current(e, k)
  BY <1>2 DEF Live, PrepareTime, Current
<1>8. Writes(w, e, k)
  BY <1>2, <1>4, <1>6, <1>7 DEF Writes
<1>9. \A d \in Entries, f \in Fences : PartsStep(d, f)
  BY <1>6, <1>8 DEF PartsStep
<1> QED
  BY <1>2, <1>4, <1>6, <1>7, <1>9 DEF PartsMoved

-------------------------------------------------------------------------------
(* The steps of a delivery loop *)

LEMMA PartSteps ==
  ASSUME DeliveryInv, NEW w \in Workers, Prepare(w) \/ RecordReceipt(w) \/ MarkPartInDoubt(w)
  PROVE  WorkersMoved /\ PartsMoved /\ SendsMoved
<1>1. DeliveryTypes /\ worker \in [Workers -> WorkerRow] /\ worker[w] \in WorkerRow
  BY DEF DeliveryInv, DeliveryTypes
<1>2. SendsMoved /\ UNCHANGED sends
  BY <1>1, SendsAlone DEF Prepare, RecordReceipt, MarkPartInDoubt
<1>3. {"sending", "releasing", "settling", "doubting"} \subseteq WorkerPCs
  BY DEF WorkerPCs, Busy
<1>4. ASSUME NEW pc \in {"sending", "settling"}, NEW p \in Nat,
             worker' = [worker EXCEPT ![w] = [worker[w] EXCEPT !.pc = pc, !.part = p]]
      PROVE  /\ worker' \in [Workers -> WorkerRow] /\ \A v \in Workers : v # w => worker'[v] = worker[v]
             /\ worker'[w].pc = pc /\ worker'[w].part = p
             /\ worker'[w].entry = worker[w].entry /\ worker'[w].fence = worker[w].fence
  <2>1. PICK row : row = [worker[w] EXCEPT !.pc = pc, !.part = p]
    OBVIOUS
  <2>2. /\ row \in WorkerRow /\ row.pc = pc /\ row.part = p
        /\ row.entry = worker[w].entry /\ row.fence = worker[w].fence
    BY <1>1, <1>3, <2>1 DEF WorkerRow
  <2>3. worker' = [worker EXCEPT ![w] = row]
    BY <1>4, <2>1
  <2>4. /\ worker' \in [Workers -> WorkerRow] /\ worker'[w] = row
        /\ \A v \in Workers : v # w => worker'[v] = worker[v]
    BY <1>1, <2>2, <2>3
  <2> QED
    BY <2>2, <2>4
<1>5. CASE Prepare(w) /\ UNCHANGED parts /\ Goto(w, "releasing")
  <2>1. /\ worker' \in [Workers -> WorkerRow] /\ \A v \in Workers : v # w => worker'[v] = worker[v]
        /\ Goes(w, "releasing")
    BY <1>1, <1>3, <1>5, GotoMoves
  <2>2. Moves(w)
    BY <1>5, <2>1 DEF Moves, Prepare
  <2> QED
    BY <1>1, <1>2, <1>5, <2>1, <2>2, OneWorkerMoves, PartsAlone
<1>6. CASE Prepare(w) /\ ~(UNCHANGED parts /\ Goto(w, "releasing"))
  <2>1. /\ worker[w].pc = "preparing"
        /\ worker' = [worker EXCEPT ![w].pc = "sending", ![w].part = 1] /\ UNCHANGED outbox
        /\ Live(worker[w].entry, worker[w].fence, PrepareTime(w))
        /\ parts' = [parts EXCEPT ![worker[w].entry][worker[w].fence] = [p \in PartNumbers |-> "pending"]]
    BY <1>6 DEF Prepare
  <2>2. /\ worker' \in [Workers -> WorkerRow] /\ \A v \in Workers : v # w => worker'[v] = worker[v]
        /\ worker'[w].pc = "sending" /\ worker'[w].part = 1
        /\ worker'[w].entry = worker[w].entry /\ worker'[w].fence = worker[w].fence
    BY <1>4, <2>1
  <2>3. PartsMoved /\ Prepares(w)
    BY <1>2, <2>1, <2>2, PartsPrepared DEF Prepares
  <2>4. Moves(w)
    BY <2>3 DEF Moves
  <2> QED
    BY <1>2, <2>2, <2>3, <2>4, OneWorkerMoves
<1>7. CASE RecordReceipt(w)
  <2>1. worker[w].pc = "receipt" /\ MarkPart(w, "delivered") /\ UNCHANGED outbox /\ PartCount \in Nat
    BY <1>7, DeliveryAssumption DEF RecordReceipt
  <2>2. worker[w].part \in Nat
    BY <1>1 DEF WorkerRow
  <2>3. CASE worker[w].part < PartCount
    <3>1. worker' = [worker EXCEPT ![w] = [worker[w] EXCEPT !.pc = "sending", !.part = worker[w].part + 1]]
      BY <1>7, <2>3 DEF RecordReceipt
    <3>2. PICK p \in Nat : p = worker[w].part + 1
      BY <2>2
    <3>3. /\ worker' \in [Workers -> WorkerRow] /\ \A v \in Workers : v # w => worker'[v] = worker[v]
          /\ worker'[w].pc = "sending" /\ worker'[w].part = worker[w].part + 1
          /\ worker'[w].entry = worker[w].entry /\ worker'[w].fence = worker[w].fence
      BY <1>4, <3>1, <3>2
    <3>4. PartsMoved /\ Receives(w)
      BY <1>2, <2>1, <2>3, <3>3, PartMarked DEF Receives
    <3>5. Moves(w)
      BY <3>4 DEF Moves
    <3> QED
      BY <1>2, <3>3, <3>4, <3>5, OneWorkerMoves
  <2>4. CASE ~(worker[w].part < PartCount)
    <3>1. Goto(w, "settling")
      BY <1>7, <2>4 DEF RecordReceipt, Goto
    <3>2. /\ worker' \in [Workers -> WorkerRow] /\ \A v \in Workers : v # w => worker'[v] = worker[v]
          /\ Goes(w, "settling")
      BY <1>1, <1>3, <3>1, GotoMoves
    <3>3. worker'[w].pc # worker[w].pc
      BY <2>1, <3>2 DEF Goes
    <3>4. PartsMoved /\ Receives(w)
      BY <1>2, <2>1, <2>4, <3>2, <3>3, PartMarked DEF Receives, Goes
    <3>5. Moves(w)
      BY <3>4 DEF Moves
    <3> QED
      BY <1>2, <3>2, <3>4, <3>5, OneWorkerMoves
  <2> QED
    BY <2>3, <2>4
<1>8. CASE MarkPartInDoubt(w)
  <2>1. worker[w].pc \in {"doubt", "unsure"} /\ MarkPart(w, "in_doubt") /\ Goto(w, "doubting")
    BY <1>8 DEF MarkPartInDoubt
  <2>2. /\ worker' \in [Workers -> WorkerRow] /\ \A v \in Workers : v # w => worker'[v] = worker[v]
        /\ Goes(w, "doubting")
    BY <1>1, <1>3, <2>1, GotoMoves
  <2>3. worker'[w].pc # worker[w].pc
    BY <2>1, <2>2 DEF Goes
  <2>4. PartsMoved
    BY <2>1, <2>3, PartMarked
  <2>5. Moves(w)
    BY <2>1, <2>2 DEF Moves
  <2> QED
    BY <1>2, <2>2, <2>4, <2>5, OneWorkerMoves
<1> QED
  BY <1>5, <1>6, <1>7, <1>8

LEMMA CancelSteps ==
  ASSUME DeliveryInv, NEW w \in Workers, Heartbeat(w) \/ Interrupt(w)
  PROVE  WorkersMoved /\ PartsMoved /\ SendsMoved
<1>1. DeliveryTypes /\ worker \in [Workers -> WorkerRow] /\ worker[w].pc \in Busy
  BY DEF DeliveryInv, DeliveryTypes, Heartbeat, Interrupt
<1>2. CASE UNCHANGED <<worker, sends, parts>>
  BY <1>1, <1>2, PartsAlone, SendsAlone, OneWorkerMoves
<1>3. CASE CancelTask(w)
  <2>1. /\ worker' \in [Workers -> WorkerRow] /\ \A v \in Workers : v # w => worker'[v] = worker[v]
        /\ Moves(w) /\ worker'[w].pc # worker[w].pc
        /\ sends' = sends \/ (worker[w].pc = "sending" /\ worker'[w].pc = "doubt" /\ sends' = SendsAfter(w))
    BY <1>1, <1>3, CancelMoves
  <2>2. WorkersMoved
    BY <2>1, OneWorkerMoves
  <2>3. SendsMoved
    BY <1>1, <2>1, SendsAlone, PartSent
  <2>4. PartsMoved
    <3>1. CASE UNCHANGED parts
      BY <1>1, <3>1, PartsAlone
    <3>2. CASE /\ worker[w].pc = "preparing"
               /\ Live(worker[w].entry, worker[w].fence, PrepareTime(w))
               /\ parts' = [parts EXCEPT ![worker[w].entry][worker[w].fence] = [p \in PartNumbers |-> "pending"]]
      BY <2>1, <3>2, PartsPrepared
    <3>3. CASE worker[w].pc = "receipt" /\ MarkPart(w, "delivered")
      BY <2>1, <3>3, PartMarked
    <3> QED
      BY <3>1, <3>2, <3>3 DEF Heartbeat, Interrupt
  <2> QED
    BY <2>2, <2>3, <2>4
<1> QED
  BY <1>2, <1>3 DEF Heartbeat, Interrupt

LEMMA PlainSteps ==
  ASSUME DeliveryInv, NEW w \in Workers, Deliver(w), UNCHANGED parts, ~Heartbeat(w), ~Interrupt(w),
         ~Prepare(w), ~RecordReceipt(w), ~MarkPartInDoubt(w)
  PROVE  WorkersMoved /\ PartsMoved /\ SendsMoved
<1>1. DeliveryTypes /\ worker \in [Workers -> WorkerRow] /\ worker[w] \in WorkerRow /\ PartsMoved
  BY PartsAlone DEF DeliveryInv, DeliveryTypes
<1>2. CASE Leave(w) /\ UNCHANGED sends
  BY <1>1, <1>2, LeaveMoves, OneWorkerMoves, SendsAlone DEF Moves
<1>3. CASE \/ FailPending(w) \/ ReleaseClaim(w) \/ MarkFailed(w) \/ MarkInDoubt(w) \/ MarkDelivered(w) \/ Crash(w)
  BY <1>2, <1>3 DEF FailPending, ReleaseClaim, MarkFailed, MarkInDoubt, MarkDelivered, Crash
<1>4. {"exhausted", "receipt", "doubt", "failing", "doubting"} \subseteq WorkerPCs
  BY DEF WorkerPCs, Busy
<1>5. ASSUME NEW pc \in {"exhausted", "receipt", "doubt", "failing", "doubting"}, Goto(w, pc), Goes(w, pc) => Moves(w)
      PROVE  WorkersMoved /\ worker'[w].pc = pc
  BY <1>1, <1>4, <1>5, GotoMoves, OneWorkerMoves DEF Goes
<1>6. CASE SendSucceeds(w)
  <2>1. WorkersMoved /\ worker'[w].pc = "receipt"
    BY <1>5, <1>6 DEF SendSucceeds, Moves
  <2> QED
    BY <1>1, <1>6, <2>1, PartSent DEF SendSucceeds
<1>7. CASE SendAmbiguous(w)
  <2>1. WorkersMoved /\ worker'[w].pc = "doubt"
    BY <1>5, <1>7 DEF SendAmbiguous, Moves
  <2> QED
    BY <1>1, <1>7, <2>1, PartSent, SendsAlone DEF SendAmbiguous
<1>8. CASE SendNotPerformed(w)
  <2>1. WorkersMoved
    BY <1>5, <1>8 DEF SendNotPerformed, Moves
  <2> QED
    BY <1>1, <1>8, <2>1, SendsAlone DEF SendNotPerformed
<1>9. CASE PartRefused(w)
  <2>1. CASE worker[w].pc = "unsure"
    <3>1. WorkersMoved
      BY <1>5, <1>9, <2>1 DEF PartRefused, Moves
    <3> QED
      BY <1>1, <1>9, <3>1, SendsAlone DEF PartRefused
  <2>2. CASE worker[w].pc # "unsure"
    BY <1>2, <1>9, <2>2 DEF PartRefused
  <2> QED
    BY <2>1, <2>2
<1>10. CASE ClaimRefused(w) /\ Goto(w, "exhausted")
  <2>1. WorkersMoved
    BY <1>5, <1>10 DEF ClaimRefused, Moves
  <2> QED
    BY <1>1, <1>10, <2>1, SendsAlone DEF ClaimRefused
<1>11. CASE ClaimRefused(w) /\ ~Goto(w, "exhausted")
  BY <1>2, <1>11 DEF ClaimRefused
<1>12. ASSUME NEW e \in Entries, Pick(w, e) PROVE WorkersMoved /\ SendsMoved
  <2>1. PICK row : row = [Idle EXCEPT !.pc = "picked", !.entry = e]
    OBVIOUS
  <2>2. row \in WorkerRow /\ row.pc = "picked" /\ row.entry = e
    BY <2>1 DEF Idle, WorkerRow, WorkerPCs
  <2>3. worker' = [worker EXCEPT ![w] = row] /\ worker[w].pc = "idle" /\ UNCHANGED sends
    BY <1>12, <2>1 DEF Pick
  <2>4. /\ worker' \in [Workers -> WorkerRow] /\ worker'[w] = row
        /\ \A v \in Workers : v # w => worker'[v] = worker[v]
    BY <1>1, <2>2, <2>3
  <2>5. Moves(w)
    BY <2>2, <2>3, <2>4 DEF Moves
  <2> QED
    BY <1>1, <2>3, <2>4, <2>5, OneWorkerMoves, SendsAlone
<1>13. CASE Claim(w)
  <2>1. worker[w].pc = "picked" /\ worker[w].entry \in Entries
    BY <1>13 DEF Claim, DeliveryInv, Holders
  <2>2. PICK k \in Nat : k = outbox[worker[w].entry].fence + 1
    BY <1>1, <2>1, EntryTypes
  <2>3. PICK row : row = [worker[w] EXCEPT !.pc = "claimed", !.fence = k]
    OBVIOUS
  <2>4. row \in WorkerRow /\ row.pc = "claimed" /\ row.entry = worker[w].entry /\ row.fence = k
    BY <1>1, <2>3 DEF WorkerRow, WorkerPCs
  <2>5. worker' = [worker EXCEPT ![w] = row] /\ UNCHANGED sends
    BY <1>13, <2>2, <2>3 DEF Claim
  <2>6. /\ worker' \in [Workers -> WorkerRow] /\ worker'[w] = row
        /\ \A v \in Workers : v # w => worker'[v] = worker[v]
    BY <1>1, <2>4, <2>5
  <2>7. Claims(w)
    BY <1>13, <2>1, <2>2, <2>4, <2>6, ClaimStep DEF Claims
  <2> QED
    BY <1>1, <2>5, <2>6, <2>7, OneWorkerMoves, SendsAlone DEF Moves
<1>14. CASE OpenTransport(w) /\ ~Leave(w)
  <2>1. now \in Nat
    BY <1>1 DEF DeliveryTypes
  <2>2. PICK row : row = [worker[w] EXCEPT !.pc = "preparing", !.read = now]
    OBVIOUS
  <2>3. /\ row \in WorkerRow /\ row.pc = "preparing" /\ row.entry = worker[w].entry /\ row.fence = worker[w].fence
        /\ row.part = worker[w].part
    BY <1>1, <2>1, <2>2 DEF WorkerRow, WorkerPCs, Busy
  <2>4. worker' = [worker EXCEPT ![w] = row] /\ UNCHANGED sends /\ worker[w].pc = "claimed"
    BY <1>14, <2>2 DEF OpenTransport
  <2>5. /\ worker' \in [Workers -> WorkerRow] /\ worker'[w] = row
        /\ \A v \in Workers : v # w => worker'[v] = worker[v]
    BY <1>1, <2>3, <2>4
  <2>6. Moves(w)
    BY <2>3, <2>4, <2>5 DEF Moves, Goes
  <2> QED
    BY <1>1, <2>4, <2>5, <2>6, OneWorkerMoves, SendsAlone
<1>15. CASE OpenTransport(w) /\ Leave(w)
  BY <1>2, <1>15 DEF OpenTransport
<1> QED
  BY <1>1, <1>3, <1>6, <1>7, <1>8, <1>9, <1>10, <1>11, <1>12, <1>13, <1>14, <1>15 DEF Deliver

LEMMA AllMoves == ASSUME DeliveryInv, Next PROVE WorkersMoved /\ PartsMoved /\ SendsMoved
<1>1. DeliveryTypes /\ worker \in [Workers -> WorkerRow]
  BY DEF DeliveryInv, DeliveryTypes
<1>2. CASE UNCHANGED <<worker, parts, sends>>
  BY <1>1, <1>2, PartsAlone, SendsAlone DEF WorkersMoved
<1>3. ASSUME NEW w \in Workers, Deliver(w) PROVE WorkersMoved /\ PartsMoved /\ SendsMoved
  <2>1. CASE Heartbeat(w) \/ Interrupt(w)
    BY <2>1, CancelSteps
  <2>2. CASE Prepare(w) \/ RecordReceipt(w) \/ MarkPartInDoubt(w)
    BY <2>2, PartSteps
  <2>3. CASE ~Heartbeat(w) /\ ~Interrupt(w) /\ ~Prepare(w) /\ ~RecordReceipt(w) /\ ~MarkPartInDoubt(w)
    <3>1. UNCHANGED parts
      BY <1>3, <2>3 DEF Deliver, Pick, FailPending, Claim, ClaimRefused, OpenTransport, ReleaseClaim, SendSucceeds,
         SendAmbiguous, SendNotPerformed, MarkFailed, PartRefused, MarkInDoubt, MarkDelivered, Crash, tables
    <3> QED
      BY <1>3, <2>3, <3>1, PlainSteps
  <2> QED
    BY <2>1, <2>2, <2>3
<1>4. CASE Tick \/ ReadParts \/ RecoverClaim \/ \E e \in Entries : Operate(e) \/ ListStale(e)
  BY <1>2, <1>4 DEF Tick, ReadParts, RecoverClaim, Operate, ListStale, Enqueue, Retry, Cancel, Prune, Resolve, tables
<1> QED
  BY <1>3, <1>4 DEF Next

-------------------------------------------------------------------------------
(* Claims, receipts and recovery *)

\* A loop that holds a claim has held it, or has just taken it.
LEMMA Continues ==
  ASSUME WorkersMoved, NEW w \in Workers, worker'[w].pc \in Claiming
  PROVE  \/ Claims(w) /\ worker'[w] # worker[w]
         \/ /\ worker[w].pc \in Claiming
            /\ worker'[w].entry = worker[w].entry /\ worker'[w].fence = worker[w].fence
<1>1. worker'[w] = worker[w] \/ Moves(w)
  BY DEF WorkersMoved
<1>2. CASE Claims(w)
  BY <1>2 DEF Claims
<1>3. Claiming = {"preparing", "releasing", "sending", "receipt", "doubt", "unsure", "doubting", "failing", "settling",
                  "claimed"}
  BY DEF Claiming, Busy
<1>4. Idle.pc = "idle"
  BY WorkerFacts
<1> QED
  BY <1>1, <1>2, <1>3, <1>4 DEF Moves, Goes, Prepares, Receives

LEMMA FencesGrow ==
  ASSUME DeliveryInv, Stepped, NEW e \in Entries
  PROVE  outbox[e].fence \in Nat /\ outbox'[e].fence \in Nat /\ outbox[e].fence <= outbox'[e].fence
<1>1. outbox[e].fence \in Nat /\ EntryStep(e)
  BY EntryTypes DEF DeliveryInv, Stepped
<1>2. CASE Taken(e)
  BY <1>1, <1>2 DEF Taken
<1>3. ASSUME NEW status, Closed(e, status) PROVE outbox'[e].fence = outbox[e].fence
  BY <1>3 DEF Closed
<1>4. Taken(e) \/ outbox'[e].fence = outbox[e].fence
  BY <1>1, <1>3 DEF EntryStep, Same, Renewed, Operated, Pruned
<1> QED
  BY <1>1, <1>2, <1>4

LEMMA RecoverySteps ==
  ASSUME DeliveryInv, Next
  PROVE  /\ recovery' \in RecoveryRow /\ (recovery'.pc # "idle" => recovery'.entry \in Entries)
         /\ now' \in Nat /\ now <= now' /\ vouched \subseteq vouched'
<1>1. /\ recovery \in RecoveryRow /\ now \in Nat /\ DeliveryTypes
      /\ recovery.pc # "idle" => recovery.entry \in Entries
  BY DEF DeliveryInv, DeliveryTypes, Holders
<1>2. NoRecovery \in RecoveryRow /\ NoRecovery.pc = "idle"
  BY DEF NoRecovery, RecoveryRow
<1>3. CASE Tick
  BY <1>1, <1>3 DEF Tick
<1>4. ASSUME NEW e \in Entries, ListStale(e)
      PROVE  recovery' \in RecoveryRow /\ recovery'.entry \in Entries /\ UNCHANGED <<now, vouched>>
  <2>1. outbox[e].fence \in Nat
    BY <1>1, EntryTypes
  <2> QED
    BY <1>1, <1>4, <2>1 DEF ListStale, NoRecovery, RecoveryRow
<1>5. CASE ReadParts
  <2>1. PICK b \in BOOLEAN : b = (parts[recovery.entry][recovery.fence] # Unprepared)
    OBVIOUS
  <2>2. recovery' = [recovery EXCEPT !.pc = "claim", !.attempted = b] /\ recovery.pc = "parts"
        /\ UNCHANGED <<now, vouched>>
    BY <1>5, <2>1 DEF ReadParts
  <2>3. recovery' \in RecoveryRow /\ recovery'.entry = recovery.entry
    BY <1>1, <2>2 DEF RecoveryRow
  <2> QED
    BY <1>1, <2>2, <2>3
<1>6. CASE RecoverClaim
  BY <1>1, <1>2, <1>6 DEF RecoverClaim
<1>7. ASSUME NEW e \in Entries, Operate(e) PROVE UNCHANGED <<recovery, now>> /\ vouched \subseteq vouched'
  BY <1>7 DEF Operate, Enqueue, Retry, Cancel, Prune, Resolve
<1>8. ASSUME NEW w \in Workers, Deliver(w) PROVE UNCHANGED <<recovery, now, vouched>>
  BY <1>8 DEF Deliver, Pick, FailPending, Claim, ClaimRefused, OpenTransport, Prepare, ReleaseClaim, SendSucceeds,
     SendAmbiguous, SendNotPerformed, MarkFailed, RecordReceipt, MarkPartInDoubt, PartRefused, MarkInDoubt,
     MarkDelivered, Heartbeat, Interrupt, Crash
<1> QED
  BY <1>1, <1>3, <1>4, <1>5, <1>6, <1>7, <1>8 DEF Next

LEMMA HoldersKeep ==
  ASSUME DeliveryInv, Next, Stepped, WorkersMoved
  PROVE  Holders'
<1>1. recovery'.pc # "idle" => recovery'.entry \in Entries
  BY RecoverySteps
<1>2. Holders
  BY DEF DeliveryInv
<1>3. ASSUME NEW w \in Workers, worker'[w].pc # "idle" PROVE worker'[w].entry \in Entries
  <2>1. worker'[w] = worker[w] \/ Moves(w)
    BY DEF WorkersMoved
  <2>2. worker[w].pc # "idle" => worker[w].entry \in Entries
    BY <1>2 DEF Holders
  <2>3. worker'[w] # Idle
    BY <1>3, WorkerFacts
  <2>4. \/ worker[w].pc # "idle" /\ worker'[w].entry = worker[w].entry
        \/ worker'[w].entry \in Entries
        \/ worker'[w] = worker[w]
    BY <2>1, <2>3 DEF Moves, Goes, Claims, Prepares, Receives
  <2> QED
    BY <1>3, <2>2, <2>4
<1>4. ASSUME NEW w \in Workers, worker'[w].pc \in Claiming
      PROVE  worker'[w].fence \in 1..outbox'[worker'[w].entry].fence
  <2>1. PICK e \in Entries : e = worker'[w].entry
    BY <1>3, <1>4 DEF Claiming, Busy
  <2>2. outbox[e].fence \in Nat /\ outbox'[e].fence \in Nat /\ outbox[e].fence <= outbox'[e].fence
    BY FencesGrow
  <2>3. CASE Claims(w)
    BY <2>1, <2>2, <2>3 DEF Claims, Taken
  <2>4. CASE /\ worker[w].pc \in Claiming
             /\ worker'[w].entry = worker[w].entry /\ worker'[w].fence = worker[w].fence
    <3>1. worker[w].fence \in 1..outbox[e].fence
      BY <1>2, <2>1, <2>4 DEF Holders
    <3> QED
      BY <2>1, <2>2, <2>4, <3>1
  <2> QED
    BY <1>4, <2>3, <2>4, Continues
<1>5. ASSUME NEW v \in Workers, NEW w \in Workers, worker'[v].pc \in Claiming, worker'[w].pc \in Claiming,
             worker'[v].entry = worker'[w].entry, worker'[v].fence = worker'[w].fence, v # w
      PROVE  FALSE
  <2>1. ASSUME NEW a \in Workers, NEW b \in Workers, Claims(a), worker[b].pc \in Claiming,
               worker'[a].entry = worker[b].entry, worker'[a].fence = worker[b].fence
        PROVE  FALSE
    <3>1. worker[b].entry \in Entries /\ worker[b].fence \in 1..outbox[worker[b].entry].fence
      BY <1>2, <2>1 DEF Holders, Claiming, Busy
    <3>2. outbox[worker[b].entry].fence \in Nat
      BY <3>1, FencesGrow
    <3>3. worker[b].fence = outbox[worker[b].entry].fence + 1
      BY <2>1 DEF Claims
    <3> QED
      BY <3>1, <3>2, <3>3
  <2>2. ~(Claims(v) /\ worker'[v] # worker[v] /\ Claims(w) /\ worker'[w] # worker[w])
    BY <1>5 DEF WorkersMoved
  <2>3. CASE Claims(v) /\ worker'[v] # worker[v]
    BY <1>5, <2>1, <2>2, <2>3, Continues
  <2>4. CASE Claims(w) /\ worker'[w] # worker[w]
    BY <1>5, <2>1, <2>2, <2>4, Continues
  <2>5. CASE worker[v].pc \in Claiming /\ worker[w].pc \in Claiming /\ worker[v].entry = worker[w].entry
             /\ worker[v].fence = worker[w].fence
    BY <1>2, <1>5, <2>5 DEF Holders
  <2> QED
    BY <1>5, <2>3, <2>4, <2>5, Continues
<1> QED
  BY <1>1, <1>3, <1>4, <1>5 DEF Holders

LEMMA SendsGrow ==
  ASSUME DeliveryInv, SendsMoved, NEW e \in Entries, NEW q \in PartNumbers
  PROVE  /\ sends[e][q] \in Nat /\ sends'[e][q] \in Nat /\ sends[e][q] <= sends'[e][q]
         /\ \A w \in Workers : SendsPart(w, e) =>
              sends'[e][q] = IF q = worker[w].part /\ sends[e][q] < 2 THEN sends[e][q] + 1 ELSE sends[e][q]
<1>1. sends \in [Entries -> [PartNumbers -> Nat]] /\ sends' \in [Entries -> [PartNumbers -> Nat]]
  BY DEF DeliveryInv, DeliveryTypes, SendsMoved
<1>2. sends[e][q] \in Nat /\ sends'[e][q] \in Nat
  BY <1>1
<1>3. ASSUME NEW w \in Workers, SendsPart(w, e)
      PROVE  sends'[e][q] = IF q = worker[w].part /\ sends[e][q] < 2 THEN sends[e][q] + 1 ELSE sends[e][q]
  <2>1. worker[w].part \in PartNumbers
    BY <1>3, HolderFacts DEF SendsPart, Claiming, Busy, Sending
  <2>2. PICK p \in PartNumbers : p = worker[w].part
    BY <2>1
  <2>3. sends' = [sends EXCEPT ![e] = [sends[e] EXCEPT ![p] = IF sends[e][p] < 2 THEN sends[e][p] + 1 ELSE sends[e][p]]]
    BY <1>3, <2>2 DEF SendsPart, SendsAfter
  <2>4. sends[e] \in [PartNumbers -> Nat]
    BY <1>1
  <2>5. sends'[e] = [sends[e] EXCEPT ![p] = IF sends[e][p] < 2 THEN sends[e][p] + 1 ELSE sends[e][p]]
    BY <1>1, <2>3
  <2> QED
    BY <2>2, <2>4, <2>5
<1> QED
  BY <1>2, <1>3 DEF SendsMoved, SendsStep

\* Nobody but the holder writes the parts of its claim.
LEMMA OwnParts ==
  ASSUME DeliveryInv, PartsMoved, NEW w \in Workers, worker[w].pc \in Claiming,
         worker[w].pc \notin {"preparing", "receipt", "doubt", "unsure"} \/ worker'[w].pc = worker[w].pc
  PROVE  parts'[worker[w].entry][worker[w].fence] = parts[worker[w].entry][worker[w].fence]
<1>1. worker[w].entry \in Entries /\ worker[w].fence \in Fences
  BY HolderFacts
<1>2. ASSUME NEW v \in Workers, Writes(v, worker[w].entry, worker[w].fence) PROVE FALSE
  <2>1. worker[v].pc \in Claiming
    BY <1>2 DEF Writes, Claiming, Busy
  <2>2. v = w
    BY <1>2, <2>1 DEF DeliveryInv, Holders, Writes
  <2> QED
    BY <1>2, <2>2 DEF Writes
<1> QED
  BY <1>1, <1>2 DEF PartsMoved, PartsStep

LEMMA ReceiptsStay ==
  ASSUME DeliveryInv, SendsMoved, NEW e \in Entries, NEW k, NEW q \in PartNumbers, Receipts(e, k, q),
         parts'[e][k] = parts[e][k]
  PROVE  Receipts(e, k, q)'
<1>1. sends[e][q] \in Nat /\ sends'[e][q] \in Nat /\ sends[e][q] <= sends'[e][q]
  BY SendsGrow
<1> QED
  BY <1>1 DEF Receipts

LEMMA OrderKept ==
  ASSUME DeliveryInv, SendsMoved, PartsMoved, WorkersMoved, NEW w \in Workers, worker'[w].pc \in Sending
  PROVE  InOrder(w, worker[w].entry, worker[w].fence, worker[w].part)'
<1>1. worker'[w] = worker[w] \/ Moves(w)
  BY DEF WorkersMoved
<1>2. worker'[w].pc \in Claiming /\ worker'[w].pc # "claimed"
  BY DEF Sending, Claiming, Busy
<1>3. worker[w].pc \in Claiming /\ worker'[w].entry = worker[w].entry /\ worker'[w].fence = worker[w].fence
  BY <1>2, Continues DEF Claims
<1>4. PICK e \in Entries, k \in Fences : e = worker[w].entry /\ k = worker[w].fence
  BY <1>3, HolderFacts
<1>5. InOrder(w, e, k, worker[w].part)
  BY <1>4 DEF DeliveryInv, SentInOrder
<1>6. PartCount \in Nat \ {0}
  BY DeliveryAssumption
<1>7. ASSUME worker[w].pc \notin {"preparing", "receipt", "doubt", "unsure"} \/ worker'[w].pc = worker[w].pc
      PROVE  \A q \in PartNumbers : Receipts(e, k, q) => Receipts(e, k, q)'
  BY <1>3, <1>4, <1>7, OwnParts, ReceiptsStay
<1>8. ASSUME worker'[w].part \in PartNumbers, worker'[w].pc \notin {"sending", "receipt", "settling"}
      PROVE  InOrder(w, worker[w].entry, worker[w].fence, worker[w].part)'
  BY <1>8 DEF InOrder
<1>9. CASE worker'[w] = worker[w]
  <2>1. \A q \in PartNumbers : Receipts(e, k, q) => Receipts(e, k, q)'
    BY <1>7, <1>9
  <2>2. \A q \in PartNumbers : sends[e][q] >= 1 => sends'[e][q] >= 1
    BY SendsGrow
  <2>3. worker[w].part \in PartNumbers
    BY <1>5, <1>9 DEF InOrder
  <2> QED
    BY <1>4, <1>5, <1>9, <2>1, <2>2, <2>3 DEF InOrder
<1>10. CASE Prepares(w)
  <2>1. 1 \in PartNumbers /\ \A q \in PartNumbers : ~(q < 1)
    BY <1>6 DEF PartNumbers
  <2> QED
    BY <1>10, <2>1 DEF Prepares, InOrder
<1>11. CASE worker[w].pc = "sending" /\ Goes(w, "receipt") /\ sends' = SendsAfter(w)
  <2>1. \A q \in PartNumbers : Receipts(e, k, q) => Receipts(e, k, q)'
    BY <1>7, <1>11
  <2>2. PICK p \in PartNumbers : p = worker[w].part
    BY <1>5, <1>11 DEF InOrder, Sending
  <2>3. SendsPart(w, e)
    BY <1>4, <1>11 DEF SendsPart, Goes
  <2>4. sends'[e][p] >= 1
    BY <2>2, <2>3, SendsGrow
  <2>5. \A q \in PartNumbers : q < p => Receipts(e, k, q)
    BY <1>5, <1>11, <2>2 DEF InOrder
  <2> QED
    BY <1>4, <1>11, <2>1, <2>2, <2>4, <2>5 DEF Goes, InOrder
<1>12. CASE Receives(w)
  <2>1. PICK p \in PartNumbers : p = worker[w].part
    BY <1>5, <1>12 DEF InOrder, Sending, Receives
  <2>2. \A q \in PartNumbers : q < p => Receipts(e, k, q)
    BY <1>5, <1>12, <2>1 DEF InOrder, Receives
  <2>3. sends[e][p] >= 1
    BY <1>5, <1>12, <2>1 DEF InOrder, Receives
  <2>4. parts'[e][k] = [parts[e][k] EXCEPT ![p] = "delivered"] /\ sends' = sends
    BY <1>4, <1>12, <2>1 DEF Receives
  <2>5. parts[e][k] \in [PartNumbers -> PartStatuses]
    BY <1>3, <1>4, HolderFacts
  <2>6. \A q \in PartNumbers : parts'[e][k][q] = IF q = p THEN "delivered" ELSE parts[e][k][q]
    BY <2>4, <2>5
  <2>7. \A q \in PartNumbers : q < p \/ q = p => Receipts(e, k, q)'
    BY <2>2, <2>3, <2>4, <2>6 DEF Receipts
  <2>8. CASE p < PartCount /\ worker'[w].pc = "sending" /\ worker'[w].part = p + 1
    <3>1. p + 1 \in PartNumbers /\ \A q \in PartNumbers : q < p + 1 => q < p \/ q = p
      BY <1>6, <2>8 DEF PartNumbers
    <3> QED
      BY <1>3, <1>4, <2>7, <2>8, <3>1 DEF InOrder
  <2>9. CASE ~(p < PartCount) /\ worker'[w].pc = "settling" /\ worker'[w].part = p
    <3>1. \A q \in PartNumbers : q < p \/ q = p
      BY <1>6, <2>9 DEF PartNumbers
    <3> QED
      BY <1>3, <1>4, <2>7, <2>9, <3>1 DEF InOrder
  <2> QED
    BY <1>12, <2>1, <2>8, <2>9 DEF Receives
<1>13. CASE \/ worker[w].pc = "sending" /\ Goes(w, "failing")
            \/ worker[w].pc \in {"sending", "receipt", "doubt", "unsure"}
               /\ \E pc \in {"doubt", "unsure", "doubting"} : Goes(w, pc)
  <2>1. worker[w].part \in PartNumbers
    BY <1>5, <1>13 DEF InOrder, Sending
  <2> QED
    BY <1>8, <1>13, <2>1 DEF Goes
<1>14. \/ worker'[w] = worker[w] \/ Prepares(w) \/ Receives(w)
       \/ worker[w].pc = "sending" /\ Goes(w, "receipt") /\ sends' = SendsAfter(w)
       \/ worker[w].pc = "sending" /\ Goes(w, "failing")
       \/ worker[w].pc \in {"sending", "receipt", "doubt", "unsure"}
          /\ \E pc \in {"doubt", "unsure", "doubting"} : Goes(w, pc)
  <2>1. worker'[w].pc \notin {"idle", "picked", "exhausted", "claimed", "preparing", "releasing"}
    BY DEF Sending
  <2> QED
    BY <1>1, <2>1, WorkerFacts DEF Moves, Goes, Claims
<1> QED
  BY <1>9, <1>10, <1>11, <1>12, <1>13, <1>14

LEMMA OrderKeeps ==
  ASSUME DeliveryInv, SendsMoved, PartsMoved, WorkersMoved
  PROVE  SentInOrder'
<1>1. ASSUME NEW w \in Workers
      PROVE  InOrder(w, worker[w].entry, worker[w].fence, worker[w].part)'
  <2>1. CASE worker'[w].pc \in Sending
    BY <2>1, OrderKept
  <2>2. CASE worker'[w].pc \notin Sending
    BY <2>2 DEF InOrder, Sending
  <2> QED
    BY <2>1, <2>2
<1> QED
  BY <1>1 DEF SentInOrder

LEMMA DeliveredKeeps ==
  ASSUME DeliveryInv, Next, Stepped, SendsMoved, PartsMoved
  PROVE  DeliveredHasReceipts'
<1>1. vouched \subseteq vouched' /\ DeliveredHasReceipts /\ FencesInOrder
  BY RecoverySteps DEF DeliveryInv
<1>2. ASSUME NEW e \in Entries, e \notin vouched', outbox'[e].status = "delivered"
      PROVE  \A q \in PartNumbers : Receipts(e, outbox[e].fence, q)'
  <2>1. e \notin vouched /\ EntryStep(e)
    BY <1>1, <1>2 DEF Stepped
  <2>2. CASE Same(e)
    <3>1. outbox[e].status = "delivered" /\ outbox'[e].fence = outbox[e].fence /\ outbox[e].fence \in Fences
      BY <1>1, <1>2, <2>2 DEF Same, FencesInOrder
    <3>2. PICK k \in Fences : k = outbox[e].fence
      BY <3>1
    <3>3. \A q \in PartNumbers : Receipts(e, k, q)
      BY <1>1, <2>1, <3>1, <3>2 DEF DeliveredHasReceipts, Receipts
    <3>4. parts'[e][k] = parts[e][k]
      BY <3>1 DEF PartsMoved, PartsStep, Writes, Current
    <3>5. \A q \in PartNumbers : Receipts(e, k, q)'
      BY <3>3, <3>4, ReceiptsStay
    <3> QED
      BY <3>1, <3>2, <3>5
  <2>3. ASSUME NEW w \in Workers, Closed(e, "delivered"), Closer(e, "delivered", w)
        PROVE  \A q \in PartNumbers : Receipts(e, outbox[e].fence, q)'
    <3>1. worker[w].pc = "settling" /\ worker[w].entry = e /\ worker[w].fence = outbox[e].fence
          /\ outbox'[e].fence = outbox[e].fence
      BY <2>3 DEF Closer, Closed
    <3>2. PICK k : k = worker[w].fence
      OBVIOUS
    <3>3. \A q \in PartNumbers : Receipts(e, k, q)
      BY <3>1, <3>2 DEF DeliveryInv, SentInOrder, InOrder
    <3>4. worker[w].pc \in Claiming
      BY <3>1 DEF Claiming, Busy
    <3>5. parts'[e][k] = parts[e][k]
      BY <3>1, <3>2, <3>4, OwnParts
    <3>6. \A q \in PartNumbers : Receipts(e, k, q)'
      BY <3>3, <3>5, ReceiptsStay
    <3> QED
      BY <3>1, <3>2, <3>6
  <2>4. ~Renewed(e) /\ ~Operated(e) /\ ~Pruned(e) /\ ~Taken(e)
    BY <1>2 DEF Renewed, Operated, Pruned, Taken
  <2>5. \A status \in Ends : Closed(e, status) => status = "delivered"
    BY <1>2 DEF Closed
  <2> QED
    BY <2>1, <2>2, <2>3, <2>4, <2>5 DEF EntryStep
<1> QED
  BY <1>2 DEF DeliveredHasReceipts, Receipts

-------------------------------------------------------------------------------
(* What holds whether or not calls stall *)

LEMMA DeliveryInvInit == Init => DeliveryInv
<1> SUFFICES ASSUME Init PROVE DeliveryInv
  OBVIOUS
<1>1. MaxFence \in Nat /\ PartCount \in Nat
  BY DeliveryAssumption
<1>2. outbox \in [Entries -> EntryRow] /\ attempts \in [Entries -> [Fences -> Outcomes]]
  BY DEF Init, EntryRow, OutboxStatuses, Outcomes
<1>3. Unprepared \in [PartNumbers -> PartStatuses]
  BY DEF Unprepared, PartStatuses
<1>4. parts \in [Entries -> [Fences -> [PartNumbers -> PartStatuses]]]
  BY <1>3 DEF Init
<1>5. worker \in [Workers -> WorkerRow] /\ \A w \in Workers : worker[w].pc = "idle"
  BY WorkerFacts DEF Init
<1>6. recovery \in RecoveryRow /\ recovery.pc = "idle"
  BY DEF Init, NoRecovery, RecoveryRow
<1>7. now \in Nat /\ sends \in [Entries -> [PartNumbers -> Nat]]
  BY DEF Init
<1>8. DeliveryTypes
  BY <1>2, <1>4, <1>5, <1>6, <1>7 DEF DeliveryTypes
<1>9. Holders /\ SentInOrder
  BY <1>5, <1>6 DEF Holders, SentInOrder, InOrder, Claiming, Busy, Sending
<1>10. ASSUME NEW e \in Entries PROVE LedgerOf(e)
  <2>1. outbox[e].status = "absent" /\ outbox[e].fence = 0 /\ outbox[e].attempt_count = 0
    BY DEF Init
  <2>2. \A f \in Fences : attempts[e][f] = "none"
    BY DEF Init
  <2>3. Counted(e) = {}
    BY <2>2 DEF Counted
  <2>4. Cardinality(Counted(e)) = 0
    BY <2>3, FS_EmptySet
  <2> QED
    BY <1>1, <2>1, <2>2, <2>4 DEF LedgerOf
<1>11. FencesInOrder /\ LedgersAgree
  BY <1>10, LedgerEach
<1>12. DeliveredHasReceipts
  BY DEF Init, DeliveredHasReceipts
<1> QED
  BY <1>8, <1>9, <1>11, <1>12 DEF DeliveryInv

LEMMA DeliveryInvNext == ASSUME DeliveryInv, [Next]_vars PROVE DeliveryInv'
<1>1. CASE Next
  <2>1. Stepped /\ WorkersMoved /\ PartsMoved /\ SendsMoved
    BY <1>1, EntrySteps, AllMoves
  <2>2. DeliveryTypes'
    BY <1>1, <2>1, LedgersKeep, RecoverySteps DEF DeliveryTypes, WorkersMoved, PartsMoved, SendsMoved
  <2> QED
    BY <1>1, <2>1, <2>2, LedgersKeep, HoldersKeep, OrderKeeps, DeliveredKeeps DEF DeliveryInv
<1>2. CASE UNCHANGED vars
  <2>1. (DeliveryTypes /\ Holders /\ FencesInOrder)'
    BY <1>2 DEF DeliveryInv, DeliveryTypes, Holders, FencesInOrder, vars
  <2>2. LedgersAgree' /\ DeliveredHasReceipts'
    BY <1>2 DEF DeliveryInv, LedgersAgree, DeliveredHasReceipts, vars
  <2>3. SentInOrder'
    BY <1>2 DEF DeliveryInv, SentInOrder, InOrder, Receipts, vars
  <2> QED
    BY <2>1, <2>2, <2>3 DEF DeliveryInv
<1> QED
  BY <1>1, <1>2

LEMMA DeliveryInvariance == Spec => []DeliveryInv
<1>1. DeliveryInv /\ [Next]_vars => DeliveryInv'
  BY DeliveryInvNext
<1> QED
  BY <1>1, DeliveryInvInit, PTL DEF Spec

\* The outbox and its attempts agree: exactly the attempt of the current claim is open, and
\* the count the limit is compared with is the number of attempts that were not given back,
\* through every crash, lapsed lease, recovery and retry (_finish_claim, recover_claim).
THEOREM OutboxLedgersAgree == Spec => []LedgersAgree
<1>1. DeliveryInv => LedgersAgree
  BY DEF DeliveryInv
<1> QED
  BY <1>1, DeliveryInvariance, PTL

\* What the outbox calls delivered, unless an operator said so, was sent completely and has
\* the receipt of every part of the delivering claim (mark_delivered; record_receipt).
THEOREM DeliveredWasSent == Spec => []DeliveredHasReceipts
<1>1. DeliveryInv => DeliveredHasReceipts
  BY DEF DeliveryInv
<1> QED
  BY <1>1, DeliveryInvariance, PTL

-------------------------------------------------------------------------------
(* When no call stalls: recovery *)

LEMMA RecoveryKinds ==
  ASSUME Next
  PROVE  \/ UNCHANGED recovery
         \/ \E e \in Entries : ListStale(e)
         \/ ReadParts
         \/ RecoverClaim
<1>1. ASSUME NEW e \in Entries, Operate(e) PROVE UNCHANGED recovery
  BY <1>1 DEF Operate, Enqueue, Retry, Cancel, Prune, Resolve
<1>2. ASSUME NEW w \in Workers, Deliver(w) PROVE UNCHANGED recovery
  BY <1>2 DEF Deliver, Pick, FailPending, Claim, ClaimRefused, OpenTransport, Prepare, ReleaseClaim, SendSucceeds,
     SendAmbiguous, SendNotPerformed, MarkFailed, RecordReceipt, MarkPartInDoubt, PartRefused, MarkInDoubt,
     MarkDelivered, Heartbeat, Interrupt, Crash
<1> QED
  BY <1>1, <1>2 DEF Next, Tick

LEMMA LapsedKeeps ==
  ASSUME DeliveryInv, LapsedStays, ~Stalls, Next, Stepped, PartsMoved
  PROVE  LapsedStays'
<1>1. /\ DeliveryTypes /\ FencesInOrder /\ now \in Nat /\ now' \in Nat /\ now <= now' /\ recovery \in RecoveryRow
      /\ recovery.pc # "idle" => recovery.entry \in Entries
  BY RecoverySteps DEF DeliveryInv, DeliveryTypes, Holders
<1>2. CASE UNCHANGED recovery /\ recovery.pc # "idle"
  <2>1. PICK e \in Entries : e = recovery.entry
    BY <1>1, <1>2
  <2>2. recovery.moment \in Nat /\ recovery.moment <= now
    BY <1>1, <1>2 DEF LapsedStays, RecoveryRow
  <2>3. recovery'.moment <= now'
    BY <1>1, <1>2, <2>2
  <2>4. ASSUME Lapsed(e)' PROVE Same(e)
    <3>1. outbox'[e].status = "claimed" /\ outbox'[e].lease <= recovery.moment
      BY <1>2, <2>4 DEF Lapsed
    <3>2. outbox'[e].lease \in Nat /\ EntryStep(e)
      BY DEF Stepped, Shaped
    <3>3. ~(outbox'[e].lease > now)
      BY <1>1, <2>2, <3>1, <3>2
    <3>4. ~Renewed(e) /\ ~Operated(e) /\ ~Pruned(e) /\ ~Taken(e)
      BY <3>1, <3>3 DEF Renewed, Operated, Pruned, Taken
    <3>5. \A status \in Ends : ~Closed(e, status)
      BY <3>1 DEF Closed, Ends
    <3> QED
      BY <3>2, <3>4, <3>5 DEF EntryStep
  <2>5. ASSUME Lapsed(e)'
        PROVE  /\ outbox'[e].fence = recovery.fence
               /\ recovery.pc = "claim" /\ ~recovery.attempted => parts'[e][recovery.fence] = Unprepared
    <3>1. Same(e) /\ Lapsed(e)
      BY <1>2, <2>4, <2>5 DEF Same, Lapsed
    <3>2. /\ outbox[e].fence = recovery.fence /\ outbox[e].fence \in Fences
          /\ recovery.pc = "claim" /\ ~recovery.attempted => parts[e][recovery.fence] = Unprepared
      BY <1>1, <1>2, <2>1, <3>1 DEF LapsedStays, Lapsed, FencesInOrder
    <3>3. PICK k \in Fences : k = recovery.fence
      BY <3>2
    <3>4. ~(outbox[e].lease > now)
      BY <1>1, <2>2, <3>1, EntryTypes DEF Lapsed
    <3>5. parts'[e][k] = parts[e][k]
      BY <3>4 DEF PartsMoved, PartsStep, Writes, Current
    <3> QED
      BY <3>1, <3>2, <3>3, <3>5 DEF Same
  <2> QED
    BY <1>2, <2>1, <2>3, <2>5 DEF LapsedStays
<1>3. ASSUME NEW e \in Entries, ListStale(e) PROVE LapsedStays'
  <2>1. /\ recovery'.pc = "parts" /\ recovery'.entry = e /\ recovery'.fence = outbox[e].fence /\ recovery'.moment = now
        /\ outbox' = outbox /\ now' = now
    BY <1>3 DEF ListStale, NoRecovery, tables
  <2> QED
    BY <1>1, <2>1 DEF LapsedStays
<1>4. CASE ReadParts
  <2>1. PICK b \in BOOLEAN : b = (parts[recovery.entry][recovery.fence] # Unprepared)
    OBVIOUS
  <2>2. recovery' = [recovery EXCEPT !.pc = "claim", !.attempted = b] /\ recovery.pc = "parts"
        /\ now' = now /\ outbox' = outbox /\ parts' = parts
    BY <1>4, <2>1 DEF ReadParts, tables
  <2>3. /\ recovery'.pc = "claim" /\ recovery'.entry = recovery.entry /\ recovery'.fence = recovery.fence
        /\ recovery'.moment = recovery.moment /\ recovery'.attempted = b
    BY <1>1, <2>2 DEF RecoveryRow
  <2>4. Lapsed(recovery.entry)' <=> Lapsed(recovery.entry)
    BY <2>2, <2>3 DEF Lapsed
  <2> QED
    BY <2>1, <2>2, <2>3, <2>4 DEF LapsedStays
<1>5. CASE recovery'.pc = "idle"
  BY <1>5 DEF LapsedStays
<1>6. RecoverClaim => recovery'.pc = "idle"
  BY DEF RecoverClaim, NoRecovery
<1> QED
  BY <1>2, <1>3, <1>4, <1>5, <1>6, RecoveryKinds

-------------------------------------------------------------------------------
(* When no call stalls: senders *)

\* A loop that may still send holds the last claim of its entry.
LEMMA SenderHolds ==
  ASSUME DeliveryInv, SendersAlone, NEW w \in Workers, worker[w].pc \in Sending, worker[w].entry \notin vouched
  PROVE  /\ worker[w].entry \in Entries /\ worker[w].fence \in Fences
         /\ Sends(w, worker[w].entry, worker[w].fence, worker[w].part)
         /\ outbox[worker[w].entry].fence = worker[w].fence
         /\ outbox[worker[w].entry].status \notin {"absent", "pending", "failed"}
         /\ parts[worker[w].entry][worker[w].fence] # Unprepared
<1>1. worker[w].pc \in Claiming /\ worker[w].pc # "idle"
  BY DEF Sending, Claiming, Busy
<1>2. Sends(w, worker[w].entry, worker[w].fence, worker[w].part)
  BY <1>1 DEF SendersAlone
<1> QED
  BY <1>1, <1>2, HolderFacts DEF Sends

\* It is the only loop with that claim.
LEMMA SenderAlone ==
  ASSUME DeliveryInv, SendersAlone, NEW e \in Entries \ vouched, NEW v \in Workers, worker[v].pc \in Sending,
         worker[v].entry = e, NEW w \in Workers, worker[w].pc \in Claiming, worker[w].entry = e,
         worker[w].fence = outbox[e].fence
  PROVE  v = w
<1>1. worker[v].fence = outbox[e].fence
  BY SenderHolds
<1>2. worker[v].pc \in Claiming
  BY DEF Sending, Claiming, Busy
<1> QED
  BY <1>1, <1>2 DEF DeliveryInv, Holders

LEMMA UnsentStays ==
  ASSUME DeliveryInv, SendsMoved, NEW e \in Entries, Unsent(e), \A w \in Workers : ~SendsPart(w, e)
  PROVE  Unsent(e)'
<1>1. sends'[e] = sends[e]
  BY DEF SendsMoved, SendsStep
<1> QED
  BY <1>1 DEF Unsent

\* The entry was sent, or may be, and is not up for another claim.
Over(e) ==
  /\ outbox[e].status \notin {"absent", "pending", "failed"}
  /\ outbox[e].status = "claimed" => parts[e][outbox[e].fence] # Unprepared

LEMMA SentOrSending ==
  ASSUME DeliveryInv, SendersAlone, SendsMoved, NEW e \in Entries \ vouched,
         ~Unsent(e)' \/ \E w \in Workers : worker[w].pc \in Sending /\ worker[w].entry = e
  PROVE  Over(e)
<1>1. ASSUME NEW w \in Workers, worker[w].pc \in Sending, worker[w].entry = e PROVE Over(e)
  BY <1>1, SenderHolds DEF Over
<1>2. CASE ~Unsent(e)
  BY <1>2 DEF SendersAlone, SentIsOver, Over
<1>3. CASE Unsent(e) /\ ~Unsent(e)'
  <2>1. PICK w \in Workers : SendsPart(w, e)
    BY <1>3, UnsentStays
  <2> QED
    BY <1>1, <2>1 DEF SendsPart, Sending
<1> QED
  BY <1>1, <1>2, <1>3

\* A holder that gives its claim back, or fails it, has sent nothing, and nobody else does.
LEMMA GivenBackUnsent ==
  ASSUME DeliveryInv, SendersAlone, SendsMoved, NEW e \in Entries \ vouched, NEW status \in {"failed", "pending"},
         Closed(e, status), NEW w \in Workers, Closer(e, status, w)
  PROVE  /\ Unsent(e)'
         /\ \A v \in Workers : worker[v].pc \in Sending /\ worker[v].entry = e => worker'[v].pc = "idle"
<1>1. /\ worker[w].entry = e /\ worker[w].fence = outbox[e].fence /\ outbox[e].status = "claimed"
      /\ worker[w].pc \in {"claimed", "failing", "releasing"} /\ worker'[w] = Idle
  BY DEF Closer, Closed
<1>2. worker[w].pc \in Claiming /\ worker[w].pc # "idle"
  BY <1>1 DEF Claiming, Busy
<1>3. Sends(w, e, worker[w].fence, worker[w].part)
  BY <1>1, <1>2 DEF SendersAlone
<1>4. Unsent(e)
  BY <1>1, <1>3 DEF Sends
<1>5. \A v \in Workers : worker[v].pc \in Sending /\ worker[v].entry = e => v = w
  BY <1>1, <1>2, SenderAlone
<1>6. \A v \in Workers : ~SendsPart(v, e)
  BY <1>1, <1>5 DEF SendsPart, Sending
<1> QED
  BY <1>1, <1>4, <1>5, <1>6, UnsentStays, WorkerFacts

LEMMA OverStays ==
  ASSUME DeliveryInv, SendersAlone, LapsedStays, SendsMoved, PartsMoved, Stepped,
         NEW e \in Entries \ vouched, e \notin vouched', Over(e),
         \A status \in {"failed", "pending"}, w \in Workers : Closed(e, status) => ~Closer(e, status, w)
  PROVE  /\ Over(e)'
         /\ outbox'[e].fence = outbox[e].fence
<1>1. /\ EntryStep(e) /\ outbox[e].status \in OutboxStatuses /\ FencesInOrder
  BY EntryTypes DEF Stepped, DeliveryInv
<1>2. ASSUME outbox[e].status = "claimed" PROVE parts'[e][outbox[e].fence] # Unprepared
  <2>1. PICK k \in Fences : k = outbox[e].fence
    BY <1>1, <1>2 DEF FencesInOrder
  <2>2. parts[e][k] # Unprepared
    BY <1>2, <2>1 DEF Over
  <2>3. parts'[e][k] # Unprepared
    BY <2>2 DEF PartsMoved, PartsStep, Writes
  <2> QED
    BY <2>1, <2>3
<1>3. CASE Same(e)
  BY <1>2, <1>3 DEF Same, Over
<1>4. CASE Renewed(e)
  BY <1>2, <1>4 DEF Renewed, Over
<1>5. CASE Operated(e)
  BY <1>5 DEF Operated, Over
<1>6. CASE Pruned(e)
  BY <1>6 DEF Pruned, Over
<1>7. ~Taken(e)
  BY DEF Taken, Over
<1>8. ASSUME NEW status \in Ends, Closed(e, status), status = "in_doubt" \/ status = "delivered"
      PROVE  Over(e)' /\ outbox'[e].fence = outbox[e].fence
  BY <1>8 DEF Closed, Over
<1>9. ~Requeues(e)
  <2> SUFFICES ASSUME Requeues(e) PROVE FALSE
    OBVIOUS
  <2>1. outbox[e].fence = recovery.fence /\ parts[e][recovery.fence] = Unprepared /\ outbox[e].status = "claimed"
    BY DEF Requeues, LapsedStays, Lapsed
  <2> QED
    BY <2>1 DEF Over
<1>10. \A status \in Ends : status \in {"in_doubt", "delivered", "failed", "pending"}
  BY DEF Ends
<1> QED
  BY <1>1, <1>3, <1>4, <1>5, <1>6, <1>7, <1>8, <1>9, <1>10 DEF EntryStep

LEMMA SentIsOverKeeps ==
  ASSUME DeliveryInv, SendersAlone, LapsedStays, SendsMoved, PartsMoved, Stepped,
         NEW e \in Entries \ vouched, e \notin vouched'
  PROVE  SentIsOver(e)'
<1>1. CASE Unsent(e)'
  BY <1>1 DEF SentIsOver
<1>2. CASE ~Unsent(e)'
  <2>1. Over(e)
    BY <1>2, SentOrSending
  <2>2. \A status \in {"failed", "pending"}, w \in Workers : Closed(e, status) => ~Closer(e, status, w)
    BY <1>2, GivenBackUnsent
  <2>3. Over(e)'
    BY <2>1, <2>2, OverStays
  <2>4. outbox'[e].status \in OutboxStatuses
    <3>1. outbox' \in [Entries -> EntryRow]
      BY LedgersKeep
    <3> QED
      BY <3>1 DEF EntryRow
  <2> QED
    BY <2>3, <2>4 DEF Over, SentIsOver, OutboxStatuses
<1> QED
  BY <1>1, <1>2

\* A loop that has claimed its entry and may give the claim back.
LEMMA EarlySends ==
  ASSUME DeliveryInv, SendersAlone, SendsMoved, WorkersMoved, Stepped, NEW w \in Workers,
         worker'[w].pc \in {"claimed", "preparing", "releasing"}, NEW e \in Entries \ vouched, worker'[w].entry = e,
         outbox'[e].status = "claimed", outbox'[e].fence = worker'[w].fence
  PROVE  Unsent(e)'
<1>1. worker'[w] = worker[w] \/ Moves(w)
  BY DEF WorkersMoved
<1>2. CASE Claims(w)
  <2>1. worker[w].entry = e /\ outbox[e].status = "pending"
    BY <1>2 DEF Claims, Taken
  <2>2. Unsent(e)
    BY <2>1 DEF SendersAlone, SentIsOver
  <2>3. \A v \in Workers : ~SendsPart(v, e)
    BY <2>1, SenderHolds DEF SendsPart, Sending
  <2> QED
    BY <2>2, <2>3, UnsentStays
<1>3. CASE ~Claims(w)
  <2>1. /\ worker[w].pc \in {"claimed", "preparing", "releasing"}
        /\ worker'[w].entry = worker[w].entry /\ worker'[w].fence = worker[w].fence
    BY <1>1, <1>3, WorkerFacts DEF Moves, Goes, Prepares, Receives
  <2>2. worker[w].pc \in Claiming /\ worker[w].pc # "idle"
    BY <2>1 DEF Claiming, Busy
  <2>3. worker[w].fence \in 1..outbox[e].fence /\ outbox[e].fence \in Nat
    BY <2>1, <2>2, FencesGrow DEF DeliveryInv, Holders
  <2>4. ~Taken(e)
    BY <2>1, <2>3 DEF Taken
  <2>5. \A status \in Ends : ~Closed(e, status)
    BY DEF Closed, Ends
  <2>6. Same(e) \/ Renewed(e)
    BY <2>4, <2>5 DEF Stepped, EntryStep, Operated, Pruned
  <2>7. outbox[e].status = "claimed" /\ outbox[e].fence = worker[w].fence
    BY <2>1, <2>6 DEF Same, Renewed
  <2>8. Unsent(e)
    BY <2>1, <2>2, <2>7 DEF SendersAlone, Sends
  <2>9. \A v \in Workers : ~SendsPart(v, e)
    <3> SUFFICES ASSUME NEW v \in Workers, SendsPart(v, e) PROVE FALSE
      OBVIOUS
    <3>1. worker[v].pc = "sending" /\ worker[v].entry = e /\ worker[v].pc \in Sending
      BY DEF SendsPart, Sending
    <3>2. v = w
      BY <2>1, <2>2, <2>7, <3>1, SenderAlone
    <3> QED
      BY <2>1, <3>1, <3>2
  <2> QED
    BY <2>8, <2>9, UnsentStays
<1> QED
  BY <1>2, <1>3

\* A loop that may send.
LEMMA SendingHolds ==
  ASSUME DeliveryInv, SendersAlone, LapsedStays, SendsMoved, PartsMoved, WorkersMoved, Stepped, NEW w \in Workers,
         worker'[w].pc \in Sending, NEW e \in Entries \ vouched, worker'[w].entry = e, e \notin vouched'
  PROVE  /\ outbox'[e].fence = worker'[w].fence
         /\ outbox'[e].status \notin {"absent", "pending", "failed"}
         /\ parts'[e][worker'[w].fence] # Unprepared
<1>1. worker'[w] = worker[w] \/ Moves(w)
  BY DEF WorkersMoved
<1>2. CASE Prepares(w)
  BY <1>2 DEF Prepares, Current
<1>3. CASE ~Prepares(w)
  <2>1. worker'[w].pc \in {"sending", "receipt", "doubt", "unsure", "doubting", "failing", "settling"}
    BY DEF Sending
  <2>2. /\ worker[w].pc \in {"sending", "receipt", "doubt", "unsure", "doubting", "failing", "settling"}
        /\ worker'[w].entry = worker[w].entry /\ worker'[w].fence = worker[w].fence
    BY <1>1, <1>3, <2>1, WorkerFacts DEF Moves, Goes, Claims, Receives
  <2>3. worker[w].pc \in Sending /\ worker[w].entry = e
    BY <2>2 DEF Sending
  <2>4. /\ worker[w].fence \in Fences /\ outbox[e].fence = worker[w].fence
        /\ parts[e][worker[w].fence] # Unprepared
    BY <2>3, SenderHolds
  <2>5. Over(e)
    BY <2>3, SentOrSending
  <2>6. \A status \in {"failed", "pending"}, v \in Workers : Closed(e, status) => ~Closer(e, status, v)
    BY <2>1, <2>3, GivenBackUnsent
  <2>7. Over(e)' /\ outbox'[e].fence = outbox[e].fence
    BY <2>5, <2>6, OverStays
  <2>8. parts'[e][worker[w].fence] # Unprepared
    <3>1. PICK k \in Fences : k = worker[w].fence
      BY <2>4
    <3>2. parts'[e][k] # Unprepared
      BY <2>4, <3>1 DEF PartsMoved, PartsStep, Writes
    <3> QED
      BY <3>1, <3>2
  <2> QED
    BY <2>2, <2>4, <2>7, <2>8 DEF Over
<1> QED
  BY <1>2, <1>3

\* What it has still to send.
LEMMA SendingUnsent ==
  ASSUME DeliveryInv, SendersAlone, SendsMoved, WorkersMoved, NEW w \in Workers,
         NEW e \in Entries \ vouched, worker'[w].entry = e
  PROVE  /\ worker'[w].pc = "sending" => \A q \in PartNumbers : q >= worker'[w].part => sends'[e][q] = 0
         /\ worker'[w].pc = "receipt" => \A q \in PartNumbers : q > worker'[w].part => sends'[e][q] = 0
         /\ worker'[w].pc = "failing" => Unsent(e)'
<1>1. worker'[w] = worker[w] \/ Moves(w)
  BY DEF WorkersMoved
<1>2. PartCount \in Nat
  BY DeliveryAssumption
<1>3. CASE worker'[w] = worker[w] /\ worker[w].pc \in {"sending", "receipt", "failing"}
  <2>1. worker[w].pc \in Sending /\ worker[w].pc \in Claiming /\ worker[w].entry = e
    BY <1>3 DEF Sending, Claiming, Busy
  <2>2. worker[w].fence = outbox[e].fence /\ Sends(w, e, worker[w].fence, worker[w].part)
    BY <2>1, SenderHolds
  <2>3. \A v \in Workers : ~SendsPart(v, e)
    <3> SUFFICES ASSUME NEW v \in Workers, SendsPart(v, e) PROVE FALSE
      OBVIOUS
    <3>1. worker[v].pc = "sending" /\ worker[v].entry = e /\ worker[v].pc \in Sending /\ worker'[v].pc # "sending"
      BY DEF SendsPart, Sending
    <3>2. v = w
      BY <2>1, <2>2, <3>1, SenderAlone
    <3> QED
      BY <1>3, <3>1, <3>2
  <2>4. sends'[e] = sends[e]
    BY <2>3 DEF SendsMoved, SendsStep
  <2> QED
    BY <1>3, <2>2, <2>4 DEF Sends, Unsent
<1>4. CASE Prepares(w)
  <2>1. worker[w].entry = e /\ worker[w].pc = "preparing" /\ outbox[e].status = "claimed"
        /\ outbox[e].fence = worker[w].fence /\ worker'[w].pc = "sending" /\ sends' = sends
    BY <1>4 DEF Prepares, Current
  <2>2. Unsent(e)
    BY <2>1 DEF SendersAlone, Sends
  <2> QED
    BY <2>1, <2>2 DEF Unsent
<1>5. CASE worker[w].pc = "sending" /\ Goes(w, "receipt") /\ sends' = SendsAfter(w)
  <2>1. worker[w].pc \in Sending /\ worker[w].entry = e /\ SendsPart(w, e)
    BY <1>5 DEF Sending, Goes, SendsPart
  <2>2. PICK p \in PartNumbers : p = worker[w].part
    BY <2>1, HolderFacts DEF Claiming, Busy, Sending
  <2>3. \A q \in PartNumbers : q >= p => sends[e][q] = 0
    BY <1>5, <2>1, <2>2, SenderHolds DEF Sends
  <2>4. ASSUME NEW q \in PartNumbers, q > p PROVE sends'[e][q] = 0
    <3>1. q # p /\ q >= p
      BY <1>2, <2>4 DEF PartNumbers
    <3> QED
      BY <2>1, <2>2, <2>3, <3>1, SendsGrow
  <2> QED
    BY <1>5, <2>2, <2>4 DEF Goes
<1>6. CASE worker[w].pc = "sending" /\ Goes(w, "failing") /\ worker[w].part = 1 /\ UNCHANGED sends
  <2>1. worker[w].pc \in Sending /\ worker[w].entry = e
    BY <1>6 DEF Sending, Goes
  <2>2. \A q \in PartNumbers : q >= 1 => sends[e][q] = 0
    BY <1>6, <2>1, SenderHolds DEF Sends
  <2>3. \A q \in PartNumbers : q >= 1
    BY <1>2 DEF PartNumbers
  <2> QED
    BY <1>6, <2>2, <2>3 DEF Goes, Unsent
<1>7. CASE Receives(w)
  <2>1. worker[w].pc = "receipt" /\ worker[w].pc \in Sending /\ worker[w].entry = e /\ sends' = sends
    BY <1>7 DEF Sending, Receives
  <2>2. PICK p \in PartNumbers : p = worker[w].part
    BY <2>1, HolderFacts DEF Claiming, Busy, Sending
  <2>3. \A q \in PartNumbers : q > p => sends[e][q] = 0
    BY <2>1, <2>2, SenderHolds DEF Sends
  <2>4. \A q \in PartNumbers : q >= p + 1 => q > p
    BY <1>2 DEF PartNumbers
  <2> QED
    BY <1>7, <2>1, <2>2, <2>3, <2>4 DEF Receives
<1>8. \/ worker'[w] = worker[w] /\ worker[w].pc \in {"sending", "receipt", "failing"}
      \/ Prepares(w) \/ Receives(w)
      \/ worker[w].pc = "sending" /\ Goes(w, "receipt") /\ sends' = SendsAfter(w)
      \/ worker[w].pc = "sending" /\ Goes(w, "failing") /\ worker[w].part = 1 /\ UNCHANGED sends
      \/ worker'[w].pc \notin {"sending", "receipt", "failing"}
  BY <1>1, WorkerFacts DEF Moves, Goes, Claims
<1> QED
  BY <1>3, <1>4, <1>5, <1>6, <1>7, <1>8

LEMMA SendersKeep ==
  ASSUME DeliveryInv, SendersAlone, LapsedStays, Next, SendsMoved, PartsMoved, WorkersMoved, Stepped
  PROVE  SendersAlone'
<1>1. vouched \subseteq vouched'
  BY RecoverySteps
<1>2. ASSUME NEW e \in Entries \ vouched' PROVE SentIsOver(e)'
  BY <1>1, SentIsOverKeeps
<1>3. ASSUME NEW w \in Workers, worker'[w].pc # "idle", worker'[w].entry \notin vouched'
      PROVE  Sends(w, worker[w].entry, worker[w].fence, worker[w].part)'
  <2>1. worker'[w].entry \in Entries
    BY <1>3, HoldersKeep DEF Holders
  <2>2. PICK e \in Entries \ vouched : e = worker'[w].entry /\ e \notin vouched'
    BY <1>1, <1>3, <2>1
  <2>3. worker'[w].pc \in {"claimed", "preparing", "releasing"} =>
          (outbox'[e].status = "claimed" /\ outbox'[e].fence = worker'[w].fence => Unsent(e)')
    BY <2>2, EarlySends
  <2>4. worker'[w].pc \in Sending =>
          /\ outbox'[e].fence = worker'[w].fence
          /\ outbox'[e].status \notin {"absent", "pending", "failed"}
          /\ parts'[e][worker'[w].fence] # Unprepared
    BY <2>2, SendingHolds
  <2>5. /\ worker'[w].pc = "sending" => \A q \in PartNumbers : q >= worker'[w].part => sends'[e][q] = 0
        /\ worker'[w].pc = "receipt" => \A q \in PartNumbers : q > worker'[w].part => sends'[e][q] = 0
        /\ worker'[w].pc = "failing" => Unsent(e)'
    BY <2>2, SendingUnsent
  <2> QED
    BY <2>2, <2>3, <2>4, <2>5 DEF Sends, Unsent
<1> QED
  BY <1>2, <1>3 DEF SendersAlone

LEMMA OnceKeeps ==
  ASSUME DeliveryInv, SendersAlone, SentOnce, Next, SendsMoved
  PROVE  SentOnce'
<1>1. vouched \subseteq vouched'
  BY RecoverySteps
<1>2. ASSUME NEW e \in Entries \ vouched', NEW q \in PartNumbers PROVE sends'[e][q] <= 1
  <2>1. e \in Entries \ vouched /\ sends[e][q] <= 1 /\ sends[e][q] \in Nat
    BY <1>1, SendsGrow DEF SentOnce
  <2>2. CASE sends'[e] = sends[e]
    BY <2>1, <2>2
  <2>3. ASSUME NEW w \in Workers, SendsPart(w, e) PROVE sends'[e][q] <= 1
    <3>1. worker[w].pc = "sending" /\ worker[w].pc \in Sending /\ worker[w].entry = e
      BY <2>3 DEF SendsPart, Sending
    <3>2. PICK p \in PartNumbers : p = worker[w].part
      BY <3>1, HolderFacts DEF Claiming, Busy, Sending
    <3>3. p \in Nat /\ \A r \in PartNumbers : r >= p => sends[e][r] = 0
      BY <2>1, <3>1, <3>2, SenderHolds DEF Sends, PartNumbers
    <3>4. sends'[e][q] = IF q = p /\ sends[e][q] < 2 THEN sends[e][q] + 1 ELSE sends[e][q]
      BY <2>3, <3>2, SendsGrow
    <3> QED
      BY <2>1, <3>3, <3>4
  <2> QED
    BY <2>2, <2>3 DEF SendsMoved, SendsStep
<1> QED
  BY <1>2 DEF SentOnce

-------------------------------------------------------------------------------
LEMMA PromptInvInit == Init => PromptInv
<1> SUFFICES ASSUME Init PROVE PromptInv
  OBVIOUS
<1>1. recovery.pc = "idle" /\ \A w \in Workers : worker[w].pc = "idle"
  BY WorkerFacts DEF Init, NoRecovery
<1>2. \A e \in Entries : Unsent(e)
  BY DEF Init, Unsent
<1>3. LapsedStays /\ SendersAlone
  BY <1>1, <1>2 DEF LapsedStays, SendersAlone, SentIsOver
<1>4. SentOnce
  BY DEF Init, SentOnce
<1> QED
  BY <1>3, <1>4 DEF PromptInv

LEMMA PromptInvNext == ASSUME DeliveryInv, PromptInv, ~Stalls, [Next]_vars PROVE PromptInv'
<1>1. CASE Next
  <2>1. Stepped /\ WorkersMoved /\ PartsMoved /\ SendsMoved
    BY <1>1, EntrySteps, AllMoves
  <2> QED
    BY <1>1, <2>1, LapsedKeeps, SendersKeep, OnceKeeps DEF PromptInv
<1>2. CASE UNCHANGED vars
  <2>1. LapsedStays' /\ SentOnce'
    BY <1>2 DEF PromptInv, LapsedStays, Lapsed, SentOnce, vars
  <2>2. \A e : Unsent(e)' <=> Unsent(e)
    BY <1>2 DEF Unsent, vars
  <2>3. SendersAlone'
    BY <1>2, <2>2 DEF PromptInv, SendersAlone, SentIsOver, Sends, vars
  <2> QED
    BY <2>1, <2>3 DEF PromptInv
<1> QED
  BY <1>1, <1>2

LEMMA PromptInvariance == ASSUME ~Stalls PROVE Spec => [](DeliveryInv /\ PromptInv)
<1>1. Init => DeliveryInv /\ PromptInv
  BY DeliveryInvInit, PromptInvInit
<1>2. DeliveryInv /\ PromptInv /\ [Next]_vars => (DeliveryInv /\ PromptInv)'
  BY DeliveryInvNext, PromptInvNext
<1> QED
  BY <1>1, <1>2, PTL DEF Spec

\* No part of a notification reaches the platform twice, unless an operator stated the
\* outcome of an earlier attempt, through crashes, lapsed leases, retries and recovery, when
\* no call stalls between reading the clock and taking its lock (claim, prepare_parts,
\* release, recover_claim).
THEOREM NothingSentTwice == ASSUME ~Stalls PROVE Spec => []SentOnce
<1>1. DeliveryInv /\ PromptInv => SentOnce
  BY DEF PromptInv
<1> QED
  BY <1>1, PromptInvariance, PTL

\* Recovery requeues only a claim of which no part was prepared, when no call stalls: what
\* recover_claim asks of its caller, although it does not look at the parts itself.
THEOREM RequeuedUnprepared == ASSUME ~Stalls PROVE Spec => RequeuedOnlyUnprepared
<1>1. ASSUME DeliveryInv, PromptInv, [Next]_vars
      PROVE  [\A e \in Entries :
                /\ recovery.pc = "claim" /\ recovery'.pc = "idle" /\ recovery.entry = e
                /\ outbox[e].status = "claimed" /\ outbox'[e].status = "pending"
                => parts[e][outbox[e].fence] = Unprepared]_vars
  <2> SUFFICES ASSUME NEW e \in Entries, recovery.pc = "claim", recovery'.pc = "idle", recovery.entry = e,
                      outbox[e].status = "claimed", outbox'[e].status = "pending"
               PROVE  parts[e][outbox[e].fence] = Unprepared
    OBVIOUS
  <2>1. RecoverClaim
    <3>1. recovery' # recovery /\ Next
      BY <1>1 DEF vars
    <3> QED
      BY <3>1, RecoveryKinds DEF ListStale, ReadParts
  <2>2. Lapsed(e) /\ ~recovery.attempted
    <3>1. outbox \in [Entries -> EntryRow] /\ outbox[e] \in EntryRow
      BY <1>1 DEF DeliveryInv, DeliveryTypes
    <3>2. ~UNCHANGED outbox
      OBVIOUS
    <3>3. Close(e, "in_doubt", "in_doubt") => outbox'[e].status = "in_doubt"
      BY <3>1 DEF Close, EntryRow
    <3> QED
      BY <2>1, <3>2, <3>3 DEF RecoverClaim, Lapsed
  <2> QED
    BY <1>1, <2>2 DEF PromptInv, LapsedStays
<1> QED
  BY <1>1, PromptInvariance, PTL DEF Spec, RequeuedOnlyUnprepared
===============================================================================
