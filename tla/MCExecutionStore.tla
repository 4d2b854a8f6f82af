--------------------------- MODULE MCExecutionStore ---------------------------
(* Instances of ExecutionStore for TLC. *)
EXTENDS ExecutionStore, TLC

CONSTANTS r1, r2, a1, a2, e1, o1, w1, w2

\* Each behaviour explores one half of the store in depth.
VARIABLE focus

\* Leases, handoffs and retries of named jobs, two workers, no approval.
LeaseFocus ==
  /\ approvals' = approvals
  /\ \A r \in Requests : requests'[r].kind = "named_job"

\* Parked approvals of ad hoc requests without a handoff, one of them with a deadline;
\* one worker.
ApprovalFocus ==
  /\ scanning'[w2] = Never
  /\ now' <= 1
  /\ \A r \in Requests : LET row == requests'[r]
                         IN /\ row.status = "absent" \/ row.kind = "ad_hoc"
                            /\ ~row.handoff_title
                            /\ row.claim_fence <= 1
  /\ \E r \in Requests : requests'[r].status \in {"absent", "pruned"} \/ requests'[r].expires_at # Never

FocusedInit == Init /\ focus \in {"leases", "approvals"}

FocusedNext ==
  /\ Next
  /\ focus' = focus
  /\ IF focus = "leases" THEN LeaseFocus ELSE ApprovalFocus

FocusedSpec == FocusedInit /\ [][FocusedNext]_<<storeVars, focus>>

\* Ids are opaque and every order among them is possible.
IdSymmetry == Permutations(Approvals) \cup Permutations(Requests)
===============================================================================
