--------------------------- MODULE MCDispatcherFocus ---------------------------
(* ExecutionDispatcher explored part by part, and the runs of a recurring job *)
(* that such a dispatcher or a schedule launches.                             *)
EXTENDS MCExecutionDispatcher, JobStreams

\* Each behaviour explores one part in depth.
VARIABLE focus

Named(r) == requests'[r].kind = "named_job"

AdHocOnly ==
  /\ \A r \in Requests : requests'[r].status # "absent" => ~Named(r)
  /\ Cardinality({r \in Requests : requests'[r].status # "absent"}) <= 1
  /\ \A r \in Requests : ~requests'[r].handoff_title

OneWorker == Cardinality({w \in Workers : slot'[w] # Idle}) <= 1

\* One worker whose run parks two approvals for one effect.
ParkFocus == AdHocOnly /\ OneWorker

\* Two workers that lose and take over the run of one approval, no deadline.
TakeoverFocus ==
  /\ AdHocOnly
  /\ Cardinality({a \in Approvals : approvals'[a] # NoApproval}) <= 1
  /\ \A r \in Requests : requests'[r].expires_at = Never

\* One worker that reports two handed off named jobs.
ReportFocus ==
  /\ OneWorker
  /\ now' <= 1
  /\ \A r \in Requests : Named(r)
  /\ approvals' = approvals

FocusedInit ==
  /\ DispatcherInit
  /\ StreamInit
  /\ focus \in {"park", "takeover", "report", "streams"}

FocusedNext ==
  /\ focus' = focus
  /\ \/ /\ focus # "streams" /\ DispatcherNext
        /\ focus = "park" => ParkFocus
        /\ focus = "takeover" => TakeoverFocus
        /\ focus = "report" => ReportFocus
        /\ UNCHANGED streamVars
     \/ /\ focus = "streams" /\ StreamNext
        /\ UNCHANGED vars

FocusedDispatcher == FocusedInit /\ [][FocusedNext]_<<vars, streamVars, focus>>

\* Ids are only compared for equality.
IdSymmetry ==
  Permutations(Requests) \cup Permutations(Approvals) \cup Permutations(Workers)
===============================================================================
