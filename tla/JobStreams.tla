------------------------------ MODULE JobStreams ------------------------------
(***************************************************************************)
(* The runs of one recurring job over one stream: single flight by a file  *)
(* lock (jobs/lock.py), collection from the committed cursor (stream.py    *)
(* and the Slack adapter), the batch persisted before reasoning, the       *)
(* dispositions, the accounting, the escalation of blocked items           *)
(* (escalation.py) and the commit of the cursor (runner.py, store.py).     *)
(*                                                                         *)
(* Messages and collections happen at distinct instants, numbered from 1;  *)
(* a cursor is an instant and 0 is no cursor.  What the agent does between *)
(* collection and its final answer is any sequence of the accounting and   *)
(* effect tools.  An item has one action key; EffectLedger has the details *)
(* of reservation and budgets.  `failed` stands for every outcome of a     *)
(* run that is not `succeeded`.  Payload files, transcripts, summaries and *)
(* the pool of durable tasks are left out.                                 *)
(***************************************************************************)
EXTENDS Naturals, FiniteSets

CONSTANTS
  Items,      \* messages of the stream
  Launchers,  \* processes that launch the job: schedule worker, command line
  ItemLimit,  \* item_limit of the source
  Lookback,   \* initial_lookback_hours of the source
  MaxRuns,    \* bound of the exploration: runs of the job
  MaxInstant  \* bound of the exploration: messages and collections

ASSUME StreamAssumption ==
  /\ {ItemLimit, Lookback, MaxRuns, MaxInstant} \subseteq Nat
  /\ ItemLimit > 0
  /\ IsFiniteSet(Items)
  /\ "nobody" \notin Launchers

VARIABLES
  instant,     \* number of messages posted and collections made
  posted,      \* instant of each message, 0 before it is posted
  jobCursor,   \* table job_stream_cursors
  jobRuns,     \* table job_runs, with the stream batch of each run
  dispositions,\* table job_dispositions: kind per run and item
  effects,     \* table job_actions: the last action of each item
  escalated,   \* table job_escalations: items that have a task
  reviewTasks, \* number of escalation tasks created for each item
  jobLock,     \* holder of the job's file lock
  launcher     \* where each launching process is

streamTables == <<instant, posted, jobCursor, jobRuns, dispositions, effects, escalated, reviewTasks>>

streamVars == <<streamTables, jobLock, launcher>>

RunIds == 1..MaxRuns

NoBatch == [items |-> {}, next |-> 0, complete |-> FALSE]

AbsentRun == [outcome |-> "absent", dry |-> FALSE, batch |-> NoBatch]

NoEffect == [status |-> "none", run |-> 0]

IdleLauncher == [pc |-> "idle", run |-> 0, outcome |-> "failed", todo |-> {},
                 current |-> {}]

RunOfLauncher(p) == jobRuns[launcher[p].run]

LauncherAt(p, pc) == launcher' = [launcher EXCEPT ![p].pc = pc]

\* The outcome the launcher will record once the runtime is closed.
EndsWith(p, outcome) ==
  launcher' = [launcher EXCEPT ![p].pc = "closing", ![p].outcome = outcome]

-------------------------------------------------------------------------------
(* Launch and collection *)

PostMessage(i) ==
  /\ posted[i] = 0
  /\ instant < MaxInstant
  /\ instant' = instant + 1
  /\ posted' = [posted EXCEPT ![i] = instant + 1]
  /\ UNCHANGED <<jobCursor, jobRuns, dispositions, effects, escalated, reviewTasks, jobLock, launcher>>

FreeRunIds == {r \in RunIds : jobRuns[r].outcome = "absent"}

NextRunId == CHOOSE r \in FreeRunIds : TRUE

CanLaunch(p) == launcher[p].pc = "idle" /\ FreeRunIds # {}

\* The row of the run, whose outcome is NULL while it is open.
BeginRun(p, dry) ==
  /\ jobRuns' = [jobRuns EXCEPT ![NextRunId] = [AbsentRun EXCEPT !.outcome = "open", !.dry = dry]]
  /\ launcher' = [launcher EXCEPT ![p] = [IdleLauncher EXCEPT !.pc = "collect", !.run = NextRunId]]
  /\ jobLock' = p

\* Mutant: a second run of the job does not notice the first.
LaunchUnlocked(p, dry) ==
  /\ CanLaunch(p)
  /\ BeginRun(p, dry)
  /\ UNCHANGED <<instant, posted, jobCursor, dispositions, effects, escalated, reviewTasks>>

\* The lock is tried once; a run that finds it taken is recorded as skipped.
Launch(p, dry) ==
  /\ CanLaunch(p)
  /\ \/ jobLock = "nobody" /\ BeginRun(p, dry)
     \/ /\ jobLock # "nobody"
        /\ jobRuns' = [jobRuns EXCEPT ![NextRunId] =
             [AbsentRun EXCEPT !.outcome = "skipped_locked", !.dry = dry]]
        /\ UNCHANGED <<jobLock, launcher>>
  /\ UNCHANGED <<instant, posted, jobCursor, dispositions, effects, escalated, reviewTasks>>

\* Without a cursor the window is the lookback before this collection.
WindowStart(upper) ==
  IF jobCursor # 0 THEN jobCursor ELSE IF upper > Lookback THEN upper - Lookback ELSE 0

Window(upper) == {i \in Items : posted[i] > WindowStart(upper) /\ posted[i] < upper}

\* The service returns the newest messages first, and item_limit of them are read.
Newest(S) == {i \in S : Cardinality({j \in S : posted[j] > posted[i]}) < ItemLimit}

\* collect_stream and persist_batch: the batch is a row before the agent sees it.
Collect(p) ==
  LET upper == instant + 1
  IN /\ launcher[p].pc = "collect"
     /\ instant < MaxInstant
     /\ instant' = upper
     /\ jobRuns' = [jobRuns EXCEPT ![launcher[p].run].batch =
          [items |-> Newest(Window(upper)), next |-> upper,
           complete |-> Cardinality(Window(upper)) <= ItemLimit]]
     /\ LauncherAt(p, "reason")
     /\ UNCHANGED <<posted, jobCursor, dispositions, effects, escalated, reviewTasks, jobLock>>

-------------------------------------------------------------------------------
(* Reasoning *)

\* record_item_disposition: once for each identity of the run's own batch.
RecordDisposition(p, i, kind) ==
  /\ launcher[p].pc = "reason"
  /\ i \in RunOfLauncher(p).batch.items
  /\ dispositions[launcher[p].run][i] = "none"
  /\ dispositions' = [dispositions EXCEPT ![launcher[p].run][i] = kind]
  /\ UNCHANGED <<instant, posted, jobCursor, jobRuns, effects, escalated, reviewTasks, jobLock, launcher>>

\* A dry run has no effect tools, and an open action keeps its key.
ReserveItem(p, i) ==
  /\ launcher[p].pc = "reason"
  /\ ~RunOfLauncher(p).dry
  /\ i \in RunOfLauncher(p).batch.items
  /\ effects[i].status \in {"none", "not_performed"}
  /\ effects' = [effects EXCEPT ![i] = [status |-> "reserved", run |-> launcher[p].run]]
  /\ UNCHANGED <<instant, posted, jobCursor, jobRuns, dispositions, escalated, reviewTasks, jobLock, launcher>>

ResolveItem(p, i, disposition) ==
  /\ launcher[p].pc = "reason"
  /\ effects[i].status = "reserved" /\ effects[i].run = launcher[p].run
  /\ effects' = [effects EXCEPT ![i].status = disposition]
  /\ UNCHANGED <<instant, posted, jobCursor, jobRuns, dispositions, escalated, reviewTasks, jobLock, launcher>>

\* Recovery and the operator, for an action nobody will resolve any more.
ReconcileItem(i, disposition) ==
  /\ \/ effects[i].status = "in_doubt"
     \/ effects[i].status = "reserved" /\ \A p \in Launchers : launcher[p].run # effects[i].run
  /\ effects' = [effects EXCEPT ![i].status = disposition]
  /\ UNCHANGED <<instant, posted, jobCursor, jobRuns, dispositions, escalated, reviewTasks, jobLock, launcher>>

-------------------------------------------------------------------------------
(* The end of a run *)

\* _effect_truth_outcome: the actions of the run that spoil its success.
UnperformedBy(r) == {i \in Items : effects[i].run = r /\ effects[i].status # "performed"}

\* Mutant: the join on item_id forgets that a disposition belongs to a batch.
MissingInAnyBatch(r) ==
  {i \in jobRuns[r].batch.items : \A q \in RunIds : dispositions[q][i] = "none"}

Missing(r) == {i \in jobRuns[r].batch.items : dispositions[r][i] = "none"}

\* verify_run_accounting.
Accounted(r) ==
  /\ jobRuns[r].batch.complete
  /\ Missing(r) = {}
  /\ \A i \in Items : dispositions[r][i] = "effect_reserved" => effects[i].status = "performed"

Blocked(r) == {i \in Items : dispositions[r][i] = "blocked"}

\* The agent's final answer; effects are looked at, and escalations made, in a run
\* that is not dry.
FinishReasoning(p) ==
  LET r == launcher[p].run
  IN /\ launcher[p].pc = "reason"
     /\ IF ~Accounted(r) \/ (~jobRuns[r].dry /\ UnperformedBy(r) # {}) THEN EndsWith(p, "failed")
        ELSE IF jobRuns[r].dry THEN EndsWith(p, "succeeded")
        ELSE launcher' = [launcher EXCEPT ![p].pc = "escalate", ![p].todo = Blocked(r)]
     /\ UNCHANGED <<streamTables, jobLock>>

\* The budget is exceeded, the run is interrupted, or the agent itself fails.
AbortReasoning(p) ==
  /\ launcher[p].pc \in {"collect", "reason"}
  /\ EndsWith(p, "failed")
  /\ UNCHANGED <<streamTables, jobLock>>

\* escalate_blocked of an item that has a task: the task is updated, whose refusal
\* is ignored, and the correlation written again.
UpdateEscalation(p, i) ==
  /\ launcher[p].pc = "escalate"
  /\ i \in launcher[p].todo
  /\ i \in escalated
  /\ launcher' = [launcher EXCEPT ![p].todo = @ \ {i}]
  /\ UNCHANGED <<streamTables, jobLock>>

\* ... and of one that has none: the task is created, claimed and set to wait,
CreateEscalation(p, i) ==
  /\ launcher[p].pc = "escalate"
  /\ i \in launcher[p].todo
  /\ i \notin escalated
  /\ reviewTasks' = [reviewTasks EXCEPT ![i] = @ + 1]
  /\ launcher' = [launcher EXCEPT ![p].pc = "correlate", ![p].current = {i}]
  /\ UNCHANGED <<instant, posted, jobCursor, jobRuns, dispositions, effects, escalated, jobLock>>

\* and then written to the ledger of the job.
CorrelateEscalation(p) ==
  /\ launcher[p].pc = "correlate"
  /\ escalated' = escalated \cup launcher[p].current
  /\ launcher' = [launcher EXCEPT ![p].pc = "escalate", ![p].todo = @ \ launcher[p].current,
                                  ![p].current = {}]
  /\ UNCHANGED <<instant, posted, jobCursor, jobRuns, dispositions, effects, reviewTasks, jobLock>>

\* Mutant: the failure of one escalation is logged and the run goes on.
EscalationFailsQuietly(p) ==
  /\ launcher[p].pc \in {"escalate", "correlate"}
  /\ launcher[p].todo # {}
  /\ EndsWith(p, "succeeded")
  /\ UNCHANGED <<streamTables, jobLock>>

\* Any other error of a store, or a cancellation, ends the run.
EscalationFails(p) ==
  /\ launcher[p].pc \in {"escalate", "correlate"}
  /\ EndsWith(p, "failed")
  /\ UNCHANGED <<streamTables, jobLock>>

FinishEscalation(p) ==
  /\ launcher[p].pc = "escalate"
  /\ launcher[p].todo = {}
  /\ EndsWith(p, "succeeded")
  /\ UNCHANGED <<streamTables, jobLock>>

\* The runtime is closed, which may still spoil the outcome, and the outcome recorded.
RecordOutcome(p) ==
  /\ launcher[p].pc = "closing"
  /\ \E outcome \in {launcher[p].outcome, "failed"} :
       /\ jobRuns' = [jobRuns EXCEPT ![launcher[p].run].outcome = outcome]
       /\ LauncherAt(p, IF outcome = "succeeded" /\ ~RunOfLauncher(p).dry THEN "commit" ELSE "unlock")
  /\ UNCHANGED <<instant, posted, jobCursor, dispositions, effects, escalated, reviewTasks, jobLock>>

\* commit_stream_cursors looks at the batch and its dispositions again.
CommitCursor(p) ==
  LET run == RunOfLauncher(p)
  IN /\ launcher[p].pc = "commit"
     /\ jobCursor' = IF run.batch.complete /\ Missing(launcher[p].run) = {} THEN run.batch.next
                     ELSE jobCursor
     /\ LauncherAt(p, "unlock")
     /\ UNCHANGED <<instant, posted, jobRuns, dispositions, effects, escalated, reviewTasks, jobLock>>

Unlock(p) ==
  /\ launcher[p].pc = "unlock"
  /\ jobLock' = "nobody"
  /\ launcher' = [launcher EXCEPT ![p] = IdleLauncher]
  /\ UNCHANGED streamTables

\* The kernel releases the lock of a dead process; its run stays open.
CrashLauncher(p) ==
  /\ launcher[p].pc # "idle"
  /\ jobLock' = "nobody"
  /\ launcher' = [launcher EXCEPT ![p] = IdleLauncher]
  /\ UNCHANGED streamTables

-------------------------------------------------------------------------------
StreamInit ==
  /\ instant = 0
  /\ posted = [i \in Items |-> 0]
  /\ jobCursor = 0
  /\ jobRuns = [r \in RunIds |-> AbsentRun]
  /\ dispositions = [r \in RunIds |-> [i \in Items |-> "none"]]
  /\ effects = [i \in Items |-> NoEffect]
  /\ escalated = {}
  /\ reviewTasks = [i \in Items |-> 0]
  /\ jobLock = "nobody"
  /\ launcher = [p \in Launchers |-> IdleLauncher]

\* `escalated` needs a task the agent made itself, which nothing here looks at: it
\* counts as `declined`.
ReasoningStep(p) ==
  \/ \E i \in Items :
       \/ \E kind \in {"declined", "blocked", "effect_reserved"} : RecordDisposition(p, i, kind)
       \/ ReserveItem(p, i)
       \/ \E d \in {"performed", "not_performed", "in_doubt"} : ResolveItem(p, i, d)
  \/ FinishReasoning(p)
  \/ AbortReasoning(p)

EndStep(p) ==
  \/ \E i \in Items : UpdateEscalation(p, i) \/ CreateEscalation(p, i)
  \/ CorrelateEscalation(p)
  \/ EscalationFails(p)
  \/ FinishEscalation(p) \/ RecordOutcome(p) \/ CommitCursor(p) \/ Unlock(p)

StreamNext ==
  \/ \E i \in Items : PostMessage(i) \/ \E d \in {"performed", "not_performed"} : ReconcileItem(i, d)
  \/ \E p \in Launchers :
       \/ \E dry \in BOOLEAN : Launch(p, dry)
       \/ Collect(p) \/ ReasoningStep(p) \/ EndStep(p) \/ CrashLauncher(p)

StreamSpec == StreamInit /\ [][StreamNext]_streamVars

-------------------------------------------------------------------------------
(* Properties *)

\* A run that counted: it succeeded, it was not dry, and it decided about the item; an
\* effect it names has been performed.
SettledBy(r, i) ==
  /\ jobRuns[r].outcome = "succeeded" /\ ~jobRuns[r].dry
  /\ dispositions[r][i] # "none"
  /\ dispositions[r][i] = "effect_reserved" => effects[i].status = "performed"

Settled(i) == \E r \in RunIds : SettledBy(r, i)

\* Nothing is skipped: a message before the committed cursor has been settled by a run
\* that counted, whatever runs failed, crashed, were dry or were refused the lock
\* before (commit_stream_cursors, verify_run_accounting, collect).
NothingSkipped == \A i \in Items : posted[i] \in 1..(jobCursor - 1) => Settled(i)

\* A blocked message reaches the user: when a run that counted has declared a message
\* blocked, its escalation is in the ledger, although task, correlation, outcome and
\* cursor are four transactions in two databases (_escalate_blocked before finish).
BlockedReachesUser ==
  \A r \in RunIds, i \in Items :
    SettledBy(r, i) /\ dispositions[r][i] = "blocked" => i \in escalated

\* The cursor only moves forward, and only over messages a run that counted has
\* settled; the first window alone may leave out those before its lookback.  So no run
\* commits a window that ended before one which a later run has already settled
\* (job_lock around collection and commit), and none a window that it read in part.
CursorPassesSettled ==
  [][/\ jobCursor' >= jobCursor
     /\ \A i \in Items :
          /\ posted[i] > jobCursor /\ posted[i] < jobCursor'
          /\ jobCursor # 0 \/ posted[i] + Lookback > jobCursor'
          => Settled(i)]_streamVars

\* A later run accounts for what was seen: a message which some run collected and left
\* unsettled is still before the cursor's next window, so that no committed cursor
\* passes it (docs/jobs-and-schedules.md on streams).
SeenIsSettled ==
  \A r \in RunIds, i \in Items :
    i \in jobRuns[r].batch.items /\ posted[i] < jobCursor => Settled(i)
===============================================================================
