----------------------------- MODULE DurableTasks -----------------------------
(***************************************************************************)
(* Durable tasks: the store (durable_tasks/store.py), the tools of a       *)
(* session with the guard of unattended runs (tools.py, state_guard.py)    *)
(* and park_for_review (review.py).                                        *)
(*                                                                         *)
(* Every store call is one BEGIN IMMEDIATE transaction, hence one action;  *)
(* a cancelled waiter never undoes one that is under way.  A tool reads    *)
(* the task and mutates it in separate transactions, and a session learns  *)
(* the lease after that.  The tool calls of one response run concurrently  *)
(* (agent/loop.py), so a session has several.  A lease is named by         *)
(* its epoch, 0 is no lease, and the passing of its expiry is LapseTask.   *)
(* One dedupe_key is modelled; texts, the contents of artifacts,           *)
(* priorities, due dates and the activity log are left out.                *)
(***************************************************************************)
EXTENDS Naturals, FiniteSets

CONSTANTS
  TaskIds,      \* ids of tasks, never reused
  Agents,       \* sessions that use the task tools
  ToolCalls,    \* tool calls that may run at one time
  SessionOf,    \* the session of each
  Unattended,   \* the sessions of unattended runs
  NoTask,       \* no task
  Modes,        \* execution modes of tasks created by tools
  MaxRevision,  \* bound of the exploration: revision of a task
  MaxEpoch      \* bound of the exploration: claims of a task

ASSUME TaskAssumption ==
  /\ Unattended \subseteq Agents
  /\ SessionOf \in [ToolCalls -> Agents]
  /\ NoTask \notin TaskIds
  /\ Modes \subseteq {"agent", "joint", "user"}
  /\ {MaxRevision, MaxEpoch} \subseteq Nat

VARIABLES
  tasks,     \* table tasks, with the review tag of each task
  known,     \* session.active_task_leases of each session
  toolCall,  \* where each tool call is
  parked,    \* history: tasks some park_for_review has delivered
  handed     \* history: lease and revision of the last hand-over of each task to the user

taskVars == <<tasks, known, toolCall, parked, handed>>

ActiveStatuses == {"open", "in_progress", "waiting", "blocked"}

AbsentTask == [status |-> "absent", mode |-> "joint", onUser |-> FALSE, tag |-> FALSE,
               revision |-> 0, epoch |-> 0, lease |-> 0, holder |-> "none", lapsed |-> FALSE]

IdleCall == [pc |-> "idle", task |-> NoTask, op |-> "none", looked |-> 0, seen |-> 0,
             lease |-> 0, found |-> 0, reused |-> FALSE]

CallAt(c, pc) == toolCall' = [toolCall EXCEPT ![c].pc = pc]

Return(c) == toolCall' = [toolCall EXCEPT ![c] = IdleCall]

NotHanded == [lease |-> 0, revision |-> 0]

-------------------------------------------------------------------------------
(* The store *)

LiveTaskLease(row) == row.lease # 0 /\ ~row.lapsed

Unleased(row) == [row EXCEPT !.lease = 0, !.holder = "none", !.lapsed = FALSE]

Bumped(row) == [row EXCEPT !.revision = @ + 1]

NewTask(mode, tag) ==
  [AbsentTask EXCEPT !.status = "open", !.mode = mode, !.tag = tag, !.revision = 1]

\* Mutant: the claim does not compare the revision its caller read.
CanClaimAnyRevision(t, expected) ==
  /\ tasks[t].status \in ActiveStatuses
  /\ ~LiveTaskLease(tasks[t])

\* _claim's checks; an expected revision of 0 is None.
CanClaim(t, expected) ==
  /\ expected # 0 => tasks[t].revision = expected
  /\ tasks[t].status \in ActiveStatuses
  /\ ~LiveTaskLease(tasks[t])

\* The caller's first claim of the task makes it in progress.
ClaimedTask(a, t) ==
  [Bumped(tasks[t]) EXCEPT
     !.status = IF @ = "open" THEN "in_progress" ELSE @,
     !.epoch = @ + 1, !.lease = tasks[t].epoch + 1, !.holder = a, !.lapsed = FALSE]

\* _required_leased_row
OwnsTask(a, t, lease, revision) ==
  /\ tasks[t].revision = revision
  /\ LiveTaskLease(tasks[t])
  /\ tasks[t].holder = a
  /\ tasks[t].lease = lease

\* What a mutation under the lease makes of a row; each advances the revision.
Renewed(row) == Bumped(row)

Transitioned(row, status, onUser) == [Bumped(row) EXCEPT !.status = status, !.onUser = onUser]

Closed(row, status) == Unleased([Bumped(row) EXCEPT !.status = status, !.onUser = FALSE])

Released(row) == Unleased(Bumped(row))

Untagged(row) == IF row.tag THEN [Bumped(row) EXCEPT !.tag = FALSE] ELSE row

\* The file is replaced, under its own lock and digest, inside the transaction.
ArtifactRecorded(row) == Bumped(row)

Mutated(row, op) ==
  CASE op = "renew"    -> Renewed(row)
    [] op = "progress" -> Transitioned(row, "in_progress", FALSE)
    [] op = "wait"     -> Transitioned(row, "waiting", FALSE)
    [] op = "ask_user" -> Transitioned(row, "waiting", TRUE)
    [] op = "block"    -> Transitioned(row, "blocked", FALSE)
    [] op = "complete" -> Closed(row, "completed")
    [] op = "cancel"   -> Closed(row, "cancelled")
    [] op = "release"  -> Released(row)
    [] op = "untag"    -> Untagged(row)
    [] op = "write"    -> ArtifactRecorded(row)

LeasedOps ==
  {"renew", "progress", "wait", "ask_user", "block", "complete", "cancel", "release", "untag", "write"}

\* create_durable_task, which unattended runs do not have.
CreateTask(t) ==
  /\ tasks[t].status = "absent"
  /\ \E mode \in Modes : tasks' = [tasks EXCEPT ![t] = NewTask(mode, FALSE)]
  /\ UNCHANGED <<known, toolCall, parked, handed>>

\* reopen_durable_task and the command, with neither lease nor revision.
ReopenTask(t) ==
  /\ tasks[t].status \in {"completed", "cancelled"}
  /\ ~LiveTaskLease(tasks[t])
  /\ tasks' = [tasks EXCEPT ![t] =
       Unleased([Bumped(@) EXCEPT !.status = "open", !.onUser = FALSE])]
  /\ UNCHANGED <<known, toolCall, parked, handed>>

LapseTask(t) ==
  /\ LiveTaskLease(tasks[t])
  /\ tasks' = [tasks EXCEPT ![t].lapsed = TRUE]
  /\ UNCHANGED <<known, toolCall, parked, handed>>

CallsOf(a) == {c \in ToolCalls : SessionOf[c] = a}

\* release_session_leases when the runtime of the session closes.
CloseAgent(a) ==
  /\ \A c \in CallsOf(a) : toolCall[c].pc = "idle"
  /\ tasks' = [t \in TaskIds |->
       IF LiveTaskLease(tasks[t]) /\ tasks[t].holder = a THEN Unleased(Bumped(tasks[t]))
       ELSE tasks[t]]
  /\ known' = [known EXCEPT ![a] = [t \in TaskIds |-> 0]]
  /\ UNCHANGED <<toolCall, parked, handed>>

\* The process dies; the session comes back with the leases of its last snapshot.
CrashAgent(a) ==
  /\ \E c \in CallsOf(a) : toolCall[c].pc # "idle"
  /\ toolCall' = [c \in ToolCalls |-> IF c \in CallsOf(a) THEN IdleCall ELSE toolCall[c]]
  /\ \E stored \in BOOLEAN :
       known' = IF stored THEN known ELSE [known EXCEPT ![a] = [t \in TaskIds |-> 0]]
  /\ UNCHANGED <<tasks, parked, handed>>

-------------------------------------------------------------------------------
(* The tools *)

\* The user's own tasks and a joint task that waits for the user are read only.
BatonElsewhere(t) == tasks[t].mode = "user" \/ (tasks[t].mode = "joint" /\ tasks[t].onUser)

\* GuardedDurableTaskTool.run; a claim must name the revision the guard reads.
GuardTool(c, t, op) ==
  /\ toolCall[c].pc = "idle"
  /\ SessionOf[c] \in Unattended
  /\ tasks[t].status # "absent"
  /\ ~BatonElsewhere(t)
  /\ toolCall' = [toolCall EXCEPT ![c] = [IdleCall EXCEPT !.pc = "guarded", !.task = t, !.op = op,
                                          !.looked = tasks[t].revision]]
  /\ UNCHANGED <<tasks, known, parked, handed>>

\* _task_and_authority: the tool reads the task again, and the lease its session knows.
ReadForTool(c) ==
  LET t == toolCall[c].task IN
  /\ toolCall[c].pc = "guarded"
  /\ toolCall' = [toolCall EXCEPT
       ![c].pc = "tool", ![c].lease = known[SessionOf[c]][t],
       ![c].seen = IF toolCall[c].op = "claim" THEN toolCall[c].looked ELSE tasks[t].revision]
  /\ UNCHANGED <<tasks, known, parked, handed>>

\* An attended tool has no guard, and its claim names a revision or none.
CallTool(c, t, op) ==
  /\ toolCall[c].pc = "idle"
  /\ SessionOf[c] \notin Unattended
  /\ tasks[t].status # "absent"
  /\ \E expected \in {tasks[t].revision} \cup (IF op = "claim" THEN {0} ELSE {}) :
       toolCall' = [toolCall EXCEPT ![c] =
         [IdleCall EXCEPT !.pc = "tool", !.task = t, !.op = op, !.seen = expected,
                          !.lease = known[SessionOf[c]][t]]]
  /\ UNCHANGED <<tasks, known, parked, handed>>

ToolAllowed(c) ==
  LET t == toolCall[c].task IN
  IF toolCall[c].op = "claim" THEN CanClaim(t, toolCall[c].seen)
  ELSE toolCall[c].lease # 0 /\ OwnsTask(SessionOf[c], t, toolCall[c].lease, toolCall[c].seen)

ToolRow(c) ==
  LET t == toolCall[c].task IN
  IF toolCall[c].op = "claim" THEN ClaimedTask(SessionOf[c], t)
  ELSE Mutated(tasks[t], toolCall[c].op)

ToolBound(c) ==
  LET row == tasks[toolCall[c].task] IN
  row.revision < MaxRevision /\ (toolCall[c].op = "claim" => row.epoch < MaxEpoch)

\* What the last hand-over of t is when its holder now hands it to the user.
HandedNow(t) == [handed EXCEPT ![t] = [lease |-> tasks[t].lease, revision |-> tasks[t].revision + 1]]

\* The store call of the tool; a refusal is an error result.
ApplyTool(c) ==
  LET t == toolCall[c].task IN
  /\ toolCall[c].pc = "tool"
  /\ ToolBound(c)
  /\ IF ToolAllowed(c)
     THEN /\ tasks' = [tasks EXCEPT ![t] = ToolRow(c)]
          /\ toolCall' = [toolCall EXCEPT ![c] =
               [IdleCall EXCEPT !.pc = "sync", !.task = t, !.lease = ToolRow(c).lease]]
          /\ handed' = IF toolCall[c].op = "ask_user" THEN HandedNow(t) ELSE handed
     ELSE Return(c) /\ UNCHANGED <<tasks, handed>>
  /\ UNCHANGED <<known, parked>>

\* _sync_lease, once the store's answer is back in the session's loop.
SyncLease(c) ==
  /\ toolCall[c].pc = "sync"
  /\ known' = [known EXCEPT ![SessionOf[c]][toolCall[c].task] = toolCall[c].lease]
  /\ Return(c)
  /\ UNCHANGED <<tasks, parked, handed>>

\* The call was cancelled while the transaction was in its thread: it has landed, and the
\* session does not learn of it.
LoseSync(c) ==
  /\ toolCall[c].pc = "sync"
  /\ Return(c)
  /\ UNCHANGED <<tasks, known, parked, handed>>

-------------------------------------------------------------------------------
(* park_for_review *)

Reviews == {t \in TaskIds : tasks[t].tag /\ tasks[t].status \in ActiveStatuses}

\* The search; the task it finds is one of the open ones with the review tag.
ParkSearch(c) ==
  /\ toolCall[c].pc = "idle"
  /\ \/ /\ Reviews = {}
        /\ CallAt(c, "park_create")
     \/ \E t \in Reviews :
          toolCall' = [toolCall EXCEPT ![c] = [IdleCall EXCEPT !.pc = "park_claim", !.task = t,
                                               !.seen = tasks[t].revision, !.reused = TRUE]]
  /\ UNCHANGED <<tasks, known, parked, handed>>

ParkCreate(c) ==
  /\ toolCall[c].pc = "park_create"
  /\ \E t \in TaskIds :
       /\ tasks[t].status = "absent"
       /\ tasks' = [tasks EXCEPT ![t] = NewTask("joint", TRUE)]
       /\ toolCall' = [toolCall EXCEPT ![c] =
            [IdleCall EXCEPT !.pc = "park_claim", !.task = t, !.seen = 1]]
  /\ UNCHANGED <<known, parked, handed>>

\* A refused claim leaves park_for_review before its try block.
ParkClaim(c) ==
  LET t == toolCall[c].task IN
  /\ toolCall[c].pc = "park_claim"
  /\ tasks[t].revision < MaxRevision /\ tasks[t].epoch < MaxEpoch
  /\ IF CanClaim(t, toolCall[c].seen)
     THEN /\ tasks' = [tasks EXCEPT ![t] = ClaimedTask(SessionOf[c], t)]
          /\ toolCall' = [toolCall EXCEPT ![c].pc = "park_write",
                                          ![c].seen = tasks[t].revision + 1,
                                          ![c].lease = tasks[t].epoch + 1]
     ELSE Return(c) /\ UNCHANGED tasks
  /\ UNCHANGED <<known, parked, handed>>

\* The call is cancelled while the claim is in its thread: the claim lands.
ParkClaimCancelled(c) ==
  LET t == toolCall[c].task IN
  /\ toolCall[c].pc = "park_claim"
  /\ tasks[t].revision < MaxRevision /\ tasks[t].epoch < MaxEpoch
  /\ CanClaim(t, toolCall[c].seen)
  /\ tasks' = [tasks EXCEPT ![t] = ClaimedTask(SessionOf[c], t)]
  /\ Return(c)
  /\ UNCHANGED <<known, parked, handed>>

OwnsParked(c) ==
  OwnsTask(SessionOf[c], toolCall[c].task, toolCall[c].lease, toolCall[c].seen)

\* One mutation of the parking under its own lease, or its refusal.
ParkStep(c, pc, op, next) ==
  LET t == toolCall[c].task IN
  /\ toolCall[c].pc = pc
  /\ IF OwnsParked(c)
     THEN /\ tasks' = [tasks EXCEPT ![t] = Mutated(tasks[t], op)]
          /\ toolCall' = [toolCall EXCEPT ![c].pc = next, ![c].seen = @ + 1]
     ELSE CallAt(c, "park_unwind") /\ UNCHANGED tasks
  /\ UNCHANGED known

ParkWrite(c) ==
  /\ ParkStep(c, "park_write", "write", "park_wait")
  /\ UNCHANGED <<parked, handed>>

ParkWait(c) ==
  /\ ParkStep(c, "park_wait", "ask_user", "park_release")
  /\ handed' = IF OwnsParked(c) THEN HandedNow(toolCall[c].task) ELSE handed
  /\ UNCHANGED parked

ParkRelease(c) ==
  /\ ParkStep(c, "park_release", "release", "park_drop")
  /\ parked' = IF OwnsParked(c) THEN parked \cup {toolCall[c].task} ELSE parked
  /\ UNCHANGED handed

\* The tool drops whatever lease of the task its session knew.
ParkDrop(c) ==
  /\ toolCall[c].pc = "park_drop"
  /\ known' = [known EXCEPT ![SessionOf[c]][toolCall[c].task] = 0]
  /\ Return(c)
  /\ UNCHANGED <<tasks, parked, handed>>

\* An error or a cancellation between two calls; before the claim nothing is unwound, one
\* that comes during the unwinding ends it, and one that comes while the last release is in
\* its thread finds it landed.
ParkInterrupted(c) ==
  /\ \/ /\ toolCall[c].pc \in {"park_create", "park_claim", "park_unwind", "park_undo"}
        /\ Return(c)
     \/ /\ toolCall[c].pc \in {"park_write", "park_wait", "park_release", "park_drop"}
        /\ CallAt(c, "park_unwind")
  /\ UNCHANGED <<tasks, known, parked, handed>>

\* _unwind reads the task and stops unless the session holds its lease, whichever call of
\* the session took it.
ParkUnwind(c) ==
  LET t == toolCall[c].task IN
  /\ toolCall[c].pc = "park_unwind"
  /\ IF tasks[t].lease # 0 /\ tasks[t].holder = SessionOf[c]
     THEN toolCall' = [toolCall EXCEPT ![c].pc = "park_undo", ![c].seen = tasks[t].revision,
                                       ![c].found = tasks[t].lease]
     ELSE Return(c)
  /\ UNCHANGED <<tasks, known, parked, handed>>

\* Mutant: a failed parking cancels the task it refreshed, too.
UndoOfAny(c) == "cancel"

UndoOf(c) == IF toolCall[c].reused THEN "release" ELSE "cancel"

\* ... and then cancels the task it created, or releases the one it found.
ParkUndo(c) ==
  LET t == toolCall[c].task IN
  /\ toolCall[c].pc = "park_undo"
  /\ tasks' = IF OwnsTask(SessionOf[c], t, toolCall[c].found, toolCall[c].seen)
              THEN [tasks EXCEPT ![t] = Mutated(tasks[t], UndoOf(c))] ELSE tasks
  /\ Return(c)
  /\ UNCHANGED <<known, parked, handed>>

ParkNext(c) ==
  \/ ParkSearch(c) \/ ParkCreate(c) \/ ParkClaim(c) \/ ParkClaimCancelled(c)
  \/ ParkWrite(c) \/ ParkWait(c) \/ ParkRelease(c) \/ ParkDrop(c)
  \/ ParkInterrupted(c) \/ ParkUnwind(c) \/ ParkUndo(c)

ToolNext(c) ==
  \/ \E t \in TaskIds, op \in LeasedOps \cup {"claim"} : GuardTool(c, t, op) \/ CallTool(c, t, op)
  \/ ReadForTool(c)
  \/ ApplyTool(c)
  \/ SyncLease(c)
  \/ LoseSync(c)

-------------------------------------------------------------------------------
TaskInit ==
  /\ tasks = [t \in TaskIds |-> AbsentTask]
  /\ known = [a \in Agents |-> [t \in TaskIds |-> 0]]
  /\ toolCall = [c \in ToolCalls |-> IdleCall]
  /\ parked = {}
  /\ handed = [t \in TaskIds |-> NotHanded]

TaskNext ==
  \/ \E t \in TaskIds : CreateTask(t) \/ ReopenTask(t) \/ LapseTask(t)
  \/ \E c \in ToolCalls : ToolNext(c) \/ ParkNext(c)
  \/ \E a \in Agents : CloseAgent(a) \/ CrashAgent(a)

TaskSpec == TaskInit /\ [][TaskNext]_taskVars

-------------------------------------------------------------------------------
(* Properties *)

\* The baton is respected, as far as the code can: the guard's look at the task, the tool's
\* own and its mutation are three transactions, and calls of one response run beside each
\* other (state_guard.py, agent/loop.py).  A call of an unattended run changes a task that
\* is the user's or waits for the user only if, after the guard looked, another call of the
\* same session handed it over under the very lease this call uses.  A claim never does,
\* and nothing another session does in between lets a change through.
BatonRespected ==
  [][\A c \in ToolCalls :
       LET t == toolCall[c].task IN
       /\ SessionOf[c] \in Unattended
       /\ toolCall[c].pc = "tool" /\ toolCall'[c].pc = "sync"
       /\ BatonElsewhere(t)
       => /\ toolCall[c].op # "claim"
          /\ handed[t].lease = toolCall[c].lease
          /\ handed[t].revision > toolCall[c].looked]_taskVars

\* A failed parking never takes a delivered review away by its own lease: the unwinding of
\* a parking cancels a task that some parking left waiting for the user only if its session
\* holds the task under a lease that another of its calls took, whoever created the task
\* and whatever leases ran out in between (_unwind, "A reused task always survives").
DeliveredReviewSurvives ==
  [][\A c \in ToolCalls :
       LET t == toolCall[c].task IN
       /\ toolCall[c].pc = "park_undo" /\ t \in parked
       /\ tasks[t].status # "cancelled" /\ tasks'[t].status = "cancelled"
       /\ toolCall'[c] # toolCall[c]
       => ~toolCall[c].reused /\ toolCall[c].found # toolCall[c].lease]_taskVars

===============================================================================
