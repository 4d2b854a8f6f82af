-------------------------- MODULE DurableTasksProofs --------------------------
(***************************************************************************)
(* Proofs about DurableTasks, for every set of tasks, sessions and         *)
(* concurrent tool calls and any number of claims and mutations.           *)
(***************************************************************************)
EXTENDS DurableTasks, TLAPS

\* The types of a task's row, of a tool call and of the last hand-over of a task.
TaskRow ==
  [status : ActiveStatuses \cup {"absent", "completed", "cancelled"},
   mode : {"agent", "joint", "user"}, onUser : BOOLEAN, tag : BOOLEAN, revision : Nat,
   epoch : Nat, lease : Nat, holder : Agents \cup {"none"}, lapsed : BOOLEAN]

ParkPCs == {"park_write", "park_wait", "park_release", "park_drop", "park_unwind", "park_undo"}

CallRow ==
  [pc : {"idle", "guarded", "tool", "sync", "park_create", "park_claim"} \cup ParkPCs,
   task : TaskIds \cup {NoTask}, op : LeasedOps \cup {"claim", "none"}, looked : Nat, seen : Nat,
   lease : Nat, found : Nat, reused : BOOLEAN]

HandOver == [lease : Nat, revision : Nat]

\* A row of the table: leases are epochs that have been drawn, a task that exists has a
\* revision, one that does not has nothing.
GoodTask(row) ==
  /\ row \in TaskRow
  /\ row.lease <= row.epoch
  /\ row.status # "absent" => row.revision >= 1
  /\ row.status = "absent" => row.revision = 0 /\ row.epoch = 0

Table ==
  /\ tasks \in [TaskIds -> TaskRow]
  /\ \A t \in TaskIds : GoodTask(tasks[t])
  /\ \A t \in TaskIds : t \in parked => tasks[t].revision >= 2
  /\ known \in [Agents -> [TaskIds -> Nat]]
  /\ toolCall \in [ToolCalls -> CallRow]
  /\ handed \in [TaskIds -> HandOver]

Baton(row) == row.mode = "user" \/ (row.mode = "joint" /\ row.onUser)

\* If the lease is that of the row and the user has the baton, the user got it under it.
Trusted(row, hand, lease) ==
  lease # 0 /\ lease = row.lease /\ Baton(row) => hand.lease = lease

\* Since the guard looked at its revision, without the user's baton, the user has got the
\* baton by a hand-over only.
Looked(row, hand, looked) ==
  /\ looked # 0 /\ looked <= row.revision
  /\ Baton(row) => hand.revision > looked /\ row.revision > looked

\* What a session knows of a lease.
KnownInv(a, t) ==
  /\ known[a][t] <= tasks[t].epoch
  /\ a \in Unattended => Trusted(tasks[t], handed[t], known[a][t])

\* The call of an unattended session, from its guard until the session learns the lease.
GuardedInv(call, row, hand) ==
  /\ call.pc \in {"guarded", "tool"} => Looked(row, hand, call.looked)
  /\ call.pc \in {"tool", "sync"} => Trusted(row, hand, call.lease)
  /\ call.pc = "tool" /\ call.op = "claim" => call.seen = call.looked

\* A parking has a lease; if it created its task and the task is delivered, it lost it.
ParkingInv(call, row, delivered) ==
  /\ call.lease # 0
  /\ ~call.reused /\ delivered => row.lease # call.lease

\* Where a call stands.
CallInv(c) ==
  LET call == toolCall[c]
      t == call.task
  IN /\ call.pc \notin {"idle", "park_create"} =>
          t \in TaskIds /\ tasks[t].status # "absent" /\ call.lease <= tasks[t].epoch
     /\ call.pc = "guarded" => SessionOf[c] \in Unattended
     /\ call.pc \in {"guarded", "tool"} => call.op # "none"
     /\ SessionOf[c] \in Unattended /\ call.pc \in {"guarded", "tool", "sync"} =>
          GuardedInv(call, tasks[t], handed[t])
     /\ call.pc = "park_claim" /\ ~call.reused => call.seen = 1
     /\ call.pc \in ParkPCs => ParkingInv(call, tasks[t], t \in parked)

\* The inductive invariant.
TaskInv ==
  /\ Table
  /\ \A a \in Agents, t \in TaskIds : KnownInv(a, t)
  /\ \A c \in ToolCalls : CallInv(c)

-------------------------------------------------------------------------------
(* What a step makes of one row *)

\* The row moves from old to new, and its last hand-over from hand to hand2: a lease is kept
\* or freshly drawn, and the user gets the baton by a hand-over under the row's lease.
Moves(old, new, hand, hand2) ==
  /\ GoodTask(new)
  /\ new.revision >= old.revision
  /\ new.epoch >= old.epoch
  /\ new.revision = old.revision => new.mode = old.mode /\ new.onUser = old.onUser
  /\ old.status # "absent" => new.status # "absent"
  /\ new.lease \in {0, old.lease} \/ new.lease > old.epoch
  /\ \/ hand2.lease = new.lease /\ hand2.revision > old.revision
     \/ hand2 = hand /\ (old.status # "absent" /\ Baton(new) => Baton(old))

\* A row that is not written moves.
LEMMA Unwritten ==
  ASSUME NEW row, GoodTask(row), NEW hand PROVE Moves(row, row, hand, hand)
  BY DEF Moves, GoodTask, TaskRow

\* What holds of a lease drawn before keeps holding.
LEMMA TrustKept ==
  ASSUME NEW old, NEW new, NEW hand, NEW hand2, GoodTask(old), Moves(old, new, hand, hand2),
         NEW lease \in Nat, lease <= old.epoch
  PROVE  /\ lease <= new.epoch
         /\ Trusted(old, hand, lease) => Trusted(new, hand2, lease)
<1>1. old \in TaskRow /\ new \in TaskRow /\ old.epoch \in Nat /\ new.epoch \in Nat /\ new.lease \in Nat
  BY DEF Moves, GoodTask, TaskRow
<1>2. lease <= new.epoch
  BY <1>1 DEF Moves
<1>3. ASSUME Trusted(old, hand, lease), lease # 0, lease = new.lease, Baton(new)
      PROVE  hand2.lease = lease
  <2>1. lease = old.lease /\ old.status # "absent"
    BY <1>1, <1>3 DEF Moves, GoodTask
  <2> QED
    BY <1>3, <2>1 DEF Moves, Trusted
<1> QED
  BY <1>2, <1>3 DEF Trusted

\* And so does what a guard has seen.
LEMMA LookKept ==
  ASSUME NEW old, NEW new, NEW hand \in HandOver, NEW hand2 \in HandOver, GoodTask(old),
         Moves(old, new, hand, hand2), NEW looked \in Nat, old.status # "absent",
         Looked(old, hand, looked)
  PROVE  Looked(new, hand2, looked)
<1>1. /\ old.revision \in Nat /\ new.revision \in Nat /\ hand.revision \in Nat
      /\ hand2.revision \in Nat
  BY DEF Moves, GoodTask, TaskRow, HandOver
<1>2. looked <= new.revision
  BY <1>1 DEF Moves, Looked
<1>3. ASSUME Baton(new) PROVE hand2.revision > looked /\ new.revision > looked
  <2>1. CASE Baton(old)
    BY <1>1, <2>1 DEF Moves, Looked
  <2>2. CASE ~Baton(old)
    <3>1. hand2.revision > old.revision
      BY <1>3, <2>2 DEF Moves
    <3>2. new.revision # old.revision
      BY <1>3, <2>2 DEF Moves, Baton
    <3> QED
      BY <1>1, <3>1, <3>2 DEF Moves, Looked
  <2> QED
    BY <2>1, <2>2
<1> QED
  BY <1>2, <1>3 DEF Looked

\* The single updates of a row keep its type.
LEMMA RowUpdates ==
  ASSUME NEW row \in TaskRow
  PROVE  /\ Bumped(row) \in TaskRow /\ row.revision \in Nat /\ row.epoch \in Nat
         /\ Unleased(row) \in TaskRow
         /\ [row EXCEPT !.tag = FALSE] \in TaskRow
         /\ \A status \in ActiveStatuses \cup {"completed", "cancelled"}, onUser \in BOOLEAN :
              [row EXCEPT !.status = status, !.onUser = onUser] \in TaskRow
<1>1. row.revision \in Nat /\ row.epoch \in Nat /\ row.revision + 1 \in Nat
  BY DEF TaskRow
<1>2. Bumped(row) \in TaskRow
  BY <1>1 DEF Bumped, TaskRow
<1>3. 0 \in Nat
  OBVIOUS
<1>4. Unleased(row) \in TaskRow
  BY <1>3 DEF Unleased, TaskRow
<1>5. [row EXCEPT !.tag = FALSE] \in TaskRow
  BY DEF TaskRow
<1>6. \A status \in ActiveStatuses \cup {"completed", "cancelled"}, onUser \in BOOLEAN :
         [row EXCEPT !.status = status, !.onUser = onUser] \in TaskRow
  <2> SUFFICES ASSUME NEW status \in ActiveStatuses \cup {"completed", "cancelled"},
                      NEW onUser \in BOOLEAN
               PROVE  [row EXCEPT !.status = status, !.onUser = onUser] \in TaskRow
    OBVIOUS
  <2>1. status \in ActiveStatuses \cup {"absent", "completed", "cancelled"}
    OBVIOUS
  <2> QED
    BY <2>1 DEF TaskRow
<1> QED
  BY <1>1, <1>2, <1>4, <1>5, <1>6

\* A task is created in an absent row.
LEMMA NewMoves ==
  ASSUME NEW row, GoodTask(row), row.status = "absent", NEW hand,
         NEW mode \in {"agent", "joint", "user"}, NEW tag \in BOOLEAN
  PROVE  /\ Moves(row, NewTask(mode, tag), hand, hand)
         /\ NewTask(mode, tag).status = "open" /\ NewTask(mode, tag).revision = 1
<1> DEFINE new == NewTask(mode, tag)
<1>1. new.status = "open" /\ new.revision = 1 /\ new.lease = 0 /\ new.epoch = 0
  BY DEF NewTask, AbsentTask
<1>2. new \in TaskRow
  BY DEF NewTask, AbsentTask, TaskRow, ActiveStatuses
<1>3. row.revision = 0 /\ row.epoch = 0
  BY DEF GoodTask
<1> QED
  BY <1>1, <1>2, <1>3 DEF Moves, GoodTask

\* A claim draws a lease.
LEMMA ClaimMoves ==
  ASSUME Table, NEW a \in Agents, NEW t \in TaskIds, tasks[t].status \in ActiveStatuses
  PROVE  /\ Moves(tasks[t], ClaimedTask(a, t), handed[t], handed[t])
         /\ ClaimedTask(a, t).status # "absent"
         /\ ClaimedTask(a, t).lease = tasks[t].epoch + 1
         /\ ClaimedTask(a, t).epoch = tasks[t].epoch + 1
         /\ Baton(ClaimedTask(a, t)) => Baton(tasks[t])
<1> DEFINE new == ClaimedTask(a, t)
<1>0. /\ tasks[t] \in TaskRow /\ GoodTask(tasks[t]) /\ tasks[t].revision \in Nat
      /\ tasks[t].epoch \in Nat
  BY DEF Table, TaskRow
<1>1. /\ new.status \in ActiveStatuses /\ new.revision = tasks[t].revision + 1
      /\ new.lease = tasks[t].epoch + 1 /\ new.epoch = tasks[t].epoch + 1
  BY <1>0 DEF ClaimedTask, Bumped, TaskRow, ActiveStatuses
<1>2. new.mode = tasks[t].mode /\ new.onUser = tasks[t].onUser
  BY <1>0 DEF ClaimedTask, Bumped, TaskRow
<1>3. new \in TaskRow
  <2> DEFINE begun == IF Bumped(tasks[t]).status = "open" THEN "in_progress" ELSE Bumped(tasks[t]).status
             e == tasks[t].epoch + 1
             claimed == [Bumped(tasks[t]) EXCEPT !.status = begun, !.epoch = e, !.lease = e]
  <2>1. Bumped(tasks[t]) \in TaskRow
    BY <1>0, RowUpdates
  <2>2. e \in Nat /\ Bumped(tasks[t]).epoch + 1 = e
    BY <1>0 DEF TaskRow, Bumped
  <2>3. begun \in ActiveStatuses \cup {"absent", "completed", "cancelled"}
    BY <2>1 DEF TaskRow, ActiveStatuses
  <2> HIDE DEF begun, e
  <2>4. claimed \in TaskRow
    BY <2>1, <2>2, <2>3 DEF TaskRow
  <2>5. new = [claimed EXCEPT !.holder = a, !.lapsed = FALSE]
    BY <2>1, <2>2 DEF ClaimedTask, TaskRow, begun, e
  <2>6. a \in Agents \cup {"none"}
    OBVIOUS
  <2> HIDE DEF claimed, new
  <2> QED
    BY <2>4, <2>5, <2>6 DEF TaskRow
<1>4. Baton(new) => Baton(tasks[t])
  BY <1>2 DEF Baton
<1>5. GoodTask(new)
  BY <1>0, <1>1, <1>3 DEF GoodTask, ActiveStatuses
<1> HIDE DEF new
<1>6. Moves(tasks[t], new, handed[t], handed[t])
  BY <1>0, <1>1, <1>2, <1>4, <1>5 DEF Moves, GoodTask, ActiveStatuses
<1> QED
  BY <1>1, <1>4, <1>6 DEF new, ActiveStatuses

\* A mutation keeps the lease or ends it.
LEMMA Advances ==
  ASSUME NEW row, NEW new, GoodTask(row), row.status # "absent", NEW hand, NEW hand2,
         new \in TaskRow, new.status # "absent", new.revision = row.revision + 1,
         new.epoch = row.epoch, new.lease \in {0, row.lease}, new.mode = row.mode,
         \/ hand2 = hand /\ (new.onUser => row.onUser)
         \/ hand2.lease = new.lease /\ hand2.revision > row.revision
  PROVE  Moves(row, new, hand, hand2)
<1>1. /\ row \in TaskRow /\ row.revision \in Nat /\ row.epoch \in Nat /\ row.lease \in Nat
      /\ row.lease <= row.epoch
  BY DEF GoodTask, TaskRow
<1>2. GoodTask(new)
  BY <1>1 DEF GoodTask
<1>3. hand2 = hand /\ (new.onUser => row.onUser) => (Baton(new) => Baton(row))
  BY DEF Baton
<1> QED
  BY <1>1, <1>2, <1>3 DEF Moves

\* The release of a lease.
LEMMA ReleaseMoves ==
  ASSUME NEW row, GoodTask(row), row.status # "absent", NEW hand
  PROVE  /\ Unleased(Bumped(row)).status = row.status
         /\ Unleased(Bumped(row)).lease = 0
         /\ Unleased(Bumped(row)).revision = row.revision + 1
         /\ Moves(row, Unleased(Bumped(row)), hand, hand)
<1> DEFINE new == Unleased(Bumped(row))
<1>1. /\ new.status = row.status /\ new.lease = 0 /\ new.revision = row.revision + 1
      /\ new.epoch = row.epoch /\ new.mode = row.mode
  BY DEF Unleased, Bumped, GoodTask, TaskRow
<1>2. new.onUser = row.onUser
  BY DEF Unleased, Bumped, GoodTask, TaskRow
<1>3. new \in TaskRow
  BY RowUpdates DEF GoodTask
<1> QED
  BY <1>1, <1>2, <1>3, Advances

\* Every mutation under a lease; only the hand-over to the user gives the user the baton.
LEMMA MutationMoves ==
  ASSUME NEW row, GoodTask(row), row.status # "absent", NEW op \in LeasedOps, NEW hand, NEW hand2,
         hand2 = IF op = "ask_user" THEN [lease |-> row.lease, revision |-> row.revision + 1]
                 ELSE hand
  PROVE  /\ Moves(row, Mutated(row, op), hand, hand2)
         /\ Mutated(row, op).lease \in {0, row.lease}
         /\ op # "cancel" /\ Mutated(row, op).status = "cancelled" => row.status = "cancelled"
<1>0. /\ row \in TaskRow /\ row.revision \in Nat
  BY DEF GoodTask, TaskRow
<1>1. CASE op \in {"renew", "write"}
  <2> DEFINE new == Bumped(row)
  <2>1. Mutated(row, op) = new /\ hand2 = hand
    BY <1>1 DEF Mutated, Renewed, ArtifactRecorded
  <2>2. /\ new.status = row.status /\ new.revision = row.revision + 1
        /\ new.epoch = row.epoch /\ new.lease = row.lease /\ new.mode = row.mode
    BY <1>0 DEF Bumped, TaskRow
  <2>3. new.onUser = row.onUser
    BY <1>0 DEF Bumped, TaskRow
  <2>4. new \in TaskRow
    BY <1>0, RowUpdates
  <2> QED
    BY <1>0, <2>1, <2>2, <2>3, <2>4, Advances
<1>2. CASE op \in {"progress", "wait", "ask_user", "block"}
  <2>1. PICK status \in ActiveStatuses, onUser \in BOOLEAN :
          /\ Mutated(row, op) = Transitioned(row, status, onUser)
          /\ onUser => op = "ask_user"
    BY <1>2 DEF Mutated, ActiveStatuses
  <2> DEFINE new == Transitioned(row, status, onUser)
  <2>2. /\ new.status = status /\ new.revision = row.revision + 1
        /\ new.epoch = row.epoch /\ new.lease = row.lease /\ new.mode = row.mode
    BY <1>0 DEF Transitioned, Bumped, TaskRow
  <2>3. new.onUser => op = "ask_user"
    BY <1>0, <2>1 DEF Transitioned, Bumped, TaskRow
  <2>4. new \in TaskRow
    BY <1>0, RowUpdates DEF Transitioned
  <2>5. \/ hand2 = hand /\ (new.onUser => row.onUser)
        \/ hand2.lease = new.lease /\ hand2.revision > row.revision
    <3>1. CASE op = "ask_user"
      BY <1>0, <2>2, <3>1
    <3>2. CASE op # "ask_user"
      BY <2>3, <3>2
    <3> QED
      BY <3>1, <3>2
  <2>6. new.status # "absent" /\ new.status # "cancelled"
    BY <2>2 DEF ActiveStatuses
  <2> HIDE DEF new
  <2>7. Moves(row, new, hand, hand2)
    BY <1>0, <2>2, <2>4, <2>5, <2>6, Advances
  <2> QED
    BY <2>1, <2>2, <2>6, <2>7 DEF new
<1>3. CASE op \in {"complete", "cancel"}
  <2>1. PICK status \in {"completed", "cancelled"} :
          /\ Mutated(row, op) = Closed(row, status)
          /\ op # "cancel" => status = "completed"
    BY <1>3 DEF Mutated
  <2> DEFINE new == Closed(row, status)
  <2>2. /\ new.status = status /\ new.lease = 0 /\ new.revision = row.revision + 1
        /\ new.epoch = row.epoch /\ new.mode = row.mode /\ hand2 = hand
    BY <1>0, <1>3 DEF Closed, Unleased, Bumped, TaskRow
  <2>3. new.onUser = FALSE
    BY <1>0 DEF Closed, Unleased, Bumped, TaskRow
  <2>4. new \in TaskRow
    BY <1>0, RowUpdates DEF Closed
  <2> QED
    BY <1>0, <2>1, <2>2, <2>3, <2>4, Advances
<1>4. CASE op = "release"
  BY <1>0, <1>4, ReleaseMoves DEF Mutated, Released
<1>5. CASE op = "untag"
  <2>1. CASE ~row.tag
    BY <1>5, <2>1, Unwritten DEF Mutated, Untagged
  <2>2. CASE row.tag
    <3> DEFINE new == [Bumped(row) EXCEPT !.tag = FALSE]
    <3>1. Mutated(row, op) = new /\ hand2 = hand
      BY <1>5, <2>2 DEF Mutated, Untagged
    <3>2. /\ new.status = row.status /\ new.revision = row.revision + 1
          /\ new.epoch = row.epoch /\ new.lease = row.lease /\ new.mode = row.mode
      BY <1>0 DEF Bumped, TaskRow
    <3>3. new.onUser = row.onUser
      BY <1>0 DEF Bumped, TaskRow
    <3>4. new \in TaskRow
      BY <1>0, RowUpdates
    <3> QED
      BY <1>0, <3>1, <3>2, <3>3, <3>4, Advances
  <2> QED
    BY <2>1, <2>2
<1> QED
  BY <1>1, <1>2, <1>3, <1>4, <1>5 DEF LeasedOps

-------------------------------------------------------------------------------
(* What a step makes of the invariant *)

\* A step of the calls B: it is enough to look at the rows, at those calls and at what
\* sessions newly know.
LEMMA StepKeeps ==
  ASSUME TaskInv, NEW B \in SUBSET ToolCalls,
         tasks' \in [TaskIds -> TaskRow], known' \in [Agents -> [TaskIds -> Nat]],
         toolCall' \in [ToolCalls -> CallRow], handed' \in [TaskIds -> HandOver],
         \A t \in TaskIds : Moves(tasks[t], tasks'[t], handed[t], handed'[t]),
         \A t \in TaskIds : t \in parked' =>
           t \in parked \/ (tasks'[t].lease = 0 /\ tasks'[t].revision >= 2),
         \A a \in Agents, t \in TaskIds : known'[a][t] = known[a][t] \/ KnownInv(a, t)',
         \A c \in ToolCalls : c \notin B => toolCall'[c] = toolCall[c],
         \A c \in B : CallInv(c)'
  PROVE  TaskInv'
<1>1. \A t \in TaskIds : /\ GoodTask(tasks[t]) /\ GoodTask(tasks'[t])
                         /\ tasks[t].revision \in Nat /\ tasks'[t].revision \in Nat
                         /\ tasks[t].epoch \in Nat
  BY DEF TaskInv, Table, TaskRow, Moves
<1>2. \A t \in TaskIds : t \in parked' => tasks'[t].revision >= 2
  BY <1>1 DEF TaskInv, Table, Moves
<1>3. Table'
  BY <1>1, <1>2 DEF Table
<1>4. ASSUME NEW a \in Agents, NEW t \in TaskIds PROVE KnownInv(a, t)'
  <2> SUFFICES ASSUME known'[a][t] = known[a][t] PROVE KnownInv(a, t)'
    OBVIOUS
  <2>1. known[a][t] \in Nat /\ KnownInv(a, t)
    BY <1>4 DEF TaskInv, Table
  <2>2. /\ known[a][t] <= tasks'[t].epoch
        /\ Trusted(tasks[t], handed[t], known[a][t]) =>
             Trusted(tasks'[t], handed'[t], known[a][t])
    BY <1>1, <2>1, TrustKept DEF KnownInv
  <2> QED
    BY <2>1, <2>2 DEF KnownInv
<1>5. ASSUME NEW c \in ToolCalls, c \notin B PROVE CallInv(c)'
  <2> DEFINE call == toolCall[c]
             t == call.task
  <2>1. CallInv(c) /\ toolCall'[c] = call /\ call \in CallRow
    BY <1>5 DEF TaskInv, Table
  <2>2. CASE call.pc \in {"idle", "park_create"}
    BY <2>1, <2>2 DEF CallInv, ParkPCs
  <2>3. CASE call.pc \notin {"idle", "park_create"}
    <3>1. /\ t \in TaskIds /\ tasks[t].status # "absent" /\ call.lease <= tasks[t].epoch
          /\ call.lease \in Nat /\ call.looked \in Nat
      BY <2>1, <2>3 DEF CallInv, CallRow
    <3>2. Moves(tasks[t], tasks'[t], handed[t], handed'[t])
      BY <3>1
    <3>3. handed[t] \in HandOver /\ handed'[t] \in HandOver
      BY <3>1 DEF TaskInv, Table
    <3>4. tasks'[t].status # "absent"
      BY <3>1, <3>2 DEF Moves
    <3>5. /\ call.lease <= tasks'[t].epoch
          /\ Trusted(tasks[t], handed[t], call.lease) => Trusted(tasks'[t], handed'[t], call.lease)
      BY <1>1, <3>1, <3>2, TrustKept
    <3>6. Looked(tasks[t], handed[t], call.looked) => Looked(tasks'[t], handed'[t], call.looked)
      BY <1>1, <3>1, <3>2, <3>3, LookKept
    <3>7. GuardedInv(call, tasks[t], handed[t]) => GuardedInv(call, tasks'[t], handed'[t])
      BY <3>5, <3>6 DEF GuardedInv
    <3>8. ParkingInv(call, tasks[t], t \in parked) => ParkingInv(call, tasks'[t], t \in parked')
      <4> SUFFICES ASSUME call.lease # 0, ~call.reused, t \in parked',
                          t \in parked => tasks[t].lease # call.lease
                   PROVE  tasks'[t].lease # call.lease
        BY DEF ParkingInv
      <4>1. CASE t \in parked
        <5>1. tasks'[t].lease \in {0, tasks[t].lease} \/ tasks'[t].lease > tasks[t].epoch
          BY <3>2 DEF Moves
        <5> QED
          BY <1>1, <3>1, <4>1, <5>1
      <4>2. CASE t \notin parked
        BY <3>1, <4>2
      <4> QED
        BY <4>1, <4>2
    <3> QED
      BY <2>1, <3>1, <3>4, <3>5, <3>7, <3>8 DEF CallInv
  <2> QED
    BY <2>2, <2>3
<1> QED
  BY <1>3, <1>4, <1>5 DEF TaskInv

\* No row is written.
LEMMA NoRow ==
  ASSUME TaskInv, tasks' = tasks, handed' = handed
  PROVE  /\ tasks' \in [TaskIds -> TaskRow] /\ handed' \in [TaskIds -> HandOver]
         /\ \A t \in TaskIds : Moves(tasks[t], tasks'[t], handed[t], handed'[t])
  BY Unwritten DEF TaskInv, Table

\* One row is written, and perhaps its last hand-over.
LEMMA OneRow ==
  ASSUME TaskInv, NEW t \in TaskIds, NEW row, NEW hand \in HandOver,
         tasks' = [tasks EXCEPT ![t] = row], handed' = [handed EXCEPT ![t] = hand],
         Moves(tasks[t], row, handed[t], hand)
  PROVE  /\ tasks' \in [TaskIds -> TaskRow] /\ handed' \in [TaskIds -> HandOver]
         /\ tasks'[t] = row /\ handed'[t] = hand
         /\ \A z \in TaskIds : Moves(tasks[z], tasks'[z], handed[z], handed'[z])
<1>1. /\ row \in TaskRow /\ tasks \in [TaskIds -> TaskRow] /\ handed \in [TaskIds -> HandOver]
  BY DEF Moves, GoodTask, TaskInv, Table
<1>2. /\ tasks'[t] = row /\ \A z \in TaskIds : z # t => tasks'[z] = tasks[z]
      /\ handed'[t] = hand /\ \A z \in TaskIds : z # t => handed'[z] = handed[z]
  BY <1>1
<1>3. \A z \in TaskIds : Moves(tasks[z], tasks[z], handed[z], handed[z])
  BY Unwritten DEF TaskInv, Table
<1> QED
  BY <1>1, <1>2, <1>3

\* A hand-over that is not written is written as it is.
LEMMA SameHand ==
  ASSUME TaskInv, NEW t \in TaskIds, handed' = handed
  PROVE  handed[t] \in HandOver /\ handed' = [handed EXCEPT ![t] = handed[t]]
  BY DEF TaskInv, Table

\* One call moves on.
LEMMA OneCall ==
  ASSUME TaskInv, NEW c \in ToolCalls, NEW row \in CallRow, toolCall' = [toolCall EXCEPT ![c] = row]
  PROVE  /\ toolCall' \in [ToolCalls -> CallRow] /\ toolCall'[c] = row
         /\ \A d \in ToolCalls : d \notin {c} => toolCall'[d] = toolCall[d]
  BY DEF TaskInv, Table

\* A call ends.
LEMMA Returned ==
  ASSUME TaskInv, NEW c \in ToolCalls, Return(c)
  PROVE  /\ toolCall' \in [ToolCalls -> CallRow] /\ CallInv(c)'
         /\ \A d \in ToolCalls : d \notin {c} => toolCall'[d] = toolCall[d]
<1>1. IdleCall \in CallRow /\ IdleCall.pc = "idle"
  BY DEF IdleCall, CallRow
<1>2. toolCall' = [toolCall EXCEPT ![c] = IdleCall]
  BY DEF Return
<1>3. /\ toolCall' \in [ToolCalls -> CallRow] /\ toolCall'[c] = IdleCall
      /\ \A d \in ToolCalls : d \notin {c} => toolCall'[d] = toolCall[d]
  BY <1>1, <1>2, OneCall
<1> QED
  BY <1>1, <1>3 DEF CallInv, ParkPCs

\* A step of one call that parks no task and tells its session nothing.
LEMMA CallStepKeeps ==
  ASSUME TaskInv, NEW c \in ToolCalls,
         tasks' \in [TaskIds -> TaskRow], handed' \in [TaskIds -> HandOver],
         toolCall' \in [ToolCalls -> CallRow], UNCHANGED <<known, parked>>,
         \A t \in TaskIds : Moves(tasks[t], tasks'[t], handed[t], handed'[t]),
         \A d \in ToolCalls : d \notin {c} => toolCall'[d] = toolCall[d],
         CallInv(c)'
  PROVE  TaskInv'
<1>1. /\ {c} \in SUBSET ToolCalls /\ \A d \in {c} : CallInv(d)'
      /\ known' \in [Agents -> [TaskIds -> Nat]]
      /\ \A a \in Agents, t \in TaskIds : known'[a][t] = known[a][t]
      /\ \A t \in TaskIds : t \in parked' => t \in parked
  BY DEF TaskInv, Table
<1> QED
  BY <1>1, StepKeeps

\* A step that only moves one call on.
LEMMA CallOnly ==
  ASSUME TaskInv, NEW c \in ToolCalls, NEW row \in CallRow,
         toolCall' = [toolCall EXCEPT ![c] = row], UNCHANGED <<tasks, known, parked, handed>>,
         CallInv(c)'
  PROVE  TaskInv'
  BY NoRow, OneCall, CallStepKeeps

\* A step in which a call writes one row and ends.
LEMMA RowAndReturn ==
  ASSUME TaskInv, NEW c \in ToolCalls, NEW t \in TaskIds, NEW row,
         tasks' = [tasks EXCEPT ![t] = row], Return(c), UNCHANGED <<known, parked, handed>>,
         Moves(tasks[t], row, handed[t], handed[t])
  PROVE  TaskInv'
  BY SameHand, OneRow, Returned, CallStepKeeps

\* A step in which a call just ends.
LEMMA OnlyReturns ==
  ASSUME TaskInv, NEW c \in ToolCalls, Return(c), UNCHANGED <<tasks, known, parked, handed>>
  PROVE  TaskInv'
  BY NoRow, Returned, CallStepKeeps

-------------------------------------------------------------------------------
(* The steps *)

\* A task is created or reopened, or its lease lapses.
LEMMA TaskStepKeeps ==
  ASSUME TaskInv, NEW t \in TaskIds, CreateTask(t) \/ ReopenTask(t) \/ LapseTask(t)
  PROVE  TaskInv'
<1>0. tasks[t] \in TaskRow /\ GoodTask(tasks[t])
  BY DEF TaskInv, Table
<1>1. PICK row : tasks' = [tasks EXCEPT ![t] = row] /\ Moves(tasks[t], row, handed[t], handed[t])
  <2>1. CASE CreateTask(t)
    BY <1>0, <2>1, NewMoves, TaskAssumption DEF CreateTask
  <2>2. CASE ReopenTask(t)
    <3> DEFINE bumped == [Bumped(tasks[t]) EXCEPT !.status = "open", !.onUser = FALSE]
               row == Unleased(bumped)
    <3>1. bumped \in TaskRow
      BY <1>0, RowUpdates DEF ActiveStatuses
    <3>2. row \in TaskRow
      BY <3>1, RowUpdates
    <3>3. /\ row.status = "open" /\ row.lease = 0 /\ row.revision = tasks[t].revision + 1
          /\ row.epoch = tasks[t].epoch /\ row.mode = tasks[t].mode
      BY <1>0 DEF Unleased, Bumped, TaskRow
    <3>4. row.onUser = FALSE
      BY <1>0 DEF Unleased, Bumped, TaskRow
    <3>5. tasks[t].status # "absent"
      BY <2>2 DEF ReopenTask
    <3>6. Moves(tasks[t], row, handed[t], handed[t])
      BY <1>0, <3>2, <3>3, <3>4, <3>5, Advances
    <3> QED
      BY <2>2, <3>6 DEF ReopenTask
  <2>3. CASE LapseTask(t)
    <3> DEFINE row == [tasks[t] EXCEPT !.lapsed = TRUE]
    <3>1. row \in TaskRow
      BY <1>0 DEF TaskRow
    <3>2. /\ row.status = tasks[t].status /\ row.revision = tasks[t].revision
          /\ row.epoch = tasks[t].epoch /\ row.lease = tasks[t].lease
          /\ row.mode = tasks[t].mode /\ tasks[t].revision \in Nat /\ tasks[t].epoch \in Nat
      BY <1>0 DEF TaskRow
    <3>3. row.onUser = tasks[t].onUser
      BY <1>0 DEF TaskRow
    <3>4. Moves(tasks[t], row, handed[t], handed[t])
      BY <1>0, <3>1, <3>2, <3>3 DEF Moves, GoodTask, Baton
    <3> QED
      BY <2>3, <3>4 DEF LapseTask
  <2> QED
    BY <2>1, <2>2, <2>3
<1>2. UNCHANGED <<known, toolCall, parked, handed>>
  BY DEF CreateTask, ReopenTask, LapseTask
<1>3. /\ tasks' \in [TaskIds -> TaskRow] /\ handed' \in [TaskIds -> HandOver]
      /\ \A z \in TaskIds : Moves(tasks[z], tasks'[z], handed[z], handed'[z])
  BY <1>1, <1>2, SameHand, OneRow
<1>4. /\ known' \in [Agents -> [TaskIds -> Nat]] /\ toolCall' \in [ToolCalls -> CallRow]
      /\ \A a \in Agents, z \in TaskIds : known'[a][z] = known[a][z]
      /\ \A z \in TaskIds : z \in parked' => z \in parked
      /\ \A c \in ToolCalls : c \notin {} => toolCall'[c] = toolCall[c]
  BY <1>2 DEF TaskInv, Table
<1>5. {} \in SUBSET ToolCalls /\ \A c \in {} : CallInv(c)'
  OBVIOUS
<1> QED
  BY <1>3, <1>4, <1>5, StepKeeps

\* A session that knows no lease knows nothing wrong.
LEMMA Forgotten ==
  ASSUME \A t \in TaskIds : GoodTask(tasks'[t]), NEW a \in Agents, NEW t \in TaskIds,
         known'[a][t] = 0
  PROVE  KnownInv(a, t)'
  BY DEF KnownInv, Trusted, GoodTask, TaskRow

\* A session closes, or its process dies.
LEMMA EndKeeps ==
  ASSUME TaskInv, NEW a \in Agents, CloseAgent(a) \/ CrashAgent(a)
  PROVE  TaskInv'
<1>0. known \in [Agents -> [TaskIds -> Nat]] /\ UNCHANGED <<parked, handed>>
  BY DEF TaskInv, Table, CloseAgent, CrashAgent
<1>1. /\ \A t \in TaskIds : Moves(tasks[t], tasks'[t], handed[t], handed[t])
      /\ tasks' \in [TaskIds -> TaskRow]
  <2>1. CASE CloseAgent(a)
    <3>1. ASSUME NEW t \in TaskIds PROVE Moves(tasks[t], tasks'[t], handed[t], handed[t])
      <4>1. GoodTask(tasks[t])
        BY DEF TaskInv, Table
      <4>2. CASE LiveTaskLease(tasks[t]) /\ tasks[t].holder = a
        <5>1. tasks'[t] = Unleased(Bumped(tasks[t]))
          BY <2>1, <4>2 DEF CloseAgent
        <5>2. tasks[t].status # "absent"
          BY <4>1, <4>2 DEF GoodTask, LiveTaskLease, TaskRow
        <5> QED
          BY <4>1, <5>1, <5>2, ReleaseMoves
      <4>3. CASE ~(LiveTaskLease(tasks[t]) /\ tasks[t].holder = a)
        BY <2>1, <4>1, <4>3, Unwritten DEF CloseAgent
      <4> QED
        BY <4>2, <4>3
    <3>2. \A t \in TaskIds : tasks'[t] \in TaskRow
      BY <3>1 DEF Moves, GoodTask
    <3> QED
      BY <2>1, <3>1, <3>2 DEF CloseAgent
  <2>2. CASE CrashAgent(a)
    BY <1>0, <2>2, NoRow DEF CrashAgent
  <2> QED
    BY <2>1, <2>2
<1>2. /\ known' \in [Agents -> [TaskIds -> Nat]]
      /\ \A b \in Agents, t \in TaskIds : known'[b][t] = known[b][t] \/ known'[b][t] = 0
  BY <1>0 DEF CloseAgent, CrashAgent
<1>3. \A b \in Agents, t \in TaskIds : known'[b][t] = known[b][t] \/ KnownInv(b, t)'
  <2>1. \A t \in TaskIds : GoodTask(tasks'[t])
    BY <1>1 DEF Moves
  <2> QED
    BY <1>2, <2>1, Forgotten
<1>4. IdleCall \in CallRow /\ IdleCall.pc = "idle"
  BY DEF IdleCall, CallRow
<1>5. /\ CallsOf(a) \in SUBSET ToolCalls /\ toolCall' \in [ToolCalls -> CallRow]
      /\ \A c \in ToolCalls : c \notin CallsOf(a) => toolCall'[c] = toolCall[c]
      /\ \A c \in CallsOf(a) : toolCall'[c].pc = "idle"
  <2>1. toolCall \in [ToolCalls -> CallRow] /\ CallsOf(a) \in SUBSET ToolCalls
    BY DEF TaskInv, Table, CallsOf
  <2> QED
    BY <1>4, <2>1 DEF CloseAgent, CrashAgent
<1>6. \A c \in CallsOf(a) : CallInv(c)'
  BY <1>5 DEF CallInv, ParkPCs
<1>7. \A t \in TaskIds : Moves(tasks[t], tasks'[t], handed[t], handed'[t])
  BY <1>0, <1>1
<1>8. handed' \in [TaskIds -> HandOver] /\ \A t \in TaskIds : t \in parked' => t \in parked
  BY <1>0 DEF TaskInv, Table
<1> QED
  BY <1>1, <1>2, <1>3, <1>5, <1>6, <1>7, <1>8, StepKeeps

\* The guard, the look of the tool at its task, and the call of an attended tool.
LEMMA CallKeeps ==
  ASSUME TaskInv, NEW c \in ToolCalls,
         \/ \E t \in TaskIds, op \in LeasedOps \cup {"claim"} : GuardTool(c, t, op) \/ CallTool(c, t, op)
         \/ ReadForTool(c)
  PROVE  TaskInv'
<1> DEFINE a == SessionOf[c]
<1>0. /\ \A t \in TaskIds : /\ GoodTask(tasks[t]) /\ tasks[t].revision \in Nat
                            /\ tasks[t].epoch \in Nat
                            /\ known[a][t] \in Nat /\ KnownInv(a, t)
      /\ toolCall[c] \in CallRow /\ CallInv(c)
  BY TaskAssumption DEF TaskInv, Table, TaskRow
<1>1. ASSUME NEW t \in TaskIds, NEW op \in LeasedOps \cup {"claim"}, GuardTool(c, t, op)
      PROVE  TaskInv'
  <2> DEFINE row == [IdleCall EXCEPT !.pc = "guarded", !.task = t, !.op = op,
                                     !.looked = tasks[t].revision]
  <2>1. row \in CallRow
    BY <1>0 DEF IdleCall, CallRow
  <2>2. /\ row.pc = "guarded" /\ row.task = t /\ row.op = op /\ row.looked = tasks[t].revision
        /\ row.lease = 0 /\ row.op # "none"
    BY DEF IdleCall, LeasedOps
  <2>3. /\ toolCall' = [toolCall EXCEPT ![c] = row] /\ UNCHANGED <<tasks, known, parked, handed>>
        /\ a \in Unattended /\ tasks[t].status # "absent" /\ ~BatonElsewhere(t)
    BY <1>1 DEF GuardTool
  <2> HIDE DEF row
  <2>4. toolCall'[c] = row
    BY <2>1, <2>3, OneCall
  <2>5. Looked(tasks[t], handed[t], row.looked)
    BY <1>0, <2>2, <2>3 DEF Looked, BatonElsewhere, Baton, GoodTask
  <2>6. GuardedInv(row, tasks[t], handed[t]) /\ row.lease <= tasks[t].epoch
    BY <1>0, <2>2, <2>5 DEF GuardedInv
  <2>7. CallInv(c)'
    BY <2>2, <2>3, <2>4, <2>6 DEF CallInv, ParkPCs
  <2> QED
    BY <2>1, <2>3, <2>7, CallOnly
<1>2. ASSUME NEW t \in TaskIds, NEW op \in LeasedOps \cup {"claim"}, CallTool(c, t, op)
      PROVE  TaskInv'
  <2>0. PICK expected \in {tasks[t].revision, 0} :
          toolCall' = [toolCall EXCEPT ![c] =
            [IdleCall EXCEPT !.pc = "tool", !.task = t, !.op = op, !.seen = expected,
                             !.lease = known[a][t]]]
    BY <1>2 DEF CallTool
  <2> DEFINE row == [IdleCall EXCEPT !.pc = "tool", !.task = t, !.op = op, !.seen = expected,
                                     !.lease = known[a][t]]
  <2>1. expected \in Nat /\ known[a][t] \in Nat /\ known[a][t] <= tasks[t].epoch
    BY <1>0 DEF KnownInv
  <2>2. row \in CallRow
    BY <2>1 DEF IdleCall, CallRow
  <2>3. row.pc = "tool" /\ row.task = t /\ row.op # "none" /\ row.lease = known[a][t]
    BY DEF IdleCall, LeasedOps
  <2>4. /\ toolCall' = [toolCall EXCEPT ![c] = row] /\ UNCHANGED <<tasks, known, parked, handed>>
        /\ a \notin Unattended /\ tasks[t].status # "absent"
    BY <1>2, <2>0 DEF CallTool
  <2> HIDE DEF row
  <2>5. toolCall'[c] = row
    BY <2>2, <2>4, OneCall
  <2>6. CallInv(c)'
    BY <2>1, <2>3, <2>4, <2>5 DEF CallInv, ParkPCs
  <2> QED
    BY <2>2, <2>4, <2>6, CallOnly
<1>3. CASE ReadForTool(c)
  <2> DEFINE t == toolCall[c].task
             seen == IF toolCall[c].op = "claim" THEN toolCall[c].looked ELSE tasks[t].revision
             row == [toolCall[c] EXCEPT !.pc = "tool", !.lease = known[a][t], !.seen = seen]
  <2>1. /\ t \in TaskIds /\ tasks[t].status # "absent" /\ a \in Unattended
        /\ toolCall[c].pc = "guarded" /\ toolCall[c].op # "none"
        /\ GuardedInv(toolCall[c], tasks[t], handed[t])
        /\ UNCHANGED <<tasks, known, parked, handed>>
    BY <1>0, <1>3 DEF ReadForTool, CallInv
  <2>2. toolCall' = [toolCall EXCEPT ![c] = row]
    BY <1>0, <1>3 DEF ReadForTool, TaskInv, Table, CallRow
  <2>3. known[a][t] \in Nat /\ seen \in Nat
    BY <1>0, <2>1 DEF CallRow
  <2>4. /\ row.pc = "tool" /\ row.task = t /\ row.op = toolCall[c].op /\ row.seen = seen
        /\ row.lease = known[a][t] /\ row.looked = toolCall[c].looked
    BY <1>0 DEF CallRow
  <2>5. row \in CallRow
    BY <1>0, <2>3 DEF CallRow
  <2>6. row.op = "claim" => row.seen = row.looked
    BY <2>4
  <2> HIDE DEF row, seen
  <2>7. toolCall'[c] = row
    BY <2>2, <2>5, OneCall
  <2>8. known[a][t] <= tasks[t].epoch /\ Trusted(tasks[t], handed[t], known[a][t])
    BY <1>0, <2>1 DEF KnownInv
  <2>9. GuardedInv(row, tasks[t], handed[t])
    BY <2>1, <2>4, <2>6, <2>8 DEF GuardedInv
  <2>10. CallInv(c)'
    BY <2>1, <2>4, <2>7, <2>8, <2>9 DEF CallInv, ParkPCs
  <2> QED
    BY <2>1, <2>2, <2>5, <2>10, CallOnly
<1> QED
  BY <1>1, <1>2, <1>3

\* The holder of a live lease that the store accepts.
LEMMA Owned ==
  ASSUME TaskInv, NEW a \in Agents, NEW t \in TaskIds, NEW lease, NEW revision,
         OwnsTask(a, t, lease, revision)
  PROVE  /\ GoodTask(tasks[t]) /\ tasks[t].lease # 0 /\ tasks[t].lease = lease
         /\ tasks[t].revision = revision /\ tasks[t].status # "absent"
<1>1. GoodTask(tasks[t]) /\ tasks[t].lease # 0 /\ tasks[t].lease = lease /\ tasks[t].revision = revision
  BY DEF OwnsTask, LiveTaskLease, TaskInv, Table
<1> QED
  BY <1>1 DEF GoodTask, TaskRow

\* The last hand-over of a task that its holder hands to the user now.
LEMMA HandsNow ==
  ASSUME TaskInv, NEW t \in TaskIds, handed' = HandedNow(t)
  PROVE  LET hand == [lease |-> tasks[t].lease, revision |-> tasks[t].revision + 1]
         IN hand \in HandOver /\ handed' = [handed EXCEPT ![t] = hand]
  BY DEF TaskInv, Table, HandedNow, HandOver, TaskRow

\* What a claim writes, made by a tool.
LEMMA ToolClaims ==
  ASSUME TaskInv, NEW c \in ToolCalls, toolCall[c].pc = "tool", ToolAllowed(c),
         toolCall[c].op = "claim"
  PROVE  /\ Moves(tasks[toolCall[c].task], ToolRow(c), handed[toolCall[c].task], handed[toolCall[c].task])
         /\ SessionOf[c] \in Unattended => ~Baton(tasks[toolCall[c].task]) /\ ~Baton(ToolRow(c))
<1> DEFINE t == toolCall[c].task
           a == SessionOf[c]
<1>1. /\ t \in TaskIds /\ toolCall[c] \in CallRow /\ Table /\ a \in Agents /\ CallInv(c)
      /\ tasks[t].revision \in Nat /\ tasks[t].status \in ActiveStatuses
      /\ toolCall[c].seen # 0 => tasks[t].revision = toolCall[c].seen
  BY TaskAssumption DEF TaskInv, CallInv, Table, TaskRow, ToolAllowed, CanClaim
<1>2. ToolRow(c) = ClaimedTask(a, t)
  BY DEF ToolRow
<1>3. /\ Moves(tasks[t], ClaimedTask(a, t), handed[t], handed[t])
      /\ Baton(ClaimedTask(a, t)) => Baton(tasks[t])
  BY <1>1, ClaimMoves
<1>4. ASSUME a \in Unattended PROVE ~Baton(tasks[t])
  <2>1. toolCall[c].seen = toolCall[c].looked /\ Looked(tasks[t], handed[t], toolCall[c].looked)
    BY <1>1, <1>4 DEF CallInv, GuardedInv
  <2>2. tasks[t].revision = toolCall[c].looked
    BY <1>1, <2>1 DEF Looked
  <2> QED
    BY <1>1, <2>1, <2>2 DEF Looked
<1> QED
  BY <1>2, <1>3, <1>4

\* What the store call of a tool writes.
LEMMA ToolMoves ==
  ASSUME TaskInv, NEW c \in ToolCalls, toolCall[c].pc = "tool", ToolAllowed(c),
         handed' = IF toolCall[c].op = "ask_user" THEN HandedNow(toolCall[c].task) ELSE handed
  PROVE  LET t == toolCall[c].task
         IN /\ t \in TaskIds
            /\ \E hand \in HandOver : /\ handed' = [handed EXCEPT ![t] = hand]
                                      /\ Moves(tasks[t], ToolRow(c), handed[t], hand)
                                      /\ SessionOf[c] \in Unattended =>
                                           Trusted(ToolRow(c), hand, ToolRow(c).lease)
<1> DEFINE t == toolCall[c].task
           a == SessionOf[c]
<1>1. /\ t \in TaskIds /\ toolCall[c] \in CallRow /\ a \in Agents /\ CallInv(c)
      /\ toolCall[c].op # "none" /\ GoodTask(tasks[t])
  BY TaskAssumption DEF TaskInv, CallInv, Table
<1>2. CASE toolCall[c].op = "claim"
  <2>1. handed[t] \in HandOver /\ handed' = [handed EXCEPT ![t] = handed[t]]
    BY <1>1, <1>2, SameHand
  <2>2. /\ Moves(tasks[t], ToolRow(c), handed[t], handed[t])
        /\ a \in Unattended => ~Baton(ToolRow(c))
    BY <1>2, ToolClaims
  <2>3. a \in Unattended => Trusted(ToolRow(c), handed[t], ToolRow(c).lease)
    BY <2>2 DEF Trusted
  <2> QED
    BY <1>1, <2>1, <2>2, <2>3
<1>3. CASE toolCall[c].op # "claim"
  <2>1. toolCall[c].op \in LeasedOps
    BY <1>1, <1>3 DEF CallRow
  <2>2. OwnsTask(a, t, toolCall[c].lease, toolCall[c].seen)
    BY <1>3 DEF ToolAllowed
  <2>3. /\ tasks[t].lease # 0 /\ tasks[t].lease = toolCall[c].lease /\ tasks[t].status # "absent"
        /\ toolCall[c].lease \in Nat /\ toolCall[c].lease <= tasks[t].epoch
    BY <1>1, <2>2, Owned DEF CallInv, CallRow
  <2>4. PICK hand \in HandOver :
          /\ handed' = [handed EXCEPT ![t] = hand]
          /\ hand = IF toolCall[c].op = "ask_user"
                    THEN [lease |-> tasks[t].lease, revision |-> tasks[t].revision + 1] ELSE handed[t]
    BY <1>1, SameHand, HandsNow
  <2>5. ToolRow(c) = Mutated(tasks[t], toolCall[c].op)
    BY <1>3 DEF ToolRow
  <2>6. /\ Moves(tasks[t], ToolRow(c), handed[t], hand)
        /\ ToolRow(c).lease \in {0, tasks[t].lease}
    BY <1>1, <2>1, <2>3, <2>4, <2>5, MutationMoves
  <2>7. ASSUME a \in Unattended PROVE Trusted(ToolRow(c), hand, ToolRow(c).lease)
    <3>1. Trusted(tasks[t], handed[t], toolCall[c].lease)
      BY <1>1, <2>7 DEF CallInv, GuardedInv
    <3>2. Trusted(ToolRow(c), hand, toolCall[c].lease)
      BY <1>1, <2>3, <2>6, <3>1, TrustKept
    <3> QED
      BY <2>3, <2>6, <3>2 DEF Trusted
  <2> QED
    BY <1>1, <2>4, <2>6, <2>7
<1> QED
  BY <1>2, <1>3

\* The store call of a tool.
LEMMA ApplyKeeps ==
  ASSUME TaskInv, NEW c \in ToolCalls, ApplyTool(c)
  PROVE  TaskInv'
<1> DEFINE t == toolCall[c].task
           row == [IdleCall EXCEPT !.pc = "sync", !.task = t, !.lease = ToolRow(c).lease]
<1>1. toolCall[c].pc = "tool" /\ UNCHANGED <<known, parked>>
  BY DEF ApplyTool
<1>2. CASE ~ToolAllowed(c)
  BY <1>2, OnlyReturns DEF ApplyTool
<1>3. CASE ToolAllowed(c)
  <2>1. /\ tasks' = [tasks EXCEPT ![t] = ToolRow(c)]
        /\ toolCall' = [toolCall EXCEPT ![c] = row]
        /\ handed' = IF toolCall[c].op = "ask_user" THEN HandedNow(t) ELSE handed
    BY <1>3 DEF ApplyTool
  <2>2. /\ t \in TaskIds
        /\ \E hand \in HandOver : /\ handed' = [handed EXCEPT ![t] = hand]
                                  /\ Moves(tasks[t], ToolRow(c), handed[t], hand)
                                  /\ SessionOf[c] \in Unattended =>
                                       Trusted(ToolRow(c), hand, ToolRow(c).lease)
    BY <1>1, <1>3, <2>1, ToolMoves
  <2>3. PICK hand \in HandOver :
          /\ handed' = [handed EXCEPT ![t] = hand]
          /\ Moves(tasks[t], ToolRow(c), handed[t], hand)
          /\ SessionOf[c] \in Unattended => Trusted(ToolRow(c), hand, ToolRow(c).lease)
    BY <2>2
  <2>4. /\ tasks' \in [TaskIds -> TaskRow] /\ handed' \in [TaskIds -> HandOver]
        /\ tasks'[t] = ToolRow(c) /\ handed'[t] = hand
        /\ \A z \in TaskIds : Moves(tasks[z], tasks'[z], handed[z], handed'[z])
    BY <2>1, <2>2, <2>3, OneRow
  <2>5. /\ ToolRow(c).lease \in Nat /\ ToolRow(c).lease <= ToolRow(c).epoch
        /\ ToolRow(c).status # "absent"
    <3>1. tasks[t].status # "absent"
      BY <1>1 DEF TaskInv, CallInv
    <3> QED
      BY <2>3, <3>1 DEF Moves, GoodTask, TaskRow
  <2>6. row \in CallRow
    BY <2>2, <2>5 DEF IdleCall, CallRow
  <2>7. row.pc = "sync" /\ row.task = t /\ row.lease = ToolRow(c).lease
    BY DEF IdleCall
  <2> HIDE DEF row
  <2>8. /\ toolCall' \in [ToolCalls -> CallRow] /\ toolCall'[c] = row
        /\ \A d \in ToolCalls : d \notin {c} => toolCall'[d] = toolCall[d]
    BY <2>1, <2>6, OneCall
  <2>9. SessionOf[c] \in Unattended => GuardedInv(row, tasks'[t], handed'[t])
    BY <2>3, <2>4, <2>7 DEF GuardedInv
  <2>10. CallInv(c)'
    BY <2>2, <2>4, <2>5, <2>7, <2>8, <2>9 DEF CallInv, ParkPCs
  <2> QED
    BY <1>1, <2>4, <2>8, <2>10, CallStepKeeps
<1> QED
  BY <1>2, <1>3

\* The session learns the lease, or drops what it knew.
LEMMA LearnKeeps ==
  ASSUME TaskInv, NEW c \in ToolCalls, SyncLease(c) \/ ParkDrop(c)
  PROVE  TaskInv'
<1> DEFINE t == toolCall[c].task
           a == SessionOf[c]
<1>1. /\ t \in TaskIds /\ toolCall[c].lease \in Nat /\ a \in Agents
      /\ CallInv(c) /\ toolCall[c].lease <= tasks[t].epoch
  BY TaskAssumption DEF TaskInv, CallInv, Table, CallRow, SyncLease, ParkDrop
<1>2. /\ UNCHANGED <<tasks, parked, handed>> /\ Return(c)
      /\ \E lease \in {0, toolCall[c].lease} :
           /\ known' = [known EXCEPT ![a][t] = lease]
           /\ lease # 0 => toolCall[c].pc = "sync"
  BY DEF SyncLease, ParkDrop
<1>3. PICK lease \in {0, toolCall[c].lease} :
        /\ known' = [known EXCEPT ![a][t] = lease]
        /\ lease # 0 => toolCall[c].pc = "sync"
  BY <1>2
<1>4. lease <= tasks[t].epoch /\ (a \in Unattended => Trusted(tasks[t], handed[t], lease))
  <2>1. tasks[t].epoch \in Nat
    BY <1>1 DEF TaskInv, Table, TaskRow
  <2>2. CASE lease = 0
    BY <2>1, <2>2 DEF Trusted
  <2>3. CASE lease # 0
    BY <1>1, <1>3, <2>3 DEF CallInv, GuardedInv
  <2> QED
    BY <2>2, <2>3
<1>5. /\ known' \in [Agents -> [TaskIds -> Nat]] /\ known'[a][t] = lease
      /\ \A b \in Agents, z \in TaskIds : known'[b][z] = known[b][z] \/ (b = a /\ z = t)
  BY <1>1, <1>3 DEF TaskInv, Table
<1>6. \A b \in Agents, z \in TaskIds : known'[b][z] = known[b][z] \/ KnownInv(b, z)'
  BY <1>2, <1>4, <1>5 DEF KnownInv
<1>7. /\ toolCall' \in [ToolCalls -> CallRow] /\ CallInv(c)'
      /\ \A d \in ToolCalls : d \notin {c} => toolCall'[d] = toolCall[d]
  BY <1>2, Returned
<1>8. /\ tasks' \in [TaskIds -> TaskRow] /\ handed' \in [TaskIds -> HandOver]
      /\ \A z \in TaskIds : Moves(tasks[z], tasks'[z], handed[z], handed'[z])
      /\ \A z \in TaskIds : z \in parked' => z \in parked
  BY <1>2, NoRow
<1>9. {c} \in SUBSET ToolCalls /\ \A d \in {c} : CallInv(d)'
  BY <1>7
<1> QED
  BY <1>5, <1>6, <1>7, <1>8, <1>9, StepKeeps

\* The search of a parking, and the task it creates.
LEMMA ParkBeginKeeps ==
  ASSUME TaskInv, NEW c \in ToolCalls, ParkSearch(c) \/ ParkCreate(c)
  PROVE  TaskInv'
<1>0. /\ \A t \in TaskIds : /\ GoodTask(tasks[t]) /\ tasks[t].revision \in Nat
                            /\ tasks[t].epoch \in Nat
      /\ toolCall[c] \in CallRow
  BY DEF TaskInv, Table, TaskRow
<1>1. CASE ParkSearch(c) /\ CallAt(c, "park_create")
  <2> DEFINE row == [toolCall[c] EXCEPT !.pc = "park_create"]
  <2>1. row \in CallRow /\ row.pc = "park_create"
    BY <1>0 DEF CallRow
  <2>2. toolCall' = [toolCall EXCEPT ![c] = row] /\ UNCHANGED <<tasks, known, parked, handed>>
    BY <1>1 DEF CallAt, ParkSearch
  <2> HIDE DEF row
  <2>3. CallInv(c)'
    BY <2>1, <2>2, OneCall DEF CallInv, ParkPCs
  <2> QED
    BY <2>1, <2>2, <2>3, CallOnly
<1>2. ASSUME ParkSearch(c), NEW t \in Reviews,
             toolCall' = [toolCall EXCEPT ![c] = [IdleCall EXCEPT !.pc = "park_claim", !.task = t,
                                                  !.seen = tasks[t].revision, !.reused = TRUE]]
      PROVE  TaskInv'
  <2> DEFINE row == [IdleCall EXCEPT !.pc = "park_claim", !.task = t,
                                     !.seen = tasks[t].revision, !.reused = TRUE]
  <2>1. t \in TaskIds /\ tasks[t].status # "absent" /\ UNCHANGED <<tasks, known, parked, handed>>
    BY <1>2 DEF Reviews, ActiveStatuses, ParkSearch
  <2>2. row \in CallRow
    BY <1>0, <2>1 DEF IdleCall, CallRow
  <2>3. row.pc = "park_claim" /\ row.task = t /\ row.lease = 0
    BY DEF IdleCall
  <2>4. row.reused = TRUE
    BY DEF IdleCall
  <2>5. toolCall' = [toolCall EXCEPT ![c] = row]
    BY <1>2
  <2> HIDE DEF row
  <2>6. toolCall'[c] = row
    BY <2>2, <2>5, OneCall
  <2>7. CallInv(c)'
    BY <1>0, <2>1, <2>3, <2>4, <2>6 DEF CallInv, ParkPCs
  <2> QED
    BY <2>1, <2>2, <2>5, <2>7, CallOnly
<1>3. CASE ParkCreate(c)
  <2>1. PICK t \in TaskIds :
       /\ tasks[t].status = "absent"
       /\ tasks' = [tasks EXCEPT ![t] = NewTask("joint", TRUE)]
       /\ toolCall' = [toolCall EXCEPT ![c] =
            [IdleCall EXCEPT !.pc = "park_claim", !.task = t, !.seen = 1]]
    BY <1>3 DEF ParkCreate
  <2> DEFINE row == [IdleCall EXCEPT !.pc = "park_claim", !.task = t, !.seen = 1]
  <2>2. row \in CallRow
    BY DEF IdleCall, CallRow
  <2>3. row.pc = "park_claim" /\ row.task = t /\ row.seen = 1 /\ row.lease = 0
    BY DEF IdleCall
  <2>4. UNCHANGED <<known, parked, handed>>
    BY <1>3 DEF ParkCreate
  <2>5. /\ Moves(tasks[t], NewTask("joint", TRUE), handed[t], handed[t])
        /\ NewTask("joint", TRUE).status = "open"
    BY <1>0, <2>1, NewMoves
  <2>6. /\ tasks' \in [TaskIds -> TaskRow] /\ handed' \in [TaskIds -> HandOver]
        /\ tasks'[t].status = "open"
        /\ \A z \in TaskIds : Moves(tasks[z], tasks'[z], handed[z], handed'[z])
    BY <2>1, <2>4, <2>5, SameHand, OneRow
  <2>7. toolCall' = [toolCall EXCEPT ![c] = row]
    BY <2>1
  <2> HIDE DEF row
  <2>8. /\ toolCall' \in [ToolCalls -> CallRow] /\ toolCall'[c] = row
        /\ \A d \in ToolCalls : d \notin {c} => toolCall'[d] = toolCall[d]
    BY <2>2, <2>7, OneCall
  <2>9. 0 <= tasks'[t].epoch
    BY <2>6 DEF TaskRow
  <2>10. CallInv(c)'
    BY <2>3, <2>6, <2>8, <2>9 DEF CallInv, ParkPCs
  <2> QED
    BY <2>4, <2>6, <2>8, <2>10, CallStepKeeps
<1> QED
  BY <1>1, <1>2, <1>3 DEF ParkSearch

\* The claim of a parking; the task it created is still at its first revision, so that
\* nobody has parked it.
LEMMA ParkClaimKeeps ==
  ASSUME TaskInv, NEW c \in ToolCalls, ParkClaim(c) \/ ParkClaimCancelled(c)
  PROVE  TaskInv'
<1> DEFINE t == toolCall[c].task
           a == SessionOf[c]
<1>1. toolCall[c].pc = "park_claim" /\ UNCHANGED <<known, parked, handed>>
  BY DEF ParkClaim, ParkClaimCancelled
<1>2. /\ t \in TaskIds /\ CallInv(c) /\ toolCall[c] \in CallRow /\ Table /\ a \in Agents
      /\ tasks[t].epoch \in Nat /\ tasks[t].revision \in Nat
      /\ (t \in parked => tasks[t].revision >= 2)
  BY <1>1, TaskAssumption DEF TaskInv, CallInv, Table, TaskRow
<1>3. CASE Return(c) /\ tasks' = tasks
  BY <1>1, <1>3, OnlyReturns
<1>4. CASE CanClaim(t, toolCall[c].seen) /\ tasks' = [tasks EXCEPT ![t] = ClaimedTask(a, t)]
  <2> DEFINE new == ClaimedTask(a, t)
  <2>1. /\ Moves(tasks[t], new, handed[t], handed[t]) /\ new.status # "absent"
        /\ new.epoch = tasks[t].epoch + 1
    BY <1>2, <1>4, ClaimMoves DEF CanClaim
  <2> HIDE DEF new
  <2>2. CASE Return(c)
    BY <1>1, <1>2, <1>4, <2>1, <2>2, RowAndReturn DEF new
  <2>3. CASE toolCall' = [toolCall EXCEPT ![c].pc = "park_write",
                                          ![c].seen = tasks[t].revision + 1,
                                          ![c].lease = tasks[t].epoch + 1]
    <3> DEFINE rev == tasks[t].revision + 1
               e == tasks[t].epoch + 1
               row == [toolCall[c] EXCEPT !.pc = "park_write", !.seen = rev, !.lease = e]
    <3>1. rev \in Nat /\ e \in Nat /\ e # 0 /\ new.epoch = e
      BY <1>2, <2>1
    <3>2. toolCall' = [toolCall EXCEPT ![c] = row]
      BY <2>3, <1>2 DEF TaskInv, Table, CallRow
    <3> HIDE DEF rev, e
    <3>3. row \in CallRow
      <4>1. "park_write" \in ParkPCs
        BY DEF ParkPCs
      <4> QED
        BY <1>2, <3>1, <4>1 DEF CallRow
    <3>4. /\ row.pc = "park_write" /\ row.task = t /\ row.reused = toolCall[c].reused
          /\ row.lease = e
      BY <1>2 DEF CallRow
    <3> HIDE DEF row
    <3>5. /\ toolCall' \in [ToolCalls -> CallRow] /\ toolCall'[c] = row
          /\ \A d \in ToolCalls : d \notin {c} => toolCall'[d] = toolCall[d]
      BY <3>2, <3>3, OneCall
    <3>6. /\ tasks' \in [TaskIds -> TaskRow] /\ handed' \in [TaskIds -> HandOver]
          /\ tasks'[t] = new
          /\ \A z \in TaskIds : Moves(tasks[z], tasks'[z], handed[z], handed'[z])
      BY <1>1, <1>2, <1>4, <2>1, SameHand, OneRow DEF new
    <3>7. toolCall[c].reused \/ t \notin parked
      <4>1. ~toolCall[c].reused => tasks[t].revision = 1
        BY <1>1, <1>2, <1>4 DEF CanClaim, CallInv
      <4> QED
        BY <1>2, <4>1
    <3>8. ParkingInv(row, new, t \in parked')
      BY <1>1, <3>1, <3>4, <3>7 DEF ParkingInv
    <3>9. CallInv(c)'
      BY <1>2, <2>1, <3>1, <3>4, <3>5, <3>6, <3>8 DEF CallInv, ParkPCs
    <3> QED
      BY <1>1, <3>5, <3>6, <3>9, CallStepKeeps
  <2> QED
    BY <1>4, <2>2, <2>3 DEF ParkClaim, ParkClaimCancelled
<1> QED
  BY <1>3, <1>4 DEF ParkClaim, ParkClaimCancelled

\* The call stands in its parking.
LEMMA InParking ==
  ASSUME TaskInv, NEW c \in ToolCalls, toolCall[c].pc \in ParkPCs
  PROVE  /\ toolCall[c].task \in TaskIds /\ toolCall[c] \in CallRow
         /\ tasks[toolCall[c].task].status # "absent"
         /\ GoodTask(tasks[toolCall[c].task])
         /\ toolCall[c].lease <= tasks[toolCall[c].task].epoch
         /\ ParkingInv(toolCall[c], tasks[toolCall[c].task], toolCall[c].task \in parked)
  BY DEF TaskInv, Table, CallInv, ParkPCs

\* A parking goes on at another point, and no row is written.
LEMMA ParkMoveKeeps ==
  ASSUME TaskInv, NEW c \in ToolCalls, toolCall[c].pc \in ParkPCs, NEW row \in CallRow,
         toolCall' = [toolCall EXCEPT ![c] = row], row.pc \in ParkPCs,
         row.task = toolCall[c].task, row.lease = toolCall[c].lease,
         row.reused = toolCall[c].reused, UNCHANGED <<tasks, known, parked, handed>>
  PROVE  TaskInv'
<1>1. toolCall'[c] = row
  BY OneCall
<1>2. ParkingInv(row, tasks[row.task], row.task \in parked)
  BY InParking DEF ParkingInv
<1>3. CallInv(c)'
  BY <1>1, <1>2, InParking DEF CallInv, ParkPCs
<1> QED
  BY <1>3, CallOnly

\* A parking turns to its unwinding.
LEMMA ParkUnwinds ==
  ASSUME TaskInv, NEW c \in ToolCalls, toolCall[c].pc \in ParkPCs, CallAt(c, "park_unwind"),
         UNCHANGED <<tasks, known, parked, handed>>
  PROVE  TaskInv'
<1> DEFINE row == [toolCall[c] EXCEPT !.pc = "park_unwind"]
<1>1. toolCall[c] \in CallRow
  BY InParking
<1>2. row \in CallRow /\ row.pc \in ParkPCs /\ row.task = toolCall[c].task
  BY <1>1 DEF CallRow, ParkPCs
<1>3. row.lease = toolCall[c].lease
  BY <1>1 DEF CallRow
<1>4. row.reused = toolCall[c].reused
  BY <1>1 DEF CallRow
<1>5. toolCall' = [toolCall EXCEPT ![c] = row]
  BY DEF CallAt
<1> HIDE DEF row
<1> QED
  BY <1>2, <1>3, <1>4, <1>5, ParkMoveKeeps

\* A mutation in the middle of a parking; its last, the release, delivers the review and
\* ends the lease of the parking.
LEMMA ParkStepKeeps ==
  ASSUME TaskInv, NEW c \in ToolCalls, NEW pc \in ParkPCs,
         NEW op \in {"write", "ask_user", "release"}, NEW next \in ParkPCs,
         ParkStep(c, pc, op, next),
         handed' = IF op = "ask_user" /\ OwnsParked(c) THEN HandedNow(toolCall[c].task) ELSE handed,
         parked' = IF op = "release" /\ OwnsParked(c) THEN parked \cup {toolCall[c].task} ELSE parked
  PROVE  TaskInv'
<1> DEFINE t == toolCall[c].task
<1>1. toolCall[c].pc \in ParkPCs /\ known' = known
  BY DEF ParkStep
<1>2. /\ t \in TaskIds /\ toolCall[c] \in CallRow /\ tasks[t].status # "absent"
      /\ GoodTask(tasks[t]) /\ ParkingInv(toolCall[c], tasks[t], t \in parked)
      /\ toolCall[c].lease <= tasks[t].epoch
  BY <1>1, InParking
<1>3. CASE ~OwnsParked(c)
  BY <1>1, <1>3, ParkUnwinds DEF ParkStep
<1>4. CASE OwnsParked(c)
  <2> DEFINE new == Mutated(tasks[t], op)
             seen == toolCall[c].seen + 1
             row == [toolCall[c] EXCEPT !.pc = next, !.seen = seen]
  <2>1. op \in LeasedOps
    BY DEF LeasedOps
  <2>2. /\ tasks' = [tasks EXCEPT ![t] = new]
        /\ toolCall' = [toolCall EXCEPT ![c].pc = next, ![c].seen = @ + 1]
    BY <1>4 DEF ParkStep
  <2>3. PICK hand \in HandOver :
          /\ handed' = [handed EXCEPT ![t] = hand]
          /\ hand = IF op = "ask_user"
                    THEN [lease |-> tasks[t].lease, revision |-> tasks[t].revision + 1] ELSE handed[t]
    BY <1>2, <1>4, SameHand, HandsNow
  <2>4. Moves(tasks[t], new, handed[t], hand) /\ new.lease \in {0, tasks[t].lease}
    BY <1>2, <2>1, <2>3, MutationMoves
  <2>5. op = "release" => new.lease = 0 /\ new.revision = tasks[t].revision + 1
    BY <1>2, ReleaseMoves DEF Mutated, Released
  <2> HIDE DEF new
  <2>6. /\ tasks' \in [TaskIds -> TaskRow] /\ handed' \in [TaskIds -> HandOver]
        /\ tasks'[t] = new
        /\ \A z \in TaskIds : Moves(tasks[z], tasks'[z], handed[z], handed'[z])
    BY <1>2, <2>2, <2>3, <2>4, OneRow
  <2>7. seen \in Nat
    BY <1>2 DEF CallRow
  <2>8. toolCall' = [toolCall EXCEPT ![c] = row]
    BY <1>2, <2>2 DEF TaskInv, Table, CallRow
  <2> HIDE DEF seen
  <2>9. row \in CallRow
    BY <1>2, <2>7 DEF CallRow
  <2>10. /\ row.pc = next /\ row.task = t /\ row.reused = toolCall[c].reused
         /\ row.lease = toolCall[c].lease
    BY <1>2 DEF CallRow
  <2> HIDE DEF row
  <2>11. /\ toolCall' \in [ToolCalls -> CallRow] /\ toolCall'[c] = row
         /\ \A d \in ToolCalls : d \notin {c} => toolCall'[d] = toolCall[d]
    BY <2>8, <2>9, OneCall
  <2>12. \A z \in TaskIds : z \in parked' =>
           z \in parked \/ (tasks'[z].lease = 0 /\ tasks'[z].revision >= 2)
    <3>1. tasks[t].revision \in Nat /\ tasks[t].revision >= 1
      BY <1>2 DEF GoodTask, TaskRow
    <3> QED
      BY <2>5, <2>6, <3>1
  <2>13. ParkingInv(row, new, t \in parked')
    <3>1. op # "release" => parked' = parked
      OBVIOUS
    <3> QED
      BY <1>2, <2>4, <2>5, <2>10, <3>1 DEF ParkingInv
  <2>14. new.status # "absent" /\ toolCall[c].lease <= new.epoch
    <3>1. tasks[t].epoch \in Nat /\ new.epoch \in Nat /\ toolCall[c].lease \in Nat
      BY <1>2, <2>4 DEF GoodTask, TaskRow, CallRow, Moves
    <3> QED
      BY <1>2, <2>4, <3>1 DEF Moves
  <2>15. CallInv(c)'
    BY <1>2, <2>6, <2>10, <2>11, <2>13, <2>14 DEF CallInv, ParkPCs
  <2>16. /\ {c} \in SUBSET ToolCalls /\ \A d \in {c} : CallInv(d)'
         /\ known' \in [Agents -> [TaskIds -> Nat]]
         /\ \A a \in Agents, z \in TaskIds : known'[a][z] = known[a][z]
    BY <1>1, <2>15 DEF TaskInv, Table
  <2> QED
    BY <2>6, <2>11, <2>12, <2>16, StepKeeps
<1> QED
  BY <1>3, <1>4

\* A parking is interrupted or unwound.
LEMMA ParkEndKeeps ==
  ASSUME TaskInv, NEW c \in ToolCalls, ParkInterrupted(c) \/ ParkUnwind(c) \/ ParkUndo(c)
  PROVE  TaskInv'
<1> DEFINE t == toolCall[c].task
<1>0. UNCHANGED <<known, parked, handed>>
  BY DEF ParkInterrupted, ParkUnwind, ParkUndo
<1>1. CASE Return(c) /\ tasks' = tasks
  BY <1>0, <1>1, OnlyReturns
<1>2. CASE toolCall[c].pc \in ParkPCs /\ CallAt(c, "park_unwind") /\ tasks' = tasks
  BY <1>0, <1>2, ParkUnwinds
<1>3. CASE /\ toolCall[c].pc = "park_unwind" /\ tasks' = tasks
           /\ toolCall' = [toolCall EXCEPT ![c].pc = "park_undo", ![c].seen = tasks[t].revision,
                                           ![c].found = tasks[t].lease]
  <2> DEFINE row == [toolCall[c] EXCEPT !.pc = "park_undo", !.seen = tasks[t].revision,
                                        !.found = tasks[t].lease]
  <2>1. /\ toolCall[c].pc \in ParkPCs /\ toolCall[c] \in CallRow
        /\ tasks[t].revision \in Nat /\ tasks[t].lease \in Nat
    BY <1>3, InParking DEF ParkPCs, GoodTask, TaskRow
  <2>2. row \in CallRow
    BY <2>1 DEF CallRow, ParkPCs
  <2>3. row.pc \in ParkPCs /\ row.task = t
    BY <2>1 DEF CallRow, ParkPCs
  <2>4. row.lease = toolCall[c].lease
    BY <2>1 DEF CallRow
  <2>5. row.reused = toolCall[c].reused
    BY <2>1 DEF CallRow
  <2>6. toolCall' = [toolCall EXCEPT ![c] = row]
    BY <1>3, <2>1 DEF TaskInv, Table, CallRow
  <2> HIDE DEF row
  <2> QED
    BY <1>0, <1>3, <2>1, <2>2, <2>3, <2>4, <2>5, <2>6, ParkMoveKeeps
<1>4. CASE /\ toolCall[c].pc = "park_undo" /\ Return(c)
           /\ OwnsTask(SessionOf[c], t, toolCall[c].found, toolCall[c].seen)
           /\ tasks' = [tasks EXCEPT ![t] = Mutated(tasks[t], UndoOf(c))]
  <2>1. t \in TaskIds /\ tasks[t].status # "absent" /\ GoodTask(tasks[t])
    BY <1>4, InParking DEF ParkPCs
  <2>2. UndoOf(c) \in LeasedOps /\ UndoOf(c) # "ask_user"
    BY DEF UndoOf, LeasedOps
  <2>3. Moves(tasks[t], Mutated(tasks[t], UndoOf(c)), handed[t], handed[t])
    BY <2>1, <2>2, MutationMoves
  <2> QED
    BY <1>0, <1>4, <2>1, <2>3, RowAndReturn
<1> QED
  BY <1>1, <1>2, <1>3, <1>4 DEF ParkInterrupted, ParkUnwind, ParkUndo, ParkPCs

\* Every step keeps the invariant.
LEMMA TaskInvStep == TaskInv /\ [TaskNext]_taskVars => TaskInv'
<1> SUFFICES ASSUME TaskInv, [TaskNext]_taskVars PROVE TaskInv'
  OBVIOUS
<1>1. CASE UNCHANGED taskVars
  BY <1>1 DEF taskVars, TaskInv, Table, KnownInv, CallInv
<1>2. ASSUME NEW c \in ToolCalls, ToolNext(c) PROVE TaskInv'
  <2>1. CASE LoseSync(c)
    BY <2>1, OnlyReturns DEF LoseSync
  <2> QED
    BY <1>2, <2>1, CallKeeps, ApplyKeeps, LearnKeeps DEF ToolNext
<1>3. ASSUME NEW c \in ToolCalls, ParkNext(c) PROVE TaskInv'
  <2>1. {"park_write", "park_wait", "park_release", "park_drop"} \subseteq ParkPCs
    BY DEF ParkPCs
  <2>2. CASE ParkWrite(c)
    BY <2>1, <2>2, ParkStepKeeps DEF ParkWrite
  <2>3. CASE ParkWait(c)
    BY <2>1, <2>3, ParkStepKeeps DEF ParkWait
  <2>4. CASE ParkRelease(c)
    BY <2>1, <2>4, ParkStepKeeps DEF ParkRelease
  <2> QED
    BY <1>3, <2>2, <2>3, <2>4, ParkBeginKeeps, ParkClaimKeeps, LearnKeeps, ParkEndKeeps DEF ParkNext
<1> QED
  BY <1>1, <1>2, <1>3, TaskStepKeeps, EndKeeps DEF TaskNext

\* The invariant holds of empty tables.
LEMMA TaskInvInit == TaskInit => TaskInv
<1> SUFFICES ASSUME TaskInit PROVE TaskInv
  OBVIOUS
<1>1. /\ AbsentTask \in TaskRow /\ AbsentTask.status = "absent" /\ AbsentTask.revision = 0
      /\ AbsentTask.lease = 0 /\ AbsentTask.epoch = 0
  BY DEF AbsentTask, TaskRow
<1>2. IdleCall \in CallRow /\ IdleCall.pc = "idle"
  BY DEF IdleCall, CallRow
<1>3. NotHanded \in HandOver
  BY DEF NotHanded, HandOver
<1>4. GoodTask(AbsentTask)
  BY <1>1 DEF GoodTask
<1>5. Table
  BY <1>1, <1>2, <1>3, <1>4 DEF TaskInit, Table
<1>6. \A a \in Agents, t \in TaskIds : KnownInv(a, t)
  BY <1>1 DEF TaskInit, KnownInv, Trusted
<1>7. \A c \in ToolCalls : toolCall[c].pc = "idle"
  BY <1>2 DEF TaskInit
<1>8. \A c \in ToolCalls : CallInv(c)
  BY <1>7 DEF CallInv, ParkPCs
<1> QED
  BY <1>5, <1>6, <1>8 DEF TaskInv

\* The invariant holds in every state of every behaviour.
LEMMA TaskInvariance == TaskSpec => []TaskInv
  BY TaskInvInit, TaskInvStep, PTL DEF TaskSpec

-------------------------------------------------------------------------------
(* The theorems *)

\* A step in which a call moves is a step of that call, or its process dies.
LEMMA OwnStep ==
  ASSUME TaskInv, [TaskNext]_taskVars, NEW c \in ToolCalls, toolCall'[c] # toolCall[c]
  PROVE  \/ ToolNext(c) \/ ParkNext(c)
         \/ toolCall'[c] = IdleCall /\ \E a \in Agents : CrashAgent(a)
<1>1. toolCall' # toolCall /\ toolCall \in [ToolCalls -> CallRow]
  BY DEF TaskInv, Table
<1>2. CASE \E a \in Agents : CrashAgent(a)
  BY <1>1, <1>2 DEF CrashAgent
<1>3. ASSUME NEW d \in ToolCalls, ToolNext(d) \/ ParkNext(d) PROVE d = c
  <2>1. \E row : toolCall' = [toolCall EXCEPT ![d] = row]
    <3>1. CASE ToolNext(d)
      BY <1>1, <3>1 DEF ToolNext, GuardTool, CallTool, ReadForTool, ApplyTool, SyncLease, LoseSync, Return
    <3>2. CASE ParkSearch(d) \/ ParkCreate(d) \/ ParkClaim(d) \/ ParkClaimCancelled(d)
      BY <1>1, <3>2 DEF ParkSearch, ParkCreate, ParkClaim, ParkClaimCancelled, Return, CallAt
    <3>3. CASE ParkWrite(d) \/ ParkWait(d) \/ ParkRelease(d) \/ ParkDrop(d)
      BY <1>1, <3>3 DEF ParkWrite, ParkWait, ParkStep, ParkRelease, ParkDrop, Return, CallAt
    <3>4. CASE ParkInterrupted(d) \/ ParkUnwind(d) \/ ParkUndo(d)
      BY <1>1, <3>4 DEF ParkInterrupted, ParkUnwind, ParkUndo, Return, CallAt
    <3> QED
      BY <1>3, <3>1, <3>2, <3>3, <3>4 DEF ParkNext
  <2> QED
    BY <1>1, <2>1
<1> QED
  BY <1>1, <1>2, <1>3 DEF TaskNext, CreateTask, ReopenTask, LapseTask, CloseAgent, taskVars

\* A call of an unattended run that changes a task the user has the baton of was overtaken,
\* since its guard looked, by a hand-over under its own lease, which its own session made;
\* for any number of tasks, sessions, concurrent calls and claims (state_guard.py, _claim and
\* _required_leased_row of durable_tasks/store.py).
THEOREM BatonStaysWithUser == TaskSpec => BatonRespected
<1>1. ASSUME TaskInv, [TaskNext]_taskVars, NEW c \in ToolCalls, SessionOf[c] \in Unattended,
             toolCall[c].pc = "tool", toolCall'[c].pc = "sync", BatonElsewhere(toolCall[c].task)
      PROVE  /\ toolCall[c].op # "claim"
             /\ handed[toolCall[c].task].lease = toolCall[c].lease
             /\ handed[toolCall[c].task].revision > toolCall[c].looked
  <2> DEFINE t == toolCall[c].task
  <2>1. /\ Baton(tasks[t]) /\ t \in TaskIds
        /\ Looked(tasks[t], handed[t], toolCall[c].looked)
        /\ Trusted(tasks[t], handed[t], toolCall[c].lease)
    BY <1>1 DEF TaskInv, CallInv, GuardedInv, BatonElsewhere, Baton
  <2>2. IdleCall.pc = "idle"
    BY DEF IdleCall
  <2>3. ToolNext(c) \/ ParkNext(c)
    BY <1>1, <2>2, OwnStep
  <2>4. ~ParkNext(c)
    BY <1>1 DEF ParkNext, ParkSearch, ParkCreate, ParkClaim, ParkClaimCancelled, ParkWrite, ParkWait,
                ParkStep, ParkRelease, ParkDrop, ParkInterrupted, ParkUnwind, ParkUndo
  <2>5. ApplyTool(c)
    BY <1>1, <2>3, <2>4 DEF ToolNext, GuardTool, CallTool, ReadForTool, SyncLease, LoseSync
  <2>6. ToolAllowed(c)
    <3>1. Return(c) => toolCall'[c] = IdleCall
      BY <1>1 DEF Return, TaskInv, Table
    <3> QED
      BY <1>1, <2>2, <2>5, <3>1 DEF ApplyTool
  <2>7. toolCall[c].op # "claim"
    BY <1>1, <2>1, <2>6, ToolClaims
  <2>8. toolCall[c].lease # 0 /\ toolCall[c].lease = tasks[t].lease
    BY <2>6, <2>7 DEF ToolAllowed, OwnsTask
  <2> QED
    BY <2>1, <2>7, <2>8 DEF Trusted, Looked
<1>2. TaskInv /\ [TaskNext]_taskVars =>
        [\A c \in ToolCalls :
           LET t == toolCall[c].task IN
           /\ SessionOf[c] \in Unattended
           /\ toolCall[c].pc = "tool" /\ toolCall'[c].pc = "sync"
           /\ BatonElsewhere(t)
           => /\ toolCall[c].op # "claim"
              /\ handed[t].lease = toolCall[c].lease
              /\ handed[t].revision > toolCall[c].looked]_taskVars
  BY <1>1
<1> QED
  BY <1>2, TaskInvariance, PTL DEF TaskSpec, BatonRespected

\* The unwinding of a failed parking cancels a review that some parking has delivered only
\* under a lease that another call of its session took, for any number of tasks, sessions
\* and concurrent calls (_unwind of durable_tasks/review.py).
THEOREM ReviewsSurvive == TaskSpec => DeliveredReviewSurvives
<1>1. ASSUME TaskInv, [TaskNext]_taskVars, NEW c \in ToolCalls, toolCall[c].pc = "park_undo",
             toolCall[c].task \in parked, tasks[toolCall[c].task].status # "cancelled",
             tasks'[toolCall[c].task].status = "cancelled", toolCall'[c] # toolCall[c]
      PROVE  ~toolCall[c].reused /\ toolCall[c].found # toolCall[c].lease
  <2> DEFINE t == toolCall[c].task
  <2>1. /\ t \in TaskIds /\ GoodTask(tasks[t]) /\ tasks[t].status # "absent"
        /\ ~toolCall[c].reused => tasks[t].lease # toolCall[c].lease
    BY <1>1, InParking DEF ParkPCs, ParkingInv
  <2>2. tasks' # tasks
    BY <1>1
  <2>3. ToolNext(c) \/ ParkNext(c)
    BY <1>1, <2>2, OwnStep DEF CrashAgent
  <2>4. ~ToolNext(c)
    BY <1>1 DEF ToolNext, GuardTool, CallTool, ReadForTool, ApplyTool, SyncLease, LoseSync
  <2>5. ParkUndo(c)
    BY <1>1, <2>2, <2>3, <2>4 DEF ParkNext, ParkSearch, ParkCreate, ParkClaim, ParkClaimCancelled,
         ParkWrite, ParkWait, ParkStep, ParkRelease, ParkDrop, ParkInterrupted, ParkUnwind
  <2>6. /\ OwnsTask(SessionOf[c], t, toolCall[c].found, toolCall[c].seen)
        /\ tasks' = [tasks EXCEPT ![t] = Mutated(tasks[t], UndoOf(c))]
    BY <2>2, <2>5 DEF ParkUndo
  <2>7. tasks[t].lease = toolCall[c].found
    BY <2>6 DEF OwnsTask
  <2>8. ~toolCall[c].reused
    <3> SUFFICES ASSUME toolCall[c].reused PROVE FALSE
      OBVIOUS
    <3>1. tasks'[t] = Mutated(tasks[t], "release")
      BY <1>1, <2>1, <2>6 DEF UndoOf, TaskInv, Table
    <3>2. Mutated(tasks[t], "release").status = tasks[t].status
      BY <2>1, ReleaseMoves DEF Mutated, Released
    <3> QED
      BY <1>1, <3>1, <3>2
  <2> QED
    BY <2>1, <2>7, <2>8
<1>2. TaskInv /\ [TaskNext]_taskVars =>
        [\A c \in ToolCalls :
           LET t == toolCall[c].task IN
           /\ toolCall[c].pc = "park_undo" /\ t \in parked
           /\ tasks[t].status # "cancelled" /\ tasks'[t].status = "cancelled"
           /\ toolCall'[c] # toolCall[c]
           => ~toolCall[c].reused /\ toolCall[c].found # toolCall[c].lease]_taskVars
  BY <1>1
<1> QED
  BY <1>2, TaskInvariance, PTL DEF TaskSpec, DeliveredReviewSurvives
===============================================================================
