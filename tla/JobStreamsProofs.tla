-------------------------- MODULE JobStreamsProofs --------------------------
(***************************************************************************)
(* Proofs about JobStreams, for every set of messages and of launching     *)
(* processes, every limit and every number of runs.                        *)
(***************************************************************************)
EXTENDS JobStreams, FiniteSetTheorems, TLAPS

Kinds == {"none", "declined", "blocked", "effect_reserved"}

Outcomes == {"absent", "open", "succeeded", "failed", "skipped_locked"}

RunRow == [outcome : Outcomes, dry : BOOLEAN,
           batch : [items : SUBSET Items, next : Nat, complete : BOOLEAN]]

PCs == {"idle", "collect", "reason", "escalate", "correlate", "closing", "commit", "unlock"}

Statuses == {"none", "reserved", "performed", "not_performed", "in_doubt"}

LauncherRow == [pc : PCs, run : Nat, outcome : {"succeeded", "failed"}, todo : SUBSET Items,
                current : SUBSET Items]

StreamType ==
  /\ instant \in Nat
  /\ posted \in [Items -> Nat]
  /\ jobCursor \in Nat
  /\ jobRuns \in [RunIds -> RunRow]
  /\ dispositions \in [RunIds -> [Items -> Kinds]]
  /\ effects \in [Items -> [status : Statuses, run : Nat]]
  /\ escalated \in SUBSET Items
  /\ launcher \in [Launchers -> LauncherRow]

\* A cursor is never the instant of a message, and nothing is ahead of time.
Instants ==
  /\ jobCursor <= instant
  /\ \A i \in Items : posted[i] <= instant /\ (posted[i] # 0 => posted[i] # jobCursor)
  /\ \A r \in RunIds :
       /\ jobRuns[r].batch.next <= instant
       /\ \A i \in Items : posted[i] # 0 => posted[i] # jobRuns[r].batch.next

Working == {"collect", "reason", "escalate", "correlate", "closing"}

\* Only the holder of the lock is at work, on a run of its own.
OneAtWork ==
  \A p \in Launchers :
    /\ launcher[p].pc # "idle" => jobLock = p
    /\ launcher[p].pc \in Working \cup {"commit"} => launcher[p].run \in RunIds
    /\ launcher[p].pc \in Working => RunOfLauncher(p).outcome = "open"
    /\ launcher[p].pc = "commit" => RunOfLauncher(p).outcome = "succeeded" /\ ~RunOfLauncher(p).dry

\* The first collection looks back beyond every message.
LookbackCovers == Lookback >= MaxInstant

\* A complete batch holds every message between the cursor and its own end; without a
\* cursor, every one after the lookback.
WindowCovered ==
  \A p \in Launchers :
    launcher[p].pc \in Working \cup {"commit"} /\ RunOfLauncher(p).batch.complete =>
      /\ jobCursor < RunOfLauncher(p).batch.next
      /\ \A i \in Items :
           /\ posted[i] > jobCursor /\ posted[i] < RunOfLauncher(p).batch.next
           /\ \/ LookbackCovers \/ jobCursor # 0
              \/ posted[i] + Lookback > RunOfLauncher(p).batch.next
           => i \in RunOfLauncher(p).batch.items

Succeeding(p) ==
  \/ launcher[p].pc \in {"escalate", "correlate", "commit"}
  \/ launcher[p].pc = "closing" /\ launcher[p].outcome = "succeeded"

\* A run on its way to success is accounted for, and its blocked items are escalated
\* or still to be.
OnTheWay ==
  \A p \in Launchers :
    /\ Succeeding(p) => Accounted(launcher[p].run)
    /\ launcher[p].pc \in {"escalate", "correlate"} =>
         Blocked(launcher[p].run) \subseteq escalated \cup launcher[p].todo
    /\ launcher[p].pc = "closing" /\ launcher[p].outcome = "succeeded" /\ ~RunOfLauncher(p).dry =>
         Blocked(launcher[p].run) \subseteq escalated

StreamInv ==
  /\ StreamType
  /\ Instants
  /\ OneAtWork
  /\ WindowCovered
  /\ OnTheWay
  /\ LookbackCovers => NothingSkipped
  /\ BlockedReachesUser

\* What a run has settled stays settled.
StaysSettled == \A r \in RunIds, i \in Items : SettledBy(r, i) => SettledBy(r, i)'

\* A message is posted later than every cursor and every window.
LEMMA PostMessageKeeps ==
  ASSUME StreamInv, NEW i \in Items, PostMessage(i)
  PROVE  StreamInv'
<1>1. StreamType'
  BY DEF StreamInv, PostMessage, StreamType, RunRow, Outcomes, Kinds, Statuses, OneAtWork,
         Working, RunOfLauncher, RunIds
<1>2. Instants'
  BY DEF StreamInv, PostMessage, StreamType, RunRow, Instants, OneAtWork, Working, RunOfLauncher
<1>3. OneAtWork'
  BY DEF StreamInv, PostMessage, StreamType, RunRow, LauncherRow, OneAtWork, Working, RunOfLauncher
<1>4. WindowCovered'
  BY DEF StreamInv, PostMessage, StreamType, RunRow, LauncherRow, Instants, OneAtWork,
         WindowCovered, Working, RunOfLauncher
<1>5. OnTheWay'
  BY DEF StreamInv, PostMessage, StreamType, RunRow, LauncherRow, OneAtWork, OnTheWay,
         Succeeding, Accounted, Missing, Blocked, Working, RunOfLauncher
<1>6. StaysSettled
  BY DEF StreamInv, PostMessage, StreamType, RunRow, LauncherRow, OneAtWork, StaysSettled,
         SettledBy, Working, RunOfLauncher
<1>7. LookbackCovers => NothingSkipped'
  BY <1>6 DEF StreamInv, PostMessage, StreamType, Instants, NothingSkipped, Settled,
     StaysSettled, LookbackCovers
<1>8. BlockedReachesUser'
  BY DEF StreamInv, PostMessage, StreamType, RunRow, LauncherRow, OneAtWork, BlockedReachesUser,
         SettledBy, Working, RunOfLauncher
<1> QED
  BY <1>1, <1>2, <1>3, <1>4, <1>5, <1>7, <1>8 DEF StreamInv, LookbackCovers

\* An action that is reconciled was not yet `performed`.
LEMMA ReconcileItemKeeps ==
  ASSUME StreamInv, NEW i \in Items, NEW d \in {"performed", "not_performed", "in_doubt"},
         ReconcileItem(i, d)
  PROVE  StreamInv'
<1>1. StreamType'
  BY DEF StreamInv, ReconcileItem, StreamType, RunRow, Outcomes, Kinds, Statuses, OneAtWork,
         Working, RunOfLauncher, RunIds
<1>2. Instants' /\ OneAtWork' /\ WindowCovered'
  BY DEF StreamInv, ReconcileItem, Instants, OneAtWork, WindowCovered, RunOfLauncher
<1>5. OnTheWay'
  BY DEF StreamInv, ReconcileItem, StreamType, RunRow, LauncherRow, OneAtWork, OnTheWay,
         Succeeding, Accounted, Missing, Blocked, Working, RunOfLauncher
<1>6. StaysSettled
  BY DEF StreamInv, ReconcileItem, StreamType, RunRow, LauncherRow, OneAtWork, StaysSettled,
         SettledBy, Working, RunOfLauncher
<1>7. LookbackCovers => NothingSkipped'
  BY <1>6 DEF StreamInv, ReconcileItem, StreamType, Instants, NothingSkipped, Settled,
     StaysSettled, LookbackCovers
<1>8. BlockedReachesUser'
  BY DEF StreamInv, ReconcileItem, StreamType, RunRow, LauncherRow, OneAtWork,
         BlockedReachesUser, SettledBy, Working, RunOfLauncher
<1> QED
  BY <1>1, <1>2, <1>5, <1>7, <1>8 DEF StreamInv, LookbackCovers

\* A new run is no run anybody is at work on, and the lock is taken or respected.
LEMMA LaunchKeeps ==
  ASSUME StreamInv, NEW p \in Launchers, NEW dry \in BOOLEAN, Launch(p, dry)
  PROVE  StreamInv'
<1> DEFINE n == NextRunId
           row == [pc |-> "collect", run |-> n, outcome |-> "failed", todo |-> {}, current |-> {}]
<1>a. n \in RunIds /\ jobRuns[n].outcome = "absent"
  <2>1. PICK r \in FreeRunIds : TRUE
    BY DEF Launch, CanLaunch
  <2>2. n \in FreeRunIds
    BY <2>1, Zenon DEF NextRunId
  <2> QED
    BY <2>2 DEF FreeRunIds
<1>b. \A q \in Launchers : launcher[q].pc \in Working \cup {"commit"} => launcher[q].run # n
  BY <1>a DEF StreamInv, OneAtWork, RunOfLauncher
<1>c. /\ \A r \in RunIds : r # n => jobRuns'[r] = jobRuns[r]
      /\ jobRuns'[n].batch = NoBatch
      /\ jobRuns'[n].outcome \in {"open", "skipped_locked"}
      /\ jobRuns' \in [RunIds -> RunRow]
  <2>1. PICK outcome \in {"open", "skipped_locked"} :
          jobRuns' = [jobRuns EXCEPT ![n] = [outcome |-> outcome, dry |-> dry, batch |-> NoBatch]]
    BY DEF Launch, BeginRun, AbsentRun
  <2>2. [outcome |-> outcome, dry |-> dry, batch |-> NoBatch] \in RunRow
    BY DEF NoBatch, RunRow, Outcomes
  <2>3. jobRuns' \in [RunIds -> RunRow]
    BY <1>a, <2>1, <2>2 DEF StreamInv, StreamType
  <2> QED
    BY <1>a, <2>1, <2>3 DEF StreamInv, StreamType
<1>d. \/ launcher' = launcher /\ jobLock' = jobLock
      \/ /\ jobLock = "nobody" /\ jobLock' = p
         /\ launcher' = [launcher EXCEPT ![p] = row]
         /\ jobRuns'[n].outcome = "open"
  BY <1>a, <1>c DEF Launch, BeginRun, AbsentRun, IdleLauncher, StreamInv, StreamType
<1>e. UNCHANGED <<instant, posted, jobCursor, dispositions, effects, escalated, reviewTasks>>
  BY DEF Launch
<1>f. \A q \in Launchers :
        \/ launcher'[q] = launcher[q]
        \/ /\ launcher'[q].pc = "collect" /\ launcher'[q].run = n /\ jobLock' = q
           /\ jobRuns'[n].outcome = "open"
  BY <1>a, <1>d DEF StreamInv, StreamType
<1>g. \A q \in Launchers : launcher[q].pc # "idle" => jobLock' = q
  BY <1>d, StreamAssumption DEF StreamInv, OneAtWork
<1> HIDE DEF n
<1>1. StreamType'
  <2>1. row \in LauncherRow
    BY <1>a, StreamAssumption DEF LauncherRow, PCs, RunIds
  <2>2. launcher' \in [Launchers -> LauncherRow]
    BY <1>d, <2>1 DEF StreamInv, StreamType
  <2> QED
    BY <1>c, <1>e, <2>2 DEF StreamInv, StreamType
<1>2. Instants'
  BY <1>c, <1>e DEF StreamInv, StreamType, Instants, NoBatch
<1>3. OneAtWork'
  BY <1>a, <1>b, <1>c, <1>f, <1>g DEF StreamInv, OneAtWork, Working, RunOfLauncher
<1>4. WindowCovered'
  <2>1. ASSUME NEW q \in Launchers, launcher'[q].pc \in Working \cup {"commit"},
               jobRuns'[launcher'[q].run].batch.complete
        PROVE  /\ launcher'[q] = launcher[q] /\ launcher[q].run \in RunIds
               /\ jobRuns'[launcher[q].run] = jobRuns[launcher[q].run]
    BY <1>b, <1>c, <1>f, <2>1 DEF StreamInv, OneAtWork, NoBatch
  <2> QED
    BY <1>e, <2>1 DEF StreamInv, WindowCovered, RunOfLauncher
<1>5. OnTheWay'
  <2>1. ASSUME NEW q \in Launchers, Succeeding(q)'
        PROVE  /\ launcher'[q] = launcher[q] /\ launcher[q].run \in RunIds
               /\ jobRuns'[launcher[q].run] = jobRuns[launcher[q].run]
    BY <1>b, <1>c, <1>f, <2>1 DEF StreamInv, OneAtWork, Succeeding, Working
  <2> QED
    BY <1>e, <2>1 DEF StreamInv, OnTheWay, Succeeding, Accounted, Missing, Blocked, RunOfLauncher
<1>6. StaysSettled
  BY <1>a, <1>c, <1>e DEF StaysSettled, SettledBy
<1>7. LookbackCovers => NothingSkipped'
  BY <1>6, <1>e DEF StreamInv, StreamType, NothingSkipped, Settled, StaysSettled, LookbackCovers
<1>8. BlockedReachesUser'
  BY <1>a, <1>c, <1>e DEF StreamInv, BlockedReachesUser, SettledBy
<1> QED
  BY <1>1, <1>2, <1>3, <1>4, <1>5, <1>7, <1>8 DEF StreamInv, LookbackCovers

\* A complete window misses no message after the cursor.
LEMMA CollectKeeps ==
  ASSUME StreamInv, NEW p \in Launchers, Collect(p)
  PROVE  StreamInv'
<1> DEFINE upper == instant + 1
           r == launcher[p].run
           W == Window(upper)
<1>a. r \in RunIds /\ instant \in Nat /\ upper \in Nat /\ upper <= MaxInstant /\ MaxInstant \in Nat
  BY StreamAssumption DEF Collect, StreamInv, StreamType, OneAtWork, Working
<1>b. LookbackCovers => WindowStart(upper) = jobCursor
  BY <1>a, StreamAssumption DEF LookbackCovers, WindowStart, StreamInv, StreamType
<1>c. Cardinality(W) <= ItemLimit => W \subseteq Newest(W)
  <2>1. SUFFICES ASSUME Cardinality(W) <= ItemLimit, NEW i \in W
                 PROVE  Cardinality({j \in W : posted[j] > posted[i]}) < ItemLimit
    BY DEF Newest
  <2> DEFINE above == {j \in W : posted[j] > posted[i]}
  <2>2. IsFiniteSet(W)
    BY StreamAssumption, FS_Subset DEF Window
  <2>3. IsFiniteSet(W \ {i}) /\ Cardinality(W \ {i}) = Cardinality(W) - 1
    BY <2>2, FS_RemoveElement
  <2>4. above \subseteq W \ {i}
    BY DEF Window, StreamInv, StreamType
  <2>5. Cardinality(above) <= Cardinality(W \ {i}) /\ IsFiniteSet(above)
    BY <2>3, <2>4, FS_Subset
  <2>6. Cardinality(W) \in Nat /\ Cardinality(above) \in Nat
    BY <2>2, <2>5, FS_CardinalityType
  <2> QED
    BY <2>1, <2>3, <2>5, <2>6, StreamAssumption
<1>d. Newest(W) \subseteq Items
  BY DEF Newest, Window
<1>e. jobRuns' = [jobRuns EXCEPT ![r].batch = [items |-> Newest(W), next |-> upper,
                                              complete |-> Cardinality(W) <= ItemLimit]]
  BY DEF Collect
<1>f. /\ \A q \in RunIds : q # r => jobRuns'[q] = jobRuns[q]
      /\ jobRuns'[r].outcome = jobRuns[r].outcome /\ jobRuns'[r].dry = jobRuns[r].dry
      /\ jobRuns'[r].batch.items = Newest(W) /\ jobRuns'[r].batch.next = upper
      /\ jobRuns'[r].batch.complete => Cardinality(W) <= ItemLimit
  BY <1>a, <1>e DEF StreamInv, StreamType, RunRow
<1>g. /\ instant' = upper /\ launcher[p].pc = "collect"
      /\ launcher' = [launcher EXCEPT ![p].pc = "reason"]
      /\ UNCHANGED <<posted, jobCursor, dispositions, effects, escalated, reviewTasks, jobLock>>
  BY DEF Collect, LauncherAt
<1>h. \A q \in Launchers : q # p => launcher[q].pc = "idle"
  BY <1>g DEF StreamInv, OneAtWork
<1>i. /\ \A q \in Launchers : q # p => launcher'[q] = launcher[q]
      /\ launcher'[p].pc = "reason" /\ launcher'[p].run = r
  BY <1>g DEF StreamInv, StreamType, LauncherRow
<1> HIDE DEF r, upper, W
<1>1. StreamType'
  <2>1. launcher' \in [Launchers -> LauncherRow]
    <3>1. [launcher[p] EXCEPT !.pc = "reason"] \in LauncherRow
      BY DEF StreamInv, StreamType, LauncherRow, PCs
    <3> QED
      BY <1>g, <3>1 DEF StreamInv, StreamType
  <2>2. jobRuns' \in [RunIds -> RunRow]
    <3>1. (Cardinality(W) <= ItemLimit) \in BOOLEAN
      OBVIOUS
    <3> QED
      BY <1>a, <1>d, <1>e, <3>1 DEF StreamInv, StreamType, RunRow
  <2> QED
    BY <1>a, <1>g, <2>1, <2>2 DEF StreamInv, StreamType
<1>2. Instants'
  <2>1. instant < upper /\ \A i \in Items : posted[i] \in Nat
    BY <1>a DEF StreamInv, StreamType, upper
  <2>2. \A q \in RunIds : jobRuns[q].batch.next \in Nat
    BY DEF StreamInv, StreamType, RunRow
  <2>3. \A q \in RunIds :
          /\ jobRuns'[q].batch.next <= upper
          /\ \A i \in Items : posted[i] # 0 => posted[i] # jobRuns'[q].batch.next
    BY <1>a, <1>f, <2>1, <2>2 DEF StreamInv, Instants
  <2> QED
    BY <1>a, <1>g, <2>1, <2>3 DEF StreamInv, StreamType, Instants
<1>3. OneAtWork'
  BY <1>a, <1>f, <1>g, <1>h, <1>i DEF StreamInv, OneAtWork, Working, RunOfLauncher
<1>4. WindowCovered'
  <2>1. ASSUME NEW i \in Items, posted[i] > jobCursor, posted[i] < upper,
               LookbackCovers \/ jobCursor # 0 \/ posted[i] + Lookback > upper
        PROVE  i \in W
    <3>1. /\ posted[i] \in Nat /\ jobCursor \in Nat /\ upper \in Nat /\ Lookback \in Nat
      BY <1>a, StreamAssumption DEF StreamInv, StreamType
    <3>2. posted[i] > WindowStart(upper)
      BY <1>b, <2>1, <3>1 DEF WindowStart
    <3> QED
      BY <2>1, <3>2 DEF W, Window
  <2>2. jobCursor < upper
    BY <1>a DEF StreamInv, StreamType, Instants, upper
  <2> QED
    BY <1>a, <1>c, <1>f, <1>g, <1>h, <1>i, <2>1, <2>2 DEF WindowCovered, Working, RunOfLauncher
<1>5. OnTheWay'
  BY <1>h, <1>i DEF OnTheWay, Succeeding
<1>6. StaysSettled
  BY <1>a, <1>f, <1>g DEF StaysSettled, SettledBy
<1>7. LookbackCovers => NothingSkipped'
  BY <1>6, <1>g DEF StreamInv, StreamType, NothingSkipped, Settled, StaysSettled, LookbackCovers
<1>8. BlockedReachesUser'
  BY <1>a, <1>f, <1>g DEF StreamInv, BlockedReachesUser, SettledBy
<1> QED
  BY <1>1, <1>2, <1>3, <1>4, <1>5, <1>7, <1>8 DEF StreamInv, LookbackCovers

\* A disposition is recorded once, for the run in progress.
LEMMA RecordDispositionKeeps ==
  ASSUME StreamInv, NEW p \in Launchers, NEW i \in Items, NEW kind \in {"declined", "blocked",
         "effect_reserved"}, RecordDisposition(p, i, kind)
  PROVE  StreamInv'
<1>1. StreamType'
  BY DEF StreamInv, RecordDisposition, StreamType, RunRow, Outcomes, Kinds, Statuses, OneAtWork,
         Working, RunOfLauncher, RunIds
<1>2. Instants' /\ OneAtWork' /\ WindowCovered'
  BY DEF StreamInv, RecordDisposition, Instants, OneAtWork, WindowCovered, RunOfLauncher
<1>5. OnTheWay'
  BY DEF StreamInv, RecordDisposition, StreamType, RunRow, LauncherRow, OneAtWork, OnTheWay,
         Succeeding, Accounted, Missing, Blocked, Working, RunOfLauncher
<1>6. StaysSettled
  BY DEF StreamInv, RecordDisposition, StreamType, RunRow, LauncherRow, OneAtWork, StaysSettled,
         SettledBy, Working, RunOfLauncher
<1>7. LookbackCovers => NothingSkipped'
  BY <1>6 DEF StreamInv, RecordDisposition, StreamType, Instants, NothingSkipped, Settled,
     StaysSettled, LookbackCovers
<1>8. BlockedReachesUser'
  BY DEF StreamInv, RecordDisposition, StreamType, RunRow, LauncherRow, OneAtWork,
         BlockedReachesUser, SettledBy, Working, RunOfLauncher
<1> QED
  BY <1>1, <1>2, <1>5, <1>7, <1>8 DEF StreamInv, LookbackCovers

\* A performed action is never reserved again.
LEMMA ReserveItemKeeps ==
  ASSUME StreamInv, NEW p \in Launchers, NEW i \in Items, ReserveItem(p, i)
  PROVE  StreamInv'
<1>1. StreamType'
  BY DEF StreamInv, ReserveItem, StreamType, RunRow, Outcomes, Kinds, Statuses, OneAtWork,
         Working, RunOfLauncher, RunIds
<1>2. Instants' /\ OneAtWork' /\ WindowCovered'
  BY DEF StreamInv, ReserveItem, Instants, OneAtWork, WindowCovered, RunOfLauncher
<1>5. OnTheWay'
  BY DEF StreamInv, ReserveItem, StreamType, RunRow, LauncherRow, OneAtWork, OnTheWay,
         Succeeding, Accounted, Missing, Blocked, Working, RunOfLauncher
<1>6. StaysSettled
  BY DEF StreamInv, ReserveItem, StreamType, RunRow, LauncherRow, OneAtWork, StaysSettled,
         SettledBy, Working, RunOfLauncher
<1>7. LookbackCovers => NothingSkipped'
  BY <1>6 DEF StreamInv, ReserveItem, StreamType, Instants, NothingSkipped, Settled,
     StaysSettled, LookbackCovers
<1>8. BlockedReachesUser'
  BY DEF StreamInv, ReserveItem, StreamType, RunRow, LauncherRow, OneAtWork, BlockedReachesUser,
         SettledBy, Working, RunOfLauncher
<1> QED
  BY <1>1, <1>2, <1>5, <1>7, <1>8 DEF StreamInv, LookbackCovers

\* Only a reserved action is resolved.
LEMMA ResolveItemKeeps ==
  ASSUME StreamInv, NEW p \in Launchers, NEW i \in Items, NEW d \in {"performed",
         "not_performed", "in_doubt"}, ResolveItem(p, i, d)
  PROVE  StreamInv'
<1>1. StreamType'
  BY DEF StreamInv, ResolveItem, StreamType, RunRow, Outcomes, Kinds, Statuses, OneAtWork,
         Working, RunOfLauncher, RunIds
<1>2. Instants' /\ OneAtWork' /\ WindowCovered'
  BY DEF StreamInv, ResolveItem, Instants, OneAtWork, WindowCovered, RunOfLauncher
<1>5. OnTheWay'
  BY DEF StreamInv, ResolveItem, StreamType, RunRow, LauncherRow, OneAtWork, OnTheWay,
         Succeeding, Accounted, Missing, Blocked, Working, RunOfLauncher
<1>6. StaysSettled
  BY DEF StreamInv, ResolveItem, StreamType, RunRow, LauncherRow, OneAtWork, StaysSettled,
         SettledBy, Working, RunOfLauncher
<1>7. LookbackCovers => NothingSkipped'
  BY <1>6 DEF StreamInv, ResolveItem, StreamType, Instants, NothingSkipped, Settled,
     StaysSettled, LookbackCovers
<1>8. BlockedReachesUser'
  BY DEF StreamInv, ResolveItem, StreamType, RunRow, LauncherRow, OneAtWork, BlockedReachesUser,
         SettledBy, Working, RunOfLauncher
<1> QED
  BY <1>1, <1>2, <1>5, <1>7, <1>8 DEF StreamInv, LookbackCovers

\* A run goes on to success only when it is accounted for.
LEMMA FinishReasoningKeeps ==
  ASSUME StreamInv, NEW p \in Launchers, FinishReasoning(p)
  PROVE  StreamInv'
<1> DEFINE r == launcher[p].run
<1>a. /\ \A q \in Launchers : q # p => launcher'[q] = launcher[q] /\ launcher[q].pc = "idle"
      /\ launcher'[p].run = r /\ r \in RunIds
  BY DEF FinishReasoning, EndsWith, StreamInv, StreamType, LauncherRow, OneAtWork, Working
<1>b. \/ launcher'[p].pc = "closing" /\ launcher'[p].outcome = "failed"
      \/ launcher'[p].pc = "closing" /\ jobRuns[r].dry /\ Accounted(r)
      \/ launcher'[p].pc = "escalate" /\ launcher'[p].todo = Blocked(r) /\ Accounted(r)
  BY DEF FinishReasoning, EndsWith, StreamInv, StreamType, LauncherRow
<1>c. UNCHANGED <<streamTables, jobLock>>
  BY DEF FinishReasoning
<1>d. Accounted(r)' = Accounted(r) /\ Blocked(r)' = Blocked(r)
  BY <1>a, <1>c DEF streamTables, Accounted, Blocked, Missing
<1>1. StreamType'
  <2>1. launcher'[p] \in LauncherRow
    <3>1. Blocked(r) \in SUBSET Items
      BY DEF Blocked
    <3>2. launcher'[p] \in {[launcher[p] EXCEPT !.pc = "closing", !.outcome = "failed"],
                            [launcher[p] EXCEPT !.pc = "closing", !.outcome = "succeeded"],
                            [launcher[p] EXCEPT !.pc = "escalate", !.todo = Blocked(r)]}
      BY DEF FinishReasoning, EndsWith, StreamInv, StreamType
    <3>3. launcher[p] \in LauncherRow
      BY DEF StreamInv, StreamType
    <3> QED
      BY <3>1, <3>2, <3>3 DEF LauncherRow, PCs
  <2>2. launcher' = [launcher EXCEPT ![p] = launcher'[p]]
    BY DEF FinishReasoning, EndsWith, StreamInv, StreamType
  <2>3. launcher' \in [Launchers -> LauncherRow]
    BY <2>1, <2>2 DEF StreamInv, StreamType
  <2> QED
    BY <1>c, <2>3 DEF StreamInv, StreamType, streamTables
<1>2. Instants'
  BY DEF StreamInv, streamTables, FinishReasoning, EndsWith, Instants
<1>3. OneAtWork'
  BY DEF StreamInv, streamTables, FinishReasoning, EndsWith, StreamType, RunRow, LauncherRow,
         OneAtWork, Working, RunOfLauncher
<1>4. WindowCovered'
  BY DEF StreamInv, streamTables, FinishReasoning, EndsWith, StreamType, RunRow, LauncherRow,
         Instants, OneAtWork, WindowCovered, Working, RunOfLauncher
<1>5. OnTheWay'
  BY <1>a, <1>b, <1>c, <1>d DEF streamTables, OnTheWay, Succeeding, RunOfLauncher
<1>6. StaysSettled
  BY DEF StreamInv, streamTables, FinishReasoning, EndsWith, StreamType, RunRow, LauncherRow,
         OneAtWork, StaysSettled, SettledBy, Working, RunOfLauncher
<1>7. LookbackCovers => NothingSkipped'
  BY <1>6 DEF StreamInv, streamTables, FinishReasoning, EndsWith, StreamType, Instants,
     NothingSkipped, Settled, StaysSettled, LookbackCovers
<1>8. BlockedReachesUser'
  BY DEF StreamInv, streamTables, FinishReasoning, EndsWith, StreamType, RunRow, LauncherRow,
         OneAtWork, BlockedReachesUser, SettledBy, Working, RunOfLauncher
<1> QED
  BY <1>1, <1>2, <1>3, <1>4, <1>5, <1>7, <1>8 DEF StreamInv, LookbackCovers

\* A run that is aborted will not count.
LEMMA AbortReasoningKeeps ==
  ASSUME StreamInv, NEW p \in Launchers, AbortReasoning(p)
  PROVE  StreamInv'
<1>1. StreamType'
  <2>1. launcher'[p] \in LauncherRow
    BY DEF StreamInv, streamTables, AbortReasoning, EndsWith, StreamType, LauncherRow, PCs, Blocked
  <2>2. launcher' = [launcher EXCEPT ![p] = launcher'[p]]
    BY DEF StreamInv, streamTables, AbortReasoning, EndsWith, StreamType
  <2>3. launcher' \in [Launchers -> LauncherRow]
    BY <2>1, <2>2 DEF StreamInv, StreamType
  <2> QED
    BY <2>3 DEF StreamInv, streamTables, AbortReasoning, EndsWith, StreamType, RunRow, Outcomes,
       Kinds, Statuses, OneAtWork, Working, RunOfLauncher, RunIds, LauncherRow
<1>2. Instants'
  BY DEF StreamInv, streamTables, AbortReasoning, EndsWith, Instants
<1>3. OneAtWork'
  BY DEF StreamInv, streamTables, AbortReasoning, EndsWith, StreamType, RunRow, LauncherRow,
         OneAtWork, Working, RunOfLauncher
<1>4. WindowCovered'
  BY DEF StreamInv, streamTables, AbortReasoning, EndsWith, StreamType, RunRow, LauncherRow,
         Instants, OneAtWork, WindowCovered, Working, RunOfLauncher
<1>5. OnTheWay'
  BY DEF StreamInv, streamTables, AbortReasoning, EndsWith, StreamType, RunRow, LauncherRow,
         OneAtWork, OnTheWay, Succeeding, Accounted, Missing, Blocked, Working, RunOfLauncher
<1>6. StaysSettled
  BY DEF StreamInv, streamTables, AbortReasoning, EndsWith, StreamType, RunRow, LauncherRow,
         OneAtWork, StaysSettled, SettledBy, Working, RunOfLauncher
<1>7. LookbackCovers => NothingSkipped'
  BY <1>6 DEF StreamInv, streamTables, AbortReasoning, EndsWith, StreamType, Instants,
     NothingSkipped, Settled, StaysSettled, LookbackCovers
<1>8. BlockedReachesUser'
  BY DEF StreamInv, streamTables, AbortReasoning, EndsWith, StreamType, RunRow, LauncherRow,
         OneAtWork, BlockedReachesUser, SettledBy, Working, RunOfLauncher
<1> QED
  BY <1>1, <1>2, <1>3, <1>4, <1>5, <1>7, <1>8 DEF StreamInv, LookbackCovers

\* An item leaves the list when its escalation exists.
LEMMA UpdateEscalationKeeps ==
  ASSUME StreamInv, NEW p \in Launchers, NEW i \in Items, UpdateEscalation(p, i)
  PROVE  StreamInv'
<1>1. StreamType'
  <2>1. launcher'[p] \in LauncherRow
    BY DEF StreamInv, streamTables, UpdateEscalation, StreamType, LauncherRow, PCs, Blocked
  <2>2. launcher' = [launcher EXCEPT ![p] = launcher'[p]]
    BY DEF StreamInv, streamTables, UpdateEscalation, StreamType
  <2>3. launcher' \in [Launchers -> LauncherRow]
    BY <2>1, <2>2 DEF StreamInv, StreamType
  <2> QED
    BY <2>3 DEF StreamInv, streamTables, UpdateEscalation, StreamType, RunRow, Outcomes, Kinds,
       Statuses, OneAtWork, Working, RunOfLauncher, RunIds, LauncherRow
<1>2. Instants'
  BY DEF StreamInv, streamTables, UpdateEscalation, Instants
<1>3. OneAtWork'
  BY DEF StreamInv, streamTables, UpdateEscalation, StreamType, RunRow, LauncherRow, OneAtWork,
         Working, RunOfLauncher
<1>4. WindowCovered'
  BY DEF StreamInv, streamTables, UpdateEscalation, StreamType, RunRow, LauncherRow, Instants,
         OneAtWork, WindowCovered, Working, RunOfLauncher
<1>5. OnTheWay'
  BY DEF StreamInv, streamTables, UpdateEscalation, StreamType, RunRow, LauncherRow, OneAtWork,
         OnTheWay, Succeeding, Accounted, Missing, Blocked, Working, RunOfLauncher
<1>6. StaysSettled
  BY DEF StreamInv, streamTables, UpdateEscalation, StreamType, RunRow, LauncherRow, OneAtWork,
         StaysSettled, SettledBy, Working, RunOfLauncher
<1>7. LookbackCovers => NothingSkipped'
  BY <1>6 DEF StreamInv, streamTables, UpdateEscalation, StreamType, Instants, NothingSkipped,
     Settled, StaysSettled, LookbackCovers
<1>8. BlockedReachesUser'
  BY DEF StreamInv, streamTables, UpdateEscalation, StreamType, RunRow, LauncherRow, OneAtWork,
         BlockedReachesUser, SettledBy, Working, RunOfLauncher
<1> QED
  BY <1>1, <1>2, <1>3, <1>4, <1>5, <1>7, <1>8 DEF StreamInv, LookbackCovers

\* The task alone changes nothing in the ledger of the job.
LEMMA CreateEscalationKeeps ==
  ASSUME StreamInv, NEW p \in Launchers, NEW i \in Items, CreateEscalation(p, i)
  PROVE  StreamInv'
<1>1. StreamType'
  <2>1. launcher'[p] \in LauncherRow
    BY DEF StreamInv, CreateEscalation, StreamType, LauncherRow, PCs, Blocked
  <2>2. launcher' = [launcher EXCEPT ![p] = launcher'[p]]
    BY DEF StreamInv, CreateEscalation, StreamType
  <2>3. launcher' \in [Launchers -> LauncherRow]
    BY <2>1, <2>2 DEF StreamInv, StreamType
  <2> QED
    BY <2>3 DEF StreamInv, CreateEscalation, StreamType, RunRow, Outcomes, Kinds, Statuses,
       OneAtWork, Working, RunOfLauncher, RunIds, LauncherRow
<1>2. Instants'
  BY DEF StreamInv, CreateEscalation, Instants
<1>3. OneAtWork'
  BY DEF StreamInv, CreateEscalation, StreamType, RunRow, LauncherRow, OneAtWork, Working,
         RunOfLauncher
<1>4. WindowCovered'
  BY DEF StreamInv, CreateEscalation, StreamType, RunRow, LauncherRow, Instants, OneAtWork,
         WindowCovered, Working, RunOfLauncher
<1>5. OnTheWay'
  BY DEF StreamInv, CreateEscalation, StreamType, RunRow, LauncherRow, OneAtWork, OnTheWay,
         Succeeding, Accounted, Missing, Blocked, Working, RunOfLauncher
<1>6. StaysSettled
  BY DEF StreamInv, CreateEscalation, StreamType, RunRow, LauncherRow, OneAtWork, StaysSettled,
         SettledBy, Working, RunOfLauncher
<1>7. LookbackCovers => NothingSkipped'
  BY <1>6 DEF StreamInv, CreateEscalation, StreamType, Instants, NothingSkipped, Settled,
     StaysSettled, LookbackCovers
<1>8. BlockedReachesUser'
  BY DEF StreamInv, CreateEscalation, StreamType, RunRow, LauncherRow, OneAtWork,
         BlockedReachesUser, SettledBy, Working, RunOfLauncher
<1> QED
  BY <1>1, <1>2, <1>3, <1>4, <1>5, <1>7, <1>8 DEF StreamInv, LookbackCovers

\* The correlation escalates the item that leaves the list.
LEMMA CorrelateEscalationKeeps ==
  ASSUME StreamInv, NEW p \in Launchers, CorrelateEscalation(p)
  PROVE  StreamInv'
<1>1. StreamType'
  <2>1. launcher'[p] \in LauncherRow
    BY DEF StreamInv, CorrelateEscalation, StreamType, LauncherRow, PCs, Blocked
  <2>2. launcher' = [launcher EXCEPT ![p] = launcher'[p]]
    BY DEF StreamInv, CorrelateEscalation, StreamType
  <2>3. launcher' \in [Launchers -> LauncherRow]
    BY <2>1, <2>2 DEF StreamInv, StreamType
  <2> QED
    BY <2>3 DEF StreamInv, CorrelateEscalation, StreamType, RunRow, Outcomes, Kinds, Statuses,
       OneAtWork, Working, RunOfLauncher, RunIds, LauncherRow
<1>2. Instants'
  BY DEF StreamInv, CorrelateEscalation, Instants
<1>3. OneAtWork'
  BY DEF StreamInv, CorrelateEscalation, StreamType, RunRow, LauncherRow, OneAtWork, Working,
         RunOfLauncher
<1>4. WindowCovered'
  BY DEF StreamInv, CorrelateEscalation, StreamType, RunRow, LauncherRow, Instants, OneAtWork,
         WindowCovered, Working, RunOfLauncher
<1>5. OnTheWay'
  <2>1. \A q \in Launchers : q # p => launcher'[q] = launcher[q] /\ launcher[q].pc = "idle"
    BY DEF StreamInv, CorrelateEscalation, StreamType, OneAtWork
  <2>2. /\ launcher[p].pc = "correlate"
        /\ launcher'[p].pc = "escalate" /\ launcher'[p].run = launcher[p].run
        /\ launcher'[p].todo = launcher[p].todo \ launcher[p].current
        /\ escalated' = escalated \cup launcher[p].current
    BY DEF StreamInv, CorrelateEscalation, StreamType, LauncherRow
  <2>3. /\ Accounted(launcher[p].run)' = Accounted(launcher[p].run)
        /\ Blocked(launcher[p].run)' = Blocked(launcher[p].run)
    BY <2>2 DEF CorrelateEscalation, Accounted, Missing, Blocked
  <2> QED
    BY <2>1, <2>2, <2>3 DEF StreamInv, OnTheWay, Succeeding
<1>6. StaysSettled
  BY DEF StreamInv, CorrelateEscalation, StreamType, RunRow, LauncherRow, OneAtWork,
         StaysSettled, SettledBy, Working, RunOfLauncher
<1>7. LookbackCovers => NothingSkipped'
  BY <1>6 DEF StreamInv, CorrelateEscalation, StreamType, Instants, NothingSkipped, Settled,
     StaysSettled, LookbackCovers
<1>8. BlockedReachesUser'
  BY DEF StreamInv, CorrelateEscalation, StreamType, RunRow, LauncherRow, OneAtWork,
         BlockedReachesUser, SettledBy, Working, RunOfLauncher
<1> QED
  BY <1>1, <1>2, <1>3, <1>4, <1>5, <1>7, <1>8 DEF StreamInv, LookbackCovers

\* A run whose escalation fails will not count.
LEMMA EscalationFailsKeeps ==
  ASSUME StreamInv, NEW p \in Launchers, EscalationFails(p)
  PROVE  StreamInv'
<1>1. StreamType'
  <2>1. launcher'[p] \in LauncherRow
    BY DEF StreamInv, streamTables, EscalationFails, EndsWith, StreamType, LauncherRow, PCs, Blocked
  <2>2. launcher' = [launcher EXCEPT ![p] = launcher'[p]]
    BY DEF StreamInv, streamTables, EscalationFails, EndsWith, StreamType
  <2>3. launcher' \in [Launchers -> LauncherRow]
    BY <2>1, <2>2 DEF StreamInv, StreamType
  <2> QED
    BY <2>3 DEF StreamInv, streamTables, EscalationFails, EndsWith, StreamType, RunRow, Outcomes,
       Kinds, Statuses, OneAtWork, Working, RunOfLauncher, RunIds, LauncherRow
<1>2. Instants'
  BY DEF StreamInv, streamTables, EscalationFails, EndsWith, Instants
<1>3. OneAtWork'
  BY DEF StreamInv, streamTables, EscalationFails, EndsWith, StreamType, RunRow, LauncherRow,
         OneAtWork, Working, RunOfLauncher
<1>4. WindowCovered'
  BY DEF StreamInv, streamTables, EscalationFails, EndsWith, StreamType, RunRow, LauncherRow,
         Instants, OneAtWork, WindowCovered, Working, RunOfLauncher
<1>5. OnTheWay'
  BY DEF StreamInv, streamTables, EscalationFails, EndsWith, StreamType, RunRow, LauncherRow,
         OneAtWork, OnTheWay, Succeeding, Accounted, Missing, Blocked, Working, RunOfLauncher
<1>6. StaysSettled
  BY DEF StreamInv, streamTables, EscalationFails, EndsWith, StreamType, RunRow, LauncherRow,
         OneAtWork, StaysSettled, SettledBy, Working, RunOfLauncher
<1>7. LookbackCovers => NothingSkipped'
  BY <1>6 DEF StreamInv, streamTables, EscalationFails, EndsWith, StreamType, Instants,
     NothingSkipped, Settled, StaysSettled, LookbackCovers
<1>8. BlockedReachesUser'
  BY DEF StreamInv, streamTables, EscalationFails, EndsWith, StreamType, RunRow, LauncherRow,
         OneAtWork, BlockedReachesUser, SettledBy, Working, RunOfLauncher
<1> QED
  BY <1>1, <1>2, <1>3, <1>4, <1>5, <1>7, <1>8 DEF StreamInv, LookbackCovers

\* With an empty list every blocked item is escalated.
LEMMA FinishEscalationKeeps ==
  ASSUME StreamInv, NEW p \in Launchers, FinishEscalation(p)
  PROVE  StreamInv'
<1>1. StreamType'
  <2>1. launcher'[p] \in LauncherRow
    BY DEF StreamInv, streamTables, FinishEscalation, EndsWith, StreamType, LauncherRow, PCs,
           Blocked
  <2>2. launcher' = [launcher EXCEPT ![p] = launcher'[p]]
    BY DEF StreamInv, streamTables, FinishEscalation, EndsWith, StreamType
  <2>3. launcher' \in [Launchers -> LauncherRow]
    BY <2>1, <2>2 DEF StreamInv, StreamType
  <2> QED
    BY <2>3 DEF StreamInv, streamTables, FinishEscalation, EndsWith, StreamType, RunRow,
       Outcomes, Kinds, Statuses, OneAtWork, Working, RunOfLauncher, RunIds, LauncherRow
<1>2. Instants'
  BY DEF StreamInv, streamTables, FinishEscalation, EndsWith, Instants
<1>3. OneAtWork'
  BY DEF StreamInv, streamTables, FinishEscalation, EndsWith, StreamType, RunRow, LauncherRow,
         OneAtWork, Working, RunOfLauncher
<1>4. WindowCovered'
  BY DEF StreamInv, streamTables, FinishEscalation, EndsWith, StreamType, RunRow, LauncherRow,
         Instants, OneAtWork, WindowCovered, Working, RunOfLauncher
<1>5. OnTheWay'
  BY DEF StreamInv, streamTables, FinishEscalation, EndsWith, StreamType, RunRow, LauncherRow,
         OneAtWork, OnTheWay, Succeeding, Accounted, Missing, Blocked, Working, RunOfLauncher
<1>6. StaysSettled
  BY DEF StreamInv, streamTables, FinishEscalation, EndsWith, StreamType, RunRow, LauncherRow,
         OneAtWork, StaysSettled, SettledBy, Working, RunOfLauncher
<1>7. LookbackCovers => NothingSkipped'
  BY <1>6 DEF StreamInv, streamTables, FinishEscalation, EndsWith, StreamType, Instants,
     NothingSkipped, Settled, StaysSettled, LookbackCovers
<1>8. BlockedReachesUser'
  BY DEF StreamInv, streamTables, FinishEscalation, EndsWith, StreamType, RunRow, LauncherRow,
         OneAtWork, BlockedReachesUser, SettledBy, Working, RunOfLauncher
<1> QED
  BY <1>1, <1>2, <1>3, <1>4, <1>5, <1>7, <1>8 DEF StreamInv, LookbackCovers

\* A run that succeeds has been accounted for and escalated.
LEMMA RecordOutcomeKeeps ==
  ASSUME StreamInv, NEW p \in Launchers, RecordOutcome(p)
  PROVE  StreamInv'
<1>1. StreamType'
  <2>1. PICK outcome \in {launcher[p].outcome, "failed"} :
          /\ jobRuns' = [jobRuns EXCEPT ![launcher[p].run].outcome = outcome]
          /\ LauncherAt(p, IF outcome = "succeeded" /\ ~RunOfLauncher(p).dry
                             THEN "commit" ELSE "unlock")
    BY DEF RecordOutcome
  <2>2. launcher'[p] \in LauncherRow
    BY <2>1 DEF LauncherAt, StreamInv, StreamType, LauncherRow, PCs
  <2>3. launcher' = [launcher EXCEPT ![p] = launcher'[p]]
    BY <2>1 DEF LauncherAt, StreamInv, StreamType
  <2>4. launcher' \in [Launchers -> LauncherRow]
    BY <2>2, <2>3 DEF StreamInv, StreamType
  <2>5. outcome \in Outcomes /\ launcher[p].run \in RunIds
    BY DEF RecordOutcome, StreamInv, StreamType, LauncherRow, Outcomes, OneAtWork, Working
  <2>6. jobRuns' \in [RunIds -> RunRow]
    BY <2>1, <2>5 DEF StreamInv, StreamType, RunRow
  <2> QED
    BY <2>4, <2>6 DEF RecordOutcome, StreamInv, StreamType
<1>2. Instants'
  BY DEF StreamInv, RecordOutcome, LauncherAt, StreamType, RunRow, Instants, OneAtWork, Working,
         RunOfLauncher
<1>3. OneAtWork'
  BY DEF StreamInv, RecordOutcome, LauncherAt, StreamType, RunRow, LauncherRow, OneAtWork,
         Working, RunOfLauncher
<1>4. WindowCovered'
  BY DEF StreamInv, RecordOutcome, LauncherAt, StreamType, RunRow, LauncherRow, Instants,
         OneAtWork, WindowCovered, Working, RunOfLauncher
<1>5. OnTheWay'
  BY DEF StreamInv, RecordOutcome, LauncherAt, StreamType, RunRow, LauncherRow, OneAtWork,
         OnTheWay, Succeeding, Accounted, Missing, Blocked, Working, RunOfLauncher
<1>6. StaysSettled
  BY DEF StreamInv, RecordOutcome, LauncherAt, StreamType, RunRow, LauncherRow, OneAtWork,
         StaysSettled, SettledBy, Working, RunOfLauncher
<1>7. LookbackCovers => NothingSkipped'
  BY <1>6 DEF StreamInv, RecordOutcome, LauncherAt, StreamType, Instants, NothingSkipped,
     Settled, StaysSettled, LookbackCovers
<1>8. BlockedReachesUser'
  <2>1. PICK outcome \in {launcher[p].outcome, "failed"} :
          jobRuns' = [jobRuns EXCEPT ![launcher[p].run].outcome = outcome]
    BY DEF RecordOutcome
  <2>2. launcher[p].pc = "closing" /\ UNCHANGED <<dispositions, effects, escalated>>
    BY DEF RecordOutcome
  <2>3. SUFFICES ASSUME NEW r \in RunIds, NEW i \in Items, SettledBy(r, i)',
                        dispositions[r][i] = "blocked"
                 PROVE  i \in escalated
    BY <2>2 DEF BlockedReachesUser
  <2>4. CASE r # launcher[p].run
    BY <2>1, <2>2, <2>3, <2>4 DEF StreamInv, StreamType, SettledBy, BlockedReachesUser
  <2>5. CASE r = launcher[p].run
    <3>1. outcome = "succeeded" /\ ~jobRuns[r].dry
      BY <2>1, <2>3, <2>5 DEF StreamInv, StreamType, RunRow, SettledBy
    <3>2. launcher[p].outcome = "succeeded"
      BY <2>1, <3>1
    <3> QED
      BY <2>2, <2>3, <2>5, <3>1, <3>2 DEF StreamInv, OnTheWay, Blocked, RunOfLauncher
  <2> QED
    BY <2>4, <2>5
<1> QED
  BY <1>1, <1>2, <1>3, <1>4, <1>5, <1>7, <1>8 DEF StreamInv, LookbackCovers

\* The cursor moves to the end of a window that was settled.
LEMMA CommitCursorKeeps ==
  ASSUME StreamInv, NEW p \in Launchers, CommitCursor(p)
  PROVE  StreamInv'
<1>1. StreamType'
  <2>1. launcher'[p] \in LauncherRow
    BY DEF StreamInv, CommitCursor, LauncherAt, StreamType, LauncherRow, PCs, Blocked
  <2>2. launcher' = [launcher EXCEPT ![p] = launcher'[p]]
    BY DEF StreamInv, CommitCursor, LauncherAt, StreamType
  <2>3. launcher' \in [Launchers -> LauncherRow]
    BY <2>1, <2>2 DEF StreamInv, StreamType
  <2> QED
    BY <2>3 DEF StreamInv, CommitCursor, LauncherAt, StreamType, RunRow, Outcomes, Kinds,
       Statuses, OneAtWork, Working, RunOfLauncher, RunIds, LauncherRow
<1>2. Instants'
  BY DEF StreamInv, CommitCursor, LauncherAt, StreamType, RunRow, Instants, OneAtWork, Working,
         RunOfLauncher
<1>3. OneAtWork'
  BY DEF StreamInv, CommitCursor, LauncherAt, StreamType, RunRow, LauncherRow, OneAtWork,
         Working, RunOfLauncher
<1>4. WindowCovered'
  BY DEF StreamInv, CommitCursor, LauncherAt, StreamType, RunRow, LauncherRow, Instants,
         OneAtWork, WindowCovered, Working, RunOfLauncher
<1>5. OnTheWay'
  BY DEF StreamInv, CommitCursor, LauncherAt, StreamType, RunRow, LauncherRow, OneAtWork,
         OnTheWay, Succeeding, Accounted, Missing, Blocked, Working, RunOfLauncher
<1>6. StaysSettled
  BY DEF StreamInv, CommitCursor, LauncherAt, StreamType, RunRow, LauncherRow, OneAtWork,
         StaysSettled, SettledBy, Working, RunOfLauncher
<1>7. LookbackCovers => NothingSkipped'
  <2>1. SUFFICES ASSUME LookbackCovers, NEW i \in Items, posted'[i] \in 1..(jobCursor' - 1)
                 PROVE  Settled(i)'
    BY DEF NothingSkipped
  <2> DEFINE r == launcher[p].run
  <2>2. r \in RunIds /\ jobRuns[r].outcome = "succeeded" /\ ~jobRuns[r].dry /\ Accounted(r)
    BY DEF CommitCursor, StreamInv, OneAtWork, OnTheWay, Succeeding, RunOfLauncher
  <2>3. CASE posted[i] \in 1..(jobCursor - 1)
    BY <1>6, <2>1, <2>3 DEF StreamInv, NothingSkipped, Settled, StaysSettled, LookbackCovers
  <2>4. CASE posted[i] \notin 1..(jobCursor - 1)
    <3>0. posted' = posted /\ jobCursor' \in {jobCursor, jobRuns[r].batch.next}
      BY DEF CommitCursor, RunOfLauncher
    <3>. posted[i] \in Nat /\ jobCursor \in Nat /\ (posted[i] # 0 => posted[i] # jobCursor)
      BY DEF StreamInv, StreamType, Instants
    <3>. jobRuns[r].batch.next \in Nat
      BY <2>2 DEF StreamInv, StreamType, RunRow
    <3>1. posted[i] > jobCursor /\ posted[i] < jobRuns[r].batch.next
      BY <2>1, <2>4, <3>0
    <3>2. i \in jobRuns[r].batch.items
      BY <2>1, <2>2, <3>1 DEF CommitCursor, StreamInv, WindowCovered, Accounted, RunOfLauncher
    <3>3. SettledBy(r, i)
      BY <2>2, <3>2 DEF Accounted, Missing, SettledBy
    <3> QED
      BY <1>6, <2>2, <3>3 DEF Settled, StaysSettled
  <2> QED
    BY <2>3, <2>4
<1>8. BlockedReachesUser'
  BY DEF StreamInv, CommitCursor, LauncherAt, StreamType, RunRow, LauncherRow, OneAtWork,
         BlockedReachesUser, SettledBy, Working, RunOfLauncher
<1> QED
  BY <1>1, <1>2, <1>3, <1>4, <1>5, <1>7, <1>8 DEF StreamInv, LookbackCovers

\* The lock is given back when nothing is left to do.
LEMMA UnlockKeeps ==
  ASSUME StreamInv, NEW p \in Launchers, Unlock(p)
  PROVE  StreamInv'
<1>1. StreamType'
  <2>1. launcher'[p] \in LauncherRow
    BY DEF StreamInv, streamTables, Unlock, IdleLauncher, StreamType, LauncherRow, PCs, Blocked
  <2>2. launcher' = [launcher EXCEPT ![p] = launcher'[p]]
    BY DEF StreamInv, streamTables, Unlock, IdleLauncher, StreamType
  <2>3. launcher' \in [Launchers -> LauncherRow]
    BY <2>1, <2>2 DEF StreamInv, StreamType
  <2> QED
    BY <2>3 DEF StreamInv, streamTables, Unlock, IdleLauncher, StreamType, RunRow, Outcomes,
       Kinds, Statuses, OneAtWork, Working, RunOfLauncher, RunIds, LauncherRow
<1>2. Instants'
  BY DEF StreamInv, streamTables, Unlock, IdleLauncher, Instants
<1>3. OneAtWork'
  BY DEF StreamInv, streamTables, Unlock, IdleLauncher, StreamType, RunRow, LauncherRow,
         OneAtWork, Working, RunOfLauncher
<1>4. WindowCovered'
  BY DEF StreamInv, streamTables, Unlock, IdleLauncher, StreamType, RunRow, LauncherRow,
         Instants, OneAtWork, WindowCovered, Working, RunOfLauncher
<1>5. OnTheWay'
  BY DEF StreamInv, streamTables, Unlock, IdleLauncher, StreamType, RunRow, LauncherRow,
         OneAtWork, OnTheWay, Succeeding, Accounted, Missing, Blocked, Working, RunOfLauncher
<1>6. StaysSettled
  BY DEF StreamInv, streamTables, Unlock, IdleLauncher, StreamType, RunRow, LauncherRow,
         OneAtWork, StaysSettled, SettledBy, Working, RunOfLauncher
<1>7. LookbackCovers => NothingSkipped'
  BY <1>6 DEF StreamInv, streamTables, Unlock, IdleLauncher, StreamType, Instants,
     NothingSkipped, Settled, StaysSettled, LookbackCovers
<1>8. BlockedReachesUser'
  BY DEF StreamInv, streamTables, Unlock, IdleLauncher, StreamType, RunRow, LauncherRow,
         OneAtWork, BlockedReachesUser, SettledBy, Working, RunOfLauncher
<1> QED
  BY <1>1, <1>2, <1>3, <1>4, <1>5, <1>7, <1>8 DEF StreamInv, LookbackCovers

\* The run of a dead process will not count.
LEMMA CrashLauncherKeeps ==
  ASSUME StreamInv, NEW p \in Launchers, CrashLauncher(p)
  PROVE  StreamInv'
<1>1. StreamType'
  <2>1. launcher'[p] \in LauncherRow
    BY DEF StreamInv, streamTables, CrashLauncher, IdleLauncher, StreamType, LauncherRow, PCs,
           Blocked
  <2>2. launcher' = [launcher EXCEPT ![p] = launcher'[p]]
    BY DEF StreamInv, streamTables, CrashLauncher, IdleLauncher, StreamType
  <2>3. launcher' \in [Launchers -> LauncherRow]
    BY <2>1, <2>2 DEF StreamInv, StreamType
  <2> QED
    BY <2>3 DEF StreamInv, streamTables, CrashLauncher, IdleLauncher, StreamType, RunRow,
       Outcomes, Kinds, Statuses, OneAtWork, Working, RunOfLauncher, RunIds, LauncherRow
<1>2. Instants'
  BY DEF StreamInv, streamTables, CrashLauncher, IdleLauncher, Instants
<1>3. OneAtWork'
  BY DEF StreamInv, streamTables, CrashLauncher, IdleLauncher, StreamType, RunRow, LauncherRow,
         OneAtWork, Working, RunOfLauncher
<1>4. WindowCovered'
  BY DEF StreamInv, streamTables, CrashLauncher, IdleLauncher, StreamType, RunRow, LauncherRow,
         Instants, OneAtWork, WindowCovered, Working, RunOfLauncher
<1>5. OnTheWay'
  BY DEF StreamInv, streamTables, CrashLauncher, IdleLauncher, StreamType, RunRow, LauncherRow,
         OneAtWork, OnTheWay, Succeeding, Accounted, Missing, Blocked, Working, RunOfLauncher
<1>6. StaysSettled
  BY DEF StreamInv, streamTables, CrashLauncher, IdleLauncher, StreamType, RunRow, LauncherRow,
         OneAtWork, StaysSettled, SettledBy, Working, RunOfLauncher
<1>7. LookbackCovers => NothingSkipped'
  BY <1>6 DEF StreamInv, streamTables, CrashLauncher, IdleLauncher, StreamType, Instants,
     NothingSkipped, Settled, StaysSettled, LookbackCovers
<1>8. BlockedReachesUser'
  BY DEF StreamInv, streamTables, CrashLauncher, IdleLauncher, StreamType, RunRow, LauncherRow,
         OneAtWork, BlockedReachesUser, SettledBy, Working, RunOfLauncher
<1> QED
  BY <1>1, <1>2, <1>3, <1>4, <1>5, <1>7, <1>8 DEF StreamInv, LookbackCovers

\* Every step keeps the invariant.
LEMMA StreamInvStep == StreamInv /\ [StreamNext]_streamVars => StreamInv'
<1> SUFFICES ASSUME StreamInv, [StreamNext]_streamVars PROVE StreamInv'
  OBVIOUS
<1>1. CASE UNCHANGED streamVars
  BY <1>1 DEF streamVars, streamTables, StreamInv, StreamType, Instants, OneAtWork,
     WindowCovered, OnTheWay,
              NothingSkipped, BlockedReachesUser, Settled, SettledBy, Succeeding, Accounted,
              Missing, Blocked, RunOfLauncher
<1>2. ASSUME NEW i \in Items, PostMessage(i) PROVE StreamInv'
  BY <1>2, PostMessageKeeps
<1>3. ASSUME NEW i \in Items, NEW d \in {"performed", "not_performed"}, ReconcileItem(i, d)
      PROVE  StreamInv'
  BY <1>3, ReconcileItemKeeps
<1>4. ASSUME NEW p \in Launchers, NEW dry \in BOOLEAN, Launch(p, dry) PROVE StreamInv'
  BY <1>4, LaunchKeeps
<1>5. ASSUME NEW p \in Launchers, ReasoningStep(p) PROVE StreamInv'
  BY <1>5, RecordDispositionKeeps, ReserveItemKeeps, ResolveItemKeeps, FinishReasoningKeeps,
     AbortReasoningKeeps
     DEF ReasoningStep
<1>6. ASSUME NEW p \in Launchers, EndStep(p) PROVE StreamInv'
  BY <1>6, UpdateEscalationKeeps, CreateEscalationKeeps, CorrelateEscalationKeeps,
     EscalationFailsKeeps,
     FinishEscalationKeeps, RecordOutcomeKeeps, CommitCursorKeeps, UnlockKeeps DEF EndStep
<1>7. ASSUME NEW p \in Launchers, Collect(p) \/ CrashLauncher(p) PROVE StreamInv'
  BY <1>7, CollectKeeps, CrashLauncherKeeps
<1> QED
  BY <1>1, <1>2, <1>3, <1>4, <1>5, <1>6, <1>7 DEF StreamNext

\* The invariant holds of an empty ledger.
LEMMA StreamInvInit == StreamInit => StreamInv
<1> SUFFICES ASSUME StreamInit PROVE StreamInv
  OBVIOUS
<1>1. StreamType
  <2>1. AbsentRun \in RunRow /\ IdleLauncher \in LauncherRow
    BY DEF AbsentRun, NoBatch, RunRow, Outcomes, IdleLauncher, LauncherRow, PCs
  <2>2. NoEffect \in [status : Statuses, run : Nat]
    BY DEF NoEffect, Statuses
  <2> QED
    BY <2>1, <2>2 DEF StreamInit, StreamType, Kinds
<1>2. \A r \in RunIds : jobRuns[r].outcome = "absent" /\ jobRuns[r].batch.next = 0
  BY DEF StreamInit, AbsentRun, NoBatch
<1>3. \A p \in Launchers : launcher[p].pc = "idle"
  BY DEF StreamInit, IdleLauncher
<1>4. Instants
  BY <1>2 DEF StreamInit, Instants
<1>5. OneAtWork /\ WindowCovered /\ OnTheWay
  BY <1>3 DEF OneAtWork, WindowCovered, OnTheWay, Succeeding, Working
<1>6. NothingSkipped /\ BlockedReachesUser
  BY <1>2 DEF StreamInit, NothingSkipped, BlockedReachesUser, SettledBy
<1> QED
  BY <1>1, <1>4, <1>5, <1>6 DEF StreamInv

\* The invariant holds in every behaviour.
LEMMA StreamInvariance == StreamSpec => []StreamInv
  BY StreamInvInit, StreamInvStep, PTL DEF StreamSpec

\* Nothing is skipped by a stream whose first lookback reaches every message: each
\* message before the committed cursor was settled by a run that counted, for any
\* number of runs, launching processes, messages and any item limit.
THEOREM StreamSkipsNothing ==
  ASSUME Lookback >= MaxInstant
  PROVE  StreamSpec => []NothingSkipped
<1>1. StreamInv => NothingSkipped
  BY DEF StreamInv, LookbackCovers
<1> QED
  BY <1>1, StreamInvariance, PTL

\* A blocked message of a run that counted has an escalation, whatever fails between
\* the task, its correlation, the outcome and the cursor.
THEOREM BlockedIsEscalated == StreamSpec => []BlockedReachesUser
<1>1. StreamInv => BlockedReachesUser
  BY DEF StreamInv
<1> QED
  BY <1>1, StreamInvariance, PTL

\* What a committed cursor passes.
LEMMA CommitPasses ==
  ASSUME StreamInv, NEW p \in Launchers, CommitCursor(p)
  PROVE  /\ jobCursor' >= jobCursor
         /\ \A i \in Items :
              /\ posted[i] > jobCursor /\ posted[i] < jobCursor'
              /\ jobCursor # 0 \/ posted[i] + Lookback > jobCursor'
              => Settled(i)
<1> DEFINE r == launcher[p].run
<1>1. r \in RunIds /\ jobRuns[r].outcome = "succeeded" /\ ~jobRuns[r].dry /\ Accounted(r)
  BY DEF CommitCursor, StreamInv, OneAtWork, OnTheWay, Succeeding, RunOfLauncher
<1>2. jobCursor \in Nat /\ jobRuns[r].batch.next \in Nat
  BY <1>1 DEF StreamInv, StreamType, RunRow
<1>3. jobRuns[r].batch.complete => jobCursor < jobRuns[r].batch.next
  BY DEF StreamInv, WindowCovered, CommitCursor, RunOfLauncher
<1>4. \/ jobCursor' = jobCursor
      \/ jobRuns[r].batch.complete /\ jobCursor' = jobRuns[r].batch.next
  BY DEF CommitCursor, RunOfLauncher
<1>5. jobCursor' >= jobCursor
  BY <1>2, <1>3, <1>4
<1>6. ASSUME NEW i \in Items, posted[i] > jobCursor, posted[i] < jobCursor',
             jobCursor # 0 \/ posted[i] + Lookback > jobCursor'
      PROVE  Settled(i)
  <2>1. posted[i] \in Nat
    BY DEF StreamInv, StreamType
  <2>2. jobRuns[r].batch.complete /\ jobCursor' = jobRuns[r].batch.next
    BY <1>2, <1>4, <1>6, <2>1
  <2>3. i \in jobRuns[r].batch.items
    BY <1>6, <2>2 DEF CommitCursor, StreamInv, WindowCovered, RunOfLauncher
  <2> QED
    BY <1>1, <2>3 DEF Accounted, Missing, SettledBy, Settled
<1> QED
  BY <1>5, <1>6

\* The committed cursor only moves forward, and passes a message only when a run that
\* counted has settled it, whatever processes launch the job and wherever they die, for
\* any lookback: only before the first window may a message be left out.
THEOREM CursorLeavesNothing == StreamSpec => CursorPassesSettled
<1>1. ASSUME StreamInv, [StreamNext]_streamVars
      PROVE  [/\ jobCursor' >= jobCursor
              /\ \A i \in Items :
                   /\ posted[i] > jobCursor /\ posted[i] < jobCursor'
                   /\ jobCursor # 0 \/ posted[i] + Lookback > jobCursor'
                   => Settled(i)]_streamVars
  <2>1. jobCursor \in Nat /\ \A i \in Items : posted[i] \in Nat
    BY <1>1 DEF StreamInv, StreamType
  <2>2. CASE StreamNext /\ ~\E p \in Launchers : CommitCursor(p)
    <3>1. jobCursor' = jobCursor
      BY <2>2 DEF StreamNext, PostMessage, ReconcileItem, Launch, Collect, CrashLauncher,
         ReasoningStep, EndStep,
                  RecordDisposition, ReserveItem, ResolveItem, FinishReasoning, AbortReasoning,
                  UpdateEscalation, CreateEscalation, CorrelateEscalation, EscalationFails,
                  FinishEscalation, RecordOutcome, Unlock, streamTables
    <3> QED
      BY <2>1, <3>1
  <2> QED
    BY <1>1, <2>2, CommitPasses
<1> QED
  BY <1>1, StreamInvariance, PTL DEF StreamSpec, CursorPassesSettled

-------------------------------------------------------------------------------
(* What was seen *)

\* What a run collected was posted before.
SeenPosted == \A r \in RunIds : \A i \in jobRuns[r].batch.items : posted[i] # 0

LEMMA SeenPostedStep == ASSUME StreamInv, SeenPosted, [StreamNext]_streamVars PROVE SeenPosted'
<1>1. /\ jobRuns \in [RunIds -> RunRow] /\ posted \in [Items -> Nat] /\ instant \in Nat
      /\ \A r \in RunIds : jobRuns[r].batch.items \subseteq Items
  BY DEF StreamInv, StreamType, RunRow
<1>2. ASSUME NEW i \in Items, PostMessage(i) PROVE SeenPosted'
  BY <1>1, <1>2 DEF PostMessage, SeenPosted
<1>3. ASSUME NEW p \in Launchers, NEW dry \in BOOLEAN, Launch(p, dry) PROVE SeenPosted'
  <2>1. /\ posted' = posted
        /\ \E row : row.batch.items = {} /\ jobRuns' = [jobRuns EXCEPT ![NextRunId] = row]
    BY <1>3 DEF Launch, BeginRun, AbsentRun, NoBatch
  <2> QED
    BY <1>1, <2>1 DEF SeenPosted
<1>4. ASSUME NEW p \in Launchers, Collect(p) PROVE SeenPosted'
  <2> DEFINE r == launcher[p].run
             W == Window(instant + 1)
  <2>1. r \in RunIds /\ posted' = posted
    BY <1>4 DEF Collect, StreamInv, OneAtWork, Working
  <2>2. /\ \A q \in RunIds : q # r => jobRuns'[q] = jobRuns[q]
        /\ jobRuns'[r].batch.items = Newest(W)
    BY <1>1, <1>4, <2>1 DEF Collect, RunRow
  <2>3. \A i \in Newest(W) : i \in Items /\ posted[i] > WindowStart(instant + 1)
    BY DEF Newest, Window
  <2>4. WindowStart(instant + 1) \in Nat
    BY <1>1, StreamAssumption DEF WindowStart, StreamInv, StreamType
  <2>5. \A i \in Newest(W) : posted[i] # 0
    BY <1>1, <2>3, <2>4
  <2> QED
    BY <2>1, <2>2, <2>5 DEF SeenPosted
<1>5. ASSUME NEW p \in Launchers, RecordOutcome(p) PROVE SeenPosted'
  <2>1. /\ posted' = posted
        /\ \E outcome : jobRuns' = [jobRuns EXCEPT ![launcher[p].run].outcome = outcome]
    BY <1>5 DEF RecordOutcome
  <2>2. \A q \in RunIds : jobRuns'[q].batch = jobRuns[q].batch
    BY <1>1, <2>1 DEF RunRow
  <2> QED
    BY <2>1, <2>2 DEF SeenPosted
<1>6. CASE UNCHANGED <<posted, jobRuns>>
  BY <1>6 DEF SeenPosted
<1>7. \/ \E i \in Items : PostMessage(i)
      \/ \E p \in Launchers : (\E dry \in BOOLEAN : Launch(p, dry)) \/ Collect(p) \/ RecordOutcome(p)
      \/ UNCHANGED <<posted, jobRuns>>
  <2>1. CASE UNCHANGED streamVars
    BY <2>1 DEF streamVars, streamTables
  <2>2. CASE StreamNext
    BY <2>2 DEF StreamNext, ReconcileItem, CrashLauncher, ReasoningStep, EndStep,
       RecordDisposition, ReserveItem, ResolveItem, FinishReasoning, AbortReasoning,
       UpdateEscalation, CreateEscalation, CorrelateEscalation, EscalationFails,
       FinishEscalation, CommitCursor, Unlock, streamTables
  <2> QED
    BY <2>1, <2>2
<1> QED
  BY <1>2, <1>3, <1>4, <1>5, <1>6, <1>7

\* With a first lookback that reaches every message, what some run has collected is never
\* passed unsettled, as the streams of the documentation promise; the finding of the run
\* stream_first_run is what happens with a shorter one.
THEOREM SeenIsNeverPassed ==
  ASSUME Lookback >= MaxInstant
  PROVE  StreamSpec => []SeenIsSettled
<1>1. StreamInit => SeenPosted
  BY DEF StreamInit, SeenPosted, AbsentRun, NoBatch
<1>2. StreamInv /\ SeenPosted /\ [StreamNext]_streamVars => SeenPosted'
  BY SeenPostedStep
<1>3. StreamInv /\ SeenPosted => SeenIsSettled
  <2> SUFFICES ASSUME StreamInv, SeenPosted, NEW r \in RunIds, NEW i \in Items,
                      i \in jobRuns[r].batch.items, posted[i] < jobCursor
               PROVE  Settled(i)
    BY DEF SeenIsSettled
  <2>1. posted[i] \in 1..(jobCursor - 1)
    BY DEF StreamInv, StreamType, SeenPosted
  <2> QED
    BY <2>1 DEF StreamInv, LookbackCovers, NothingSkipped
<1> QED
  BY <1>1, <1>2, <1>3, StreamInvariance, PTL DEF StreamSpec

==============================================================================
