------------------------ MODULE UpgradeCoordinatorProofs ------------------------
(***************************************************************************)
(* Proofs about UpgradeCoordinator, for every number of operations, steps, *)
(* writes and faults.                                                      *)
(***************************************************************************)
EXTENDS UpgradeCoordinator, TLAPS

\* The types of the tables.
JournalStates == {"absent", "prepared", "backup_verified", "software_replaced", "migrating",
                  "commit_ready", "completed", "rolling_back", "rolled_back", "failed"}

JournalRow == [state : JournalStates, resume : JournalStates \cup {"none"}, from : Nat,
               verified : Nat, applying : BOOLEAN, digest : BOOLEAN]

DataRow == [gen : Nat, last : Nat]

BackupRow == [present : BOOLEAN, data : [Steps -> DataRow]]

ManifestStates == {"clean", "prepared", "software_replaced", "migrating", "rolling_back", "failed"}

PCs == {"idle", "prepare", "loaded", "choose", "advance", "forward", "published", "step", "applied",
        "retained", "cleaned", "unwind", "restore", "replace", "reinstall", "unclean", "failing",
        "failed"}

Free == {"idle", "prepare", "cleaned", "failing", "failed"}

Forward == {"advance", "forward", "published", "step", "applied", "retained"}

Backward == {"unwind", "restore", "replace", "reinstall", "unclean"}

UpgradeTypes ==
  /\ manifest \in [state : ManifestStates, op : Nat, gen : Nat]
  /\ journal \in [Operations -> JournalRow]
  /\ backup \in [Operations -> BackupRow]
  /\ data \in [Steps -> DataRow]
  /\ software \in Nat \ {0} /\ writes \in Nat
  /\ coord \in [pc : PCs, op : Nat, rollback : BOOLEAN, man : ManifestStates,
                seen : JournalRow, item : Nat]

\* The states in which the backup has been verified, also behind a failure.
BackedUp == {"backup_verified", "software_replaced", "migrating", "commit_ready"}

Owes(j) == j.state \in BackedUp \/ (j.state = "failed" /\ j.resume \in BackedUp)

\* Every journal has the digest its state asks for and starts from a generation; an
\* operation that was never prepared has no backup.
JournalsSound ==
  \A o \in Operations :
    /\ Owes(journal[o]) => journal[o].digest
    /\ journal[o].state = "absent" => ~journal[o].digest /\ ~backup[o].present
    /\ journal[o].state = "failed" => journal[o].resume \in JournalStates \ {"absent", "failed"}
    /\ journal[o].state # "absent" => journal[o].from # 0

\* What the coordinator knows of its operation at each point.
CoordinatorKnows ==
  /\ coord.pc # "idle" => coord.op \in Operations /\ J.state # "absent"
  /\ coord.pc \notin Free => manifest.state # "clean" /\ manifest.op = coord.op
  /\ coord.pc \in Forward => ~coord.rollback
  /\ coord.pc \in Backward => coord.rollback /\ J.state = "rolling_back"
  /\ coord.pc = "prepare" =>
       /\ manifest.state = "clean" /\ J.state = "prepared" /\ J.from = software
       /\ ~J.digest /\ ~backup[coord.op].present
  /\ coord.pc = "published" => J.state = "prepared" /\ backup[coord.op].present
  /\ coord.pc = "step" => J.state = "migrating"
  /\ coord.pc = "retained" => J.state = "commit_ready" /\ software = Target /\ DataAt(Target)
  /\ coord.pc \in {"restore", "replace"} => J.digest
  /\ coord.pc \in {"reinstall", "unclean"} => DataAt(Source)
  /\ coord.pc = "unclean" => software = Source
  /\ coord.pc = "cleaned" => J.state = IF coord.rollback THEN "rolling_back" ELSE "commit_ready"

\* Until its backup is verified an operation has changed nothing, and its backup holds
\* what there was when the installation stopped being usable.
BackupHolds ==
  manifest.state # "clean" =>
    /\ manifest.op \in Operations
    /\ journal[manifest.op].state # "absent"
    /\ ~journal[manifest.op].digest =>
         DataAt(journal[manifest.op].from) /\ software = journal[manifest.op].from
    /\ journal[manifest.op].digest => backup[manifest.op].present
    /\ backup[manifest.op].present =>
         \A s \in Steps : /\ backup[manifest.op].data[s].gen = journal[manifest.op].from
                          /\ backup[manifest.op].data[s].last = LastOf(s)

\* The last write is somewhere in the data, or in the backup of a torn store.
LastWriteThere == \E s \in Steps : LastOf(s) = writes

\* The inductive invariant.
UpgradeInv ==
  /\ UpgradeTypes
  /\ JournalsSound
  /\ CoordinatorKnows
  /\ BackupHolds
  /\ LastWriteThere
  /\ WholeWhenClean

-------------------------------------------------------------------------------
(* Where the coordinator stands *)

\* A store at a generation is whole.
LEMMA WholeStore ==
  ASSUME NEW row, row.gen # 0
  PROVE  row # Torn
  BY DEF Torn

\* Stores that are all at one generation hold their last writes themselves.
LEMMA WholeStores ==
  ASSUME NEW gen, gen # 0, DataAt(gen)
  PROVE  \A s \in Steps : data[s] # Torn /\ LastOf(s) = data[s].last
  BY WholeStore DEF DataAt, LastOf

\* So do those of an installation in use.
LEMMA CleanStores ==
  ASSUME UpgradeInv, manifest.state = "clean"
  PROVE  \A s \in Steps : data[s] # Torn /\ LastOf(s) = data[s].last
<1>1. software # 0 /\ software = manifest.gen /\ DataAt(manifest.gen)
  BY DEF UpgradeInv, UpgradeTypes, WholeWhenClean
<1> QED
  BY <1>1, WholeStores

\* The coordinator has an operation.
LEMMA AtWork ==
  ASSUME UpgradeInv, coord.pc # "idle"
  PROVE  /\ coord.op \in Operations /\ journal[coord.op] \in JournalRow
         /\ backup[coord.op] \in BackupRow /\ J.state # "absent"
         /\ J = journal[coord.op] /\ Source = journal[coord.op].from
         /\ Target = journal[coord.op].from + 1 /\ journal[coord.op].from \in Nat \ {0}
         /\ coord.pc \notin Free => manifest.state # "clean" /\ manifest.op = coord.op
<1>1. coord.op \in Operations /\ J.state # "absent"
  BY DEF UpgradeInv, CoordinatorKnows
<1>2. journal[coord.op] \in JournalRow /\ backup[coord.op] \in BackupRow
  BY <1>1 DEF UpgradeInv, UpgradeTypes
<1>3. journal[coord.op].from \in Nat \ {0}
  BY <1>1, <1>2 DEF JournalRow, UpgradeInv, JournalsSound, J
<1> QED
  BY <1>1, <1>2, <1>3 DEF J, Source, Target, UpgradeInv, CoordinatorKnows

CoordTypes == [pc : PCs, op : Nat, rollback : BOOLEAN, man : ManifestStates,
               seen : JournalRow, item : Nat]

\* The coordinator stands at another point.
LEMMA MovesTo ==
  ASSUME UpgradeInv, NEW pc \in PCs, CoordAt(pc)
  PROVE  /\ coord' \in CoordTypes /\ coord'.pc = pc /\ coord'.op = coord.op
         /\ coord'.rollback = coord.rollback
<1>1. coord \in CoordTypes
  BY DEF UpgradeInv, UpgradeTypes, CoordTypes
<1>2. coord' \in CoordTypes
  BY <1>1 DEF CoordAt, CoordTypes
<1> QED
  BY <1>1, <1>2 DEF CoordAt, CoordTypes

\* Nothing is claimed of a coordinator that is idle.
LEMMA IdleKnows ==
  ASSUME UpgradeInv, coord' = IdleCoordinator
  PROVE  CoordinatorKnows' /\ coord' \in CoordTypes
<1>1. AbsentJournal \in JournalRow
  BY DEF AbsentJournal, JournalRow, JournalStates
<1>2. IdleCoordinator \in CoordTypes /\ IdleCoordinator.pc = "idle"
  BY <1>1 DEF IdleCoordinator, CoordTypes, PCs, ManifestStates
<1> QED
  BY <1>2 DEF CoordinatorKnows, Free, Forward, Backward

\* ... and little of one that fails.
LEMMA FailingKnows ==
  ASSUME coord'.pc \in {"failing", "failed"}, coord'.op \in Operations,
         journal'[coord'.op].state # "absent"
  PROVE  CoordinatorKnows'
  BY DEF CoordinatorKnows, Free, Forward, Backward, J

\* Only the coordinator moves.
LEMMA CoordOnly ==
  ASSUME UpgradeInv, UNCHANGED <<manifest, journal, backup, data, software, writes>>,
         coord' \in CoordTypes, CoordinatorKnows'
  PROVE  UpgradeInv'
<1>1. UpgradeTypes' /\ JournalsSound'
  BY DEF UpgradeInv, UpgradeTypes, CoordTypes, JournalsSound
<1>2. BackupHolds' /\ LastWriteThere' /\ WholeWhenClean'
  BY DEF UpgradeInv, BackupHolds, LastWriteThere, LastOf, WholeWhenClean, DataAt
<1> QED
  BY <1>1, <1>2 DEF UpgradeInv

\* The journal of the operation is written.
LEMMA JournalOnly ==
  ASSUME UpgradeInv, coord.pc # "idle", NEW row \in JournalRow,
         journal' = [journal EXCEPT ![coord.op] = row],
         UNCHANGED <<manifest, backup, data, software, writes>>,
         row.state # "absent", row.from = journal[coord.op].from, Owes(row) => row.digest,
         row.state = "failed" => row.resume \in JournalStates \ {"absent", "failed"},
         row.digest => journal[coord.op].digest \/ backup[coord.op].present,
         journal[coord.op].digest => row.digest,
         coord' \in CoordTypes, CoordinatorKnows'
  PROVE  UpgradeInv'
<1>1. coord.op \in Operations /\ journal \in [Operations -> JournalRow]
  BY AtWork DEF UpgradeInv, UpgradeTypes
<1>2. journal'[coord.op] = row /\ \A o \in Operations : o # coord.op => journal'[o] = journal[o]
  BY <1>1
<1>3. UpgradeTypes'
  BY <1>1 DEF UpgradeInv, UpgradeTypes, CoordTypes
<1>4. JournalsSound'
  <2> SUFFICES ASSUME NEW o \in Operations
               PROVE  /\ Owes(journal'[o]) => journal'[o].digest
                      /\ journal'[o].state = "absent" => ~journal'[o].digest /\ ~backup[o].present
                      /\ journal'[o].state = "failed" => journal'[o].resume \in JournalStates \ {"absent", "failed"}
                      /\ journal'[o].state # "absent" => journal'[o].from # 0
    BY DEF JournalsSound, Owes
  <2>1. CASE o = coord.op
    BY <1>2, <2>1, AtWork
  <2>2. CASE o # coord.op
    BY <1>2, <2>2 DEF UpgradeInv, JournalsSound
  <2> QED
    BY <2>1, <2>2
<1>5. BackupHolds'
  <2> SUFFICES ASSUME manifest.state # "clean"
               PROVE  BackupHolds'
    BY DEF BackupHolds
  <2>1. BackupHolds /\ manifest.op \in Operations
    BY DEF UpgradeInv, BackupHolds
  <2>2. CASE manifest.op = coord.op
    <3>1. /\ manifest'.op \in Operations /\ journal'[manifest.op].state # "absent"
          /\ journal'[manifest.op].from = journal[manifest.op].from
          /\ ~journal'[manifest.op].digest => ~journal[manifest.op].digest
          /\ journal'[manifest.op].digest => backup[manifest.op].present
      BY <1>2, <2>1, <2>2 DEF BackupHolds
    <3> QED
      BY <2>1, <3>1 DEF BackupHolds, LastOf, DataAt
  <2>3. CASE manifest.op # coord.op
    <3>1. journal'[manifest.op] = journal[manifest.op]
      BY <1>2, <2>1, <2>3
    <3> QED
      BY <2>1, <3>1 DEF BackupHolds, LastOf, DataAt
  <2> QED
    BY <2>2, <2>3
<1>6. LastWriteThere' /\ WholeWhenClean'
  BY DEF UpgradeInv, LastWriteThere, LastOf, WholeWhenClean, DataAt
<1> QED
  BY <1>3, <1>4, <1>5, <1>6 DEF UpgradeInv

\* A transition of the journal.
LEMMA Transition ==
  ASSUME UpgradeInv, coord.pc # "idle", NEW state \in JournalStates \ {"failed", "absent"}, NEW pc \in PCs,
         JournalTo(state, pc)
  PROVE  \E row \in JournalRow :
           /\ journal' = [journal EXCEPT ![coord.op] = row] /\ journal'[coord.op] = row
           /\ row.state = state /\ row.from = journal[coord.op].from
           /\ state = "backup_verified" => row.digest
           /\ journal[coord.op].digest => row.digest
           /\ row.digest => journal[coord.op].digest \/ state = "backup_verified"
           /\ coord' \in CoordTypes /\ coord'.pc = pc /\ coord'.op = coord.op
           /\ coord'.rollback = coord.rollback
<1> DEFINE old == journal[coord.op]
           digest == old.digest \/ state = "backup_verified"
           row == [old EXCEPT !.state = state, !.resume = "none", !.digest = digest]
<1>1. coord.op \in Operations /\ old \in JournalRow /\ journal \in [Operations -> JournalRow]
  BY AtWork DEF UpgradeInv, UpgradeTypes
<1>2. digest \in BOOLEAN
  OBVIOUS
<1>3. journal' = [journal EXCEPT ![coord.op] = row]
  BY <1>1 DEF JournalTo, JournalRow
<1> HIDE DEF digest
<1>4. row \in JournalRow
  BY <1>1, <1>2 DEF JournalRow
<1>5. row.state = state /\ row.from = old.from
  BY <1>1 DEF JournalRow
<1>6. row.digest = digest
  BY <1>1 DEF JournalRow
<1> HIDE DEF row
<1>7. journal'[coord.op] = row
  BY <1>1, <1>3
<1>8. coord' = [coord EXCEPT !.pc = pc, !.seen = row]
  BY <1>7 DEF JournalTo
<1>9. coord \in CoordTypes
  BY DEF UpgradeInv, UpgradeTypes, CoordTypes
<1>10. coord' \in CoordTypes
  BY <1>4, <1>8, <1>9 DEF CoordTypes
<1>11. coord'.pc = pc /\ coord'.op = coord.op /\ coord'.rollback = coord.rollback
  BY <1>8, <1>9 DEF CoordTypes
<1> QED
  BY <1>3, <1>4, <1>5, <1>6, <1>7, <1>10, <1>11 DEF digest

\* What is known on the way, before anything was decided or found.
LEMMA LightKnows ==
  ASSUME coord'.op \in Operations, journal'[coord'.op].state # "absent",
         manifest'.state # "clean", manifest'.op = coord'.op,
         coord'.pc \in {"loaded", "choose", "advance", "forward", "applied"},
         coord'.pc \in {"advance", "forward", "applied"} => ~coord'.rollback
  PROVE  CoordinatorKnows'
  BY DEF CoordinatorKnows, Free, Forward, Backward, J

\* The manifest of an interrupted installation is moved on.
LEMMA ManifestOnly ==
  ASSUME UpgradeInv, NEW state \in ManifestStates \ {"clean"}, ManifestTo(state),
         manifest.state # "clean",
         UNCHANGED <<journal, backup, data, software, writes>>,
         coord' \in CoordTypes, CoordinatorKnows'
  PROVE  UpgradeInv'
<1>1. manifest \in [state : ManifestStates, op : Nat, gen : Nat]
  BY DEF UpgradeInv, UpgradeTypes
<1>2. /\ manifest' \in [state : ManifestStates, op : Nat, gen : Nat]
      /\ manifest'.state = state /\ manifest'.op = manifest.op
  BY <1>1 DEF ManifestTo
<1>3. UpgradeTypes' /\ JournalsSound'
  BY <1>2 DEF UpgradeInv, UpgradeTypes, CoordTypes, JournalsSound
<1>4. BackupHolds' /\ LastWriteThere' /\ WholeWhenClean'
  BY <1>2 DEF UpgradeInv, BackupHolds, LastWriteThere, LastOf, WholeWhenClean, DataAt
<1> QED
  BY <1>3, <1>4 DEF UpgradeInv

-------------------------------------------------------------------------------
(* Steps of the coordinator alone *)

LEMMA GoesIdle ==
  ASSUME UpgradeInv, coord' = IdleCoordinator,
         UNCHANGED <<manifest, journal, backup, data, software, writes>>
  PROVE  UpgradeInv'
  BY IdleKnows, CoordOnly

LEMMA GoesOn ==
  ASSUME UpgradeInv, coord.pc # "idle", NEW pc \in PCs, CoordAt(pc),
         UNCHANGED <<manifest, journal, backup, data, software, writes>>,
         \/ pc \in {"failing", "failed"}
         \/ coord.pc \notin Free /\ pc = "choose"
         \/ coord.pc \notin Free /\ pc \in {"advance", "forward"} /\ ~coord.rollback
  PROVE  UpgradeInv'
<1>1. /\ coord' \in CoordTypes /\ coord'.pc = pc /\ coord'.op = coord.op
      /\ coord'.rollback = coord.rollback
  BY MovesTo
<1>2. /\ coord.op \in Operations /\ journal[coord.op].state # "absent"
      /\ coord.pc \notin Free => manifest.state # "clean" /\ manifest.op = coord.op
  BY AtWork
<1>3. CASE pc \in {"failing", "failed"}
  BY <1>1, <1>2, <1>3, FailingKnows, CoordOnly
<1>4. CASE coord.pc \notin Free /\ pc = "choose"
  BY <1>1, <1>2, <1>4, LightKnows, CoordOnly
<1>5. CASE coord.pc \notin Free /\ pc \in {"advance", "forward"} /\ ~coord.rollback
  BY <1>1, <1>2, <1>5, LightKnows, CoordOnly
<1> QED
  BY <1>3, <1>4, <1>5

LEMMA BeginRecoveryKeeps ==
  ASSUME UpgradeInv, NEW rollback \in BOOLEAN, BeginRecovery(rollback)
  PROVE  UpgradeInv'
<1>1. manifest.state # "clean" /\ manifest.state \in ManifestStates
  BY DEF BeginRecovery, UpgradeInv, UpgradeTypes
<1>2. /\ manifest.op \in Operations /\ journal[manifest.op].state # "absent"
      /\ manifest.op \in Nat /\ journal[manifest.op] \in JournalRow
  BY <1>1 DEF UpgradeInv, UpgradeTypes, BackupHolds
<1>3. coord' = [pc |-> "loaded", op |-> manifest.op, rollback |-> rollback, man |-> manifest.state,
                seen |-> journal[manifest.op], item |-> 0]
  BY DEF BeginRecovery, IdleCoordinator
<1>4. coord' \in CoordTypes /\ coord'.pc = "loaded" /\ coord'.op = manifest.op
  BY <1>1, <1>2, <1>3 DEF CoordTypes, PCs
<1>5. UNCHANGED <<manifest, journal, backup, data, software, writes>>
  BY DEF BeginRecovery
<1>6. CoordinatorKnows'
  BY <1>1, <1>2, <1>4, <1>5, LightKnows
<1> QED
  BY <1>4, <1>5, <1>6, CoordOnly

LEMMA ChooseForwardKeeps ==
  ASSUME UpgradeInv, ChooseForward
  PROVE  UpgradeInv'
<1>1. UNCHANGED <<manifest, journal, backup, data, software, writes>>
  BY DEF ChooseForward
<1>2. coord.pc = "choose" /\ ~coord.rollback /\ (coord' = IdleCoordinator \/ CoordAt("advance"))
  BY DEF ChooseForward
<1>3. "advance" \in PCs /\ coord.pc \notin Free
  BY <1>2 DEF PCs, Free
<1> QED
  BY <1>1, <1>2, <1>3, GoesIdle, GoesOn

LEMMA FailuresKeep ==
  ASSUME UpgradeInv, RaiseFailure \/ CrashUpgrade
  PROVE  UpgradeInv'
<1>1. UNCHANGED <<manifest, journal, backup, data, software, writes>>
  BY DEF RaiseFailure, CrashUpgrade
<1>2. "failing" \in PCs
  BY DEF PCs
<1>3. CASE RaiseFailure
  BY <1>1, <1>2, <1>3, GoesOn DEF RaiseFailure
<1>4. CASE CrashUpgrade
  BY <1>1, <1>4, GoesIdle DEF CrashUpgrade
<1> QED
  BY <1>3, <1>4

LEMMA VerifySourceKeeps ==
  ASSUME UpgradeInv, VerifySource
  PROVE  UpgradeInv'
<1>1. /\ UNCHANGED <<manifest, journal, backup, data, software, writes>>
      /\ coord.pc = "restore"
  BY DEF VerifySource
<1>2. "failing" \in PCs /\ "reinstall" \in PCs
  BY DEF PCs
<1>3. CASE ~DataAt(Source)
  BY <1>1, <1>2, <1>3, GoesOn DEF VerifySource
<1>4. CASE DataAt(Source)
  <2>1. CoordAt("reinstall")
    BY <1>4 DEF VerifySource
  <2>2. /\ coord' \in CoordTypes /\ coord'.pc = "reinstall" /\ coord'.op = coord.op
        /\ coord'.rollback = coord.rollback
    BY <1>2, <2>1, MovesTo
  <2>3. /\ coord.op \in Operations /\ journal[coord.op].state = "rolling_back" /\ coord.rollback
        /\ manifest.state # "clean" /\ manifest.op = coord.op
        /\ \A s \in Steps : data[s].gen = journal[coord.op].from
    BY <1>1, <1>4 DEF UpgradeInv, CoordinatorKnows, Free, Backward, J, Source, DataAt
  <2>4. CoordinatorKnows'
    BY <1>1, <2>2, <2>3 DEF CoordinatorKnows, Free, Forward, Backward, J, Source, DataAt
  <2> QED
    BY <1>1, <2>2, <2>4, CoordOnly
<1> QED
  BY <1>3, <1>4

-------------------------------------------------------------------------------
(* Steps of the journal *)

\* A journal that moves on without a decision; the coordinator reads on.
LEMMA JournalMoves ==
  ASSUME UpgradeInv, coord.pc # "idle", coord.pc \notin Free,
         NEW state \in JournalStates \ {"failed", "absent"},
         NEW pc \in {"choose", "advance", "forward"}, JournalTo(state, pc),
         UNCHANGED <<manifest, backup, data, software, writes>>,
         pc # "choose" => ~coord.rollback,
         state \in BackedUp => journal[coord.op].digest \/ (backup[coord.op].present /\ state = "backup_verified")
  PROVE  UpgradeInv'
<1>1. pc \in PCs
  BY DEF PCs
<1>2. PICK row \in JournalRow :
         /\ journal' = [journal EXCEPT ![coord.op] = row] /\ journal'[coord.op] = row
         /\ row.state = state /\ row.from = journal[coord.op].from
         /\ state = "backup_verified" => row.digest
         /\ journal[coord.op].digest => row.digest
         /\ row.digest => journal[coord.op].digest \/ state = "backup_verified"
         /\ coord' \in CoordTypes /\ coord'.pc = pc /\ coord'.op = coord.op
         /\ coord'.rollback = coord.rollback
  BY <1>1, Transition
<1>3. /\ coord.op \in Operations /\ manifest.state # "clean" /\ manifest.op = coord.op
  BY AtWork
<1>4. CoordinatorKnows'
  BY <1>2, <1>3, LightKnows
<1>5. Owes(row) => row.digest
  BY <1>2 DEF Owes
<1>6. row.digest => journal[coord.op].digest \/ backup[coord.op].present
  BY <1>2 DEF BackedUp
<1> QED
  BY <1>2, <1>4, <1>5, <1>6, JournalOnly

LEMMA ResumeFailedJournalKeeps ==
  ASSUME UpgradeInv, ResumeFailedJournal
  PROVE  UpgradeInv'
<1>1. /\ UNCHANGED <<manifest, backup, data, software, writes>> /\ coord.pc = "loaded"
  BY DEF ResumeFailedJournal
<1>2. coord.pc \notin Free /\ coord.op \in Operations /\ J = journal[coord.op]
  BY <1>1, AtWork DEF Free
<1>3. CASE J.state = "failed"
  <2>1. JournalTo(J.resume, "choose")
    BY <1>3 DEF ResumeFailedJournal
  <2>2. /\ J.resume \in JournalStates \ {"failed", "absent"}
        /\ Owes(J) => journal[coord.op].digest
    BY <1>2, <1>3 DEF UpgradeInv, JournalsSound
  <2>3. J.resume \in BackedUp => journal[coord.op].digest
    BY <1>3, <2>2 DEF Owes
  <2>4. \A state \in JournalStates \ {"failed", "absent"} :
          JournalTo(state, "choose") /\ (state \in BackedUp => journal[coord.op].digest) => UpgradeInv'
    <3> SUFFICES ASSUME NEW state \in JournalStates \ {"failed", "absent"}, JournalTo(state, "choose"),
                        state \in BackedUp => journal[coord.op].digest
                 PROVE  UpgradeInv'
      OBVIOUS
    <3>1. "choose" \in {"choose", "advance", "forward"} /\ coord.pc # "idle"
      BY <1>1
    <3> QED
      BY <1>1, <1>2, <3>1, JournalMoves
  <2> QED
    BY <2>1, <2>2, <2>3, <2>4
<1>4. CASE J.state # "failed"
  BY <1>1, <1>2, <1>4, GoesOn DEF ResumeFailedJournal, PCs
<1> QED
  BY <1>3, <1>4

LEMMA ForwardJournalKeeps ==
  ASSUME UpgradeInv, RecordBackup \/ RecordSoftware \/ BeginMigrating \/ ReachFence
  PROVE  UpgradeInv'
<1>1. /\ UNCHANGED <<manifest, backup, data, software, writes>> /\ coord.pc \in {"published", "forward"}
  BY DEF RecordBackup, RecordSoftware, BeginMigrating, ReachFence
<1>2. /\ coord.pc \notin Free /\ coord.op \in Operations /\ J = journal[coord.op]
      /\ ~coord.rollback
  BY <1>1, AtWork DEF Free, UpgradeInv, CoordinatorKnows, Forward
<1>3. CASE RecordBackup
  <2>1. JournalTo("backup_verified", "forward") /\ backup[coord.op].present
    BY <1>3 DEF RecordBackup, UpgradeInv, CoordinatorKnows
  <2> QED
    BY <1>1, <1>2, <2>1, JournalMoves DEF JournalStates
<1>4. CASE RecordSoftware \/ BeginMigrating \/ ReachFence
  <2>1. J.state \in BackedUp
    BY <1>4 DEF RecordSoftware, BeginMigrating, ReachFence, BackedUp
  <2>2. journal[coord.op].digest
    BY <1>2, <2>1 DEF UpgradeInv, JournalsSound, Owes
  <2>3. \/ JournalTo("software_replaced", "advance")
        \/ JournalTo("migrating", "advance")
        \/ JournalTo("commit_ready", "forward")
    BY <1>4 DEF RecordSoftware, BeginMigrating, ReachFence
  <2>4. CASE JournalTo("software_replaced", "advance")
    BY <1>1, <1>2, <2>2, <2>4, JournalMoves DEF JournalStates
  <2>5. CASE JournalTo("migrating", "advance")
    BY <1>1, <1>2, <2>2, <2>5, JournalMoves DEF JournalStates
  <2>6. CASE JournalTo("commit_ready", "forward")
    BY <1>1, <1>2, <2>2, <2>6, JournalMoves DEF JournalStates
  <2> QED
    BY <2>3, <2>4, <2>5, <2>6
<1> QED
  BY <1>3, <1>4

LEMMA ChooseRollbackKeeps ==
  ASSUME UpgradeInv, ChooseRollback
  PROVE  UpgradeInv'
<1>1. /\ UNCHANGED <<manifest, backup, data, software, writes>> /\ coord.pc = "choose"
      /\ coord.rollback
  BY DEF ChooseRollback
<1>2. /\ coord.pc \notin Free /\ coord.op \in Operations /\ J = journal[coord.op]
      /\ manifest.state # "clean" /\ manifest.op = coord.op
  BY <1>1, AtWork DEF Free
<1>3. "failing" \in PCs /\ "unwind" \in PCs
  BY DEF PCs
<1>4. CASE CoordAt("failing") /\ UNCHANGED journal
  BY <1>1, <1>3, <1>4, GoesOn
<1>5. CASE J.state = "rolling_back" /\ CoordAt("unwind") /\ UNCHANGED journal
  <2>1. /\ coord' \in CoordTypes /\ coord'.pc = "unwind" /\ coord'.op = coord.op
        /\ coord'.rollback = coord.rollback
    BY <1>3, <1>5, MovesTo
  <2>2. CoordinatorKnows'
    BY <1>1, <1>2, <1>5, <2>1 DEF CoordinatorKnows, Free, Forward, Backward, J
  <2> QED
    BY <1>1, <1>5, <2>1, <2>2, CoordOnly
<1>6. CASE JournalTo("rolling_back", "unwind")
  <2>1. PICK row \in JournalRow :
           /\ journal' = [journal EXCEPT ![coord.op] = row] /\ journal'[coord.op] = row
           /\ row.state = "rolling_back" /\ row.from = journal[coord.op].from
           /\ journal[coord.op].digest => row.digest
           /\ row.digest => journal[coord.op].digest
           /\ coord' \in CoordTypes /\ coord'.pc = "unwind" /\ coord'.op = coord.op
           /\ coord'.rollback = coord.rollback
    <3>1. "rolling_back" \in JournalStates \ {"failed", "absent"} /\ coord.pc # "idle"
      BY <1>1 DEF JournalStates
    <3> QED
      BY <1>3, <1>6, <3>1, Transition
  <2>2. CoordinatorKnows'
    BY <1>1, <1>2, <2>1 DEF CoordinatorKnows, Free, Forward, Backward, J
  <2>3. Owes(row) => row.digest
    BY <2>1 DEF Owes, BackedUp
  <2> QED
    BY <1>1, <2>1, <2>2, <2>3, JournalOnly
<1> QED
  BY <1>4, <1>5, <1>6 DEF ChooseRollback

\* A row that differs in a step's progress only.
LEMMA ProgressRow ==
  ASSUME NEW old \in JournalRow, NEW n \in Nat, NEW b \in BOOLEAN
  PROVE  LET row == [old EXCEPT !.verified = n, !.applying = b] IN
         /\ row \in JournalRow /\ row.state = old.state /\ row.resume = old.resume
         /\ row.from = old.from /\ row.digest = old.digest
  BY DEF JournalRow

LEMMA ProgressKeeps ==
  ASSUME UpgradeInv, NEW n \in Nat, NEW b \in BOOLEAN, NEW pc \in {"step", "forward"},
         coord' \in CoordTypes, coord'.pc = pc, coord'.op = coord.op,
         coord'.rollback = coord.rollback,
         coord.pc \in {"forward", "applied"}, pc = "step" => J.state = "migrating",
         journal' = [journal EXCEPT ![coord.op] = [journal[coord.op] EXCEPT !.verified = n, !.applying = b]],
         UNCHANGED <<manifest, backup, data, software, writes>>
  PROVE  UpgradeInv'
<1> DEFINE old == journal[coord.op]
           row == [old EXCEPT !.verified = n, !.applying = b]
<1>1. /\ coord.op \in Operations /\ old \in JournalRow /\ old.state # "absent"
      /\ manifest.state # "clean" /\ manifest.op = coord.op /\ J = old /\ ~coord.rollback
      /\ coord.pc # "idle" /\ journal \in [Operations -> JournalRow]
  BY AtWork DEF Free, UpgradeInv, UpgradeTypes, CoordinatorKnows, Forward
<1>2. /\ row \in JournalRow /\ row.state = old.state /\ row.resume = old.resume
      /\ row.from = old.from /\ row.digest = old.digest
  BY <1>1, ProgressRow
<1>3. /\ Owes(old) => old.digest
      /\ old.state = "failed" => old.resume \in JournalStates \ {"absent", "failed"}
  BY <1>1 DEF UpgradeInv, JournalsSound
<1>4. Owes(row) => row.digest
  BY <1>2, <1>3 DEF Owes
<1>5. journal' = [journal EXCEPT ![coord.op] = row]
  OBVIOUS
<1> HIDE DEF row
<1>6. journal'[coord.op] = row
  BY <1>1, <1>5
<1>7. CoordinatorKnows'
  BY <1>1, <1>2, <1>6 DEF CoordinatorKnows, Free, Forward, Backward, J
<1> QED
  BY <1>1, <1>2, <1>3, <1>4, <1>5, <1>7, JournalOnly

LEMMA MarkApplyingKeeps ==
  ASSUME UpgradeInv, MarkApplying
  PROVE  UpgradeInv'
<1>1. /\ coord.op \in Operations /\ journal[coord.op] \in JournalRow /\ journal \in [Operations -> JournalRow]
  BY AtWork DEF MarkApplying, UpgradeInv, UpgradeTypes
<1>2. journal[coord.op].verified \in Nat /\ TRUE \in BOOLEAN
  BY <1>1 DEF JournalRow
<1>3. journal' = [journal EXCEPT ![coord.op] = [journal[coord.op] EXCEPT !.verified = journal[coord.op].verified, !.applying = TRUE]]
  BY <1>1 DEF MarkApplying, JournalRow
<1>4. /\ coord' \in CoordTypes /\ coord'.pc = "step" /\ coord'.op = coord.op
      /\ coord'.rollback = coord.rollback
  BY MovesTo DEF MarkApplying, PCs
<1> QED
  BY <1>2, <1>3, <1>4, ProgressKeeps DEF MarkApplying

LEMMA MarkVerifiedKeeps ==
  ASSUME UpgradeInv, MarkVerified
  PROVE  UpgradeInv'
<1>1. /\ coord.op \in Operations /\ journal[coord.op] \in JournalRow /\ journal \in [Operations -> JournalRow]
  BY AtWork DEF MarkVerified, UpgradeInv, UpgradeTypes
<1>2. journal[coord.op].verified + 1 \in Nat /\ FALSE \in BOOLEAN
  BY <1>1 DEF JournalRow
<1>3. journal' = [journal EXCEPT ![coord.op] = [journal[coord.op] EXCEPT !.verified = journal[coord.op].verified + 1, !.applying = FALSE]]
  BY <1>1 DEF MarkVerified, JournalRow
<1>4. coord \in CoordTypes
  BY DEF UpgradeInv, UpgradeTypes, CoordTypes
<1>5. journal'[coord.op] \in JournalRow
  BY <1>1, <1>2, <1>3, ProgressRow
<1>6. PICK seen \in JournalRow : coord' = [coord EXCEPT !.pc = "forward", !.seen = seen]
  BY <1>4, <1>5 DEF MarkVerified, CoordTypes
<1>7. /\ coord' \in CoordTypes /\ coord'.pc = "forward" /\ coord'.op = coord.op
      /\ coord'.rollback = coord.rollback
  BY <1>4, <1>6 DEF CoordTypes, PCs
<1> QED
  BY <1>2, <1>3, <1>7, ProgressKeeps DEF MarkVerified

LEMMA FinishJournalKeeps ==
  ASSUME UpgradeInv, FinishJournal
  PROVE  UpgradeInv'
<1> DEFINE old == journal[coord.op]
           state == IF coord.rollback THEN "rolled_back" ELSE "completed"
           row == [old EXCEPT !.state = state, !.resume = old.resume]
<1>1. /\ coord.op \in Operations /\ old \in JournalRow /\ coord.pc # "idle"
      /\ journal \in [Operations -> JournalRow]
  BY AtWork DEF FinishJournal, UpgradeInv, UpgradeTypes
<1>2. state \in {"rolled_back", "completed"} /\ old.resume \in JournalStates \cup {"none"}
  BY <1>1 DEF JournalRow
<1>3. journal' = [journal EXCEPT ![coord.op] = row]
  BY <1>1 DEF FinishJournal, JournalRow
<1> HIDE DEF state
<1>4. state \in JournalStates
  BY <1>2 DEF JournalStates
<1>5. /\ row \in JournalRow /\ row.state = state /\ row.from = old.from /\ row.digest = old.digest
  BY <1>1, <1>2, <1>4 DEF JournalRow
<1>6. ~Owes(row)
  BY <1>2, <1>5 DEF Owes, BackedUp
<1>7. CoordinatorKnows' /\ coord' \in CoordTypes
  BY IdleKnows DEF FinishJournal
<1>8. UNCHANGED <<manifest, backup, data, software, writes>>
  BY DEF FinishJournal
<1> HIDE DEF row
<1> QED
  BY <1>1, <1>2, <1>3, <1>5, <1>6, <1>7, <1>8, JournalOnly

LEMMA RecordFailureKeeps ==
  ASSUME UpgradeInv, RecordFailure
  PROVE  UpgradeInv'
<1> DEFINE old == journal[coord.op]
           row == [old EXCEPT !.state = "failed", !.resume = old.state]
<1>1. /\ coord.op \in Operations /\ old \in JournalRow /\ coord.pc # "idle" /\ old.state # "absent"
      /\ journal \in [Operations -> JournalRow] /\ J = old
  BY AtWork DEF RecordFailure, UpgradeInv, UpgradeTypes
<1>2. "failed" \in PCs /\ CoordAt("failed") /\ UNCHANGED <<manifest, backup, data, software, writes>>
  BY DEF PCs, RecordFailure
<1>3. CASE journal' = journal
  BY <1>1, <1>2, <1>3, GoesOn
<1>4. CASE /\ journal' = [journal EXCEPT ![coord.op].state = "failed", ![coord.op].resume = old.state]
           /\ old.state \notin {"failed", "completed", "rolled_back"}
           /\ old.state = "rolling_back" => old.digest
  <2>1. old.state \in JournalStates /\ "failed" \in JournalStates
    BY <1>1 DEF JournalRow, JournalStates
  <2>2. journal' = [journal EXCEPT ![coord.op] = row]
    BY <1>1, <1>4 DEF JournalRow
  <2>3. /\ row \in JournalRow /\ row.state = "failed" /\ row.resume = old.state
        /\ row.from = old.from /\ row.digest = old.digest
    BY <1>1, <2>1 DEF JournalRow
  <2> HIDE DEF row
  <2>4. Owes(old) => old.digest
    BY <1>1 DEF UpgradeInv, JournalsSound
  <2>5. Owes(row) => row.digest
    <3> SUFFICES ASSUME Owes(row)
                 PROVE  row.digest
      OBVIOUS
    <3>1. old.state \in BackedUp
      BY <2>3 DEF Owes, BackedUp
    <3>2. old.digest
      BY <2>4, <3>1 DEF Owes
    <3> QED
      BY <2>3, <3>2
  <2>6. /\ coord' \in CoordTypes /\ coord'.pc = "failed" /\ coord'.op = coord.op
    BY <1>2, MovesTo
  <2>7. journal'[coord.op] = row
    BY <1>1, <2>2
  <2>8. CoordinatorKnows'
    BY <1>1, <2>3, <2>6, <2>7, FailingKnows
  <2> QED
    BY <1>1, <1>2, <1>4, <2>1, <2>2, <2>3, <2>5, <2>6, <2>8, JournalOnly
<1> QED
  BY <1>1, <1>3, <1>4 DEF RecordFailure

-------------------------------------------------------------------------------
(* Steps of the manifest *)

LEMMA AdvanceManifestKeeps ==
  ASSUME UpgradeInv, AdvanceManifest
  PROVE  UpgradeInv'
<1>1. /\ UNCHANGED <<journal, backup, data, software, writes>> /\ coord.pc = "advance"
  BY DEF AdvanceManifest
<1>2. /\ coord.op \in Operations /\ journal[coord.op].state # "absent" /\ ~coord.rollback
      /\ manifest.state # "clean" /\ manifest.op = coord.op /\ coord \in CoordTypes
      /\ manifest \in [state : ManifestStates, op : Nat, gen : Nat]
  BY <1>1, AtWork DEF Free, UpgradeInv, UpgradeTypes, CoordTypes, CoordinatorKnows, Forward
<1>3. ASSUME NEW state \in {"software_replaced", "migrating"}, ManifestTo(state), UNCHANGED coord
      PROVE  UpgradeInv'
  <2>1. state \in ManifestStates \ {"clean"} /\ manifest'.state = state /\ manifest'.op = manifest.op
    BY <1>2, <1>3 DEF ManifestStates, ManifestTo
  <2>2. CoordinatorKnows'
    BY <1>1, <1>2, <1>3, <2>1, LightKnows
  <2> QED
    BY <1>1, <1>2, <1>3, <2>1, <2>2, ManifestOnly
<1>4. CASE coord' = [coord EXCEPT !.pc = "forward", !.man = manifest.state] /\ UNCHANGED manifest
  <2>1. /\ coord' \in CoordTypes /\ coord'.pc = "forward" /\ coord'.op = coord.op
        /\ coord'.rollback = coord.rollback
    BY <1>2, <1>4 DEF CoordTypes, PCs
  <2>2. CoordinatorKnows'
    BY <1>1, <1>2, <1>4, <2>1, LightKnows
  <2> QED
    BY <1>1, <1>4, <2>1, <2>2, CoordOnly
<1> QED
  BY <1>3, <1>4 DEF AdvanceManifest

LEMMA UnwindManifestKeeps ==
  ASSUME UpgradeInv, UnwindManifest
  PROVE  UpgradeInv'
<1>1. /\ UNCHANGED <<journal, backup, data, software, writes>> /\ coord.pc = "unwind"
      /\ ManifestTo("rolling_back")
  BY DEF UnwindManifest
<1>2. /\ coord.op \in Operations /\ journal[coord.op].state = "rolling_back" /\ coord.rollback
      /\ manifest.state # "clean" /\ manifest.op = coord.op /\ coord \in CoordTypes
      /\ manifest \in [state : ManifestStates, op : Nat, gen : Nat] /\ J = journal[coord.op]
  BY <1>1 DEF Free, UpgradeInv, UpgradeTypes, CoordTypes, CoordinatorKnows, Backward, J
<1>3. "rolling_back" \in ManifestStates \ {"clean"} /\ manifest'.state = "rolling_back" /\ manifest'.op = manifest.op
  BY <1>1, <1>2 DEF ManifestStates, ManifestTo
<1>4. PICK pc \in {"restore", "reinstall"} :
         /\ coord' = [coord EXCEPT !.man = "rolling_back", !.item = 1, !.pc = pc]
         /\ pc = IF J.digest THEN "restore" ELSE "reinstall"
  BY DEF UnwindManifest
<1>5. /\ coord' \in CoordTypes /\ coord'.pc = pc /\ coord'.op = coord.op
      /\ coord'.rollback = coord.rollback
  BY <1>2, <1>4 DEF CoordTypes, PCs, ManifestStates
<1>6. pc = "restore" => journal[coord.op].digest
  BY <1>2, <1>4
<1>7. pc = "reinstall" => \A s \in Steps : data[s].gen = journal[coord.op].from
  BY <1>2, <1>4 DEF UpgradeInv, BackupHolds, DataAt
<1>8. CoordinatorKnows'
  BY <1>1, <1>2, <1>3, <1>4, <1>5, <1>6, <1>7 DEF CoordinatorKnows, Free, Forward, Backward, J, Source, DataAt
<1> QED
  BY <1>1, <1>2, <1>3, <1>5, <1>8, ManifestOnly

LEMMA FailManifestKeeps ==
  ASSUME UpgradeInv, FailManifest
  PROVE  UpgradeInv'
<1>1. /\ UNCHANGED <<journal, backup, data, software, writes>> /\ coord' = IdleCoordinator
  BY DEF FailManifest
<1>2. CASE UNCHANGED manifest
  BY <1>1, <1>2, GoesIdle
<1>3. CASE manifest.state # "clean" /\ ManifestTo("failed")
  BY <1>1, <1>3, IdleKnows, ManifestOnly DEF ManifestStates
<1> QED
  BY <1>2, <1>3 DEF FailManifest

LEMMA PrepareManifestKeeps ==
  ASSUME UpgradeInv, PrepareManifest
  PROVE  UpgradeInv'
<1>1. /\ UNCHANGED <<journal, backup, data, software, writes>> /\ coord.pc = "prepare"
  BY DEF PrepareManifest
<1>2. /\ coord.op \in Operations /\ journal[coord.op].state = "prepared" /\ coord \in CoordTypes
      /\ manifest.state = "clean" /\ journal[coord.op].from = software
      /\ ~journal[coord.op].digest /\ ~backup[coord.op].present
      /\ manifest \in [state : ManifestStates, op : Nat, gen : Nat]
  BY <1>1 DEF UpgradeInv, UpgradeTypes, CoordTypes, CoordinatorKnows, J
<1>3. \A s \in Steps : data[s].gen = software
  BY <1>2 DEF UpgradeInv, WholeWhenClean, DataAt
<1>4. manifest' = [manifest EXCEPT !.state = "prepared", !.op = coord.op]
  BY DEF PrepareManifest
<1>5. /\ manifest' \in [state : ManifestStates, op : Nat, gen : Nat]
      /\ manifest'.state = "prepared" /\ manifest'.op = coord.op
  BY <1>2, <1>4 DEF ManifestStates, CoordTypes
<1>6. /\ coord' \in CoordTypes /\ coord'.pc = "loaded" /\ coord'.op = coord.op
  BY <1>2 DEF PrepareManifest, CoordTypes, PCs, ManifestStates
<1>7. CoordinatorKnows'
  BY <1>1, <1>2, <1>5, <1>6, LightKnows
<1>8. UpgradeTypes' /\ JournalsSound'
  BY <1>1, <1>5, <1>6 DEF UpgradeInv, UpgradeTypes, CoordTypes, JournalsSound
<1>9. \A s \in Steps : LastOf(s)' = LastOf(s)
  BY <1>1, <1>2, CleanStores DEF LastOf
<1>10. BackupHolds' /\ LastWriteThere' /\ WholeWhenClean'
  BY <1>1, <1>2, <1>3, <1>5, <1>9 DEF UpgradeInv, BackupHolds, LastWriteThere, WholeWhenClean, DataAt
<1> QED
  BY <1>7, <1>8, <1>10 DEF UpgradeInv

\* The installation becomes usable at a generation that release and stores have.
LEMMA CleanKeeps ==
  ASSUME UpgradeInv, NEW gen \in Nat \ {0}, Clean(gen), CoordAt("cleaned"),
         coord.pc # "idle", software = gen, DataAt(gen),
         journal[coord.op].state = IF coord.rollback THEN "rolling_back" ELSE "commit_ready",
         UNCHANGED <<journal, backup, data, software, writes>>
  PROVE  UpgradeInv'
<1>1. /\ coord.op \in Operations
  BY AtWork
<1>2. /\ manifest' \in [state : ManifestStates, op : Nat, gen : Nat]
      /\ manifest'.state = "clean" /\ manifest'.gen = gen
  BY DEF Clean, ManifestStates
<1>3. "cleaned" \in PCs
  BY DEF PCs
<1>4. /\ coord' \in CoordTypes /\ coord'.pc = "cleaned" /\ coord'.op = coord.op
      /\ coord'.rollback = coord.rollback
  BY <1>3, MovesTo
<1>5. journal[coord.op].state # "absent"
  BY AtWork
<1>6. CoordinatorKnows'
  BY <1>1, <1>4, <1>5 DEF CoordinatorKnows, Free, Forward, Backward, J
<1>7. UpgradeTypes' /\ JournalsSound'
  BY <1>2, <1>4 DEF UpgradeInv, UpgradeTypes, CoordTypes, JournalsSound
<1>8. \A s \in Steps : LastOf(s)' = LastOf(s)
  BY WholeStores DEF LastOf
<1>9. BackupHolds' /\ LastWriteThere' /\ WholeWhenClean'
  BY <1>2, <1>8 DEF UpgradeInv, BackupHolds, LastWriteThere, WholeWhenClean, DataAt
<1> QED
  BY <1>6, <1>7, <1>9 DEF UpgradeInv

LEMMA CleanForwardKeeps ==
  ASSUME UpgradeInv, CleanForward
  PROVE  UpgradeInv'
<1>1. /\ coord.pc = "retained" /\ Clean(Target) /\ CoordAt("cleaned")
      /\ UNCHANGED <<journal, backup, data, software, writes>>
  BY DEF CleanForward
<1>2. /\ journal[coord.op].state = "commit_ready" /\ ~coord.rollback
      /\ software = Target /\ DataAt(Target)
  BY <1>1 DEF UpgradeInv, CoordinatorKnows, Forward, J
<1>3. Target \in Nat \ {0}
  BY <1>1, AtWork
<1> QED
  BY <1>1, <1>2, <1>3, CleanKeeps

LEMMA CleanRollbackKeeps ==
  ASSUME UpgradeInv, CleanRollback
  PROVE  UpgradeInv'
<1>1. /\ coord.pc = "unclean" /\ Clean(Source) /\ CoordAt("cleaned")
      /\ UNCHANGED <<journal, backup, data, software, writes>>
  BY DEF CleanRollback
<1>2. /\ journal[coord.op].state = "rolling_back" /\ coord.rollback
      /\ software = Source /\ DataAt(Source)
  BY <1>1 DEF UpgradeInv, CoordinatorKnows, Backward, J
<1>3. Source \in Nat \ {0}
  BY <1>1, AtWork
<1> QED
  BY <1>1, <1>2, <1>3, CleanKeeps

-------------------------------------------------------------------------------
(* Steps of the stores, the release and the backups *)

\* A step that changes generations of the data or the release, with a verified backup.
LEMMA ReleaseMoves ==
  ASSUME UpgradeInv, coord.pc \notin Free, coord.pc # "idle",
         UNCHANGED <<manifest, journal, backup, writes>>,
         data' \in [Steps -> DataRow], \A s \in Steps : LastOf(s)' = LastOf(s),
         software' \in Nat \ {0},
         journal[coord.op].digest \/ (data' = data /\ software' = journal[coord.op].from),
         coord' \in CoordTypes, CoordinatorKnows'
  PROVE  UpgradeInv'
<1>1. manifest.state # "clean" /\ manifest.op = coord.op
  BY AtWork
<1>2. UpgradeTypes' /\ JournalsSound'
  BY DEF UpgradeInv, UpgradeTypes, CoordTypes, JournalsSound
<1>3. BackupHolds'
  <2>1. BackupHolds
    BY DEF UpgradeInv
  <2>2. ~journal[coord.op].digest =>
          (\A s \in Steps : data'[s].gen = journal[coord.op].from) /\ software' = journal[coord.op].from
    BY <1>1, <2>1 DEF BackupHolds, DataAt
  <2> QED
    BY <1>1, <2>1, <2>2 DEF BackupHolds, DataAt
<1>4. LastWriteThere' /\ WholeWhenClean'
  BY <1>1 DEF UpgradeInv, LastWriteThere, WholeWhenClean
<1> QED
  BY <1>2, <1>3, <1>4 DEF UpgradeInv

\* A store that is migrated was whole, and keeps its last write.
LEMMA MigratedStore ==
  ASSUME NEW n, NEW gen \in Nat \ {0}, data \in [Steps -> DataRow], data[n].gen # 0,
         data' = [data EXCEPT ![n].gen = gen], UNCHANGED <<manifest, backup>>
  PROVE  \A s \in Steps : LastOf(s)' = LastOf(s)
<1> SUFFICES ASSUME NEW s \in Steps
             PROVE  LastOf(s)' = LastOf(s)
  OBVIOUS
<1>1. CASE s = n
  <2>1. data'[s].gen = gen /\ data'[s].last = data[s].last
    BY <1>1 DEF DataRow
  <2> QED
    BY <1>1, <2>1, WholeStore DEF LastOf
<1>2. CASE s # n
  <2>1. data'[s] = data[s]
    BY <1>2
  <2> QED
    BY <2>1 DEF LastOf
<1> QED
  BY <1>1, <1>2

LEMMA ApplyStepKeeps ==
  ASSUME UpgradeInv, ApplyStep
  PROVE  UpgradeInv'
<1>1. /\ coord.pc = "step" /\ CoordAt("applied")
      /\ UNCHANGED <<manifest, journal, backup, software, writes>>
  BY DEF ApplyStep
<1>2. /\ coord.pc \notin Free /\ coord.op \in Operations /\ journal[coord.op].state = "migrating"
      /\ ~coord.rollback /\ manifest.state # "clean" /\ manifest.op = coord.op
  BY <1>1 DEF UpgradeInv, CoordinatorKnows, J, Forward, Free
<1>3. journal[coord.op].digest
  BY <1>2 DEF UpgradeInv, JournalsSound, Owes, BackedUp
<1>4. /\ Target \in Nat \ {0} /\ Source # 0 /\ data \in [Steps -> DataRow]
      /\ software \in Nat \ {0}
  BY <1>1, AtWork DEF UpgradeInv, UpgradeTypes
<1>5. PICK n : data' = [data EXCEPT ![n].gen = Target] /\ data[n].gen \in {Source, Target}
  BY DEF ApplyStep
<1>6. data' \in [Steps -> DataRow]
  BY <1>4, <1>5 DEF DataRow
<1>7. \A s \in Steps : LastOf(s)' = LastOf(s)
  BY <1>1, <1>4, <1>5, MigratedStore
<1>8. "applied" \in PCs
  BY DEF PCs
<1>9. /\ coord' \in CoordTypes /\ coord'.pc = "applied" /\ coord'.op = coord.op
      /\ coord'.rollback = coord.rollback
  BY <1>1, <1>8, MovesTo
<1>10. CoordinatorKnows'
  BY <1>1, <1>2, <1>9, LightKnows
<1> QED
  BY <1>1, <1>2, <1>3, <1>4, <1>6, <1>7, <1>9, <1>10, ReleaseMoves

\* A store that is detached, or restored from the backup, counts for what the backup holds.
LEMMA RestoredStore ==
  ASSUME UpgradeInv, manifest.state # "clean", backup[manifest.op].present, NEW n,
         NEW row, row = Torn \/ row = backup[manifest.op].data[n],
         data' = [data EXCEPT ![n] = row], UNCHANGED <<manifest, backup>>
  PROVE  \A s \in Steps : LastOf(s)' = LastOf(s)
<1> SUFFICES ASSUME NEW s \in Steps
             PROVE  LastOf(s)' = LastOf(s)
  OBVIOUS
<1>1. data \in [Steps -> DataRow] /\ backup[manifest.op].data[s].last = LastOf(s)
  BY DEF UpgradeInv, UpgradeTypes, BackupHolds
<1>2. CASE s = n
  <2>1. data'[s] = Torn \/ data'[s] = backup[manifest.op].data[s]
    BY <1>1, <1>2
  <2>2. LastOf(s)' = backup[manifest.op].data[s].last
    BY <2>1 DEF LastOf
  <2> QED
    BY <1>1, <2>2
<1>3. CASE s # n
  <2>1. data'[s] = data[s]
    BY <1>1, <1>3
  <2> QED
    BY <2>1 DEF LastOf
<1> QED
  BY <1>2, <1>3

LEMMA RestoreKeeps ==
  ASSUME UpgradeInv, DetachItem \/ RestoreItem
  PROVE  UpgradeInv'
<1>1. /\ coord.pc \in {"restore", "replace"} /\ backup[coord.op].present
      /\ coord.item <= StepCount
      /\ UNCHANGED <<manifest, journal, backup, software, writes>>
  BY DEF DetachItem, RestoreItem
<1>2. /\ coord.pc \notin Free /\ coord.op \in Operations /\ journal[coord.op].state = "rolling_back"
      /\ coord.rollback /\ manifest.state # "clean" /\ manifest.op = coord.op
      /\ journal[coord.op].digest
  BY <1>1 DEF UpgradeInv, CoordinatorKnows, J, Backward, Free
<1>3. /\ data \in [Steps -> DataRow] /\ software \in Nat \ {0} /\ coord \in CoordTypes
      /\ backup[coord.op].data \in [Steps -> DataRow]
  BY <1>2 DEF UpgradeInv, UpgradeTypes, CoordTypes, BackupRow
<1>4. PICK row : /\ data' = [data EXCEPT ![coord.item] = row]
                 /\ row = Torn \/ row = backup[coord.op].data[coord.item]
  BY DEF DetachItem, RestoreItem
<1>5. data' \in [Steps -> DataRow]
  <2>1. Torn \in DataRow
    BY DEF Torn, DataRow
  <2>2. coord.item \in Steps => row \in DataRow
    BY <1>3, <1>4, <2>1
  <2> QED
    BY <1>3, <1>4, <2>2
<1>6. \A s \in Steps : LastOf(s)' = LastOf(s)
  BY <1>1, <1>2, <1>4, RestoredStore
<1>7. /\ coord' \in CoordTypes /\ coord'.pc \in {"restore", "replace"} /\ coord'.op = coord.op
      /\ coord'.rollback = coord.rollback
  <2>1. CASE DetachItem
    BY <2>1, MovesTo DEF DetachItem, PCs
  <2>2. CASE RestoreItem
    <3>1. coord.item + 1 \in Nat /\ "restore" \in PCs
      BY <1>3 DEF CoordTypes, PCs
    <3>2. PICK n \in Nat : coord' = [coord EXCEPT !.pc = "restore", !.item = n]
      BY <2>2, <3>1 DEF RestoreItem
    <3> QED
      BY <1>3, <3>1, <3>2 DEF CoordTypes
  <2> QED
    BY <2>1, <2>2
<1>8. CoordinatorKnows'
  BY <1>1, <1>2, <1>7 DEF CoordinatorKnows, Free, Forward, Backward, J
<1> QED
  BY <1>1, <1>2, <1>3, <1>5, <1>6, <1>7, <1>8, ReleaseMoves

LEMMA InstallTargetKeeps ==
  ASSUME UpgradeInv, InstallTarget
  PROVE  UpgradeInv'
<1>1. /\ coord.pc = "forward" /\ J.state = "backup_verified" /\ software' = Target
      /\ coord' = [coord EXCEPT !.pc = "loaded", !.man = manifest.state, !.seen = J]
      /\ UNCHANGED <<manifest, journal, backup, data, writes>>
  BY DEF InstallTarget
<1>2. /\ coord.pc \notin Free /\ coord.op \in Operations /\ J = journal[coord.op]
      /\ manifest.state # "clean" /\ manifest.op = coord.op /\ Target \in Nat \ {0}
      /\ journal[coord.op] \in JournalRow /\ journal[coord.op].state # "absent"
  BY <1>1, AtWork DEF Free
<1>3. journal[coord.op].digest
  BY <1>1, <1>2 DEF UpgradeInv, JournalsSound, Owes, BackedUp
<1>4. /\ data \in [Steps -> DataRow] /\ coord \in CoordTypes /\ manifest.state \in ManifestStates
  BY DEF UpgradeInv, UpgradeTypes, CoordTypes
<1>5. /\ coord' \in CoordTypes /\ coord'.pc = "loaded" /\ coord'.op = coord.op
      /\ coord'.rollback = coord.rollback
  BY <1>1, <1>2, <1>4 DEF CoordTypes, PCs
<1>6. CoordinatorKnows'
  BY <1>1, <1>2, <1>5, LightKnows
<1>7. \A s \in Steps : LastOf(s)' = LastOf(s)
  BY <1>1 DEF LastOf
<1> QED
  BY <1>1, <1>2, <1>3, <1>4, <1>5, <1>6, <1>7, ReleaseMoves

LEMMA ReinstallSourceKeeps ==
  ASSUME UpgradeInv, ReinstallSource
  PROVE  UpgradeInv'
<1>1. /\ coord.pc = "reinstall" /\ software' = Source /\ CoordAt("unclean")
      /\ UNCHANGED <<manifest, journal, backup, data, writes>>
  BY DEF ReinstallSource
<1>2. /\ coord.pc \notin Free /\ coord.op \in Operations /\ journal[coord.op].state = "rolling_back"
      /\ coord.rollback /\ manifest.state # "clean" /\ manifest.op = coord.op
      /\ \A s \in Steps : data[s].gen = journal[coord.op].from
  BY <1>1 DEF UpgradeInv, CoordinatorKnows, J, Backward, Free, Source, DataAt
<1>3. /\ data \in [Steps -> DataRow] /\ Source = journal[coord.op].from /\ Source \in Nat \ {0}
  BY <1>1, AtWork DEF UpgradeInv, UpgradeTypes
<1>4. "unclean" \in PCs
  BY DEF PCs
<1>5. /\ coord' \in CoordTypes /\ coord'.pc = "unclean" /\ coord'.op = coord.op
      /\ coord'.rollback = coord.rollback
  BY <1>1, <1>4, MovesTo
<1>6. CoordinatorKnows'
  BY <1>1, <1>2, <1>3, <1>5 DEF CoordinatorKnows, Free, Forward, Backward, J, Source, DataAt
<1>7. \A s \in Steps : LastOf(s)' = LastOf(s)
  BY <1>1 DEF LastOf
<1> QED
  BY <1>1, <1>2, <1>3, <1>5, <1>6, <1>7, ReleaseMoves

LEMMA PublishBackupKeeps ==
  ASSUME UpgradeInv, PublishBackup
  PROVE  UpgradeInv'
<1>1. /\ coord.pc = "forward" /\ J.state = "prepared" /\ CoordAt("published")
      /\ UNCHANGED <<manifest, journal, data, software, writes>>
  BY DEF PublishBackup
<1>2. /\ coord.pc \notin Free /\ coord.op \in Operations /\ J = journal[coord.op]
      /\ manifest.state # "clean" /\ manifest.op = coord.op /\ ~coord.rollback
      /\ backup \in [Operations -> BackupRow] /\ data \in [Steps -> DataRow]
  BY <1>1, AtWork DEF Free, UpgradeInv, UpgradeTypes, CoordinatorKnows, Forward
<1>3. "published" \in PCs
  BY DEF PCs
<1>4. /\ coord' \in CoordTypes /\ coord'.pc = "published" /\ coord'.op = coord.op
      /\ coord'.rollback = coord.rollback
  BY <1>1, <1>3, MovesTo
<1>5. CASE backup[coord.op].present
  <2>1. backup' = backup
    BY <1>5 DEF PublishBackup
  <2>2. CoordinatorKnows'
    BY <1>1, <1>2, <1>4, <1>5, <2>1 DEF CoordinatorKnows, Free, Forward, Backward, J
  <2> QED
    BY <1>1, <1>4, <2>1, <2>2, CoordOnly
<1>6. CASE ~backup[coord.op].present
  <2> DEFINE new == [present |-> TRUE, data |-> data]
  <2>1. backup' = [backup EXCEPT ![coord.op] = new]
    BY <1>6 DEF PublishBackup
  <2>2. new \in BackupRow /\ new.present /\ new.data = data
    BY <1>2 DEF BackupRow
  <2> HIDE DEF new
  <2>3. /\ backup'[coord.op] = new /\ \A o \in Operations : o # coord.op => backup'[o] = backup[o]
        /\ backup' \in [Operations -> BackupRow]
    BY <1>2, <2>1, <2>2
  <2>4. CoordinatorKnows'
    BY <1>1, <1>2, <1>4, <2>2, <2>3 DEF CoordinatorKnows, Free, Forward, Backward, J
  <2>5. UpgradeTypes'
    BY <1>1, <1>4, <2>3 DEF UpgradeInv, UpgradeTypes, CoordTypes
  <2>6. JournalsSound'
    <3> SUFFICES ASSUME NEW o \in Operations
                 PROVE  /\ Owes(journal[o]) => journal[o].digest
                        /\ journal[o].state = "absent" => ~journal[o].digest /\ ~backup'[o].present
                        /\ journal[o].state = "failed" => journal[o].resume \in JournalStates \ {"absent", "failed"}
                        /\ journal[o].state # "absent" => journal[o].from # 0
      BY <1>1 DEF JournalsSound
    <3> QED
      BY <1>1, <1>2, <2>3 DEF UpgradeInv, JournalsSound
  <2>7. ~journal[coord.op].digest
    BY <1>2, <1>6 DEF UpgradeInv, BackupHolds
  <2>8. \A s \in Steps : data[s].gen = journal[coord.op].from
    BY <1>2, <2>7 DEF UpgradeInv, BackupHolds, DataAt
  <2>9. \A s \in Steps : data[s] # Torn /\ LastOf(s) = data[s].last /\ LastOf(s)' = data[s].last
    <3>1. DataAt(Source) /\ Source # 0
      BY <1>1, <2>8, AtWork DEF DataAt
    <3> QED
      BY <1>1, <3>1, WholeStores DEF LastOf
  <2>10. BackupHolds'
    BY <1>1, <1>2, <2>2, <2>3, <2>7, <2>8, <2>9 DEF UpgradeInv, BackupHolds, DataAt
  <2>11. LastWriteThere' /\ WholeWhenClean'
    BY <1>1, <1>2, <2>9 DEF UpgradeInv, LastWriteThere, WholeWhenClean
  <2> QED
    BY <2>4, <2>5, <2>6, <2>10, <2>11 DEF UpgradeInv
<1> QED
  BY <1>5, <1>6

LEMMA EnforceRetentionKeeps ==
  ASSUME UpgradeInv, EnforceRetention
  PROVE  UpgradeInv'
<1>1. /\ coord.pc = "forward" /\ J.state = "commit_ready" /\ CoordAt("retained")
      /\ software = Target /\ DataAt(Target)
      /\ UNCHANGED <<manifest, journal, data, software, writes>>
  BY DEF EnforceRetention
<1>2. /\ coord.pc \notin Free /\ coord.op \in Operations /\ J = journal[coord.op]
      /\ manifest.state # "clean" /\ manifest.op = coord.op /\ ~coord.rollback
      /\ backup \in [Operations -> BackupRow] /\ Target = journal[coord.op].from + 1
  BY <1>1, AtWork DEF Free, UpgradeInv, UpgradeTypes, CoordinatorKnows, Forward
<1>3. "retained" \in PCs
  BY DEF PCs
<1>4. /\ coord' \in CoordTypes /\ coord'.pc = "retained" /\ coord'.op = coord.op
      /\ coord'.rollback = coord.rollback
  BY <1>1, <1>3, MovesTo
<1>5. /\ AbsentBackup \in BackupRow /\ ~AbsentBackup.present
  BY DEF AbsentBackup, BackupRow, DataRow
<1>6. /\ backup' \in [Operations -> BackupRow] /\ backup'[coord.op] = backup[coord.op]
      /\ \A o \in Operations : backup'[o] \in {backup[o], AbsentBackup}
  <2>1. CASE UNCHANGED backup
    BY <1>2, <2>1
  <2>2. CASE Retain(CompletedOperations \cup {coord.op})
    <3>1. PICK newest : backup' = [o \in Operations |-> IF o \in newest \cup {coord.op} THEN backup[o] ELSE AbsentBackup]
      BY <2>2 DEF Retain
    <3> HIDE DEF AbsentBackup
    <3> QED
      BY <1>2, <1>5, <3>1
  <2> QED
    BY <2>1, <2>2 DEF EnforceRetention
<1>7. CoordinatorKnows'
  BY <1>1, <1>2, <1>4 DEF CoordinatorKnows, Free, Forward, Backward, J, Target, DataAt
<1>8. UpgradeTypes'
  BY <1>1, <1>4, <1>6 DEF UpgradeInv, UpgradeTypes, CoordTypes
<1>9. JournalsSound'
  <2> SUFFICES ASSUME NEW o \in Operations
               PROVE  /\ Owes(journal[o]) => journal[o].digest
                      /\ journal[o].state = "absent" => ~journal[o].digest /\ ~backup'[o].present
                      /\ journal[o].state = "failed" => journal[o].resume \in JournalStates \ {"absent", "failed"}
                      /\ journal[o].state # "absent" => journal[o].from # 0
    BY <1>1 DEF JournalsSound
  <2>1. backup'[o] = backup[o] \/ backup'[o] = AbsentBackup
    BY <1>6
  <2>2. backup'[o].present => backup[o].present
    BY <1>5, <2>1
  <2> QED
    BY <2>2 DEF UpgradeInv, JournalsSound
<1>10. \A s \in Steps : LastOf(s)' = LastOf(s)
  BY <1>1, <1>2, <1>6 DEF LastOf
<1>11. BackupHolds' /\ LastWriteThere' /\ WholeWhenClean'
  BY <1>1, <1>2, <1>6, <1>10 DEF UpgradeInv, BackupHolds, LastWriteThere, WholeWhenClean, DataAt
<1> QED
  BY <1>7, <1>8, <1>9, <1>11 DEF UpgradeInv

LEMMA WriteDataKeeps ==
  ASSUME UpgradeInv, NEW t \in Steps, WriteData(t)
  PROVE  UpgradeInv'
<1>1. /\ manifest.state = "clean" /\ coord.pc = "idle" /\ writes' = writes + 1
      /\ data' = [s \in Steps |-> [data[s] EXCEPT !.last = IF s = t THEN writes + 1 ELSE @]]
      /\ UNCHANGED <<manifest, journal, backup, software, coord>>
  BY DEF WriteData
<1>2. data \in [Steps -> DataRow] /\ writes \in Nat
  BY DEF UpgradeInv, UpgradeTypes
<1>3. \A s \in Steps : data'[s] \in DataRow /\ data'[s].gen = data[s].gen
  BY <1>1, <1>2 DEF DataRow
<1>4. data'[t].last = writes'
  BY <1>1, <1>2 DEF DataRow
<1>5. data' \in [Steps -> DataRow]
  BY <1>1, <1>3
<1>6. UpgradeTypes' /\ JournalsSound'
  BY <1>1, <1>2, <1>5 DEF UpgradeInv, UpgradeTypes, JournalsSound
<1>7. CoordinatorKnows'
  BY <1>1 DEF CoordinatorKnows, Free, Forward, Backward
<1>8. BackupHolds' /\ LastWriteThere'
  <2>1. data[t].gen # 0
    BY <1>1 DEF UpgradeInv, UpgradeTypes, WholeWhenClean, DataAt
  <2>2. data'[t] # Torn
    BY <1>3, <2>1, WholeStore
  <2> QED
    BY <1>1, <1>4, <2>2 DEF BackupHolds, LastWriteThere, LastOf
<1>9. WholeWhenClean'
  BY <1>1, <1>3 DEF UpgradeInv, WholeWhenClean, DataAt
<1> QED
  BY <1>6, <1>7, <1>8, <1>9 DEF UpgradeInv

LEMMA CreateJournalKeeps ==
  ASSUME UpgradeInv, NEW o \in Operations, CreateJournal(o)
  PROVE  UpgradeInv'
<1> DEFINE new == [AbsentJournal EXCEPT !.state = "prepared", !.from = software]
<1>1. /\ manifest.state = "clean" /\ coord.pc = "idle" /\ journal[o].state = "absent"
      /\ journal' = [journal EXCEPT ![o] = new]
      /\ UNCHANGED <<manifest, backup, data, software, writes>>
  BY DEF CreateJournal
<1>2. /\ journal \in [Operations -> JournalRow] /\ software \in Nat \ {0} /\ o \in Nat
  BY UpgradeAssumption DEF UpgradeInv, UpgradeTypes
<1>3. /\ new \in JournalRow /\ new.state = "prepared" /\ new.from = software /\ ~new.digest
  BY <1>2 DEF AbsentJournal, JournalRow, JournalStates
<1> HIDE DEF new
<1>4. /\ journal'[o] = new /\ \A p \in Operations : p # o => journal'[p] = journal[p]
      /\ journal' \in [Operations -> JournalRow]
  BY <1>1, <1>2, <1>3
<1>5. coord' = [IdleCoordinator EXCEPT !.pc = "prepare", !.op = o, !.seen = new]
  BY <1>4 DEF CreateJournal
<1>6. /\ coord' \in CoordTypes /\ coord'.pc = "prepare" /\ coord'.op = o
  BY <1>2, <1>3, <1>5 DEF IdleCoordinator, CoordTypes, PCs, ManifestStates
<1>7. ~backup[o].present
  BY <1>1 DEF UpgradeInv, JournalsSound
<1>8. CoordinatorKnows'
  BY <1>1, <1>3, <1>4, <1>6, <1>7 DEF CoordinatorKnows, Free, Forward, Backward, J
<1>9. UpgradeTypes'
  BY <1>1, <1>4, <1>6 DEF UpgradeInv, UpgradeTypes, CoordTypes
<1>10. JournalsSound'
  <2> SUFFICES ASSUME NEW p \in Operations
               PROVE  /\ Owes(journal'[p]) => journal'[p].digest
                      /\ journal'[p].state = "absent" => ~journal'[p].digest /\ ~backup[p].present
                      /\ journal'[p].state = "failed" => journal'[p].resume \in JournalStates \ {"absent", "failed"}
                      /\ journal'[p].state # "absent" => journal'[p].from # 0
    BY <1>1 DEF JournalsSound, Owes
  <2>1. CASE p = o
    BY <1>2, <1>3, <1>4, <2>1 DEF Owes, BackedUp
  <2>2. CASE p # o
    BY <1>4, <2>2 DEF UpgradeInv, JournalsSound
  <2> QED
    BY <2>1, <2>2
<1>11. BackupHolds' /\ LastWriteThere' /\ WholeWhenClean'
  BY <1>1 DEF UpgradeInv, BackupHolds, LastWriteThere, LastOf, WholeWhenClean, DataAt
<1> QED
  BY <1>8, <1>9, <1>10, <1>11 DEF UpgradeInv

-------------------------------------------------------------------------------
(* The invariant *)

LEMMA UpgradeInvInit == UpgradeInit => UpgradeInv
<1> SUFFICES ASSUME UpgradeInit
             PROVE  UpgradeInv
  OBVIOUS
<1>1. AbsentJournal \in JournalRow /\ AbsentJournal.state = "absent" /\ ~AbsentJournal.digest
  BY DEF AbsentJournal, JournalRow, JournalStates
<1>2. AbsentBackup \in BackupRow /\ ~AbsentBackup.present
  BY DEF AbsentBackup, BackupRow, DataRow
<1>3. IdleCoordinator \in CoordTypes /\ IdleCoordinator.pc = "idle"
  BY <1>1 DEF IdleCoordinator, CoordTypes, PCs, ManifestStates
<1>4. \A s \in Steps : /\ data[s] \in DataRow /\ data[s].gen = 1 /\ data[s].last = 0
                       /\ LastOf(s) = 0
  BY DEF UpgradeInit, DataRow, LastOf, Torn
<1>5. data \in [Steps -> DataRow]
  BY <1>4 DEF UpgradeInit
<1>6. /\ manifest \in [state : ManifestStates, op : Nat, gen : Nat]
      /\ manifest.state = "clean" /\ manifest.gen = 1
  BY DEF UpgradeInit, ManifestStates
<1>7. \A o \in Operations : journal[o] = AbsentJournal /\ backup[o] = AbsentBackup
  BY DEF UpgradeInit
<1> HIDE DEF AbsentJournal, AbsentBackup, IdleCoordinator
<1>8. UpgradeTypes
  BY <1>1, <1>2, <1>3, <1>5, <1>6 DEF UpgradeInit, UpgradeTypes, CoordTypes
<1>9. JournalsSound
  BY <1>1, <1>2, <1>7 DEF JournalsSound, Owes, BackedUp
<1>10. CoordinatorKnows
  BY <1>3 DEF UpgradeInit, CoordinatorKnows, Free, Forward, Backward
<1>11. 1 \in Steps
  BY UpgradeAssumption DEF Steps
<1>12. BackupHolds /\ LastWriteThere /\ WholeWhenClean
  BY <1>4, <1>6, <1>11 DEF UpgradeInit, BackupHolds, LastWriteThere, WholeWhenClean, DataAt
<1> QED
  BY <1>8, <1>9, <1>10, <1>12 DEF UpgradeInv

LEMMA UpgradeInvStep ==
  ASSUME UpgradeInv, [UpgradeNext]_upgradeVars
  PROVE  UpgradeInv'
<1>1. CASE \E s \in Steps : WriteData(s)
  BY <1>1, WriteDataKeeps
<1>2. CASE \E o \in Operations : CreateJournal(o)
  BY <1>2, CreateJournalKeeps
<1>3. CASE \E rollback \in BOOLEAN : BeginRecovery(rollback)
  BY <1>3, BeginRecoveryKeeps
<1>4. CASE ForwardStep
  BY <1>4, PrepareManifestKeeps, ResumeFailedJournalKeeps, ChooseForwardKeeps, AdvanceManifestKeeps,
     PublishBackupKeeps, ForwardJournalKeeps, InstallTargetKeeps, MarkApplyingKeeps, ApplyStepKeeps,
     MarkVerifiedKeeps, EnforceRetentionKeeps, CleanForwardKeeps, FinishJournalKeeps
     DEF ForwardStep
<1>5. CASE RollbackStep
  BY <1>5, ChooseRollbackKeeps, UnwindManifestKeeps, RestoreKeeps, VerifySourceKeeps,
     ReinstallSourceKeeps, CleanRollbackKeeps DEF RollbackStep
<1>6. CASE FailureStep
  BY <1>6, RecordFailureKeeps, FailManifestKeeps DEF FailureStep
<1>7. CASE RaiseFailure \/ CrashUpgrade
  BY <1>7, FailuresKeep
<1>8. CASE UNCHANGED upgradeVars
  <2>1. UNCHANGED <<manifest, journal, backup, data, software, coord, writes>>
    BY <1>8 DEF upgradeVars
  <2>2. coord' \in CoordTypes /\ CoordinatorKnows'
    BY <2>1 DEF UpgradeInv, UpgradeTypes, CoordTypes, CoordinatorKnows, J, Source, Target, DataAt
  <2> QED
    BY <2>1, <2>2, CoordOnly
<1> QED
  BY <1>1, <1>2, <1>3, <1>4, <1>5, <1>6, <1>7, <1>8 DEF UpgradeNext

LEMMA UpgradeInvariance == UpgradeSpec => []UpgradeInv
  BY UpgradeInvInit, UpgradeInvStep, PTL DEF UpgradeSpec

-------------------------------------------------------------------------------
(* The theorems *)

\* Whatever crashes, fails, resumes and rolls back: a clean manifest means that the
\* release and every store are at the generation it names.
THEOREM CleanIsWhole == UpgradeSpec => []WholeWhenClean
<1>1. UpgradeInv => WholeWhenClean
  BY DEF UpgradeInv
<1> QED
  BY <1>1, UpgradeInvariance, PTL

\* The last write of a user is in the data of every usable installation, also after a
\* restore.
THEOREM WritesSurvive == UpgradeSpec => []NothingLost
<1>1. UpgradeInv => NothingLost
  BY CleanStores DEF UpgradeInv, NothingLost, LastWriteThere
<1> QED
  BY <1>1, UpgradeInvariance, PTL

\* An operation before its fence that has changed something has a backup at the source
\* generation.
THEOREM ChangesAreRestorable == UpgradeSpec => []Restorable
<1>1. UpgradeInv => Restorable
  <2> SUFFICES ASSUME UpgradeInv, manifest.state # "clean",
                      \/ software # journal[manifest.op].from
                      \/ ~DataAt(journal[manifest.op].from)
               PROVE  /\ backup[manifest.op].present
                      /\ \A s \in Steps : backup[manifest.op].data[s].gen = journal[manifest.op].from
    BY DEF Restorable
  <2>1. BackupHolds
    BY DEF UpgradeInv
  <2>2. journal[manifest.op].digest
    BY <2>1 DEF BackupHolds
  <2> QED
    BY <2>1, <2>2 DEF BackupHolds
<1> QED
  BY <1>1, UpgradeInvariance, PTL

\* What a step may do to the two decisions of a journal.
Keeps(old, new) ==
  /\ PastFence(old) => PastFence(new)
  /\ RollingBack(old) => RollingBack(new) \/ new.state = "rolled_back"

\* One journal is written, and its decisions stay.
LEMMA OneJournal ==
  ASSUME UpgradeInv, coord.op \in Operations,
         \A o \in Operations : o # coord.op => journal'[o] = journal[o],
         Keeps(journal[coord.op], journal'[coord.op])
  PROVE  \A o \in Operations : Keeps(journal[o], journal'[o])
<1> SUFFICES ASSUME NEW o \in Operations
             PROVE  Keeps(journal[o], journal'[o])
  OBVIOUS
<1>1. CASE o = coord.op
  BY <1>1
<1>2. CASE o # coord.op
  BY <1>2 DEF Keeps
<1> QED
  BY <1>1, <1>2

\* The writes of the journal, by the state they start from and the state they reach.
LEMMA JournalWrites ==
  ASSUME UpgradeInv, coord.pc # "idle",
         \/ ResumeFailedJournal \/ RecordBackup \/ RecordSoftware \/ BeginMigrating \/ MarkApplying
         \/ MarkVerified \/ ReachFence \/ FinishJournal \/ ChooseRollback \/ RecordFailure
  PROVE  \/ UNCHANGED journal
         \/ /\ coord.op \in Operations
            /\ \A o \in Operations : o # coord.op => journal'[o] = journal[o]
            /\ Keeps(journal[coord.op], journal'[coord.op])
<1>1. /\ coord.op \in Operations /\ journal \in [Operations -> JournalRow] /\ J = journal[coord.op]
      /\ journal[coord.op] \in JournalRow
  BY AtWork DEF UpgradeInv, UpgradeTypes
<1>2. ASSUME NEW state \in JournalStates, NEW pc, JournalTo(state, pc)
      PROVE  /\ \A o \in Operations : o # coord.op => journal'[o] = journal[o]
             /\ journal'[coord.op].state = state
  BY <1>1, <1>2 DEF JournalTo, JournalRow
<1>3. CASE ResumeFailedJournal
  <2>1. CASE J.state = "failed"
    <3>1. J.resume \in JournalStates \ {"absent", "failed"}
      BY <1>1, <2>1 DEF UpgradeInv, JournalsSound
    <3>2. /\ \A o \in Operations : o # coord.op => journal'[o] = journal[o]
          /\ journal'[coord.op].state = J.resume
      BY <1>2, <1>3, <2>1, <3>1 DEF ResumeFailedJournal
    <3>3. Keeps(journal[coord.op], journal'[coord.op])
      BY <1>1, <2>1, <3>1, <3>2 DEF Keeps, PastFence, RollingBack
    <3> QED
      BY <1>1, <3>2, <3>3
  <2>2. CASE J.state # "failed"
    BY <1>3, <2>2 DEF ResumeFailedJournal
  <2> QED
    BY <2>1, <2>2
<1>4. CASE RecordBackup \/ RecordSoftware \/ BeginMigrating \/ ReachFence
  <2>1. J.state \in {"prepared", "backup_verified", "software_replaced", "migrating"}
    BY <1>4 DEF RecordBackup, RecordSoftware, BeginMigrating, ReachFence, UpgradeInv, CoordinatorKnows
  <2>2. Keeps(journal[coord.op], journal'[coord.op])
    BY <1>1, <2>1 DEF Keeps, PastFence, RollingBack
  <2>3. \A o \in Operations : o # coord.op => journal'[o] = journal[o]
    <3>1. \E state \in JournalStates, pc \in PCs : JournalTo(state, pc)
      BY <1>4 DEF RecordBackup, RecordSoftware, BeginMigrating, ReachFence, JournalStates, PCs
    <3> QED
      BY <1>2, <3>1
  <2> QED
    BY <1>1, <2>2, <2>3
<1>5. CASE MarkApplying \/ MarkVerified
  <2>1. /\ \A o \in Operations : o # coord.op => journal'[o] = journal[o]
        /\ journal'[coord.op].state = journal[coord.op].state
        /\ journal'[coord.op].resume = journal[coord.op].resume
    BY <1>1, <1>5 DEF MarkApplying, MarkVerified, JournalRow
  <2> QED
    BY <1>1, <2>1 DEF Keeps, PastFence, RollingBack
<1>6. CASE FinishJournal
  <2>1. J.state = IF coord.rollback THEN "rolling_back" ELSE "commit_ready"
    BY <1>6 DEF FinishJournal, UpgradeInv, CoordinatorKnows
  <2>2. /\ \A o \in Operations : o # coord.op => journal'[o] = journal[o]
        /\ journal'[coord.op].state = IF coord.rollback THEN "rolled_back" ELSE "completed"
    BY <1>1, <1>6 DEF FinishJournal, JournalRow
  <2> QED
    BY <1>1, <2>1, <2>2 DEF Keeps, PastFence, RollingBack
<1>7. CASE ChooseRollback
  <2>1. CASE JournalTo("rolling_back", "unwind") /\ ~PastFence(J)
    <3>1. /\ \A o \in Operations : o # coord.op => journal'[o] = journal[o]
          /\ journal'[coord.op].state = "rolling_back"
      BY <1>2, <2>1 DEF JournalStates
    <3> QED
      BY <1>1, <2>1, <3>1 DEF Keeps, RollingBack
  <2> QED
    BY <1>7, <2>1 DEF ChooseRollback
<1>8. CASE RecordFailure
  <2>1. CASE /\ journal' = [journal EXCEPT ![coord.op].state = "failed", ![coord.op].resume = J.state]
             /\ J.state \notin {"failed", "completed", "rolled_back"}
    <3>1. /\ \A o \in Operations : o # coord.op => journal'[o] = journal[o]
          /\ journal'[coord.op].state = "failed" /\ journal'[coord.op].resume = journal[coord.op].state
      BY <1>1, <2>1 DEF JournalRow
    <3> QED
      BY <1>1, <2>1, <3>1 DEF Keeps, PastFence, RollingBack
  <2> QED
    BY <1>8, <2>1 DEF RecordFailure
<1> QED
  BY <1>3, <1>4, <1>5, <1>6, <1>7, <1>8

LEMMA DecisionsStep ==
  ASSUME UpgradeInv, [UpgradeNext]_upgradeVars
  PROVE  UNCHANGED journal \/ \A o \in Operations : Keeps(journal[o], journal'[o])
<1>1. CASE UNCHANGED upgradeVars
  BY <1>1 DEF upgradeVars
<1>2. CASE \E p \in Operations : CreateJournal(p)
  <2>1. PICK p \in Operations : CreateJournal(p)
    BY <1>2
  <2>2. journal[p].state = "absent" /\ \A o \in Operations : o # p => journal'[o] = journal[o]
    BY <2>1 DEF CreateJournal, UpgradeInv, UpgradeTypes
  <2> SUFFICES ASSUME NEW o \in Operations
               PROVE  Keeps(journal[o], journal'[o])
    OBVIOUS
  <2>3. CASE o = p
    BY <2>2, <2>3 DEF Keeps, PastFence, RollingBack
  <2>4. CASE o # p
    BY <2>2, <2>4 DEF Keeps
  <2> QED
    BY <2>3, <2>4
<1>3. CASE \/ ResumeFailedJournal \/ RecordBackup \/ RecordSoftware \/ BeginMigrating \/ MarkApplying
           \/ MarkVerified \/ ReachFence \/ FinishJournal \/ ChooseRollback \/ RecordFailure
  <2>1. coord.pc # "idle"
    BY <1>3 DEF ResumeFailedJournal, RecordBackup, RecordSoftware, BeginMigrating, MarkApplying,
       MarkVerified, ReachFence, FinishJournal, ChooseRollback, RecordFailure
  <2> QED
    BY <1>3, <2>1, JournalWrites, OneJournal
<1>4. CASE \/ \E s \in Steps : WriteData(s)
           \/ \E rollback \in BOOLEAN : BeginRecovery(rollback)
           \/ PrepareManifest \/ ChooseForward \/ AdvanceManifest \/ PublishBackup \/ InstallTarget
           \/ ApplyStep \/ EnforceRetention \/ CleanForward \/ UnwindManifest
           \/ DetachItem \/ RestoreItem \/ VerifySource \/ ReinstallSource \/ CleanRollback \/ FailManifest
           \/ RaiseFailure \/ CrashUpgrade
  BY <1>4 DEF WriteData, BeginRecovery, PrepareManifest, ChooseForward, AdvanceManifest, PublishBackup,
     InstallTarget, ApplyStep, EnforceRetention, CleanForward, UnwindManifest, DetachItem, RestoreItem,
     VerifySource, ReinstallSource, CleanRollback, FailManifest, RaiseFailure, CrashUpgrade
<1> QED
  BY <1>1, <1>2, <1>3, <1>4 DEF UpgradeNext, ForwardStep, RollbackStep, FailureStep

\* Past the commit fence an operation only goes forward, and one that began to roll back
\* only rolls back, across every failure and retry.
THEOREM DecisionsAreFinal == UpgradeSpec => DecisionsFinal
<1>1. UpgradeInv /\ [UpgradeNext]_upgradeVars =>
        [\A o \in Operations :
           /\ PastFence(journal[o]) => PastFence(journal'[o])
           /\ RollingBack(journal[o]) => RollingBack(journal'[o]) \/ journal'[o].state = "rolled_back"]_journal
  BY DecisionsStep DEF Keeps
<1> QED
  BY <1>1, UpgradeInvariance, PTL DEF UpgradeSpec, DecisionsFinal


-------------------------------------------------------------------------------
(* Refinement *)

\* While the installation is closed it keeps the generation its operation started from.
GenHeld == ~Clear => journal[manifest.op].from = manifest.gen

\* Nobody who uses the installation can tell: it stays open or closed, the last writes
\* stay, and release and stores move only while it is closed.
Stands ==
  /\ Clear' = Clear
  /\ manifest'.op = manifest.op /\ manifest'.gen = manifest.gen
  /\ \A s \in Steps : LastOf(s)' = LastOf(s)
  /\ Clear => UNCHANGED <<software, data>>
  /\ ~Clear => journal'[manifest.op].from = journal[manifest.op].from

LEMMA StandsStill ==
  ASSUME GenHeld, Stands
  PROVE  GenHeld' /\ UNCHANGED Installation!installationVars
<1>1. GenHeld'
  BY DEF GenHeld, Stands
<1>2. (IF Clear THEN software ELSE manifest.gen)' = IF Clear THEN software ELSE manifest.gen
  BY DEF Stands
<1>3. \A s \in Steps : /\ (IF Clear THEN data[s].gen ELSE manifest.gen)' = IF Clear THEN data[s].gen ELSE manifest.gen
                       /\ LastOf(s)' = LastOf(s)
  BY DEF Stands
<1> QED
  BY <1>1, <1>2, <1>3 DEF Stands, Installation!installationVars

\* No journal once written changes the generation it starts from.
LEMMA FromStays ==
  ASSUME UpgradeInv, coord.pc # "idle",
         \/ ResumeFailedJournal \/ RecordBackup \/ RecordSoftware \/ BeginMigrating \/ MarkApplying
         \/ MarkVerified \/ ReachFence \/ FinishJournal \/ ChooseRollback \/ RecordFailure
  PROVE  \A o \in Operations : journal'[o].from = journal[o].from
<1>1. coord.op \in Operations /\ journal \in [Operations -> JournalRow]
  BY AtWork DEF UpgradeInv, UpgradeTypes
<1>2. ASSUME NEW state, NEW pc, JournalTo(state, pc)
      PROVE  \A o \in Operations : journal'[o].from = journal[o].from
  BY <1>1, <1>2 DEF JournalTo, JournalRow
<1>3. CASE ResumeFailedJournal \/ RecordBackup \/ RecordSoftware \/ BeginMigrating \/ ReachFence
  BY <1>2, <1>3 DEF ResumeFailedJournal, RecordBackup, RecordSoftware, BeginMigrating, ReachFence
<1>4. CASE ChooseRollback
  BY <1>2, <1>4 DEF ChooseRollback
<1>5. CASE MarkApplying \/ MarkVerified \/ FinishJournal
  BY <1>1, <1>5 DEF MarkApplying, MarkVerified, FinishJournal, JournalRow
<1>6. CASE RecordFailure
  BY <1>1, <1>6 DEF RecordFailure, JournalRow
<1> QED
  BY <1>3, <1>4, <1>5, <1>6

\* The steps that write a journal, and those that write nothing but the coordinator's
\* place or a backup.
LEMMA JournalsStand ==
  ASSUME UpgradeInv,
         \/ ResumeFailedJournal \/ RecordBackup \/ RecordSoftware \/ BeginMigrating \/ MarkApplying
         \/ MarkVerified \/ ReachFence \/ FinishJournal \/ ChooseRollback \/ RecordFailure
  PROVE  Stands
<1>1. coord.pc # "idle"
  BY DEF ResumeFailedJournal, RecordBackup, RecordSoftware, BeginMigrating, MarkApplying,
     MarkVerified, ReachFence, FinishJournal, ChooseRollback, RecordFailure
<1>2. \A o \in Operations : journal'[o].from = journal[o].from
  BY <1>1, FromStays
<1>3. ~Clear => manifest.op \in Operations
  BY DEF UpgradeInv, BackupHolds, Clear
<1>4. UNCHANGED <<manifest, backup, data, software>>
  BY DEF ResumeFailedJournal, RecordBackup, RecordSoftware, BeginMigrating, MarkApplying,
     MarkVerified, ReachFence, FinishJournal, ChooseRollback, RecordFailure
<1> QED
  BY <1>2, <1>3, <1>4 DEF Stands, Clear, LastOf

LEMMA QuietStands ==
  ASSUME UNCHANGED <<manifest, journal, backup, data, software>>
  PROVE  Stands
  BY DEF Stands, Clear, LastOf

\* A backup is published before anything can be torn, and the backup of the operation
\* outlives retention.
LEMMA BackupsStand ==
  ASSUME UpgradeInv, PublishBackup \/ EnforceRetention
  PROVE  Stands
<1>1. /\ UNCHANGED <<manifest, journal, data, software>> /\ coord.pc = "forward"
  BY DEF PublishBackup, EnforceRetention
<1>2. /\ coord.op \in Operations /\ manifest.state # "clean" /\ manifest.op = coord.op
      /\ Source # 0 /\ Target # 0 /\ Source = journal[coord.op].from /\ J = journal[coord.op]
      /\ backup \in [Operations -> BackupRow]
  BY <1>1, AtWork DEF Free, UpgradeInv, UpgradeTypes
<1>3. \A s \in Steps : LastOf(s)' = LastOf(s)
  <2>1. CASE EnforceRetention
    <3>1. DataAt(Target)
      BY <2>1 DEF EnforceRetention
    <3> QED
      BY <1>1, <1>2, <3>1, WholeStores DEF LastOf
  <2>2. CASE PublishBackup /\ backup[coord.op].present
    <3>1. backup' = backup
      BY <2>2 DEF PublishBackup
    <3> QED
      BY <1>1, <3>1 DEF LastOf
  <2>3. CASE PublishBackup /\ ~backup[coord.op].present
    <3>1. DataAt(Source)
      BY <1>2, <2>3 DEF UpgradeInv, BackupHolds
    <3> QED
      BY <1>1, <1>2, <3>1, WholeStores DEF LastOf
  <2> QED
    BY <2>1, <2>2, <2>3
<1> QED
  BY <1>1, <1>2, <1>3 DEF Stands, Clear

LEMMA JournalCreationStands ==
  ASSUME NEW o \in Operations, CreateJournal(o)
  PROVE  Stands
  BY DEF CreateJournal, Stands, Clear, LastOf

\* The manifest of a closed installation moves to another state that keeps it closed.
LEMMA ManifestStands ==
  ASSUME UpgradeInv, AdvanceManifest \/ UnwindManifest \/ FailManifest
  PROVE  Stands
<1>1. UNCHANGED <<journal, backup, data, software>>
  BY DEF AdvanceManifest, UnwindManifest, FailManifest
<1>2. manifest \in [state : ManifestStates, op : Nat, gen : Nat]
  BY DEF UpgradeInv, UpgradeTypes
<1>3. \/ UNCHANGED manifest
      \/ /\ manifest.state # "clean"
         /\ \E state \in ManifestStates \ {"clean"} : ManifestTo(state)
  <2>1. CASE AdvanceManifest \/ UnwindManifest
    <3>1. coord.pc \in {"advance", "unwind"}
      BY <2>1 DEF AdvanceManifest, UnwindManifest
    <3>2. manifest.state # "clean"
      BY <3>1, AtWork DEF Free
    <3> QED
      BY <2>1, <3>2 DEF AdvanceManifest, UnwindManifest, ManifestStates
  <2>2. CASE FailManifest
    BY <2>2 DEF FailManifest, ManifestStates
  <2> QED
    BY <2>1, <2>2
<1> QED
  BY <1>1, <1>2, <1>3 DEF Stands, Clear, ManifestTo, LastOf

\* Migration, restore, installation and its reversal happen behind a closed door.
LEMMA WorkStands ==
  ASSUME UpgradeInv, ApplyStep \/ DetachItem \/ RestoreItem \/ InstallTarget \/ ReinstallSource
  PROVE  Stands
<1>1. /\ UNCHANGED <<manifest, journal, backup>>
      /\ coord.pc \in {"step", "restore", "replace", "forward", "reinstall"}
  BY DEF ApplyStep, DetachItem, RestoreItem, InstallTarget, ReinstallSource
<1>2. /\ coord.op \in Operations /\ manifest.state # "clean" /\ manifest.op = coord.op
      /\ Source # 0 /\ Target \in Nat \ {0}
  BY <1>1, AtWork DEF Free
<1>3. data \in [Steps -> DataRow]
  BY DEF UpgradeInv, UpgradeTypes
<1>4. \A s \in Steps : LastOf(s)' = LastOf(s)
  <2>1. CASE ApplyStep
    <3>1. PICK n : data' = [data EXCEPT ![n].gen = Target] /\ data[n].gen \in {Source, Target}
      BY <2>1 DEF ApplyStep
    <3> QED
      BY <1>1, <1>2, <1>3, <3>1, MigratedStore
  <2>2. CASE DetachItem \/ RestoreItem
    <3>1. PICK row : /\ data' = [data EXCEPT ![coord.item] = row]
                     /\ row = Torn \/ row = backup[coord.op].data[coord.item]
      BY <2>2 DEF DetachItem, RestoreItem
    <3>2. backup[manifest.op].present
      BY <1>2, <2>2 DEF DetachItem, RestoreItem
    <3> QED
      BY <1>1, <1>2, <3>1, <3>2, RestoredStore
  <2>3. CASE InstallTarget \/ ReinstallSource
    BY <1>1, <2>3 DEF InstallTarget, ReinstallSource, LastOf
  <2> QED
    BY <2>1, <2>2, <2>3
<1> QED
  BY <1>1, <1>2, <1>4 DEF Stands, Clear


\* A user writes one store of an open installation.
LEMMA WriteIsUse ==
  ASSUME UpgradeInv, NEW t \in Steps, WriteData(t)
  PROVE  GenHeld' /\ Installation!Use(t)
<1>1. /\ manifest.state = "clean" /\ UNCHANGED <<manifest, backup, software>>
      /\ data' = [s \in Steps |-> [data[s] EXCEPT !.last = IF s = t THEN writes + 1 ELSE @]]
  BY DEF WriteData
<1>2. data \in [Steps -> DataRow]
  BY DEF UpgradeInv, UpgradeTypes
<1>3. \A s \in Steps : /\ data'[s].gen = data[s].gen
                       /\ s # t => data'[s].last = data[s].last
  BY <1>1, <1>2 DEF DataRow
<1>4. \A s \in Steps : data[s].gen # 0
  BY <1>1 DEF UpgradeInv, UpgradeTypes, WholeWhenClean, DataAt
<1>5. \A s \in Steps : LastOf(s) = data[s].last /\ LastOf(s)' = data'[s].last
  BY <1>3, <1>4, WholeStore DEF LastOf
<1> DEFINE held == [s \in Steps |-> [gen |-> IF Clear THEN data[s].gen ELSE manifest.gen,
                                     last |-> LastOf(s)]]
           open == [s \in Steps |-> [gen |-> data[s].gen, last |-> data[s].last]]
           after == [s \in Steps |-> [gen |-> data[s].gen, last |-> data'[s].last]]
<1>6. held = open /\ held' = after
  BY <1>1, <1>3, <1>5 DEF Clear
<1>7. after = [open EXCEPT ![t].last = after[t].last]
  BY <1>3
<1>8. held' = [held EXCEPT ![t].last = held'[t].last]
  BY <1>6, <1>7
<1>9. (IF Clear THEN software ELSE manifest.gen)' = IF Clear THEN software ELSE manifest.gen
  BY <1>1 DEF Clear
<1>10. Clear /\ Clear' = Clear
  BY <1>1 DEF Clear
<1>11. GenHeld'
  BY <1>10 DEF GenHeld
<1> QED
  BY <1>8, <1>9, <1>10, <1>11 DEF Installation!Use

\* The manifest that names an operation closes the installation as it stands.
LEMMA PreparationCloses ==
  ASSUME UpgradeInv, PrepareManifest
  PROVE  GenHeld' /\ Installation!CloseDown
<1>1. /\ coord.pc = "prepare" /\ UNCHANGED <<journal, data, software>>
      /\ manifest' = [manifest EXCEPT !.state = "prepared", !.op = coord.op]
  BY DEF PrepareManifest
<1>2. /\ manifest.state = "clean" /\ journal[coord.op].from = software
      /\ manifest \in [state : ManifestStates, op : Nat, gen : Nat]
  BY <1>1 DEF UpgradeInv, UpgradeTypes, CoordinatorKnows, J
<1>3. software = manifest.gen /\ \A s \in Steps : data[s].gen = manifest.gen
  BY <1>2 DEF UpgradeInv, WholeWhenClean, DataAt
<1>4. /\ manifest'.state = "prepared" /\ manifest'.op = coord.op /\ manifest'.gen = manifest.gen
  BY <1>1, <1>2
<1>5. GenHeld'
  BY <1>1, <1>2, <1>3, <1>4 DEF GenHeld
<1>6. Clear /\ Clear' = FALSE
  BY <1>2, <1>4 DEF Clear
<1>7. (IF Clear THEN software ELSE manifest.gen)' = IF Clear THEN software ELSE manifest.gen
  BY <1>3, <1>4, <1>6
<1>8. \A s \in Steps : /\ (IF Clear THEN data[s].gen ELSE manifest.gen)' = IF Clear THEN data[s].gen ELSE manifest.gen
                       /\ LastOf(s)' = LastOf(s)
  BY <1>1, <1>2, <1>3, <1>4, <1>6, CleanStores DEF LastOf
<1> QED
  BY <1>5, <1>6, <1>7, <1>8 DEF Installation!CloseDown

\* The manifest of a finished upgrade opens the installation one generation further.
LEMMA ForwardOpensUpgraded ==
  ASSUME UpgradeInv, GenHeld, CleanForward
  PROVE  GenHeld' /\ Installation!OpenUpgraded
<1>1. coord.pc = "retained" /\ Clean(Target) /\ UNCHANGED <<journal, data, software>>
  BY DEF CleanForward
<1>2. /\ manifest.state # "clean" /\ manifest.op = coord.op /\ Target = journal[coord.op].from + 1
      /\ software = Target /\ Target # 0 /\ \A s \in Steps : data[s].gen = Target
  BY <1>1, AtWork DEF Free, UpgradeInv, CoordinatorKnows, DataAt
<1>3. Target = manifest.gen + 1
  BY <1>2 DEF GenHeld, Clear
<1>4. ~Clear /\ Clear' = TRUE /\ GenHeld'
  BY <1>1, <1>2 DEF Clear, Clean, GenHeld
<1>5. (IF Clear THEN software ELSE manifest.gen)' = (IF Clear THEN software ELSE manifest.gen) + 1
  BY <1>1, <1>2, <1>3, <1>4
<1>6. \A s \in Steps : /\ (IF Clear THEN data[s].gen ELSE manifest.gen)' = manifest.gen + 1
                       /\ LastOf(s)' = LastOf(s)
  BY <1>1, <1>2, <1>3, <1>4, WholeStore DEF LastOf
<1> QED
  BY <1>4, <1>5, <1>6 DEF Installation!OpenUpgraded

\* The manifest of a finished rollback opens it as it was closed.
LEMMA RollbackOpensAsBefore ==
  ASSUME UpgradeInv, GenHeld, CleanRollback
  PROVE  GenHeld' /\ Installation!OpenAsBefore
<1>1. coord.pc = "unclean" /\ Clean(Source) /\ UNCHANGED <<journal, data, software>>
  BY DEF CleanRollback
<1>2. /\ manifest.state # "clean" /\ manifest.op = coord.op /\ Source = journal[coord.op].from
      /\ software = Source /\ Source # 0 /\ \A s \in Steps : data[s].gen = Source
  BY <1>1, AtWork DEF Free, UpgradeInv, CoordinatorKnows, DataAt
<1>3. Source = manifest.gen
  BY <1>2 DEF GenHeld, Clear
<1>4. ~Clear /\ Clear' = TRUE /\ GenHeld'
  BY <1>1, <1>2 DEF Clear, Clean, GenHeld
<1>5. (IF Clear THEN software ELSE manifest.gen)' = IF Clear THEN software ELSE manifest.gen
  BY <1>1, <1>2, <1>3, <1>4
<1>6. \A s \in Steps : /\ (IF Clear THEN data[s].gen ELSE manifest.gen)' = IF Clear THEN data[s].gen ELSE manifest.gen
                       /\ LastOf(s)' = LastOf(s)
  BY <1>1, <1>2, <1>3, <1>4, WholeStore DEF LastOf
<1> QED
  BY <1>4, <1>5, <1>6 DEF Installation!OpenAsBefore

LEMMA UpgradeRefines ==
  ASSUME UpgradeInv, GenHeld, [UpgradeNext]_upgradeVars
  PROVE  GenHeld' /\ [Installation!InstallationNext]_Installation!installationVars
<1>1. CASE Stands
  BY <1>1, StandsStill
<1>2. CASE \E s \in Steps : WriteData(s)
  BY <1>2, WriteIsUse DEF Installation!InstallationNext
<1>3. CASE \E o \in Operations : CreateJournal(o)
  BY <1>1, <1>3, JournalCreationStands
<1>4. CASE PrepareManifest \/ CleanForward \/ CleanRollback
  BY <1>4, PreparationCloses, ForwardOpensUpgraded, RollbackOpensAsBefore
     DEF Installation!InstallationNext
<1>5. CASE \/ ResumeFailedJournal \/ RecordBackup \/ RecordSoftware \/ BeginMigrating \/ MarkApplying
           \/ MarkVerified \/ ReachFence \/ FinishJournal \/ ChooseRollback \/ RecordFailure
  BY <1>1, <1>5, JournalsStand
<1>6. CASE AdvanceManifest \/ UnwindManifest \/ FailManifest
  BY <1>1, <1>6, ManifestStands
<1>7. CASE ApplyStep \/ DetachItem \/ RestoreItem \/ InstallTarget \/ ReinstallSource
  BY <1>1, <1>7, WorkStands
<1>8. CASE \/ \E rollback \in BOOLEAN : BeginRecovery(rollback)
           \/ ChooseForward \/ VerifySource \/ RaiseFailure \/ CrashUpgrade
           \/ UNCHANGED upgradeVars
  <2>1. UNCHANGED <<manifest, journal, backup, data, software>>
    BY <1>8 DEF BeginRecovery, ChooseForward, VerifySource, RaiseFailure, CrashUpgrade, upgradeVars
  <2> QED
    BY <1>1, <2>1, QuietStands
<1>9. CASE PublishBackup \/ EnforceRetention
  BY <1>1, <1>9, BackupsStand
<1> QED
  BY <1>2, <1>3, <1>4, <1>5, <1>6, <1>7, <1>8, <1>9
     DEF UpgradeNext, ForwardStep, RollbackStep, FailureStep

\* The coordinator implements AtomicUpgrade for any number of operations, stores, faults
\* and writes: whoever uses the installation sees whole upgrades, by one generation, or
\* none, and the last write of every store; a store that a restore left torn is not seen,
\* and its last write is in the backup.
THEOREM UpgradesAreAtomic == UpgradeSpec => ImplementsAtomicUpgrade
<1>1. ASSUME UpgradeInit
      PROVE  GenHeld /\ Installation!InstallationInit
  <2>1. Clear /\ software = 1 /\ data = [s \in Steps |-> [gen |-> 1, last |-> 0]]
    BY <1>1 DEF UpgradeInit, Clear
  <2>2. \A s \in Steps : data[s].gen = 1 /\ LastOf(s) = 0
    BY <2>1 DEF LastOf, Torn
  <2> QED
    BY <2>1, <2>2 DEF GenHeld, Installation!InstallationInit
<1> QED
  BY <1>1, UpgradeInvariance, UpgradeRefines, PTL
     DEF UpgradeSpec, ImplementsAtomicUpgrade, Installation!InstallationSpec
===============================================================================
