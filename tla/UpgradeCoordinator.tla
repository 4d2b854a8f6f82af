--------------------------- MODULE UpgradeCoordinator ---------------------------
(***************************************************************************)
(* Upgrade of an installation (upgrades/orchestrator.py) over its journal  *)
(* (upgrades/journal.py), the installation manifest (installation.py) and  *)
(* the targeted backup (upgrades/backups.py).                              *)
(*                                                                         *)
(* The exclusive installation lock admits one coordinator at a time, and   *)
(* the manifest keeps every other process out unless it is clean.  Every   *)
(* change of the journal, of the manifest, of the release and of a store   *)
(* is an action, and the two steps of the restore of a store are two;      *)
(* between any two actions the process may die or an exception may reach   *)
(* _record_failure.  Software versions and data generations are numbered   *)
(* alike: operation o replaces generation from by from + 1.  What users    *)
(* wrote is abstracted to the number of the last write.                    *)
(***************************************************************************)
EXTENDS Naturals

CONSTANTS
  Operations,     \* upgrade operations, 1..n in order of preparation
  StepCount,      \* migration steps of a plan, each with its backup target
  MaxWrites,      \* bound of the exploration: user writes
  MaxFaults       \* bound of the exploration: crashes and exceptions

ASSUME UpgradeAssumption ==
  /\ Operations \subseteq Nat \ {0}
  /\ StepCount \in Nat \ {0} /\ MaxWrites \in Nat /\ MaxFaults \in Nat

VARIABLES
  manifest,   \* the installation manifest
  journal,    \* the journal of each operation
  backup,     \* the published backup of each operation
  data,       \* the durable target of each step
  software,   \* the installed release
  coord,      \* where the coordinator is
  writes,     \* number of the last user write
  faults      \* bound of the exploration

upgradeVars == <<manifest, journal, backup, data, software, coord, writes, faults>>

Steps == 1..StepCount

AbsentJournal == [state |-> "absent", resume |-> "none", from |-> 0, verified |-> 0,
                  applying |-> FALSE, digest |-> FALSE]

\* A store between the two steps of its restore: it holds no generation.
Torn == [gen |-> 0, last |-> 0]

AbsentBackup == [present |-> FALSE, data |-> [s \in Steps |-> [gen |-> 0, last |-> 0]]]

\* man is the manifest in the coordinator's hands and seen the journal in its hands.
IdleCoordinator == [pc |-> "idle", op |-> 0, rollback |-> FALSE, man |-> "clean",
                    seen |-> AbsentJournal, item |-> 0]

J == journal[coord.op]

Source == J.from

Target == J.from + 1

DataAt(gen) == \A s \in Steps : data[s].gen = gen

CoordAt(pc) == coord' = [coord EXCEPT !.pc = pc]

-------------------------------------------------------------------------------
(* The journal and the manifest *)

\* transition_upgrade_journal, committed and kept by the coordinator.
JournalTo(state, pc) ==
  /\ journal' = [journal EXCEPT ![coord.op].state = state, ![coord.op].resume = "none",
                                ![coord.op].digest = @ \/ state = "backup_verified"]
  /\ coord' = [coord EXCEPT !.pc = pc, !.seen = journal'[coord.op]]

\* transition_installation_manifest to a state that keeps the operation.
ManifestTo(state) == manifest' = [manifest EXCEPT !.state = state]

Clean(gen) == manifest' = [state |-> "clean", op |-> 0, gen |-> gen]

\* The fence of the journal: commit_ready, also when a failure hides it.
PastFence(j) ==
  j.state \in {"commit_ready", "completed"} \/ (j.state = "failed" /\ j.resume = "commit_ready")

RollingBack(j) == j.state = "rolling_back" \/ (j.state = "failed" /\ j.resume = "rolling_back")

-------------------------------------------------------------------------------
(* Use and preparation *)

\* Mutant: the runtime looks at its generation only.
WriteDataWhileUpgrading(s) ==
  /\ coord.pc = "idle"
  /\ software = manifest.gen
  /\ writes < MaxWrites
  /\ writes' = writes + 1
  /\ data' = [t \in Steps |-> [data[t] EXCEPT !.last = IF t = s THEN writes + 1 ELSE @]]
  /\ UNCHANGED <<manifest, journal, backup, software, coord, faults>>

\* A runtime under the shared lock: require_compatible_installation wants a clean manifest.
WriteData(s) ==
  /\ manifest.state = "clean" /\ coord.pc = "idle"
  /\ software = manifest.gen
  /\ writes < MaxWrites
  /\ writes' = writes + 1
  /\ data' = [t \in Steps |-> [data[t] EXCEPT !.last = IF t = s THEN writes + 1 ELSE @]]
  /\ UNCHANGED <<manifest, journal, backup, software, coord, faults>>

CreateJournal(o) ==
  /\ coord.pc = "idle"
  /\ manifest.state = "clean"
  /\ journal[o].state = "absent"
  /\ \A p \in Operations : p < o => journal[p].state # "absent"
  /\ journal' = [journal EXCEPT ![o] = [AbsentJournal EXCEPT !.state = "prepared", !.from = software]]
  /\ coord' = [IdleCoordinator EXCEPT !.pc = "prepare", !.op = o, !.seen = journal'[o]]
  /\ UNCHANGED <<manifest, backup, data, software, writes, faults>>

PrepareManifest ==
  /\ coord.pc = "prepare"
  /\ manifest' = [manifest EXCEPT !.state = "prepared", !.op = coord.op]
  /\ coord' = [coord EXCEPT !.pc = "loaded", !.man = "prepared"]
  /\ UNCHANGED <<journal, backup, data, software, writes, faults>>

-------------------------------------------------------------------------------
(* resume *)

BeginRecovery(rollback) ==
  /\ coord.pc = "idle"
  /\ manifest.state # "clean"
  /\ coord' = [IdleCoordinator EXCEPT !.pc = "loaded", !.op = manifest.op, !.rollback = rollback,
                                      !.man = manifest.state, !.seen = journal[manifest.op]]
  /\ UNCHANGED <<manifest, journal, backup, data, software, writes, faults>>

ResumeFailedJournal ==
  /\ coord.pc = "loaded"
  /\ IF J.state = "failed" THEN JournalTo(J.resume, "choose")
     ELSE CoordAt("choose") /\ UNCHANGED journal
  /\ UNCHANGED <<manifest, backup, data, software, writes, faults>>

\* A rollback that has begun refuses to go forward, before the manifest is touched.
ChooseForward ==
  /\ coord.pc = "choose" /\ ~coord.rollback
  /\ IF J.state = "rolling_back" THEN coord' = IdleCoordinator ELSE CoordAt("advance")
  /\ UNCHANGED <<manifest, journal, backup, data, software, writes, faults>>

\* Mutant: the manifest is not brought back to migrating for an operation past its fence.
AdvanceManifestBeforeFence ==
  /\ coord.pc = "advance"
  /\ \/ /\ manifest.state = "prepared" /\ J.state \in {"software_replaced", "migrating", "commit_ready"}
        /\ ManifestTo("software_replaced") /\ UNCHANGED coord
     \/ /\ manifest.state \in {"software_replaced", "failed"} /\ J.state = "migrating"
        /\ ManifestTo("migrating") /\ UNCHANGED coord
     \/ /\ ~(manifest.state = "prepared" /\ J.state \in {"software_replaced", "migrating", "commit_ready"})
        /\ ~(manifest.state \in {"software_replaced", "failed"} /\ J.state = "migrating")
        /\ coord' = [coord EXCEPT !.pc = "forward", !.man = manifest.state] /\ UNCHANGED manifest
  /\ UNCHANGED <<journal, backup, data, software, writes, faults>>

\* _advance_manifest_for_journal, one transition at a time.
AdvanceManifest ==
  /\ coord.pc = "advance"
  /\ \/ /\ manifest.state = "prepared"
        /\ J.state \in {"software_replaced", "migrating", "commit_ready"}
        /\ ManifestTo("software_replaced")
        /\ UNCHANGED coord
     \/ /\ manifest.state \in {"software_replaced", "failed"}
        /\ J.state \in {"migrating", "commit_ready"}
        /\ ManifestTo("migrating")
        /\ UNCHANGED coord
     \/ /\ ~(manifest.state = "prepared" /\ J.state \in {"software_replaced", "migrating", "commit_ready"})
        /\ ~(manifest.state \in {"software_replaced", "failed"} /\ J.state \in {"migrating", "commit_ready"})
        /\ coord' = [coord EXCEPT !.pc = "forward", !.man = manifest.state]
        /\ UNCHANGED manifest
  /\ UNCHANGED <<journal, backup, data, software, writes, faults>>

\* create_targeted_backup: staged and published by one rename; an existing one is adopted.
PublishBackup ==
  /\ coord.pc = "forward" /\ J.state = "prepared"
  /\ backup' = IF backup[coord.op].present THEN backup
               ELSE [backup EXCEPT ![coord.op] = [present |-> TRUE, data |-> data]]
  /\ CoordAt("published")
  /\ UNCHANGED <<manifest, journal, data, software, writes, faults>>

RecordBackup ==
  /\ coord.pc = "published"
  /\ JournalTo("backup_verified", "forward")
  /\ UNCHANGED <<manifest, backup, data, software, writes, faults>>

\* Mutant: the target is installed before the backup is verified.
InstallTargetEarly ==
  /\ coord.pc = "forward" /\ J.state \in {"prepared", "backup_verified"} /\ software = Source
  /\ software' = Target
  /\ coord' = IdleCoordinator
  /\ UNCHANGED <<manifest, journal, backup, data, writes, faults>>

\* The target release is installed and takes over: it loads the journal anew.
InstallTarget ==
  /\ coord.pc = "forward" /\ J.state = "backup_verified" /\ software = Source
  /\ software' = Target
  /\ coord' = [coord EXCEPT !.pc = "loaded", !.man = manifest.state, !.seen = J]
  /\ UNCHANGED <<manifest, journal, backup, data, writes, faults>>

RecordSoftware ==
  /\ coord.pc = "forward" /\ J.state = "backup_verified" /\ software = Target
  /\ JournalTo("software_replaced", "advance")
  /\ UNCHANGED <<manifest, backup, data, software, writes, faults>>

BeginMigrating ==
  /\ coord.pc = "forward" /\ J.state = "software_replaced" /\ software = Target
  /\ JournalTo("migrating", "advance")
  /\ UNCHANGED <<manifest, backup, data, software, writes, faults>>

\* mark_upgrade_step_applying; resume() keeps the journal it had before the steps.
MarkApplying ==
  /\ coord.pc = "forward" /\ J.state = "migrating" /\ manifest.state = "migrating"
  /\ J.verified < StepCount
  /\ journal' = [journal EXCEPT ![coord.op].applying = TRUE]
  /\ CoordAt("step")
  /\ UNCHANGED <<manifest, backup, data, software, writes, faults>>

\* A step found at its target was applied before a crash; one at its source is applied.
ApplyStep ==
  LET s == J.verified + 1 IN
  /\ coord.pc = "step"
  /\ data[s].gen \in {Source, Target}
  /\ data' = [data EXCEPT ![s].gen = Target]
  /\ CoordAt("applied")
  /\ UNCHANGED <<manifest, journal, backup, software, writes, faults>>

\* _apply_steps hands its journal back to resume() when the last step is verified.
MarkVerified ==
  /\ coord.pc = "applied"
  /\ journal' = [journal EXCEPT ![coord.op].verified = @ + 1, ![coord.op].applying = FALSE]
  /\ coord' = [coord EXCEPT !.pc = "forward",
                            !.seen = IF J.verified + 1 = StepCount THEN journal'[coord.op] ELSE @]
  /\ UNCHANGED <<manifest, backup, data, software, writes, faults>>

\* _verify_target and the managed integrations precede the commit fence.
ReachFence ==
  /\ coord.pc = "forward" /\ J.state = "migrating" /\ manifest.state = "migrating"
  /\ J.verified = StepCount
  /\ DataAt(Target)
  /\ JournalTo("commit_ready", "forward")
  /\ UNCHANGED <<manifest, backup, data, software, writes, faults>>

\* _retention_protected_operation_ids; a journal that cannot be read is left out.
CompletedOperations == {o \in Operations : journal[o].state = "completed"}

\* enforce_backup_retention keeps the operation in progress and the newest of the
\* successful ones; the newest backup is the one of the last operation.
Retain(successful) ==
  LET kept == {o \in successful : backup[o].present}
      newest == {o \in kept : \A p \in kept : p <= o}
  IN backup' = [o \in Operations |-> IF o \in newest \cup {coord.op} THEN backup[o] ELSE AbsentBackup]

EnforceRetention ==
  /\ coord.pc = "forward" /\ J.state = "commit_ready" /\ software = Target /\ DataAt(Target)
  /\ Retain(CompletedOperations \cup {coord.op}) \/ UNCHANGED backup
  /\ CoordAt("retained")
  /\ UNCHANGED <<manifest, journal, data, software, writes, faults>>

CleanForward ==
  /\ coord.pc = "retained" /\ manifest.state = "migrating"
  /\ Clean(Target)
  /\ CoordAt("cleaned")
  /\ UNCHANGED <<journal, backup, data, software, writes, faults>>

FinishJournal ==
  /\ coord.pc = "cleaned"
  /\ journal' = [journal EXCEPT ![coord.op].state =
                   IF coord.rollback THEN "rolled_back" ELSE "completed"]
  /\ coord' = IdleCoordinator
  /\ UNCHANGED <<manifest, backup, data, software, writes, faults>>

-------------------------------------------------------------------------------
(* rollback *)

\* Mutant: the fence is not looked at.
ChooseRollbackAnyway ==
  /\ coord.pc = "choose" /\ coord.rollback
  /\ IF J.state = "rolling_back" THEN CoordAt("unwind") /\ UNCHANGED journal
     ELSE JournalTo("rolling_back", "unwind")
  /\ UNCHANGED <<manifest, backup, data, software, writes, faults>>

\* The commit fence closes rollback.
ChooseRollback ==
  /\ coord.pc = "choose" /\ coord.rollback
  /\ CASE PastFence(J)                -> CoordAt("failing") /\ UNCHANGED journal
       [] J.state = "rolling_back"    -> CoordAt("unwind") /\ UNCHANGED journal
       [] OTHER                       -> JournalTo("rolling_back", "unwind")
  /\ UNCHANGED <<manifest, backup, data, software, writes, faults>>

\* _manifest_rolling_back; without a backup nothing was changed that must be restored.
UnwindManifest ==
  /\ coord.pc = "unwind"
  /\ ManifestTo("rolling_back")
  /\ coord' = [coord EXCEPT !.man = "rolling_back", !.item = 1,
                            !.pc = IF J.digest THEN "restore" ELSE "reinstall"]
  /\ UNCHANGED <<journal, backup, data, software, writes, faults>>

\* The first of the two durable steps that restore a store: the sidecars of a database are
\* unlinked before the file is replaced, a tree without atomic exchange is moved aside.
DetachItem ==
  /\ coord.pc = "restore" /\ coord.item <= StepCount
  /\ backup[coord.op].present
  /\ data' = [data EXCEPT ![coord.item] = Torn]
  /\ CoordAt("replace")
  /\ UNCHANGED <<manifest, journal, backup, software, writes, faults>>

\* restore_backup: one store after the other; a plain file, an exchanged tree or a database
\* without sidecars is replaced at once, what was detached now.
RestoreItem ==
  /\ coord.pc \in {"restore", "replace"} /\ coord.item <= StepCount
  /\ backup[coord.op].present
  /\ data' = [data EXCEPT ![coord.item] = backup[coord.op].data[coord.item]]
  /\ coord' = [coord EXCEPT !.pc = "restore", !.item = @ + 1]
  /\ UNCHANGED <<manifest, journal, backup, software, writes, faults>>

VerifySource ==
  /\ coord.pc = "restore" /\ coord.item > StepCount
  /\ CoordAt(IF DataAt(Source) THEN "reinstall" ELSE "failing")
  /\ UNCHANGED <<manifest, journal, backup, data, software, writes, faults>>

\* Mutant: the source release is not installed again.
ReinstallNothing ==
  /\ coord.pc = "reinstall"
  /\ CoordAt("unclean")
  /\ UNCHANGED <<manifest, journal, backup, data, software, writes, faults>>

ReinstallSource ==
  /\ coord.pc = "reinstall"
  /\ software' = Source
  /\ CoordAt("unclean")
  /\ UNCHANGED <<manifest, journal, backup, data, writes, faults>>

CleanRollback ==
  /\ coord.pc = "unclean"
  /\ Clean(Source)
  /\ CoordAt("cleaned")
  /\ UNCHANGED <<journal, backup, data, software, writes, faults>>

-------------------------------------------------------------------------------
(* Failures *)

\* An exception of a write, of the installer, of an adapter or of an integration; what
\* was written stays.  prepare() records no failure.
RaiseFailure ==
  /\ coord.pc \notin {"idle", "prepare", "failing", "failed"}
  /\ faults < MaxFaults
  /\ faults' = faults + 1
  /\ CoordAt("failing")
  /\ UNCHANGED <<manifest, journal, backup, data, software, writes>>

\* _record_failure of a journal that is not the one in hand, or that would be invalid
\* (rolling back without a verified backup), is suppressed.
RecordFailure ==
  /\ coord.pc = "failing"
  /\ journal' = IF /\ J = coord.seen
                   /\ J.state \notin {"failed", "completed", "rolled_back"}
                   /\ J.state = "rolling_back" => J.digest
                THEN [journal EXCEPT ![coord.op].state = "failed", ![coord.op].resume = J.state]
                ELSE journal
  /\ CoordAt("failed")
  /\ UNCHANGED <<manifest, backup, data, software, writes, faults>>

FailManifest ==
  /\ coord.pc = "failed"
  /\ IF manifest.state = coord.man /\ coord.man \in {"software_replaced", "migrating", "rolling_back"}
     THEN ManifestTo("failed") ELSE UNCHANGED manifest
  /\ coord' = IdleCoordinator
  /\ UNCHANGED <<journal, backup, data, software, writes, faults>>

CrashUpgrade ==
  /\ coord.pc # "idle"
  /\ faults < MaxFaults
  /\ faults' = faults + 1
  /\ coord' = IdleCoordinator
  /\ UNCHANGED <<manifest, journal, backup, data, software, writes>>

-------------------------------------------------------------------------------
UpgradeInit ==
  /\ manifest = [state |-> "clean", op |-> 0, gen |-> 1]
  /\ journal = [o \in Operations |-> AbsentJournal]
  /\ backup = [o \in Operations |-> AbsentBackup]
  /\ data = [s \in Steps |-> [gen |-> 1, last |-> 0]]
  /\ software = 1
  /\ coord = IdleCoordinator
  /\ writes = 0
  /\ faults = 0

ForwardStep ==
  \/ PrepareManifest \/ ResumeFailedJournal \/ ChooseForward \/ AdvanceManifest
  \/ PublishBackup \/ RecordBackup \/ InstallTarget \/ RecordSoftware \/ BeginMigrating
  \/ MarkApplying \/ ApplyStep \/ MarkVerified \/ ReachFence
  \/ EnforceRetention \/ CleanForward \/ FinishJournal

RollbackStep ==
  \/ ChooseRollback \/ UnwindManifest \/ DetachItem \/ RestoreItem
  \/ VerifySource \/ ReinstallSource \/ CleanRollback

FailureStep == RecordFailure \/ FailManifest

UpgradeNext ==
  \/ \E s \in Steps : WriteData(s)
  \/ \E o \in Operations : CreateJournal(o)
  \/ \E rollback \in BOOLEAN : BeginRecovery(rollback)
  \/ ForwardStep \/ RollbackStep \/ FailureStep
  \/ RaiseFailure \/ CrashUpgrade

UpgradeSpec == UpgradeInit /\ [][UpgradeNext]_upgradeVars

-------------------------------------------------------------------------------
(* Properties *)

\* A clean manifest admits every process to the data: the release, the generation and
\* every store then agree, after any crash, failure, resume and rollback
\* (require_compatible_installation).
WholeWhenClean ==
  manifest.state = "clean" => software = manifest.gen /\ DataAt(manifest.gen)

\* Whoever may use the installation sees what is there; while nobody may, what was
\* there when it closed.
Clear == manifest.state = "clean"

\* The last write of a store, or of the backup it has to be restored from: a restore cut
\* off between its two steps leaves a store that nothing but its repetition completes.
LastOf(s) ==
  IF data[s] = Torn THEN backup[manifest.op].data[s].last ELSE data[s].last

Installation == INSTANCE AtomicUpgrade WITH
  Stores <- Steps,
  usable <- Clear,
  release <- IF Clear THEN software ELSE manifest.gen,
  store <- [s \in Steps |-> [gen |-> IF Clear THEN data[s].gen ELSE manifest.gen,
                             last |-> LastOf(s)]]

\* The coordinator implements AtomicUpgrade: through crashes and failures at any step,
\* resumes and rollbacks, an upgrade happens as a whole or not at all, by one generation;
\* every store that opens again holds what users wrote last, and a store that a restore
\* left torn stays closed, with that write in the backup of the operation.
ImplementsAtomicUpgrade == Installation!InstallationSpec

\* No write of a user is lost: the last one is in the data whenever the installation is
\* usable, also when a backup was restored over it.
NothingLost == manifest.state = "clean" => \E s \in Steps : data[s].last = writes

\* What an operation has changed can be restored until it passes the commit fence: its
\* backup exists and holds every store at the source generation.
Restorable ==
  LET o == manifest.op IN
  manifest.state # "clean" /\ ~PastFence(journal[o]) /\ (software # journal[o].from \/ ~DataAt(journal[o].from))
    => /\ backup[o].present
       /\ \A s \in Steps : backup[o].data[s].gen = journal[o].from

\* The two decisions are final: an operation past its commit fence never rolls back, and
\* one that began to roll back never goes forward, across failures and retries.
DecisionsFinal ==
  [][\A o \in Operations :
       /\ PastFence(journal[o]) => PastFence(journal'[o])
       /\ RollingBack(journal[o]) => RollingBack(journal'[o]) \/ journal'[o].state = "rolled_back"]_journal

\* No installation is stranded: with finitely many faults and an operator who tries the
\* two commands, an interrupted upgrade always ends in a clean installation.
UpgradeSettles == (manifest.state # "clean") ~> (manifest.state = "clean")
=================================================================================
