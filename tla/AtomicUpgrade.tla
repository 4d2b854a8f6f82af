----------------------------- MODULE AtomicUpgrade -----------------------------
(***************************************************************************)
(* What the upgrade coordinator promises whoever uses an installation: it  *)
(* closes, and when it opens again either everything is upgraded or        *)
(* nothing, and every store still has the last thing written to it.        *)
(* Journals, backups, failures and the order of the work are out of sight. *)
(***************************************************************************)
EXTENDS Naturals

CONSTANT Stores

VARIABLES
  usable,   \* whether anybody may use the installation
  release,  \* the generation of the software
  store     \* the generation of each store and the last write it has

installationVars == <<usable, release, store>>

Use(s) ==
  /\ usable
  /\ store' = [store EXCEPT ![s].last = store'[s].last]
  /\ UNCHANGED <<usable, release>>

CloseDown ==
  /\ usable
  /\ usable' = FALSE
  /\ UNCHANGED <<release, store>>

\* Software and stores are at the next generation, all together.
OpenUpgraded ==
  /\ ~usable
  /\ usable' = TRUE
  /\ release' = release + 1
  /\ store' = [s \in Stores |-> [gen |-> release + 1, last |-> store[s].last]]

OpenAsBefore ==
  /\ ~usable
  /\ usable' = TRUE
  /\ UNCHANGED <<release, store>>

InstallationInit ==
  /\ usable = TRUE
  /\ release = 1
  /\ store = [s \in Stores |-> [gen |-> 1, last |-> 0]]

InstallationNext == (\E s \in Stores : Use(s)) \/ CloseDown \/ OpenUpgraded \/ OpenAsBefore

InstallationSpec == InstallationInit /\ [][InstallationNext]_installationVars
===============================================================================
