------------------------------ MODULE SessionTurns ------------------------------
(***************************************************************************)
(* Persistent sessions: the leases, revisions and turns of sessions/store.py *)
(* and the bounded turn of PersistentTurnService (sessions/service.py).     *)
(*                                                                         *)
(* Every store call is one BEGIN IMMEDIATE transaction, hence one action.    *)
(* An owner is a process running one turn at a time.  A lease is named by    *)
(* its fence (token and fence change together); the passing of its expiry    *)
(* is the action LapseSession, and a renewal before the expiry only          *)
(* postpones that action.  The agent loop is abstracted to whether it has    *)
(* produced observable output and whether it started background work.       *)
(***************************************************************************)
EXTENDS Naturals, Sequences, FiniteSets

CONSTANTS
  Sessions,   \* session ids
  Owners,     \* processes that run turns
  NoMessage,  \* inbound_ref of a turn that no message caused
  MaxTurns,   \* bound of the exploration: turns
  MaxFence    \* bound of the exploration: the fence under which a lease is still taken

ASSUME SessionAssumption == MaxTurns \in Nat /\ MaxFence \in Nat

VARIABLES
  session,    \* table sessions
  turns,      \* table turns, in order of insertion
  turner      \* where run_turn of each owner is

sessionVars == <<session, turns, turner>>

AbsentSession == [status |-> "absent", revision |-> 0, fence |-> 0, lease |-> 0, lapsed |-> FALSE]

IdleTurner == [pc |-> "idle", session |-> "none", fence |-> 0, base |-> 0, turn |-> 0,
               inbound |-> NoMessage, observable |-> FALSE, handoff |-> FALSE]

TurnIds == 1..Len(turns)

RunningTurns(s) == {t \in TurnIds : turns[t].session = s /\ turns[t].status = "running"}

LiveLease(s) == session[s].lease # 0 /\ ~session[s].lapsed

\* _required_lease
HoldsLease(o) ==
  LET s == turner[o].session IN LiveLease(s) /\ session[s].lease = turner[o].fence

TurnAt(o, pc) == turner' = [turner EXCEPT ![o].pc = pc]

-------------------------------------------------------------------------------
(* The store *)

CreateSession(s) ==
  /\ session[s].status = "absent"
  /\ session' = [session EXCEPT ![s].status = "active"]

CanAcquire(s) == session[s].status = "active" /\ ~LiveLease(s)

AcquireSession(o, s, m) ==
  /\ turner[o].pc = "idle"
  /\ CanAcquire(s)
  /\ session[s].fence < MaxFence
  /\ session' = [session EXCEPT ![s].fence = @ + 1, ![s].lease = session[s].fence + 1,
                                ![s].lapsed = FALSE]
  /\ turner' = [turner EXCEPT ![o] = [IdleTurner EXCEPT !.pc = "leased", !.session = s,
                                      !.fence = session[s].fence + 1, !.inbound = m]]
  /\ UNCHANGED turns

\* The session is read after the lease is taken; begin_turn checks what was read.
ReadSession(o) ==
  /\ turner[o].pc = "leased"
  /\ turner' = [turner EXCEPT ![o].pc = "read", ![o].base = session[turner[o].session].revision]
  /\ UNCHANGED <<session, turns>>

BeginTurn(o) ==
  /\ turner[o].pc = "read"
  /\ Len(turns) < MaxTurns
  /\ IF HoldsLease(o) /\ session[turner[o].session].revision = turner[o].base
     THEN /\ turns' = Append(turns, [session |-> turner[o].session, inbound |-> turner[o].inbound,
                                     base |-> turner[o].base, status |-> "running",
                                     handoff |-> FALSE, observable |-> FALSE])
          /\ turner' = [turner EXCEPT ![o].pc = "running", ![o].turn = Len(turns) + 1]
     ELSE TurnAt(o, "failing") /\ UNCHANGED turns
  /\ UNCHANGED session

\* Mutant: any lease on the session will do, and the last writer wins.
CommitAllowedUnfenced(o) ==
  /\ LiveLease(turner[o].session)
  /\ turns[turner[o].turn].status = "running"

CommitAllowed(o) ==
  /\ HoldsLease(o)
  /\ session[turner[o].session].revision = turner[o].base
  /\ turns[turner[o].turn].status = "running"

\* The snapshot, its revision and the turn with its handoffs, in one transaction.
WriteCommit(o) ==
  /\ turns' = [turns EXCEPT ![turner[o].turn].status = "committed",
                            ![turner[o].turn].handoff = turner[o].handoff]
  /\ session' = [session EXCEPT ![turner[o].session].revision = turner[o].base + 1,
                                ![turner[o].session].status = "active"]

FailAllowed(o) == turner[o].turn # 0 /\ HoldsLease(o) /\ turns[turner[o].turn].status = "running"

WriteFailure(o) ==
  /\ turns' = [turns EXCEPT ![turner[o].turn].status =
                              IF turner[o].observable THEN "uncertain" ELSE "failed"]
  /\ session' = [session EXCEPT ![turner[o].session].status =
                              IF turner[o].observable THEN "uncertain" ELSE @]

ReleaseLease(o) ==
  LET s == turner[o].session IN
  session' = IF session[s].lease = turner[o].fence
             THEN [session EXCEPT ![s].lease = 0, ![s].lapsed = FALSE] ELSE session

CanArchive(s) == session[s].status \in {"active", "uncertain"} /\ ~LiveLease(s)

\* archive() with the revision the caller has just read.
ArchiveSession(s) ==
  /\ CanArchive(s)
  /\ session' = [session EXCEPT ![s].status = "archived", ![s].revision = @ + 1,
                                ![s].lease = 0, ![s].lapsed = FALSE]

LapseSession(s) ==
  /\ LiveLease(s)
  /\ session' = [session EXCEPT ![s].lapsed = TRUE]
  /\ UNCHANGED <<turns, turner>>

\* recover_expired_lease: the running turns become uncertain and the fence advances.
RecoverLease(s) ==
  /\ session[s].lease # 0 /\ session[s].lapsed
  /\ turns' = [t \in TurnIds |-> IF t \in RunningTurns(s)
                                 THEN [turns[t] EXCEPT !.status = "uncertain"] ELSE turns[t]]
  /\ session' = [session EXCEPT
       ![s].status = IF RunningTurns(s) # {} THEN "uncertain" ELSE @,
       ![s].fence = @ + 1, ![s].lease = 0, ![s].lapsed = FALSE]
  /\ UNCHANGED turner

-------------------------------------------------------------------------------
(* run_turn *)

\* An event of the agent loop: output the user may have seen, or background work.
ObserveEvent(o, handoff) ==
  /\ turner[o].pc = "running"
  /\ turner' = [turner EXCEPT ![o].observable = TRUE, ![o].handoff = @ \/ handoff]
  /\ turns' = [turns EXCEPT ![turner[o].turn].observable = TRUE]
  /\ UNCHANGED session

CommitTurn(o) ==
  /\ turner[o].pc = "running"
  /\ turner[o].observable
  /\ IF CommitAllowed(o) THEN WriteCommit(o) /\ TurnAt(o, "committed")
     ELSE TurnAt(o, "failing") /\ UNCHANGED <<session, turns>>

\* Cancellation lands while the commit is in its thread: the commit is joined, and lands.
CommitThenCancelled(o) ==
  /\ turner[o].pc = "running"
  /\ turner[o].observable
  /\ CommitAllowed(o)
  /\ WriteCommit(o)
  /\ TurnAt(o, "failing")

\* A provider or tool error, the wall-clock limit, a lost heartbeat or a cancellation.
TurnFails(o) ==
  /\ turner[o].pc \in {"leased", "read", "running"}
  /\ TurnAt(o, "failing")
  /\ UNCHANGED <<session, turns>>

\* Mutant: a turn whose lease is gone is still marked, and its session with it.
FinalizeFailedTurnUnfenced(o) ==
  /\ turner[o].pc = "failing"
  /\ IF turner[o].turn # 0 /\ turns[turner[o].turn].status = "running"
     THEN WriteFailure(o) ELSE UNCHANGED <<session, turns>>
  /\ TurnAt(o, "failed")

\* _finalize_failed_turn: a turn that did commit, or a lease that is gone, is left alone.
FinalizeFailedTurn(o) ==
  /\ turner[o].pc = "failing"
  /\ IF FailAllowed(o) THEN WriteFailure(o) ELSE UNCHANGED <<session, turns>>
  /\ TurnAt(o, "failed")

ReleaseSession(o) ==
  /\ turner[o].pc \in {"committed", "failed"}
  /\ ReleaseLease(o)
  /\ turner' = [turner EXCEPT ![o] = IdleTurner]
  /\ UNCHANGED turns

CrashOwner(o) ==
  /\ turner[o].pc # "idle"
  /\ turner' = [turner EXCEPT ![o] = IdleTurner]
  /\ UNCHANGED <<session, turns>>

OwnerStep(o) ==
  \/ \E s \in Sessions : AcquireSession(o, s, NoMessage)
  \/ ReadSession(o)
  \/ BeginTurn(o)
  \/ \E handoff \in BOOLEAN : ObserveEvent(o, handoff)
  \/ CommitTurn(o)
  \/ CommitThenCancelled(o)
  \/ TurnFails(o)
  \/ FinalizeFailedTurn(o)
  \/ ReleaseSession(o)
  \/ CrashOwner(o)

SessionInit ==
  /\ session = [s \in Sessions |-> AbsentSession]
  /\ turns = <<>>
  /\ turner = [o \in Owners |-> IdleTurner]

SessionNext ==
  \/ \E s \in Sessions : CreateSession(s) /\ UNCHANGED <<turns, turner>>
  \/ \E s \in Sessions : ArchiveSession(s) /\ UNCHANGED <<turns, turner>>
  \/ \E s \in Sessions : LapseSession(s)
  \/ \E s \in Sessions : RecoverLease(s)
  \/ \E o \in Owners : OwnerStep(o)

SessionSpec == SessionInit /\ [][SessionNext]_sessionVars

-------------------------------------------------------------------------------
(* Properties *)

CommittedTurns(s) == {t \in TurnIds : turns[t].session = s /\ turns[t].status = "committed"}

\* No committed turn is lost: two turns of a session never commit on top of the same
\* revision, although leases lapse, are taken over and the old owner goes on
\* (_commit, sessions/store.py).
NoLostUpdate ==
  \A s \in Sessions : \A t, u \in CommittedTurns(s) : t # u => turns[t].base # turns[u].base

\* Uncertainty is not undone by a turn: a session in which output may have been seen
\* without a commit stays uncertain until somebody archives it, whatever a stale owner
\* or a new one still does (fail_turn, recover_expired_lease, and _commit, which sets
\* the status to active).
UncertainUntilArchived ==
  [][\A s \in Sessions : session[s].status = "uncertain" =>
        session'[s].status \in {"uncertain", "archived"}]_session

\* A leftover running turn can be surfaced: a turn still running in the table of a
\* session nobody archived has a process at work on it, or its session still carries
\* the lease under which startup inspection finds it (stale_leases; comment in _finalize_failed_turn).
LeftoverSurfaces ==
  \A t \in TurnIds :
    turns[t].status = "running" =>
      \/ \E o \in Owners : turner[o].pc # "idle" /\ turner[o].turn = t
      \/ session[turns[t].session].lease # 0
      \/ session[turns[t].session].status = "archived"
=================================================================================
