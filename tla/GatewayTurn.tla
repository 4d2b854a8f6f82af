------------------------------ MODULE GatewayTurn ------------------------------
(***************************************************************************)
(* One foreground turn of the gateway, across four databases: the inbox     *)
(* (messaging/store.py), conversations and results (gateway/store.py), the  *)
(* session and its turns (SessionTurns), and the outbox entry of the reply.  *)
(* The worker is ConversationCoordinator.process (gateway/conversations.py); *)
(* beside it run startup or operator recovery (gateway/recovery.py) and the  *)
(* reconciliation of background handoffs (gateway/handoffs.py).              *)
(*                                                                         *)
(* One conversation key is modelled: its messages are processed one at a    *)
(* time under its lock, by the one gateway the host lock admits.  Recovery   *)
(* takes no lock and may run at any time.  A conversation is named by its    *)
(* session, which no other conversation has.  The passing of a claim's       *)
(* expiry is the action LapseClaim.                                         *)
(***************************************************************************)
EXTENDS SessionTurns

CONSTANTS
  Messages,    \* accepted inbound messages of one conversation key
  Rotations,   \* the messages that say /new
  Pool,        \* session ids drawn for conversations that /new did not create
  RotationSession, \* _rotation_session_id: the session id /new derives from its message
  Worker,      \* the gateway process
  MaxClaims,   \* bound of the exploration: claims of one message
  MaxCrashes   \* bound of the exploration: crashes of the gateway

ASSUME GatewayAssumption ==
  /\ Rotations \subseteq Messages
  /\ RotationSession \in [Rotations -> Sessions \ Pool]
  /\ Pool \subseteq Sessions /\ Worker \in Owners
  /\ "none" \notin Messages \cup Sessions
  /\ MaxClaims \in Nat /\ MaxCrashes \in Nat

VARIABLES
  inbox,      \* table inbox_messages
  conv,       \* table conversations
  result,     \* table gateway_inbound_results
  began,      \* messages in order of their result's started_at
  reply,      \* the outbox entry with dedupe key m: its body, and whether delivered
  held,       \* the background request the turn of m admitted
  worker,     \* where process() is
  recovery,   \* where recovery or reconciliation is
  dismissed,  \* history: messages an operator dismissed
  crashes     \* bound of the exploration

gatewayTables == <<inbox, conv, result, began, reply, held>>
gatewayVars == <<inbox, conv, result, began, reply, held, worker, recovery, dismissed, crashes,
                 session, turns, turner>>

None == "none"

IdleWorker == [pc |-> "idle", m |-> None, fence |-> 0, session |-> None, base |-> 0,
               seen |-> "absent", intent |-> "committed", handling |-> FALSE]

IdleRecovery == [pc |-> "idle", m |-> None, target |-> "none"]

ActiveConversations == {s \in Sessions : conv[s].status = "active"}

Terminal(m) == result[m].status \in {"committed", "failed", "uncertain"}

\* turn_for_inbound: the committed turn of a message.
CommittedTurn(m) == {t \in TurnIds : turns[t].inbound = m /\ turns[t].status = "committed"}

CommittedHandoff(m) == \E t \in CommittedTurn(m) : turns[t].handoff

LiveClaim(m) == inbox[m].status = "claimed" /\ ~inbox[m].lapsed

OwnClaim == LiveClaim(worker.m) /\ inbox[worker.m].fence = worker.fence

WorkerAt(pc) == worker' = [worker EXCEPT !.pc = pc]

\* An exception of the main path is handled once; one of the handler leaves process().
Raise == worker' = IF worker.handling THEN IdleWorker
                   ELSE [worker EXCEPT !.pc = "except", !.handling = TRUE]

SetInbox(m, status) == inbox' = [inbox EXCEPT ![m].status = status, ![m].lapsed = FALSE]

SettledAs(m) == IF result[m].status = "uncertain" THEN "uncertain" ELSE "processed"

-------------------------------------------------------------------------------
(* The inbox *)

Ingest(m) ==
  /\ inbox[m].status = "absent"
  /\ SetInbox(m, "pending")
  /\ UNCHANGED <<conv, result, began, reply, held, worker, recovery, dismissed, crashes, sessionVars>>

\* process() of a message that has a result claims nothing.
SettleExisting(m) ==
  /\ worker.pc = "idle"
  /\ inbox[m].status = "pending"
  /\ Terminal(m)
  /\ SetInbox(m, SettledAs(m))
  /\ UNCHANGED <<conv, result, began, reply, held, worker, recovery, dismissed, crashes, sessionVars>>

ClaimInbox(m) ==
  /\ worker.pc = "idle"
  /\ inbox[m].status = "pending"
  /\ result[m].status = "none"
  /\ inbox[m].fence < MaxClaims
  /\ inbox' = [inbox EXCEPT ![m] = [status |-> "claimed", fence |-> @.fence + 1, lapsed |-> FALSE]]
  /\ worker' = [IdleWorker EXCEPT !.pc = "resolve", !.m = m, !.fence = inbox[m].fence + 1]
  /\ UNCHANGED <<conv, result, began, reply, held, recovery, dismissed, crashes, sessionVars>>

LapseClaim(m) ==
  /\ LiveClaim(m)
  /\ inbox' = [inbox EXCEPT ![m].lapsed = TRUE]
  /\ UNCHANGED <<conv, result, began, reply, held, worker, recovery, dismissed, crashes, sessionVars>>

DismissInbox(m) ==
  /\ inbox[m].status \in {"pending", "uncertain"}
  /\ SetInbox(m, "processed")
  /\ dismissed' = dismissed \cup {m}
  /\ UNCHANGED <<conv, result, began, reply, held, worker, recovery, crashes, sessionVars>>

\* finish_inbox: an expired claim is rolled back with the exception that reports it.
FinishInbox ==
  /\ worker.pc = "settle"
  /\ IF OwnClaim THEN SetInbox(worker.m, "processed") /\ worker' = IdleWorker
     ELSE Raise /\ UNCHANGED inbox
  /\ UNCHANGED <<conv, result, began, reply, held, recovery, dismissed, crashes, sessionVars>>

\* _finish_claim_uncertain: the exception of finish_inbox is suppressed.
FinishClaimUncertain ==
  /\ worker.pc = "giveup"
  /\ IF OwnClaim THEN SetInbox(worker.m, "uncertain") ELSE UNCHANGED inbox
  /\ worker' = IdleWorker
  /\ UNCHANGED <<conv, result, began, reply, held, recovery, dismissed, crashes, sessionVars>>

-------------------------------------------------------------------------------
(* The conversation *)

UseConversation(s) ==
  worker' = [worker EXCEPT !.pc = "begin", !.session = s, !.base = conv[s].revision]

ResolveOrCreate ==
  /\ worker.pc = "resolve"
  /\ worker.m \notin Rotations
  /\ IF ActiveConversations = {} THEN WorkerAt("make")
     ELSE \E s \in ActiveConversations : UseConversation(s)
  /\ UNCHANGED <<gatewayTables, recovery, dismissed, crashes, sessionVars>>

RotationSources(m) == {s \in Sessions : conv[s].status = "archived" /\ conv[s].archivedFor = m}

ResumeFrom(s) ==
  worker' = [worker EXCEPT !.pc = "archive", !.session = s, !.seen = session[s].status]

\* Mutant: /new does not recognise the conversation it created before a crash.
RotateActiveAgain ==
  /\ worker.pc = "resolve"
  /\ worker.m \in Rotations
  /\ \E s \in ActiveConversations :
       /\ conv' = [conv EXCEPT ![s].status = "archived", ![s].revision = @ + 1,
                               ![s].archivedFor = worker.m]
       /\ ResumeFrom(s)
  /\ UNCHANGED <<inbox, result, began, reply, held, recovery, dismissed, crashes, sessionVars>>

\* _resolve_rotation when a conversation is active: its own result of an earlier try,
\* or the one to rotate away from (_rotate).
RotateActive ==
  /\ worker.pc = "resolve"
  /\ worker.m \in Rotations
  /\ \E s \in ActiveConversations :
       IF conv[s].createdFor = worker.m THEN UseConversation(s) /\ UNCHANGED conv
       ELSE /\ conv' = [conv EXCEPT ![s].status = "archived", ![s].revision = @ + 1,
                                    ![s].archivedFor = worker.m]
            /\ ResumeFrom(s)
  /\ UNCHANGED <<inbox, result, began, reply, held, recovery, dismissed, crashes, sessionVars>>

RotateInactive ==
  /\ worker.pc = "resolve"
  /\ worker.m \in Rotations
  /\ ActiveConversations = {}
  /\ IF RotationSources(worker.m) = {} THEN WorkerAt("make")
     ELSE \E s \in RotationSources(worker.m) : ResumeFrom(s)
  /\ UNCHANGED <<gatewayTables, recovery, dismissed, crashes, sessionVars>>

\* _resume_rotation: the prior session is archived before it is replaced.
ArchivePrior ==
  /\ worker.pc = "archive"
  /\ IF worker.seen = "active" /\ CanArchive(worker.session)
     THEN ArchiveSession(worker.session) /\ WorkerAt("make")
     ELSE /\ WorkerAt(IF worker.seen = "archived" THEN "make" ELSE "giveup")
          /\ UNCHANGED session
  /\ UNCHANGED <<gatewayTables, recovery, dismissed, crashes, turns, turner>>

\* _resume_rotation goes no further when a conversation became active meanwhile: it is the
\* one this message opened, or an error.  A rotation finds its replacement by name; anything
\* else draws a fresh session.
MakeSession ==
  /\ worker.pc = "make"
  /\ LET resumed == worker.m \in Rotations /\ worker.session # None IN
     \/ /\ resumed
        /\ \E s \in ActiveConversations :
             IF conv[s].createdFor = worker.m THEN UseConversation(s) ELSE WorkerAt("giveup")
        /\ UNCHANGED session
     \/ /\ ~(resumed /\ ActiveConversations # {})
        /\ \E s \in IF resumed THEN {RotationSession[worker.m]} ELSE Pool :
             \/ CreateSession(s) /\ worker' = [worker EXCEPT !.pc = "open", !.session = s]
             \/ /\ resumed /\ session[s].status # "absent"
                /\ worker' = IF session[s].status = "active" /\ session[s].revision = 0
                             THEN [worker EXCEPT !.pc = "open", !.session = s]
                             ELSE [worker EXCEPT !.pc = "giveup"]
                /\ UNCHANGED session
  /\ UNCHANGED <<gatewayTables, recovery, dismissed, crashes, turns, turner>>

\* GatewayStore.create under the unique index active_conversation_key.
OpenConversation ==
  /\ worker.pc = "open"
  /\ IF ActiveConversations = {}
     THEN /\ conv' = [conv EXCEPT ![worker.session] =
               [status |-> "active", revision |-> 0, last |-> None, archivedFor |-> None,
                createdFor |-> IF worker.m \in Rotations THEN worker.m ELSE None]]
          /\ worker' = [worker EXCEPT !.pc = "begin", !.base = 0]
     ELSE WorkerAt("giveup") /\ UNCHANGED conv
  /\ UNCHANGED <<inbox, result, began, reply, held, recovery, dismissed, crashes, sessionVars>>

-------------------------------------------------------------------------------
(* The turn and its reply *)

\* The insert of a result that exists already raises.
BeginResult ==
  /\ worker.pc = "begin"
  /\ IF result[worker.m].status = "none"
     THEN /\ result' = [result EXCEPT ![worker.m] = [status |-> "running", session |-> worker.session]]
          /\ began' = Append(began, worker.m)
          /\ WorkerAt("respond")
     ELSE Raise /\ UNCHANGED <<result, began>>
  /\ UNCHANGED <<inbox, conv, reply, held, recovery, dismissed, crashes, sessionVars>>

\* A command answers from the stores; a changed route answers with a refusal.
RespondWithoutTurn ==
  /\ worker.pc = "respond"
  /\ turner[Worker].pc = "idle"
  /\ \E intent \in IF worker.m \in Rotations THEN {"committed"} ELSE {"committed", "failed"} :
       worker' = [worker EXCEPT !.pc = "reply", !.intent = intent]
  /\ UNCHANGED <<gatewayTables, recovery, dismissed, crashes, sessionVars>>

StartTurn ==
  /\ worker.pc = "respond"
  /\ worker.m \notin Rotations
  /\ turner[Worker].pc = "idle"
  /\ IF CanAcquire(worker.session)
     THEN AcquireSession(Worker, worker.session, worker.m) /\ WorkerAt("turn")
     ELSE Raise /\ UNCHANGED sessionVars
  /\ UNCHANGED <<gatewayTables, recovery, dismissed, crashes>>

\* The steps of run_turn inside the turn; an admitted background request is held.
TurnStep ==
  /\ worker.pc = "turn"
  /\ \/ /\ \/ ReadSession(Worker) \/ BeginTurn(Worker) \/ CommitTurn(Worker)
           \/ CommitThenCancelled(Worker) \/ TurnFails(Worker) \/ FinalizeFailedTurn(Worker)
           \/ ObserveEvent(Worker, FALSE)
        /\ UNCHANGED held
     \/ /\ ObserveEvent(Worker, TRUE)
        /\ held' = [held EXCEPT ![worker.m] = IF @ = "none" THEN "held" ELSE @]
  /\ UNCHANGED <<inbox, conv, result, began, reply, worker, recovery, dismissed, crashes>>

\* Mutant: a turn that failed is tried again.
EndTurnRetrying ==
  /\ worker.pc = "turn"
  /\ ReleaseSession(Worker)
  /\ WorkerAt(IF turner[Worker].pc = "committed" THEN "reply" ELSE "respond")
  /\ UNCHANGED <<gatewayTables, recovery, dismissed, crashes>>

\* run_turn returns, raises, or passes a cancellation on.
EndTurn ==
  /\ worker.pc = "turn"
  /\ ReleaseSession(Worker)
  /\ \/ turner[Worker].pc = "committed" /\ WorkerAt("reply")
     \/ turner[Worker].pc = "failed" /\ Raise
     \/ turner[Worker].pc = "failed" /\ WorkerAt("cancel")
  /\ UNCHANGED <<gatewayTables, recovery, dismissed, crashes>>

\* Mutant: the committed turn is not consulted.
ReplyBodyUnchecked(m, body) == body

\* _enqueue_response: the acknowledgement of a committed handoff replaces any other body.
ReplyBody(m, body) == IF CommittedHandoff(m) THEN "ack" ELSE body

\* NotificationStore.enqueue returns the entry the dedupe key already has.
Enqueued(m, body) == [reply EXCEPT ![m].body = IF @ = "none" THEN body ELSE @]

EnqueueResponse ==
  /\ worker.pc = "reply"
  /\ \/ /\ reply' = Enqueued(worker.m, ReplyBody(worker.m, IF worker.handling THEN "error" ELSE "answer"))
        /\ WorkerAt("finish")
     \/ Raise /\ UNCHANGED reply
  /\ UNCHANGED <<inbox, conv, result, began, held, recovery, dismissed, crashes, sessionVars>>

FinishAllowed ==
  /\ conv[worker.session].status = "active"
  /\ conv[worker.session].revision = worker.base
  /\ result[worker.m].status = "running"

WriteResult(status) ==
  /\ result' = [result EXCEPT ![worker.m].status = status]
  /\ conv' = [conv EXCEPT ![worker.session].status = IF status = "uncertain" THEN status ELSE @,
                          ![worker.session].revision = @ + 1,
                          ![worker.session].last = worker.m]

FinishResult ==
  /\ worker.pc = "finish"
  /\ IF FinishAllowed THEN WriteResult(worker.intent) /\ WorkerAt("settle")
     ELSE Raise /\ UNCHANGED <<result, conv>>
  /\ UNCHANGED <<inbox, began, reply, held, recovery, dismissed, crashes, sessionVars>>

\* The exception handler: an uncertain outcome for a committed handoff or an uncertain
\* session, an error reply otherwise.
HandleException ==
  /\ worker.pc = "except"
  /\ IF CommittedHandoff(worker.m) \/ session[worker.session].status = "uncertain"
     THEN WorkerAt("cancel")
     ELSE worker' = [worker EXCEPT !.pc = "reply", !.intent = "failed"]
  /\ UNCHANGED <<gatewayTables, recovery, dismissed, crashes, sessionVars>>

\* _settle_uncertain: the failure of its finish_result is suppressed.
SettleUncertain ==
  /\ worker.pc = "cancel"
  /\ IF FinishAllowed THEN WriteResult("uncertain") ELSE UNCHANGED <<result, conv>>
  /\ WorkerAt("giveup")
  /\ UNCHANGED <<inbox, began, reply, held, recovery, dismissed, crashes, sessionVars>>

\* Cancellation at an await outside the turn.
CancelWorker ==
  /\ worker.pc \in {"reply", "finish", "settle"} /\ ~worker.handling
  /\ WorkerAt("cancel")
  /\ UNCHANGED <<gatewayTables, recovery, dismissed, crashes, sessionVars>>

CrashGateway ==
  /\ worker.pc # "idle"
  /\ crashes < MaxCrashes
  /\ crashes' = crashes + 1
  /\ worker' = IdleWorker
  /\ turner' = [turner EXCEPT ![Worker] = IdleTurner]
  /\ UNCHANGED <<gatewayTables, recovery, dismissed, session, turns>>

-------------------------------------------------------------------------------
(* Recovery *)

\* Mutant: only an unfinished turn makes the message uncertain.
RecoveryTargetForgettingDoubt(m) ==
  CASE result[m].status = "none" -> "pending"
    [] result[m].status = "running" -> "uncertain"
    [] OTHER -> "processed"

\* _recover_inbox reads the result of an expired claim and writes later.
RecoveryTarget(m) ==
  CASE result[m].status \in {"committed", "failed"} -> "processed"
    [] result[m].status = "none" -> "pending"
    [] OTHER -> "uncertain"

InspectClaim(m) ==
  /\ recovery.pc = "idle"
  /\ inbox[m].status = "claimed" /\ inbox[m].lapsed
  /\ recovery' = [pc |-> IF Terminal(m) THEN "settle" ELSE "reclaim", m |-> m,
                  target |-> RecoveryTarget(m)]
  /\ UNCHANGED <<gatewayTables, worker, dismissed, crashes, sessionVars>>

\* settle_inbox_from_terminal_result and recover_inbox_claim.
RecoverInbox ==
  /\ recovery.pc \in {"settle", "reclaim"}
  /\ IF IF recovery.pc = "settle" THEN ~LiveClaim(recovery.m)
        ELSE inbox[recovery.m].status = "claimed" /\ inbox[recovery.m].lapsed
     THEN SetInbox(recovery.m, recovery.target) ELSE UNCHANGED inbox
  /\ recovery' = IdleRecovery
  /\ UNCHANGED <<conv, result, began, reply, held, worker, dismissed, crashes, sessionVars>>

\* recover_running_result, whether or not the turn's owner is alive.
RecoverRunningResult(m) ==
  /\ recovery.pc = "idle"
  /\ result[m].status = "running"
  /\ result' = [result EXCEPT ![m].status = "uncertain"]
  /\ conv' = [conv EXCEPT ![result[m].session].status = "uncertain",
                          ![result[m].session].revision = @ + 1]
  /\ UNCHANGED <<inbox, began, reply, held, worker, recovery, dismissed, crashes, sessionVars>>

RecoverSession(s) ==
  /\ recovery.pc = "idle"
  /\ RecoverLease(s)
  /\ UNCHANGED <<gatewayTables, worker, recovery, dismissed, crashes>>

\* _reconcile_handoff up to its decision that no live owner is finishing the turn.
InspectHandoff(m) ==
  /\ recovery.pc = "idle"
  /\ held[m] = "held"
  /\ result[m].status \in {"running", "uncertain"}
  /\ CommittedHandoff(m)
  /\ ~LiveClaim(m)
  /\ recovery' = [IdleRecovery EXCEPT !.pc = "enqueue", !.m = m]
  /\ UNCHANGED <<gatewayTables, worker, dismissed, crashes, sessionVars>>

EnqueueAcknowledgement ==
  /\ recovery.pc = "enqueue"
  /\ reply' = Enqueued(recovery.m, "ack")
  /\ recovery' = [recovery EXCEPT !.pc = "commit"]
  /\ UNCHANGED <<inbox, conv, result, began, held, worker, dismissed, crashes, sessionVars>>

NewerResult(m) ==
  \E i, j \in 1..Len(began) : i < j /\ began[i] = m /\ result[began[j]].session = result[m].session

\* Mutant: a conversation that was archived meanwhile is taken up again.
ReactivatesArchived(m) ==
  /\ ~NewerResult(m)
  /\ ActiveConversations \subseteq {result[m].session}

Reactivates(m) ==
  LET c == conv[result[m].session] IN
  /\ ~NewerResult(m)
  /\ c.status = "active" \/ (c.status = "uncertain" /\ c.last = m)

\* The unique index refuses a second active conversation of the key.
IndexConflict(m) == ActiveConversations \ {result[m].session} # {}

\* reconcile_committed_result; every exception leaves the request held.
ReconcileResult ==
  /\ recovery.pc = "commit"
  /\ LET m == recovery.m
         s == result[m].session
         open == result[m].status \in {"running", "uncertain"}
     IN IF result[m].status = "failed" \/ (open /\ Reactivates(m) /\ IndexConflict(m))
        THEN recovery' = IdleRecovery /\ UNCHANGED <<result, conv>>
        ELSE /\ result' = [result EXCEPT ![m].status = "committed"]
             /\ conv' = IF open /\ Reactivates(m)
                        THEN [conv EXCEPT ![s].status = "active", ![s].revision = @ + 1, ![s].last = m]
                        ELSE conv
             /\ recovery' = [pc |-> "settle", m |-> m, target |-> "processed"]
  /\ UNCHANGED <<inbox, began, reply, held, worker, dismissed, crashes, sessionVars>>

Deliver(m) ==
  /\ reply[m].body # "none" /\ ~reply[m].delivered
  /\ reply' = [reply EXCEPT ![m].delivered = TRUE]
  /\ UNCHANGED <<inbox, conv, result, began, held, worker, recovery, dismissed, crashes, sessionVars>>

\* The rest of _reconcile_handoff: release_acknowledged.
ReleaseHeld(m) ==
  /\ held[m] = "held"
  /\ result[m].status = "committed"
  /\ CommittedHandoff(m)
  /\ reply[m] = [body |-> "ack", delivered |-> TRUE]
  /\ held' = [held EXCEPT ![m] = "released"]
  /\ UNCHANGED <<inbox, conv, result, began, reply, worker, recovery, dismissed, crashes, sessionVars>>

-------------------------------------------------------------------------------
GatewayInit ==
  /\ SessionInit
  /\ inbox = [m \in Messages |-> [status |-> "absent", fence |-> 0, lapsed |-> FALSE]]
  /\ conv = [s \in Sessions |-> [status |-> "absent", revision |-> 0, last |-> None,
                                 archivedFor |-> None, createdFor |-> None]]
  /\ result = [m \in Messages |-> [status |-> "none", session |-> None]]
  /\ began = <<>>
  /\ reply = [m \in Messages |-> [body |-> "none", delivered |-> FALSE]]
  /\ held = [m \in Messages |-> "none"]
  /\ worker = IdleWorker
  /\ recovery = IdleRecovery
  /\ dismissed = {}
  /\ crashes = 0

WorkerStep ==
  \/ \E m \in Messages : SettleExisting(m) \/ ClaimInbox(m)
  \/ FinishInbox \/ FinishClaimUncertain
  \/ ResolveOrCreate \/ RotateActive \/ RotateInactive \/ ArchivePrior
  \/ MakeSession \/ OpenConversation
  \/ BeginResult \/ RespondWithoutTurn \/ StartTurn \/ TurnStep \/ EndTurn
  \/ EnqueueResponse \/ FinishResult \/ HandleException \/ SettleUncertain

ReconcileStep ==
  \/ \E m \in Messages : InspectHandoff(m) \/ ReleaseHeld(m)
  \/ RecoverInbox \/ EnqueueAcknowledgement \/ ReconcileResult

GatewayNext ==
  \/ \E m \in Messages : Ingest(m) \/ LapseClaim(m) \/ DismissInbox(m) \/ Deliver(m)
                         \/ InspectClaim(m) \/ RecoverRunningResult(m)
  \/ \E s \in Sessions : RecoverSession(s)
  \/ \E s \in Sessions : LapseSession(s)
                         /\ UNCHANGED <<gatewayTables, worker, recovery, dismissed, crashes>>
  \/ WorkerStep \/ ReconcileStep \/ CancelWorker \/ CrashGateway

GatewaySpec == GatewayInit /\ [][GatewayNext]_gatewayVars

\* The loops of the gateway service keep running and leases run out.
GatewayFairness ==
  /\ WF_gatewayVars(WorkerStep)
  /\ WF_gatewayVars(ReconcileStep)
  /\ \A m \in Messages : WF_gatewayVars(LapseClaim(m))

-------------------------------------------------------------------------------
(* Properties *)

\* No message is replayed to the model: at most one turn is ever begun for it, whatever
\* crashes, expired claims and recoveries lie between (begin_result before the turn;
\* _recover_inbox returns a message only when no result exists).
OneTurnPerMessage ==
  \A m \in Messages : Cardinality({t \in TurnIds : turns[t].inbound = m}) <= 1

\* The acknowledgement of a committed handoff is never displaced: no other body ever
\* takes the outbox entry of its message (_enqueue_response; the exception handler of
\* _process_locked).
AcknowledgementKept ==
  \A m \in Messages : CommittedHandoff(m) => reply[m].body \in {"none", "ack"}

\* The inbox agrees with the gateway: a message nobody dismissed is processed only when
\* its result is committed or failed (finish_inbox, settle_inbox_from_terminal_result).
SettledAgrees ==
  \A m \in Messages : inbox[m].status = "processed" /\ m \notin dismissed =>
    result[m].status \in {"committed", "failed"}

\* A conversation that was ever archived is never active again, also when recovery has
\* since made it uncertain or a handoff of it is reconciled late
\* (reconcile_committed_result).
ArchivedNeverActive ==
  \A s \in Sessions : conv[s].archivedFor # None => conv[s].status # "active"

\* /new is idempotent: retried after a crash, it does not rotate away from the
\* conversation it has itself created (_resolve_rotation).
NeverRotatesItself ==
  \A s \in Sessions : conv[s].createdFor # None => conv[s].archivedFor # conv[s].createdFor

\* Committed handoffs are repaired: once the turn of a message has committed a handoff,
\* the result of the message is eventually committed.
HandoffRepaired ==
  \A m \in Messages : CommittedHandoff(m) ~> result[m].status = "committed"
=================================================================================
