--------------------------- MODULE GatewayTurnProofs ---------------------------
(***************************************************************************)
(* Proofs about SessionTurns and GatewayTurn, for every set of sessions,   *)
(* owners and messages and any number of turns, leases and crashes.        *)
(*                                                                         *)
(* The first part is the session store by itself, used by any processes;   *)
(* the second part is the gateway on top of it.                            *)
(***************************************************************************)
EXTENDS GatewayTurn, SequenceTheorems, FiniteSetTheorems, TLAPS

-------------------------------------------------------------------------------
(* Sessions and their turns: the inductive invariant *)

\* What a turn may be caused by.
Inbounds == Messages \cup {NoMessage}

\* The types of the rows and of an owner's record.
TurnRow == [session : Sessions, inbound : Inbounds, base : Nat,
            status : {"running", "committed", "failed", "uncertain"},
            handoff : BOOLEAN, observable : BOOLEAN]

SessionRow == [status : {"absent", "active", "uncertain", "archived"}, revision : Nat,
               fence : Nat, lease : Nat, lapsed : BOOLEAN]

TurnerPCs == {"idle", "leased", "read", "running", "failing", "committed", "failed"}

TurnerRow == [pc : TurnerPCs, session : Sessions \cup {"none"}, fence : Nat, base : Nat,
              turn : Nat, inbound : Inbounds, observable : BOOLEAN, handoff : BOOLEAN]

SessionTypes ==
  /\ session \in [Sessions -> SessionRow]
  /\ turns \in Seq(TurnRow)
  /\ turner \in [Owners -> TurnerRow]

\* What an owner remembers of its session, its lease and its turn.
Remembers ==
  \A o \in Owners : turner[o].pc # "idle" =>
    /\ turner[o].session \in Sessions
    /\ turner[o].fence # 0 /\ turner[o].fence <= session[turner[o].session].fence
    /\ turner[o].turn # 0 =>
         /\ turner[o].turn \in TurnIds
         /\ turns[turner[o].turn].session = turner[o].session
         /\ turns[turner[o].turn].base = turner[o].base
    /\ turner[o].pc = "running" => turner[o].turn # 0
    /\ turner[o].pc \in {"leased", "read"} => turner[o].turn = 0

\* No two owners hold the same lease, not even a lapsed one.
LeasesDiffer ==
  \A o, q \in Owners :
    /\ o # q /\ turner[o].pc # "idle" /\ turner[q].pc # "idle"
    /\ turner[o].session = turner[q].session
    => turner[o].fence # turner[q].fence

\* The revision of a session is beyond every turn that was committed to it.
CommittedBelow ==
  \A t \in TurnIds : turns[t].status = "committed" =>
    turns[t].base < session[turns[t].session].revision

\* The owner whose failure made a session uncertain is past its last write.
UncertainIsOver ==
  \A o \in Owners :
    /\ turner[o].pc # "idle"
    /\ session[turner[o].session].status = "uncertain"
    /\ session[turner[o].session].lease = turner[o].fence
    => turner[o].pc = "failed"

\* The inductive invariant.
SessionInv ==
  /\ SessionTypes
  /\ Remembers
  /\ LeasesDiffer
  /\ CommittedBelow
  /\ UncertainIsOver
  /\ NoLostUpdate

\* One session's row is written: the others keep theirs.
LEMMA SessionWritten ==
  ASSUME SessionTypes, NEW s \in Sessions, NEW row \in SessionRow, session' = [session EXCEPT ![s] = row]
  PROVE  /\ session' \in [Sessions -> SessionRow]
         /\ session'[s] = row
         /\ \A z \in Sessions : z # s => session'[z] = session[z]
  BY DEF SessionTypes

\* One owner's record is written: the others keep theirs.
LEMMA OwnerMoved ==
  ASSUME SessionTypes, NEW o \in Owners, NEW row \in TurnerRow, turner' = [turner EXCEPT ![o] = row]
  PROVE  /\ turner' \in [Owners -> TurnerRow]
         /\ turner'[o] = row
         /\ \A q \in Owners : q # o => turner'[q] = turner[q]
  BY DEF SessionTypes

\* One turn's row is written: the table keeps its length and its other rows.
LEMMA TurnWritten ==
  ASSUME SessionTypes, NEW k \in TurnIds, NEW row \in TurnRow, turns' = [turns EXCEPT ![k] = row]
  PROVE  /\ turns' \in Seq(TurnRow)
         /\ Len(turns') = Len(turns)
         /\ turns'[k] = row
         /\ \A t \in TurnIds : t # k => turns'[t] = turns[t]
  BY ExceptSeq DEF SessionTypes, TurnIds

\* What the types say of the rows.
LEMMA RowTypes ==
  ASSUME SessionTypes
  PROVE  /\ \A s \in Sessions : session[s] \in SessionRow
         /\ \A o \in Owners : turner[o] \in TurnerRow
         /\ \A t \in TurnIds : turns[t] \in TurnRow
  BY DEF SessionTypes, TurnIds

-------------------------------------------------------------------------------
(* Steps that commit nothing, lease nothing and begin no turn *)

QuietSessions ==
  \A s \in Sessions :
    /\ session'[s].revision >= session[s].revision
    /\ session'[s].fence >= session[s].fence
    /\ session'[s].lease \in {0, session[s].lease}
    /\ session'[s].status = "uncertain" => session[s].status = "uncertain" \/ session'[s].lease = 0

QuietTurns ==
  /\ Len(turns') = Len(turns)
  /\ \A t \in TurnIds :
       /\ turns'[t].session = turns[t].session
       /\ turns'[t].base = turns[t].base
       /\ turns'[t].status = "committed" => turns[t].status = "committed"

QuietTurners ==
  \A o \in Owners : turner'[o].pc # "idle" =>
    /\ turner[o].pc # "idle"
    /\ turner'[o].session = turner[o].session
    /\ turner'[o].fence = turner[o].fence
    /\ turner'[o].turn = turner[o].turn
    /\ turner'[o].turn # 0 => turner'[o].base = turner[o].base
    /\ turner'[o].pc = "running" => turner[o].pc = "running"
    /\ turner'[o].pc \in {"leased", "read"} => turner[o].pc \in {"leased", "read"}
    /\ turner[o].pc = "failed" => turner'[o].pc = "failed"

\* A quiet step keeps the invariant.
LEMMA QuietStep ==
  ASSUME SessionInv, SessionTypes', QuietSessions, QuietTurns, QuietTurners
  PROVE  SessionInv'
<1>1. TurnIds' = TurnIds
  BY DEF QuietTurns, TurnIds
<1>2. /\ \A t \in TurnIds : turns[t].session \in Sessions /\ turns[t].base \in Nat
      /\ \A s \in Sessions : /\ session[s].revision \in Nat /\ session'[s].revision \in Nat
                             /\ session[s].fence \in Nat /\ session'[s].fence \in Nat
      /\ \A o \in Owners : turner[o].fence \in Nat
  <2>1. \A t \in TurnIds : turns[t].session \in Sessions /\ turns[t].base \in Nat
    BY RowTypes DEF SessionInv, TurnRow
  <2>2. \A s \in Sessions : session[s].revision \in Nat /\ session[s].fence \in Nat
    BY RowTypes DEF SessionInv, SessionRow
  <2>3. \A s \in Sessions : session'[s].revision \in Nat /\ session'[s].fence \in Nat
    BY DEF SessionTypes, SessionRow
  <2>4. \A o \in Owners : turner[o].fence \in Nat
    BY RowTypes DEF SessionInv, TurnerRow
  <2> QED
    BY <2>1, <2>2, <2>3, <2>4
<1>3. Remembers'
  BY <1>1, <1>2 DEF SessionInv, Remembers, QuietSessions, QuietTurns, QuietTurners
<1>4. LeasesDiffer'
  BY DEF SessionInv, LeasesDiffer, QuietTurners
<1>5. CommittedBelow'
  BY <1>1, <1>2 DEF SessionInv, CommittedBelow, QuietSessions, QuietTurns
<1>6. UncertainIsOver'
  BY DEF SessionInv, Remembers, UncertainIsOver, QuietSessions, QuietTurners
<1>7. NoLostUpdate'
  BY <1>1 DEF SessionInv, NoLostUpdate, CommittedTurns, QuietTurns
<1> QED
  BY <1>3, <1>4, <1>5, <1>6, <1>7 DEF SessionInv

\* Nothing happens to sessions or turns.
LEMMA QuietTables ==
  /\ SessionTypes /\ UNCHANGED session => QuietSessions
  /\ UNCHANGED turns => QuietTurns
<1>1. SessionTypes => \A s \in Sessions : session[s].revision \in Nat /\ session[s].fence \in Nat
  BY DEF SessionTypes, SessionRow
<1>2. UNCHANGED turns => QuietTurns
  BY DEF QuietTurns, TurnIds
<1> QED
  BY <1>1, <1>2 DEF QuietSessions

\* One owner moves on with its turn, or is over.
LEMMA QuietOwner ==
  ASSUME SessionTypes, NEW o \in Owners, turner' = [turner EXCEPT ![o] = turner'[o]],
         turner'[o] \in TurnerRow,
         turner'[o].pc # "idle" =>
           /\ turner[o].pc # "idle"
           /\ turner'[o].session = turner[o].session
           /\ turner'[o].fence = turner[o].fence
           /\ turner'[o].turn = turner[o].turn
           /\ turner'[o].turn # 0 => turner'[o].base = turner[o].base
           /\ turner'[o].pc = "running" => turner[o].pc = "running"
           /\ turner'[o].pc \in {"leased", "read"} => turner[o].pc \in {"leased", "read"}
           /\ turner[o].pc = "failed" => turner'[o].pc = "failed"
  PROVE  QuietTurners /\ turner' \in [Owners -> TurnerRow]
  BY OwnerMoved DEF QuietTurners

\* The owner stands at another point of its turn.
LEMMA OwnerAt ==
  ASSUME SessionTypes, NEW o \in Owners, NEW pc \in TurnerPCs, TurnAt(o, pc)
  PROVE  /\ turner' = [turner EXCEPT ![o] = turner'[o]]
         /\ turner'[o] = [turner[o] EXCEPT !.pc = pc]
         /\ turner'[o] \in TurnerRow
<1>1. turner[o] \in TurnerRow
  BY RowTypes
<1>2. turner' = [turner EXCEPT ![o] = turner'[o]] /\ turner'[o] = [turner[o] EXCEPT !.pc = pc]
  BY DEF TurnAt, SessionTypes
<1> QED
  BY <1>1, <1>2 DEF TurnerRow

\* An owner is at the end of its turn, whatever it has left behind.
LEMMA IdleOwner ==
  ASSUME SessionTypes, NEW o \in Owners, turner' = [turner EXCEPT ![o] = IdleTurner]
  PROVE  QuietTurners /\ turner' \in [Owners -> TurnerRow]
<1>1. IdleTurner \in TurnerRow /\ IdleTurner.pc = "idle"
  BY DEF IdleTurner, TurnerRow, TurnerPCs, Inbounds
<1>2. turner'[o] = IdleTurner
  BY DEF SessionTypes
<1> QED
  BY <1>1, <1>2, QuietOwner

\* A turn is given up before its end, or a write of it was refused.
LEMMA GivingUpKeeps ==
  ASSUME SessionInv, NEW o \in Owners, NEW pc \in {"failing", "failed"}, TurnAt(o, pc),
         turner[o].pc # "idle", turner[o].pc # "failed", UNCHANGED <<session, turns>>
  PROVE  SessionInv'
<1>1. turner[o] \in TurnerRow
  BY RowTypes DEF SessionInv
<1>2. /\ turner' = [turner EXCEPT ![o] = turner'[o]]
      /\ turner'[o] = [turner[o] EXCEPT !.pc = pc]
      /\ turner'[o] \in TurnerRow
  BY OwnerAt DEF SessionInv, TurnerPCs
<1>3. QuietTurners /\ turner' \in [Owners -> TurnerRow]
  BY <1>1, <1>2, QuietOwner DEF SessionInv, TurnerRow
<1>4. SessionTypes'
  BY <1>3 DEF SessionInv, SessionTypes
<1> QED
  BY <1>3, <1>4, QuietStep, QuietTables DEF SessionInv

\* The owner's process dies: its record is gone, the tables stay as they are.
LEMMA CrashOwnerKeeps ==
  ASSUME SessionInv, NEW o \in Owners, CrashOwner(o)
  PROVE  SessionInv'
<1>1. UNCHANGED <<session, turns>> /\ turner' = [turner EXCEPT ![o] = IdleTurner]
  BY DEF CrashOwner
<1>2. QuietTurners /\ turner' \in [Owners -> TurnerRow]
  BY <1>1, IdleOwner DEF SessionInv
<1> QED
  BY <1>1, <1>2, QuietStep, QuietTables DEF SessionInv, SessionTypes

\* The owner reads the revision its turn is to be computed from.
LEMMA ReadSessionKeeps ==
  ASSUME SessionInv, NEW o \in Owners, ReadSession(o)
  PROVE  SessionInv'
<1>1. turner[o] \in TurnerRow /\ turner[o].session \in Sessions /\ turner[o].turn = 0
  BY RowTypes DEF SessionInv, Remembers, ReadSession
<1>2. session[turner[o].session].revision \in Nat
  BY <1>1, RowTypes DEF SessionInv, SessionRow
<1>3. /\ turner' = [turner EXCEPT ![o] = turner'[o]]
      /\ turner'[o] = [turner[o] EXCEPT !.pc = "read", !.base = session[turner[o].session].revision]
      /\ turner[o].pc = "leased"
      /\ UNCHANGED <<session, turns>>
  BY DEF ReadSession, SessionInv, SessionTypes
<1>4. turner'[o] \in TurnerRow
  BY <1>1, <1>2, <1>3 DEF TurnerRow, TurnerPCs
<1>5. QuietTurners /\ turner' \in [Owners -> TurnerRow]
  BY <1>1, <1>3, <1>4, QuietOwner DEF SessionInv, TurnerRow
<1> QED
  BY <1>3, <1>5, QuietStep, QuietTables DEF SessionInv, SessionTypes

\* The owner ends its turn and gives its lease back, if it is still its own.
LEMMA ReleaseSessionKeeps ==
  ASSUME SessionInv, NEW o \in Owners, ReleaseSession(o)
  PROVE  SessionInv'
<1> DEFINE s == turner[o].session
<1>1. s \in Sessions /\ session[s] \in SessionRow
  BY RowTypes DEF SessionInv, Remembers, ReleaseSession
<1>2. QuietTurners /\ turner' \in [Owners -> TurnerRow] /\ QuietTurns
  BY IdleOwner, QuietTables DEF ReleaseSession, SessionInv
<1>3. CASE UNCHANGED session
  BY <1>2, <1>3, QuietStep, QuietTables DEF ReleaseSession, SessionInv, SessionTypes
<1>4. CASE session' = [session EXCEPT ![s].lease = 0, ![s].lapsed = FALSE]
  <2>1. /\ session' = [session EXCEPT ![s] = session'[s]]
        /\ session'[s] = [session[s] EXCEPT !.lease = 0, !.lapsed = FALSE]
    BY <1>1, <1>4 DEF SessionInv, SessionTypes
  <2>2. /\ session'[s] \in SessionRow
        /\ session'[s].revision = session[s].revision /\ session'[s].fence = session[s].fence
        /\ session'[s].lease = 0 /\ session'[s].status = session[s].status
    <3>1. [session[s] EXCEPT !.lease = 0, !.lapsed = FALSE] \in SessionRow
      BY <1>1 DEF SessionRow
    <3> QED
      BY <1>1, <2>1, <3>1 DEF SessionRow
  <2>3. session' \in [Sessions -> SessionRow] /\ \A z \in Sessions : z # s => session'[z] = session[z]
    BY <1>1, <2>1, <2>2, SessionWritten DEF SessionInv
  <2>4. SessionTypes'
    BY <1>2, <2>3 DEF ReleaseSession, SessionInv, SessionTypes
  <2>5. \A z \in Sessions : session[z].revision \in Nat /\ session[z].fence \in Nat
    BY RowTypes DEF SessionInv, SessionRow
  <2>6. QuietSessions
    BY <2>2, <2>3, <2>5 DEF QuietSessions
  <2> QED
    BY <1>2, <2>4, <2>6, QuietStep
<1> QED
  BY <1>3, <1>4 DEF ReleaseSession, ReleaseLease

\* The turn shows something to the user or hands work off.
LEMMA ObserveEventKeeps ==
  ASSUME SessionInv, NEW o \in Owners, NEW handoff \in BOOLEAN, ObserveEvent(o, handoff)
  PROVE  SessionInv'
<1> DEFINE k == turner[o].turn
<1>1. turner[o] \in TurnerRow /\ turner[o].pc = "running" /\ k \in TurnIds /\ turns[k] \in TurnRow
  BY RowTypes DEF SessionInv, Remembers, ObserveEvent
<1>2. (turner[o].handoff \/ handoff) \in BOOLEAN
  BY <1>1 DEF TurnerRow
<1>3. /\ turner' = [turner EXCEPT ![o] = turner'[o]]
      /\ turner'[o] = [turner[o] EXCEPT !.observable = TRUE, !.handoff = turner[o].handoff \/ handoff]
  BY DEF ObserveEvent, SessionInv, SessionTypes
<1>4. turner'[o] \in TurnerRow
  BY <1>1, <1>2, <1>3 DEF TurnerRow
<1>5. QuietTurners /\ turner' \in [Owners -> TurnerRow]
  BY <1>1, <1>3, <1>4, QuietOwner DEF SessionInv, TurnerRow
<1>6. [turns[k] EXCEPT !.observable = TRUE] \in TurnRow
  BY <1>1 DEF TurnRow
<1>7. turns' = [turns EXCEPT ![k] = [turns[k] EXCEPT !.observable = TRUE]]
  BY DEF ObserveEvent
<1>8. /\ turns' \in Seq(TurnRow) /\ Len(turns') = Len(turns)
      /\ turns'[k] = [turns[k] EXCEPT !.observable = TRUE]
      /\ \A t \in TurnIds : t # k => turns'[t] = turns[t]
  BY <1>1, <1>6, <1>7, TurnWritten DEF SessionInv
<1>9. QuietTurns
  BY <1>1, <1>8 DEF QuietTurns, TurnRow
<1>10. SessionTypes' /\ QuietSessions
  BY <1>5, <1>8, QuietTables DEF ObserveEvent, SessionInv, SessionTypes
<1> QED
  BY <1>5, <1>9, <1>10, QuietStep

\* A session is created, archived, or its lease lapses.
LEMMA SessionOnlyKeeps ==
  ASSUME SessionInv, NEW s \in Sessions, UNCHANGED <<turns, turner>>,
         CreateSession(s) \/ ArchiveSession(s) \/ LapseSession(s)
  PROVE  SessionInv'
<1>1. session[s] \in SessionRow
  BY RowTypes DEF SessionInv
<1>2. /\ session' = [session EXCEPT ![s] = session'[s]]
      /\ \/ session'[s] = [session[s] EXCEPT !.status = "active"]
         \/ session'[s] = [session[s] EXCEPT !.status = "archived", !.revision = session[s].revision + 1,
                                             !.lease = 0, !.lapsed = FALSE]
         \/ session'[s] = [session[s] EXCEPT !.lapsed = TRUE]
  BY DEF CreateSession, ArchiveSession, LapseSession, SessionInv, SessionTypes
<1>3. /\ session'[s] \in SessionRow
      /\ session'[s].revision >= session[s].revision /\ session'[s].fence = session[s].fence
      /\ session'[s].lease \in {0, session[s].lease}
      /\ session'[s].status = "uncertain" => session[s].status = "uncertain"
  <2>1. session[s].revision \in Nat /\ session[s].revision + 1 \in Nat
    BY <1>1 DEF SessionRow
  <2> DEFINE archived == [session[s] EXCEPT !.status = "archived", !.revision = session[s].revision + 1]
  <2>5. archived \in SessionRow
    BY <1>1, <2>1 DEF SessionRow
  <2>6. [archived EXCEPT !.lease = 0, !.lapsed = FALSE] \in SessionRow
    BY <2>5 DEF SessionRow
  <2>7. [session[s] EXCEPT !.lapsed = TRUE] \in SessionRow
    BY <1>1 DEF SessionRow
  <2>2. CASE session'[s] = [session[s] EXCEPT !.status = "active"]
    BY <1>1, <2>1, <2>2 DEF SessionRow
  <2>3. CASE session'[s] = [session[s] EXCEPT !.status = "archived", !.revision = session[s].revision + 1,
                                              !.lease = 0, !.lapsed = FALSE]
    BY <1>1, <2>1, <2>3, <2>6 DEF SessionRow
  <2>4. CASE session'[s] = [session[s] EXCEPT !.lapsed = TRUE]
    BY <1>1, <2>1, <2>4, <2>7 DEF SessionRow
  <2> QED
    BY <1>2, <2>2, <2>3, <2>4
<1>4. SessionTypes' /\ \A z \in Sessions : z # s => session'[z] = session[z]
  BY <1>2, <1>3, SessionWritten DEF SessionInv, SessionTypes
<1>5. QuietSessions
  <2>1. \A z \in Sessions : session[z].revision \in Nat /\ session[z].fence \in Nat
    BY RowTypes DEF SessionInv, SessionRow
  <2> QED
    BY <1>3, <1>4, <2>1 DEF QuietSessions
<1>6. QuietTurns /\ QuietTurners
  BY DEF QuietTurns, QuietTurners, TurnIds
<1> QED
  BY <1>4, <1>5, <1>6, QuietStep

\* Recovery of an expired lease: the running turns become uncertain, the fence advances.
LEMMA RecoverLeaseKeeps ==
  ASSUME SessionInv, NEW s \in Sessions, RecoverLease(s)
  PROVE  SessionInv'
<1> DEFINE status == IF RunningTurns(s) # {} THEN "uncertain" ELSE session[s].status
           marked(t) == IF t \in RunningTurns(s) THEN [turns[t] EXCEPT !.status = "uncertain"] ELSE turns[t]
<1>1. session[s] \in SessionRow
  BY RowTypes DEF SessionInv
<1>2. /\ session' = [session EXCEPT ![s] = session'[s]]
      /\ session'[s] = [session[s] EXCEPT !.status = status, !.fence = session[s].fence + 1,
                                          !.lease = 0, !.lapsed = FALSE]
  BY DEF RecoverLease, SessionInv, SessionTypes
<1>3. /\ session'[s] \in SessionRow
      /\ session'[s].revision = session[s].revision /\ session'[s].fence >= session[s].fence
      /\ session'[s].lease = 0
  <2> DEFINE renewed == [session[s] EXCEPT !.status = status, !.fence = session[s].fence + 1]
  <2>1. session[s].fence \in Nat /\ session[s].fence + 1 \in Nat /\ session[s].fence + 1 >= session[s].fence
    BY <1>1 DEF SessionRow
  <2>2. status \in {"absent", "active", "uncertain", "archived"}
    BY <1>1 DEF SessionRow
  <2> HIDE DEF status
  <2>3. renewed \in SessionRow
    BY <1>1, <2>1, <2>2 DEF SessionRow
  <2>4. [renewed EXCEPT !.lease = 0, !.lapsed = FALSE] \in SessionRow
    BY <2>3 DEF SessionRow
  <2> QED
    BY <1>1, <1>2, <2>1, <2>4 DEF SessionRow
<1>4. session' \in [Sessions -> SessionRow] /\ \A z \in Sessions : z # s => session'[z] = session[z]
  BY <1>2, <1>3, SessionWritten DEF SessionInv
<1>5. turns' = [t \in 1..Len(turns) |-> marked(t)] /\ Len(turns) \in Nat
  <2>1. turns' = [t \in 1..Len(turns) |-> marked(t)]
    BY DEF RecoverLease, TurnIds
  <2>2. Len(turns) \in Nat
    BY DEF SessionInv, SessionTypes
  <2> QED
    BY <2>1, <2>2
<1>6. \A t \in TurnIds : /\ marked(t) \in TurnRow
                         /\ marked(t).session = turns[t].session /\ marked(t).base = turns[t].base
                         /\ marked(t).status = "committed" => turns[t].status = "committed"
  BY RowTypes DEF SessionInv, TurnRow
<1> HIDE DEF marked
<1>7. turns' \in Seq(TurnRow) /\ Len(turns') = Len(turns) /\ \A t \in TurnIds : turns'[t] = marked(t)
  BY <1>5, <1>6 DEF TurnIds
<1>8. QuietTurns
  BY <1>6, <1>7 DEF QuietTurns
<1>9. SessionTypes' /\ UNCHANGED turner
  BY <1>4, <1>7 DEF RecoverLease, SessionInv, SessionTypes
<1>10. QuietSessions
  <2>1. \A z \in Sessions : session[z].revision \in Nat /\ session[z].fence \in Nat
    BY RowTypes DEF SessionInv, SessionRow
  <2> QED
    BY <1>3, <1>4, <2>1 DEF QuietSessions
<1>11. QuietTurners
  BY <1>9 DEF QuietTurners
<1> QED
  BY <1>8, <1>9, <1>10, <1>11, QuietStep

-------------------------------------------------------------------------------
(* The other steps *)

\* A lease is taken under a fence no owner has ever had.
LEMMA AcquireSessionKeeps ==
  ASSUME SessionInv, NEW o \in Owners, NEW s \in Sessions, NEW m \in Inbounds,
         AcquireSession(o, s, m)
  PROVE  SessionInv'
<1> DEFINE f == session[s].fence + 1
           leased == [IdleTurner EXCEPT !.pc = "leased", !.session = s, !.fence = f, !.inbound = m]
<1>1. session[s] \in SessionRow /\ session[s].fence \in Nat /\ f \in Nat /\ f # 0 /\ f > session[s].fence
  <2>1. session[s] \in SessionRow /\ session[s].fence \in Nat
    BY RowTypes DEF SessionInv, SessionRow
  <2> QED
    BY <2>1
<1>2. /\ session' = [session EXCEPT ![s] = session'[s]]
      /\ session'[s] = [session[s] EXCEPT !.fence = f, !.lease = f, !.lapsed = FALSE]
      /\ session[s].status = "active"
      /\ turner' = [turner EXCEPT ![o] = leased]
      /\ turns' = turns
  <2>2. session[s].status = "active" /\ turner' = [turner EXCEPT ![o] = leased] /\ turns' = turns
    BY DEF AcquireSession, CanAcquire
  <2>3. /\ session' = [session EXCEPT ![s] = session'[s]]
        /\ session'[s] = [session[s] EXCEPT !.fence = f, !.lease = f, !.lapsed = FALSE]
    BY DEF AcquireSession, SessionInv, SessionTypes
  <2> QED
    BY <2>2, <2>3
<1> HIDE DEF f
<1>3. [session[s] EXCEPT !.fence = f, !.lease = f] \in SessionRow
  BY <1>1 DEF SessionRow
<1>4. /\ session'[s] \in SessionRow
      /\ session'[s].revision = session[s].revision /\ session'[s].fence = f
      /\ session'[s].status = "active"
  <2>1. [[session[s] EXCEPT !.fence = f, !.lease = f] EXCEPT !.lapsed = FALSE] \in SessionRow
    BY <1>3 DEF SessionRow
  <2> QED
    BY <1>1, <1>2, <2>1 DEF SessionRow
<1>5. session' \in [Sessions -> SessionRow] /\ \A z \in Sessions : z # s => session'[z] = session[z]
  BY <1>2, <1>4, SessionWritten DEF SessionInv
<1>6. /\ leased \in TurnerRow
      /\ leased.session = s /\ leased.fence = f /\ leased.turn = 0 /\ leased.pc = "leased"
  <2>1. IdleTurner \in TurnerRow /\ IdleTurner.turn = 0
    BY DEF IdleTurner, TurnerRow, TurnerPCs, Inbounds
  <2> QED
    BY <1>1, <2>1 DEF TurnerRow, TurnerPCs
<1> HIDE DEF leased
<1>7. /\ turner' \in [Owners -> TurnerRow] /\ turner'[o] = leased
      /\ \A q \in Owners : q # o => turner'[q] = turner[q]
  BY <1>2, <1>6, OwnerMoved DEF SessionInv
<1>8. SessionTypes' /\ TurnIds' = TurnIds
  BY <1>2, <1>5, <1>7 DEF SessionInv, SessionTypes, TurnIds
<1>9. /\ turner'[o].session = s /\ turner'[o].fence = f /\ turner'[o].turn = 0 /\ turner'[o].pc = "leased"
      /\ \A q \in Owners : turner[q].fence \in Nat
      /\ \A z \in Sessions : session[z].fence \in Nat
  BY <1>6, <1>7, RowTypes DEF SessionInv, TurnerRow, SessionRow
<1>10. Remembers'
  <2>1. \A z \in Sessions : session'[z].fence \in Nat /\ session'[z].fence >= session[z].fence
    BY <1>1, <1>4, <1>5, <1>9
  <2>2. SUFFICES ASSUME NEW q \in Owners, q # o, turner[q].pc # "idle"
                 PROVE  turner[q].fence <= session'[turner[q].session].fence
    <3>1. s \in Sessions /\ f # 0 /\ f <= session'[s].fence
      BY <1>1, <1>4
    <3> QED
      BY <1>2, <1>7, <1>8, <1>9, <3>1 DEF SessionInv, Remembers
  <2> QED
    BY <1>9, <2>1, <2>2 DEF SessionInv, Remembers
<1>11. LeasesDiffer'
  <2>1. \A q \in Owners : q # o /\ turner[q].pc # "idle" /\ turner[q].session = s => turner[q].fence # f
    BY <1>1, <1>9 DEF SessionInv, Remembers
  <2> QED
    BY <1>7, <1>9, <2>1 DEF SessionInv, LeasesDiffer
<1>12. CommittedBelow'
  <2>1. \A z \in Sessions : session'[z].revision = session[z].revision
    BY <1>4, <1>5
  <2>2. \A t \in TurnIds : turns[t].session \in Sessions
    BY RowTypes DEF SessionInv, TurnRow
  <2> QED
    BY <1>2, <1>8, <2>1, <2>2 DEF SessionInv, CommittedBelow
<1>13. UncertainIsOver'
  BY <1>4, <1>5, <1>7, <1>9 DEF SessionInv, Remembers, UncertainIsOver
<1>14. NoLostUpdate'
  BY <1>2, <1>8 DEF SessionInv, NoLostUpdate, CommittedTurns
<1> QED
  BY <1>8, <1>10, <1>11, <1>12, <1>13, <1>14 DEF SessionInv

\* A turn begins at the end of the table.
LEMMA BeginTurnKeeps ==
  ASSUME SessionInv, NEW o \in Owners, BeginTurn(o)
  PROVE  SessionInv'
<1> DEFINE s == turner[o].session
           k == Len(turns) + 1
           row == [session |-> s, inbound |-> turner[o].inbound, base |-> turner[o].base,
                   status |-> "running", handoff |-> FALSE, observable |-> FALSE]
<1>1. turner[o] \in TurnerRow /\ s \in Sessions /\ turner[o].pc = "read"
  BY RowTypes DEF SessionInv, Remembers, BeginTurn
<1>2. CASE TurnAt(o, "failing") /\ UNCHANGED <<session, turns>>
  BY <1>1, <1>2, GivingUpKeeps
<1>3. CASE /\ HoldsLease(o) /\ session[s].revision = turner[o].base
           /\ turns' = Append(turns, row)
           /\ turner' = [turner EXCEPT ![o].pc = "running", ![o].turn = Len(turns) + 1]
           /\ UNCHANGED session
  <2>1. row \in TurnRow
    BY <1>1 DEF TurnRow, TurnerRow
  <2>2. turns \in Seq(TurnRow) /\ Len(turns) \in Nat /\ k \in Nat /\ k # 0
    BY DEF SessionInv, SessionTypes
  <2> HIDE DEF row
  <2>3. /\ turns' \in Seq(TurnRow) /\ Len(turns') = Len(turns) + 1
        /\ \A t \in 1..Len(turns) : turns'[t] = turns[t]
        /\ turns'[Len(turns) + 1] = row
    BY <1>3, <2>1, <2>2, AppendProperties
  <2>4. TurnIds' = TurnIds \cup {k} /\ k \notin TurnIds
    BY <2>2, <2>3 DEF TurnIds
  <2>5. row.session = s /\ row.base = turner[o].base /\ row.status = "running"
    BY DEF row
  <2>6. /\ turner' = [turner EXCEPT ![o] = turner'[o]]
        /\ turner'[o] = [turner[o] EXCEPT !.pc = "running", !.turn = k]
    BY <1>3 DEF SessionInv, SessionTypes
  <2> HIDE DEF k
  <2>7. /\ turner'[o] \in TurnerRow
        /\ turner'[o].pc = "running" /\ turner'[o].turn = k /\ turner'[o].session = s
        /\ turner'[o].fence = turner[o].fence /\ turner'[o].base = turner[o].base
    BY <1>1, <2>2, <2>6 DEF TurnerRow, TurnerPCs
  <2>8. turner' \in [Owners -> TurnerRow] /\ \A q \in Owners : q # o => turner'[q] = turner[q]
    BY <2>6, <2>7, OwnerMoved DEF SessionInv
  <2>9. SessionTypes' /\ session' = session /\ turns'[k] = row /\ \A t \in TurnIds : turns'[t] = turns[t]
    BY <1>3, <2>3, <2>8 DEF SessionInv, SessionTypes, TurnIds, k
  <2>10. Remembers'
    BY <1>1, <2>2, <2>4, <2>5, <2>7, <2>8, <2>9 DEF SessionInv, Remembers
  <2>11. LeasesDiffer'
    BY <1>1, <2>7, <2>8 DEF SessionInv, LeasesDiffer
  <2>12. CommittedBelow' /\ NoLostUpdate'
    BY <2>4, <2>5, <2>9 DEF SessionInv, CommittedBelow, NoLostUpdate, CommittedTurns
  <2>13. UncertainIsOver'
    BY <1>1, <2>7, <2>8, <2>9 DEF SessionInv, UncertainIsOver
  <2> QED
    BY <2>9, <2>10, <2>11, <2>12, <2>13 DEF SessionInv
<1> QED
  BY <1>2, <1>3 DEF BeginTurn

\* A commit: the turn was computed from the current revision, which it advances.
LEMMA WriteCommitKeeps ==
  ASSUME SessionInv, NEW o \in Owners, turner[o].pc = "running", CommitAllowed(o), WriteCommit(o),
         NEW pc \in {"committed", "failing"}, TurnAt(o, pc)
  PROVE  SessionInv' /\ session[turner[o].session].status # "uncertain"
<1> DEFINE s == turner[o].session
           k == turner[o].turn
           b == turner[o].base
<1>1. /\ turner[o] \in TurnerRow /\ s \in Sessions /\ k \in TurnIds /\ b \in Nat
      /\ turns[k] \in TurnRow /\ session[s] \in SessionRow
      /\ turns[k].session = s /\ turns[k].base = b
  <2>1. turner[o] \in TurnerRow /\ s \in Sessions /\ k \in TurnIds /\ turns[k].session = s /\ turns[k].base = b
    BY RowTypes DEF SessionInv, Remembers
  <2>2. turns[k] \in TurnRow /\ session[s] \in SessionRow
    BY <2>1, RowTypes DEF SessionInv
  <2> QED
    BY <2>1, <2>2 DEF TurnerRow
<1>2. session[s].revision = b /\ session[s].lease = turner[o].fence /\ session[s].status # "uncertain"
  BY DEF CommitAllowed, HoldsLease, SessionInv, UncertainIsOver
<1>3. /\ turner' = [turner EXCEPT ![o] = turner'[o]]
      /\ turner'[o] = [turner[o] EXCEPT !.pc = pc]
      /\ turner'[o] \in TurnerRow
  BY OwnerAt DEF SessionInv, TurnerPCs
<1>4. /\ turner'[o].pc = pc /\ turner'[o].session = s /\ turner'[o].fence = turner[o].fence
      /\ turner'[o].turn = k /\ turner'[o].base = b
  BY <1>1, <1>3 DEF TurnerRow
<1>5. turner' \in [Owners -> TurnerRow] /\ \A q \in Owners : q # o => turner'[q] = turner[q]
  BY <1>3, OwnerMoved DEF SessionInv
<1>6. /\ session' = [session EXCEPT ![s] = session'[s]]
      /\ session'[s] = [session[s] EXCEPT !.revision = b + 1, !.status = "active"]
  BY <1>1 DEF WriteCommit, SessionInv, SessionTypes
<1>7. /\ session'[s] \in SessionRow
      /\ session'[s].revision = b + 1 /\ session'[s].fence = session[s].fence
      /\ session'[s].lease = session[s].lease /\ session'[s].status = "active"
  <2>1. b + 1 \in Nat
    BY <1>1
  <2> QED
    BY <1>1, <1>6, <2>1 DEF SessionRow
<1>8. session' \in [Sessions -> SessionRow] /\ \A z \in Sessions : z # s => session'[z] = session[z]
  BY <1>1, <1>6, <1>7, SessionWritten DEF SessionInv
<1> DEFINE row == [turns[k] EXCEPT !.status = "committed", !.handoff = turner[o].handoff]
<1>9. row \in TurnRow /\ row.session = s /\ row.base = b
  BY <1>1 DEF TurnRow, TurnerRow
<1>10. turns' = [turns EXCEPT ![k] = row]
  BY <1>1 DEF WriteCommit, SessionInv, SessionTypes, TurnIds
<1> HIDE DEF row
<1>11. /\ turns' \in Seq(TurnRow) /\ Len(turns') = Len(turns) /\ turns'[k] = row
       /\ \A t \in TurnIds : t # k => turns'[t] = turns[t]
  BY <1>1, <1>9, <1>10, TurnWritten DEF SessionInv
<1>12. SessionTypes' /\ TurnIds' = TurnIds
  BY <1>5, <1>8, <1>11 DEF SessionTypes, TurnIds
<1>13. /\ \A t \in TurnIds : turns'[t].session = turns[t].session /\ turns'[t].base = turns[t].base
       /\ \A z \in Sessions : session'[z].fence = session[z].fence /\ session'[z].lease = session[z].lease
  BY <1>1, <1>7, <1>8, <1>9, <1>11
<1>14. Remembers'
  BY <1>1, <1>4, <1>5, <1>12, <1>13 DEF SessionInv, Remembers
<1>15. LeasesDiffer'
  BY <1>4, <1>5 DEF SessionInv, LeasesDiffer
<1>16. \A t \in TurnIds : turns[t].session \in Sessions /\ turns[t].base \in Nat
  BY RowTypes DEF SessionInv, TurnRow
<1>17. \A t \in TurnIds : t # k /\ turns[t].session = s /\ turns[t].status = "committed" => turns[t].base < b
  BY <1>2 DEF SessionInv, CommittedBelow
<1>18. CommittedBelow'
  <2>1. SUFFICES ASSUME NEW t \in TurnIds, turns'[t].status = "committed"
                 PROVE  turns'[t].base < session'[turns'[t].session].revision
    BY <1>12 DEF CommittedBelow
  <2>2. CASE t = k
    BY <1>1, <1>7, <1>13, <2>2
  <2>3. CASE t # k /\ turns[t].session = s
    BY <1>1, <1>7, <1>11, <1>13, <1>16, <1>17, <2>1, <2>3
  <2>4. CASE t # k /\ turns[t].session # s
    BY <1>8, <1>11, <1>16, <2>1, <2>4 DEF SessionInv, CommittedBelow
  <2> QED
    BY <2>2, <2>3, <2>4
<1>19. NoLostUpdate'
  <2>1. SUFFICES ASSUME NEW t \in TurnIds, NEW u \in TurnIds, t # u, turns[t].session = turns[u].session,
                        turns'[t].status = "committed", turns'[u].status = "committed"
                 PROVE  turns[t].base # turns[u].base
    BY <1>12, <1>13 DEF NoLostUpdate, CommittedTurns
  <2>2. CASE t # k /\ u # k
    BY <1>11, <1>16, <2>1, <2>2 DEF SessionInv, NoLostUpdate, CommittedTurns
  <2>3. CASE t = k \/ u = k
    BY <1>1, <1>11, <1>16, <1>17, <2>1, <2>3
  <2> QED
    BY <2>2, <2>3
<1>20. UncertainIsOver'
  BY <1>1, <1>4, <1>5, <1>7, <1>8 DEF SessionInv, Remembers, UncertainIsOver
<1> QED
  BY <1>2, <1>12, <1>14, <1>15, <1>18, <1>19, <1>20 DEF SessionInv

\* A failure written under the lease: the session becomes uncertain at most at the
\* owner's own last write.
LEMMA WriteFailureKeeps ==
  ASSUME SessionInv, NEW o \in Owners, turner[o].pc = "failing", FailAllowed(o), WriteFailure(o),
         TurnAt(o, "failed")
  PROVE  SessionInv' /\ session[turner[o].session].status # "uncertain"
<1> DEFINE s == turner[o].session
           k == turner[o].turn
           mark == IF turner[o].observable THEN "uncertain" ELSE "failed"
           status == IF turner[o].observable THEN "uncertain" ELSE session[s].status
<1>1. /\ turner[o] \in TurnerRow /\ s \in Sessions /\ k \in TurnIds
      /\ turns[k] \in TurnRow /\ session[s] \in SessionRow
  <2>1. turner[o] \in TurnerRow /\ s \in Sessions /\ k \in TurnIds
    BY RowTypes DEF SessionInv, Remembers, FailAllowed
  <2> QED
    BY <2>1, RowTypes DEF SessionInv
<1>2. session[s].lease = turner[o].fence /\ session[s].status # "uncertain"
  BY DEF FailAllowed, HoldsLease, SessionInv, UncertainIsOver
<1>3. /\ turner' = [turner EXCEPT ![o] = turner'[o]]
      /\ turner'[o] = [turner[o] EXCEPT !.pc = "failed"]
      /\ turner'[o] \in TurnerRow
  BY OwnerAt DEF SessionInv, TurnerPCs
<1>4. /\ turner'[o].pc = "failed" /\ turner'[o].session = s /\ turner'[o].fence = turner[o].fence
      /\ turner'[o].turn = k /\ turner'[o].base = turner[o].base
  BY <1>1, <1>3 DEF TurnerRow
<1>5. turner' \in [Owners -> TurnerRow] /\ \A q \in Owners : q # o => turner'[q] = turner[q]
  BY <1>3, OwnerMoved DEF SessionInv
<1>6. /\ session' = [session EXCEPT ![s] = session'[s]]
      /\ session'[s] = [session[s] EXCEPT !.status = status]
  BY <1>1 DEF WriteFailure, SessionInv, SessionTypes
<1>7. /\ status \in {"absent", "active", "uncertain", "archived"}
      /\ mark \in {"uncertain", "failed"}
  BY <1>1 DEF SessionRow
<1> HIDE DEF status
<1>8. /\ session'[s] \in SessionRow
      /\ session'[s].revision = session[s].revision /\ session'[s].fence = session[s].fence
      /\ session'[s].lease = session[s].lease
  BY <1>1, <1>6, <1>7 DEF SessionRow
<1>9. session' \in [Sessions -> SessionRow] /\ \A z \in Sessions : z # s => session'[z] = session[z]
  BY <1>1, <1>6, <1>8, SessionWritten DEF SessionInv
<1> DEFINE row == [turns[k] EXCEPT !.status = mark]
<1>10. turns' = [turns EXCEPT ![k] = row]
  BY <1>1 DEF WriteFailure, SessionInv, SessionTypes, TurnIds
<1> HIDE DEF mark
<1>11. row \in TurnRow /\ row.session = turns[k].session /\ row.base = turns[k].base /\ row.status = mark
  BY <1>1, <1>7 DEF TurnRow
<1> HIDE DEF row
<1>12. /\ turns' \in Seq(TurnRow) /\ Len(turns') = Len(turns) /\ turns'[k] = row
       /\ \A t \in TurnIds : t # k => turns'[t] = turns[t]
  BY <1>1, <1>10, <1>11, TurnWritten DEF SessionInv
<1>13. SessionTypes' /\ TurnIds' = TurnIds
  BY <1>5, <1>9, <1>12 DEF SessionTypes, TurnIds
<1>14. /\ \A t \in TurnIds : /\ turns'[t].session = turns[t].session /\ turns'[t].base = turns[t].base
                             /\ turns'[t].status = "committed" => turns[t].status = "committed"
       /\ \A z \in Sessions : /\ session'[z].fence = session[z].fence /\ session'[z].lease = session[z].lease
                              /\ session'[z].revision = session[z].revision
  BY <1>1, <1>7, <1>8, <1>9, <1>11, <1>12
<1>15. Remembers'
  BY <1>1, <1>4, <1>5, <1>13, <1>14 DEF SessionInv, Remembers
<1>16. LeasesDiffer'
  BY <1>4, <1>5 DEF SessionInv, LeasesDiffer
<1>17. CommittedBelow'
  <2>1. \A t \in TurnIds : turns[t].session \in Sessions
    BY RowTypes DEF SessionInv, TurnRow
  <2> QED
    BY <1>13, <1>14, <2>1 DEF SessionInv, CommittedBelow
<1>18. NoLostUpdate'
  BY <1>13, <1>14 DEF SessionInv, NoLostUpdate, CommittedTurns
<1>19. UncertainIsOver'
  <2>1. SUFFICES ASSUME NEW q \in Owners, q # o, turner[q].pc # "idle",
                        session'[turner[q].session].status = "uncertain",
                        session'[turner[q].session].lease = turner[q].fence
                 PROVE  turner[q].pc = "failed"
    BY <1>4, <1>5 DEF UncertainIsOver
  <2>2. turner[q].session \in Sessions
    BY <2>1 DEF SessionInv, Remembers
  <2>3. turner[q].session # s
    BY <1>2, <1>14, <2>1, <2>2 DEF SessionInv, LeasesDiffer
  <2> QED
    BY <1>9, <2>1, <2>2, <2>3 DEF SessionInv, UncertainIsOver
<1> QED
  BY <1>2, <1>13, <1>15, <1>16, <1>17, <1>18, <1>19 DEF SessionInv

\* Every step of an owner keeps the invariant.
LEMMA OwnerStepKeeps ==
  ASSUME SessionInv, NEW o \in Owners, OwnerStep(o)
  PROVE  SessionInv'
<1>1. CASE CommitTurn(o)
  <2>1. turner[o].pc = "running"
    BY <1>1 DEF CommitTurn
  <2>2. CASE CommitAllowed(o) /\ WriteCommit(o) /\ TurnAt(o, "committed")
    BY <2>1, <2>2, WriteCommitKeeps
  <2>3. CASE TurnAt(o, "failing") /\ UNCHANGED <<session, turns>>
    BY <2>1, <2>3, GivingUpKeeps
  <2> QED
    BY <1>1, <2>2, <2>3 DEF CommitTurn
<1>2. CASE CommitThenCancelled(o)
  BY <1>2, WriteCommitKeeps DEF CommitThenCancelled
<1>3. CASE TurnFails(o)
  BY <1>3, GivingUpKeeps DEF TurnFails
<1>4. CASE FinalizeFailedTurn(o)
  <2>1. turner[o].pc = "failing" /\ TurnAt(o, "failed")
    BY <1>4 DEF FinalizeFailedTurn
  <2>2. CASE FailAllowed(o) /\ WriteFailure(o)
    BY <2>1, <2>2, WriteFailureKeeps
  <2>3. CASE UNCHANGED <<session, turns>>
    BY <2>1, <2>3, GivingUpKeeps
  <2> QED
    BY <1>4, <2>2, <2>3 DEF FinalizeFailedTurn
<1> QED
  BY <1>1, <1>2, <1>3, <1>4, AcquireSessionKeeps, ReadSessionKeeps, BeginTurnKeeps, ObserveEventKeeps,
     ReleaseSessionKeeps, CrashOwnerKeeps DEF OwnerStep, Inbounds

\* Every step keeps the invariant.
LEMMA SessionInvStep == SessionInv /\ [SessionNext]_sessionVars => SessionInv'
<1> SUFFICES ASSUME SessionInv, [SessionNext]_sessionVars PROVE SessionInv'
  OBVIOUS
<1>1. CASE UNCHANGED sessionVars
  BY <1>1 DEF sessionVars, SessionInv, SessionTypes, Remembers, LeasesDiffer, CommittedBelow, UncertainIsOver,
              NoLostUpdate, CommittedTurns, TurnIds
<1>2. CASE SessionNext
  BY <1>2, SessionOnlyKeeps, RecoverLeaseKeeps, OwnerStepKeeps DEF SessionNext, LapseSession
<1> QED
  BY <1>1, <1>2

\* The invariant holds of empty tables.
LEMMA SessionInvInit == SessionInit => SessionInv
<1> SUFFICES ASSUME SessionInit PROVE SessionInv
  OBVIOUS
<1>1. SessionTypes
  <2>1. AbsentSession \in SessionRow /\ IdleTurner \in TurnerRow
    BY DEF AbsentSession, SessionRow, IdleTurner, TurnerRow, TurnerPCs, Inbounds
  <2> QED
    BY <2>1 DEF SessionInit, SessionTypes
<1>2. TurnIds = {} /\ \A o \in Owners : turner[o].pc = "idle"
  BY DEF SessionInit, TurnIds, IdleTurner
<1> QED
  BY <1>1, <1>2 DEF SessionInv, Remembers, LeasesDiffer, CommittedBelow, UncertainIsOver, NoLostUpdate,
                    CommittedTurns

\* The invariant holds in every state of every behaviour.
LEMMA SessionInvariance == SessionSpec => []SessionInv
  BY SessionInvInit, SessionInvStep, PTL DEF SessionSpec

-------------------------------------------------------------------------------
\* No committed turn of a session is lost: no two turns commit on top of the same
\* revision, however leases lapse, are recovered and are taken over while their old
\* owners go on (_commit and _required_lease of sessions/store.py).
THEOREM CommitsAreNotLost == SessionSpec => []NoLostUpdate
<1>1. SessionInv => NoLostUpdate
  BY DEF SessionInv
<1> QED
  BY <1>1, SessionInvariance, PTL

\* A session stays uncertain until it is archived: no commit or failure of an owner, old
\* or new, makes it active again (fail_turn, recover_expired_lease, _commit).
THEOREM UncertaintyStays == SessionSpec => UncertainUntilArchived
<1> DEFINE Kept == \A s \in Sessions : session[s].status = "uncertain" =>
                     session'[s].status \in {"uncertain", "archived"}
<1>1. ASSUME SessionInv, [SessionNext]_sessionVars PROVE [Kept]_session
  <2>1. CASE UNCHANGED session
    BY <2>1
  <2>2. ASSUME NEW s \in Sessions, CreateSession(s) \/ ArchiveSession(s) \/ LapseSession(s) \/ RecoverLease(s)
        PROVE  Kept
    <3>1. \A z \in Sessions : session[z] \in SessionRow
      BY <1>1, RowTypes DEF SessionInv
    <3>2. CASE CreateSession(s)
      BY <1>1, <3>2 DEF CreateSession, SessionInv, SessionTypes
    <3>3. CASE ArchiveSession(s)
      BY <1>1, <3>1, <3>3 DEF ArchiveSession, SessionInv, SessionTypes, SessionRow
    <3>4. CASE LapseSession(s)
      BY <1>1, <3>1, <3>4 DEF LapseSession, SessionInv, SessionTypes, SessionRow
    <3>5. CASE RecoverLease(s)
      BY <1>1, <3>1, <3>5 DEF RecoverLease, SessionInv, SessionTypes, SessionRow
    <3> QED
      BY <2>2, <3>2, <3>3, <3>4, <3>5
  <2>3. ASSUME NEW o \in Owners, OwnerStep(o), session' # session PROVE Kept
    <3>1. turner[o].pc # "idle" => turner[o].session \in Sessions
      BY <1>1 DEF SessionInv, Remembers
    <3>2. ASSUME NEW s \in Sessions, AcquireSession(o, s, NoMessage) PROVE Kept
      BY <1>1, <3>2 DEF AcquireSession, SessionInv, SessionTypes, SessionRow
    <3>3. ASSUME turner[o].pc = "running", CommitAllowed(o), WriteCommit(o),
                 NEW pc \in {"committed", "failing"}, TurnAt(o, pc)
          PROVE  Kept
      <4>1. session[turner[o].session].status # "uncertain"
        BY <1>1, <3>3, WriteCommitKeeps
      <4> QED
        BY <1>1, <3>1, <3>3, <4>1 DEF WriteCommit, SessionInv, SessionTypes
    <3>4. ASSUME turner[o].pc = "failing", FailAllowed(o), WriteFailure(o), TurnAt(o, "failed")
          PROVE  Kept
      <4>1. session[turner[o].session].status # "uncertain"
        BY <1>1, <3>4, WriteFailureKeeps
      <4> QED
        BY <1>1, <3>1, <3>4, <4>1 DEF WriteFailure, SessionInv, SessionTypes
    <3>5. ASSUME ReleaseSession(o) PROVE Kept
      BY <1>1, <3>1, <3>5 DEF ReleaseSession, ReleaseLease, SessionInv, SessionTypes, SessionRow
    <3> QED
      BY <2>3, <3>2, <3>3, <3>4, <3>5 DEF OwnerStep, ReadSession, BeginTurn, ObserveEvent, CommitTurn,
         CommitThenCancelled, TurnFails, FinalizeFailedTurn, CrashOwner
  <2> QED
    BY <1>1, <2>1, <2>2, <2>3 DEF SessionNext, sessionVars
<1> QED
  BY <1>1, SessionInvariance, PTL DEF SessionSpec, UncertainUntilArchived

-------------------------------------------------------------------------------
(* The gateway: the inductive invariant *)

WorkerPCs == {"idle", "resolve", "archive", "make", "open", "begin", "respond", "turn", "except",
              "reply", "finish", "settle", "cancel", "giveup"}

InboxRow == [status : {"absent", "pending", "claimed", "processed", "uncertain"}, fence : Nat,
             lapsed : BOOLEAN]

ConvRow == [status : {"absent", "active", "archived", "uncertain"}, revision : Nat,
            last : Messages \cup {None}, archivedFor : Messages \cup {None},
            createdFor : Messages \cup {None}]

ResultRow == [status : {"none", "running", "committed", "failed", "uncertain"},
              session : Sessions \cup {None}]

ReplyRow == [body : {"none", "ack", "answer", "error"}, delivered : BOOLEAN]

WorkerRow == [pc : WorkerPCs, m : Messages \cup {None}, fence : Nat, session : Sessions \cup {None},
              base : Nat, seen : {"absent", "active", "uncertain", "archived"},
              intent : {"committed", "failed"}, handling : BOOLEAN]

RecoveryRow == [pc : {"idle", "settle", "reclaim", "enqueue", "commit"}, m : Messages \cup {None},
                target : {"none", "pending", "processed", "uncertain"}]

GatewayTypes ==
  /\ inbox \in [Messages -> InboxRow]
  /\ conv \in [Sessions -> ConvRow]
  /\ result \in [Messages -> ResultRow]
  /\ reply \in [Messages -> ReplyRow]
  /\ worker \in WorkerRow
  /\ recovery \in RecoveryRow

Settled(m) == result[m].status \in {"committed", "failed"}

\* Where process() has a conversation, and where a result was begun.
Conversing == WorkerPCs \ {"idle", "resolve", "make", "giveup"}
Begun == {"respond", "turn", "except", "reply", "finish", "cancel", "settle"}

\* What the worker's place in process() says of its message.
Placed ==
  /\ worker.pc # "idle" => worker.m \in Messages
  /\ worker.pc \in Conversing => worker.session \in Sessions
  /\ worker.pc \in Begun => result[worker.m].status # "none"
  /\ worker.pc = "settle" => Settled(worker.m)

\* What recovery has read still holds when it writes.
Inspected ==
  /\ recovery.pc # "idle" => recovery.m \in Messages
  /\ recovery.pc \in {"enqueue", "commit"} => result[recovery.m].status # "none"
  /\ recovery.pc \in {"settle", "reclaim"} =>
       recovery.target # "none" /\ (recovery.target = "processed" => Settled(recovery.m))

ResultsHaveSession == \A m \in Messages : result[m].status # "none" => result[m].session \in Sessions

\* The last message of a conversation has been answered; where that is in doubt, so is the
\* conversation, and /new has not archived it.
LastAnswered ==
  \A s \in Sessions, m \in Messages : conv[s].last = m =>
    /\ Terminal(m)
    /\ result[m].status = "uncertain" => conv[s].status = "uncertain" /\ conv[s].archivedFor = None

NoTurn(m) == \A t \in TurnIds : turns[t].inbound # m

\* The turn in progress is the one of the worker's message, and the first of it.
TurnsFollow ==
  /\ turner[Worker].pc # "idle" => worker.pc = "turn" /\ turner[Worker].inbound = worker.m
  /\ turner[Worker].pc # "idle" /\ turner[Worker].turn # 0 =>
       turns[turner[Worker].turn].inbound = worker.m
  /\ turner[Worker].pc \in {"leased", "read"} \/ worker.pc = "respond" => NoTurn(worker.m)
  /\ \A m \in Messages : result[m].status = "none" => NoTurn(m)
  /\ \A t, u \in TurnIds : turns[t].inbound = turns[u].inbound /\ turns[t].inbound \in Messages => t = u

\* A message was answered otherwise only after its turn.
AnsweredAfterTurn ==
  \A m \in Messages : reply[m].body \notin {"none", "ack"} =>
    /\ result[m].status # "none"
    /\ worker.pc \in {"respond", "turn"} => worker.m # m

GatewayInv ==
  /\ SessionInv
  /\ GatewayTypes
  /\ Placed
  /\ Inspected
  /\ SettledAgrees
  /\ ResultsHaveSession
  /\ LastAnswered
  /\ ArchivedNeverActive
  /\ NeverRotatesItself
  /\ TurnsFollow
  /\ AnsweredAfterTurn
  /\ AcknowledgementKept

-------------------------------------------------------------------------------
(* How the worker, the results and the conversations change *)

\* The worker goes on with its message at pc, with the conversation of session s.
Goes(pc, s) == worker' \in WorkerRow /\ worker'.pc = pc /\ worker'.m = worker.m /\ worker'.session = s

LEMMA WorkerTypes ==
  /\ IdleWorker \in WorkerRow
  /\ IdleWorker.pc = "idle"
  /\ IdleRecovery \in RecoveryRow
  /\ IdleRecovery.pc = "idle"
  BY DEF IdleWorker, WorkerRow, WorkerPCs, IdleRecovery, RecoveryRow

LEMMA AtGoes ==
  ASSUME worker \in WorkerRow, NEW pc \in WorkerPCs, WorkerAt(pc)
  PROVE  Goes(pc, worker.session)
  BY DEF WorkerAt, WorkerRow, Goes

LEMMA RaiseGoes ==
  ASSUME worker \in WorkerRow, Raise
  PROVE  worker' = IdleWorker \/ Goes("except", worker.session)
  BY DEF Raise, WorkerRow, WorkerPCs, Goes

LEMMA ConversationGoes ==
  ASSUME worker \in WorkerRow, NEW s \in Sessions
  PROVE  /\ UseConversation(s) /\ conv \in [Sessions -> ConvRow] => Goes("begin", s)
         /\ ResumeFrom(s) /\ session \in [Sessions -> SessionRow] => Goes("archive", s)
         /\ worker' = [worker EXCEPT !.pc = "open", !.session = s] => Goes("open", s)
         /\ worker' = [worker EXCEPT !.pc = "begin", !.base = 0] => Goes("begin", worker.session)
<1>1. ASSUME UseConversation(s), conv \in [Sessions -> ConvRow] PROVE Goes("begin", s)
  <2>1. conv[s].revision \in Nat
    BY <1>1 DEF ConvRow
  <2> QED
    BY <1>1, <2>1 DEF UseConversation, WorkerRow, WorkerPCs, Goes
<1>2. ASSUME ResumeFrom(s), session \in [Sessions -> SessionRow] PROVE Goes("archive", s)
  <2>1. session[s].status \in {"absent", "active", "uncertain", "archived"}
    BY <1>2 DEF SessionRow
  <2> QED
    BY <1>2, <2>1 DEF ResumeFrom, WorkerRow, WorkerPCs, Goes
<1>3. ASSUME worker' = [worker EXCEPT !.pc = "open", !.session = s] PROVE Goes("open", s)
  BY <1>3 DEF WorkerRow, WorkerPCs, Goes
<1>4. ASSUME worker' = [worker EXCEPT !.pc = "begin", !.base = 0] PROVE Goes("begin", worker.session)
  <2>1. "begin" \in WorkerPCs /\ 0 \in Nat
    BY DEF WorkerPCs
  <2> QED
    BY <1>4, <2>1 DEF WorkerRow, Goes
<1> QED
  BY <1>1, <1>2, <1>3, <1>4

\* The steps of process() before the turn.
LEMMA OpeningGoes ==
  ASSUME GatewayInv,
         ResolveOrCreate \/ RotateActive \/ RotateInactive \/ ArchivePrior \/ MakeSession \/ OpenConversation
  PROVE  /\ worker.pc \in {"resolve", "archive", "make", "open"}
         /\ \E pc \in {"archive", "make", "open", "begin", "giveup"}, s \in Sessions \cup {None} :
              Goes(pc, s) /\ (pc \in {"archive", "open", "begin"} => s \in Sessions)
<1>1. /\ worker \in WorkerRow /\ conv \in [Sessions -> ConvRow] /\ session \in [Sessions -> SessionRow]
      /\ worker.session \in Sessions \cup {None} /\ worker.m \in Messages \cup {None}
  BY DEF GatewayInv, GatewayTypes, SessionInv, SessionTypes, WorkerRow
<1>2. {"archive", "make", "open", "begin", "giveup"} \subseteq WorkerPCs
  BY DEF WorkerPCs
<1>3. worker.pc \in {"resolve", "archive", "make", "open"}
  BY DEF ResolveOrCreate, RotateActive, RotateInactive, ArchivePrior, MakeSession, OpenConversation
<1> SUFFICES \E pc \in {"archive", "make", "open", "begin", "giveup"}, s \in Sessions \cup {None} :
               Goes(pc, s) /\ (pc \in {"archive", "open", "begin"} => s \in Sessions)
  BY <1>3
<1>4. worker.pc \in {"archive", "open"} => worker.session \in Sessions
  BY DEF GatewayInv, Placed, Conversing, WorkerPCs
<1>5. \A pc \in {"make", "giveup"} : WorkerAt(pc) => Goes(pc, worker.session)
  BY <1>1, <1>2, AtGoes
<1>6. CASE ResolveOrCreate \/ RotateActive \/ RotateInactive
  BY <1>1, <1>5, <1>6, ConversationGoes
     DEF ResolveOrCreate, RotateActive, RotateInactive, ActiveConversations, RotationSources
<1>7. CASE ArchivePrior
  BY <1>1, <1>5, <1>7 DEF ArchivePrior
<1>8. CASE MakeSession
  <2>1. worker.m \in Rotations => RotationSession[worker.m] \in Sessions
    BY GatewayAssumption
  <2>2. [worker EXCEPT !.pc = "giveup"] = worker' => WorkerAt("giveup")
    BY DEF WorkerAt
  <2> QED
    <3>1. \/ WorkerAt("giveup")
          \/ \E s \in Sessions : worker' = [worker EXCEPT !.pc = "open", !.session = s]
          \/ \E s \in Sessions : UseConversation(s)
      BY <1>8, <2>1, <2>2, GatewayAssumption DEF MakeSession, ActiveConversations
    <3> QED
      BY <1>1, <1>5, <3>1, ConversationGoes
<1>9. CASE OpenConversation
  <2>1. worker.session \in Sessions
    BY <1>4, <1>9 DEF OpenConversation
  <2>2. WorkerAt("giveup") \/ worker' = [worker EXCEPT !.pc = "begin", !.base = 0]
    BY <1>9 DEF OpenConversation
  <2> QED
    BY <1>1, <1>5, <2>1, <2>2, ConversationGoes
<1> QED
  BY <1>6, <1>7, <1>8, <1>9

\* Which steps write which table.
WorkerInboxStep == FinishInbox \/ FinishClaimUncertain \/ \E m \in Messages : SettleExisting(m) \/ ClaimInbox(m)
MailStep == \E m \in Messages : Ingest(m) \/ LapseClaim(m) \/ DismissInbox(m)
OpeningStep == ResolveOrCreate \/ RotateActive \/ RotateInactive \/ ArchivePrior \/ MakeSession \/ OpenConversation
TurnSteps == RespondWithoutTurn \/ StartTurn \/ TurnStep \/ EndTurn \/ HandleException \/ CancelWorker
ResultStep == BeginResult \/ FinishResult \/ SettleUncertain
OutboxStep == EnqueueResponse \/ \E m \in Messages : Deliver(m) \/ ReleaseHeld(m)
InspectStep == EnqueueAcknowledgement \/ \E m \in Messages : InspectClaim(m) \/ InspectHandoff(m)
RepairStep == RecoverInbox \/ ReconcileResult \/ \E m \in Messages : RecoverRunningResult(m)
LeaseStep ==
  \E s \in Sessions :
    \/ RecoverSession(s)
    \/ LapseSession(s) /\ UNCHANGED <<gatewayTables, worker, recovery, dismissed, crashes>>

LEMMA StepKinds ==
  ASSUME GatewayNext
  PROVE  \/ WorkerInboxStep \/ MailStep \/ OpeningStep \/ TurnSteps \/ ResultStep \/ OutboxStep
         \/ InspectStep \/ RepairStep \/ LeaseStep \/ CrashGateway
  BY DEF GatewayNext, WorkerStep, ReconcileStep, WorkerInboxStep, MailStep, OpeningStep, TurnSteps,
     ResultStep, OutboxStep, InspectStep, RepairStep, LeaseStep

LEMMA Untouched ==
  /\ WorkerInboxStep => UNCHANGED <<conv, result, reply, recovery, dismissed, sessionVars>>
  /\ MailStep => UNCHANGED <<conv, result, reply, worker, recovery, sessionVars>>
  /\ OpeningStep => UNCHANGED <<inbox, result, reply, recovery, dismissed, turns, turner>>
  /\ TurnSteps => UNCHANGED <<inbox, conv, result, reply, recovery, dismissed>>
  /\ ResultStep => UNCHANGED <<inbox, reply, recovery, dismissed, sessionVars>>
  /\ OutboxStep => UNCHANGED <<inbox, conv, result, recovery, dismissed, sessionVars>>
  /\ InspectStep => UNCHANGED <<inbox, conv, result, worker, dismissed, sessionVars>>
  /\ RepairStep => UNCHANGED <<reply, worker, dismissed, sessionVars>>
  /\ LeaseStep => UNCHANGED <<inbox, conv, result, reply, worker, recovery, dismissed, turner>>
  /\ CrashGateway => UNCHANGED <<inbox, conv, result, reply, recovery, dismissed, session, turns>>
<1>1. WorkerInboxStep => UNCHANGED <<conv, result, reply, recovery, dismissed, sessionVars>>
  BY DEF WorkerInboxStep, FinishInbox, FinishClaimUncertain, SettleExisting, ClaimInbox
<1>2. MailStep => UNCHANGED <<conv, result, reply, worker, recovery, sessionVars>>
  BY DEF MailStep, Ingest, LapseClaim, DismissInbox
<1>3. OpeningStep => UNCHANGED <<inbox, result, reply, recovery, dismissed, turns, turner>>
  BY DEF OpeningStep, ResolveOrCreate, RotateActive, RotateInactive, ArchivePrior, MakeSession,
     OpenConversation, gatewayTables, sessionVars
<1>4. TurnSteps => UNCHANGED <<inbox, conv, result, reply, recovery, dismissed>>
  BY DEF TurnSteps, RespondWithoutTurn, StartTurn, TurnStep, EndTurn, HandleException, CancelWorker,
     gatewayTables
<1>5. ResultStep => UNCHANGED <<inbox, reply, recovery, dismissed, sessionVars>>
  BY DEF ResultStep, BeginResult, FinishResult, SettleUncertain
<1>6. OutboxStep => UNCHANGED <<inbox, conv, result, recovery, dismissed, sessionVars>>
  BY DEF OutboxStep, EnqueueResponse, Deliver, ReleaseHeld
<1>7. InspectStep => UNCHANGED <<inbox, conv, result, worker, dismissed, sessionVars>>
  BY DEF InspectStep, EnqueueAcknowledgement, InspectClaim, InspectHandoff, gatewayTables
<1>8. RepairStep => UNCHANGED <<reply, worker, dismissed, sessionVars>>
  BY DEF RepairStep, RecoverInbox, ReconcileResult, RecoverRunningResult
<1>9. LeaseStep => UNCHANGED <<inbox, conv, result, reply, worker, recovery, dismissed, turner>>
  BY DEF LeaseStep, RecoverSession, RecoverLease, LapseSession, gatewayTables
<1>10. CrashGateway => UNCHANGED <<inbox, conv, result, reply, recovery, dismissed, session, turns>>
  BY DEF CrashGateway, gatewayTables
<1> QED
  BY <1>1, <1>2, <1>3, <1>4, <1>5, <1>6, <1>7, <1>8, <1>9, <1>10

\* One result's status is written.
LEMMA StatusWritten ==
  ASSUME GatewayTypes, NEW m \in Messages,
         NEW status \in {"none", "running", "committed", "failed", "uncertain"},
         result' = [result EXCEPT ![m].status = status]
  PROVE  /\ result' \in [Messages -> ResultRow]
         /\ result'[m].status = status /\ result'[m].session = result[m].session
         /\ \A n \in Messages : n # m => result'[n] = result[n]
<1>1. result \in [Messages -> ResultRow] /\ result[m] \in ResultRow
  BY DEF GatewayTypes
<1>2. result'[m] = [result[m] EXCEPT !.status = status] /\ \A n \in Messages : n # m => result'[n] = result[n]
  BY <1>1
<1>3. result'[m] = [status |-> status, session |-> result[m].session]
  BY <1>1, <1>2 DEF ResultRow
<1>4. result'[m] \in ResultRow
  BY <1>1, <1>3 DEF ResultRow
<1>5. result' \in [Messages -> ResultRow]
  BY <1>1, <1>2, <1>4
<1> QED
  BY <1>2, <1>3, <1>5

\* One conversation's row is written.
LEMMA ConvWritten ==
  ASSUME GatewayTypes, NEW s \in Sessions, NEW row \in ConvRow, conv' = [conv EXCEPT ![s] = row]
  PROVE  /\ conv' \in [Sessions -> ConvRow]
         /\ conv'[s] = row
         /\ \A z \in Sessions : z # s => conv'[z] = conv[z]
  BY DEF GatewayTypes

\* Results are begun, and settled for good.
Grows ==
  \A m \in Messages :
    /\ result[m].status # "none" => result'[m].status # "none" /\ result'[m].session = result[m].session
    /\ Settled(m) => Settled(m)'

LEMMA ResultsGrow ==
  ASSUME GatewayInv, GatewayNext
  PROVE  result' \in [Messages -> ResultRow] /\ Grows /\ ResultsHaveSession'
<1>1. GatewayTypes /\ Placed /\ ResultsHaveSession /\ Inspected
  BY DEF GatewayInv
<1>2. CASE UNCHANGED result
  BY <1>1, <1>2 DEF GatewayTypes, Grows, Settled, ResultsHaveSession
<1>3. ASSUME NEW m \in Messages, NEW status \in {"committed", "failed", "uncertain"},
             result' = [result EXCEPT ![m].status = status], result[m].status # "none",
             Settled(m) => status = "committed"
      PROVE  result' \in [Messages -> ResultRow] /\ Grows /\ ResultsHaveSession'
  BY <1>1, <1>3, StatusWritten DEF Grows, Settled, ResultsHaveSession
<1>4. CASE BeginResult
  <2>1. SUFFICES ASSUME result[worker.m].status = "none",
                        result' = [result EXCEPT ![worker.m] = [status |-> "running", session |-> worker.session]]
                 PROVE  result' \in [Messages -> ResultRow] /\ Grows /\ ResultsHaveSession'
    BY <1>2, <1>4 DEF BeginResult
  <2>2. worker.m \in Messages /\ worker.session \in Sessions
    BY <1>1, <1>4 DEF BeginResult, Placed, Conversing, WorkerPCs
  <2>3. [status |-> "running", session |-> worker.session] \in ResultRow
    BY <2>2 DEF ResultRow
  <2> QED
    BY <1>1, <2>1, <2>2, <2>3 DEF GatewayTypes, Grows, Settled, ResultsHaveSession
<1>5. CASE FinishResult \/ SettleUncertain
  <2>1. worker.m \in Messages /\ worker.intent \in {"committed", "failed"}
    BY <1>1, <1>5 DEF FinishResult, SettleUncertain, Placed, GatewayTypes, WorkerRow
  <2> QED
    BY <1>2, <1>3, <1>5, <2>1 DEF FinishResult, SettleUncertain, WriteResult, FinishAllowed, Settled
<1>6. ASSUME NEW m \in Messages, RecoverRunningResult(m)
      PROVE  result' \in [Messages -> ResultRow] /\ Grows /\ ResultsHaveSession'
  BY <1>3, <1>6 DEF RecoverRunningResult, Settled
<1>7. CASE ReconcileResult
  <2>1. recovery.m \in Messages /\ result[recovery.m].status # "none"
    BY <1>1, <1>7 DEF ReconcileResult, Inspected
  <2> QED
    BY <1>2, <1>3, <1>7, <2>1 DEF ReconcileResult
<1>8. CASE RecoverInbox
  BY <1>2, <1>8 DEF RecoverInbox
<1> QED
  BY <1>2, <1>4, <1>5, <1>6, <1>7, <1>8, StepKinds, Untouched DEF ResultStep, RepairStep

-------------------------------------------------------------------------------
(* Where the worker and recovery are *)

LEMMA PlacedIdle == ASSUME worker' = IdleWorker PROVE worker' \in WorkerRow /\ Placed'
  BY WorkerTypes DEF Placed, Conversing, Begun

LEMMA PlacedGoes ==
  ASSUME GatewayInv, Grows, worker.pc # "idle", NEW pc, NEW s, Goes(pc, s),
         pc \in Conversing => s \in Sessions,
         pc \in Begun => worker.pc \in Begun \/ result'[worker.m].status # "none",
         pc = "settle" => Settled(worker.m)'
  PROVE  worker' \in WorkerRow /\ Placed'
<1>1. worker.m \in Messages /\ (worker.pc \in Begun => result'[worker.m].status # "none")
  BY DEF GatewayInv, Placed, Grows
<1> QED
  BY <1>1 DEF Goes, Placed, Settled

LEMMA WorkerKeeps ==
  ASSUME GatewayInv, GatewayNext
  PROVE  worker' \in WorkerRow /\ Placed'
<1>1. Grows /\ GatewayTypes /\ Placed /\ worker \in WorkerRow
  BY ResultsGrow DEF GatewayInv, GatewayTypes
<1>2. CASE UNCHANGED worker
  <2>1. CASE worker.pc = "idle"
    BY <1>1, <1>2, <2>1 DEF Placed, Conversing, Begun
  <2>2. CASE worker.pc # "idle"
    BY <1>1, <1>2, <2>2 DEF Placed, Grows, Settled
  <2> QED
    BY <2>1, <2>2
<1>3. \A pc \in WorkerPCs : WorkerAt(pc) => Goes(pc, worker.session)
  BY <1>1, AtGoes
<1>4. ASSUME NEW pc \in WorkerPCs, WorkerAt(pc), worker.pc # "idle",
             pc \in Conversing => worker.pc \in Conversing,
             pc \in Begun => worker.pc \in Begun \/ result'[worker.m].status # "none",
             pc = "settle" => Settled(worker.m)'
      PROVE  worker' \in WorkerRow /\ Placed'
  <2>1. Goes(pc, worker.session) /\ (pc \in Conversing => worker.session \in Sessions)
    BY <1>1, <1>3, <1>4 DEF Placed
  <2> QED
    BY <1>1, <1>4, <2>1, PlacedGoes
<1>5. ASSUME Raise, worker.pc \in Conversing,
             worker.pc \in Begun \/ result'[worker.m].status # "none"
      PROVE  worker' \in WorkerRow /\ Placed'
  <2>1. worker.session \in Sessions /\ worker.pc # "idle"
    BY <1>1, <1>5 DEF Placed, Conversing
  <2>2. CASE Goes("except", worker.session)
    BY <1>1, <1>5, <2>1, <2>2, PlacedGoes
  <2> QED
    BY <1>1, <1>5, <2>2, RaiseGoes, PlacedIdle
<1>6. CASE WorkerInboxStep
  <2>1. CASE FinishInbox
    BY <1>5, <2>1, PlacedIdle DEF FinishInbox, Conversing, Begun, WorkerPCs
  <2>2. CASE FinishClaimUncertain
    BY <2>2, PlacedIdle DEF FinishClaimUncertain
  <2>3. ASSUME NEW m \in Messages, ClaimInbox(m) PROVE worker' \in WorkerRow /\ Placed'
    <3>1. worker' = [IdleWorker EXCEPT !.pc = "resolve", !.m = m, !.fence = inbox[m].fence + 1]
      BY <2>3 DEF ClaimInbox
    <3>2. inbox[m].fence + 1 \in Nat /\ "resolve" \in WorkerPCs
      BY <1>1 DEF GatewayTypes, InboxRow, WorkerPCs
    <3>3. worker' \in WorkerRow /\ worker'.pc = "resolve" /\ worker'.m = m
      BY <3>1, <3>2, WorkerTypes DEF WorkerRow
    <3> QED
      BY <3>3 DEF Placed, Conversing, Begun
  <2>4. ASSUME NEW m \in Messages, SettleExisting(m) PROVE worker' \in WorkerRow /\ Placed'
    BY <1>2, <2>4 DEF SettleExisting
  <2> QED
    BY <1>6, <2>1, <2>2, <2>3, <2>4 DEF WorkerInboxStep
<1>7. CASE OpeningStep
  <2>1. worker.pc # "idle"
    BY <1>7, OpeningGoes DEF OpeningStep
  <2>2. PICK pc \in {"archive", "make", "open", "begin", "giveup"}, s \in Sessions \cup {None} :
          Goes(pc, s) /\ (pc \in {"archive", "open", "begin"} => s \in Sessions)
    BY <1>7, OpeningGoes DEF OpeningStep
  <2>3. pc \notin Begun /\ (pc \in Conversing => s \in Sessions) /\ pc # "settle"
    BY <2>2 DEF Begun, Conversing
  <2> QED
    BY <1>1, <2>1, <2>2, <2>3, PlacedGoes
<1>8. CASE TurnSteps
  <2>1. ASSUME NEW pc, NEW intent \in {"committed", "failed"}, worker.pc \in {"respond", "except"},
               worker' = [worker EXCEPT !.pc = "reply", !.intent = intent]
        PROVE  worker' \in WorkerRow /\ Placed'
    <3>1. Goes("reply", worker.session)
      BY <1>1, <2>1 DEF WorkerRow, WorkerPCs, Goes
    <3>2. worker.session \in Sessions
      BY <1>1, <2>1 DEF Placed, Conversing, WorkerPCs
    <3> QED
      BY <1>1, <2>1, <3>1, <3>2, PlacedGoes DEF Begun
  <2>2. CASE RespondWithoutTurn
    BY <2>1, <2>2 DEF RespondWithoutTurn
  <2>3. CASE StartTurn
    BY <1>4, <1>5, <2>3 DEF StartTurn, Conversing, Begun, WorkerPCs
  <2>4. CASE TurnStep
    BY <1>2, <2>4 DEF TurnStep
  <2>5. CASE EndTurn
    BY <1>4, <1>5, <2>5 DEF EndTurn, Conversing, Begun, WorkerPCs
  <2>6. CASE HandleException
    BY <1>4, <2>1, <2>6 DEF HandleException, Conversing, Begun, WorkerPCs
  <2>7. CASE CancelWorker
    BY <1>4, <2>7 DEF CancelWorker, Conversing, Begun, WorkerPCs
  <2> QED
    BY <1>8, <2>2, <2>3, <2>4, <2>5, <2>6, <2>7 DEF TurnSteps
<1>9. CASE ResultStep
  <2>1. CASE BeginResult
    <3>1. worker.m \in Messages
      BY <1>1, <2>1 DEF BeginResult, Placed
    <3>2. result'[worker.m].status # "none" /\ worker.pc = "begin" /\ (Raise \/ WorkerAt("respond"))
      BY <1>1, <2>1, <3>1 DEF BeginResult, GatewayTypes
    <3> QED
      BY <1>4, <1>5, <3>2 DEF Conversing, Begun, WorkerPCs
  <2>2. CASE FinishResult
    <3>1. CASE FinishAllowed /\ WriteResult(worker.intent) /\ WorkerAt("settle")
      <4>1. worker.m \in Messages /\ worker.intent \in {"committed", "failed"}
        BY <1>1, <2>2 DEF FinishResult, Placed, WorkerRow
      <4>2. Settled(worker.m)'
        <5>1. result'[worker.m].status = worker.intent
          BY <1>1, <3>1, <4>1, StatusWritten DEF WriteResult
        <5>2. worker'.m = worker.m
          BY <1>3, <3>1 DEF WorkerPCs, Goes
        <5> QED
          BY <4>1, <5>1, <5>2 DEF Settled
      <4>3. result'[worker'.m].status \in {"committed", "failed"} /\ worker'.m = worker.m
        BY <1>3, <3>1, <4>2 DEF Settled, WorkerPCs, Goes
      <4> QED
        BY <1>4, <2>2, <3>1, <4>3 DEF FinishResult, Conversing, Begun, WorkerPCs, Settled
    <3> QED
      BY <1>5, <2>2, <3>1 DEF FinishResult, Conversing, Begun, WorkerPCs
  <2>3. CASE SettleUncertain
    BY <1>4, <2>3 DEF SettleUncertain, Conversing, Begun, WorkerPCs
  <2> QED
    BY <1>9, <2>1, <2>2, <2>3 DEF ResultStep
<1>10. CASE OutboxStep
  <2>1. CASE EnqueueResponse
    BY <1>4, <1>5, <2>1 DEF EnqueueResponse, Conversing, Begun, WorkerPCs
  <2> QED
    BY <1>2, <1>10, <2>1 DEF OutboxStep, Deliver, ReleaseHeld
<1>11. CASE CrashGateway
  BY <1>11, PlacedIdle DEF CrashGateway
<1> QED
  BY <1>2, <1>6, <1>7, <1>8, <1>9, <1>10, <1>11, StepKinds, Untouched

\* Recovery writes what it read, and results are not unsettled in between.
LEMMA RecoveryKeeps ==
  ASSUME GatewayInv, GatewayNext
  PROVE  recovery' \in RecoveryRow /\ Inspected'
<1>1. Grows /\ GatewayTypes /\ Inspected /\ recovery \in RecoveryRow
  BY ResultsGrow DEF GatewayInv, GatewayTypes
<1>2. CASE UNCHANGED recovery
  <2>1. CASE recovery.pc = "idle"
    BY <1>1, <1>2, <2>1 DEF Inspected
  <2>2. CASE recovery.pc # "idle"
    BY <1>1, <1>2, <2>2 DEF Inspected, Grows, Settled
  <2> QED
    BY <2>1, <2>2
<1>3. CASE recovery' = IdleRecovery
  BY <1>3, WorkerTypes DEF Inspected
<1>4. ASSUME NEW m \in Messages, InspectClaim(m) PROVE recovery' \in RecoveryRow /\ Inspected'
  <2>1. /\ recovery' = [pc |-> IF Terminal(m) THEN "settle" ELSE "reclaim", m |-> m, target |-> RecoveryTarget(m)]
        /\ UNCHANGED result
    BY <1>4 DEF InspectClaim, gatewayTables
  <2>2. /\ RecoveryTarget(m) \in {"pending", "processed", "uncertain"}
        /\ RecoveryTarget(m) = "processed" => Settled(m)
    BY DEF RecoveryTarget, Settled
  <2> QED
    BY <2>1, <2>2 DEF RecoveryRow, Inspected, Settled
<1>5. ASSUME NEW m \in Messages, InspectHandoff(m) PROVE recovery' \in RecoveryRow /\ Inspected'
  <2>1. recovery' = [pc |-> "enqueue", m |-> m, target |-> "none"]
    BY <1>5 DEF InspectHandoff, IdleRecovery
  <2>2. UNCHANGED result /\ result[m].status # "none"
    BY <1>5 DEF InspectHandoff, gatewayTables
  <2> QED
    BY <2>1, <2>2 DEF RecoveryRow, Inspected
<1>6. CASE EnqueueAcknowledgement
  <2>1. /\ recovery' = [pc |-> "commit", m |-> recovery.m, target |-> recovery.target]
        /\ UNCHANGED result /\ recovery.pc = "enqueue"
    BY <1>1, <1>6 DEF EnqueueAcknowledgement, RecoveryRow
  <2> QED
    BY <1>1, <2>1 DEF RecoveryRow, Inspected
<1>7. CASE ReconcileResult
  <2>1. recovery.m \in Messages /\ recovery.pc = "commit"
    BY <1>1, <1>7 DEF ReconcileResult, Inspected
  <2>2. \/ recovery' = IdleRecovery
        \/ /\ recovery' = [pc |-> "settle", m |-> recovery.m, target |-> "processed"]
           /\ result' = [result EXCEPT ![recovery.m].status = "committed"]
    BY <1>7 DEF ReconcileResult
  <2>3. CASE recovery' = [pc |-> "settle", m |-> recovery.m, target |-> "processed"]
             /\ result' = [result EXCEPT ![recovery.m].status = "committed"]
    <3>1. result'[recovery.m].status = "committed"
      BY <1>1, <2>1, <2>3, StatusWritten
    <3> QED
      BY <2>1, <2>3, <3>1 DEF RecoveryRow, Inspected, Settled
  <2> QED
    BY <1>3, <2>2, <2>3
<1>8. CASE RecoverInbox
  BY <1>3, <1>8 DEF RecoverInbox
<1>9. ASSUME NEW m \in Messages, RecoverRunningResult(m) PROVE recovery' \in RecoveryRow /\ Inspected'
  BY <1>2, <1>9 DEF RecoverRunningResult
<1> QED
  BY <1>2, <1>4, <1>5, <1>6, <1>7, <1>8, <1>9, StepKinds, Untouched DEF InspectStep, RepairStep

\* The inbox: a message is processed under a settled result, or by an operator.
LEMMA InboxKeeps ==
  ASSUME GatewayInv, GatewayNext
  PROVE  inbox' \in [Messages -> InboxRow] /\ SettledAgrees'
<1>1. Grows /\ GatewayTypes /\ Placed /\ Inspected /\ SettledAgrees /\ inbox \in [Messages -> InboxRow]
  BY ResultsGrow DEF GatewayInv, GatewayTypes
<1>2. CASE UNCHANGED <<inbox, dismissed>>
  BY <1>1, <1>2 DEF SettledAgrees, Grows, Settled
<1>3. ASSUME NEW m \in Messages, NEW row \in InboxRow, inbox' = [inbox EXCEPT ![m] = row],
             dismissed \subseteq dismissed',
             row.status = "processed" => Settled(m) \/ m \in dismissed'
      PROVE  inbox' \in [Messages -> InboxRow] /\ SettledAgrees'
  <2>1. inbox'[m] = row /\ \A n \in Messages : n # m => inbox'[n] = inbox[n]
    BY <1>1, <1>3
  <2> QED
    BY <1>1, <1>3, <2>1 DEF SettledAgrees, Grows, Settled
<1>4. ASSUME NEW m \in Messages, NEW status \in {"pending", "processed", "uncertain"}, SetInbox(m, status),
             dismissed \subseteq dismissed',
             status = "processed" => Settled(m) \/ m \in dismissed'
      PROVE  inbox' \in [Messages -> InboxRow] /\ SettledAgrees'
  <2> DEFINE row == [inbox[m] EXCEPT !.status = status, !.lapsed = FALSE]
  <2>1. inbox' = [inbox EXCEPT ![m] = row]
    BY <1>1, <1>4 DEF SetInbox
  <2>2. inbox[m] \in InboxRow
    BY <1>1
  <2>3. row \in InboxRow /\ row.status = status
    BY <2>2 DEF InboxRow
  <2> HIDE DEF row
  <2> QED
    BY <1>3, <1>4, <2>1, <2>3
<1>5. CASE WorkerInboxStep
  <2>1. dismissed' = dismissed /\ UNCHANGED result
    BY <1>5, Untouched
  <2>2. CASE FinishInbox \/ FinishClaimUncertain
    <3>1. worker.m \in Messages /\ (worker.pc = "settle" => Settled(worker.m))
      BY <1>1, <2>2 DEF FinishInbox, FinishClaimUncertain, Placed
    <3> QED
      BY <1>2, <1>4, <2>1, <2>2, <3>1 DEF FinishInbox, FinishClaimUncertain
  <2>3. ASSUME NEW m \in Messages, ClaimInbox(m) PROVE inbox' \in [Messages -> InboxRow] /\ SettledAgrees'
    <3> DEFINE row == [status |-> "claimed", fence |-> inbox[m].fence + 1, lapsed |-> FALSE]
    <3>1. inbox' = [inbox EXCEPT ![m] = row] /\ row.status = "claimed"
      BY <1>1, <2>3 DEF ClaimInbox
    <3>2. row \in InboxRow
      BY <1>1 DEF InboxRow
    <3> HIDE DEF row
    <3> QED
      BY <1>3, <2>1, <3>1, <3>2
  <2>4. ASSUME NEW m \in Messages, SettleExisting(m) PROVE inbox' \in [Messages -> InboxRow] /\ SettledAgrees'
    <3>1. SettledAs(m) \in {"processed", "uncertain"} /\ (SettledAs(m) = "processed" => Settled(m))
      BY <2>4 DEF SettleExisting, SettledAs, Terminal, Settled
    <3> QED
      BY <1>4, <2>1, <2>4, <3>1 DEF SettleExisting
  <2> QED
    BY <1>5, <2>2, <2>3, <2>4 DEF WorkerInboxStep
<1>6. CASE MailStep
  <2>1. ASSUME NEW m \in Messages, Ingest(m) PROVE inbox' \in [Messages -> InboxRow] /\ SettledAgrees'
    BY <1>4, <2>1, Untouched DEF Ingest
  <2>2. ASSUME NEW m \in Messages, DismissInbox(m) PROVE inbox' \in [Messages -> InboxRow] /\ SettledAgrees'
    <3>1. SetInbox(m, "processed") /\ dismissed' = dismissed \cup {m}
      BY <2>2 DEF DismissInbox
    <3> QED
      BY <1>4, <3>1
  <2>3. ASSUME NEW m \in Messages, LapseClaim(m) PROVE inbox' \in [Messages -> InboxRow] /\ SettledAgrees'
    <3> DEFINE row == [inbox[m] EXCEPT !.lapsed = TRUE]
    <3>1. inbox' = [inbox EXCEPT ![m] = row] /\ inbox[m] \in InboxRow /\ dismissed' = dismissed
          /\ inbox[m].status = "claimed"
      BY <1>1, <2>3 DEF LapseClaim, LiveClaim
    <3>2. row \in InboxRow /\ row.status = "claimed"
      BY <3>1 DEF InboxRow
    <3> HIDE DEF row
    <3> QED
      BY <1>3, <3>1, <3>2
  <2> QED
    BY <1>6, <2>1, <2>2, <2>3 DEF MailStep
<1>7. CASE RepairStep
  <2>1. CASE RecoverInbox
    <3>1. /\ recovery.m \in Messages /\ dismissed' = dismissed
          /\ recovery.target = "processed" => Settled(recovery.m)
      BY <1>1, <2>1 DEF RecoverInbox, Inspected
    <3>2. recovery.target \in {"pending", "processed", "uncertain"}
      BY <1>1, <2>1 DEF RecoverInbox, Inspected, GatewayTypes, RecoveryRow
    <3> QED
      BY <1>2, <1>4, <2>1, <3>1, <3>2 DEF RecoverInbox
  <2> QED
    BY <1>2, <1>7, <2>1 DEF RepairStep, ReconcileResult, RecoverRunningResult
<1> QED
  BY <1>2, <1>5, <1>6, <1>7, StepKinds, Untouched

-------------------------------------------------------------------------------
(* The conversations *)

ConvInv == LastAnswered /\ ArchivedNeverActive /\ NeverRotatesItself

ConvGood(s) ==
  /\ \A m \in Messages : conv[s].last = m =>
       /\ Terminal(m)
       /\ result[m].status = "uncertain" => conv[s].status = "uncertain" /\ conv[s].archivedFor = None
  /\ conv[s].archivedFor # None => conv[s].status # "active"
  /\ conv[s].createdFor # None => conv[s].archivedFor # conv[s].createdFor

LEMMA ConvEach == ConvInv <=> \A s \in Sessions : ConvGood(s)
  BY DEF ConvInv, ConvGood, LastAnswered, ArchivedNeverActive, NeverRotatesItself

\* One conversation is written, and the results of the others' last messages stay.
LEMMA OneConvKeeps ==
  ASSUME GatewayInv, NEW s \in Sessions, NEW row \in ConvRow, conv' = [conv EXCEPT ![s] = row],
         ConvGood(s)',
         \A z \in Sessions, m \in Messages :
           z # s /\ conv[z].last = m => result'[m].status = result[m].status \/ result'[m].status = "committed"
  PROVE  conv' \in [Sessions -> ConvRow] /\ ConvInv'
<1>1. \A z \in Sessions : ConvGood(z)
  BY ConvEach DEF GatewayInv, ConvInv
<1>2. conv' \in [Sessions -> ConvRow] /\ \A z \in Sessions : z # s => conv'[z] = conv[z]
  BY ConvWritten DEF GatewayInv
<1>3. \A z \in Sessions : ConvGood(z)'
  BY <1>1, <1>2 DEF ConvGood, Terminal
<1>4. ConvInv'
  BY <1>3 DEF ConvInv, ConvGood, LastAnswered, ArchivedNeverActive, NeverRotatesItself
<1> QED
  BY <1>2, <1>4

\* No conversation is at a message that has not been answered.
LEMMA LastIsTerminal ==
  ASSUME GatewayInv, NEW m \in Messages, result[m].status \in {"none", "running"}
  PROVE  \A s \in Sessions : conv[s].last # m
  BY DEF GatewayInv, LastAnswered, Terminal

\* /new, and a new conversation.
LEMMA OpeningConv ==
  ASSUME GatewayInv, RotateActive \/ OpenConversation, conv' # conv
  PROVE  conv' \in [Sessions -> ConvRow] /\ ConvInv'
<1>1. result' = result /\ conv \in [Sessions -> ConvRow]
  BY DEF RotateActive, OpenConversation, GatewayInv, GatewayTypes
<1>2. worker.m \in Messages /\ None \notin Messages
  BY GatewayAssumption DEF RotateActive, OpenConversation, GatewayInv, Placed, None
<1>3. CASE RotateActive
  <2>1. PICK s \in Sessions : /\ conv[s].status = "active" /\ conv[s].createdFor # worker.m
                              /\ conv' = [conv EXCEPT ![s].status = "archived", ![s].revision = @ + 1,
                                                      ![s].archivedFor = worker.m]
    BY <1>3 DEF RotateActive, ActiveConversations
  <2> DEFINE row == [conv[s] EXCEPT !.status = "archived", !.revision = conv[s].revision + 1,
                                    !.archivedFor = worker.m]
  <2>2. conv[s] \in ConvRow /\ conv[s].revision + 1 \in Nat
    BY <1>1 DEF ConvRow
  <2>3. conv' = [conv EXCEPT ![s] = row]
    BY <1>1, <2>1
  <2>4. /\ row \in ConvRow /\ row.last = conv[s].last /\ row.status = "archived"
        /\ row.archivedFor = worker.m /\ row.createdFor = conv[s].createdFor
    BY <1>2, <2>2 DEF ConvRow
  <2> HIDE DEF row
  <2>5. conv'[s] = row
    BY <1>1, <2>3
  <2>6. ConvGood(s)
    BY ConvEach DEF GatewayInv, ConvInv
  <2>7. ConvGood(s)'
    BY <1>1, <1>2, <2>1, <2>4, <2>5, <2>6 DEF ConvGood, Terminal
  <2> QED
    BY <1>1, <2>3, <2>4, <2>7, OneConvKeeps
<1>4. CASE OpenConversation
  <2> DEFINE created == IF worker.m \in Rotations THEN worker.m ELSE None
             row == [status |-> "active", revision |-> 0, last |-> None, archivedFor |-> None,
                     createdFor |-> created]
  <2>1. worker.session \in Sessions
    BY <1>4 DEF OpenConversation, GatewayInv, Placed, Conversing, WorkerPCs
  <2>2. conv' = [conv EXCEPT ![worker.session] = row]
    BY <1>4 DEF OpenConversation
  <2>3. created \in Messages \cup {None}
    BY <1>2
  <2> HIDE DEF created
  <2>4. /\ row \in ConvRow /\ row.last = None /\ row.archivedFor = None /\ row.createdFor = created
    BY <2>3 DEF ConvRow
  <2> HIDE DEF row
  <2>5. PICK s \in Sessions : s = worker.session
    BY <2>1
  <2>6. conv'[s] = row /\ conv' = [conv EXCEPT ![s] = row]
    BY <1>1, <2>2, <2>5
  <2>7. ConvGood(s)'
    BY <1>2, <2>4, <2>6 DEF ConvGood
  <2> QED
    BY <1>1, <2>4, <2>6, <2>7, OneConvKeeps
<1> QED
  BY <1>3, <1>4

\* finish_result: the conversation takes the outcome of the message it is at.
LEMMA WriteConv ==
  ASSUME GatewayInv, NEW status \in {"committed", "failed", "uncertain"}, FinishAllowed, WriteResult(status),
         worker.m \in Messages, worker.session \in Sessions
  PROVE  conv' \in [Sessions -> ConvRow] /\ ConvInv'
<1>1. PICK s \in Sessions, m \in Messages : s = worker.session /\ m = worker.m
  OBVIOUS
<1> DEFINE mark == IF status = "uncertain" THEN status ELSE conv[s].status
           row == [conv[s] EXCEPT !.status = mark, !.revision = conv[s].revision + 1, !.last = m]
<1>2. conv \in [Sessions -> ConvRow] /\ conv[s] \in ConvRow /\ conv[s].revision + 1 \in Nat
  <2>1. conv \in [Sessions -> ConvRow]
    BY DEF GatewayInv, GatewayTypes
  <2> QED
    BY <2>1 DEF ConvRow
<1>3. conv[s].status = "active" /\ result[m].status = "running"
  BY <1>1 DEF FinishAllowed
<1>4. conv' = [conv EXCEPT ![s] = row]
  BY <1>1, <1>2 DEF WriteResult
<1>5. /\ result'[m].status = status
      /\ \A n \in Messages : n # m => result'[n] = result[n]
  BY <1>1, StatusWritten DEF WriteResult, GatewayInv
<1>6. mark \in {"active", "uncertain"} /\ (status = "uncertain" => mark = "uncertain")
  BY <1>3
<1> HIDE DEF mark
<1>7. /\ row \in ConvRow /\ row.status = mark /\ row.last = m
      /\ row.archivedFor = conv[s].archivedFor /\ row.createdFor = conv[s].createdFor
  BY <1>2, <1>6 DEF ConvRow
<1> HIDE DEF row
<1>8. conv'[s] = row
  BY <1>2, <1>4
<1>9. ConvGood(s)
  BY ConvEach DEF GatewayInv, ConvInv
<1>10. ConvGood(s)'
  BY <1>3, <1>5, <1>6, <1>7, <1>8, <1>9 DEF ConvGood, Terminal
<1>11. \A z \in Sessions : conv[z].last # m
  BY <1>3, LastIsTerminal
<1> QED
  BY <1>4, <1>5, <1>7, <1>10, <1>11, OneConvKeeps

\* recover_running_result: the conversation of a result in doubt is in doubt.
LEMMA DoubtConv ==
  ASSUME GatewayInv, NEW m \in Messages, RecoverRunningResult(m)
  PROVE  conv' \in [Sessions -> ConvRow] /\ ConvInv'
<1>1. PICK s \in Sessions : s = result[m].session
  BY DEF RecoverRunningResult, GatewayInv, ResultsHaveSession
<1> DEFINE row == [conv[s] EXCEPT !.status = "uncertain", !.revision = conv[s].revision + 1]
<1>2. conv \in [Sessions -> ConvRow] /\ conv[s] \in ConvRow /\ conv[s].revision + 1 \in Nat
  <2>1. conv \in [Sessions -> ConvRow]
    BY DEF GatewayInv, GatewayTypes
  <2> QED
    BY <2>1 DEF ConvRow
<1>3. conv' = [conv EXCEPT ![s] = row] /\ result[m].status = "running"
  BY <1>1, <1>2 DEF RecoverRunningResult
<1>4. /\ result'[m].status = "uncertain"
      /\ \A n \in Messages : n # m => result'[n] = result[n]
  BY StatusWritten DEF RecoverRunningResult, GatewayInv
<1>5. /\ row \in ConvRow /\ row.status = "uncertain" /\ row.last = conv[s].last
      /\ row.archivedFor = conv[s].archivedFor /\ row.createdFor = conv[s].createdFor
  BY <1>2 DEF ConvRow
<1> HIDE DEF row
<1>6. conv'[s] = row
  BY <1>2, <1>3
<1>7. ConvGood(s)
  BY ConvEach DEF GatewayInv, ConvInv
<1>8. \A z \in Sessions : conv[z].last # m
  BY <1>3, LastIsTerminal
<1>9. ConvGood(s)'
  BY <1>4, <1>5, <1>6, <1>7, <1>8 DEF ConvGood, Terminal
<1> QED
  BY <1>3, <1>4, <1>5, <1>8, <1>9, OneConvKeeps

\* reconcile_committed_result: only the conversation that is still at the message resumes.
LEMMA ReconcileConv ==
  ASSUME GatewayInv, ReconcileResult
  PROVE  conv' \in [Sessions -> ConvRow] /\ ConvInv'
<1>1. PICK m \in Messages : m = recovery.m
  BY DEF ReconcileResult, GatewayInv, Inspected
<1>2. PICK s \in Sessions : s = result[m].session
  BY <1>1 DEF ReconcileResult, GatewayInv, Inspected, ResultsHaveSession
<1>3. conv \in [Sessions -> ConvRow] /\ conv[s] \in ConvRow /\ conv[s].revision + 1 \in Nat
  <2>1. conv \in [Sessions -> ConvRow]
    BY DEF GatewayInv, GatewayTypes
  <2> QED
    BY <2>1 DEF ConvRow
<1>4. \A z \in Sessions : ConvGood(z)
  BY ConvEach DEF GatewayInv, ConvInv
<1>5. ASSUME conv' = conv, \A n \in Messages : result'[n].status = result[n].status \/ result'[n].status = "committed"
      PROVE  conv' \in [Sessions -> ConvRow] /\ ConvInv'
  <2>1. \A z \in Sessions : ConvGood(z)'
    BY <1>4, <1>5 DEF ConvGood, Terminal
  <2>2. ConvInv'
    BY <2>1 DEF ConvInv, ConvGood, LastAnswered, ArchivedNeverActive, NeverRotatesItself
  <2> QED
    BY <1>3, <1>5, <2>2
<1>6. CASE result' = [result EXCEPT ![m].status = "committed"]
  <2>1. result'[m].status = "committed" /\ \A n \in Messages : n # m => result'[n] = result[n]
    BY <1>6, StatusWritten DEF GatewayInv
  <2>2. CASE conv' = conv
    BY <1>5, <2>1, <2>2
  <2>3. CASE /\ result[m].status \in {"running", "uncertain"} /\ Reactivates(m)
             /\ conv' = [conv EXCEPT ![s].status = "active", ![s].revision = @ + 1, ![s].last = m]
    <3> DEFINE row == [conv[s] EXCEPT !.status = "active", !.revision = conv[s].revision + 1, !.last = m]
    <3>1. conv' = [conv EXCEPT ![s] = row]
      BY <1>3, <2>3
    <3>2. /\ row \in ConvRow /\ row.status = "active" /\ row.last = m
          /\ row.archivedFor = conv[s].archivedFor /\ row.createdFor = conv[s].createdFor
      BY <1>3 DEF ConvRow
    <3> HIDE DEF row
    <3>3. conv'[s] = row
      BY <1>3, <3>1
    <3>4. conv[s].archivedFor = None
      BY <1>2, <1>4, <2>3 DEF Reactivates, ConvGood, Terminal
    <3>5. ConvGood(s)'
      BY <1>4, <2>1, <3>2, <3>3, <3>4 DEF ConvGood, Terminal
    <3> QED
      BY <2>1, <3>1, <3>2, <3>5, OneConvKeeps
  <2> QED
    BY <1>1, <1>2, <1>6, <2>2, <2>3 DEF ReconcileResult
<1>7. CASE UNCHANGED <<result, conv>>
  BY <1>5, <1>7
<1> QED
  BY <1>1, <1>6, <1>7 DEF ReconcileResult

LEMMA ConvKeeps ==
  ASSUME GatewayInv, GatewayNext
  PROVE  conv' \in [Sessions -> ConvRow] /\ ConvInv'
<1>1. /\ conv \in [Sessions -> ConvRow] /\ result \in [Messages -> ResultRow] /\ ConvInv
      /\ worker.intent \in {"committed", "failed"}
  BY DEF GatewayInv, GatewayTypes, ConvInv, WorkerRow
<1>2. CASE UNCHANGED <<conv, result>>
  BY <1>1, <1>2 DEF ConvInv, LastAnswered, ArchivedNeverActive, NeverRotatesItself, Terminal
<1>3. CASE OpeningStep
  BY <1>2, <1>3, OpeningConv DEF OpeningStep, ResolveOrCreate, RotateActive, RotateInactive, ArchivePrior,
     MakeSession, OpenConversation, gatewayTables
<1>4. CASE BeginResult
  <2>1. SUFFICES ASSUME result[worker.m].status = "none",
                        result' = [result EXCEPT ![worker.m] = [status |-> "running", session |-> worker.session]]
                 PROVE  conv' \in [Sessions -> ConvRow] /\ ConvInv'
    BY <1>2, <1>4 DEF BeginResult
  <2>2. PICK m \in Messages : m = worker.m
    BY <1>4 DEF BeginResult, GatewayInv, Placed
  <2>3. conv' = conv /\ \A n \in Messages : n # m => result'[n] = result[n]
    BY <1>1, <1>4, <2>1, <2>2 DEF BeginResult
  <2>4. \A z \in Sessions : conv[z].last # m
    BY <2>1, <2>2, LastIsTerminal
  <2> QED
    BY <1>1, <2>3, <2>4 DEF ConvInv, LastAnswered, ArchivedNeverActive, NeverRotatesItself, Terminal
<1>5. CASE FinishResult \/ SettleUncertain
  <2>1. worker.m \in Messages /\ worker.session \in Sessions
    BY <1>5 DEF FinishResult, SettleUncertain, GatewayInv, Placed, Conversing, WorkerPCs
  <2> QED
    BY <1>1, <1>2, <1>5, <2>1, WriteConv DEF FinishResult, SettleUncertain
<1>6. CASE RecoverInbox
  BY <1>2, <1>6 DEF RecoverInbox
<1> QED
  BY <1>2, <1>3, <1>4, <1>5, <1>6, StepKinds, Untouched, DoubtConv, ReconcileConv DEF ResultStep, RepairStep

-------------------------------------------------------------------------------
(* The turns *)

Handed(t) == turns[t].status = "committed" /\ turns[t].handoff

\* No turn is begun, and only the turn in progress may come to hand work off.
Stand(o) ==
  /\ TurnIds' = TurnIds
  /\ \A t \in TurnIds :
       /\ turns'[t].inbound = turns[t].inbound
       /\ Handed(t)' => Handed(t) \/ (t = turner[o].turn /\ turner[o].pc = "running")

\* An owner's step in the turn it has begun or is about to begin.
GoesOnTurn(o) ==
  /\ turner[o].pc # "idle" /\ turner'[o].pc # "idle"
  /\ turner'[o].inbound = turner[o].inbound
  /\ turner'[o].turn = turner[o].turn
  /\ turner'[o].pc \in {"leased", "read"} => turner[o].pc \in {"leased", "read"}

LEMMA SameTurns == ASSUME NEW o, UNCHANGED turns PROVE Stand(o)
  BY DEF Stand, TurnIds, Handed

LEMMA OneTurnStands ==
  ASSUME SessionTypes, NEW o, NEW k \in TurnIds, NEW row \in TurnRow, turns' = [turns EXCEPT ![k] = row],
         row.inbound = turns[k].inbound,
         row.status = "committed" /\ row.handoff => Handed(k) \/ (k = turner[o].turn /\ turner[o].pc = "running")
  PROVE  Stand(o)
<1>1. /\ Len(turns') = Len(turns) /\ turns'[k] = row
      /\ \A t \in TurnIds : t # k => turns'[t] = turns[t]
  BY TurnWritten
<1> QED
  BY <1>1 DEF Stand, TurnIds, Handed

LEMMA AtGoesOn ==
  ASSUME SessionTypes, NEW o \in Owners, turner[o].pc # "idle",
         NEW pc \in {"failing", "failed", "committed"}, TurnAt(o, pc)
  PROVE  GoesOnTurn(o)
<1>1. turner'[o] = [turner[o] EXCEPT !.pc = pc] /\ turner[o] \in TurnerRow
  BY OwnerAt, RowTypes DEF TurnerPCs
<1> QED
  BY <1>1 DEF GoesOnTurn, TurnerRow

LEMMA OwnerTurns ==
  ASSUME SessionInv, NEW o \in Owners,
         \/ ReadSession(o) \/ CommitTurn(o) \/ CommitThenCancelled(o) \/ TurnFails(o) \/ FinalizeFailedTurn(o)
         \/ \E handoff \in BOOLEAN : ObserveEvent(o, handoff)
  PROVE  Stand(o) /\ GoesOnTurn(o)
<1>1. SessionTypes /\ turner \in [Owners -> TurnerRow] /\ turner[o] \in TurnerRow
  BY RowTypes DEF SessionInv, SessionTypes
<1>2. turner[o].pc # "idle"
  BY DEF ReadSession, CommitTurn, CommitThenCancelled, TurnFails, FinalizeFailedTurn, ObserveEvent
<1>3. ASSUME NEW k \in TurnIds PROVE turns[k] \in TurnRow
  BY <1>1, RowTypes
<1>4. ASSUME turner[o].pc = "running", WriteCommit(o) PROVE Stand(o)
  <2>1. PICK k \in TurnIds : k = turner[o].turn
    BY <1>4 DEF SessionInv, Remembers
  <2> DEFINE row == [turns[k] EXCEPT !.status = "committed", !.handoff = turner[o].handoff]
  <2>2. row \in TurnRow /\ row.inbound = turns[k].inbound
    BY <1>1, <1>3 DEF TurnRow, TurnerRow
  <2>3. turns' = [turns EXCEPT ![k] = row]
    BY <1>1, <1>4, <2>1 DEF WriteCommit, SessionTypes, TurnIds
  <2> HIDE DEF row
  <2> QED
    BY <1>1, <1>4, <2>1, <2>2, <2>3, OneTurnStands
<1>5. ASSUME turner[o].turn # 0, WriteFailure(o) PROVE Stand(o)
  <2>1. PICK k \in TurnIds : k = turner[o].turn
    BY <1>2, <1>5 DEF SessionInv, Remembers
  <2> DEFINE mark == IF turner[o].observable THEN "uncertain" ELSE "failed"
             row == [turns[k] EXCEPT !.status = mark]
  <2>2. mark \in {"uncertain", "failed"}
    OBVIOUS
  <2>3. turns' = [turns EXCEPT ![k] = row]
    BY <1>1, <1>5, <2>1 DEF WriteFailure, SessionTypes, TurnIds
  <2> HIDE DEF mark
  <2>4. row \in TurnRow /\ row.inbound = turns[k].inbound /\ row.status # "committed"
    BY <1>3, <2>2 DEF TurnRow
  <2> HIDE DEF row
  <2> QED
    BY <1>1, <2>3, <2>4, OneTurnStands
<1>6. CASE ReadSession(o)
  <2>1. turner'[o] = [turner[o] EXCEPT !.pc = "read", !.base = session[turner[o].session].revision]
    BY <1>1, <1>6 DEF ReadSession
  <2>2. GoesOnTurn(o)
    BY <1>1, <1>6, <2>1 DEF GoesOnTurn, ReadSession, TurnerRow
  <2> QED
    BY <1>6, <2>2, SameTurns DEF ReadSession
<1>7. CASE CommitTurn(o)
  BY <1>1, <1>2, <1>4, <1>7, SameTurns, AtGoesOn DEF CommitTurn
<1>8. CASE CommitThenCancelled(o)
  BY <1>1, <1>2, <1>4, <1>8, AtGoesOn DEF CommitThenCancelled
<1>9. CASE TurnFails(o)
  BY <1>1, <1>2, <1>9, SameTurns, AtGoesOn DEF TurnFails
<1>10. CASE FinalizeFailedTurn(o)
  BY <1>1, <1>2, <1>5, <1>10, SameTurns, AtGoesOn DEF FinalizeFailedTurn, FailAllowed
<1>11. ASSUME NEW handoff \in BOOLEAN, ObserveEvent(o, handoff) PROVE Stand(o) /\ GoesOnTurn(o)
  <2>1. PICK k \in TurnIds : k = turner[o].turn
    BY <1>11 DEF ObserveEvent, SessionInv, Remembers
  <2> DEFINE row == [turns[k] EXCEPT !.observable = TRUE]
  <2>2. /\ row \in TurnRow /\ row.inbound = turns[k].inbound
        /\ row.status = turns[k].status /\ row.handoff = turns[k].handoff
    BY <1>3 DEF TurnRow
  <2>3. turns' = [turns EXCEPT ![k] = row]
    BY <1>11, <2>1 DEF ObserveEvent
  <2> HIDE DEF row
  <2>4. Stand(o)
    BY <1>1, <2>2, <2>3, OneTurnStands DEF Handed
  <2>5. turner'[o] = [turner[o] EXCEPT !.observable = TRUE, !.handoff = turner[o].handoff \/ handoff]
    BY <1>1, <1>11 DEF ObserveEvent
  <2>6. GoesOnTurn(o)
    BY <1>1, <1>2, <2>5 DEF GoesOnTurn, TurnerRow
  <2> QED
    BY <2>4, <2>6
<1> QED
  BY <1>6, <1>7, <1>8, <1>9, <1>10, <1>11

\* A turn begins at the end of the table, for the message the owner has.
LEMMA TurnBegins ==
  ASSUME SessionInv, NEW o \in Owners, BeginTurn(o)
  PROVE  /\ turner[o].pc = "read"
         /\ \/ Stand(o) /\ GoesOnTurn(o)
            \/ \E k \in Nat \ {0} :
                 /\ TurnIds' = TurnIds \cup {k} /\ k \notin TurnIds
                 /\ \A t \in TurnIds : turns'[t] = turns[t]
                 /\ turns'[k].inbound = turner[o].inbound /\ turns'[k].status = "running"
                 /\ turner'[o].pc = "running" /\ turner'[o].turn = k
                 /\ turner'[o].inbound = turner[o].inbound
<1>1. /\ SessionTypes /\ turner \in [Owners -> TurnerRow] /\ turner[o] \in TurnerRow
      /\ turner[o].session \in Sessions /\ turner[o].pc = "read"
  BY RowTypes DEF SessionInv, SessionTypes, BeginTurn, Remembers
<1>2. CASE TurnAt(o, "failing") /\ UNCHANGED turns
  BY <1>1, <1>2, AtGoesOn, SameTurns
<1> DEFINE row == [session |-> turner[o].session, inbound |-> turner[o].inbound, base |-> turner[o].base,
                   status |-> "running", handoff |-> FALSE, observable |-> FALSE]
<1>3. CASE /\ turns' = Append(turns, row)
           /\ turner' = [turner EXCEPT ![o].pc = "running", ![o].turn = Len(turns) + 1]
  <2>1. row \in TurnRow /\ row.inbound = turner[o].inbound /\ row.status = "running"
    BY <1>1 DEF TurnRow, TurnerRow
  <2>2. turns \in Seq(TurnRow) /\ Len(turns) \in Nat
    BY <1>1 DEF SessionTypes
  <2> HIDE DEF row
  <2>3. PICK k \in Nat \ {0} : k = Len(turns) + 1
    BY <2>2
  <2>4. /\ Len(turns') = k /\ turns'[k] = row
        /\ \A t \in 1..Len(turns) : turns'[t] = turns[t]
    BY <1>3, <2>1, <2>2, <2>3, AppendProperties
  <2>5. TurnIds' = TurnIds \cup {k} /\ k \notin TurnIds /\ \A t \in TurnIds : turns'[t] = turns[t]
    BY <2>2, <2>3, <2>4 DEF TurnIds
  <2>6. turner'[o] = [turner[o] EXCEPT !.pc = "running", !.turn = k]
    BY <1>1, <1>3, <2>3
  <2>7. turner'[o].pc = "running" /\ turner'[o].turn = k /\ turner'[o].inbound = turner[o].inbound
    BY <1>1, <2>6 DEF TurnerRow
  <2> QED
    BY <1>1, <2>1, <2>4, <2>5, <2>7
<1> QED
  BY <1>1, <1>2, <1>3 DEF BeginTurn

\* Recovery of a lease begins and commits nothing.
LEMMA RecoveredStand ==
  ASSUME SessionInv, NEW s \in Sessions, NEW o, RecoverLease(s)
  PROVE  Stand(o)
<1> DEFINE marked(t) == IF t \in RunningTurns(s) THEN [turns[t] EXCEPT !.status = "uncertain"] ELSE turns[t]
<1>1. turns' = [t \in 1..Len(turns) |-> marked(t)] /\ Len(turns) \in Nat
  <2>1. turns' = [t \in 1..Len(turns) |-> marked(t)]
    BY DEF RecoverLease, TurnIds
  <2>2. Len(turns) \in Nat
    BY DEF SessionInv, SessionTypes
  <2> QED
    BY <2>1, <2>2
<1>2. \A t \in TurnIds :
        /\ marked(t).inbound = turns[t].inbound
        /\ marked(t).status = "committed" => marked(t) = turns[t]
  BY RowTypes DEF SessionInv, TurnRow
<1> HIDE DEF marked
<1>3. Len(turns') = Len(turns) /\ \A t \in TurnIds : turns'[t] = marked(t)
  BY <1>1 DEF TurnIds
<1> QED
  BY <1>2, <1>3 DEF Stand, Handed, TurnIds

\* The gateway uses the session store as one of its owners.
LEMMA SessionKeeps ==
  ASSUME GatewayInv, GatewayNext
  PROVE  SessionInv'
<1>1. SessionInv /\ Worker \in Owners
  BY GatewayAssumption DEF GatewayInv
<1>2. CASE UNCHANGED sessionVars
  BY <1>1, <1>2, SessionInvStep
<1>3. CASE OpeningStep
  <2>1. UNCHANGED <<turns, turner>>
    BY <1>3, Untouched
  <2>2. session' = session \/ \E s \in Sessions : CreateSession(s) \/ ArchiveSession(s)
    <3>1. CASE ArchivePrior
      <4>1. worker.session \in Sessions
        BY <3>1 DEF ArchivePrior, GatewayInv, Placed, Conversing, WorkerPCs
      <4> QED
        BY <3>1, <4>1 DEF ArchivePrior
    <3>2. CASE MakeSession
      <4>1. worker.m \in Rotations => RotationSession[worker.m] \in Sessions
        BY GatewayAssumption
      <4> QED
        BY <3>2, <4>1, GatewayAssumption DEF MakeSession
    <3> QED
      BY <1>3, <3>1, <3>2
         DEF OpeningStep, ResolveOrCreate, RotateActive, RotateInactive, OpenConversation, sessionVars
  <2> QED
    BY <1>1, <1>2, <2>1, <2>2, SessionOnlyKeeps DEF sessionVars
<1>4. CASE TurnSteps
  <2>1. CASE StartTurn
    <3>1. worker.session \in Sessions /\ worker.m \in Inbounds
      BY <2>1 DEF StartTurn, GatewayInv, Placed, Conversing, WorkerPCs, Inbounds
    <3> QED
      BY <1>1, <1>2, <2>1, <3>1, AcquireSessionKeeps DEF StartTurn
  <2>2. CASE TurnStep
    <3>1. OwnerStep(Worker)
      BY <2>2 DEF TurnStep, OwnerStep
    <3> QED
      BY <1>1, <3>1, OwnerStepKeeps
  <2>3. CASE EndTurn
    BY <1>1, <2>3, ReleaseSessionKeeps DEF EndTurn
  <2> QED
    BY <1>2, <1>4, <2>1, <2>2, <2>3 DEF TurnSteps, RespondWithoutTurn, HandleException, CancelWorker
<1>5. CASE LeaseStep
  BY <1>1, <1>5, SessionOnlyKeeps, RecoverLeaseKeeps DEF LeaseStep, RecoverSession, LapseSession
<1>6. CASE CrashGateway
  <2>1. UNCHANGED <<session, turns>> /\ turner' = [turner EXCEPT ![Worker] = IdleTurner]
    BY <1>6 DEF CrashGateway
  <2>2. QuietTurners /\ turner' \in [Owners -> TurnerRow]
    BY <1>1, <2>1, IdleOwner DEF SessionInv
  <2> QED
    BY <1>1, <2>1, <2>2, QuietStep, QuietTables DEF SessionInv, SessionTypes
<1> QED
  BY <1>2, <1>3, <1>4, <1>5, <1>6, StepKinds, Untouched

\* A message comes to its turn once: when its result is begun.
ComesToTurn ==
  worker'.pc \in {"respond", "turn"} =>
    /\ worker'.m = worker.m
    /\ \/ worker.pc \in {"respond", "turn"} /\ (worker'.pc = "respond" => worker.pc = "respond")
       \/ worker'.pc = "respond" /\ worker.m \in Messages /\ result[worker.m].status = "none"

LEMMA WorkerTurns == ASSUME GatewayInv, GatewayNext PROVE ComesToTurn
<1>1. GatewayTypes /\ Placed /\ worker \in WorkerRow
  BY DEF GatewayInv, GatewayTypes
<1>2. CASE worker' = worker \/ worker' = IdleWorker
  BY <1>2, WorkerTypes DEF ComesToTurn
<1>3. ASSUME NEW pc \in WorkerPCs \ {"respond", "turn"}, NEW s, Goes(pc, s) PROVE ComesToTurn
  BY <1>3 DEF Goes, ComesToTurn
<1>4. ASSUME Raise PROVE ComesToTurn
  BY <1>1, <1>2, <1>3, <1>4, RaiseGoes DEF WorkerPCs
<1>5. ASSUME NEW pc \in WorkerPCs \ {"respond", "turn"}, WorkerAt(pc) PROVE ComesToTurn
  BY <1>1, <1>3, <1>5, AtGoes
<1>6. CASE WorkerInboxStep
  <2>1. ASSUME NEW m \in Messages, ClaimInbox(m) PROVE ComesToTurn
    <3>1. worker'.pc = "resolve"
      BY <2>1, WorkerTypes DEF ClaimInbox, IdleWorker
    <3> QED
      BY <3>1 DEF ComesToTurn
  <2> QED
    BY <1>2, <1>4, <1>6, <2>1 DEF WorkerInboxStep, FinishInbox, FinishClaimUncertain, SettleExisting
<1>7. CASE OpeningStep
  <2>1. PICK pc \in {"archive", "make", "open", "begin", "giveup"}, s \in Sessions \cup {None} : Goes(pc, s)
    BY <1>7, OpeningGoes DEF OpeningStep
  <2> QED
    BY <1>3, <2>1 DEF WorkerPCs
<1>8. CASE TurnSteps
  <2>1. ASSUME NEW intent, worker' = [worker EXCEPT !.pc = "reply", !.intent = intent]
        PROVE  ComesToTurn
    <3>1. worker'.pc = "reply"
      BY <1>1, <2>1 DEF WorkerRow
    <3> QED
      BY <3>1 DEF ComesToTurn
  <2>2. CASE StartTurn /\ WorkerAt("turn")
    <3>1. worker.pc = "respond" /\ Goes("turn", worker.session)
      BY <1>1, <2>2, AtGoes DEF StartTurn, WorkerPCs
    <3> QED
      BY <3>1 DEF Goes, ComesToTurn
  <2> QED
    BY <1>2, <1>4, <1>5, <1>8, <2>1, <2>2
       DEF TurnSteps, RespondWithoutTurn, StartTurn, TurnStep, EndTurn, HandleException, CancelWorker, WorkerPCs
<1>9. CASE ResultStep
  <2>1. CASE BeginResult /\ WorkerAt("respond") /\ result[worker.m].status = "none"
    <3>1. Goes("respond", worker.session) /\ worker.m \in Messages
      BY <1>1, <2>1, AtGoes DEF BeginResult, Placed, WorkerPCs
    <3> QED
      BY <2>1, <3>1 DEF Goes, ComesToTurn
  <2> QED
    BY <1>4, <1>5, <1>9, <2>1 DEF ResultStep, BeginResult, FinishResult, SettleUncertain, WorkerPCs
<1>10. CASE OutboxStep
  BY <1>2, <1>4, <1>5, <1>10 DEF OutboxStep, EnqueueResponse, Deliver, ReleaseHeld, WorkerPCs
<1>11. CASE CrashGateway
  BY <1>2, <1>11 DEF CrashGateway
<1> QED
  BY <1>2, <1>6, <1>7, <1>8, <1>9, <1>10, <1>11, StepKinds, Untouched

\* Steps outside the turn.
LEMMA TurnsAside ==
  ASSUME GatewayInv, Grows, ComesToTurn, Stand(Worker), turner'[Worker] = turner[Worker],
         turner[Worker].pc # "idle" => worker' = worker
  PROVE  TurnsFollow'
<1>1. TurnsFollow /\ TurnIds' = TurnIds /\ \A t \in TurnIds : turns'[t].inbound = turns[t].inbound
  BY DEF GatewayInv, Stand
<1>2. turner[Worker].pc # "idle" /\ turner[Worker].turn # 0 => turner[Worker].turn \in TurnIds
  BY GatewayAssumption DEF GatewayInv, SessionInv, Remembers
<1>3. \A m \in Messages : result'[m].status = "none" => result[m].status = "none"
  BY DEF Grows
<1>4. worker'.pc = "respond" => NoTurn(worker'.m)
  BY <1>1 DEF ComesToTurn, TurnsFollow
<1>5. \A m : NoTurn(m) => \A t \in TurnIds' : turns'[t].inbound # m
  BY <1>1 DEF NoTurn
<1>6. /\ turner'[Worker].pc # "idle" => worker'.pc = "turn" /\ turner'[Worker].inbound = worker'.m
      /\ turner'[Worker].pc # "idle" /\ turner'[Worker].turn # 0 =>
           turns'[turner'[Worker].turn].inbound = worker'.m
  BY <1>1, <1>2 DEF TurnsFollow
<1>7. turner'[Worker].pc \in {"leased", "read"} \/ worker'.pc = "respond" =>
        \A t \in TurnIds' : turns'[t].inbound # worker'.m
  BY <1>1, <1>4, <1>5 DEF TurnsFollow
<1>8. \A m \in Messages : result'[m].status = "none" => \A t \in TurnIds' : turns'[t].inbound # m
  BY <1>1, <1>3, <1>5 DEF TurnsFollow
<1>9. \A t, u \in TurnIds' : turns'[t].inbound = turns'[u].inbound /\ turns'[t].inbound \in Messages => t = u
  BY <1>1 DEF TurnsFollow
<1> QED
  BY <1>6, <1>7, <1>8, <1>9 DEF TurnsFollow, NoTurn

\* The turn is over, or its process.
LEMMA TurnsOver ==
  ASSUME GatewayInv, Grows, UNCHANGED turns, turner'[Worker].pc = "idle", worker'.pc # "respond"
  PROVE  TurnsFollow'
<1>1. \A m \in Messages : result'[m].status = "none" => result[m].status = "none"
  BY DEF Grows
<1> QED
  BY <1>1 DEF GatewayInv, TurnsFollow, NoTurn, TurnIds

LEMMA TurnsKeep ==
  ASSUME GatewayInv, GatewayNext
  PROVE  TurnsFollow'
<1>1. /\ Grows /\ ComesToTurn /\ SessionInv /\ TurnsFollow /\ Placed /\ GatewayTypes /\ Worker \in Owners
      /\ turner \in [Owners -> TurnerRow] /\ worker \in WorkerRow
  BY ResultsGrow, WorkerTurns, GatewayAssumption DEF GatewayInv, SessionInv, SessionTypes, GatewayTypes
<1>2. CASE UNCHANGED <<turns, turner>> /\ (turner[Worker].pc # "idle" => worker' = worker)
  BY <1>1, <1>2, SameTurns, TurnsAside
<1>3. turner[Worker].pc # "idle" => worker.pc = "turn"
  BY <1>1 DEF TurnsFollow
<1>4. CASE worker.pc # "turn" /\ UNCHANGED <<turns, turner>>
  BY <1>2, <1>3, <1>4
<1>5. CASE UNCHANGED worker /\ UNCHANGED <<turns, turner>>
  BY <1>2, <1>5
<1>6. CASE WorkerInboxStep \/ OpeningStep \/ ResultStep
  <2>1. UNCHANGED <<turns, turner>>
    BY <1>6, Untouched DEF sessionVars
  <2>2. worker.pc # "turn"
    BY <1>6 DEF WorkerInboxStep, FinishInbox, FinishClaimUncertain, SettleExisting, ClaimInbox,
       OpeningStep, ResolveOrCreate, RotateActive, RotateInactive, ArchivePrior, MakeSession,
       OpenConversation, ResultStep, BeginResult, FinishResult, SettleUncertain
  <2> QED
    BY <1>4, <2>1, <2>2
<1>7. CASE MailStep \/ OutboxStep \/ InspectStep \/ RepairStep
  <2>1. UNCHANGED <<turns, turner>>
    BY <1>7, Untouched DEF sessionVars
  <2>2. worker.pc # "turn" \/ UNCHANGED worker
    BY <1>7, Untouched DEF OutboxStep, EnqueueResponse, Deliver, ReleaseHeld
  <2> QED
    BY <1>4, <1>5, <2>1, <2>2
<1>8. CASE LeaseStep
  <2>1. UNCHANGED <<worker, turner>> /\ Stand(Worker)
    BY <1>1, <1>8, Untouched, RecoveredStand, SameTurns DEF LeaseStep, RecoverSession, LapseSession
  <2> QED
    BY <1>1, <2>1, TurnsAside
<1>9. CASE CrashGateway
  <2>1. UNCHANGED turns /\ turner'[Worker] = IdleTurner /\ worker' = IdleWorker
    BY <1>1, <1>9 DEF CrashGateway
  <2>2. turner'[Worker].pc = "idle" /\ worker'.pc # "respond"
    BY <2>1, WorkerTypes DEF IdleTurner
  <2> QED
    BY <1>1, <2>1, <2>2, TurnsOver
<1>10. CASE TurnSteps
  <2>1. CASE RespondWithoutTurn \/ HandleException \/ CancelWorker
    <3>1. UNCHANGED <<turns, turner>> /\ worker.pc # "turn"
      BY <2>1 DEF RespondWithoutTurn, HandleException, CancelWorker, sessionVars
    <3> QED
      BY <1>4, <3>1
  <2>2. CASE StartTurn
    <3>1. CASE UNCHANGED sessionVars
      BY <1>4, <2>2, <3>1 DEF StartTurn, sessionVars
    <3>2. CASE AcquireSession(Worker, worker.session, worker.m) /\ WorkerAt("turn")
      <4>1. /\ turner'[Worker] = [IdleTurner EXCEPT !.pc = "leased", !.session = worker.session,
                                    !.fence = session[worker.session].fence + 1, !.inbound = worker.m]
            /\ UNCHANGED turns
        BY <1>1, <3>2 DEF AcquireSession
      <4>2. turner'[Worker].pc = "leased" /\ turner'[Worker].inbound = worker.m /\ turner'[Worker].turn = 0
        BY <4>1 DEF IdleTurner
      <4>3. worker'.pc = "turn" /\ worker'.m = worker.m
        BY <1>1, <3>2, AtGoes DEF WorkerPCs, Goes
      <4>4. NoTurn(worker.m)
        BY <1>1, <2>2 DEF StartTurn, TurnsFollow
      <4>5. \A m \in Messages : result'[m].status = "none" => NoTurn(m)
        BY <1>1 DEF Grows, TurnsFollow
      <4>6. \A m : NoTurn(m) => \A t \in TurnIds' : turns'[t].inbound # m
        BY <4>1 DEF NoTurn, TurnIds
      <4>7. \A t, u \in TurnIds' : turns'[t].inbound = turns'[u].inbound /\ turns'[t].inbound \in Messages => t = u
        BY <1>1, <4>1 DEF TurnsFollow, TurnIds
      <4> QED
        BY <4>2, <4>3, <4>4, <4>5, <4>6, <4>7 DEF TurnsFollow, NoTurn
    <3> QED
      BY <2>2, <3>1, <3>2 DEF StartTurn
  <2>3. CASE EndTurn
    <3>1. UNCHANGED turns /\ turner'[Worker] = IdleTurner
      BY <1>1, <2>3 DEF EndTurn, ReleaseSession
    <3>2. worker'.pc # "respond"
      BY <1>1, <2>3, AtGoes, RaiseGoes, WorkerTypes DEF EndTurn, Goes, WorkerPCs
    <3>3. turner'[Worker].pc = "idle"
      BY <3>1 DEF IdleTurner
    <3> QED
      BY <1>1, <3>1, <3>2, <3>3, TurnsOver
  <2>4. CASE TurnStep
    <3>1. UNCHANGED <<worker, result>> /\ worker.pc = "turn" /\ worker.m \in Messages
      BY <1>1, <2>4 DEF TurnStep, Placed
    <3>2. CASE Stand(Worker) /\ GoesOnTurn(Worker)
      <4>1. TurnIds' = TurnIds /\ \A t \in TurnIds : turns'[t].inbound = turns[t].inbound
        BY <3>2 DEF Stand
      <4>2. turner[Worker].turn # 0 => turner[Worker].turn \in TurnIds
        BY <1>1, <3>2 DEF GoesOnTurn, SessionInv, Remembers
      <4>3. \A m : NoTurn(m) => \A t \in TurnIds' : turns'[t].inbound # m
        BY <4>1 DEF NoTurn
      <4>4. \A m \in Messages : result'[m].status = "none" => \A t \in TurnIds' : turns'[t].inbound # m
        BY <1>1, <3>1, <4>3 DEF TurnsFollow
      <4>5. \A t, u \in TurnIds' : turns'[t].inbound = turns'[u].inbound /\ turns'[t].inbound \in Messages => t = u
        BY <1>1, <4>1 DEF TurnsFollow
      <4>6. /\ turner'[Worker].inbound = worker.m
            /\ turner'[Worker].turn # 0 => turns'[turner'[Worker].turn].inbound = worker.m
            /\ turner'[Worker].pc \in {"leased", "read"} => NoTurn(worker.m)
        BY <1>1, <3>2, <4>1, <4>2 DEF TurnsFollow, GoesOnTurn
      <4> QED
        BY <3>1, <4>3, <4>4, <4>5, <4>6 DEF TurnsFollow, NoTurn
    <3>3. CASE BeginTurn(Worker) /\ ~(Stand(Worker) /\ GoesOnTurn(Worker))
      <4>1. turner[Worker].pc = "read" /\ turner[Worker].inbound = worker.m /\ NoTurn(worker.m)
        BY <1>1, <3>3, TurnBegins DEF TurnsFollow
      <4>2. PICK k \in Nat \ {0} :
              /\ TurnIds' = TurnIds \cup {k} /\ k \notin TurnIds
              /\ \A t \in TurnIds : turns'[t] = turns[t]
              /\ turns'[k].inbound = turner[Worker].inbound /\ turns'[k].status = "running"
              /\ turner'[Worker].pc = "running" /\ turner'[Worker].turn = k
              /\ turner'[Worker].inbound = turner[Worker].inbound
        BY <1>1, <3>3, TurnBegins
      <4>3. \A m \in Messages : result'[m].status = "none" => m # worker.m /\ NoTurn(m)
        BY <1>1, <3>1 DEF TurnsFollow, Placed, Begun
      <4>4. \A m \in Messages : result'[m].status = "none" => \A t \in TurnIds' : turns'[t].inbound # m
        BY <4>1, <4>2, <4>3 DEF NoTurn
      <4>5. \A t, u \in TurnIds' : turns'[t].inbound = turns'[u].inbound /\ turns'[t].inbound \in Messages => t = u
        BY <1>1, <4>1, <4>2 DEF TurnsFollow, NoTurn
      <4> QED
        BY <3>1, <4>1, <4>2, <4>4, <4>5 DEF TurnsFollow, NoTurn
    <3>4. BeginTurn(Worker) \/ (Stand(Worker) /\ GoesOnTurn(Worker))
      BY <1>1, <2>4, OwnerTurns DEF TurnStep
    <3> QED
      BY <3>2, <3>3, <3>4
  <2> QED
    BY <1>10, <2>1, <2>2, <2>3, <2>4 DEF TurnSteps
<1> QED
  BY <1>6, <1>7, <1>8, <1>9, <1>10, StepKinds

-------------------------------------------------------------------------------
(* Replies and handoffs *)

\* A handoff is committed only by the turn in progress.
LEMMA HandoffsGrow ==
  ASSUME GatewayInv, GatewayNext, NEW m \in Messages, CommittedHandoff(m)'
  PROVE  CommittedHandoff(m) \/ (worker.pc = "turn" /\ worker.m = m)
<1>1. /\ SessionInv /\ TurnsFollow /\ Worker \in Owners
  BY GatewayAssumption DEF GatewayInv
<1>2. CASE Stand(Worker)
  <2>1. PICK t \in TurnIds : turns'[t].inbound = m /\ Handed(t)'
    BY <1>2 DEF Stand, CommittedHandoff, CommittedTurn, Handed
  <2>2. turns[t].inbound = m /\ (Handed(t) \/ (t = turner[Worker].turn /\ turner[Worker].pc = "running"))
    BY <1>2, <2>1 DEF Stand
  <2>3. CASE Handed(t)
    BY <2>2, <2>3 DEF CommittedHandoff, CommittedTurn, Handed
  <2>4. CASE t = turner[Worker].turn /\ turner[Worker].pc = "running"
    <3>1. t # 0
      BY DEF TurnIds
    <3> QED
      BY <1>1, <2>2, <2>4, <3>1 DEF TurnsFollow
  <2> QED
    BY <2>2, <2>3, <2>4
<1>3. CASE BeginTurn(Worker) /\ ~Stand(Worker)
  <2>1. PICK k \in Nat \ {0} :
          /\ TurnIds' = TurnIds \cup {k} /\ k \notin TurnIds
          /\ \A t \in TurnIds : turns'[t] = turns[t]
          /\ turns'[k].status = "running"
    BY <1>1, <1>3, TurnBegins
  <2>2. PICK t \in TurnIds' : turns'[t].inbound = m /\ turns'[t].status = "committed" /\ turns'[t].handoff
    BY DEF CommittedHandoff, CommittedTurn
  <2>3. t \in TurnIds /\ turns'[t] = turns[t]
    BY <2>1, <2>2
  <2> QED
    BY <2>2, <2>3 DEF CommittedHandoff, CommittedTurn
<1>4. Stand(Worker) \/ BeginTurn(Worker)
  <2>1. CASE UNCHANGED turns
    BY <2>1, SameTurns
  <2>2. CASE WorkerInboxStep \/ MailStep \/ OpeningStep \/ ResultStep \/ OutboxStep \/ InspectStep \/ RepairStep
             \/ CrashGateway
    BY <2>1, <2>2, Untouched DEF sessionVars
  <2>3. CASE LeaseStep
    BY <1>1, <2>3, RecoveredStand, SameTurns DEF LeaseStep, RecoverSession, LapseSession
  <2>4. CASE TurnSteps
    <3>1. CASE TurnStep
      BY <1>1, <3>1, OwnerTurns DEF TurnStep
    <3>2. CASE ~TurnStep
      <4>1. UNCHANGED turns
        BY <2>4, <3>2 DEF TurnSteps, RespondWithoutTurn, StartTurn, AcquireSession, EndTurn, ReleaseSession,
           HandleException, CancelWorker, sessionVars
      <4> QED
        BY <2>1, <4>1
    <3> QED
      BY <3>1, <3>2
  <2> QED
    BY <2>2, <2>3, <2>4, StepKinds
<1> QED
  BY <1>2, <1>3, <1>4

\* The outbox entry of one message is written, and its body only when it had none.
LEMMA OneReply ==
  ASSUME reply \in [Messages -> ReplyRow], NEW k \in Messages, NEW body \in {"ack", "answer", "error"},
         reply' = Enqueued(k, body)
  PROVE  /\ reply' \in [Messages -> ReplyRow]
         /\ \A m \in Messages : reply'[m].body = reply[m].body \/ (m = k /\ reply'[m].body = body)
<1>1. PICK row : row = [reply[k] EXCEPT !.body = IF @ = "none" THEN body ELSE @]
  OBVIOUS
<1>2. row \in ReplyRow /\ (row.body = reply[k].body \/ row.body = body)
  BY <1>1 DEF ReplyRow
<1>3. reply' = [reply EXCEPT ![k] = row]
  BY <1>1 DEF Enqueued
<1>4. \A m \in Messages : reply'[m] = IF m = k THEN row ELSE reply[m]
  BY <1>3
<1> QED
  BY <1>2, <1>3, <1>4

\* Who writes a body other than the acknowledgement: the worker, for its message, and only
\* when no handoff of it has been committed.
AnswersOnlyUnhanded(m) ==
  \/ reply'[m].body = reply[m].body
  \/ reply'[m].body = "ack"
  \/ /\ worker.pc = "reply" /\ worker.m = m
     /\ worker'.pc \notin {"respond", "turn"}
     /\ ~CommittedHandoff(m)

LEMMA RepliesGrow ==
  ASSUME GatewayInv, GatewayNext
  PROVE  /\ reply' \in [Messages -> ReplyRow]
         /\ \A m \in Messages : AnswersOnlyUnhanded(m)
<1>1. /\ reply \in [Messages -> ReplyRow] /\ worker \in WorkerRow /\ recovery \in RecoveryRow
      /\ Placed /\ Inspected
  BY DEF GatewayInv, GatewayTypes
<1>2. CASE UNCHANGED reply
  BY <1>1, <1>2 DEF AnswersOnlyUnhanded
<1>3. CASE EnqueueResponse /\ ~UNCHANGED reply
  <2>1. worker.pc = "reply" /\ worker.m \in Messages
    BY <1>1, <1>3 DEF EnqueueResponse, Placed
  <2>2. PICK body : /\ body = ReplyBody(worker.m, IF worker.handling THEN "error" ELSE "answer")
                    /\ reply' = Enqueued(worker.m, body)
    BY <1>3 DEF EnqueueResponse
  <2>3. body \in {"ack", "answer", "error"} /\ (CommittedHandoff(worker.m) => body = "ack")
    BY <2>2 DEF ReplyBody
  <2>4. WorkerAt("finish") \/ Raise
    BY <1>3 DEF EnqueueResponse
  <2>5. worker'.pc \notin {"respond", "turn"}
    BY <1>1, <2>4, AtGoes, RaiseGoes, WorkerTypes DEF Goes, WorkerPCs
  <2> QED
    BY <1>1, <2>1, <2>2, <2>3, <2>5, OneReply DEF AnswersOnlyUnhanded
<1>4. CASE EnqueueAcknowledgement
  <2>1. recovery.m \in Messages /\ reply' = Enqueued(recovery.m, "ack")
    BY <1>1, <1>4 DEF EnqueueAcknowledgement, Inspected
  <2> QED
    BY <1>1, <2>1, OneReply DEF AnswersOnlyUnhanded
<1>5. ASSUME NEW k \in Messages, Deliver(k)
      PROVE  reply' \in [Messages -> ReplyRow] /\ \A m \in Messages : AnswersOnlyUnhanded(m)
  BY <1>1, <1>5 DEF Deliver, ReplyRow, AnswersOnlyUnhanded
<1>6. UNCHANGED reply \/ EnqueueResponse \/ EnqueueAcknowledgement \/ \E k \in Messages : Deliver(k)
  BY StepKinds, Untouched DEF OutboxStep, InspectStep, ReleaseHeld, InspectClaim, InspectHandoff, gatewayTables
<1> QED
  BY <1>2, <1>3, <1>4, <1>5, <1>6

LEMMA RepliesKeep ==
  ASSUME GatewayInv, GatewayNext
  PROVE  AnsweredAfterTurn' /\ AcknowledgementKept'
<1>1. Grows /\ ComesToTurn /\ Placed /\ AnsweredAfterTurn /\ AcknowledgementKept
  BY ResultsGrow, WorkerTurns DEF GatewayInv
<1>2. \A m \in Messages : AnswersOnlyUnhanded(m)
  BY RepliesGrow
<1>3. ASSUME NEW m \in Messages, reply'[m].body \notin {"none", "ack"}
      PROVE  /\ result'[m].status # "none"
             /\ worker'.pc \in {"respond", "turn"} => worker'.m # m
             /\ ~CommittedHandoff(m)'
  <2>1. CASE reply'[m].body = reply[m].body
    <3>1. result[m].status # "none" /\ (worker.pc \in {"respond", "turn"} => worker.m # m) /\ ~CommittedHandoff(m)
      BY <1>1, <1>3, <2>1 DEF AnsweredAfterTurn, AcknowledgementKept
    <3>2. result'[m].status # "none"
      BY <1>1, <3>1 DEF Grows
    <3>3. worker'.pc \in {"respond", "turn"} => worker'.m # m
      BY <1>1, <3>1 DEF ComesToTurn
    <3> QED
      BY <3>1, <3>2, <3>3, HandoffsGrow
  <2>2. CASE worker.pc = "reply" /\ worker.m = m /\ worker'.pc \notin {"respond", "turn"} /\ ~CommittedHandoff(m)
    <3>1. result[m].status # "none"
      BY <1>1, <2>2 DEF Placed, Begun
    <3> QED
      BY <1>1, <2>2, <3>1, HandoffsGrow DEF Grows
  <2> QED
    BY <1>2, <1>3, <2>1, <2>2 DEF AnswersOnlyUnhanded
<1> QED
  BY <1>3 DEF AnsweredAfterTurn, AcknowledgementKept

-------------------------------------------------------------------------------
(* The invariant, and what follows *)

LEMMA GatewayInvInit == GatewayInit => GatewayInv
<1> SUFFICES ASSUME GatewayInit PROVE GatewayInv
  OBVIOUS
<1>1. SessionInv
  BY SessionInvInit DEF GatewayInit
<1>2. /\ inbox \in [Messages -> InboxRow] /\ conv \in [Sessions -> ConvRow]
      /\ result \in [Messages -> ResultRow] /\ reply \in [Messages -> ReplyRow]
  BY DEF GatewayInit, InboxRow, ConvRow, ResultRow, ReplyRow
<1>3. GatewayTypes /\ worker.pc = "idle" /\ recovery.pc = "idle"
  BY <1>2, WorkerTypes DEF GatewayInit, GatewayTypes
<1>4. Placed /\ Inspected
  BY <1>3 DEF Placed, Inspected, Conversing, Begun
<1>5. SettledAgrees /\ ResultsHaveSession
  BY DEF GatewayInit, SettledAgrees, ResultsHaveSession
<1>6. LastAnswered
  BY GatewayAssumption DEF GatewayInit, LastAnswered, None
<1>7. ArchivedNeverActive /\ NeverRotatesItself
  BY DEF GatewayInit, ArchivedNeverActive, NeverRotatesItself
<1>8. TurnIds = {} /\ turner[Worker].pc = "idle"
  BY GatewayAssumption DEF GatewayInit, SessionInit, TurnIds, IdleTurner
<1>9. TurnsFollow
  BY <1>3, <1>8 DEF TurnsFollow, NoTurn
<1>10. AnsweredAfterTurn /\ AcknowledgementKept
  BY <1>8 DEF GatewayInit, AnsweredAfterTurn, AcknowledgementKept
<1> QED
  BY <1>1, <1>3, <1>4, <1>5, <1>6, <1>7, <1>9, <1>10 DEF GatewayInv

LEMMA GatewayInvNext == GatewayInv /\ [GatewayNext]_gatewayVars => GatewayInv'
<1>1. ASSUME GatewayInv, GatewayNext PROVE GatewayInv'
  BY <1>1, SessionKeeps, ResultsGrow, WorkerKeeps, RecoveryKeeps, InboxKeeps, ConvKeeps, TurnsKeep, RepliesGrow,
     RepliesKeep DEF GatewayInv, GatewayTypes, ConvInv
<1>2. ASSUME GatewayInv, UNCHANGED gatewayVars PROVE GatewayInv'
  <2>1. SessionInv'
    BY <1>2, SessionInvStep DEF GatewayInv, gatewayVars, sessionVars
  <2>2. (GatewayTypes /\ Placed /\ Inspected /\ SettledAgrees /\ ResultsHaveSession)'
    BY <1>2 DEF GatewayInv, gatewayVars, GatewayTypes, Placed, Inspected, SettledAgrees, ResultsHaveSession, Settled
  <2>3. (LastAnswered /\ ArchivedNeverActive /\ NeverRotatesItself)'
    BY <1>2 DEF GatewayInv, gatewayVars, LastAnswered, Terminal, ArchivedNeverActive, NeverRotatesItself
  <2>4. TurnsFollow'
    BY <1>2 DEF GatewayInv, gatewayVars, TurnsFollow, NoTurn, TurnIds
  <2>5. (AnsweredAfterTurn /\ AcknowledgementKept)'
    BY <1>2 DEF GatewayInv, gatewayVars, AnsweredAfterTurn, AcknowledgementKept, CommittedHandoff, CommittedTurn, TurnIds
  <2> QED
    BY <2>1, <2>2, <2>3, <2>4, <2>5 DEF GatewayInv
<1> QED
  BY <1>1, <1>2

LEMMA GatewayInvariance == GatewaySpec => []GatewayInv
  BY GatewayInvInit, GatewayInvNext, PTL DEF GatewaySpec

\* No message is replayed to the model: whatever crashes, expired claims and recoveries lie
\* between, at most one turn is ever begun for it, with any number of messages, sessions,
\* claims and crashes (begin_result before the turn; _recover_inbox).
THEOREM NoMessageReplayed == GatewaySpec => []OneTurnPerMessage
<1>1. GatewayInv => OneTurnPerMessage
  <2> SUFFICES ASSUME TurnsFollow, NEW m \in Messages
               PROVE  Cardinality({t \in TurnIds : turns[t].inbound = m}) <= 1
    BY DEF GatewayInv, OneTurnPerMessage
  <2> DEFINE T == {t \in TurnIds : turns[t].inbound = m}
  <2>1. \A t, u \in T : t = u
    BY DEF TurnsFollow
  <2>2. T = {} \/ \E t : T = {t}
    BY <2>1
  <2>3. Cardinality(T) \in {0, 1}
    <3> HIDE DEF T
    <3>1. CASE T = {}
      BY <3>1, FS_EmptySet
    <3>2. ASSUME NEW t, T = {t} PROVE Cardinality(T) = 1
      BY <3>2, FS_Singleton
    <3> QED
      BY <2>2, <3>1, <3>2
  <2> QED
    BY <2>3
<1> QED
  BY <1>1, GatewayInvariance, PTL

\* The acknowledgement of a committed handoff is never displaced by an answer or an error
\* (_enqueue_response; the exception handler of _process_locked; _reconcile_handoff).
THEOREM AcknowledgementsStand == GatewaySpec => []AcknowledgementKept
  BY GatewayInvariance, PTL DEF GatewayInv

\* The inbox agrees with the gateway: a message nobody dismissed is processed only when its
\* result is committed or failed (finish_inbox, settle_inbox_from_terminal_result).
THEOREM InboxAgrees == GatewaySpec => []SettledAgrees
  BY GatewayInvariance, PTL DEF GatewayInv

\* A conversation that was ever archived is never active again (reconcile_committed_result,
\* recover_running_result).
THEOREM ArchivedStaysInactive == GatewaySpec => []ArchivedNeverActive
  BY GatewayInvariance, PTL DEF GatewayInv

\* /new, retried after a crash, does not rotate away from the conversation it has itself
\* created (_resolve_rotation).
THEOREM RotationIsIdempotent == GatewaySpec => []NeverRotatesItself
  BY GatewayInvariance, PTL DEF GatewayInv

\* The gateway's turns, with recovery and rotation beside them, lose no committed turn
\* (PersistentTurnService.run_turn as ConversationCoordinator.process drives it).
THEOREM GatewayCommitsAreNotLost == GatewaySpec => []NoLostUpdate
<1>1. GatewayInv => NoLostUpdate
  BY DEF GatewayInv, SessionInv
<1> QED
  BY <1>1, GatewayInvariance, PTL
===============================================================================
