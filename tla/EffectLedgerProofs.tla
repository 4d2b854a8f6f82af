-------------------------- MODULE EffectLedgerProofs --------------------------
(***************************************************************************)
(* Proofs about EffectLedger, for every set of calls, runs, keys and every *)
(* limit.                                                                  *)
(***************************************************************************)
EXTENDS EffectLedger, SequenceTheorems, FiniteSetTheorems, TLAPS

\* The types of an action's row and of a call.
ActionRow == [namespace : {"grant", "job"}, key : Keys, run : Runs, amount : Amounts \cup {0},
              status : {"reserved", "performed", "not_performed", "in_doubt"}]

CallPCs == {"idle", "admitting", "reserving", "reserved", "dispatched", "resolving",
            "consuming", "retiring"}

CallRow == [pc : CallPCs, key : Keys \cup {"none"}, amount : Amounts \cup {0}, action : Nat,
            disposition : Dispositions]

RunRow == [state : {"absent", "open", "finished", "dead"}, calls : Nat]

LedgerTypes ==
  /\ actions \in Seq(ActionRow)
  /\ runs \in [Runs -> RunRow]
  /\ call \in [Calls -> CallRow]
  /\ effected \subseteq ActionIds

\* The call is between its reservation and its resolution.
Holding(c) == call[c].pc \in {"reserved", "dispatched", "resolving"}

\* A call begun has its key; one past its reservation has an action of its namespace.
CallsBegun ==
  \A c \in Calls :
    /\ call[c].pc # "idle" => call[c].key \in Keys
    /\ call[c].pc \in {"consuming", "retiring"} => c \in Delegated
    /\ Holding(c) => call[c].action \in ActionIds
    /\ Holding(c) => actions[call[c].action].namespace = Namespace(c)

\* No two calls hold the same action.
HeldApart ==
  \A c, d \in Calls : Holding(c) /\ Holding(d) /\ call[c].action = call[d].action => c = d

\* An action that is held is resolved by nobody but an operator; its call knows whether
\* it was performed.
HeldUnresolved ==
  \A c \in Calls : Holding(c) =>
    LET i == call[c].action
    IN /\ i \in reconciled \/ actions[i].status \in {"reserved", "in_doubt"}
       /\ call[c].pc = "reserved" => i \notin effected
       /\ call[c].pc = "dispatched" => i \in effected
       /\ call[c].pc = "resolving" /\ call[c].disposition = "performed" => i \in effected
       /\ call[c].pc = "resolving" /\ call[c].disposition = "not_performed" => i \notin effected

\* The partial unique index: of all actions with one key at most one is open.
OneOpenPerKey ==
  \A i, j \in ActionIds :
    /\ actions[i].namespace = actions[j].namespace /\ actions[i].key = actions[j].key
    /\ actions[i].status \in OpenStatuses /\ actions[j].status \in OpenStatuses
    => i = j

\* A terminated grant has no active budget, and a revocation on its way has terminated it.
TerminationHolds ==
  /\ budget \in [status : {"none", "active", "expired", "revoked", "consumed"}, effects : Nat, money : Nat]
  /\ tombstone \in {"none", "revoked", "consumed"}
  /\ tombstone # "none" => budget.status # "active"
  /\ revoker \in {"authority", "done"} => tombstone # "none"

\* The actions of the grant belong to its one run.
GrantActions ==
  \A i \in ActionIds : actions[i].namespace = "grant" =>
    actions[i].run = GrantRun /\ GrantRun \in Runs /\ runs[GrantRun].state # "absent"

\* An action is being finalized, or the grant is terminated, or its run is over, or the
\* finalization raised.
Frozen(i) ==
  \/ Finalizing(i)
  \/ tombstone # "none"
  \/ runs[GrantRun].state \in {"finished", "dead"}
  \/ <<i, "consuming">> \in cutShort
  \/ <<i, "retiring">> \in cutShort

\* An ambiguous action freezes the grant.
DoubtRetires ==
  \A i \in ActionIds \ stranded :
    actions[i].namespace = "grant" /\ actions[i].status = "in_doubt" => Frozen(i)

\* The inductive invariant: what actions and calls know of each other, and the grant.
CoreInv ==
  /\ LedgerTypes
  /\ CallsBegun
  /\ HeldApart
  /\ HeldUnresolved
  /\ OneOpenPerKey
  /\ EvidenceSound

GrantInv == TerminationHolds /\ GrantActions /\ DoubtRetires

LedgerInv == CoreInv /\ GrantInv

\* A finalization that reached the budget has left the grant inactive.
ConsumedFirst ==
  /\ \A c \in Calls : call[c].pc = "retiring" => grant # "active"
  /\ \A i : <<i, "retiring">> \in cutShort => grant # "active"

\* A call begun belongs to an open run, and only a delegated one waits for admission.
CallsOfOpenRuns ==
  \A c \in Calls :
    /\ call[c].pc # "idle" => RunAlive(RunOf[c])
    /\ call[c].pc = "admitting" => c \in Delegated

AdmissionInv == ConsumedFirst /\ CallsOfOpenRuns

-------------------------------------------------------------------------------
(* Rows *)

\* What the types say of a call and of an action.
LEMMA LedgerRows ==
  ASSUME LedgerTypes
  PROVE  /\ Len(actions) \in Nat
         /\ \A i \in ActionIds : i \in Nat /\ actions[i] \in ActionRow
         /\ \A c \in Calls : call[c] \in CallRow
         /\ NoCall \in CallRow /\ NoCall.pc = "idle"
<1>1. NoCall \in CallRow /\ NoCall.pc = "idle"
  BY DEF NoCall, CallRow, CallPCs, Dispositions
<1> QED
  BY <1>1 DEF LedgerTypes, ActionIds

\* One call moves on.
LEMMA OneCall ==
  ASSUME LedgerTypes, NEW c \in Calls, NEW row \in CallRow, call' = [call EXCEPT ![c] = row]
  PROVE  /\ call' \in [Calls -> CallRow] /\ call'[c] = row
         /\ \A d \in Calls : d # c => call'[d] = call[d]
  BY DEF LedgerTypes

\* A call ends.
LEMMA CallEnded ==
  ASSUME LedgerTypes, NEW c \in Calls, EndCall(c)
  PROVE  /\ call' \in [Calls -> CallRow] /\ call'[c].pc = "idle"
         /\ \A d \in Calls : d # c => call'[d] = call[d]
  BY OneCall, LedgerRows DEF EndCall

\* A call goes on at another point.
LEMMA CallGoesOn ==
  ASSUME LedgerTypes, NEW c \in Calls, NEW pc \in CallPCs, CallAt(c, pc)
  PROVE  /\ call' \in [Calls -> CallRow] /\ call'[c].pc = pc
         /\ call'[c].key = call[c].key /\ call'[c].action = call[c].action
         /\ call'[c].disposition = call[c].disposition
         /\ \A d \in Calls : d # c => call'[d] = call[d]
<1> DEFINE row == [call[c] EXCEPT !.pc = pc]
<1>1. call[c] \in CallRow
  BY LedgerRows
<1>2. /\ row \in CallRow /\ row.pc = pc /\ row.key = call[c].key /\ row.action = call[c].action
      /\ row.disposition = call[c].disposition
  BY <1>1 DEF CallRow
<1>3. call' = [call EXCEPT ![c] = row]
  BY DEF CallAt
<1> HIDE DEF row
<1> QED
  BY <1>2, <1>3, OneCall

\* A call has its outcome.
LEMMA CallConcludes ==
  ASSUME LedgerTypes, NEW c \in Calls, NEW d \in Dispositions, CallEnds(c, d)
  PROVE  /\ call' \in [Calls -> CallRow] /\ call'[c].pc = "resolving"
         /\ call'[c].key = call[c].key /\ call'[c].action = call[c].action
         /\ call'[c].disposition = d
         /\ \A e \in Calls : e # c => call'[e] = call[e]
<1> DEFINE row == [call[c] EXCEPT !.pc = "resolving", !.disposition = d]
<1>1. call[c] \in CallRow
  BY LedgerRows
<1>2. /\ row \in CallRow /\ row.pc = "resolving" /\ row.key = call[c].key
      /\ row.action = call[c].action /\ row.disposition = d
  BY <1>1 DEF CallRow, CallPCs
<1>3. call' = [call EXCEPT ![c] = row]
  BY <1>1 DEF CallEnds, LedgerTypes, CallRow
<1> HIDE DEF row
<1> QED
  BY <1>2, <1>3, OneCall

\* The status of one action changes.
LEMMA OneStatus ==
  ASSUME LedgerTypes, NEW i \in ActionIds,
         NEW status \in {"reserved", "performed", "not_performed", "in_doubt"},
         actions' = [actions EXCEPT ![i].status = status]
  PROVE  /\ actions' \in Seq(ActionRow) /\ Len(actions') = Len(actions) /\ ActionIds' = ActionIds
         /\ actions'[i].status = status
         /\ \A j \in ActionIds : j # i => actions'[j] = actions[j]
         /\ \A j \in ActionIds : /\ actions'[j].namespace = actions[j].namespace
                                 /\ actions'[j].key = actions[j].key
                                 /\ actions'[j].run = actions[j].run
<1> DEFINE row == [actions[i] EXCEPT !.status = status]
<1>1. actions \in Seq(ActionRow) /\ i \in 1..Len(actions) /\ actions[i] \in ActionRow
  BY LedgerRows DEF LedgerTypes, ActionIds
<1>2. /\ row \in ActionRow /\ row.status = status /\ row.namespace = actions[i].namespace
      /\ row.key = actions[i].key /\ row.run = actions[i].run
  BY <1>1 DEF ActionRow
<1>3. actions' = [actions EXCEPT ![i] = row]
  OBVIOUS
<1> HIDE DEF row
<1>4. /\ actions' \in Seq(ActionRow) /\ Len(actions') = Len(actions)
      /\ \A j \in 1..Len(actions) : actions'[j] = IF j = i THEN row ELSE actions[j]
  <2>1. actions \in Seq(ActionRow) /\ i \in 1..Len(actions) /\ row \in ActionRow
    BY <1>1, <1>2
  <2>2. /\ [actions EXCEPT ![i] = row] \in Seq(ActionRow)
        /\ Len([actions EXCEPT ![i] = row]) = Len(actions)
        /\ \A j \in 1..Len(actions) :
              [actions EXCEPT ![i] = row][j] = IF j = i THEN row ELSE actions[j]
    BY <2>1, ExceptSeq, SMTT(30)
  <2> QED
    BY <1>3, <2>2, Zenon
<1> QED
  BY <1>1, <1>2, <1>4 DEF ActionIds

-------------------------------------------------------------------------------
(* Steps that write no action and perform no effect *)

CallMoves(c) ==
  \/ call'[c] = call[c]
  \/ call'[c].pc = "idle"
  \/ /\ ~Holding(c)' /\ call'[c].key \in Keys
     /\ call'[c].pc \in {"consuming", "retiring"} => c \in Delegated
  \/ /\ Holding(c) /\ call'[c].pc = "resolving"
     /\ call'[c].key = call[c].key /\ call'[c].action = call[c].action
     /\ call'[c].disposition = "performed" => call[c].action \in effected
     /\ call'[c].disposition = "not_performed" => call[c].action \notin effected

\* Such a step keeps what actions and calls know of each other.
LEMMA CallsMoveKeeps ==
  ASSUME CoreInv, UNCHANGED <<actions, effected, reconciled>>, runs' \in [Runs -> RunRow],
         call' \in [Calls -> CallRow], \A c \in Calls : CallMoves(c)
  PROVE  CoreInv'
<1>1. LedgerTypes' /\ ActionIds' = ActionIds
  BY DEF CoreInv, LedgerTypes, ActionIds
<1>2. \A c \in Calls : Holding(c)' => Holding(c) /\ call'[c].action = call[c].action
  BY DEF CallMoves, Holding
<1>3. CallsBegun'
  <2> SUFFICES ASSUME NEW c \in Calls
               PROVE  /\ call'[c].pc # "idle" => call'[c].key \in Keys
                      /\ call'[c].pc \in {"consuming", "retiring"} => c \in Delegated
                      /\ Holding(c)' => call'[c].action \in ActionIds
                      /\ Holding(c)' => actions[call'[c].action].namespace = Namespace(c)
    BY <1>1 DEF CallsBegun, Namespace
  <2>1. CallsBegun
    BY DEF CoreInv
  <2>2. /\ Holding(c)' => call'[c].action \in ActionIds
        /\ Holding(c)' => actions[call'[c].action].namespace = Namespace(c)
    BY <1>2, <2>1 DEF CallsBegun
  <2> QED
    BY <2>1, <2>2 DEF CallsBegun, CallMoves, Holding
<1>4. HeldApart'
  BY <1>2 DEF CoreInv, HeldApart
<1>5. HeldUnresolved'
  <2> SUFFICES ASSUME NEW c \in Calls, Holding(c)'
               PROVE  /\ call'[c].action \in reconciled
                           \/ actions[call'[c].action].status \in {"reserved", "in_doubt"}
                      /\ call'[c].pc = "reserved" => call'[c].action \notin effected
                      /\ call'[c].pc = "dispatched" => call'[c].action \in effected
                      /\ call'[c].pc = "resolving" /\ call'[c].disposition = "performed" =>
                           call'[c].action \in effected
                      /\ call'[c].pc = "resolving" /\ call'[c].disposition = "not_performed" =>
                           call'[c].action \notin effected
    BY DEF HeldUnresolved
  <2>1. Holding(c) /\ call'[c].action = call[c].action /\ HeldUnresolved /\ CallMoves(c)
    BY <1>2 DEF CoreInv
  <2> QED
    BY <2>1 DEF HeldUnresolved, CallMoves, Holding
<1>6. OneOpenPerKey' /\ EvidenceSound'
  BY <1>1 DEF CoreInv, OneOpenPerKey, EvidenceSound
<1> QED
  BY <1>1, <1>3, <1>4, <1>5, <1>6 DEF CoreInv

\* One call moves on.
LEMMA OneCallKeeps ==
  ASSUME CoreInv, NEW c \in Calls, UNCHANGED <<actions, effected, reconciled>>,
         runs' \in [Runs -> RunRow], call' \in [Calls -> CallRow], CallMoves(c),
         \A d \in Calls : d # c => call'[d] = call[d]
  PROVE  CoreInv'
<1>1. \A d \in Calls : CallMoves(d)
  BY DEF CallMoves
<1> QED
  BY <1>1, CallsMoveKeeps

\* A call begins, is admitted or refused, has its outcome, or retires its grant.
LEMMA QuietCallKeeps ==
  ASSUME CoreInv, NEW c \in Calls,
         \/ \E k \in Keys, m \in Amounts : BeginEffect(c, k, m)
         \/ AdmitCall(c) \/ RefuseAction(c) \/ AbandonCall(c) \/ ReceiveOutcome(c)
         \/ ConsumeGrant(c) \/ RetireBudget(c) \/ FailResolution(c) \/ FailFinalization(c)
  PROVE  CoreInv'
<1>1. LedgerTypes /\ CallsBegun /\ HeldUnresolved /\ call[c] \in CallRow
  BY LedgerRows DEF CoreInv
<1>2. UNCHANGED <<actions, effected, reconciled, runs>> /\ runs' \in [Runs -> RunRow]
  BY <1>1 DEF BeginEffect, AdmitCall, RefuseAction, AbandonCall, ReceiveOutcome, ConsumeGrant,
              RetireBudget, FailResolution, FailFinalization, ledgerTables, LedgerTypes
<1> DEFINE Moved == /\ call' \in [Calls -> CallRow] /\ CallMoves(c)
                    /\ \A d \in Calls : d # c => call'[d] = call[d]
<1>3. ASSUME NEW k \in Keys, NEW m \in Amounts, BeginEffect(c, k, m) PROVE Moved
  <2> DEFINE pc == IF c \in Delegated THEN "admitting" ELSE "reserving"
             row == [NoCall EXCEPT !.pc = pc, !.key = k, !.amount = m]
  <2>1. pc \in {"admitting", "reserving"} /\ pc \in CallPCs
    BY DEF CallPCs
  <2> HIDE DEF pc
  <2>2. row \in CallRow
    BY <2>1 DEF NoCall, CallRow, Dispositions
  <2>3. row.pc = pc /\ row.key = k
    BY DEF NoCall
  <2>4. call' = [call EXCEPT ![c] = row]
    BY <1>3 DEF BeginEffect, pc
  <2> HIDE DEF row
  <2>5. /\ call' \in [Calls -> CallRow] /\ call'[c] = row
        /\ \A d \in Calls : d # c => call'[d] = call[d]
    BY <1>1, <2>2, <2>4, OneCall
  <2>6. CallMoves(c)
    BY <2>1, <2>3, <2>5 DEF CallMoves, Holding
  <2> QED
    BY <2>5, <2>6
<1>4. ASSUME EndCall(c) PROVE Moved
  BY <1>1, <1>4, CallEnded DEF CallMoves
<1>5. ASSUME call[c].pc # "idle", NEW pc \in {"reserving", "retiring"}, CallAt(c, pc),
             pc = "retiring" => call[c].pc = "consuming"
      PROVE  Moved
  <2>1. /\ call' \in [Calls -> CallRow] /\ call'[c].pc = pc /\ call'[c].key = call[c].key
        /\ \A d \in Calls : d # c => call'[d] = call[d]
    BY <1>1, <1>5, CallGoesOn DEF CallPCs
  <2>2. CallMoves(c)
    BY <1>1, <1>5, <2>1 DEF CallMoves, Holding, CallsBegun
  <2> QED
    BY <2>1, <2>2
<1>6. ASSUME NEW d \in Dispositions, CallEnds(c, d), call[c].pc \in {"reserved", "dispatched"},
             d = "performed" => call[c].pc = "dispatched",
             d = "not_performed" => call[c].pc = "reserved"
      PROVE  Moved
  <2>1. /\ call' \in [Calls -> CallRow] /\ call'[c].pc = "resolving"
        /\ call'[c].key = call[c].key /\ call'[c].action = call[c].action
        /\ call'[c].disposition = d
        /\ \A e \in Calls : e # c => call'[e] = call[e]
    BY <1>1, <1>6, CallConcludes
  <2>2. CallMoves(c)
    BY <1>1, <1>6, <2>1 DEF CallMoves, Holding, HeldUnresolved
  <2> QED
    BY <2>1, <2>2
<1>7. Moved
  <2>1. CASE \E k \in Keys, m \in Amounts : BeginEffect(c, k, m)
    BY <1>3, <2>1
  <2>2. CASE AdmitCall(c)
    BY <1>4, <1>5, <2>2 DEF AdmitCall
  <2>3. CASE RefuseAction(c) \/ RetireBudget(c) \/ FailResolution(c) \/ FailFinalization(c)
    BY <1>4, <2>3 DEF RefuseAction, RetireBudget, FailResolution, FailFinalization
  <2>4. CASE AbandonCall(c)
    BY <1>6, <2>4 DEF AbandonCall, Dispositions
  <2>5. CASE ReceiveOutcome(c)
    BY <1>6, <2>5 DEF ReceiveOutcome, Dispositions
  <2>6. CASE ConsumeGrant(c)
    BY <1>5, <2>6 DEF ConsumeGrant
  <2> QED
    BY <2>1, <2>2, <2>3, <2>4, <2>5, <2>6
<1> QED
  BY <1>2, <1>7, OneCallKeeps

\* A run starts, finishes or dies.
LEMMA RunStepTypes ==
  ASSUME LedgerTypes, NEW r \in Runs, NEW state \in {"open", "finished", "dead"},
         runs' = [runs EXCEPT ![r].state = state]
  PROVE  /\ runs' \in [Runs -> RunRow] /\ runs'[r].state = state
         /\ \A q \in Runs : q # r => runs'[q] = runs[q]
<1>1. runs[r] \in RunRow
  BY DEF LedgerTypes
<1>2. [runs[r] EXCEPT !.state = state] \in RunRow
  BY <1>1 DEF RunRow
<1> QED
  BY <1>1, <1>2 DEF LedgerTypes, RunRow

\* A run starts, finishes or dies with its calls.
LEMMA RunStepKeeps ==
  ASSUME CoreInv, NEW r \in Runs, StartRun(r) \/ FinishRun(r) \/ CrashRun(r)
  PROVE  CoreInv'
<1>1. LedgerTypes
  BY DEF CoreInv
<1>2. runs' \in [Runs -> RunRow] /\ UNCHANGED <<actions, effected, reconciled>>
  BY <1>1, RunStepTypes DEF StartRun, FinishRun, CrashRun
<1>3. call' \in [Calls -> CallRow] /\ \A c \in Calls : call'[c] = call[c] \/ call'[c].pc = "idle"
  BY <1>1, LedgerRows DEF StartRun, FinishRun, CrashRun, LedgerTypes
<1>4. \A c \in Calls : CallMoves(c)
  BY <1>3 DEF CallMoves
<1> QED
  BY <1>2, <1>3, <1>4, CallsMoveKeeps

\* The grant's own steps touch neither actions nor calls.
LEMMA GrantStepKeeps ==
  ASSUME CoreInv, UNCHANGED <<actions, runs, call, effected, reconciled>>
  PROVE  CoreInv'
<1>1. runs' \in [Runs -> RunRow] /\ call' \in [Calls -> CallRow]
  BY DEF CoreInv, LedgerTypes
<1>2. \A c \in Calls : CallMoves(c)
  BY DEF CallMoves
<1> QED
  BY <1>1, <1>2, CallsMoveKeeps

-------------------------------------------------------------------------------
(* Steps that write an action or perform an effect *)

\* The provider performs the effect of an action that is held, not yet performed and
\* open, or reconciled.
LEMMA PerformKeeps ==
  ASSUME CoreInv, NEW c \in Calls, PerformEffect(c)
  PROVE  CoreInv'
<1> DEFINE a == call[c].action
<1>1. LedgerTypes /\ CallsBegun /\ HeldApart /\ HeldUnresolved /\ EvidenceSound /\ OneOpenPerKey
  BY DEF CoreInv
<1>2. /\ UNCHANGED <<actions, runs, reconciled>> /\ effected' = effected \cup {a}
      /\ call[c].pc = "reserved" /\ CallAt(c, "dispatched")
  BY DEF PerformEffect, ledgerTables
<1>3. /\ call' \in [Calls -> CallRow] /\ call'[c].pc = "dispatched" /\ call'[c].key = call[c].key
      /\ call'[c].action = a /\ \A d \in Calls : d # c => call'[d] = call[d]
  BY <1>1, <1>2, CallGoesOn DEF CallPCs
<1>4. /\ Holding(c) /\ Holding(c)' /\ a \in ActionIds
      /\ a \in reconciled \/ actions[a].status \in {"reserved", "in_doubt"}
      /\ \A d \in Calls : Holding(d)' => Holding(d) /\ call'[d].action = call[d].action
  BY <1>1, <1>2, <1>3 DEF Holding, CallsBegun, HeldUnresolved
<1>5. LedgerTypes' /\ ActionIds' = ActionIds
  BY <1>1, <1>2, <1>3, <1>4 DEF LedgerTypes, ActionIds
<1>6. CallsBegun'
  <2>1. \A d \in Calls : /\ call'[d].key = call[d].key
                         /\ call'[d].pc = "idle" <=> call[d].pc = "idle"
                         /\ call'[d].pc \in {"consuming", "retiring"} => call[d].pc \in {"consuming", "retiring"}
    BY <1>2, <1>3
  <2> QED
    BY <1>1, <1>2, <1>4, <1>5, <2>1 DEF CallsBegun, Namespace
<1>7. HeldApart'
  BY <1>1, <1>4 DEF HeldApart
<1>8. HeldUnresolved'
  <2> SUFFICES ASSUME NEW d \in Calls, Holding(d)'
               PROVE  /\ call'[d].action \in reconciled
                           \/ actions[call'[d].action].status \in {"reserved", "in_doubt"}
                      /\ call'[d].pc = "reserved" => call'[d].action \notin effected'
                      /\ call'[d].pc = "dispatched" => call'[d].action \in effected'
                      /\ call'[d].pc = "resolving" /\ call'[d].disposition = "performed" =>
                           call'[d].action \in effected'
                      /\ call'[d].pc = "resolving" /\ call'[d].disposition = "not_performed" =>
                           call'[d].action \notin effected'
    BY <1>2 DEF HeldUnresolved
  <2>1. CASE d = c
    BY <1>2, <1>3, <1>4, <2>1
  <2>2. CASE d # c
    <3>1. Holding(d) /\ call'[d] = call[d] /\ call[d].action # a
      BY <1>1, <1>3, <1>4, <2>2 DEF HeldApart
    <3> QED
      BY <1>1, <1>2, <3>1 DEF HeldUnresolved
  <2> QED
    BY <2>1, <2>2
<1>9. OneOpenPerKey' /\ EvidenceSound'
  BY <1>1, <1>2, <1>4, <1>5 DEF OneOpenPerKey, EvidenceSound
<1> QED
  BY <1>5, <1>6, <1>7, <1>8, <1>9 DEF CoreInv

\* An open action gets another status, and nobody is left who holds a resolved one.
LEMMA StatusKeeps ==
  ASSUME CoreInv, NEW i \in ActionIds,
         NEW status \in {"reserved", "performed", "not_performed", "in_doubt"},
         actions' = [actions EXCEPT ![i].status = status], actions[i].status \in OpenStatuses,
         effected' = effected, runs' \in [Runs -> RunRow], call' \in [Calls -> CallRow],
         reconciled' \in {reconciled, reconciled \cup {i}},
         \/ i \in reconciled'
         \/ (status = "performed" => i \in effected) /\ (status = "not_performed" => i \notin effected),
         \A c \in Calls :
           \/ call'[c] = call[c]
           \/ /\ ~Holding(c)' /\ call'[c].pc # "idle" => call'[c].key \in Keys
              /\ ~Holding(c)' /\ call'[c].pc \in {"consuming", "retiring"} => c \in Delegated
              /\ ~Holding(c)',
         \A c \in Calls : Holding(c)' /\ call'[c].action = i =>
           i \in reconciled' \/ status \in {"reserved", "in_doubt"}
  PROVE  CoreInv'
<1>1. LedgerTypes /\ CallsBegun /\ HeldApart /\ HeldUnresolved /\ EvidenceSound /\ OneOpenPerKey
  BY DEF CoreInv
<1>2. /\ actions' \in Seq(ActionRow) /\ ActionIds' = ActionIds /\ actions'[i].status = status
      /\ \A j \in ActionIds : j # i => actions'[j] = actions[j]
      /\ \A j \in ActionIds : /\ actions'[j].namespace = actions[j].namespace
                              /\ actions'[j].key = actions[j].key
  BY <1>1, OneStatus
<1>3. \A c \in Calls : Holding(c)' => Holding(c) /\ call'[c] = call[c]
  BY DEF Holding
<1>4. LedgerTypes'
  BY <1>1, <1>2 DEF LedgerTypes
<1>5. CallsBegun'
  <2> SUFFICES ASSUME NEW c \in Calls
               PROVE  /\ call'[c].pc # "idle" => call'[c].key \in Keys
                      /\ call'[c].pc \in {"consuming", "retiring"} => c \in Delegated
                      /\ Holding(c)' => call'[c].action \in ActionIds
                      /\ Holding(c)' => actions'[call'[c].action].namespace = Namespace(c)
    BY <1>2 DEF CallsBegun, Namespace
  <2>1. /\ Holding(c)' => call'[c].action \in ActionIds
        /\ Holding(c)' => actions'[call'[c].action].namespace = Namespace(c)
    BY <1>1, <1>2, <1>3 DEF CallsBegun
  <2>2. /\ call'[c].pc # "idle" => call'[c].key \in Keys
        /\ call'[c].pc \in {"consuming", "retiring"} => c \in Delegated
    BY <1>1 DEF CallsBegun
  <2> QED
    BY <2>1, <2>2
<1>6. HeldApart'
  BY <1>1, <1>3 DEF HeldApart
<1>7. HeldUnresolved'
  <2> SUFFICES ASSUME NEW c \in Calls, Holding(c)'
               PROVE  /\ call'[c].action \in reconciled'
                           \/ actions'[call'[c].action].status \in {"reserved", "in_doubt"}
                      /\ call'[c].pc = "reserved" => call'[c].action \notin effected'
                      /\ call'[c].pc = "dispatched" => call'[c].action \in effected'
                      /\ call'[c].pc = "resolving" /\ call'[c].disposition = "performed" =>
                           call'[c].action \in effected'
                      /\ call'[c].pc = "resolving" /\ call'[c].disposition = "not_performed" =>
                           call'[c].action \notin effected'
    BY DEF HeldUnresolved
  <2>1. Holding(c) /\ call'[c] = call[c] /\ call[c].action \in ActionIds
    BY <1>1, <1>3 DEF CallsBegun
  <2>2. call'[c].action \in reconciled' \/ actions'[call'[c].action].status \in {"reserved", "in_doubt"}
    BY <1>1, <1>2, <2>1 DEF HeldUnresolved
  <2> QED
    BY <1>1, <2>1, <2>2 DEF HeldUnresolved
<1>8. OneOpenPerKey'
  <2>1. \A j \in ActionIds : actions'[j].status \in OpenStatuses => actions[j].status \in OpenStatuses
    BY <1>2
  <2> QED
    BY <1>1, <1>2, <2>1 DEF OneOpenPerKey
<1>9. EvidenceSound'
  <2> SUFFICES ASSUME NEW j \in ActionIds, j \notin reconciled'
               PROVE  /\ actions'[j].status = "performed" => j \in effected
                      /\ actions'[j].status = "not_performed" => j \notin effected
    BY <1>2 DEF EvidenceSound
  <2>1. CASE j = i
    BY <1>2, <2>1
  <2>2. CASE j # i
    BY <1>1, <1>2, <2>2 DEF EvidenceSound
  <2> QED
    BY <2>1, <2>2
<1> QED
  BY <1>4, <1>5, <1>6, <1>7, <1>8, <1>9 DEF CoreInv

\* Recovery strands a reservation, an operator reconciles an action in doubt.
LEMMA OperatorKeeps ==
  ASSUME CoreInv, NEW i \in ActionIds,
         StrandAction(i) \/ \E d \in {"performed", "not_performed"} : ReconcileAction(i, d)
  PROVE  CoreInv'
<1>1. /\ effected' = effected /\ runs' \in [Runs -> RunRow] /\ call' = call
      /\ call' \in [Calls -> CallRow]
  BY DEF StrandAction, ReconcileAction, CoreInv, LedgerTypes
<1>2. CASE StrandAction(i)
  <2>1. /\ actions' = [actions EXCEPT ![i].status = "in_doubt"] /\ reconciled' = reconciled
        /\ actions[i].status \in OpenStatuses
    BY <1>2 DEF StrandAction, OpenStatuses
  <2> QED
    BY <1>1, <2>1, StatusKeeps
<1>3. ASSUME NEW d \in {"performed", "not_performed"}, ReconcileAction(i, d) PROVE CoreInv'
  <2>1. /\ actions' = [actions EXCEPT ![i].status = d] /\ reconciled' = reconciled \cup {i}
        /\ actions[i].status \in OpenStatuses
    BY <1>3 DEF ReconcileAction, OpenStatuses
  <2>2. i \in reconciled'
    BY <2>1
  <2> QED
    BY <1>1, <2>1, <2>2, StatusKeeps
<1> QED
  BY <1>2, <1>3

\* A call resolves its action, unless recovery or an operator was faster.
LEMMA ResolveKeeps ==
  ASSUME CoreInv, NEW c \in Calls, ResolveAction(c)
  PROVE  CoreInv'
<1> DEFINE a == call[c].action
           d == call[c].disposition
<1>1. /\ LedgerTypes /\ CallsBegun /\ HeldApart /\ HeldUnresolved
      /\ call[c].pc = "resolving" /\ Holding(c) /\ call[c] \in CallRow
  BY LedgerRows DEF CoreInv, ResolveAction, Holding
<1>2. /\ a \in ActionIds /\ UNCHANGED <<runs, effected, reconciled>> /\ call[c].key \in Keys
      /\ runs' \in [Runs -> RunRow] /\ d \in Dispositions
  BY <1>1 DEF CallsBegun, ResolveAction, LedgerTypes, CallRow
<1>3. /\ call' \in [Calls -> CallRow] /\ \A e \in Calls : e # c => call'[e] = call[e]
      /\ ~Holding(c)' /\ (call'[c].pc = "idle" \/ call'[c].key = call[c].key)
      /\ call'[c].pc \in {"consuming", "retiring"} => c \in Delegated
  <2>1. CASE EndCall(c)
    BY <1>1, <2>1, CallEnded DEF Holding
  <2>2. CASE CallAt(c, "consuming") /\ c \in Delegated
    <3>1. /\ call' \in [Calls -> CallRow] /\ call'[c].pc = "consuming" /\ call'[c].key = call[c].key
          /\ \A e \in Calls : e # c => call'[e] = call[e]
      BY <1>1, <2>2, CallGoesOn DEF CallPCs
    <3> QED
      BY <2>2, <3>1 DEF Holding
  <2> QED
    BY <2>1, <2>2 DEF ResolveAction
<1>4. CASE actions[a].status = "reserved"
  <2>1. actions' = [actions EXCEPT ![a].status = d]
    BY <1>4 DEF ResolveAction
  <2>2. d \in {"reserved", "performed", "not_performed", "in_doubt"} /\ actions[a].status \in OpenStatuses
    BY <1>2, <1>4 DEF Dispositions, OpenStatuses
  <2>3. (d = "performed" => a \in effected) /\ (d = "not_performed" => a \notin effected)
    BY <1>1 DEF HeldUnresolved
  <2>4. \A e \in Calls : Holding(e)' => call'[e].action # a
    BY <1>1, <1>3 DEF HeldApart, Holding
  <2>5. \A e \in Calls :
           \/ call'[e] = call[e]
           \/ /\ ~Holding(e)' /\ call'[e].pc # "idle" => call'[e].key \in Keys
              /\ ~Holding(e)' /\ call'[e].pc \in {"consuming", "retiring"} => e \in Delegated
              /\ ~Holding(e)'
    BY <1>2, <1>3
  <2> HIDE DEF a, d
  <2> QED
    BY <1>2, <1>3, <2>1, <2>2, <2>3, <2>4, <2>5, StatusKeeps
<1>5. CASE actions[a].status # "reserved"
  <2>1. actions' = actions
    <3>1. actions \in Seq(ActionRow) /\ a \in 1..Len(actions) /\ actions[a] \in ActionRow
      BY <1>1, <1>2, LedgerRows DEF LedgerTypes, ActionIds
    <3>2. actions' = [actions EXCEPT ![a].status = actions[a].status]
      BY <1>5 DEF ResolveAction
    <3>3. [actions[a] EXCEPT !.status = actions[a].status] = actions[a]
      BY <3>1 DEF ActionRow
    <3>4. actions' = [actions EXCEPT ![a] = actions[a]]
      BY <3>2, <3>3
    <3> QED
      BY <3>1, <3>4
  <2>2. CallMoves(c)
    BY <1>2, <1>3 DEF CallMoves
  <2> QED
    BY <1>2, <1>3, <2>1, <2>2, OneCallKeeps
<1> QED
  BY <1>4, <1>5

\* A reservation appends an action whose key is free.
LEMMA ReserveKeeps ==
  ASSUME CoreInv, NEW c \in Calls, ReserveAction(c)
  PROVE  /\ CoreInv' /\ Len(actions') = Len(actions) + 1
         /\ actions'[Len(actions')].namespace = Namespace(c)
         /\ actions'[Len(actions')].run = RunOf[c]
         /\ actions'[Len(actions')].status = "reserved"
         /\ \A i \in ActionIds : actions'[i] = actions[i]
         /\ \A d \in Calls : d # c => call'[d] = call[d]
         /\ call'[c].pc = "reserved"
<1> DEFINE n == Len(actions) + 1
           new == [namespace |-> Namespace(c), key |-> call[c].key, run |-> RunOf[c],
                   amount |-> call[c].amount, status |-> "reserved"]
           row == [call[c] EXCEPT !.pc = "reserved", !.action = n]
<1>1. /\ LedgerTypes /\ CallsBegun /\ HeldApart /\ HeldUnresolved /\ EvidenceSound /\ OneOpenPerKey
      /\ call[c].pc = "reserving" /\ call[c] \in CallRow /\ FreshKey(c)
      /\ actions \in Seq(ActionRow) /\ Len(actions) \in Nat
  BY LedgerRows DEF CoreInv, ReserveAction, Reservable, LedgerTypes
<1>2. /\ actions' = Append(actions, new) /\ UNCHANGED <<effected, reconciled>>
      /\ call' = [call EXCEPT ![c] = row]
  BY <1>1 DEF ReserveAction, InsertAction, LedgerTypes, CallRow
<1>3. new \in ActionRow
  <2>1. RunOf[c] \in Runs
    BY LedgerAssumption
  <2>2. call[c].key \in Keys /\ call[c].amount \in Amounts \cup {0}
    BY <1>1 DEF CallsBegun, CallRow
  <2> QED
    BY <2>1, <2>2 DEF ActionRow, Namespace
<1>4. row \in CallRow /\ row.pc = "reserved" /\ row.action = n /\ row.key = call[c].key
  <2>1. n \in Nat
    BY <1>1
  <2> HIDE DEF n
  <2> QED
    BY <1>1, <2>1 DEF CallRow, CallPCs
<1>5. new.namespace = Namespace(c) /\ new.key = call[c].key /\ new.run = RunOf[c] /\ new.status = "reserved"
  OBVIOUS
<1> HIDE DEF new, row
<1>6. /\ actions' \in Seq(ActionRow) /\ Len(actions') = n /\ actions'[n] = new
      /\ \A i \in ActionIds : actions'[i] = actions[i]
  BY <1>1, <1>2, <1>3 DEF ActionIds
<1>7. ActionIds' = ActionIds \cup {n} /\ n \notin ActionIds /\ n \in Nat
  BY <1>1, <1>6 DEF ActionIds
<1>8. /\ call' \in [Calls -> CallRow] /\ call'[c] = row /\ \A d \in Calls : d # c => call'[d] = call[d]
  BY <1>1, <1>2, <1>4, OneCall
<1>9. runs' \in [Runs -> RunRow]
  <2>1. runs \in [Runs -> RunRow] /\ RunOf[c] \in Runs
    BY <1>1, LedgerAssumption DEF LedgerTypes
  <2>2. runs[RunOf[c]].calls \in Nat /\ runs[RunOf[c]].calls + 1 \in Nat
    BY <2>1 DEF RunRow
  <2>3. PICK k \in Nat : runs' = [runs EXCEPT ![RunOf[c]].calls = k]
    BY <2>2 DEF ReserveAction
  <2> QED
    BY <2>1, <2>3 DEF RunRow
<1>10. LedgerTypes'
  BY <1>1, <1>2, <1>6, <1>7, <1>8, <1>9 DEF LedgerTypes
<1> HIDE DEF n
<1>11. \A d \in Calls : d # c => (Holding(d)' <=> Holding(d)) /\ (Holding(d) => call[d].action \in ActionIds)
  BY <1>1, <1>8 DEF Holding, CallsBegun
<1>12. CallsBegun'
  <2> SUFFICES ASSUME NEW d \in Calls
               PROVE  /\ call'[d].pc # "idle" => call'[d].key \in Keys
                      /\ call'[d].pc \in {"consuming", "retiring"} => d \in Delegated
                      /\ Holding(d)' => call'[d].action \in ActionIds'
                      /\ Holding(d)' => actions'[call'[d].action].namespace = Namespace(d)
    BY DEF CallsBegun, Namespace
  <2>1. CASE d = c
    <3>1. call[c].key \in Keys
      BY <1>1 DEF CallsBegun
    <3> QED
      BY <1>4, <1>5, <1>6, <1>7, <1>8, <2>1, <3>1
  <2>2. CASE d # c
    BY <1>1, <1>6, <1>7, <1>8, <1>11, <2>2 DEF CallsBegun
  <2> QED
    BY <2>1, <2>2
<1>13. HeldApart'
  <2>1. \A d \in Calls : d # c /\ Holding(d)' => call'[d].action # n
    BY <1>7, <1>8, <1>11
  <2> QED
    BY <1>1, <1>4, <1>8, <1>11, <2>1 DEF HeldApart
<1>14. HeldUnresolved'
  <2> SUFFICES ASSUME NEW d \in Calls, Holding(d)'
               PROVE  /\ call'[d].action \in reconciled'
                           \/ actions'[call'[d].action].status \in {"reserved", "in_doubt"}
                      /\ call'[d].pc = "reserved" => call'[d].action \notin effected'
                      /\ call'[d].pc = "dispatched" => call'[d].action \in effected'
                      /\ call'[d].pc = "resolving" /\ call'[d].disposition = "performed" =>
                           call'[d].action \in effected'
                      /\ call'[d].pc = "resolving" /\ call'[d].disposition = "not_performed" =>
                           call'[d].action \notin effected'
    BY DEF HeldUnresolved
  <2>1. CASE d = c
    <3>1. n \notin effected
      BY <1>1, <1>7 DEF LedgerTypes
    <3> QED
      BY <1>2, <1>4, <1>5, <1>6, <1>8, <2>1, <3>1
  <2>2. CASE d # c
    <3>1. /\ Holding(d) /\ call'[d] = call[d] /\ call[d].action \in ActionIds
          /\ actions'[call[d].action] = actions[call[d].action]
      BY <1>6, <1>8, <1>11, <2>2
    <3>2. /\ call[d].action \in reconciled
               \/ actions[call[d].action].status \in {"reserved", "in_doubt"}
          /\ call[d].pc = "reserved" => call[d].action \notin effected
          /\ call[d].pc = "dispatched" => call[d].action \in effected
          /\ call[d].pc = "resolving" /\ call[d].disposition = "performed" =>
               call[d].action \in effected
          /\ call[d].pc = "resolving" /\ call[d].disposition = "not_performed" =>
               call[d].action \notin effected
      BY <1>1, <3>1 DEF HeldUnresolved
    <3>3. effected' = effected /\ reconciled' = reconciled /\ call'[d].action = call[d].action
          /\ call'[d].pc = call[d].pc /\ call'[d].disposition = call[d].disposition
      BY <1>2, <3>1
    <3>4. actions'[call'[d].action].status = actions[call[d].action].status
      BY <3>1
    <3> QED
      BY <3>2, <3>3, <3>4
  <2> QED
    BY <2>1, <2>2
<1>15. OneOpenPerKey'
  <2>1. \A i \in ActionIds : /\ actions[i].namespace = Namespace(c) /\ actions[i].key = call[c].key
                             => actions[i].status \notin OpenStatuses
    BY <1>1 DEF FreshKey
  <2> QED
    BY <1>1, <1>5, <1>6, <1>7, <2>1 DEF OneOpenPerKey
<1>16. EvidenceSound'
  BY <1>1, <1>2, <1>5, <1>6, <1>7 DEF EvidenceSound
<1> QED
  BY <1>4, <1>5, <1>6, <1>8, <1>10, <1>12, <1>13, <1>14, <1>15, <1>16 DEF CoreInv, n

-------------------------------------------------------------------------------
(* The grant *)

\* The first termination stays, and no step makes a terminated budget active.
LEMMA TerminationStep ==
  ASSUME LedgerInv, LedgerNext
  PROVE  TerminationHolds' /\ (tombstone # "none" => tombstone' # "none")
<1>1. TerminationHolds
  BY DEF LedgerInv, GrantInv
<1>2. CASE UNCHANGED <<budget, tombstone, revoker>>
  BY <1>1, <1>2 DEF TerminationHolds
<1>3. ASSUME NEW status \in {"revoked", "consumed"}, SetBudget(status), revoker' \in {revoker, "authority", "done"}
      PROVE  TerminationHolds' /\ (tombstone # "none" => tombstone' # "none")
  <2> DEFINE first == IF tombstone = "none" THEN status ELSE tombstone
  <2>1. first \in {"revoked", "consumed"} /\ tombstone' = first
    BY <1>1, <1>3 DEF SetBudget, TerminationHolds
  <2>2. budget' = [budget EXCEPT !.status = IF @ = "none" THEN @ ELSE first]
    BY <1>3 DEF SetBudget
  <2> HIDE DEF first
  <2> QED
    BY <1>1, <2>1, <2>2 DEF TerminationHolds
<1>4. CASE SeedBudget
  BY <1>1, <1>4 DEF SeedBudget, TerminationHolds
<1>5. ASSUME NEW c \in Calls, EffectStep(c) PROVE TerminationHolds' /\ (tombstone # "none" => tombstone' # "none")
  <2>1. CASE ReserveAction(c)
    <3>1. call[c].amount \in Nat
      <4>1. call[c] \in CallRow
        BY LedgerRows DEF LedgerInv, CoreInv
      <4>2. call[c].amount \in Amounts \cup {0}
        BY <4>1 DEF CallRow
      <4>3. Amounts \subseteq Nat
        BY LedgerAssumption
      <4>4. \A x \in Amounts \cup {0} : x \in Nat
        BY <4>3
      <4> QED
        BY <4>2, <4>4
    <3>2. /\ budget.effects + 1 \in Nat /\ budget.money + call[c].amount \in Nat
      BY <1>1, <3>1 DEF TerminationHolds
    <3>3. \/ budget' = budget
          \/ budget' = [budget EXCEPT !.effects = budget.effects + 1,
                                      !.money = budget.money + call[c].amount]
      BY <2>1 DEF ReserveAction, BudgetAfter
    <3>4. UNCHANGED <<tombstone, revoker>>
      BY <2>1 DEF ReserveAction
    <3> QED
      BY <1>1, <3>2, <3>3, <3>4 DEF TerminationHolds
  <2>2. CASE RefuseAction(c)
    BY <1>1, <2>2 DEF RefuseAction, TerminationHolds
  <2>3. CASE RetireBudget(c)
    BY <1>3, <2>3 DEF RetireBudget
  <2> QED
    BY <1>2, <1>5, <2>1, <2>2, <2>3 DEF EffectStep, BeginEffect, AdmitCall, AbandonCall, PerformEffect,
       ReceiveOutcome, ResolveAction, ConsumeGrant, FailResolution, FailFinalization, ledgerTables
<1>6. CASE RevokeBudget
  BY <1>3, <1>6 DEF RevokeBudget
<1>7. CASE RevokeAuthority \/ FailRevoke \/ \E way \in {"both", "command"} : BeginRevoke(way)
  BY <1>1, <1>7 DEF RevokeAuthority, FailRevoke, BeginRevoke, TerminationHolds, ledgerTables
<1> QED
  BY <1>2, <1>4, <1>5, <1>6, <1>7 DEF LedgerNext, StartRun, FinishRun, CrashRun, LoadActive, StrandAction,
     ReconcileAction, ExpireGrant, ledgerTables

\* A run that exists does not become absent, one that is over does not come back.
RunsAdvance ==
  \A r \in Runs :
    /\ runs[r].state # "absent" => runs'[r].state # "absent"
    /\ runs[r].state \in {"finished", "dead"} => runs'[r].state \in {"finished", "dead"}

\* It is enough to look at the actions that are new, newly ambiguous or being finalized.
LEMMA FrozenKeeps ==
  ASSUME LedgerInv, RunsAdvance, tombstone # "none" => tombstone' # "none", stranded \subseteq stranded',
         cutShort \subseteq cutShort',
         \A i \in ActionIds' : i \in ActionIds =>
           actions'[i].namespace = actions[i].namespace /\ actions'[i].run = actions[i].run,
         \A i \in ActionIds' : i \notin ActionIds =>
           /\ actions'[i].status # "in_doubt"
           /\ actions'[i].namespace = "grant" =>
                actions'[i].run = GrantRun /\ GrantRun \in Runs /\ runs'[GrantRun].state # "absent",
         \A i \in ActionIds : actions'[i].status = "in_doubt" =>
           actions[i].status = "in_doubt" \/ i \in stranded' \/ (actions[i].namespace = "grant" => Frozen(i)'),
         \A i \in ActionIds : Finalizing(i) => Frozen(i)'
  PROVE  GrantActions' /\ DoubtRetires'
<1>1. GrantActions /\ DoubtRetires
  BY DEF LedgerInv, GrantInv
<1>2. GrantActions'
  <2> SUFFICES ASSUME NEW i \in ActionIds', actions'[i].namespace = "grant"
               PROVE  actions'[i].run = GrantRun /\ GrantRun \in Runs /\ runs'[GrantRun].state # "absent"
    BY DEF GrantActions
  <2>1. CASE i \in ActionIds
    BY <1>1, <2>1 DEF GrantActions, RunsAdvance
  <2>2. CASE i \notin ActionIds
    BY <2>2
  <2> QED
    BY <2>1, <2>2
<1>3. DoubtRetires'
  <2> SUFFICES ASSUME NEW i \in ActionIds', i \notin stranded', actions'[i].namespace = "grant",
                      actions'[i].status = "in_doubt"
               PROVE  Frozen(i)'
    BY DEF DoubtRetires
  <2>1. i \in ActionIds /\ actions[i].namespace = "grant" /\ i \notin stranded
    OBVIOUS
  <2>2. CASE actions[i].status # "in_doubt"
    BY <2>1, <2>2
  <2>3. CASE actions[i].status = "in_doubt"
    <3>1. Frozen(i) /\ GrantRun \in Runs
      BY <1>1, <2>1, <2>3 DEF DoubtRetires, GrantActions
    <3>2. CASE Finalizing(i)
      BY <2>1, <3>2
    <3>3. CASE ~Finalizing(i)
      BY <3>1, <3>3 DEF Frozen, RunsAdvance
    <3> QED
      BY <3>2, <3>3
  <2> QED
    BY <2>2, <2>3
<1> QED
  BY <1>2, <1>3

\* An action that a call finalizes stays so while the call stays where it is.
LEMMA StillFinalizing ==
  ASSUME NEW i, Finalizing(i), cutShort \subseteq cutShort',
         \A c \in Calls : call[c].pc \in {"consuming", "retiring"} =>
           /\ call'[c].pc \in {"consuming", "retiring"} /\ call'[c].action = call[c].action
  PROVE  Frozen(i)'
  BY DEF Finalizing, Frozen

\* No step leaves an ambiguous action of the grant without freezing the grant.
LEMMA FrozenStep ==
  ASSUME LedgerInv, LedgerNext, tombstone # "none" => tombstone' # "none"
  PROVE  GrantActions' /\ DoubtRetires'
<1>1. LedgerTypes /\ CallsBegun /\ GrantActions
  BY DEF LedgerInv, CoreInv, GrantInv
<1>2. ASSUME NEW c \in Delegated PROVE RunOf[c] = GrantRun /\ GrantRun \in Runs /\ c \in Calls
  BY <1>2, LedgerAssumption
<1>3. ASSUME runs' = runs PROVE RunsAdvance
  BY <1>3 DEF RunsAdvance
<1>4. ASSUME actions' = actions, stranded' = stranded, RunsAdvance, cutShort \subseteq cutShort',
             \A i \in ActionIds : Finalizing(i) => Frozen(i)'
      PROVE  GrantActions' /\ DoubtRetires'
  <2>1. ActionIds' = ActionIds
    BY <1>4 DEF ActionIds
  <2> QED
    BY <1>4, <2>1, FrozenKeeps
<1>5. ASSUME NEW r \in Runs, StartRun(r) \/ FinishRun(r) PROVE GrantActions' /\ DoubtRetires'
  <2>1. UNCHANGED <<actions, call, stranded, cutShort>>
    BY <1>5 DEF StartRun, FinishRun
  <2>2. PICK state \in {"open", "finished"} :
          /\ runs' = [runs EXCEPT ![r].state = state]
          /\ runs[r].state \in {"finished", "dead"} => FALSE
    BY <1>5 DEF StartRun, FinishRun, RunAlive
  <2>3. runs'[r].state = state /\ \A q \in Runs : q # r => runs'[q] = runs[q]
    BY <1>1, <2>2, RunStepTypes
  <2>4. RunsAdvance
    BY <2>2, <2>3 DEF RunsAdvance
  <2>5. \A i \in ActionIds : Finalizing(i) => Frozen(i)'
    BY <2>1, StillFinalizing
  <2> QED
    BY <1>4, <2>1, <2>4, <2>5
<1>6. ASSUME NEW r \in Runs, CrashRun(r) PROVE GrantActions' /\ DoubtRetires'
  <2>1. /\ UNCHANGED <<actions, stranded, cutShort>> /\ runs' = [runs EXCEPT ![r].state = "dead"]
        /\ \A c \in Calls : RunOf[c] # r => call'[c] = call[c]
    BY <1>6 DEF CrashRun
  <2>2. runs'[r].state = "dead" /\ \A q \in Runs : q # r => runs'[q] = runs[q]
    BY <1>1, <2>1, RunStepTypes
  <2>3. RunsAdvance
    BY <2>2 DEF RunsAdvance
  <2>4. ASSUME NEW i \in ActionIds, Finalizing(i) PROVE Frozen(i)'
    <3>1. PICK c \in Calls : call[c].action = i /\ call[c].pc \in {"consuming", "retiring"}
      BY <2>4 DEF Finalizing
    <3>2. RunOf[c] = GrantRun /\ GrantRun \in Runs
      BY <1>1, <1>2, <3>1 DEF CallsBegun
    <3>3. CASE RunOf[c] = r
      BY <2>2, <3>2, <3>3 DEF Frozen
    <3>4. CASE RunOf[c] # r
      BY <2>1, <3>1, <3>4 DEF Frozen, Finalizing
    <3> QED
      BY <3>3, <3>4
  <2> QED
    BY <1>4, <2>1, <2>3, <2>4
<1>7. ASSUME UNCHANGED <<actions, runs, stranded, call, cutShort>> PROVE GrantActions' /\ DoubtRetires'
  <2>1. \A i \in ActionIds : Finalizing(i) => Frozen(i)'
    BY <1>7, StillFinalizing
  <2> QED
    BY <1>3, <1>4, <1>7, <2>1
<1>8. ASSUME NEW c \in Calls, UNCHANGED <<actions, runs, stranded, cutShort>>,
             \A d \in Calls : d # c => call'[d] = call[d],
             \/ call[c].pc \notin {"consuming", "retiring"}
             \/ call'[c].pc \in {"consuming", "retiring"} /\ call'[c].action = call[c].action
      PROVE  GrantActions' /\ DoubtRetires'
  <2>1. \A d \in Calls : call[d].pc \in {"consuming", "retiring"} =>
           /\ call'[d].pc \in {"consuming", "retiring"} /\ call'[d].action = call[d].action
    BY <1>8
  <2>2. \A i \in ActionIds : Finalizing(i) => Frozen(i)'
    BY <1>8, <2>1, StillFinalizing
  <2> QED
    BY <1>3, <1>4, <1>8, <2>2
<1>9. ASSUME NEW c \in Calls, EffectStep(c) PROVE GrantActions' /\ DoubtRetires'
  <2>1. CASE ReserveAction(c)
    <3>1. /\ CoreInv' /\ Len(actions') = Len(actions) + 1
          /\ actions'[Len(actions')].namespace = Namespace(c)
          /\ actions'[Len(actions')].run = RunOf[c]
          /\ actions'[Len(actions')].status = "reserved"
          /\ \A i \in ActionIds : actions'[i] = actions[i]
          /\ \A d \in Calls : d # c => call'[d] = call[d]
      BY <2>1, ReserveKeeps DEF LedgerInv
    <3>2. /\ runs[RunOf[c]].state = "open" /\ UNCHANGED <<stranded, cutShort>> /\ call[c].pc = "reserving"
          /\ RunOf[c] \in Runs
      BY <2>1, LedgerAssumption DEF ReserveAction, Reservable, RunHasRoom, RunAlive
    <3>3. \A r \in Runs : runs'[r].state = runs[r].state
      <4>1. runs \in [Runs -> RunRow]
        BY <1>1 DEF LedgerTypes
      <4> QED
        BY <2>1, <4>1 DEF ReserveAction, RunRow
    <3>4. RunsAdvance
      BY <3>3 DEF RunsAdvance
    <3>5. ASSUME NEW i \in ActionIds', i \notin ActionIds PROVE i = Len(actions')
      BY <1>1, <3>1, <3>5, LedgerRows DEF ActionIds
    <3>6. Namespace(c) = "grant" => RunOf[c] = GrantRun /\ GrantRun \in Runs
      BY <1>2 DEF Namespace
    <3>7. ASSUME NEW i \in ActionIds', i \notin ActionIds
          PROVE  /\ actions'[i].status # "in_doubt"
                 /\ actions'[i].namespace = "grant" =>
                      actions'[i].run = GrantRun /\ GrantRun \in Runs /\ runs'[GrantRun].state # "absent"
      BY <3>1, <3>2, <3>3, <3>5, <3>6, <3>7
    <3>8. \A i \in ActionIds : Finalizing(i) => Frozen(i)'
      BY <3>1, <3>2, StillFinalizing
    <3> QED
      BY <3>1, <3>2, <3>4, <3>7, <3>8, FrozenKeeps
  <2>2. CASE ResolveAction(c)
    <3> DEFINE a == call[c].action
    <3>1. call[c].pc = "resolving" /\ UNCHANGED <<runs, stranded, cutShort>> /\ a \in ActionIds
          /\ actions[a].namespace = Namespace(c)
      BY <1>1, <2>2 DEF ResolveAction, CallsBegun, Holding
    <3>2. PICK status \in {"reserved", "performed", "not_performed", "in_doubt"} :
            /\ actions' = [actions EXCEPT ![a].status = status]
            /\ status = IF actions[a].status = "reserved" THEN call[c].disposition ELSE actions[a].status
      <4>1. call[c] \in CallRow /\ actions[a] \in ActionRow
        BY <1>1, <3>1, LedgerRows
      <4>2. /\ call[c].disposition \in {"reserved", "performed", "not_performed", "in_doubt"}
            /\ actions[a].status \in {"reserved", "performed", "not_performed", "in_doubt"}
        BY <4>1 DEF CallRow, ActionRow, Dispositions
      <4> QED
        BY <2>2, <4>2 DEF ResolveAction
    <3>3. /\ ActionIds' = ActionIds /\ actions'[a].status = status
          /\ \A j \in ActionIds : j # a => actions'[j] = actions[j]
          /\ \A j \in ActionIds : actions'[j].namespace = actions[j].namespace /\ actions'[j].run = actions[j].run
      BY <1>1, <3>1, <3>2, OneStatus
    <3>4. \A d \in Calls : d # c => call'[d] = call[d]
      <4>1. CASE EndCall(c)
        BY <1>1, <4>1, CallEnded
      <4>2. CASE CallAt(c, "consuming")
        BY <1>1, <4>2, CallGoesOn DEF CallPCs
      <4> QED
        BY <2>2, <4>1, <4>2 DEF ResolveAction
    <3>5. \A i \in ActionIds : Finalizing(i) => Frozen(i)'
      BY <3>1, <3>4, StillFinalizing
    <3>7. RunsAdvance
      BY <1>3, <3>1
    <3>8. \A i \in ActionIds : actions'[i].status = "in_doubt" =>
           actions[i].status = "in_doubt" \/ i \in stranded' \/ (actions[i].namespace = "grant" => Frozen(i)')
      <4> SUFFICES ASSUME NEW i \in ActionIds, actions'[i].status = "in_doubt", actions[i].status # "in_doubt",
                          actions[i].namespace = "grant"
                   PROVE  Frozen(i)'
        OBVIOUS
      <4>1. i = a
        BY <3>3
      <4>2. actions[a].status = "reserved" /\ call[c].disposition = "in_doubt" /\ c \in Delegated
        BY <3>1, <3>2, <3>3, <4>1 DEF Namespace
      <4>3. CallAt(c, "consuming")
        BY <2>2, <4>2 DEF ResolveAction
      <4>4. call'[c].pc = "consuming" /\ call'[c].action = i
        BY <1>1, <4>1, <4>3, CallGoesOn DEF CallPCs
      <4> QED
        BY <4>4 DEF Frozen, Finalizing
    <3> QED
      BY <3>1, <3>3, <3>5, <3>7, <3>8, FrozenKeeps
  <2>3. CASE RetireBudget(c)
    <3>1. UNCHANGED <<actions, runs, stranded, cutShort>> /\ tombstone' # "none"
      BY <2>3 DEF RetireBudget, SetBudget
    <3>2. \A i \in ActionIds : Frozen(i)'
      BY <3>1 DEF Frozen
    <3> QED
      BY <1>3, <1>4, <3>1, <3>2
  <2>4. CASE ConsumeGrant(c)
    <3>1. /\ call'[c].pc = "retiring" /\ call'[c].action = call[c].action
          /\ \A d \in Calls : d # c => call'[d] = call[d]
      BY <1>1, <2>4, CallGoesOn DEF ConsumeGrant, CallPCs
    <3> QED
      BY <1>8, <2>4, <3>1 DEF ConsumeGrant, ledgerTables
  <2>5. CASE \/ \E k \in Keys, m \in Amounts : BeginEffect(c, k, m)
             \/ AdmitCall(c) \/ RefuseAction(c) \/ AbandonCall(c) \/ PerformEffect(c) \/ ReceiveOutcome(c)
             \/ FailResolution(c)
    <3>1. /\ UNCHANGED <<actions, runs, stranded, cutShort>> /\ call[c].pc \notin {"consuming", "retiring"}
          /\ \E row : call' = [call EXCEPT ![c] = row]
      BY <1>1, <2>5 DEF BeginEffect, AdmitCall, RefuseAction, AbandonCall, PerformEffect, ReceiveOutcome,
         FailResolution, CallAt, EndCall, CallEnds, ledgerTables, LedgerTypes
    <3>2. \A d \in Calls : d # c => call'[d] = call[d]
      BY <1>1, <3>1 DEF LedgerTypes
    <3> QED
      BY <1>8, <3>1, <3>2
  <2>6. CASE FailFinalization(c)
    <3>1. /\ UNCHANGED <<actions, runs, stranded>> /\ cutShort' = cutShort \cup {<<call[c].action, call[c].pc>>}
          /\ \A d \in Calls : d # c => call'[d] = call[d]
      BY <1>1, <2>6, CallEnded DEF FailFinalization, ledgerTables
    <3>2. ASSUME NEW i \in ActionIds, Finalizing(i) PROVE Frozen(i)'
      <4>1. PICK d \in Calls : call[d].action = i /\ call[d].pc \in {"consuming", "retiring"}
        BY <3>2 DEF Finalizing
      <4>2. CASE d = c
        BY <3>1, <4>1, <4>2 DEF Frozen
      <4>3. CASE d # c
        BY <3>1, <4>1, <4>3 DEF Frozen, Finalizing
      <4> QED
        BY <4>2, <4>3
    <3> QED
      BY <1>3, <1>4, <3>1, <3>2
  <2> QED
    BY <1>9, <2>1, <2>2, <2>3, <2>4, <2>5, <2>6 DEF EffectStep
<1>10. ASSUME NEW i \in ActionIds, NEW status \in {"performed", "not_performed", "in_doubt"},
              actions' = [actions EXCEPT ![i].status = status], UNCHANGED <<runs, call, cutShort>>,
              stranded \subseteq stranded',
              status = "in_doubt" => i \in stranded' \/ (actions[i].namespace = "grant" => Frozen(i)')
       PROVE  GrantActions' /\ DoubtRetires'
  <2>1. /\ ActionIds' = ActionIds /\ actions'[i].status = status
        /\ \A j \in ActionIds : j # i => actions'[j] = actions[j]
        /\ \A j \in ActionIds : actions'[j].namespace = actions[j].namespace /\ actions'[j].run = actions[j].run
    BY <1>1, <1>10, OneStatus
  <2>2. \A j \in ActionIds : Finalizing(j) => Frozen(j)'
    BY <1>10, StillFinalizing
  <2>3. RunsAdvance
    BY <1>3, <1>10
  <2>4. \A j \in ActionIds : actions'[j].status = "in_doubt" =>
          actions[j].status = "in_doubt" \/ j \in stranded' \/ (actions[j].namespace = "grant" => Frozen(j)')
    BY <1>10, <2>1
  <2> QED
    BY <1>10, <2>1, <2>2, <2>3, <2>4, FrozenKeeps
<1>11. ASSUME NEW i \in ActionIds, StrandAction(i) PROVE GrantActions' /\ DoubtRetires'
  <2>1. /\ actions' = [actions EXCEPT ![i].status = "in_doubt"] /\ UNCHANGED <<runs, call, cutShort>>
        /\ stranded' = IF RunAlive(actions[i].run) THEN stranded \cup {i} ELSE stranded
    BY <1>11 DEF StrandAction
  <2>2. i \in stranded' \/ (actions[i].namespace = "grant" => Frozen(i)')
    <3>1. CASE RunAlive(actions[i].run)
      BY <2>1, <3>1
    <3>2. CASE ~RunAlive(actions[i].run) /\ actions[i].namespace = "grant"
      <4>1. GrantRun \in Runs /\ runs[GrantRun].state \notin {"absent", "open"}
        BY <1>1, <3>2 DEF GrantActions, RunAlive
      <4>2. runs[GrantRun] \in RunRow
        BY <1>1, <4>1 DEF LedgerTypes
      <4>3. runs'[GrantRun].state \in {"finished", "dead"}
        BY <2>1, <4>1, <4>2 DEF RunRow
      <4> QED
        BY <4>3 DEF Frozen
    <3> QED
      BY <3>1, <3>2
  <2>3. stranded \subseteq stranded'
    BY <2>1
  <2> QED
    BY <1>10, <2>1, <2>2, <2>3
<1>12. ASSUME NEW i \in ActionIds, NEW d \in {"performed", "not_performed"}, ReconcileAction(i, d)
       PROVE  GrantActions' /\ DoubtRetires'
  <2>1. /\ actions' = [actions EXCEPT ![i].status = d] /\ UNCHANGED <<runs, call, cutShort>>
        /\ stranded \subseteq stranded'
    BY <1>12 DEF ReconcileAction
  <2> QED
    BY <1>10, <2>1
<1> QED
  BY <1>5, <1>6, <1>7, <1>9, <1>11, <1>12 DEF LedgerNext, LoadActive, SeedBudget, BeginRevoke,
     RevokeAuthority, RevokeBudget, FailRevoke, ExpireGrant, ledgerTables

-------------------------------------------------------------------------------
(* The theorems *)

\* Every step keeps what actions and calls know of each other.
LEMMA CoreStep ==
  ASSUME CoreInv, LedgerNext
  PROVE  CoreInv'
<1>1. ASSUME NEW r \in Runs, StartRun(r) \/ FinishRun(r) \/ CrashRun(r) PROVE CoreInv'
  BY <1>1, RunStepKeeps
<1>2. ASSUME NEW c \in Calls, EffectStep(c) PROVE CoreInv'
  BY <1>2, QuietCallKeeps, PerformKeeps, ResolveKeeps, ReserveKeeps DEF EffectStep
<1>3. ASSUME NEW i \in ActionIds,
             StrandAction(i) \/ \E d \in {"performed", "not_performed"} : ReconcileAction(i, d)
      PROVE  CoreInv'
  BY <1>3, OperatorKeeps
<1> QED
  BY <1>1, <1>2, <1>3, GrantStepKeeps DEF LedgerNext, LoadActive, SeedBudget, BeginRevoke,
     RevokeAuthority, RevokeBudget, FailRevoke, ExpireGrant, ledgerTables

\* Every step keeps the invariant.
LEMMA LedgerInvStep == LedgerInv /\ [LedgerNext]_ledgerVars => LedgerInv'
<1> SUFFICES ASSUME LedgerInv, [LedgerNext]_ledgerVars PROVE LedgerInv'
  OBVIOUS
<1>1. CASE LedgerNext
  <2>1. CoreInv'
    BY <1>1, CoreStep DEF LedgerInv
  <2>2. TerminationHolds' /\ (tombstone # "none" => tombstone' # "none")
    BY <1>1, TerminationStep
  <2>3. GrantActions' /\ DoubtRetires'
    BY <1>1, <2>2, FrozenStep
  <2> QED
    BY <2>1, <2>2, <2>3 DEF LedgerInv, GrantInv
<1>2. CASE UNCHANGED ledgerVars
  <2>1. CoreInv'
    BY <1>2, GrantStepKeeps DEF LedgerInv, ledgerVars
  <2>2. GrantInv'
    BY <1>2 DEF ledgerVars, LedgerInv, GrantInv, TerminationHolds, GrantActions, DoubtRetires, Frozen,
       Finalizing, ActionIds
  <2> QED
    BY <2>1, <2>2 DEF LedgerInv
<1> QED
  BY <1>1, <1>2

\* The invariant holds of an empty ledger.
LEMMA LedgerInvInit == LedgerInit => LedgerInv
<1> SUFFICES ASSUME LedgerInit PROVE LedgerInv
  OBVIOUS
<1>1. actions = <<>> /\ ActionIds = {} /\ effected = {}
  BY DEF LedgerInit, ActionIds
<1>2. NoCall \in CallRow /\ NoCall.pc = "idle"
  BY DEF NoCall, CallRow, CallPCs, Dispositions
<1>3. LedgerTypes
  BY <1>1, <1>2 DEF LedgerInit, LedgerTypes, RunRow
<1>4. \A c \in Calls : call[c].pc = "idle" /\ ~Holding(c)
  BY <1>2 DEF LedgerInit, Holding
<1>5. CallsBegun /\ HeldApart /\ HeldUnresolved
  BY <1>4 DEF CallsBegun, HeldApart, HeldUnresolved
<1>6. OneOpenPerKey /\ EvidenceSound /\ GrantActions /\ DoubtRetires
  BY <1>1 DEF OneOpenPerKey, EvidenceSound, GrantActions, DoubtRetires
<1>7. TerminationHolds
  BY DEF LedgerInit, TerminationHolds
<1> QED
  BY <1>3, <1>5, <1>6, <1>7 DEF LedgerInv, CoreInv, GrantInv

\* The invariant holds in every state of every behaviour.
LEMMA LedgerInvariance == LedgerSpec => []LedgerInv
  BY LedgerInvInit, LedgerInvStep, PTL DEF LedgerSpec

\* The provider performs an occurrence at most once unless an operator stated otherwise,
\* for any number of runs, concurrent calls, crashes and recoveries (reserve_action,
\* resolve_action and strand_reserved_action of jobs/store.py).
THEOREM OccurrenceOnce == LedgerSpec => []EffectedOnce
<1>1. LedgerInv => EffectedOnce
  <2> SUFFICES ASSUME LedgerInv, NEW i \in effected, NEW j \in effected,
                      actions[i].namespace = actions[j].namespace, actions[i].key = actions[j].key,
                      i \notin reconciled, j \notin reconciled
               PROVE  i = j
    BY DEF EffectedOnce
  <2>1. i \in ActionIds /\ j \in ActionIds /\ actions[i] \in ActionRow /\ actions[j] \in ActionRow
    BY LedgerRows DEF LedgerInv, CoreInv, LedgerTypes
  <2>2. actions[i].status \in OpenStatuses /\ actions[j].status \in OpenStatuses
    BY <2>1 DEF LedgerInv, CoreInv, EvidenceSound, ActionRow, OpenStatuses
  <2> QED
    BY <2>1, <2>2 DEF LedgerInv, CoreInv, OneOpenPerKey
<1> QED
  BY <1>1, LedgerInvariance, PTL

\* What the ledger says of an action no operator has reconciled is what happened, although
\* recovery may strand an action whose call is still under way (the dispositions of
\* jobs/effects.py and authority/engine.py).
THEOREM LedgerTellsTruth == LedgerSpec => []EvidenceSound
<1>1. LedgerInv => EvidenceSound
  BY DEF LedgerInv, CoreInv
<1> QED
  BY <1>1, LedgerInvariance, PTL

\* A step that adds an action of the grant finds the grant's run open and its budget
\* active.
LEMMA GrantReservation ==
  ASSUME LedgerInv, [LedgerNext]_ledgerVars, Len(actions') > Len(actions)
  PROVE  \/ actions'[Len(actions')].namespace = "job"
         \/ budget.status = "active" /\ runs[GrantRun].state = "open"
<1>1. LedgerTypes /\ CoreInv
  BY DEF LedgerInv, CoreInv
<1>2. Len(actions) \in Nat
  BY <1>1, LedgerRows
<1>3. ASSUME NEW i \in ActionIds, NEW status, actions' = [actions EXCEPT ![i].status = status] PROVE FALSE
  BY <1>1, <1>2, <1>3 DEF LedgerTypes, ActionIds
<1>4. ASSUME actions' = actions PROVE FALSE
  BY <1>2, <1>4
<1>5. PICK c \in Calls : ReserveAction(c)
  <2>1. ASSUME NEW c \in Calls, ResolveAction(c) PROVE FALSE
    <3>1. call[c].action \in ActionIds
      BY <2>1 DEF ResolveAction, LedgerInv, CoreInv, CallsBegun, Holding
    <3>2. \E status : actions' = [actions EXCEPT ![call[c].action].status = status]
      BY <2>1 DEF ResolveAction
    <3> QED
      BY <1>3, <3>1, <3>2
  <2>2. ASSUME NEW c \in Calls, EffectStep(c) PROVE ReserveAction(c)
    BY <1>4, <2>1, <2>2 DEF EffectStep, BeginEffect, AdmitCall, RefuseAction, AbandonCall, PerformEffect,
       ReceiveOutcome, ConsumeGrant, RetireBudget, FailResolution, FailFinalization, ledgerTables
  <2>3. ASSUME NEW i \in ActionIds,
               StrandAction(i) \/ \E d \in {"performed", "not_performed"} : ReconcileAction(i, d)
        PROVE  FALSE
    BY <1>3, <2>3 DEF StrandAction, ReconcileAction
  <2> QED
    BY <1>4, <2>2, <2>3 DEF LedgerNext, StartRun, FinishRun, CrashRun, LoadActive, SeedBudget, BeginRevoke,
       RevokeAuthority, RevokeBudget, FailRevoke, ExpireGrant, ledgerTables, ledgerVars
<1>6. actions'[Len(actions')].namespace = Namespace(c)
  BY <1>1, <1>5, ReserveKeeps
<1>7. c \in Delegated => budget.status = "active" /\ runs[RunOf[c]].state = "open" /\ RunOf[c] = GrantRun
  BY <1>5, LedgerAssumption DEF ReserveAction, Reservable, BudgetAllows, RunHasRoom, RunAlive
<1> QED
  BY <1>6, <1>7 DEF Namespace

\* A grant whose revocation was reported complete buys nothing more, also when the
\* revocation overtook the seeding of its budget (set_grant_budget_status and
\* seed_grant_budget of jobs/store.py).
THEOREM RevocationIsFinal == LedgerSpec => RevokedForGood
<1>1. LedgerInv /\ [LedgerNext]_ledgerVars =>
        [revoker = "done" /\ Len(actions') > Len(actions)
           => actions'[Len(actions')].namespace = "job"]_ledgerVars
  BY GrantReservation DEF LedgerInv, GrantInv, TerminationHolds
<1> QED
  BY <1>1, LedgerInvariance, PTL DEF LedgerSpec, RevokedForGood

\* A grant that is not active never becomes active again, and a step reaches the budget
\* only after the grant.
LEMMA ConsumedFirstStep ==
  ASSUME LedgerInv, ConsumedFirst, [LedgerNext]_ledgerVars
  PROVE  ConsumedFirst'
<1>1. LedgerTypes
  BY DEF LedgerInv, CoreInv
<1>2. ASSUME cutShort' = cutShort, grant # "active" => grant' # "active",
             \A c \in Calls : call'[c].pc = "retiring" => call[c].pc = "retiring" \/ grant' # "active"
      PROVE  ConsumedFirst'
  BY <1>2 DEF ConsumedFirst
<1>3. ASSUME NEW c \in Calls, NEW row, call' = [call EXCEPT ![c] = row], row.pc # "retiring",
             UNCHANGED <<cutShort, grant>>
      PROVE  ConsumedFirst'
  BY <1>1, <1>2, <1>3 DEF LedgerTypes
<1>4. ASSUME NEW c \in Calls, EffectStep(c) PROVE ConsumedFirst'
  <2>1. CASE ConsumeGrant(c)
    BY <1>2, <2>1 DEF ConsumeGrant
  <2>2. CASE FailFinalization(c)
    <3>1. /\ cutShort' = cutShort \cup {<<call[c].action, call[c].pc>>} /\ grant' = grant
          /\ call'[c].pc = "idle" /\ \A d \in Calls : d # c => call'[d] = call[d]
      BY <1>1, <2>2, CallEnded DEF FailFinalization
    <3> QED
      BY <3>1 DEF ConsumedFirst
  <2>3. CASE \/ AdmitCall(c) \/ RefuseAction(c) \/ ResolveAction(c) \/ RetireBudget(c) \/ PerformEffect(c)
             \/ FailResolution(c)
    <3>1. /\ UNCHANGED <<cutShort, grant>>
          /\ EndCall(c) \/ \E pc \in {"reserving", "dispatched", "consuming"} : CallAt(c, pc)
      BY <2>3 DEF AdmitCall, RefuseAction, ResolveAction, RetireBudget, PerformEffect, FailResolution
    <3>2. ASSUME NEW pc \in {"reserving", "dispatched", "consuming"}, CallAt(c, pc) PROVE ConsumedFirst'
      <4>1. call'[c].pc = pc /\ \A d \in Calls : d # c => call'[d] = call[d]
        BY <1>1, <3>2, CallGoesOn DEF CallPCs
      <4> QED
        BY <1>2, <3>1, <4>1
    <3>3. CASE EndCall(c)
      BY <1>1, <1>2, <3>1, <3>3, CallEnded
    <3> QED
      BY <3>1, <3>2, <3>3
  <2>4. CASE AbandonCall(c) \/ ReceiveOutcome(c)
    <3>1. UNCHANGED <<cutShort, grant>> /\ \E d \in Dispositions : CallEnds(c, d)
      BY <2>4 DEF AbandonCall, ReceiveOutcome, Dispositions
    <3>2. call'[c].pc = "resolving" /\ \A d \in Calls : d # c => call'[d] = call[d]
      BY <1>1, <3>1, CallConcludes
    <3> QED
      BY <1>2, <3>1, <3>2
  <2>5. CASE ReserveAction(c)
    BY <1>2, <2>5, ReserveKeeps DEF ReserveAction, LedgerInv
  <2>6. ASSUME NEW k \in Keys, NEW m \in Amounts, BeginEffect(c, k, m) PROVE ConsumedFirst'
    <3> DEFINE row == [NoCall EXCEPT !.pc = IF c \in Delegated THEN "admitting" ELSE "reserving",
                                     !.key = k, !.amount = m]
    <3>1. row.pc # "retiring" /\ call' = [call EXCEPT ![c] = row] /\ UNCHANGED <<cutShort, grant>>
      BY <2>6 DEF BeginEffect, NoCall
    <3> HIDE DEF row
    <3> QED
      BY <1>3, <3>1
  <2> QED
    BY <1>4, <2>1, <2>2, <2>3, <2>4, <2>5, <2>6 DEF EffectStep
<1>5. ASSUME NEW r \in Runs, CrashRun(r) PROVE ConsumedFirst'
  <2>1. /\ UNCHANGED <<cutShort, grant>>
        /\ \A c \in Calls : call'[c] = call[c] \/ call'[c].pc = "idle"
    BY <1>5, <1>1, LedgerRows DEF CrashRun
  <2> QED
    BY <1>2, <2>1
<1>6. ASSUME UNCHANGED <<cutShort, call>>, grant # "active" => grant' # "active" PROVE ConsumedFirst'
  BY <1>2, <1>6
<1> QED
  BY <1>4, <1>5, <1>6 DEF LedgerNext, StartRun, FinishRun, LoadActive, SeedBudget, BeginRevoke,
     RevokeAuthority, RevokeBudget, FailRevoke, StrandAction, ReconcileAction, ExpireGrant, ledgerVars

\* A run ends only when its calls have, and takes them with it when it dies.
LEMMA CallsOfOpenRunsStep ==
  ASSUME LedgerInv, CallsOfOpenRuns, [LedgerNext]_ledgerVars
  PROVE  CallsOfOpenRuns'
<1>1. LedgerTypes /\ \A c \in Calls : RunOf[c] \in Runs
  BY LedgerAssumption DEF LedgerInv, CoreInv
<1>2. ASSUME \A r \in Runs : runs'[r].state = runs[r].state,
             \A c \in Calls : \/ call'[c].pc = "idle"
                              \/ call[c].pc # "idle" /\ (call'[c].pc = "admitting" => call[c].pc = "admitting")
      PROVE  CallsOfOpenRuns'
  BY <1>1, <1>2 DEF CallsOfOpenRuns, RunAlive
<1>3. ASSUME NEW c \in Calls, EffectStep(c) PROVE CallsOfOpenRuns'
  <2>1. CASE ReserveAction(c)
    <3>1. \A r \in Runs : runs'[r].state = runs[r].state
      <4>1. runs \in [Runs -> RunRow]
        BY <1>1 DEF LedgerTypes
      <4> QED
        BY <2>1, <4>1 DEF ReserveAction, RunRow
    <3>2. /\ call'[c].pc = "reserved" /\ call[c].pc = "reserving"
          /\ \A d \in Calls : d # c => call'[d] = call[d]
      BY <2>1, ReserveKeeps DEF ReserveAction, LedgerInv
    <3> QED
      BY <1>2, <3>1, <3>2
  <2>2. CASE \/ AdmitCall(c) \/ RefuseAction(c) \/ ResolveAction(c) \/ RetireBudget(c) \/ PerformEffect(c)
             \/ ConsumeGrant(c) \/ FailResolution(c) \/ FailFinalization(c)
    <3>1. /\ runs' = runs /\ call[c].pc # "idle"
          /\ EndCall(c) \/ \E pc \in {"reserving", "dispatched", "consuming", "retiring"} : CallAt(c, pc)
      BY <2>2 DEF AdmitCall, RefuseAction, ResolveAction, RetireBudget, PerformEffect, ConsumeGrant,
         FailResolution, FailFinalization, ledgerTables
    <3>2. ASSUME NEW pc \in {"reserving", "dispatched", "consuming", "retiring"}, CallAt(c, pc)
          PROVE  CallsOfOpenRuns'
      <4>1. call'[c].pc = pc /\ \A d \in Calls : d # c => call'[d] = call[d]
        BY <1>1, <3>2, CallGoesOn DEF CallPCs
      <4> QED
        BY <1>2, <3>1, <4>1
    <3>3. CASE EndCall(c)
      BY <1>1, <1>2, <3>1, <3>3, CallEnded
    <3> QED
      BY <3>1, <3>2, <3>3
  <2>3. CASE AbandonCall(c) \/ ReceiveOutcome(c)
    <3>1. runs' = runs /\ call[c].pc # "idle" /\ \E d \in Dispositions : CallEnds(c, d)
      BY <2>3 DEF AbandonCall, ReceiveOutcome, Dispositions, ledgerTables
    <3>2. call'[c].pc = "resolving" /\ \A d \in Calls : d # c => call'[d] = call[d]
      BY <1>1, <3>1, CallConcludes
    <3> QED
      BY <1>2, <3>1, <3>2
  <2>4. ASSUME NEW k \in Keys, NEW m \in Amounts, BeginEffect(c, k, m) PROVE CallsOfOpenRuns'
    <3> DEFINE row == [NoCall EXCEPT !.pc = IF c \in Delegated THEN "admitting" ELSE "reserving",
                                     !.key = k, !.amount = m]
    <3>1. /\ row.pc = "admitting" => c \in Delegated
          /\ call' = [call EXCEPT ![c] = row] /\ runs' = runs /\ RunAlive(RunOf[c])
      BY <2>4 DEF BeginEffect, NoCall, ledgerTables
    <3> HIDE DEF row
    <3>2. call'[c] = row /\ \A d \in Calls : d # c => call'[d] = call[d]
      BY <1>1, <3>1 DEF LedgerTypes
    <3> QED
      BY <3>1, <3>2 DEF CallsOfOpenRuns, RunAlive
  <2> QED
    BY <1>3, <2>1, <2>2, <2>3, <2>4 DEF EffectStep
<1>4. ASSUME NEW r \in Runs, StartRun(r) \/ FinishRun(r) \/ CrashRun(r) PROVE CallsOfOpenRuns'
  <2>1. PICK state \in {"open", "finished", "dead"} :
          /\ runs' = [runs EXCEPT ![r].state = state]
          /\ state = "open" => call' = call
          /\ state # "open" => \A c \in Calls : RunOf[c] = r => call'[c].pc = "idle"
    BY <1>1, <1>4, LedgerRows DEF StartRun, FinishRun, CrashRun
  <2>2. runs'[r].state = state /\ \A q \in Runs : q # r => runs'[q] = runs[q]
    BY <1>1, <2>1, RunStepTypes
  <2>3. \A c \in Calls : call'[c] = call[c] \/ call'[c].pc = "idle"
    BY <1>1, <1>4, LedgerRows DEF StartRun, FinishRun, CrashRun
  <2> QED
    BY <1>1, <2>1, <2>2, <2>3 DEF CallsOfOpenRuns, RunAlive
<1>5. ASSUME UNCHANGED <<runs, call>> PROVE CallsOfOpenRuns'
  BY <1>5 DEF CallsOfOpenRuns, RunAlive
<1> QED
  BY <1>3, <1>4, <1>5 DEF LedgerNext, LoadActive, SeedBudget, BeginRevoke, RevokeAuthority, RevokeBudget,
     FailRevoke, StrandAction, ReconcileAction, ExpireGrant, ledgerTables, ledgerVars

\* A delegated call is admitted only to an active grant with an active budget and by its
\* open run.
LEMMA Admission ==
  ASSUME LedgerInv, AdmissionInv, [LedgerNext]_ledgerVars, NEW c \in Calls, Admits(c)
  PROVE  grant = "active" /\ budget.status = "active" /\ runs[GrantRun].state = "open"
<1>1. LedgerTypes /\ call[c].pc = "admitting" /\ call'[c].pc = "reserving"
  BY DEF LedgerInv, CoreInv, Admits
<1>2. ASSUME NEW d \in Calls, EffectStep(d) PROVE AdmitCall(c) /\ Admissible(c)
  <2>1. CASE d # c
    <3>1. \/ ReserveAction(d) \/ \E row : call' = [call EXCEPT ![d] = row]
      BY <1>1, <1>2 DEF EffectStep, BeginEffect, AdmitCall, RefuseAction, AbandonCall, PerformEffect,
         ReceiveOutcome, ResolveAction, ConsumeGrant, RetireBudget, FailResolution,
         FailFinalization, EndCall, CallAt, CallEnds, LedgerTypes
    <3>2. call'[c] = call[c]
      BY <1>1, <2>1, <3>1, ReserveKeeps DEF LedgerInv, LedgerTypes
    <3> QED
      BY <1>1, <3>2
  <2>2. CASE d = c
    <3>1. AdmitCall(c)
      BY <1>1, <1>2, <2>2 DEF EffectStep, BeginEffect, ReserveAction, RefuseAction, AbandonCall,
         PerformEffect, ReceiveOutcome, ResolveAction, ConsumeGrant, RetireBudget,
         FailResolution, FailFinalization
    <3> QED
      BY <1>1, <3>1, CallEnded DEF AdmitCall
  <2> QED
    BY <2>1, <2>2
<1>3. ASSUME \A d \in Calls : call'[d] = call[d] \/ call'[d].pc = "idle" PROVE FALSE
  BY <1>1, <1>3
<1>4. ASSUME NEW r \in Runs, StartRun(r) \/ FinishRun(r) \/ CrashRun(r) PROVE FALSE
  BY <1>1, <1>3, <1>4, LedgerRows DEF StartRun, FinishRun, CrashRun
<1>5. Admissible(c)
  BY <1>2, <1>3, <1>4 DEF LedgerNext, LoadActive, SeedBudget, BeginRevoke, RevokeAuthority, RevokeBudget,
     FailRevoke, StrandAction, ReconcileAction, ExpireGrant, ledgerVars
<1>6. RunAlive(GrantRun)
  BY <1>1, LedgerAssumption DEF AdmissionInv, CallsOfOpenRuns
<1> QED
  BY <1>5, <1>6 DEF Admissible, RunAlive

\* The invariant of admission holds in every state of every behaviour.
LEMMA AdmissionInvariance == LedgerSpec => [](LedgerInv /\ AdmissionInv)
<1>1. LedgerInit => AdmissionInv
  BY LedgerInvInit, LedgerRows DEF LedgerInit, LedgerInv, CoreInv, AdmissionInv, ConsumedFirst, CallsOfOpenRuns
<1>2. LedgerInv /\ AdmissionInv /\ [LedgerNext]_ledgerVars => AdmissionInv'
  BY ConsumedFirstStep, CallsOfOpenRunsStep DEF AdmissionInv
<1> QED
  BY <1>1, <1>2, LedgerInvariance, PTL DEF LedgerSpec

\* Once a call has left its own action of the grant in doubt and is over, no further call
\* is admitted and no further action reserved, whatever crashed or raised in between; a
\* finalization that raised at the budget may let an admitted call reserve, and only one
\* that raised before it consumed the grant freezes nothing (_finalize of
\* authority/engine.py).
THEOREM AmbiguityIsFrozen == LedgerSpec => AmbiguityFreezes
<1>1. ASSUME LedgerInv, AdmissionInv, [LedgerNext]_ledgerVars, NEW i \in ActionIds \ stranded,
             LeftInDoubt(i), <<i, "consuming">> \notin cutShort
      PROVE  /\ \A c \in Calls : ~Admits(c)
             /\ Reserves("grant") => <<i, "retiring">> \in cutShort
  <2>1. \/ tombstone # "none" \/ runs[GrantRun].state \in {"finished", "dead"}
        \/ <<i, "retiring">> \in cutShort
    BY <1>1 DEF LeftInDoubt, LedgerInv, GrantInv, DoubtRetires, Frozen
  <2>2. tombstone # "none" => budget.status # "active"
    BY <1>1 DEF LedgerInv, GrantInv, TerminationHolds
  <2>3. <<i, "retiring">> \in cutShort => grant # "active"
    BY <1>1 DEF AdmissionInv, ConsumedFirst
  <2>4. \A c \in Calls : ~Admits(c)
    BY <1>1, <2>1, <2>2, <2>3, Admission
  <2>5. Reserves("grant") => <<i, "retiring">> \in cutShort
    BY <1>1, <2>1, <2>2, GrantReservation DEF Reserves
  <2> QED
    BY <2>4, <2>5
<1>2. LedgerInv /\ AdmissionInv /\ [LedgerNext]_ledgerVars =>
        [\A i \in ActionIds \ stranded :
           LeftInDoubt(i) /\ <<i, "consuming">> \notin cutShort
           => /\ \A c \in Calls : ~Admits(c)
              /\ Reserves("grant") => <<i, "retiring">> \in cutShort]_ledgerVars
  BY <1>1
<1> QED
  BY <1>2, AdmissionInvariance, PTL DEF LedgerSpec, AmbiguityFreezes

-------------------------------------------------------------------------------
(* Budgets *)

\* Budgets are exact, and what was spent is a finite number of units.
BudgetInv == BudgetsExact /\ IsFiniteSet(UnitsOf(Charged))

\* A step that charges nothing: it rewrites statuses only.
ChargesNothing ==
  /\ ActionIds' = ActionIds
  /\ \A i \in ActionIds : /\ actions'[i].namespace = actions[i].namespace
                          /\ actions'[i].run = actions[i].run
                          /\ actions'[i].amount = actions[i].amount
  /\ budget'.effects = budget.effects /\ budget'.money = budget.money
  /\ \A r \in Runs : runs'[r].calls = runs[r].calls

\* A status is written and the rest of every action stays.
LEMMA StatusChargesNothing ==
  ASSUME LedgerTypes, NEW i \in ActionIds, NEW status, actions' = [actions EXCEPT ![i].status = status]
  PROVE  /\ ActionIds' = ActionIds
         /\ \A j \in ActionIds : /\ actions'[j].namespace = actions[j].namespace
                                 /\ actions'[j].run = actions[j].run
                                 /\ actions'[j].amount = actions[j].amount
<1>1. Len(actions) \in Nat /\ i \in 1..Len(actions) /\ \A j \in ActionIds : actions[j] \in ActionRow
  BY LedgerRows DEF ActionIds
<1>2. Len(actions') = Len(actions)
  BY <1>1 DEF LedgerTypes
<1>3. actions'[i] = [actions[i] EXCEPT !.status = status] /\ \A j \in ActionIds : j # i => actions'[j] = actions[j]
  BY <1>1 DEF LedgerTypes, ActionIds
<1>4. /\ actions'[i].namespace = actions[i].namespace
      /\ actions'[i].run = actions[i].run /\ actions'[i].amount = actions[i].amount
  BY <1>1, <1>3 DEF ActionRow
<1> QED
  BY <1>2, <1>3, <1>4 DEF ActionIds

\* Only a reservation charges anything.
LEMMA ChargedByReservation ==
  ASSUME LedgerInv, LedgerNext
  PROVE  ChargesNothing \/ \E c \in Calls : ReserveAction(c)
<1>1. /\ LedgerTypes /\ CallsBegun /\ runs \in [Runs -> RunRow]
      /\ budget \in [status : {"none", "active", "expired", "revoked", "consumed"}, effects : Nat, money : Nat]
  BY DEF LedgerInv, CoreInv, LedgerTypes, GrantInv, TerminationHolds
<1>2. ASSUME UNCHANGED <<actions, runs>>, budget'.effects = budget.effects, budget'.money = budget.money
      PROVE  ChargesNothing
  BY <1>2 DEF ChargesNothing, ActionIds
<1>3. ASSUME NEW r \in Runs, StartRun(r) \/ FinishRun(r) \/ CrashRun(r)
      PROVE  ChargesNothing
  <2>1. \E state : runs' = [runs EXCEPT ![r].state = state]
    BY <1>3 DEF StartRun, FinishRun, CrashRun
  <2>2. \A s \in Runs : runs'[s].calls = runs[s].calls
    BY <1>1, <2>1 DEF RunRow
  <2> QED
    BY <1>3, <2>2 DEF StartRun, FinishRun, CrashRun, ChargesNothing, ActionIds
<1>4. ASSUME NEW status, budget' = [budget EXCEPT !.status = status]
      PROVE  budget'.effects = budget.effects /\ budget'.money = budget.money
  BY <1>1, <1>4
<1>5. ASSUME NEW status, SetBudget(status)
      PROVE  budget'.effects = budget.effects /\ budget'.money = budget.money
  <2>1. \E s : budget' = [budget EXCEPT !.status = s]
    BY <1>5 DEF SetBudget
  <2> QED
    BY <1>4, <2>1
<1>6. ASSUME LoadActive \/ SeedBudget \/ (\E way \in {"both", "command"} : BeginRevoke(way))
             \/ RevokeAuthority \/ RevokeBudget \/ FailRevoke \/ ExpireGrant
      PROVE  ChargesNothing
  <2>1. CASE SeedBudget
    <3>1. \E s : budget' = [budget EXCEPT !.status = s]
      BY <2>1 DEF SeedBudget
    <3> QED
      BY <1>2, <1>4, <2>1, <3>1 DEF SeedBudget
  <2>2. CASE RevokeBudget
    BY <1>2, <1>5, <2>2 DEF RevokeBudget
  <2> QED
    BY <1>2, <1>6, <2>1, <2>2 DEF LoadActive, BeginRevoke, RevokeAuthority, FailRevoke, ExpireGrant,
       ledgerTables
<1>7. ASSUME NEW i \in ActionIds, NEW status, actions' = [actions EXCEPT ![i].status = status],
             UNCHANGED <<runs, budget>>
      PROVE  ChargesNothing
  BY <1>1, <1>7, StatusChargesNothing DEF ChargesNothing
<1>8. ASSUME NEW i \in ActionIds,
             StrandAction(i) \/ \E d \in {"performed", "not_performed"} : ReconcileAction(i, d)
      PROVE  ChargesNothing
  BY <1>7, <1>8 DEF StrandAction, ReconcileAction
<1>9. ASSUME NEW c \in Calls, EffectStep(c)
      PROVE  ChargesNothing \/ ReserveAction(c)
  <2>1. CASE ResolveAction(c)
    <3>1. call[c].action \in ActionIds
      BY <1>1, <2>1 DEF ResolveAction, CallsBegun, Holding
    <3>2. \E status : actions' = [actions EXCEPT ![call[c].action].status = status]
      BY <2>1 DEF ResolveAction
    <3> QED
      BY <1>7, <2>1, <3>1, <3>2 DEF ResolveAction
  <2>2. CASE RefuseAction(c)
    <3>1. budget' = budget \/ budget' = [budget EXCEPT !.status = "expired"]
      BY <2>2 DEF RefuseAction
    <3> QED
      BY <1>2, <1>4, <2>2, <3>1 DEF RefuseAction
  <2>3. CASE RetireBudget(c)
    BY <1>2, <1>5, <2>3 DEF RetireBudget
  <2> QED
    BY <1>2, <1>9, <2>1, <2>2, <2>3 DEF EffectStep, BeginEffect, AdmitCall, AbandonCall, PerformEffect,
       ReceiveOutcome, ConsumeGrant, FailResolution, FailFinalization, ledgerTables
<1> QED
  BY <1>3, <1>6, <1>8, <1>9 DEF LedgerNext

\* A step that charges nothing keeps exact budgets exact.
LEMMA NothingChargedKeeps ==
  ASSUME BudgetInv, ChargesNothing
  PROVE  BudgetInv'
<1>1. Charged' = Charged
  BY DEF Charged, ChargesNothing
<1>2. UnitsOf(Charged)' = UnitsOf(Charged)
  <2>1. \A i \in Charged : {i} \X (1..actions'[i].amount) = {i} \X (1..actions[i].amount)
    BY DEF Charged, ChargesNothing
  <2> QED
    BY <1>1, <2>1 DEF UnitsOf
<1>3. \A r \in Runs : {i \in ActionIds : actions[i].run = r}' = {i \in ActionIds : actions[i].run = r}
  BY DEF ChargesNothing
<1> QED
  BY <1>1, <1>2, <1>3 DEF BudgetInv, BudgetsExact, ChargesNothing

\* The sets of actions a budget counts are finite.
LEMMA CountedFinite ==
  ASSUME LedgerTypes
  PROVE  /\ IsFiniteSet(Charged) /\ Cardinality(Charged) \in Nat
         /\ \A r : /\ IsFiniteSet({i \in ActionIds : actions[i].run = r})
                   /\ Cardinality({i \in ActionIds : actions[i].run = r}) \in Nat
<1>1. IsFiniteSet(ActionIds)
  BY LedgerRows, FS_Interval DEF ActionIds
<1>2. ASSUME NEW T \in SUBSET ActionIds PROVE IsFiniteSet(T) /\ Cardinality(T) \in Nat
  BY <1>1, FS_Subset, FS_CardinalityType
<1>3. Charged \in SUBSET ActionIds /\ \A r : {i \in ActionIds : actions[i].run = r} \in SUBSET ActionIds
  BY DEF Charged
<1> QED
  BY <1>2, <1>3

\* One more element is one more to count.
LEMMA OneMore ==
  ASSUME NEW S, IsFiniteSet(S), NEW x, x \notin S
  PROVE  IsFiniteSet(S \cup {x}) /\ Cardinality(S \cup {x}) = Cardinality(S) + 1
  BY FS_AddElement

\* A new action of m units adds m units.
LEMMA UnitsAdded ==
  ASSUME NEW S, IsFiniteSet(S), NEW n, NEW m \in Nat, S \cap ({n} \X (1..m)) = {}
  PROVE  /\ IsFiniteSet(S \cup ({n} \X (1..m)))
         /\ Cardinality(S \cup ({n} \X (1..m))) = Cardinality(S) + m
<1> DEFINE U == {n} \X (1..m)
<1>1. IsFiniteSet(1..m) /\ Cardinality(1..m) = m
  BY FS_Interval
<1>2. IsFiniteSet({n}) /\ Cardinality({n}) = 1
  BY FS_Singleton
<1>3. IsFiniteSet(U) /\ Cardinality(U) = 1 * m
  <2> DEFINE A == {n}
             B == 1..m
  <2>1. IsFiniteSet(A) /\ Cardinality(A) = 1 /\ IsFiniteSet(B) /\ Cardinality(B) = m
    BY <1>1, <1>2
  <2> HIDE DEF A, B
  <2>2. IsFiniteSet(A \X B) /\ Cardinality(A \X B) = Cardinality(A) * Cardinality(B)
    BY <2>1, FS_Product
  <2>3. IsFiniteSet(A \X B) /\ Cardinality(A \X B) = 1 * m
    BY <2>1, <2>2
  <2> QED
    BY <2>3 DEF A, B
<1>4. Cardinality(S) \in Nat /\ S \cap U = {}
  BY FS_CardinalityType
<1> HIDE DEF U
<1>5. IsFiniteSet(S \cup U) /\ Cardinality(S \cup U) = Cardinality(S) + Cardinality(U) - Cardinality({})
  BY <1>3, <1>4, FS_Union
<1>6. Cardinality({}) = 0
  BY FS_EmptySet
<1>7. Cardinality(S \cup U) = Cardinality(S) + m
  BY <1>3, <1>4, <1>5, <1>6
<1> QED
  BY <1>5, <1>7 DEF U

\* A reservation charges the grant, its money and the run exactly once, within the limits.
LEMMA ReservationCharges ==
  ASSUME LedgerInv, BudgetInv, NEW c \in Calls, ReserveAction(c)
  PROVE  BudgetInv'
<1> DEFINE n == Len(actions) + 1
           m == call[c].amount
           r0 == RunOf[c]
<1>1. /\ CoreInv /\ LedgerTypes /\ Len(actions) \in Nat /\ call[c] \in CallRow
      /\ runs \in [Runs -> RunRow] /\ r0 \in Runs
      /\ budget \in [status : {"none", "active", "expired", "revoked", "consumed"}, effects : Nat, money : Nat]
  BY LedgerRows, LedgerAssumption DEF LedgerInv, CoreInv, LedgerTypes, GrantInv, TerminationHolds
<1>2. m \in Nat
  <2>1. m \in Amounts \cup {0}
    BY <1>1 DEF CallRow
  <2>2. \A x \in Amounts \cup {0} : x \in Nat
    BY LedgerAssumption
  <2> QED
    BY <2>1, <2>2
<1>3. /\ actions' = Append(actions, [namespace |-> Namespace(c), key |-> call[c].key,
                                     run |-> r0, amount |-> m, status |-> "reserved"])
      /\ runs' = [runs EXCEPT ![r0].calls = IF c \in Unmetered THEN @ ELSE @ + 1]
      /\ budget' = BudgetAfter(c)
      /\ c \in Unmetered \/ runs[r0].calls < RunBudget
      /\ c \in Delegated => BudgetAllows(c)
  BY DEF ReserveAction, InsertAction, Reservable, RunHasRoom
<1>4. /\ ActionIds' = ActionIds \cup {n} /\ n \notin ActionIds
      /\ \A i \in ActionIds : actions'[i] = actions[i]
      /\ actions'[n].namespace = Namespace(c) /\ actions'[n].run = r0 /\ actions'[n].amount = m
  <2>1. /\ Len(actions') = n /\ \A i \in 1..Len(actions) : actions'[i] = actions[i]
        /\ actions'[n] = [namespace |-> Namespace(c), key |-> call[c].key,
                          run |-> r0, amount |-> m, status |-> "reserved"]
    BY <1>1, <1>3 DEF LedgerTypes
  <2>2. ActionIds' = ActionIds \cup {n} /\ n \notin ActionIds
    BY <1>1, <2>1 DEF ActionIds
  <2> QED
    BY <2>1, <2>2 DEF ActionIds
<1> HIDE DEF n, m, r0
<1>5. /\ budget.effects = Cardinality(Charged) /\ budget.money = Cardinality(UnitsOf(Charged))
      /\ budget.effects <= EffectLimit /\ budget.money <= MoneyLimit
      /\ IsFiniteSet(UnitsOf(Charged))
      /\ \A r \in Runs : /\ runs[r].calls <= RunBudget
                         /\ Unmetered = {} =>
                              runs[r].calls = Cardinality({i \in ActionIds : actions[i].run = r})
  BY DEF BudgetInv, BudgetsExact
<1>6. /\ budget'.effects = Cardinality(Charged') /\ budget'.money = Cardinality(UnitsOf(Charged)')
      /\ budget'.effects <= EffectLimit /\ budget'.money <= MoneyLimit
      /\ IsFiniteSet(UnitsOf(Charged)')
  <2>1. \A i \in Charged : i \in ActionIds /\ actions'[i] = actions[i] /\ i # n
    BY <1>4 DEF Charged
  <2>2. CASE c \in Delegated
    <3>1. Charged' = Charged \cup {n} /\ n \notin Charged
      BY <1>4, <2>2 DEF Charged, Namespace
    <3>2. UnitsOf(Charged)' = UnitsOf(Charged) \cup ({n} \X (1..m))
      <4>1. {{i} \X (1..actions'[i].amount) : i \in Charged'}
              = {{i} \X (1..actions[i].amount) : i \in Charged} \cup {{n} \X (1..m)}
        BY <1>4, <2>1, <3>1
      <4> QED
        BY <4>1 DEF UnitsOf
    <3>3. UnitsOf(Charged) \cap ({n} \X (1..m)) = {}
      BY <3>1 DEF UnitsOf
    <3>4. /\ budget'.effects = budget.effects + 1 /\ budget'.money = budget.money + m
          /\ budget.effects < EffectLimit /\ (m > 0 => budget.money + m <= MoneyLimit)
      BY <1>1, <1>3, <2>2 DEF BudgetAfter, BudgetAllows, m
    <3>5. Cardinality(Charged') = Cardinality(Charged) + 1
      BY <1>1, <3>1, OneMore, CountedFinite
    <3>6. /\ IsFiniteSet(UnitsOf(Charged)')
          /\ Cardinality(UnitsOf(Charged)') = Cardinality(UnitsOf(Charged)) + m
      <4> DEFINE old == UnitsOf(Charged)
      <4>1. IsFiniteSet(old) /\ old \cap ({n} \X (1..m)) = {}
        BY <1>5, <3>3
      <4> HIDE DEF old
      <4>2. /\ IsFiniteSet(old \cup ({n} \X (1..m)))
            /\ Cardinality(old \cup ({n} \X (1..m))) = Cardinality(old) + m
        BY <1>2, <4>1, UnitsAdded
      <4> QED
        BY <3>2, <4>2 DEF old
    <3>7. budget.effects \in Nat /\ budget.money \in Nat /\ EffectLimit \in Nat /\ MoneyLimit \in Nat
      BY <1>1, LedgerAssumption
    <3> QED
      BY <1>2, <1>5, <3>4, <3>5, <3>6, <3>7
  <2>3. CASE c \notin Delegated
    <3>1. Charged' = Charged
      BY <1>4, <2>3 DEF Charged, Namespace
    <3>2. UnitsOf(Charged)' = UnitsOf(Charged)
      <4>1. \A i \in Charged : {i} \X (1..actions'[i].amount) = {i} \X (1..actions[i].amount)
        BY <2>1
      <4> QED
        BY <3>1, <4>1 DEF UnitsOf
    <3>3. budget' = budget
      BY <1>3, <2>3 DEF BudgetAfter
    <3> QED
      BY <1>5, <3>1, <3>2, <3>3
  <2> QED
    BY <2>2, <2>3
<1>7. ASSUME NEW r \in Runs
      PROVE  /\ runs'[r].calls <= RunBudget
             /\ Unmetered = {} => runs'[r].calls = Cardinality({i \in ActionIds' : actions'[i].run = r})
  <2> DEFINE S == {i \in ActionIds : actions[i].run = r}
             T == {i \in ActionIds' : actions'[i].run = r}
  <2>1. runs[r].calls \in Nat /\ RunBudget \in Nat /\ IsFiniteSet(S)
    BY <1>1, LedgerAssumption, CountedFinite DEF RunRow
  <2>2. CASE r = r0
    <3>1. runs'[r].calls = IF c \in Unmetered THEN runs[r].calls ELSE runs[r].calls + 1
      BY <1>1, <1>3, <2>2 DEF RunRow
    <3>2. T = S \cup {n} /\ n \notin S
      BY <1>4, <2>2
    <3> HIDE DEF S, T
    <3>3. Cardinality(T) = Cardinality(S) + 1
      BY <2>1, <3>2, OneMore
    <3>4. runs'[r].calls <= RunBudget
      <4>1. (c \in Unmetered \/ runs[r].calls < RunBudget) /\ runs[r].calls <= RunBudget
        BY <1>3, <1>5, <2>2
      <4> QED
        BY <2>1, <3>1, <4>1
    <3>5. Unmetered = {} => runs'[r].calls = Cardinality(T)
      BY <1>5, <3>1, <3>3 DEF S
    <3> QED
      BY <3>4, <3>5 DEF T
  <2>3. CASE r # r0
    <3>1. runs'[r] = runs[r] /\ T = S
      BY <1>1, <1>3, <1>4, <2>3
    <3> QED
      BY <1>5, <3>1
  <2> QED
    BY <2>2, <2>3
<1> QED
  BY <1>6, <1>7 DEF BudgetInv, BudgetsExact

\* Every unit charged to a grant or a run stands for one reserved action and no limit is
\* passed, for any number of concurrent calls, refusals, crashes and revocations
\* (_reserve_grant_action and reserve_action of jobs/store.py).
THEOREM ChargesAreExact == LedgerSpec => []BudgetsExact
<1>1. LedgerInit => BudgetInv
  <2> SUFFICES ASSUME LedgerInit PROVE BudgetInv
    OBVIOUS
  <2>1. ActionIds = {} /\ Charged = {} /\ UnitsOf(Charged) = {}
    BY DEF LedgerInit, ActionIds, Charged, UnitsOf
  <2>2. \A r \in Runs : runs[r].calls = 0 /\ {i \in ActionIds : actions[i].run = r} = {}
    BY <2>1 DEF LedgerInit
  <2>3. budget.effects = 0 /\ budget.money = 0
    BY DEF LedgerInit
  <2>4. IsFiniteSet({}) /\ Cardinality({}) = 0
    BY FS_EmptySet
  <2>5. {EffectLimit, MoneyLimit, RunBudget} \subseteq Nat
    BY LedgerAssumption
  <2>6. /\ budget.effects = Cardinality(Charged)
        /\ budget.money = Cardinality(UnitsOf(Charged))
    BY <2>1, <2>3, <2>4
  <2>7. budget.effects <= EffectLimit /\ budget.money <= MoneyLimit
    BY <2>3, <2>5
  <2>8. ASSUME NEW r \in Runs
        PROVE  /\ runs[r].calls <= RunBudget
               /\ runs[r].calls = Cardinality({i \in ActionIds : actions[i].run = r})
    <3>1. runs[r].calls = 0 /\ {i \in ActionIds : actions[i].run = r} = {}
      BY <2>2
    <3> QED
      BY <3>1, <2>4, <2>5
  <2> QED
    BY <2>1, <2>4, <2>6, <2>7, <2>8 DEF BudgetInv, BudgetsExact
<1>2. LedgerInv /\ BudgetInv /\ [LedgerNext]_ledgerVars => BudgetInv'
  <2>1. ASSUME LedgerInv, BudgetInv, UNCHANGED ledgerVars PROVE ChargesNothing
    BY <2>1 DEF ledgerVars, ChargesNothing, ActionIds
  <2> QED
    BY <2>1, ChargedByReservation, NothingChargedKeeps, ReservationCharges
<1>3. BudgetInv => BudgetsExact
  BY DEF BudgetInv
<1> QED
  BY <1>1, <1>2, <1>3, LedgerInvariance, PTL DEF LedgerSpec
===============================================================================
