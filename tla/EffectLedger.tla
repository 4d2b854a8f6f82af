------------------------------ MODULE EffectLedger ------------------------------
(***************************************************************************)
(* External effects of job runs: the ledger of actions and budgets          *)
(* (jobs/store.py), the two tools that reserve, dispatch and resolve an     *)
(* effect (GuardedEffectTool of jobs/effects.py, DelegatedEffectTool of     *)
(* authority/engine.py), the grant they spend (authority/store.py), its     *)
(* revocation, and the recovery of reservations nobody resolved.            *)
(*                                                                         *)
(* One grant is modelled: it belongs to one execution request, and that     *)
(* request starts at most one run (ExecutionStore!AtMostOneRun), so the     *)
(* delegated calls all belong to GrantRun.  The calls of a run are          *)
(* concurrent tasks; authority and ledger are two databases, and each       *)
(* store call is one transaction, hence one action.  Without delegated       *)
(* calls there is no grant.                                                 *)
(***************************************************************************)
EXTENDS Naturals, Sequences, FiniteSets

CONSTANTS
  Calls,         \* concurrent effect calls
  Runs,          \* job runs
  RunOf,         \* the run of each call
  GrantRun,      \* the run of the request the grant is attached to
  Delegated,     \* calls through DelegatedEffectTool; the others are guarded
  Unmetered,     \* guarded calls that spend no effect call (verification)
  Keys,          \* action keys
  Amounts,       \* minor units an effect declares
  EffectLimit,   \* grant.effect_call_limit
  MoneyLimit,    \* grant.financial_limit_minor
  RunBudget,     \* effect-call budget of a run
  MaxActions     \* bound of the exploration: reservations

ASSUME LedgerAssumption ==
  /\ RunOf \in [Calls -> Runs]
  /\ Delegated \subseteq {c \in Calls : RunOf[c] = GrantRun}
  /\ Unmetered \subseteq Calls \ Delegated
  /\ Amounts \subseteq Nat
  /\ {EffectLimit, MoneyLimit, RunBudget, MaxActions} \subseteq Nat

VARIABLES
  actions,   \* table job_actions, in order of reservation
  runs,      \* table job_runs: state of the run and its effect_calls
  budget,    \* the grant's row of grant_budgets
  tombstone, \* the grant's row of grant_budget_terminations
  grant,     \* delegation_grants.status
  grantExpired,   \* has the grant's expires_at passed?
  call,      \* where each call is
  loader,    \* where _load_contract_delegation is
  revoker,   \* where the revocation is
  effected,  \* history: actions whose effect the provider performed
  reconciled, \* history: actions an operator reconciled
  stranded,  \* history: actions recovery stranded while their run was alive
  cutShort   \* history: actions whose finalization raised, with the point it had reached

ledgerTables == <<actions, runs, budget, tombstone>>
ledgerVars == <<actions, runs, budget, tombstone, grant, grantExpired, call, loader, revoker,
          effected, reconciled, stranded, cutShort>>

Dispositions == {"performed", "not_performed", "in_doubt"}

\* The statuses of the partial unique index job_actions_active_key_idx.
OpenStatuses == {"reserved", "performed", "in_doubt"}

ActionIds == 1..Len(actions)

NoCall == [pc |-> "idle", key |-> "none", amount |-> 0, action |-> 0, disposition |-> "in_doubt"]

\* effect_namespace() of the grant, or the name of the job.
Namespace(c) == IF c \in Delegated THEN "grant" ELSE "job"

RunAlive(r) == runs[r].state = "open"

CallAt(c, pc) == call' = [call EXCEPT ![c].pc = pc]

EndCall(c) == call' = [call EXCEPT ![c] = NoCall]

-------------------------------------------------------------------------------
(* Runs and delegation *)

StartRun(r) ==
  /\ runs[r].state = "absent"
  /\ r = GrantRun => loader = "done"
  /\ runs' = [runs EXCEPT ![r].state = "open"]
  /\ UNCHANGED <<actions, budget, tombstone, grant, grantExpired, call, loader, revoker,
                 effected, reconciled, stranded, cutShort>>

\* load_active: expiry is recorded the first time it is seen.
LoadActive ==
  /\ Delegated # {}
  /\ loader = "idle"
  /\ grant' = IF grant = "active" /\ grantExpired THEN "expired" ELSE grant
  /\ loader' = IF grant' = "active" THEN "loaded" ELSE "refused"
  /\ UNCHANGED <<ledgerTables, grantExpired, call, revoker, effected, reconciled, stranded, cutShort>>

\* Mutant: the termination that raced ahead of the seeding is not consulted.
SeedBudgetWithoutTombstone ==
  /\ loader = "loaded"
  /\ budget' = [budget EXCEPT !.status = IF @ = "none" THEN "active" ELSE @]
  /\ loader' = "done"
  /\ UNCHANGED <<actions, runs, tombstone, grant, grantExpired, call, revoker, effected, reconciled, stranded, cutShort>>

SeedBudget ==
  /\ loader = "loaded"
  /\ budget' = [budget EXCEPT !.status =
       IF @ \in {"none", "active"} THEN IF tombstone = "none" THEN "active" ELSE tombstone
       ELSE @]
  /\ loader' = "done"
  /\ UNCHANGED <<actions, runs, tombstone, grant, grantExpired, call, revoker, effected, reconciled, stranded, cutShort>>

FinishRun(r) ==
  /\ RunAlive(r)
  /\ \A c \in Calls : RunOf[c] = r => call[c].pc = "idle"
  /\ runs' = [runs EXCEPT ![r].state = "finished"]
  /\ UNCHANGED <<actions, budget, tombstone, grant, grantExpired, call, loader, revoker,
                 effected, reconciled, stranded, cutShort>>

\* The process of the run dies; the row keeps its NULL outcome.
CrashRun(r) ==
  /\ RunAlive(r)
  /\ runs' = [runs EXCEPT ![r].state = "dead"]
  /\ call' = [c \in Calls |-> IF RunOf[c] = r THEN NoCall ELSE call[c]]
  /\ UNCHANGED <<actions, budget, tombstone, grant, grantExpired, loader, revoker, effected, reconciled, stranded, cutShort>>

-------------------------------------------------------------------------------
(* Reservation *)

\* A call of the model; a delegated one is first admitted.
BeginEffect(c, k, m) ==
  /\ RunAlive(RunOf[c])
  /\ call[c].pc = "idle"
  /\ Len(actions) < MaxActions
  /\ c \notin Delegated => m = 0
  /\ call' = [call EXCEPT ![c] = [NoCall EXCEPT
       !.pc = IF c \in Delegated THEN "admitting" ELSE "reserving", !.key = k, !.amount = m]]
  /\ UNCHANGED <<ledgerTables, grant, grantExpired, loader, revoker, effected, reconciled, stranded, cutShort>>

\* _admission_denial.
Admissible(c) ==
  /\ grant = "active"
  /\ ~grantExpired
  /\ budget.status = "active"
  /\ budget.effects < EffectLimit
  /\ call[c].amount > 0 => budget.money + call[c].amount <= MoneyLimit
  /\ runs[RunOf[c]].calls < RunBudget

AdmitCall(c) ==
  /\ call[c].pc = "admitting"
  /\ IF Admissible(c) THEN CallAt(c, "reserving") ELSE EndCall(c)
  /\ UNCHANGED <<ledgerTables, grant, grantExpired, loader, revoker, effected, reconciled, stranded, cutShort>>

\* Mutant: an action in doubt does not keep its occurrence.
FreshKeyForgettingDoubt(c) ==
  ~\E i \in ActionIds : /\ actions[i].namespace = Namespace(c)
                  /\ actions[i].key = call[c].key
                  /\ actions[i].status \in {"reserved", "performed"}

FreshKey(c) ==
  ~\E i \in ActionIds : /\ actions[i].namespace = Namespace(c)
                  /\ actions[i].key = call[c].key
                  /\ actions[i].status \in OpenStatuses

RunHasRoom(c) ==
  RunAlive(RunOf[c]) /\ (c \in Unmetered \/ runs[RunOf[c]].calls < RunBudget)

BudgetAllows(c) ==
  /\ budget.status = "active"
  /\ ~grantExpired
  /\ call[c].amount > 0 => budget.money + call[c].amount <= MoneyLimit
  /\ budget.effects < EffectLimit

Reservable(c) == FreshKey(c) /\ RunHasRoom(c) /\ (c \in Delegated => BudgetAllows(c))

BudgetAfter(c) ==
  IF c \in Delegated
  THEN [budget EXCEPT !.effects = @ + 1, !.money = @ + call[c].amount]
  ELSE budget

InsertAction(c) ==
  /\ actions' = Append(actions, [namespace |-> Namespace(c), key |-> call[c].key,
                                 run |-> RunOf[c], amount |-> call[c].amount,
                                 status |-> "reserved"])
  /\ call' = [call EXCEPT ![c].pc = "reserved", ![c].action = Len(actions) + 1]

\* Mutant: the grant is charged before the run's own budget refuses.
ReserveActionChargingFirst(c) ==
  /\ call[c].pc = "reserving"
  /\ FreshKey(c) /\ (c \in Delegated => BudgetAllows(c))
  /\ budget' = BudgetAfter(c)
  /\ IF RunHasRoom(c)
     THEN /\ InsertAction(c)
          /\ runs' = [runs EXCEPT ![RunOf[c]].calls = IF c \in Unmetered THEN @ ELSE @ + 1]
     ELSE EndCall(c) /\ UNCHANGED <<actions, runs>>
  /\ UNCHANGED <<tombstone, grant, grantExpired, loader, revoker, effected, reconciled, stranded, cutShort>>

\* reserve_action and reserve_grant_action: one transaction charges the money,
\* the grant and the run and inserts the action, or rolls all of it back.
ReserveAction(c) ==
  /\ call[c].pc = "reserving"
  /\ Reservable(c)
  /\ budget' = BudgetAfter(c)
  /\ runs' = [runs EXCEPT ![RunOf[c]].calls = IF c \in Unmetered THEN @ ELSE @ + 1]
  /\ InsertAction(c)
  /\ UNCHANGED <<tombstone, grant, grantExpired, loader, revoker, effected, reconciled, stranded, cutShort>>

\* Refused, or the call is cancelled and its reservation failed.  An expired
\* budget is recorded as such before the transaction raises.
RefuseAction(c) ==
  /\ call[c].pc = "reserving"
  /\ ~Reservable(c)
  /\ budget' = IF c \in Delegated /\ budget.status = "active" /\ grantExpired
               THEN [budget EXCEPT !.status = "expired"] ELSE budget
  /\ EndCall(c)
  /\ UNCHANGED <<actions, runs, tombstone, grant, grantExpired, loader, revoker, effected, reconciled, stranded, cutShort>>

-------------------------------------------------------------------------------
(* Dispatch and resolution *)

CallEnds(c, d) == call' = [call EXCEPT ![c].pc = "resolving", ![c].disposition = d]

\* Cancelled before dispatch, or the evidence could not be bound.
AbandonCall(c) ==
  /\ call[c].pc = "reserved"
  /\ CallEnds(c, "not_performed")
  /\ UNCHANGED <<ledgerTables, grant, grantExpired, loader, revoker, effected, reconciled, stranded, cutShort>>

\* The provider performs the effect.
PerformEffect(c) ==
  /\ call[c].pc = "reserved"
  /\ effected' = effected \cup {call[c].action}
  /\ CallAt(c, "dispatched")
  /\ UNCHANGED <<ledgerTables, grant, grantExpired, loader, revoker, reconciled, stranded, cutShort>>

\* Mutant: an exception of the tool is taken for an effect that did not happen.
ReceiveOutcomeOptimistically(c) ==
  /\ \/ call[c].pc = "dispatched" /\ \E d \in {"performed", "not_performed"} : CallEnds(c, d)
     \/ call[c].pc = "reserved" /\ CallEnds(c, "not_performed")
  /\ UNCHANGED <<ledgerTables, grant, grantExpired, loader, revoker, effected, reconciled, stranded, cutShort>>

\* The receipt of the tool; an exception or a missing receipt is in_doubt.
ReceiveOutcome(c) ==
  /\ \/ call[c].pc = "dispatched" /\ \E d \in {"performed", "in_doubt"} : CallEnds(c, d)
     \/ call[c].pc = "reserved" /\ \E d \in {"not_performed", "in_doubt"} : CallEnds(c, d)
  /\ UNCHANGED <<ledgerTables, grant, grantExpired, loader, revoker, effected, reconciled, stranded, cutShort>>

\* Mutant: an ambiguous delegated effect leaves the grant as it is.
ResolveActionWithoutConsuming(c) ==
  LET a == call[c].action
  IN /\ call[c].pc = "resolving"
     /\ actions' = [actions EXCEPT ![a].status =
          IF @ = "reserved" THEN call[c].disposition ELSE @]
     /\ EndCall(c)
     /\ UNCHANGED <<runs, budget, tombstone, grant, grantExpired, loader, revoker, effected, reconciled, stranded, cutShort>>

\* resolve_action; it raises when recovery was faster, and the exception
\* becomes a tool result: the rest of _finalize is skipped.  Only an ambiguous
\* delegated effect consumes its grant.
ResolveAction(c) ==
  LET a == call[c].action
  IN /\ call[c].pc = "resolving"
     /\ actions' = [actions EXCEPT ![a].status =
          IF @ = "reserved" THEN call[c].disposition ELSE @]
     /\ IF /\ actions[a].status = "reserved"
           /\ c \in Delegated
           /\ call[c].disposition = "in_doubt"
        THEN CallAt(c, "consuming") ELSE EndCall(c)
     /\ UNCHANGED <<runs, budget, tombstone, grant, grantExpired, loader, revoker, effected, reconciled, stranded, cutShort>>

\* authority.consume; a grant that is not active any more is fine.
ConsumeGrant(c) ==
  /\ call[c].pc = "consuming"
  /\ grant' = IF grant = "active" THEN "consumed" ELSE grant
  /\ CallAt(c, "retiring")
  /\ UNCHANGED <<ledgerTables, grantExpired, loader, revoker, effected, reconciled, stranded, cutShort>>

\* set_grant_budget_status: the first termination wins, seeded or not.
SetBudget(status) ==
  LET first == IF tombstone = "none" THEN status ELSE tombstone
  IN /\ tombstone' = first
     /\ budget' = [budget EXCEPT !.status = IF @ = "none" THEN @ ELSE first]

RetireBudget(c) ==
  /\ call[c].pc = "retiring"
  /\ SetBudget("consumed")
  /\ EndCall(c)
  /\ UNCHANGED <<actions, runs, grant, grantExpired, loader, revoker, effected, reconciled, stranded, cutShort>>

\* resolve_action raises: the reservation stays, for recovery to find.
FailResolution(c) ==
  /\ call[c].pc = "resolving"
  /\ EndCall(c)
  /\ UNCHANGED <<ledgerTables, grant, grantExpired, loader, revoker, effected, reconciled, stranded, cutShort>>

\* The note of the use, the consumption or the retirement raises: _finalize ends there,
\* the exception becomes a tool result, and the run goes on.
FailFinalization(c) ==
  /\ call[c].pc \in {"consuming", "retiring"}
  /\ cutShort' = cutShort \cup {<<call[c].action, call[c].pc>>}
  /\ EndCall(c)
  /\ UNCHANGED <<ledgerTables, grant, grantExpired, loader, revoker, effected, reconciled, stranded>>

-------------------------------------------------------------------------------
(* Revocation, recovery, operators and time *)

\* ExecutionDispatcher.revoke_grant ("both") or the command ("command").
BeginRevoke(way) ==
  /\ Delegated # {}
  /\ revoker = "idle"
  /\ revoker' = way
  /\ UNCHANGED <<ledgerTables, grant, grantExpired, call, loader, effected, reconciled, stranded, cutShort>>

\* The dispatcher joins both stores, whatever the other one does; the command
\* goes on to the budget only when the grant was still active.
RevokeAuthority ==
  /\ revoker \in {"both", "authority", "command"}
  /\ grant' = IF grant = "active" THEN "revoked" ELSE grant
  /\ revoker' = CASE revoker = "both"      -> "budget"
                  [] revoker = "authority" -> "done"
                  [] revoker = "command"   -> IF grant = "active" THEN "budget" ELSE "failed"
  /\ UNCHANGED <<ledgerTables, grantExpired, call, loader, effected, reconciled, stranded, cutShort>>

RevokeBudget ==
  /\ revoker \in {"both", "budget"}
  /\ SetBudget("revoked")
  /\ revoker' = IF revoker = "both" THEN "authority" ELSE "done"
  /\ UNCHANGED <<actions, runs, grant, grantExpired, call, loader, effected, reconciled, stranded, cutShort>>

\* A store fails or the process dies: the error names what is missing, and the
\* operator may revoke again.
FailRevoke ==
  /\ revoker \in {"both", "authority", "budget", "command", "failed"}
  /\ revoker' = "idle"
  /\ UNCHANGED <<ledgerTables, grant, grantExpired, call, loader, effected, reconciled, stranded, cutShort>>

\* strand_reserved_action, for every reservation recovery listed.
StrandAction(i) ==
  /\ actions[i].status = "reserved"
  /\ actions' = [actions EXCEPT ![i].status = "in_doubt"]
  /\ stranded' = IF RunAlive(actions[i].run) THEN stranded \cup {i} ELSE stranded
  /\ UNCHANGED <<runs, budget, tombstone, grant, grantExpired, call, loader, revoker,
                 effected, reconciled, cutShort>>

\* The operator states what happened to an action in doubt.
ReconcileAction(i, d) ==
  /\ actions[i].status = "in_doubt"
  /\ actions' = [actions EXCEPT ![i].status = d]
  /\ reconciled' = reconciled \cup {i}
  /\ UNCHANGED <<runs, budget, tombstone, grant, grantExpired, call, loader, revoker, effected,
                 stranded, cutShort>>

ExpireGrant ==
  /\ Delegated # {}
  /\ ~grantExpired
  /\ grantExpired' = TRUE
  /\ UNCHANGED <<ledgerTables, grant, call, loader, revoker, effected, reconciled, stranded, cutShort>>

-------------------------------------------------------------------------------
LedgerInit ==
  /\ actions = <<>>
  /\ runs = [r \in Runs |-> [state |-> "absent", calls |-> 0]]
  /\ budget = [status |-> "none", effects |-> 0, money |-> 0]
  /\ tombstone = "none"
  /\ grant = "active"
  /\ grantExpired = FALSE
  /\ call = [c \in Calls |-> NoCall]
  /\ loader = "idle"
  /\ revoker = "idle"
  /\ effected = {}
  /\ reconciled = {}
  /\ stranded = {}
  /\ cutShort = {}

EffectStep(c) ==
  \/ \E k \in Keys, m \in Amounts : BeginEffect(c, k, m)
  \/ AdmitCall(c) \/ ReserveAction(c) \/ RefuseAction(c) \/ AbandonCall(c) \/ PerformEffect(c) \/ ReceiveOutcome(c)
  \/ ResolveAction(c) \/ ConsumeGrant(c) \/ RetireBudget(c) \/ FailResolution(c) \/ FailFinalization(c)

LedgerNext ==
  \/ \E r \in Runs : StartRun(r) \/ FinishRun(r) \/ CrashRun(r)
  \/ LoadActive \/ SeedBudget
  \/ \E c \in Calls : EffectStep(c)
  \/ \E way \in {"both", "command"} : BeginRevoke(way)
  \/ RevokeAuthority \/ RevokeBudget \/ FailRevoke
  \/ \E i \in ActionIds : StrandAction(i)
  \/ \E i \in ActionIds, d \in {"performed", "not_performed"} : ReconcileAction(i, d)
  \/ ExpireGrant

LedgerSpec == LedgerInit /\ [][LedgerNext]_ledgerVars

-------------------------------------------------------------------------------
(* Properties *)

\* The actions charged to the grant, and the units of money a set of actions spent.
Charged == {i \in ActionIds : actions[i].namespace = "grant"}

UnitsOf(S) == UNION {{i} \X (1..actions[i].amount) : i \in S}

\* Every unit a grant or a run was charged stands for one reserved action, and
\* no limit is ever passed: refusals, cancellations and crashes neither lose
\* nor invent a charge, although three counters are kept apart.
BudgetsExact ==
  /\ budget.effects = Cardinality(Charged)
  /\ budget.money = Cardinality(UnitsOf(Charged))
  /\ budget.effects <= EffectLimit
  /\ budget.money <= MoneyLimit
  /\ \A r \in Runs :
       /\ runs[r].calls <= RunBudget
       /\ Unmetered = {} =>
            runs[r].calls = Cardinality({i \in ActionIds : actions[i].run = r})

\* The provider performs one occurrence at most once, whatever runs, retries,
\* crashes and recoveries do, unless an operator stated it was not performed.
EffectedOnce ==
  \A i, j \in effected :
    /\ actions[i].namespace = actions[j].namespace
    /\ actions[i].key = actions[j].key
    /\ i \notin reconciled /\ j \notin reconciled
    => i = j

\* What the ledger says without an operator is what happened.
EvidenceSound ==
  \A i \in ActionIds \ reconciled :
    /\ actions[i].status = "performed" => i \in effected
    /\ actions[i].status = "not_performed" => i \notin effected

Finalizing(i) ==
  \E c \in Calls : call[c].action = i /\ call[c].pc \in {"consuming", "retiring"}

\* The action is an ambiguous use of the grant, and no call is at work on it.
LeftInDoubt(i) ==
  actions[i].namespace = "grant" /\ actions[i].status = "in_doubt" /\ ~Finalizing(i)

Admits(c) == call[c].pc = "admitting" /\ call'[c].pc = "reserving"

Reserves(namespace) ==
  Len(actions') > Len(actions) /\ actions'[Len(actions')].namespace = namespace

\* Once a call left its own action in doubt and is over, no further delegated call is
\* admitted and no further delegated action reserved, although the outcome, the grant and
\* its budget are written one after the other.  A finalization that raised at the budget
\* still admits nobody, but a call admitted before may reserve; one that raised at the
\* grant freezes nothing (AnyAmbiguityFreezes).
AmbiguityFreezes ==
  [][\A i \in ActionIds \ stranded :
       LeftInDoubt(i) /\ <<i, "consuming">> \notin cutShort
       => /\ \A c \in Calls : ~Admits(c)
          /\ Reserves("grant") => <<i, "retiring">> \in cutShort]_ledgerVars

\* "Any ambiguous browser mutation freezes further delegated mutations"
\* (browser/authority.py): also one that recovery declared ambiguous while its run is
\* alive, when its own finalization did not raise.
AnyAmbiguityFreezes ==
  [][\A i \in ActionIds :
       LeftInDoubt(i) /\ i \notin {f[1] : f \in cutShort} => ~Reserves("grant")]_ledgerVars

\* A grant whose revocation was reported complete buys nothing more, even when
\* the revocation overtook the seeding of the budget.
RevokedForGood ==
  [][revoker = "done" /\ Len(actions') > Len(actions)
       => actions'[Len(actions')].namespace = "job"]_ledgerVars
===============================================================================
