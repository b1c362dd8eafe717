---------------------------- MODULE DurableEffects ----------------------------
(***************************************************************************)
(* The durable effect path: EffectBroker._dispatch_durable and .recover    *)
(* (kernel/effects.py) over PostgresDurableEffectStore (persistence/       *)
(* store.py) and its SQL functions (migrations/0003).  Several kernel      *)
(* processes share one database.  A dispatch looks the request up,         *)
(* validates authority, prepares (intent evidence, effect row and grant    *)
(* consumption in one transaction), renews the lease, runs the executor    *)
(* under a heartbeat thread, and completes.  Any process may crash, any    *)
(* transaction may fail, any acknowledgement may be lost, and a COMMIT     *)
(* whose connection broke may still take effect later.                     *)
(*                                                                         *)
(* A transaction is one step: its guarded UPDATE re-checks everything it   *)
(* read, and the run-head row lock it holds from its evidence append to    *)
(* its COMMIT serialises it with every other append of the run.  All       *)
(* requests of the model belong to one run, the case with most contention. *)
(* The lease is kept as the ticks left until lease_expires_at on the       *)
(* database clock.  A call that raises without changing anything is a      *)
(* stuttering step and has no action.                                      *)
(***************************************************************************)
EXTENDS Integers, Sequences

CONSTANTS Kernels,     \* kernel processes, each holding its lock while it dispatches
          Requests,    \* requests whose lifecycle reached grant_issued
          LeaseTicks,  \* lease duration in ticks of the database clock
          None         \* the absence of a kernel or a request

ASSUME LeaseAssumption == LeaseTicks \in Nat \ {0}
ASSUME NoneAssumption == None \notin Kernels /\ None \notin Requests

VARIABLES
    row,       \* row[r]: the gah_effect_executions row of r
    evidence,  \* the run's committed intent and outcome envelopes, in order
    consumed,  \* requests whose grant has a gah_grant_consumptions row
    inDoubt,   \* inDoubt[r]: outcome of a completion whose COMMIT is unresolved
    pc,        \* pc[k]: where kernel k is in _dispatch_durable
    job,       \* job[k]: the request kernel k dispatches
    result,    \* result[k]: the outcome kernel k built, or is about to build
    beat,      \* beat[k]: the heartbeat thread of k's dispatch is renewing
    lateBeat,  \* renewals in flight when the heartbeat thread was told to stop
    applied,   \* applied[r]: number of executor invocations for r
    active,    \* active[r]: the synthetic effect of r is in place
    told,      \* told[r]: outcomes returned to callers
    actor,     \* actor[r]: validity of the exact ActorContext r is bound to
    grantLive  \* grantLive[r]: the grant of r is inside its validity window

db == <<row, evidence, consumed, inDoubt>>
local == <<pc, job, result, beat, lateBeat>>
world == <<applied, active>>
authority == <<actor, grantLive>>
vars == <<row, evidence, consumed, inDoubt, pc, job, result, beat, lateBeat,
          applied, active, told, actor, grantLive>>

-----------------------------------------------------------------------------
(* States and records *)

Live == {"prepared", "executing"}
Terminal == {"completed", "indeterminate"}
States == {"absent"} \cup Live \cup Terminal

NoOutcome == [status |-> "none", by |-> None, how |-> "none"]
OwnerOutcome(k, s) == [status |-> s, by |-> k, how |-> "completion"]
RecoveryOutcome(k) == [status |-> "indeterminate", by |-> k, how |-> "recovery"]
Outcomes ==
    [status : {"succeeded", "indeterminate"}, by : Kernels, how : {"completion"}]
        \cup [status : {"indeterminate"}, by : Kernels, how : {"recovery"}]

Rows == [state : States, version : Nat, attempt : Kernels \cup {None},
         gen : Nat, lease : 0..LeaseTicks, outcome : Outcomes \cup {NoOutcome}]
AbsentRow == [state |-> "absent", version |-> 0, attempt |-> None,
              gen |-> 0, lease |-> 0, outcome |-> NoOutcome]

Events == [kind : {"intent", "outcome"}, req : Requests,
           outcome : Outcomes \cup {NoOutcome}]
Intent(r) == [kind |-> "intent", req |-> r, outcome |-> NoOutcome]
OutcomeEvent(r, o) == [kind |-> "outcome", req |-> r, outcome |-> o]

PCs == {"idle", "validated", "prepared", "running", "executing", "ran",
        "reconcile"}

IsLive(r) == row[r].state \in Live
IsTerminal(r) == row[r].state \in Terminal

(* lock_run: the run head is locked FOR UPDATE by whoever appends.         *)
RunHeadFree == \A r \in Requests : inDoubt[r] = NoOutcome

-----------------------------------------------------------------------------
Init ==
    /\ row = [r \in Requests |-> AbsentRow]
    /\ evidence = <<>>
    /\ consumed = {}
    /\ inDoubt = [r \in Requests |-> NoOutcome]
    /\ pc = [k \in Kernels |-> "idle"]
    /\ job = [k \in Kernels |-> None]
    /\ result = [k \in Kernels |-> NoOutcome]
    /\ beat = [k \in Kernels |-> FALSE]
    /\ lateBeat = {}
    /\ applied = [r \in Requests |-> 0]
    /\ active = [r \in Requests |-> FALSE]
    /\ told = [r \in Requests |-> {}]
    /\ actor = [r \in Requests |-> "valid"]
    /\ grantLive = [r \in Requests |-> TRUE]

(* Kernel k leaves the dispatch, by a return or a raise. *)
Leave(k) ==
    /\ pc' = [pc EXCEPT ![k] = "idle"]
    /\ job' = [job EXCEPT ![k] = None]
    /\ result' = [result EXCEPT ![k] = NoOutcome]

Goto(k, label) ==
    /\ pc' = [pc EXCEPT ![k] = label]
    /\ UNCHANGED job

(* The stored terminal outcome is returned to the caller of r. *)
Tell(r, o) == told' = [told EXCEPT ![r] = @ \cup {o}]

-----------------------------------------------------------------------------
(* Dispatch *)

(* No stored execution, and the grant and actor context are current.       *)
DispatchNew(k, r) ==
    /\ pc[k] = "idle"
    /\ row[r].state = "absent"
    /\ actor[r] = "valid"
    /\ grantLive[r]
    /\ pc' = [pc EXCEPT ![k] = "validated"]
    /\ job' = [job EXCEPT ![k] = r]
    /\ UNCHANGED <<db, result, beat, lateBeat, world, told, authority>>

(* A lookup that finds a terminal row answers from it (dispatch and        *)
(* recover alike); one that finds a live row raises.                       *)
ReplayTerminal(k, r) ==
    /\ pc[k] = "idle"
    /\ actor[r] = "valid"
    /\ IsTerminal(r)
    /\ Tell(r, row[r].outcome)
    /\ UNCHANGED <<db, local, world, authority>>

PreparedRow(k) == [state |-> "prepared", version |-> 1, attempt |-> k,
                   gen |-> 1, lease |-> LeaseTicks, outcome |-> NoOutcome]

(* Mutant: an unresolved execution does not stop a second preparation. *)
MayPrepareAgain(r) == ~IsTerminal(r)

(* effect_by_binding, under the advisory locks, found no row. *)
MayPrepare(r) == row[r].state = "absent"

(* Mutant: the intent is left out of the transaction. *)
RecordNoIntent(r) == UNCHANGED evidence

(* The intent envelope goes in first, in the same transaction. *)
RecordIntent(r) == evidence' = Append(evidence, Intent(r))

(* The prepare transaction inserts intent, row and consumption together.   *)
Prepare(k) ==
    LET r == job[k] IN
    /\ pc[k] = "validated"
    /\ RunHeadFree
    /\ MayPrepare(r)
    /\ row' = [row EXCEPT ![r] = PreparedRow(k)]
    /\ RecordIntent(r)
    /\ consumed' = consumed \cup {r}
    /\ \/ Goto(k, "prepared") /\ UNCHANGED result
       \/ Leave(k)                       \* committed, acknowledgement lost
    /\ UNCHANGED <<inDoubt, beat, lateBeat, world, told, authority>>

(* Another kernel prepared first: a terminal row is replayed, a live one   *)
(* raises; so does a transaction that fails before its COMMIT.             *)
PrepareNotCreated(k) ==
    LET r == job[k] IN
    /\ pc[k] = "validated"
    /\ Leave(k)
    /\ \/ IsTerminal(r) /\ Tell(r, row[r].outcome)
       \/ UNCHANGED told
    /\ UNCHANGED <<db, beat, lateBeat, world, authority>>

(* renew_effect matches only the live, unexpired, unfenced attempt. *)
RenewMatches(k, r) ==
    /\ IsLive(r)
    /\ row[r].attempt = k
    /\ row[r].gen = 1
    /\ row[r].lease > 0

(* Mutant: a renewal adds its lease to what is left of the last one. *)
RenewedLonger(x) == [x EXCEPT !.state = "executing", !.lease = @ + LeaseTicks]

(* The lease starts anew from the database clock. *)
RenewedRow(x) == [x EXCEPT !.state = "executing", !.lease = LeaseTicks]

Renew(r) == row' = [row EXCEPT ![r] = RenewedRow(@)]

(* The renewal between preparation and the executor. *)
FirstRenewal(k) ==
    LET r == job[k] IN
    /\ pc[k] = "prepared"
    /\ RenewMatches(k, r)
    /\ Renew(r)
    /\ \/ /\ Goto(k, "running")
          /\ beat' = [beat EXCEPT ![k] = TRUE]
          /\ UNCHANGED result
       \/ Leave(k) /\ UNCHANGED beat     \* committed, acknowledgement lost
    /\ UNCHANGED <<evidence, consumed, inDoubt, lateBeat, world, told, authority>>

(* The lease ran out, the attempt was fenced, or the transaction failed. *)
FirstRenewalFails(k) ==
    /\ pc[k] = "prepared"
    /\ Leave(k)
    /\ UNCHANGED <<db, beat, lateBeat, world, told, authority>>

-----------------------------------------------------------------------------
(* The heartbeat thread *)

Heartbeat(k) ==
    LET r == job[k] IN
    /\ beat[k]
    /\ \/ /\ inDoubt[r] = NoOutcome
          /\ RenewMatches(k, r)
          /\ Renew(r)
          /\ UNCHANGED beat
       \/ /\ beat' = [beat EXCEPT ![k] = FALSE]   \* any exception ends the thread
          /\ UNCHANGED row
    /\ UNCHANGED <<evidence, consumed, inDoubt, pc, job, result, lateBeat,
                   world, told, authority>>

(* stop.set() and join(timeout=1): a renewal already under way may outlive *)
(* the join.                                                               *)
StopHeartbeat(k) ==
    /\ beat' = [beat EXCEPT ![k] = FALSE]
    /\ \/ beat[k] /\ lateBeat' = lateBeat \cup {<<k, job[k]>>}
       \/ lateBeat' = lateBeat

LateRenewal(k, r) ==
    /\ <<k, r>> \in lateBeat
    /\ lateBeat' = lateBeat \ {<<k, r>>}
    /\ \/ inDoubt[r] = NoOutcome /\ RenewMatches(k, r) /\ Renew(r)
       \/ UNCHANGED row
    /\ UNCHANGED <<evidence, consumed, inDoubt, pc, job, result, beat,
                   world, told, authority>>

-----------------------------------------------------------------------------
(* The executor *)

ExecutorStart(k) ==
    LET r == job[k] IN
    /\ pc[k] = "running"
    /\ Goto(k, "executing")
    /\ applied' = [applied EXCEPT ![r] = @ + 1]
    /\ active' = [active EXCEPT ![r] = TRUE]
    /\ UNCHANGED <<db, result, beat, lateBeat, told, authority>>

ExecutorSucceeds(k) ==
    /\ pc[k] = "executing"
    /\ Goto(k, "ran")
    /\ result' = [result EXCEPT ![k] = OwnerOutcome(k, "succeeded")]
    /\ StopHeartbeat(k)
    /\ UNCHANGED <<db, world, told, authority>>

(* It raised, or its result is malformed: the effect is reverted, and the  *)
(* outcome is indeterminate, unless reverting raises too.                  *)
ExecutorFails(k) ==
    LET r == job[k] IN
    /\ pc[k] = "executing"
    /\ StopHeartbeat(k)
    /\ \/ /\ active' = [active EXCEPT ![r] = FALSE]
          /\ Goto(k, "ran")
          /\ result' = [result EXCEPT ![k] = OwnerOutcome(k, "indeterminate")]
       \/ Leave(k) /\ UNCHANGED active
    /\ UNCHANGED <<db, applied, told, authority>>

-----------------------------------------------------------------------------
(* Completion *)

(* effect_active of this dispatch: only a successful result leaves it set. *)
EffectActive(k) == result[k].status = "succeeded"

(* _revert_synthetic removes the effect or raises. *)
RevertIfActive(k) ==
    \/ EffectActive(k) /\ active' = [active EXCEPT ![job[k]] = FALSE]
    \/ UNCHANGED active

(* The outcome's scope must end no later than the actor context does, so   *)
(* it cannot be built once that has expired.                               *)
BuildOutcomeFails(k) ==
    /\ pc[k] = "ran"
    /\ actor[job[k]] = "expired"
    /\ RevertIfActive(k)
    /\ Leave(k)
    /\ UNCHANGED <<db, beat, lateBeat, applied, told, authority>>

TerminalState(o) == IF o.status = "succeeded" THEN "completed" ELSE "indeterminate"

(* Mutant: completion checks neither state nor version, generation or lease. *)
CompleteUnfenced(k, r) == row[r].attempt = k

(* complete_effect matches the live attempt, version, generation and lease. *)
CompleteMatches(k, r) ==
    /\ IsLive(r)
    /\ row[r].version = 1
    /\ row[r].attempt = k
    /\ row[r].gen = 1
    /\ row[r].lease > 0

CompletedRow(x, o) == [x EXCEPT !.state = TerminalState(o),
                                !.version = @ + 1,
                                !.outcome = o]

(* The effect of a completion's COMMIT. *)
CommitCompletion(r, o) ==
    /\ row' = [row EXCEPT ![r] = CompletedRow(@, o)]
    /\ evidence' = Append(evidence, OutcomeEvent(r, o))

Complete(k) ==
    LET r == job[k] IN
    /\ pc[k] = "ran"
    /\ actor[r] # "expired"
    /\ RunHeadFree
    /\ CompleteMatches(k, r)
    /\ \/ /\ CommitCompletion(r, result[k])
          /\ Tell(r, result[k])
          /\ Leave(k)
          /\ UNCHANGED inDoubt
       \/ /\ CommitCompletion(r, result[k])       \* acknowledgement lost
          /\ Goto(k, "reconcile")
          /\ UNCHANGED <<inDoubt, told, result>>
       \/ /\ inDoubt' = [inDoubt EXCEPT ![r] = result[k]]  \* COMMIT unresolved
          /\ Goto(k, "reconcile")
          /\ UNCHANGED <<row, evidence, told, result>>
    /\ UNCHANGED <<consumed, beat, lateBeat, world, authority>>

(* The attempt was fenced or its lease ran out, or the transaction failed. *)
CompleteRaises(k) ==
    /\ pc[k] = "ran"
    /\ actor[job[k]] # "expired"
    /\ Goto(k, "reconcile")
    /\ UNCHANGED <<db, result, beat, lateBeat, world, told, authority>>

(* Mutant: any terminal row is taken for the acknowledgement of this one. *)
ReconcileAnyTerminal(k) ==
    LET r == job[k] IN
    /\ pc[k] = "reconcile"
    /\ \/ IsTerminal(r) /\ Tell(r, result[k]) /\ UNCHANGED active
       \/ ~IsTerminal(r) /\ RevertIfActive(k) /\ UNCHANGED told
    /\ Leave(k)
    /\ UNCHANGED <<db, beat, lateBeat, applied, authority>>

(* Mutant: a completion that raised is reverted without looking it up. *)
ReconcileReverts(k) ==
    /\ pc[k] = "reconcile"
    /\ RevertIfActive(k)
    /\ Leave(k)
    /\ UNCHANGED <<db, beat, lateBeat, applied, told, authority>>

(* The lookup after a failed completion: a terminal row with this outcome  *)
(* is success, with another it is a conflict, a live row is reverted, and  *)
(* a failed lookup leaves everything as it is.                             *)
Reconcile(k) ==
    LET r == job[k] IN
    /\ pc[k] = "reconcile"
    /\ \/ /\ IsTerminal(r)
          /\ row[r].outcome = result[k]
          /\ Tell(r, result[k])
          /\ UNCHANGED active
       \/ /\ ~IsTerminal(r)
          /\ RevertIfActive(k)
          /\ UNCHANGED told
       \/ UNCHANGED <<active, told>>
    /\ Leave(k)
    /\ UNCHANGED <<db, beat, lateBeat, applied, authority>>

(* The database decides a COMMIT whose client has gone. *)
ResolveInDoubt(r) ==
    /\ inDoubt[r] # NoOutcome
    /\ inDoubt' = [inDoubt EXCEPT ![r] = NoOutcome]
    /\ \/ CommitCompletion(r, inDoubt[r])
       \/ UNCHANGED <<row, evidence>>
    /\ UNCHANGED <<consumed, local, world, told, authority>>

-----------------------------------------------------------------------------
(* Recovery *)

(* Mutant: recovery takes rows the owner never renewed, and no others. *)
RecoverPreparedOnly(r) == row[r].state = "prepared" /\ row[r].lease = 0

(* recover_effect matches only a live row whose lease has run out. *)
RecoverMatches(r) == IsLive(r) /\ row[r].lease = 0

RecoveredRow(x, k) == [x EXCEPT !.state = "indeterminate",
                                !.version = @ + 1,
                                !.gen = @ + 1,
                                !.outcome = RecoveryOutcome(k)]

Recover(k, r) ==
    /\ pc[k] = "idle"
    /\ actor[r] = "valid"
    /\ RunHeadFree
    /\ RecoverMatches(r)
    /\ row' = [row EXCEPT ![r] = RecoveredRow(@, k)]
    /\ evidence' = Append(evidence, OutcomeEvent(r, RecoveryOutcome(k)))
    /\ \/ Tell(r, RecoveryOutcome(k))
       \/ UNCHANGED told                          \* acknowledgement lost
    /\ UNCHANGED <<consumed, inDoubt, local, world, authority>>

-----------------------------------------------------------------------------
(* Environment *)

Crash(k) ==
    /\ pc[k] # "idle"
    /\ Leave(k)
    /\ beat' = [beat EXCEPT ![k] = FALSE]
    /\ lateBeat' = {p \in lateBeat : p[1] # k}
    /\ UNCHANGED <<db, world, told, authority>>

TickedRow(x) == [x EXCEPT !.lease = @ - 1]

(* The database clock advances; live leases run down. *)
Tick ==
    /\ \E r \in Requests : IsLive(r) /\ row[r].lease > 0
    /\ row' = [r \in Requests |->
                  IF IsLive(r) /\ row[r].lease > 0 THEN TickedRow(row[r])
                                                  ELSE row[r]]
    /\ UNCHANGED <<evidence, consumed, inDoubt, local, world, told, authority>>

(* The kernel clock reaches, then passes, the actor context's expires_at.  *)
ActorAges(r) ==
    /\ actor[r] # "expired"
    /\ actor' = [actor EXCEPT ![r] = IF @ = "valid" THEN "expiring" ELSE "expired"]
    /\ UNCHANGED <<db, local, world, told, grantLive>>

GrantLapses(r) ==
    /\ grantLive[r]
    /\ grantLive' = [grantLive EXCEPT ![r] = FALSE]
    /\ UNCHANGED <<db, local, world, told, actor>>

Step(k) ==
    \/ Prepare(k) \/ PrepareNotCreated(k)
    \/ FirstRenewal(k) \/ FirstRenewalFails(k)
    \/ ExecutorStart(k) \/ ExecutorSucceeds(k) \/ ExecutorFails(k)
    \/ BuildOutcomeFails(k) \/ Complete(k) \/ CompleteRaises(k) \/ Reconcile(k)

Next ==
    \/ \E k \in Kernels : Step(k) \/ Heartbeat(k) \/ Crash(k)
    \/ \E k \in Kernels, r \in Requests :
          DispatchNew(k, r) \/ ReplayTerminal(k, r) \/ Recover(k, r)
            \/ LateRenewal(k, r)
    \/ \E r \in Requests : ResolveInDoubt(r) \/ ActorAges(r) \/ GrantLapses(r)
    \/ Tick

Spec == Init /\ [][Next]_vars

(* Fairness.  Threads of a live process keep running and the injected      *)
(* executor returns, the database clock advances and decides every COMMIT, *)
(* and callers keep asking for recovery (the code has no background        *)
(* recoverer).  Nothing makes a crash, a dispatch or an expiry happen.     *)
Fairness ==
    /\ WF_vars(Tick)
    /\ \A k \in Kernels : WF_vars(Step(k))
    /\ \A r \in Requests : WF_vars(ResolveInDoubt(r))
    /\ \A r \in Requests : SF_vars(\E k \in Kernels : Recover(k, r))

FairSpec == Spec /\ Fairness

-----------------------------------------------------------------------------
(* Correctness *)

(* Every variable has its type. *)
TypeOK ==
    /\ row \in [Requests -> Rows]
    /\ evidence \in Seq(Events)
    /\ consumed \in SUBSET Requests
    /\ inDoubt \in [Requests -> Outcomes \cup {NoOutcome}]
    /\ pc \in [Kernels -> PCs]
    /\ job \in [Kernels -> Requests \cup {None}]
    /\ result \in [Kernels -> Outcomes \cup {NoOutcome}]
    /\ beat \in [Kernels -> BOOLEAN]
    /\ lateBeat \in SUBSET (Kernels \X Requests)
    /\ applied \in [Requests -> Nat]
    /\ active \in [Requests -> BOOLEAN]
    /\ told \in [Requests -> SUBSET Outcomes]
    /\ actor \in [Requests -> {"valid", "expiring", "expired"}]
    /\ grantLive \in [Requests -> BOOLEAN]

(* "Neither path retries the effect": however many kernels dispatch,       *)
(* crash, restart or recover, the executor is invoked at most once for a   *)
(* request.                                                                *)
AtMostOnce == \A r \in Requests : applied[r] <= 1

(* Evidence first: an effect that ran has its intent in the ledger and its *)
(* grant consumed.                                                         *)
IntentBeforeEffect ==
    \A r \in Requests :
        applied[r] > 0 =>
            /\ \E i \in DOMAIN evidence : evidence[i] = Intent(r)
            /\ r \in consumed

(* "Stale owners cannot append terminal evidence": the ledger holds an     *)
(* outcome for a request exactly when its row is terminal, it is the row's *)
(* outcome, it comes after the intent, and there is only one.              *)
LedgerMatchesRow ==
    \A r \in Requests :
        /\ IsTerminal(r) =>
             \E i \in DOMAIN evidence : evidence[i] = OutcomeEvent(r, row[r].outcome)
        /\ \A i \in DOMAIN evidence :
             evidence[i].kind = "outcome" /\ evidence[i].req = r =>
               /\ IsTerminal(r)
               /\ evidence[i].outcome = row[r].outcome
               /\ \E j \in 1..(i - 1) : evidence[j] = Intent(r)
               /\ \A j \in DOMAIN evidence :
                    evidence[j].kind = "outcome" /\ evidence[j].req = r => j = i

(* A caller is only ever told the outcome the store holds for good, so no  *)
(* two callers are told different outcomes of one effect, whichever of     *)
(* completion, reconciliation, replay and recovery answered them.          *)
ToldIsDurable ==
    \A r \in Requests : \A o \in told[r] : IsTerminal(r) /\ row[r].outcome = o

(* A terminal row never changes again: completion and recovery exclude     *)
(* each other.                                                             *)
TerminalIsFinal ==
    [][\A r \in Requests : IsTerminal(r) => row'[r] = row[r]]_vars

(* An effect the store records as succeeded is never reverted by a         *)
(* dispatcher whose acknowledgement was lost.                              *)
CompletedEffectKept ==
    [][\A r \in Requests :
          row[r].state = "completed" /\ active[r] => active'[r]]_vars

(* A prepared effect is eventually resolved, unless its actor context runs *)
(* out first.                                                              *)
EventuallyResolved ==
    \A r \in Requests : IsLive(r) ~> (IsTerminal(r) \/ actor[r] # "valid")

(* "Unknown outcomes are marked indeterminate": every prepared effect is   *)
(* eventually resolved, with no proviso.  Recovery demands the exact and   *)
(* unexpired actor context of the preparation, so this fails.              *)
UnknownOutcomesMarked ==
    \A r \in Requests : IsLive(r) ~> IsTerminal(r)

(* The durable path implements the abstract at-most-once effect. *)
Once == INSTANCE EffectOnce WITH
            status <- [r \in Requests |->
                          IF IsLive(r) THEN "intended" ELSE row[r].state],
            told <- [r \in Requests |-> {TerminalState(o) : o \in told[r]}]

ImplementsEffectOnce == Once!Spec

===============================================================================
