--------------------------- MODULE BuiltinExecution ---------------------------
(***************************************************************************)
(* The admission of built-in executions (persistence/execution.py and      *)
(* migrations 0011 to 0016) beside the lifecycle of the skill they run.    *)
(*                                                                         *)
(* issue binds a grant to the active revision, invoke consumes the grant   *)
(* under a lease, runs the static handler and records the outcome, recover *)
(* marks an expired attempt indeterminate, and rebuild restores a lost row *)
(* from the run's evidence.  Their events go to the same run as the        *)
(* lifecycle's, under the lock of the run's head row alone; the operation  *)
(* lock is taken before the skill lock.                                    *)
(*                                                                         *)
(* A step is a transaction, or its part up to a lock it waits for.  The    *)
(* evidence is drafted on a head read before that, and a process may die   *)
(* between two steps.  A lost acknowledgement is a caller that dies after  *)
(* the commit.  Time is the ticks a lease and a grant have left.           *)
(***************************************************************************)
EXTENDS SkillLifecycle

CONSTANTS Executors,    \* processes that issue, invoke, recover and rebuild
          Executions,   \* execution commands: operation id, skill revision and digest
          GrantTicks,   \* the longest life of a grant
          LeaseTicks,   \* lease_duration
          MaxLosses,    \* rows lost
          Grants        \* the grants whose effects are compared with EffectOnce

ASSUME ExecutorAssumption == Executors \cap Callers = {}
(* CHECK (revision > 0) in gah_builtin_execution_state *)
ASSUME ExecutionAssumption == \A o \in Executions : o.revision \in Nat \ {0}
ASSUME TickAssumption ==
    /\ GrantTicks \in Nat \ {0}
    /\ LeaseTicks \in Nat \ {0}
    /\ MaxLosses \in Nat

VARIABLES
    row,     \* row[o]: the gah_builtin_execution_state row of operation o
    life,    \* life[g]: ticks the g-th issued grant has left
    call,    \* call[x]: where executor x is and what it holds
    runs,    \* runs[g]: invocations of the handler under grant g
    told,    \* the outcome events whose outcome a caller was given
    losses   \* rows lost so far

executionVars == <<row, life, call, runs, told, losses>>
skillVars == <<artifacts, transitions, active, rebuilds, lost, pc, cmd, auth, seen, answers>>
systemVars == <<ledger, locks, skillVars, executionVars>>

-----------------------------------------------------------------------------
ExecutionLock(o) == <<"execution", o>>

NoRow == [state |-> "absent", grant |-> 0, attempt |-> 0, generation |-> 0, lease |-> 0,
          outcome |-> 0]
Idle == [pc |-> "idle", op |-> None, grant |-> 0, head |-> 0, attempt |-> 0]
Terminal == {"completed", "indeterminate"}

SystemInit ==
    /\ Init
    /\ row = [o \in Executions |-> NoRow]
    /\ life = <<>>
    /\ call = [x \in Executors |-> Idle]
    /\ runs = <<>>
    /\ told = {}
    /\ losses = 0

(* Mutant: the skill that was active when the grant was issued will do. *)
ActiveOnce(o) == o.revision \in DOMAIN artifacts

(* The active skill is the one the command names. *)
ActiveMatches(o) == active.revision = o.revision /\ active.digest = o.digest

(* Mutant: the drafted sequence is not compared with the head. *)
ChainsAnywhere(x) == TRUE

(* gah_builtin_execution_commit_evidence, under the head's row lock. *)
Chains(x) == call[x].head = Len(ledger)

Record(x, kind, g, outcome) ==
    ledger' = Append(ledger,
        [kind |-> kind, sequence |-> call[x].head,
         of |-> [op |-> call[x].op, grant |-> g, outcome |-> outcome]])

Return(x) == call' = [call EXCEPT ![x] = Idle]

(* The call of x raises, or returns what is stored. *)
End(x) ==
    /\ Return(x)
    /\ ReleaseAll(x)
    /\ UNCHANGED <<ledger, skillVars, row, life, runs, losses>>

Tell(event) == told' = told \cup {event}

-----------------------------------------------------------------------------
(* issue.  A stored authorization is returned before anything is checked,  *)
(* which changes nothing.                                                  *)
IssueResolve(x, o) ==
    /\ call[x].pc = "idle"
    /\ row[o].state = "absent"
    /\ ActiveMatches(o)
    /\ call' = [call EXCEPT ![x].pc = "issue", ![x].op = o]
    /\ UNCHANGED <<ledger, locks, skillVars, row, life, runs, told, losses>>

(* The writer takes the operation lock, the row is looked up again and the *)
(* issuance drafted on the head.                                           *)
IssueDraft(x) ==
    LET o == call[x].op IN
    /\ call[x].pc = "issue"
    /\ Free(ExecutionLock(o))
    /\ row[o].state = "absent"
    /\ Acquire(x, {ExecutionLock(o)})
    /\ call' = [call EXCEPT ![x].pc = "issuing", ![x].head = Len(ledger)]
    /\ UNCHANGED <<ledger, skillVars, row, life, runs, told, losses>>

IssueReplay(x) ==
    /\ call[x].pc = "issue"
    /\ Free(ExecutionLock(call[x].op))
    /\ row[call[x].op].state # "absent"
    /\ End(x)
    /\ UNCHANGED told

(* _grant: a grant ends with its lifetime, the actor context, the          *)
(* approval, the validity or the retention, and part of it may be gone     *)
(* when it is recorded.                                                    *)
GrantLives == 1..GrantTicks

Issuable(x) == ActiveMatches(call[x].op) /\ Chains(x)

IssueCommit(x) ==
    LET o == call[x].op
        g == Len(life) + 1
    IN
    /\ call[x].pc = "issuing"
    /\ Free(SkillLock)
    /\ Issuable(x)
    /\ \E ticks \in GrantLives : life' = Append(life, ticks)
    /\ runs' = Append(runs, 0)
    /\ Record(x, "execution.authorization_issued", g, None)
    /\ row' = [row EXCEPT ![o] = [NoRow EXCEPT !.state = "authorized", !.grant = g]]
    /\ Return(x)
    /\ ReleaseAll(x)
    /\ UNCHANGED <<skillVars, told, losses>>

IssueRefused(x) ==
    /\ call[x].pc = "issuing"
    /\ Free(SkillLock)
    /\ ~Issuable(x)
    /\ End(x)
    /\ UNCHANGED told

-----------------------------------------------------------------------------
(* invoke *)
InvokeDraft(x, o, g) ==
    /\ call[x].pc = "idle"
    /\ call' = [call EXCEPT ![x].pc = "begin", ![x].op = o, ![x].grant = g,
                            ![x].head = Len(ledger)]
    /\ UNCHANGED <<ledger, locks, skillVars, row, life, runs, told, losses>>

BeginLock(x) ==
    /\ call[x].pc = "begin"
    /\ Free(ExecutionLock(call[x].op))
    /\ Acquire(x, {ExecutionLock(call[x].op)})
    /\ call' = [call EXCEPT ![x].pc = "beginning"]
    /\ UNCHANGED <<ledger, skillVars, row, life, runs, told, losses>>

Beginning(x) == call[x].pc = "beginning" /\ Free(SkillLock)

Replayable(x) == LET r == row[call[x].op] IN r.grant = call[x].grant /\ r.state \in Terminal

BeginReplay(x) ==
    /\ Beginning(x)
    /\ Replayable(x)
    /\ Tell(row[call[x].op].outcome)
    /\ End(x)

(* Mutant: the lease may outlive the grant. *)
LeaseUncapped(g) == LeaseTicks

(* The lease ends before the grant does. *)
LeaseGranted(g) == Min({LeaseTicks, life[g] - 1})

(* gah_begin_builtin_execution_validated *)
Consumable(x) ==
    LET r == row[call[x].op] IN
    /\ r.grant = call[x].grant
    /\ r.state = "authorized"
    /\ ActiveMatches(call[x].op)
    /\ LeaseGranted(r.grant) > 0

BeginCommit(x) ==
    LET o == call[x].op
        g == call[x].grant
        intent == Len(ledger) + 1
    IN
    /\ Beginning(x)
    /\ Consumable(x)
    /\ Chains(x)
    /\ Record(x, "execution.intent", g, None)
    /\ row' = [row EXCEPT ![o].state = "executing", ![o].attempt = intent,
                          ![o].generation = 1, ![o].lease = LeaseGranted(g)]
    /\ call' = [call EXCEPT ![x].pc = "running", ![x].head = 0, ![x].attempt = intent]
    /\ ReleaseAll(x)
    /\ UNCHANGED <<skillVars, life, runs, told, losses>>

BeginRefused(x) ==
    /\ Beginning(x)
    /\ ~Replayable(x)
    /\ ~Consumable(x) \/ ~Chains(x)
    /\ End(x)
    /\ UNCHANGED told

(* Mutant: the handler raised, and its outcome is drafted all the same. *)
RunHandlerRaised(x) ==
    /\ call[x].pc = "running"
    /\ call' = [call EXCEPT ![x].pc = "completing", ![x].head = Len(ledger)]
    /\ UNCHANGED <<ledger, locks, skillVars, row, life, runs, told, losses>>

(* The static handler runs, and the outcome is drafted on the head. *)
RunHandler(x) ==
    /\ call[x].pc = "running"
    /\ runs' = [runs EXCEPT ![call[x].grant] = @ + 1]
    /\ call' = [call EXCEPT ![x].pc = "completing", ![x].head = Len(ledger)]
    /\ UNCHANGED <<ledger, locks, skillVars, row, life, told, losses>>

(* Mutant: the lease and the owner's generation are not compared. *)
CompleteUnfenced(x) ==
    LET r == row[call[x].op] IN r.attempt = call[x].attempt

(* The fence of gah_complete_builtin_execution.  A row that is completed   *)
(* already has another outcome, since an attempt is completed once.        *)
CompleteMatches(x) ==
    LET r == row[call[x].op] IN
    /\ r.state = "executing"
    /\ r.attempt = call[x].attempt
    /\ r.generation = 1
    /\ r.lease > 0

CompleteCommit(x) ==
    LET o == call[x].op IN
    /\ call[x].pc = "completing"
    /\ CompleteMatches(x)
    /\ Chains(x)
    /\ Record(x, "execution.outcome", call[x].grant, "succeeded")
    /\ row' = [row EXCEPT ![o].state = "completed", ![o].outcome = Len(ledger) + 1]
    /\ Tell(Len(ledger) + 1)
    /\ Return(x)
    /\ UNCHANGED <<locks, skillVars, life, runs, losses>>

CompleteRefused(x) ==
    /\ call[x].pc = "completing"
    /\ ~CompleteMatches(x) \/ ~Chains(x)
    /\ End(x)
    /\ UNCHANGED told

-----------------------------------------------------------------------------
(* recover.  The lookup demands the caller's grant; the recovery itself    *)
(* asks for the operation, and returns whatever ended it.                  *)
RecoverReplay(x, o, g) ==
    /\ call[x].pc = "idle"
    /\ row[o].grant = g
    /\ row[o].state \in Terminal
    /\ Tell(row[o].outcome)
    /\ UNCHANGED <<ledger, locks, skillVars, row, life, call, runs, losses>>

RecoverLookup(x, o, g) ==
    /\ call[x].pc = "idle"
    /\ row[o].grant = g
    /\ row[o].state = "executing"
    /\ call' = [call EXCEPT ![x].pc = "recover", ![x].op = o, ![x].grant = g,
                            ![x].attempt = row[o].attempt]
    /\ UNCHANGED <<ledger, locks, skillVars, row, life, runs, told, losses>>

RecoverDraft(x) ==
    /\ call[x].pc = "recover"
    /\ call' = [call EXCEPT ![x].pc = "recovering", ![x].head = Len(ledger)]
    /\ UNCHANGED <<ledger, locks, skillVars, row, life, runs, told, losses>>

(* gah_recover_builtin_execution_validated: the outcome names the grant    *)
(* and the intent it was drafted for.                                      *)
RecoverMatches(x) ==
    LET r == row[call[x].op] IN
    /\ r.state = "executing"
    /\ r.lease = 0
    /\ r.grant = call[x].grant
    /\ r.attempt = call[x].attempt

RecoverCommit(x) ==
    LET o == call[x].op IN
    /\ call[x].pc = "recovering"
    /\ RecoverMatches(x)
    /\ Chains(x)
    /\ Record(x, "execution.outcome", call[x].grant, "indeterminate")
    /\ row' = [row EXCEPT ![o].state = "indeterminate", ![o].generation = @ + 1,
                          ![o].outcome = Len(ledger) + 1]
    /\ Tell(Len(ledger) + 1)
    /\ Return(x)
    /\ UNCHANGED <<locks, skillVars, life, runs, losses>>

RecoverLate(x) ==
    /\ call[x].pc = "recovering"
    /\ row[call[x].op].state \in Terminal
    /\ Tell(row[call[x].op].outcome)
    /\ End(x)

RecoverRefused(x) ==
    /\ call[x].pc = "recovering"
    /\ row[call[x].op].state \notin Terminal
    /\ ~RecoverMatches(x) \/ ~Chains(x)
    /\ End(x)
    /\ UNCHANGED told

-----------------------------------------------------------------------------
(* rebuild: one transaction, under the operation lock and the head's.      *)

EventsOf(o, kind) ==
    {i \in DOMAIN ledger : ledger[i].kind = kind /\ ledger[i].of.op = o}

(* Mutant: only the issuance and the outcome are read. *)
RebuiltIgnoringIntent(o, g) ==
    LET outcomes == EventsOf(o, "execution.outcome")
        end == Max(outcomes)
    IN  IF outcomes = {}
        THEN [NoRow EXCEPT !.state = "authorized", !.grant = g]
        ELSE [NoRow EXCEPT !.state = "completed", !.grant = g, !.outcome = end]

(* The state the evidence proves, with a lease that is over. *)
Rebuilt(o, g) ==
    LET intents == EventsOf(o, "execution.intent")
        outcomes == EventsOf(o, "execution.outcome")
        end == Max(outcomes)
        authorized == [NoRow EXCEPT !.state = "authorized", !.grant = g]
        executing == [authorized EXCEPT !.state = "executing", !.attempt = Max(intents),
                                        !.generation = 1]
    IN  CASE intents = {} -> authorized
          [] intents # {} /\ outcomes = {} -> executing
          [] OTHER -> IF ledger[end].of.outcome = "indeterminate"
                      THEN [executing EXCEPT !.state = "indeterminate", !.generation = 2,
                                             !.outcome = end]
                      ELSE [executing EXCEPT !.state = "completed", !.outcome = end]

(* A row that is there is returned; evidence of two grants is refused. *)
Rebuild(x, o) ==
    /\ call[x].pc = "idle"
    /\ Free(ExecutionLock(o))
    /\ row[o].state = "absent"
    /\ Cardinality(EventsOf(o, "execution.authorization_issued")) = 1
    /\ Cardinality(EventsOf(o, "execution.intent")) <= 1
    /\ Cardinality(EventsOf(o, "execution.outcome")) <= 1
    /\ \E i \in EventsOf(o, "execution.authorization_issued") :
          row' = [row EXCEPT ![o] = Rebuilt(o, ledger[i].of.grant)]
    /\ UNCHANGED <<ledger, locks, skillVars, life, call, runs, told, losses>>

-----------------------------------------------------------------------------
(* Failures and time *)

LoseRow(o) ==
    /\ losses < MaxLosses
    /\ row[o].state # "absent"
    /\ row' = [row EXCEPT ![o] = NoRow]
    /\ losses' = losses + 1
    /\ UNCHANGED <<ledger, locks, skillVars, life, call, runs, told>>

(* The call raises for a reason of its own, or its process dies. *)
Die(x) == call[x].pc # "idle" /\ End(x) /\ UNCHANGED told

Tick ==
    /\ life' = [g \in DOMAIN life |-> Max({0, life[g] - 1})]
    /\ row' = [o \in Executions |-> [row[o] EXCEPT !.lease = Max({0, @ - 1})]]
    /\ <<life, row>> # <<life', row'>>
    /\ UNCHANGED <<ledger, locks, skillVars, call, runs, told, losses>>

-----------------------------------------------------------------------------
ExecutionStep(x) ==
    \/ IssueDraft(x) \/ IssueReplay(x) \/ IssueCommit(x) \/ IssueRefused(x)
    \/ BeginLock(x) \/ BeginReplay(x) \/ BeginCommit(x) \/ BeginRefused(x)
    \/ RunHandler(x) \/ CompleteCommit(x) \/ CompleteRefused(x)
    \/ RecoverDraft(x) \/ RecoverCommit(x) \/ RecoverLate(x) \/ RecoverRefused(x)

ExecutionCall(x) ==
    \E o \in Executions :
        \/ IssueResolve(x, o)
        \/ Rebuild(x, o)
        \/ \E g \in DOMAIN life :
              InvokeDraft(x, o, g) \/ RecoverReplay(x, o, g) \/ RecoverLookup(x, o, g)

SystemNext ==
    \/ LifecycleNext /\ UNCHANGED executionVars
    \/ \E x \in Executors : ExecutionCall(x) \/ ExecutionStep(x) \/ Die(x)
    \/ \E o \in Executions : LoseRow(o)
    \/ Tick

SystemSpec == SystemInit /\ [][SystemNext]_systemVars

-----------------------------------------------------------------------------
(* Properties *)

ExecutionPCs == {"idle", "issue", "issuing", "begin", "beginning", "running", "completing",
                 "recover", "recovering"}

(* Every variable has its type, a row names an issued grant, and while an  *)
(* attempt runs its lease ends before its grant.                           *)
ExecutionTypeOK ==
    /\ life \in Seq(0..GrantTicks)
    /\ row \in [Executions -> [state : {"absent", "authorized", "executing"} \cup Terminal,
                               grant : 0..Len(life), attempt : 0..Len(ledger),
                               generation : 0..2, lease : 0..LeaseTicks,
                               outcome : 0..Len(ledger)]]
    /\ call \in [Executors -> [pc : ExecutionPCs, op : Executions \cup {None},
                               grant : 0..Len(life), head : 0..Len(ledger),
                               attempt : 0..Len(ledger)]]
    /\ runs \in Seq(Nat)
    /\ Len(runs) = Len(life)
    /\ told \subseteq DOMAIN ledger
    /\ losses \in 0..MaxLosses
    /\ \A o \in Executions : row[o].state = "executing" /\ row[o].lease > 0
                               => row[o].lease < life[row[o].grant]

IsKind(i, kind) == ledger[i].kind = kind

(* Each grant is consumed while the very revision it was issued for is the *)
(* active one: what the lifecycle events before the intent in the run      *)
(* stand for is the command's revision and digest, however many            *)
(* transitions raced the invocation.                                       *)
ConsumedOnActiveSkill ==
    \A i \in DOMAIN ledger : IsKind(i, "execution.intent") =>
        \E n \in 0..Len(transitions) :
            LET skill == Replay(SubSeq(transitions, 1, n)) IN
            /\ \A k \in DOMAIN transitions : transitions[k].event < i <=> k <= n
            /\ skill.revision = ledger[i].of.op.revision
            /\ skill.digest = ledger[i].of.op.digest

(* The handler is invoked at most once under a grant and only after the    *)
(* grant's intent is in the ledger, whoever invokes, dies, or rebuilds the *)
(* row; and at most once for an operation whose row was never lost.        *)
RunsOnce ==
    /\ \A g \in DOMAIN runs :
          /\ runs[g] <= 1
          /\ runs[g] = 1 => \E i \in DOMAIN ledger :
                               IsKind(i, "execution.intent") /\ ledger[i].of.grant = g
    /\ losses = 0 => \A i, j \in DOMAIN ledger :
                        /\ IsKind(i, "execution.intent")
                        /\ IsKind(j, "execution.intent")
                        /\ ledger[i].of.op = ledger[j].of.op
                        => i = j

(* A grant has at most one outcome in the ledger, after its intent; the    *)
(* row of the operation ended with it or has not ended; and every outcome  *)
(* a caller was given is in the ledger.  A late completion, a recovery and *)
(* a rebuild never leave two answers.                                      *)
OutcomeAgrees ==
    LET outcomes == {i \in DOMAIN ledger : IsKind(i, "execution.outcome")} IN
    /\ \A i, j \in outcomes : ledger[i].of.grant = ledger[j].of.grant => i = j
    /\ \A i \in outcomes : \E j \in 1..(i - 1) :
          IsKind(j, "execution.intent") /\ ledger[j].of.grant = ledger[i].of.grant
    /\ \A o \in Executions :
          LET r == row[o]
              own == {i \in outcomes : ledger[i].of.grant = r.grant}
          IN  CASE r.state = "absent" -> TRUE
                [] r.state \in Terminal ->
                     /\ own = {r.outcome}
                     /\ ledger[r.outcome].of.outcome =
                          (IF r.state = "completed" THEN "succeeded" ELSE "indeterminate")
                [] OTHER -> own = {}
    /\ told \subseteq outcomes

(* Every event of the run continues the chain: lifecycle and execution     *)
(* draft on heads they read without a lock, and only one may append each.  *)
ChainIntact == \A i \in DOMAIN ledger : ledger[i].sequence = i - 1

(* The locks that the next statement of x's call waits for. *)
ExecutionAwaits(x) ==
    CASE call[x].pc \in {"issue", "begin"} -> {ExecutionLock(call[x].op)}
      [] call[x].pc \in {"issuing", "beginning"} -> {SkillLock}
      [] OTHER -> {}

Executing == {x \in Executors : call[x].pc # "idle"}

(* While a call is under way, some call under way waits for no lock:       *)
(* writer, operation, execution, skill and run locks are taken in one      *)
(* order by the lifecycle and the execution ports and given back on every  *)
(* path, so no set of calls waits for itself or for a caller that is gone. *)
NobodyStuck ==
    Working \cup Executing # {} =>
        \/ \E c \in Working : AllFree(Awaited(c))
        \/ \E x \in Executing : AllFree(ExecutionAwaits(x))

(* The effect of grant g, as the ledger shows it. *)
Resolution(i) == IF ledger[i].of.outcome = "succeeded" THEN "completed" ELSE "indeterminate"

GrantStatus(g) ==
    IF \E i \in DOMAIN ledger : ledger[i].kind = "execution.intent" /\ ledger[i].of.grant = g
    THEN LET outcomes == {i \in DOMAIN ledger : /\ ledger[i].kind = "execution.outcome"
                                               /\ ledger[i].of.grant = g}
         IN  IF outcomes = {} THEN "intended" ELSE Resolution(Max(outcomes))
    ELSE "absent"

Handled == INSTANCE EffectOnce WITH
    Requests <- Grants,
    status <- [g \in Grants |-> GrantStatus(g)],
    applied <- [g \in Grants |-> IF g \in DOMAIN runs THEN runs[g] ELSE 0],
    told <- [g \in Grants |-> {Resolution(i) : i \in {j \in told : ledger[j].of.grant = g}}]

(* To its callers a grant is one effect of the kind the brokers perform:   *)
(* its intent is recorded before the handler runs, the handler runs once   *)
(* at most, one outcome is recorded, "completed" only after the handler    *)
(* ran, and no caller is told another, whatever rows are lost and rebuilt  *)
(* and whoever recovers while the first caller is still at work.           *)
HandlerImplementsEffectOnce == Handled!Spec

===============================================================================
