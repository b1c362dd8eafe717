# TLA+ models of the governed agent harness

These modules model `governed_agent_harness`: how a tool request becomes a
policy decision, an approval, a grant and at most one governed effect, in memory
and over PostgreSQL; how skills are installed, activated and executed and
memories promoted; and how the schema is installed; with several processes,
crashes, lost acknowledgements and clocks that move both ways. TLC checks the modules on small
instances; TLAPS proves their safety properties for any number of processes and
requests and every value of the other constants.

Paths below are relative to the repository; `kernel/` and `persistence/` are
under `src/governed_agent_harness/`.

## The system

| Component | State | Operations | Meets others through |
|---|---|---|---|
| Governance kernel (`kernel/core.py`) | `_records`, `_idempotency`, `_consumed_approvals`, an `RLock` | `submit`, `accept_approval`, `issue_grant`, `execute_effect`, `recover_effect`, `get` | callers' threads at the lock; the broker; the store |
| In-memory ledger (`kernel/core.py`) | hash-linked envelopes for each tenant | `append` (refuses a time before the last envelope's) | kernel and broker |
| Effect broker (`kernel/effects.py`) | `_results`, `_consumed_grants`; the heartbeat thread | `dispatch`, `_dispatch_durable`, `recover` | the injected executor; the store |
| Durable store (`persistence/store.py`, migrations 0001-0003, 0014) | run heads, evidence, effect rows with attempt, generation and lease, grant consumptions, the lifecycle projection | `prepare`, `renew_lease`, `complete`, `recover_expired`, `persist_submission`, `persist_approval`, `persist_grant`, load, `rebuild_lifecycle` | several kernel processes, one database |
| Validation (`contracts/validation.py`) | none | signed-record windows, grant, approval, idempotency and scope bindings | everything above |
| Skill lifecycle (`persistence/skills.py`, 0006-0010, 0013-0017) | installed and active skills, receipts | install, activate, roll back, deactivate, rebuild, resolve | the run ledger |
| Built-in execution (`persistence/execution.py`, 0011-0016) | admissions and executions | issue, invoke, recover, rebuild | active skills |
| Memory promotion (`persistence/memory.py`, 0004-0005) | memory revisions and their projection | promote, retrieve, rebuild | the run ledger |
| Migrations (`persistence/migration.py`) | the registry of applied migrations | bootstrap, verify, apply | the database |
| Service roles (`store.py`, `install_schema`) | role memberships of the cluster | check, grant | installers of every database of the cluster |
| Identifier factories (`core.py`, `skills.py`, `execution.py`) | last millisecond and counter | next UUIDv7 | every record |

What is hard here: kernels that race for one database row; a dispatcher that
stalls while its lease runs out and another process recovers its effect; a COMMIT
whose acknowledgement is lost or which takes effect after the client has looked;
a heartbeat that outlives its dispatch; windows (actor context, approval, grant)
that end between check and use, under a wall clock that may step back; a
projection read in one statement and its evidence in another; authority that is
committed to or validated before a lock is waited for and used after it; heads
of a hash chain read without a lock; rows that are lost and rebuilt while others
write. `PROJECT.json`
lists each of these with its line under `hazards`, with the properties that
would catch it going wrong.

What makes each component correct:

* **effect path**: at most one invocation, intent before effect, exactly one
  outcome in the ledger and equal to the row's, answers that never change, and
  resolution of what was prepared;
* **kernel**: one decision for an idempotency key, evidence before state, no
  grant without its authority, dispatch inside every validity window, no effect
  left in place without a record;
* **durable lifecycle**: the projection is the replay of the ledger, racing
  approvals and grants leave one of each, and no kernel acts on authority the
  ledger does not hold;
* **skill lifecycle**: the active revision is what the transitions make active,
  an operation identifier is applied once and answered the same way ever after,
  and a transition is applied to the state its writer committed to;
* **built-in execution**: a grant is consumed while its revision is active, runs
  once and ends once; the run's chain has no gap although lifecycle and
  executions append to it under different locks; nobody waits for ever;
* **memory**: revisions follow each other without a gap, the rows are what the
  ledger says, a proposal is promoted once, on recorded evidence and before it expires;
* **installation**: the registry says what was run, and a service login is granted
  one service group.

## Modules

| Module | Models |
|---|---|
| `EffectOnce` | abstract: what an effect path promises its callers; implemented by `DurableEffects`, by `GovernanceKernel` with its in-memory broker, and by `BuiltinExecution` for each grant |
| `GovernedSkill` | abstract: what the lifecycle authority promises of a skill; implemented by `SkillLifecycle`, alone and beside executions |
| `DurableEffects` | `_dispatch_durable`, `recover`, the heartbeat and the four effect transactions |
| `GovernanceKernel` | the kernel, its in-memory ledger and the in-memory broker |
| `DurableLifecycle` | the kernel's lifecycle over the store, and the projection |
| `SkillLifecycle` | `PostgresSkillLifecycleAuthority._call`, the lifecycle's SQL functions and their locks |
| `BuiltinExecution` | extends `SkillLifecycle` by issue, invoke, recover and rebuild of built-in executions |
| `MemoryPromotion` | promotion, rebuild and retrieval of memory revisions |
| `SchemaInstall` | `apply_migrations` and the role grants of `install_schema` |
| `*Proofs` | the theorems about each of the seven detailed modules |
| `MC*` | constants and symmetry for TLC |

`DurableEffects` begins where `DurableLifecycle` ends: with a request whose
lifecycle is `grant_issued`. `DurableLifecycle` records which grant was
handed to the broker (`dispatched`) and leaves the rest to `DurableEffects`;
windows and policy rules are in `GovernanceKernel`. `BuiltinExecution` is the
composition of two components: its next-state relation is the lifecycle's beside
the executors', over one ledger, one set of locks and one active projection.

### DurableEffects

A kernel's place in `_dispatch_durable` is `pc[k]`:

| `pc` | code | leaves by |
|---|---|---|
| `idle` | no dispatch | `DispatchNew`, `ReplayTerminal`, `Recover` |
| `validated` | authority validated, before `prepare` | `Prepare`, `PrepareNotCreated` |
| `prepared` | before the first `renew_lease` | `FirstRenewal`, `FirstRenewalFails` |
| `running`, `executing` | under the heartbeat thread | `ExecutorStart`, `ExecutorSucceeds`, `ExecutorFails` |
| `ran` | before `complete` | `Complete`, `CompleteRaises`, `BuildOutcomeFails` |
| `reconcile` | in the `except` of `complete` | `Reconcile` |

`row`, `evidence` and `consumed` are the three tables. A transaction is one
step, since its guarded `UPDATE` re-checks what was read and the run-head lock
serialises it with every other append. `inDoubt[r]` holds a completion whose
connection broke during COMMIT: it keeps the run head locked until
`ResolveInDoubt` decides it, possibly after the client's lookup. A lost
acknowledgement of any other transaction is a disjunct of its action. The lease
is the number of ticks left on the database clock, so no bound on time is needed:
versions, generations and evidence stay bounded because every row is prepared
once and resolved once. `lateBeat` holds renewals that outlive
`join(timeout=1)`. `actor[r]` passes through `expiring`, in which recovery is
already refused (`_validate_actor`) while an outcome can still be built
(`validate_scope_narrowing` accepts equality).

### GovernanceKernel

`SubmitCheck` is `submit` before the lock, `SubmitDecide`, `SubmitReplay` and
`SubmitRejected` the part under it. The lock is `dispatch = None`: a dispatch
holds it from `ExecuteBegin` through `DispatchValidate`, `DispatchIntent`, the
executor and `DispatchRecords` or `DispatchUnrecorded`, and only the clock and
the callers outside the lock move meanwhile. Identifiers that the code draws
fresh (decisions, grants) are identified with what they are bound to; digests
with what they digest; a signed record verifies inside its window, widened by
the skew the trust context tolerates.

`Once` maps the kernel to `EffectOnce`: an effect is intended when its grant is
spent, resolved when its request's record says `effect_succeeded` or
`effect_indeterminate`, and callers are told what the record says.

### DurableLifecycle

`events[q]` is the ledger of one request, `proj[q]` its row, `cache[k][q]` the
kernel's record, `bound` the keys of `_idempotency`. A load is two steps,
the row (`BeginLoad`, `ReadRow`) and the evidence (`Load*`), as it is two
statements in the code; the first read of a call is part of the call, and a
call that finds no row raises and is no step;
accepting an approval or issuing a grant loads twice, once in the kernel (which
fixes `expected_version`) and once in the store's transaction, then writes. The
load `issue_grant` makes before both only looks up the actor, and is left out. `Damage`
is what the repository's tests do to the table (`tests/postgres_fixtures.py:218-231`).
`seen` in a call is the evidence that `rebuild_lifecycle` reads before it has the
run lock; the code uses it only to find the run and reads the evidence again
under the lock. A lost row lets the same request be decided a second time, and a
third kernel may then be granted under the second decision while another still
dispatches under its first grant; `DispatchOnRecord` therefore promises that a
dispatched grant is in the ledger, and that it is the only one while the ledger
holds one policy decision.
An approval's identity is its approver, and `_consumed_approvals` is left out, so
the model allows some approvals that the code would refuse; it allows none that
the ledger's version check does not.

### SkillLifecycle

One actor's skill. `artifacts`, `transitions`, `active` and `rebuilds` are the
four tables, `ledger` the run's evidence, `locks` the advisory locks that are
held. A call passes through `pc[c]`:

| `pc` | code (`persistence/skills.py`) | waits for |
|---|---|---|
| `lookup` | the replay fast path, 299-315, and the validation, 316-324 | the operation lock, for a rebuild also the skill lock |
| `validated`, `authorizing` | `gah_authorize_skill_lifecycle`, 332-344 | the writer's commitment locks, after it has read the state |
| `authorized`, `operation` | `gah_lock_skill_lifecycle_draft`, 367-377 | operation, skill and run lock |
| `drafted` | replay lookup, head and draft, then the apply, 378-409 | the head's row lock |
| `rebuilding` | `gah_rebuild_skill_projection`, 325-331 | - |

The writer transaction stays open until the privileged one has committed, and
both end on every way out (`ReleaseAll`). The evidence head is read without its
row lock; an execution of another skill of the session appends without the run
lock (`ForeignAppend`), so `Apply` may find the draft stale and raise
(`ApplyRefused`), although the comment at `skills.py:368-371` says that the locks
close "stale-head races with execution issuance". No evidence is lost or
misplaced by it: that is `LifecycleTypeOK`. An answer lost on its way back needs
no state, since any caller may send any command again at any time.

`Awaited(c)` are the locks that the next statement of a call waits for; that
they never stop everyone is checked beside executions (`NobodyStuck`).

`Governed` maps the state to `GovernedSkill`, where an operation is one step:
`revisions` are the artifacts, `current` is the replay of the transitions,
`shown` the projection row, `results` the transitions and rebuilds with their
results, `given` the answers. An operation takes effect where the privileged
transaction commits (`Apply`, `RebuildWrite`); a retry that is answered from the
journal is `Repeat`; all else is invisible. `GovernedSkill` keeps the place of an
event in the run out of a result (`Plain`), since only the ledger determines it.

### BuiltinExecution

`row[o]` is the state row of an execution, `life[g]` what is left of the `g`-th
grant, `call[x]` the place of an executor in `issue`, `invoke` or `recover`
together with the head it drafted on. Attempts and outcomes are identified with
the place of their event in the ledger. The lifecycle's actions are those of
`SkillLifecycle`, unchanged. `LoseRow` is what the repository's tests do
(`tests/e2e/test_builtin_execution_admission.py` deletes rows before a
rebuild). After a loss, `issue` finds no row and mints a second grant for the
same operation; a rebuild then refuses the two issuances. `RunsOnce` therefore
promises one run for a grant always, and one run for an operation while no row
was lost. `recover` answers with whatever ended the operation, under any of its
grants, which is why `told` is compared with the ledger and not with the
caller's grant.

`Handled` maps the execution to `EffectOnce` with one effect for each grant of
the constant `Grants`: its status is read off its intent and its outcome in the
ledger, `applied` counts the handler's runs, and callers were told the outcomes `told`
points to. The row is no part of the mapping, so it holds through lost and
rebuilt rows.

### MemoryPromotion

`rows` joins the records and transitions tables. A promotion is validated with
the store's clock (`InForce`), waits for the memory's lock, then the proposal's
(the sorted order of their keys) and the run's head, and is checked again by the
database's clock (`StillCurrent`), but for its approvals: an approval that
expires meanwhile does not stop the commit (run `memory_approval`), so
`PromotedOnEvidence` speaks of the other expiries only. `Retrieved` is what
`retrieve_memory` returns of a memory. After rows are lost, a creation may be
repeated before anybody rebuilds; the ledger then has two first revisions and no
rebuild succeeds any more. A proposal identifier that is used for another memory
while the rows are missing makes the rebuild break the unique key of the
transitions (`RebuildRefused`). `whole` marks the promotions made while no rows were
missing, for which `OnePromotion` is stated.

### SchemaInstall

A package is the sequence of its migrations' checksums. `MigrateBegin` is
`apply_migrations` up to `_verify_applied`; the transaction's additions are in
`draft` until `MigrateCommit`. The role part begins after that commit, in a
second transaction. `install_schema` compares with each other the logins of one
call only, so a membership of one login in another, made by hand, is not noticed
when the two are named in different calls: `RolesSeparated` fails (run
`install_roles`). What the code does keep is `OneGroupByGrant`: no login is
granted two groups, however the installers race, and a login comes into a second
one only as a member of another login that was granted it.

## Runs

| Run | Instance | Shows |
|---|---|---|
| `effects` | 3 kernels, 1 request, lease 2, fair | all safety of the effect path, its refinement of `EffectOnce`, and that a prepared effect is resolved while its actor context is current |
| `effects_unknown` | 2 kernels, 1 request, lease 1, fair | finding: see below |
| `kernel` | 2 callers, 3 submissions that share keys and ids, 2 approvals, clock 0..3 | one decision for a key, faithful replays, records follow the ledger, single execution, authority before intent, no unrecorded effect, dispatch inside every window, authority kept, refinement of `EffectOnce` |
| `lifecycle` | 2 kernels, 2 requests (one the store refuses), 2 approvals, tampering and deletion | projection, kernels' records and dispatches follow the ledger; one approval and one grant for each decision survive a race |
| `lifecycle_*` (2) | 2 kernels, 1 request | findings: see below |
| `skills` | 2 callers, 7 commands over 2 revisions, 2 identifiers used twice, 1 event of other origin | the active revision follows the history, operations are applied once and as authorized, the chain has no gap, refinement of `GovernedSkill` |
| `execution` | 1 lifecycle caller with 3 commands, 2 executors, 1 execution, grant 2 ticks, lease 1, 1 lost row, `Grants` = {1} | consumption on the active revision, one run and one outcome for a grant, chain and locks of the two ports together, refinement of `EffectOnce` by the first grant |
| `memory` | 2 promoters, 2 memories, 6 proposals (one identifier used twice, one kind not implemented, one approval of one tick), clock 0..1, 1 loss | revisions, rows, single and timely promotion |
| `memory_approval` | the same | finding: see below |
| `install` | 2 installers, 3 packages, 4 kinds of database, 4 logins (one a member of another, one a member of the owner group by way of an unsafe one), 3 groups | the registry, the order of migrations, and the service roles |
| `install_roles` | the same | finding: see below |

Why the bounds suffice. Three kernels are an owner, a recoverer and a third party
that replays; more kernels only repeat a role, and the theorems hold for any
number of kernels and of requests. A lease of two ticks separates "running down" from "expired". The clock
bounds of the `kernel` run let every window (approval, grant, actor context) begin
and end inside the run, in either order, and the skew reach past each of them but the last. Two
kernels are enough for every pairwise race of the lifecycle, two approvals for
two answers to one request. The lifecycle's length is bounded by its own states,
except that a lost row allows a second submission; the run covers one damage at a
time for each request, repeated after each rebuild. The commands of the `skills`
run make every transition possible once, in several orders, and let a rollback
and a deactivation compete for one identifier; a history is as long as its
commands, since each is applied once. A grant of two ticks and a lease of one
let a lease run out before and with its grant. The refinement of `EffectOnce` is
checked for the first grant, also while a second one is issued after the row was
lost; the theorem covers every set of grants. Two promoters, two installers
and two executors make every pairwise race; a third only waits.

Kernels and approvers are interchangeable in `DurableLifecycle`, and so are
executors, promoters and installers, hence the symmetry sets; runs with liveness
use none. The effect runs and the memory run do not check deadlock: a terminal
row and expired authority really leave nothing to do. In the `execution` run
somebody can always begin a call, so deadlock among the calls under way is an
invariant of its own, `NobodyStuck`: some call under way awaits no lock that is
held.

### Findings

1. `effects_unknown`: an unresolved effect can no longer be marked
   `indeterminate` once the actor context of its preparation has expired
   (`kernel/effects.py:527`, `kernel/core.py:924-934`), against
   `docs/ARCHITECTURE.md:431`.
2. `lifecycle_duplicate`: a kernel that loaded a request with `get` or
   `execute_effect` refuses its duplicate submission (`kernel/core.py:375`),
   against `docs/ARCHITECTURE.md:448`.
3. `lifecycle_torn_read`: a load that overlaps a transition reports an intact
   projection as diverged (`persistence/store.py:1372`).
4. `memory_approval`: an approval that expires after the validation
   (`persistence/store.py:2092`), while the promotion waits for its locks, is not
   checked again and the promotion is committed, against
   `docs/MEMORY_AND_KNOWLEDGE.md:180`, by which expired authority produces no
   record.
5. `install_roles`: a login that is a member of another login keeps its group
   when a later call grants the other one a second group
   (`persistence/store.py:502`), against `docs/SECURITY_MODEL.md:118`, by which a
   service login "maps to exactly one group role, and cannot inherit another
   service role".

More behaviours were met that no run is kept for. The store maps the decision
`allow` (`persistence/store.py:776`, `1450`), the policy says `authorize`
(`kernel/core.py:402-407`), so no authorised request can be persisted; the
`lifecycle` run contains such a request, and the store refuses it every time. A
request submitted again
after its projection row was lost gets a second policy decision, because
`persist_submission` looks at the projection only (`persistence/store.py:791`),
and its ledger can no longer be replayed or its projection rebuilt, although
`docs/ARCHITECTURE.md:425` says that a projection "can be rebuilt idempotently".
The proof of `DispatchOnRecord` met it: with three kernels a form of that
property without `DecidedOnce` is false. Memory rows and execution rows have the
same weakness, described above. And the run lock does not keep the head of a
lifecycle draft current, see `SkillLifecycle`.

## Fairness

`FairSpec` assumes that the database clock advances, that a live process keeps
executing its dispatch and the injected executor returns (weak fairness on
`Step(k)`; a crash or an exception is one of its ways on), that the database
decides every COMMIT, and that callers keep asking for recovery (strong
fairness on `Recover`, which other appends of the run may block for a while).
The last is an assumption about the deployment: the code has no background
recoverer. Nothing is assumed to crash, to expire or to be dispatched. A
heartbeat may go on as long as its executor runs, so an executor that never
returns is never recovered; that is the code's behaviour, and outside the
property.

## Proofs

Every safety property of the passing runs is a theorem, and so is every
refinement. They are proved for every value of the constants from the named assumptions of the modules and
nothing else. Each module proves one inductive invariant, and the properties
from it. The assumptions say what type the constants have, that `None` differs
from what it stands beside, and:

* `WindowAssumption`, `LeaseAssumption`, `TickAssumption`: lifetimes and leases
  are positive, as the code's constants are;
* `RuleAssumption`: a rule decides one of the three things `PolicyRule` accepts
  (`kernel/core.py:95`);
* `CommandAssumption`, `ExecutionAssumption`: revisions are positive, as the
  `CHECK` constraints of the tables say;
* `PackageAssumption`: a package is not empty (`migration.py:47-80`), and nobody
  else's tables have the checksum of one of its migrations.

Four theorems state properties no run checks by themselves, since the refinement a run
checks implies them or all they say of what callers see: `AtMostOnce` and
`TerminalIsFinal` of `DurableEffects`, `ExecutedOnce` of `GovernanceKernel`
(`EffectOnce` performs an effect once and resolves it once), and
`OperationAppliedOnce` of `SkillLifecycle` (`GovernedSkill` takes a command under
an identifier once and repeats its result).

| Module | Theorem | Property |
|---|---|---|
| `DurableEffectsProofs` | `Inductive` | `IndInv` is an invariant |
| | `TypeCorrect` | `TypeOK` |
| | `ExecutedAtMostOnce` | `AtMostOnce` |
| | `IntentFirst` | `IntentBeforeEffect` |
| | `LedgerAgrees` | `LedgerMatchesRow` |
| | `AnswersDurable` | `ToldIsDurable` |
| | `TerminalStaysFinal` | `TerminalIsFinal` |
| | `CompletedStaysInPlace` | `CompletedEffectKept` |
| | `Refinement` | `ImplementsEffectOnce` |
| `GovernanceKernelProofs` | `Inductive` | `IndInv` is an invariant |
| | `TypeCorrect` | `TypeOK` |
| | `ExecutedAtMostOnce` | `ExecutedOnce` |
| | `OneDecision` | `OneDecisionPerKey` |
| | `ReplaysFaithful` | `ReplayFaithful` |
| | `IntentsAuthorised` | `IntentAuthorised` |
| | `DispatchedInWindow` | `DispatchInWindow` |
| | `NoEffectUnrecorded` | `NoUnrecordedEffect` |
| | `RecordsMatchLedger` | `RecordMatchesLedger` |
| | `AuthorityNeverChanges` | `AuthorityKept` |
| | `BrokerRefinement` | `BrokerImplementsEffectOnce` |
| `DurableLifecycleProofs` | `Inductive` | `IndInv` is an invariant |
| | `TypeCorrect` | `TypeOK` |
| | `ProjectionsFollowLedger` | `ProjectionFollowsLedger` |
| | `AuthorityIsOne` | `OneAuthority` |
| | `DispatchesOnRecord` | `DispatchOnRecord` |
| | `CachesOnRecord` | `CacheOnRecord` |
| `SkillLifecycleProofs` | `SkillInductive` | `SkillInv` is an invariant |
| | `LifecycleTypeCorrect` | `LifecycleTypeOK` |
| | `ProjectionFollowsHistory` | `ActiveFollowsHistory` |
| | `OperationsAppliedOnce` | `OperationAppliedOnce` |
| | `TransitionsAsAuthorized` | `AppliedAsAuthorized` |
| | `SkillRefinement` | `ImplementsGovernedSkill` |
| `BuiltinExecutionProofs` | `SystemInductive` | `SystemInv` is an invariant |
| | `ExecutionTypeCorrect` | `ExecutionTypeOK` |
| | `ChainStaysIntact` | `ChainIntact` |
| | `ConsumedOnItsSkill` | `ConsumedOnActiveSkill` |
| | `HandlerRunsOnce` | `RunsOnce` |
| | `OutcomesAgree` | `OutcomeAgrees` |
| | `LifecycleBesideExecutions` | the lifecycle's three properties, with executions beside it |
| | `SkillRefinementBesideExecutions` | `ImplementsGovernedSkill`, with executions beside it |
| | `SomebodyGoesOn` | `NobodyStuck` |
| | `HandlerRefinement` | `HandlerImplementsEffectOnce` |
| `MemoryPromotionProofs` | `PromotionInductive` | `IndInv` is an invariant |
| | `PromotionTypeCorrect` | `TypeOK` |
| | `RowsFollowLedger` | `RecordsFollowLedger` |
| | `PromotedOnce` | `OnePromotion` |
| | `PromotedAfterEvidence` | `PromotedOnEvidence` (approvals are not part of it) |
| `SchemaInstallProofs` | `InstallInductive` | `IndInv` is an invariant |
| | `InstallTypeCorrect` | `TypeOK` |
| | `RegistryStaysTrue` | `RegistryTrue` |
| | `OneGroupByEachGrant` | `OneGroupByGrant`, whatever memberships were made by hand |

The inductive invariants, and what each needs beyond the properties:

* **DurableEffects.** `AtMostOnce` is not inductive: a state with two kernels
  about to run one effect satisfies it. `OwnerInv`: a kernel past `prepare` is
  the attempt its job's row names, so there is one, and the effect has not run
  while its owner has not reached the executor. `ResultInv`: a dispatcher about
  to complete holds an outcome, and a successful one only after its executor
  ran. `CommitInv`: an outcome in doubt belongs to a live row, and a row is
  completed only once its owner is past `ran`. `RowInv`: an absent row has no
  effect, a terminal row the outcome its state names, and no effect ran twice.
  `IntentInv`: a row that exists has its intent and its consumption.
* **GovernanceKernel.** A record and the binding of its key name each other
  (`RecordInv`, `BindingInv`); a grant is spent before its executor runs
  (`SpentInv`); the phase of the dispatch that holds the lock fixes what was
  spent, applied and left in place (`DispatchInv`); policy, approval and grant
  of a record stand in the ledger in that order (`EvidenceInv`, `IntentInv`).
* **DurableLifecycle.** Whatever befell the projection, an approval stands right
  after its policy and a grant right after its approval (`EventsInv`), because a
  write is guarded by the row's version and state, and the row, when there is
  one, is in the state of the last event (`RowInv`). A ledger with one decision
  is thus a prefix of policy, approval, grant, and what a call read of it stays
  a prefix (`CallInv`, `RecordInv`); a grant some kernel holds is in the ledger
  (`GrantInv`).
* **SkillLifecycle.** One caller at a time holds the skill lock (`Alone`), and
  what it read under it, that is the authorized state, the length of the history and
  the absence of its operation, still holds when it writes (`CallsInv`). The
  result computed from the history for a retry is what the first call returned
  (`AnswersInv`).
* **BuiltinExecution.** `SkillInv` is kept by the executors' steps too: they
  append only on the head they drafted for and take none of the callers' locks.
  On top of it a grant has at most one issuance, one intent and one outcome, in
  this order and for one operation (`EventsInv`); a row says which of them are in
  the ledger (`RowsInv`); an executor that runs the handler holds the only
  attempt of its grant (`CallersInv`, `RunsInv`).
* **MemoryPromotion.** The memory lock keeps commits out between a rebuild's read
  and its write, so what was read is still all there is (`PromotersInv`). The
  revisions promoted of a memory are an initial segment of the numbers, and in
  the order of their events unless one was promoted twice (`Segment`,
  `InOrder`); a rebuild that finds them contiguous thus finds each once, by
  counting.
* **SchemaInstall.** What an open migration sees of the registry is the beginning
  of its package, and what it sees of the schema is the same or one migration
  ahead (`DraftGood`); one installer migrates at a time. For the roles: what was
  checked is true until it is granted, so each login is granted one group, and
  neither the login nor its group leads to another group by hand-made memberships
  alone (`GrantsGood`). What such a login reaches, less what leads to a group by
  hand, is then closed under all memberships unless another login it reaches was
  granted that group (`GoodByGrant`).

The invariants were model-checked on the runs' instances before they were proved.

Two results need more than these invariants:

* **Nobody is stuck.** `HeldInv` says for every lock who may hold it: its holder
  is a caller or an executor under way, at a place of its call that has taken that
  lock and has not ended its transaction. The locks have an order: writer,
  operation or execution, skill and run. A call awaits only locks that come after
  every lock it holds, so the call that holds the innermost held lock awaits
  nothing that is held; and if no lock is held, nobody waits
  (`InnermostGoesOn`). A call that died has left nothing behind.
* **A handler that ran.** `RanInv`: a call that is about to record the outcome of
  its grant has run the handler for it, exactly once. It is what makes "completed"
  an allowed resolution; "indeterminate" needs nothing.

The refinements are proved step by step: initial states map to initial states, and
each action maps to one abstract step or to none. In `SkillLifecycle` the action
that commits must map to a step that finds its operation new and the revisions as
expected, which is what `CallsInv` carries from the read to the write; a repeated
answer must be the abstract result, which is what `AnswersInv` is for. `AppliedOnce`
also says that only rebuilds are in the rebuilds' journal. In `GovernanceKernel`
the phase of the dispatch (`DispatchInv`) determines which abstract step comes
next. In `BuiltinExecution` every append is either to another grant, whose
abstract state it leaves alone, or the next event of its own (`EventsInv`).

Only model-checked: `EventuallyResolved` (liveness under fairness is out of the
prover's reach).

## Not modelled

* `contracts/canonical.py`, `json_codec.py`, `schema.py`, `models.py`: pure
  functions over JSON text; digests stand for what they digest.
* Signatures and the native Ed25519 extension: a proof verifies or not;
  historical acceptance of records is not modelled.
* Tenants and actors: one of each, since every query is scoped by both.
* The broker's lookup in `execute_effect` when the lifecycle row is missing but
  an effect row exists (`kernel/core.py:577-608`).
* Identifier factories: nothing compares identifiers by order, so they are
  taken to be fresh. That `_Uuid7Factory` (`core.py:157-193`) may repeat or
  reverse their order when its clock steps back has no effect on the models.
* The contents of receipts, approvals, gate decisions and delivery envelopes of
  a skill or memory (`contracts/validation.py:407-803`): they bind their
  proposal or the call raises, which is an outcome of every call.
* An actor context that expires during a skill or execution call. Recovery of
  an abandoned execution is therefore always possible in the model, and its
  liveness is not checked.
* Ranking and text matching of `retrieve_memory`; `provision_principal`, which
  inserts one row; the catalogue comparison of a legacy schema, which is one
  predicate of `SchemaInstall`.
* `contracts/self_check.py` and `positive_fixtures.py`: a test driver and its
  data.

## What could follow

1. Abstract specifications of the durable request lifecycle and of memory
   promotion. Both would have to say what a lost row allows, a second decision
   and a second first revision, which the properties above state as exceptions.
2. Liveness of skill and execution calls. `NobodyStuck` excludes a standstill;
   that each single call ends would need fairness of the database's lock queues,
   which the code does not determine.
