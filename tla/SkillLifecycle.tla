---------------------------- MODULE SkillLifecycle ----------------------------
(***************************************************************************)
(* The governed lifecycle of one actor's skill:                            *)
(* PostgresSkillLifecycleAuthority (persistence/skills.py) over its SQL    *)
(* functions, as migrations 0006 to 0016 leave them.  A command installs,  *)
(* activates, rolls back or deactivates a revision, or rebuilds the active *)
(* projection from the history.                                            *)
(*                                                                         *)
(* A call looks for a stored result, has a writer connection commit to the *)
(* state it sees, and then drafts and applies in a second connection that  *)
(* takes the locks operation, skill and run.  Every statement that waits   *)
(* for a lock, and every read another transaction may overtake, is a step. *)
(* A raise, a crash and a lost connection all end both transactions.       *)
(* An answer may be lost on its way back: no state shows it, and calls are *)
(* repeated in any case.                                                   *)
(*                                                                         *)
(* A command is a record: its operation identifier, the revision it        *)
(* expects to be the last (0 for none), its target revision and the digest *)
(* of the target's artifact.  Two different commands have different        *)
(* operation digests.  Signatures, approvals and receipts verify or the    *)
(* call raises.                                                            *)
(***************************************************************************)
EXTENDS Integers, Sequences, FiniteSetsExt

CONSTANTS Callers,     \* processes that call the lifecycle authority
          Commands,    \* the wire commands they may send
          MaxAppends,  \* evidence of other origin appended to the run
          None         \* the absence of a command, of a skill, of an authorization

Operations == {"install", "activate", "rollback", "deactivate", "rebuild"}

(* What validate_skill_lifecycle_command demands of the revisions.         *)
ASSUME CommandAssumption ==
    /\ None \notin Commands
    /\ \A m \in Commands :
         /\ m.operation \in Operations
         /\ m.expected \in Nat
         /\ m.target \in Nat \ {0}
         /\ m.operation # "install" => m.expected > 0
ASSUME AppendAssumption == MaxAppends \in Nat

VARIABLES
    ledger,       \* the run's evidence, in order; each event has the sequence it was drafted for
    artifacts,    \* digests of the installed revisions, in order
    transitions,  \* gah_skill_lifecycle_transitions, by transition_sequence
    active,       \* the gah_active_skill_projection row of the skill
    rebuilds,     \* gah_skill_projection_rebuilds: commands and their results
    lost,         \* the projection row was lost and not yet restored
    locks,        \* <<holder, key>>: the advisory locks held
    pc,           \* pc[c]: where caller c is in _call
    cmd,          \* cmd[c]: its command
    auth,         \* auth[c]: the state its writer committed to
    seen,         \* seen[c]: what its transaction read: run head or history length
    answers       \* answers[m]: the results returned for command m

store == <<ledger, artifacts, transitions, active, rebuilds, lost>>
local == <<pc, cmd, auth, seen>>
lifecycleVars == <<ledger, artifacts, transitions, active, rebuilds, lost,
                   locks, pc, cmd, auth, seen, answers>>

-----------------------------------------------------------------------------
(* Locks *)

OperationLock(m) == <<"operation", m.id>>
WriterLock(m, a) == <<"writer", m, a>>
SkillLock == <<"skill">>
RunLock == <<"run">>

Free(key) == \A l \in locks : l[2] # key
Acquire(c, keys) == locks' = locks \cup ({c} \X keys)

(* Mutant: a failed call leaves its transactions open. *)
ReleaseNone(c) == UNCHANGED locks

(* Both connections' context managers end their transactions. *)
ReleaseAll(c) == locks' = {l \in locks : l[1] # c}

-----------------------------------------------------------------------------
(* The stored history *)

ToState(m) == CASE m.operation = "install" -> "installed"
                [] m.operation \in {"activate", "rollback"} -> "active"
                [] m.operation = "deactivate" -> "inactive"

StateAt(n) == IF n = 0 THEN "none" ELSE transitions[n].to

(* What gah_authorize_skill_lifecycle reads and the writer commits to.     *)
CurrentAuthorization ==
    [sequence |-> Len(transitions), state |-> StateAt(Len(transitions))]

NoSkill == [revision |-> 0, digest |-> None, sequence |-> 0]

(* The projection a history stands for, as the rebuild's loop folds it:    *)
(* the last operation that is not an install decides.                      *)
Replay(history) ==
    LET deciding == {i \in DOMAIN history : history[i].cmd.operation # "install"}
        last == history[Max(deciding)].cmd
    IN  IF deciding = {} \/ last.operation = "deactivate"
        THEN NoSkill
        ELSE [revision |-> last.target, digest |-> artifacts[last.target],
              sequence |-> Max(deciding)]

TransitionResult(t) == [revision |-> t.cmd.target, state |-> t.to,
                        digest |-> artifacts[t.cmd.target], event |-> t.event]

(* The journal entries of m's kind: a rebuild has a journal of its own.    *)
Journal(m) ==
    IF m.operation = "rebuild"
    THEN rebuilds
    ELSE {[cmd |-> t.cmd, result |-> TransitionResult(t)] : t \in Range(transitions)}

(* The stored entries under m's operation identifier. *)
Stored(m) == {e \in Journal(m) : e.cmd.id = m.id}

(* Mutant: the operation digest is not compared. *)
ExactById(m) == Stored(m)

Exact(m) == {e \in Stored(m) : e.cmd = m}

-----------------------------------------------------------------------------
Init ==
    /\ ledger = <<>>
    /\ artifacts = <<>>
    /\ transitions = <<>>
    /\ active = NoSkill
    /\ rebuilds = {}
    /\ lost = FALSE
    /\ locks = {}
    /\ pc = [c \in Callers |-> "idle"]
    /\ cmd = [c \in Callers |-> None]
    /\ auth = [c \in Callers |-> None]
    /\ seen = [c \in Callers |-> 0]
    /\ answers = [m \in Commands |-> {}]

Goto(c, label) == pc' = [pc EXCEPT ![c] = label]

(* The call of c ends: its transactions end and it forgets what it read.   *)
Leave(c) ==
    /\ Goto(c, "idle")
    /\ cmd' = [cmd EXCEPT ![c] = None]
    /\ auth' = [auth EXCEPT ![c] = None]
    /\ seen' = [seen EXCEPT ![c] = 0]
    /\ ReleaseAll(c)

Raise(c) == Leave(c) /\ UNCHANGED <<store, answers>>

(* The caller gets the stored result of its command. *)
Answer(c) ==
    /\ \E e \in Exact(cmd[c]) :
          answers' = [answers EXCEPT ![cmd[c]] = @ \cup {e.result}]
    /\ Leave(c)
    /\ UNCHANGED store

-----------------------------------------------------------------------------
(* install_skill, activate_skill, rollback_skill, deactivate_skill,        *)
(* rebuild_skill_projection                                                *)
Call(c, m) ==
    /\ pc[c] = "idle"
    /\ Goto(c, "lookup")
    /\ cmd' = [cmd EXCEPT ![c] = m]
    /\ UNCHANGED <<store, locks, auth, seen, answers>>

(* The fast path: gah_lookup_skill_replay in a transaction of its own.  A  *)
(* rebuild's stored result is checked against the history under the skill  *)
(* lock.                                                                   *)
LookupWaits(m) ==
    \/ ~Free(OperationLock(m))
    \/ m.operation = "rebuild" /\ Exact(m) # {} /\ ~Free(SkillLock)

LookupReplay(c) ==
    /\ pc[c] = "lookup"
    /\ ~LookupWaits(cmd[c])
    /\ Answer(c)

LookupConflicts(c) ==
    /\ pc[c] = "lookup"
    /\ ~LookupWaits(cmd[c])
    /\ Stored(cmd[c]) # Exact(cmd[c])
    /\ Raise(c)

LookupMisses(c) ==
    /\ pc[c] = "lookup"
    /\ ~LookupWaits(cmd[c])
    /\ Stored(cmd[c]) = {}
    /\ Goto(c, "validated")
    /\ UNCHANGED <<store, locks, cmd, auth, seen, answers>>

(* validate_skill_lifecycle_command: a record of the command does not bind *)
(* its proposal, is outside its window or does not verify.                 *)
ValidationFails(c) ==
    /\ pc[c] = "lookup"
    /\ ~LookupWaits(cmd[c])
    /\ Stored(cmd[c]) = {}
    /\ Raise(c)

(* gah_authorize_skill_lifecycle reads the state before it waits for the   *)
(* commitment locks.                                                       *)
Authorize(c) ==
    /\ pc[c] = "validated"
    /\ cmd[c].operation # "rebuild"
    /\ auth' = [auth EXCEPT ![c] = CurrentAuthorization]
    /\ Goto(c, "authorizing")
    /\ UNCHANGED <<store, locks, cmd, seen, answers>>

AuthorizeLock(c) ==
    /\ pc[c] = "authorizing"
    /\ Free(WriterLock(cmd[c], auth[c]))
    /\ Acquire(c, {WriterLock(cmd[c], auth[c])})
    /\ Goto(c, "authorized")
    /\ UNCHANGED <<store, cmd, auth, seen, answers>>

LockOperation(c) ==
    /\ \/ pc[c] = "authorized"
       \/ pc[c] = "validated" /\ cmd[c].operation = "rebuild"
    /\ Free(OperationLock(cmd[c]))
    /\ Acquire(c, {OperationLock(cmd[c])})
    /\ Goto(c, "operation")
    /\ UNCHANGED <<store, cmd, auth, seen, answers>>

-----------------------------------------------------------------------------
(* Draft and apply *)

Drafting(c) ==
    /\ pc[c] = "operation"
    /\ cmd[c].operation # "rebuild"
    /\ Free(SkillLock)

(* Mutant: any state will do. *)
AuthorizationAny(c) == TRUE

(* gah_skill_assert_writer_authorization, under the skill lock. *)
AuthorizationCurrent(c) == auth[c] = CurrentAuthorization

(* An exact replay is answered even if the authorized state is stale. *)
DraftReplay(c) == Drafting(c) /\ Answer(c)

DraftRefused(c) ==
    /\ Drafting(c)
    /\ Exact(cmd[c]) = {}
    /\ ~AuthorizationCurrent(c) \/ Stored(cmd[c]) # {}
    /\ Raise(c)

(* The skill and run locks are taken, and the run head read without a row  *)
(* lock, by gah_lock_skill_lifecycle_draft and the evidence head.          *)
Draft(c) ==
    /\ Drafting(c)
    /\ AuthorizationCurrent(c)
    /\ Stored(cmd[c]) = {}
    /\ Free(RunLock)
    /\ Acquire(c, {SkillLock, RunLock})
    /\ seen' = [seen EXCEPT ![c] = Len(ledger)]
    /\ Goto(c, "drafted")
    /\ UNCHANGED <<store, cmd, auth, answers>>

(* The revision checks of gah_apply_skill_lifecycle_validated. *)
Applicable(m) ==
    /\ m.expected = Len(artifacts)
    /\ \/ m.operation = "install" /\ m.target = Len(artifacts) + 1
       \/ /\ m.operation # "install"
          /\ m.target \in DOMAIN artifacts
          /\ artifacts[m.target] = m.digest
          /\ m.operation = "rollback" => active # NoSkill
          /\ m.operation = "deactivate" => active.revision = m.target

(* Mutant: the drafted sequence is not compared with the head. *)
HeadUnchecked(c) == TRUE

(* The run head is locked and must be the one the evidence was built on. *)
HeadCurrent(c) == seen[c] = Len(ledger)

LifecycleEvent(c) ==
    [kind |-> "skill.lifecycle_transition", sequence |-> seen[c], of |-> cmd[c]]

(* The projection after m is applied as transition n. *)
Project(m, n) ==
    CASE ToState(m) = "active" ->
           [revision |-> m.target, digest |-> m.digest, sequence |-> n]
      [] m.operation = "deactivate" -> NoSkill
      [] OTHER -> active

(* The privileged transaction commits, then the writer's. *)
Apply(c) ==
    LET m == cmd[c]
        t == [cmd |-> m, to |-> ToState(m), auth |-> auth[c], event |-> Len(ledger) + 1]
    IN
    /\ pc[c] = "drafted"
    /\ HeadCurrent(c)
    /\ Applicable(m)
    /\ ledger' = Append(ledger, LifecycleEvent(c))
    /\ artifacts' = IF m.operation = "install" THEN Append(artifacts, m.digest)
                                               ELSE artifacts
    /\ transitions' = Append(transitions, t)
    /\ active' = Project(m, Len(transitions) + 1)
    /\ lost' = (lost /\ ToState(m) # "active")
    /\ answers' = [answers EXCEPT ![m] = @ \cup
           {[revision |-> m.target, state |-> t.to, digest |-> m.digest, event |-> t.event]}]
    /\ Leave(c)
    /\ UNCHANGED rebuilds

ApplyRefused(c) ==
    /\ pc[c] = "drafted"
    /\ ~HeadCurrent(c) \/ ~Applicable(cmd[c])
    /\ Raise(c)

-----------------------------------------------------------------------------
(* Rebuild *)

RebuildReplay(c) ==
    /\ pc[c] = "operation"
    /\ cmd[c].operation = "rebuild"
    /\ Free(SkillLock)
    /\ Answer(c)

(* Every transition has its ledger event and every event its transition. *)
HistoryProved ==
    /\ transitions # <<>>
    /\ {i \in DOMAIN ledger : ledger[i].kind = "skill.lifecycle_transition"} =
         {t.event : t \in Range(transitions)}
    /\ \A t \in Range(transitions) : ledger[t.event].of = t.cmd

Rebuildable(m) ==
    /\ Stored(m) = {}
    /\ m.expected = Len(artifacts)
    /\ HistoryProved

(* Mutant: the history is read without the skill lock. *)
RebuildReadUnlocked(c) ==
    /\ pc[c] = "operation"
    /\ cmd[c].operation = "rebuild"
    /\ Rebuildable(cmd[c])
    /\ seen' = [seen EXCEPT ![c] = Len(transitions)]
    /\ Goto(c, "rebuilding")
    /\ UNCHANGED <<store, locks, cmd, auth, answers>>

RebuildRead(c) ==
    /\ pc[c] = "operation"
    /\ cmd[c].operation = "rebuild"
    /\ Free(SkillLock)
    /\ Rebuildable(cmd[c])
    /\ Acquire(c, {SkillLock})
    /\ seen' = [seen EXCEPT ![c] = Len(transitions)]
    /\ Goto(c, "rebuilding")
    /\ UNCHANGED <<store, cmd, auth, answers>>

RebuildRefused(c) ==
    /\ pc[c] = "operation"
    /\ cmd[c].operation = "rebuild"
    /\ Free(SkillLock)
    /\ Exact(cmd[c]) = {}
    /\ ~Rebuildable(cmd[c])
    /\ Raise(c)

(* The projection row is deleted and written anew, and the result, which   *)
(* names the last revision if no skill is active, is journaled.            *)
RebuildWrite(c) ==
    LET history == SubSeq(transitions, 1, seen[c])
        last == history[seen[c]]
        rebuilt == Replay(history)
        result ==
            IF rebuilt # NoSkill
            THEN [revision |-> rebuilt.revision, state |-> "active",
                  digest |-> rebuilt.digest, event |-> last.event]
            ELSE [revision |-> cmd[c].expected,
                  state |-> IF last.cmd.operation = "install" THEN "installed" ELSE "inactive",
                  digest |-> artifacts[cmd[c].expected], event |-> last.event]
    IN
    /\ pc[c] = "rebuilding"
    /\ active' = rebuilt
    /\ rebuilds' = rebuilds \cup {[cmd |-> cmd[c], result |-> result]}
    /\ lost' = FALSE
    /\ answers' = [answers EXCEPT ![cmd[c]] = @ \cup {result}]
    /\ Leave(c)
    /\ UNCHANGED <<ledger, artifacts, transitions>>

-----------------------------------------------------------------------------
(* Failures, and the rest of the run *)

(* The call raises for a reason of its own, or its process dies. *)
Abort(c) == pc[c] \in {"authorizing", "authorized", "operation", "drafted", "rebuilding"}
            /\ Raise(c)

LoseProjection ==
    /\ active # NoSkill
    /\ active' = NoSkill
    /\ lost' = TRUE
    /\ UNCHANGED <<ledger, artifacts, transitions, rebuilds, locks, local, answers>>

MayAppend == Cardinality({i \in DOMAIN ledger : ledger[i].kind = "other"}) < MaxAppends

AppendOther ==
    /\ ledger' = Append(ledger, [kind |-> "other", sequence |-> Len(ledger), of |-> None])
    /\ UNCHANGED <<artifacts, transitions, active, rebuilds, lost, locks, local, answers>>

(* gah_lock_run and gah_commit_evidence take the run lock. *)
GenericAppend == MayAppend /\ Free(RunLock) /\ AppendOther

(* An execution of another skill of the session appends without it. *)
ForeignAppend == MayAppend /\ AppendOther

-----------------------------------------------------------------------------
Step(c) ==
    \/ LookupReplay(c) \/ LookupConflicts(c) \/ LookupMisses(c) \/ ValidationFails(c)
    \/ Authorize(c) \/ AuthorizeLock(c) \/ LockOperation(c)
    \/ DraftReplay(c) \/ DraftRefused(c) \/ Draft(c)
    \/ Apply(c) \/ ApplyRefused(c)
    \/ RebuildReplay(c) \/ RebuildRead(c) \/ RebuildRefused(c) \/ RebuildWrite(c)

LifecycleNext ==
    \/ \E c \in Callers :
          \/ \E m \in Commands : Call(c, m)
          \/ Step(c)
          \/ Abort(c)
    \/ LoseProjection
    \/ GenericAppend
    \/ ForeignAppend

LifecycleSpec == Init /\ [][LifecycleNext]_lifecycleVars

-----------------------------------------------------------------------------
(* Properties *)

PCs == {"idle", "lookup", "validated", "authorizing", "authorized", "operation",
        "drafted", "rebuilding"}
DigestSet == {m.digest : m \in Commands}
States == {"none", "installed", "active", "inactive"}
Authorizations == [sequence : Nat, state : States]
Results == [revision : Nat \ {0}, state : States, digest : DigestSet, event : Nat \ {0}]

(* The locks that the next statement of c's call waits for. *)
Awaited(c) ==
    LET m == cmd[c] IN
    CASE pc[c] = "lookup" ->
           {OperationLock(m)} \cup
             (IF m.operation = "rebuild" /\ Exact(m) # {} THEN {SkillLock} ELSE {})
      [] pc[c] = "authorizing" -> {WriterLock(m, auth[c])}
      [] pc[c] = "authorized" -> {OperationLock(m)}
      [] pc[c] = "validated" -> IF m.operation = "rebuild" THEN {OperationLock(m)} ELSE {}
      [] pc[c] = "operation" ->
           {SkillLock} \cup
             (IF m.operation # "rebuild" /\ AuthorizationCurrent(c) /\ Stored(m) = {}
              THEN {RunLock} ELSE {})
      [] OTHER -> {}

AllFree(keys) == \A key \in keys : Free(key)
Working == {c \in Callers : pc[c] # "idle"}

(* Every variable has its type; a projection names an installed revision,  *)
(* and every event of the run has the sequence number of its place, so the *)
(* hash chain has no gap, although the draft reads the head without its    *)
(* row lock and not every writer takes the run lock.                       *)
LifecycleTypeOK ==
    /\ \A i \in DOMAIN ledger : ledger[i].sequence = i - 1
    /\ artifacts \in Seq(DigestSet)
    /\ transitions \in Seq([cmd : Commands, to : States, auth : Authorizations,
                            event : DOMAIN ledger])
    /\ active = NoSkill \/ /\ active.revision \in DOMAIN artifacts
                           /\ active.digest = artifacts[active.revision]
                           /\ active.sequence \in DOMAIN transitions
    /\ rebuilds \subseteq [cmd : Commands, result : Results]
    /\ lost \in BOOLEAN
    /\ pc \in [Callers -> PCs]
    /\ cmd \in [Callers -> Commands \cup {None}]
    /\ auth \in [Callers -> Authorizations \cup {None}]
    /\ seen \in [Callers -> Nat]
    /\ answers \in [Commands -> SUBSET Results]

(* The active projection is what the history stands for, unless the row    *)
(* was lost and neither a rebuild nor an activation has restored it: no    *)
(* interleaving of install, activate, rollback, deactivate and rebuild     *)
(* leaves a revision active that the transitions do not make active.       *)
ActiveFollowsHistory ==
    IF lost THEN active = NoSkill ELSE active = Replay(transitions)

(* An operation identifier is applied at most once and for one command,    *)
(* and every answer a caller ever got for a command, on the first call or  *)
(* on a retry after a lost acknowledgement, is the one result stored.      *)
OperationAppliedOnce ==
    /\ \A i, j \in DOMAIN transitions :
          transitions[i].cmd.id = transitions[j].cmd.id => i = j
    /\ \A e, f \in rebuilds : e.cmd.id = f.cmd.id => e = f
    /\ \A m \in Commands : answers[m] \subseteq {e.result : e \in Exact(m)}

(* A transition is applied to the very state its writer committed to: the  *)
(* sequence and lifecycle state read before the locks were waited for are  *)
(* still the current ones when the transition is recorded.                 *)
AppliedAsAuthorized ==
    \A i \in DOMAIN transitions :
        transitions[i].auth = [sequence |-> i - 1, state |-> StateAt(i - 1)]

(* A result without the place of its evidence in the run. *)
Plain(result) == [revision |-> result.revision, state |-> result.state, digest |-> result.digest]
Skill(row) == [revision |-> row.revision, digest |-> row.digest]

Governed == INSTANCE GovernedSkill WITH
    revisions <- artifacts,
    stage <- StateAt(Len(transitions)),
    current <- Skill(Replay(transitions)),
    shown <- Skill(active),
    results <- {[cmd |-> t.cmd, result |-> Plain(TransitionResult(t))] : t \in Range(transitions)}
                 \cup {[cmd |-> e.cmd, result |-> Plain(e.result)] : e \in rebuilds},
    given <- [m \in Commands |-> {Plain(r) : r \in answers[m]}]

(* Every operation is atomic to its callers: although a call looks up,     *)
(* authorizes, drafts and applies in several transactions, waits for locks *)
(* and may die or be retried anywhere, what is stored, shown and answered  *)
(* changes only as if each operation took effect at once, at most once and *)
(* on the revisions it expects.                                            *)
ImplementsGovernedSkill == Governed!Spec

===============================================================================
