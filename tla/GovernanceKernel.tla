--------------------------- MODULE GovernanceKernel ---------------------------
(***************************************************************************)
(* GovernanceKernel (kernel/core.py) without a durable store, with its     *)
(* InMemoryEvidenceLedger and the in-memory path of EffectBroker           *)
(* (kernel/effects.py): submissions, policy decisions, approvals, grants   *)
(* and one governed effect for each request.                               *)
(*                                                                         *)
(* Callers' threads meet at the kernel's lock.  submit verifies identity   *)
(* and takes its decision time before it has the lock; execute_effect      *)
(* keeps the lock across the executor, and the clock moves on meanwhile.   *)
(* The kernel clock is a wall clock: it may also step back.  One tenant    *)
(* and one actor context, issued at time 0; requests ask at time 0.  A     *)
(* submission is its own request digest; decision and grant identifiers    *)
(* are fresh, so they are what they are bound to.  A call that raises      *)
(* before it changes anything is a stuttering step and has no action.      *)
(***************************************************************************)
EXTENDS Naturals, Sequences

CONSTANTS Callers,       \* threads that submit
          Submissions,   \* [id, key, op, tool, effects]: tool requests
          Rules,         \* sequence of [decision, effects, tools]: PolicySet.rules
          Approvals,     \* [req, from, until]: signed approvals of a request id
          Enforceable,   \* effect classes the executor declares support for
          ActorExpires,  \* expires_at of the actor context
          GrantTTL,      \* _GRANT_TTL
          ClockSkew,     \* clock_skew of the trust contexts
          MaxTime,       \* bound: the clock stays in 0..MaxTime
          None           \* the absence of a submission, approval or grant

Time == 0..MaxTime
Ids == {s.id : s \in Submissions}
Keys == {s.key : s \in Submissions}

ASSUME WindowAssumption ==
    /\ MaxTime \in Nat /\ ActorExpires \in Time
    /\ GrantTTL \in Nat \ {0} /\ ClockSkew \in Nat
(* What PolicyRule accepts as a decision. *)
ASSUME RuleAssumption ==
    \A i \in DOMAIN Rules :
        i \in Nat /\ Rules[i].decision \in {"authorize", "deny", "require_approval"}
ASSUME ApprovalAssumption ==
    \A a \in Approvals : a.req \in Ids /\ a.from \in Time /\ a.until \in Time

VARIABLES
    clock,     \* the kernel clock
    waiting,   \* waiting[c]: [sub, at] of a submit past its identity check
    binding,   \* binding[k]: the submission an idempotency key is bound to
    record,    \* record[q]: the LifecycleRecord of a request id
    ledger,    \* the tenant's evidence envelopes, in order
    spent,     \* request ids whose grant is in _consumed_grants
    dispatch,  \* the dispatch that holds the lock: [req, phase, at], or None
    applied,   \* applied[q]: number of executor invocations for q
    active,    \* active[q]: the synthetic effect of q is in place
    unreverted,\* request ids whose effect the executor failed to revert
    answered   \* <<s, t>>: a submit of s was answered with the record of t

vars == <<clock, waiting, binding, record, ledger, spent, dispatch, applied,
          active, unreverted, answered>>
world == <<applied, active, unreverted>>

-----------------------------------------------------------------------------
(* Records *)

Grants == [issued : Time, expires : Time]
Lifecycle == {"denied", "approval_required", "policy_authorized", "approved",
              "grant_issued", "effect_succeeded", "effect_indeterminate"}
Records == [sub : Submissions, state : Lifecycle, decidedAt : Time,
            approval : Approvals \cup {None}, grant : Grants \cup {None}]
Envelopes == [kind : {"policy", "approval", "grant", "intent", "outcome"},
              req : Ids, state : Lifecycle \cup {"none"}, at : Time]
Calls == [sub : Submissions, at : Time]
Dispatches == [req : Ids, at : Time,
               phase : {"granted", "validated", "intended", "succeeded", "failed"}]

ASSUME KernelNoneAssumption ==
    /\ None \notin Submissions /\ None \notin Approvals /\ None \notin Ids
    /\ None \notin Grants /\ None \notin Records
    /\ None \notin Calls /\ None \notin Dispatches

Known(q) == record[q] # None
LockFree == dispatch = None
ActorCurrent == clock < ActorExpires

(* _verify_signed_record's window, wider by the tolerated skew. *)
Verified(issued, expires) == clock <= expires + ClockSkew /\ issued <= clock + ClockSkew

(* PolicyRule.matches and PolicySet.evaluate: the first rule that covers   *)
(* every requested effect decides, and no rule is a denial.                *)
Matches(rule, s) ==
    s.effects \subseteq rule.effects /\ (rule.tools = {} \/ s.tool \in rule.tools)

Evaluate(s) ==
    LET hits == {i \in DOMAIN Rules : Matches(Rules[i], s)} IN
    IF hits = {} THEN "deny"
    ELSE Rules[CHOOSE i \in hits : \A j \in hits : i <= j].decision

DecisionState(decision) ==
    CASE decision = "authorize" -> "policy_authorized"
      [] decision = "deny" -> "denied"
      [] decision = "require_approval" -> "approval_required"

(* The ledger refuses a time before its last envelope's. *)
MayAppend == ledger # <<>> => ledger[Len(ledger)].at <= clock

Envelope(kind, q, state) == [kind |-> kind, req |-> q, state |-> state, at |-> clock]

AppendEvidence(kind, q, state) ==
    /\ MayAppend
    /\ ledger' = Append(ledger, Envelope(kind, q, state))

-----------------------------------------------------------------------------
Init ==
    /\ clock = 0
    /\ waiting = [c \in Callers |-> None]
    /\ binding = [k \in Keys |-> None]
    /\ record = [q \in Ids |-> None]
    /\ ledger = <<>>
    /\ spent = {}
    /\ dispatch = None
    /\ applied = [q \in Ids |-> 0]
    /\ active = [q \in Ids |-> FALSE]
    /\ unreverted = {}
    /\ answered = {}

-----------------------------------------------------------------------------
(* submit *)

(* Identity and decision time, before the lock. *)
SubmitCheck(c, s) ==
    /\ waiting[c] = None
    /\ ActorCurrent
    /\ waiting' = [waiting EXCEPT ![c] = [sub |-> s, at |-> clock]]
    /\ UNCHANGED <<clock, binding, record, ledger, spent, dispatch, world, answered>>

(* Mutant: only the request id is looked up, not the idempotency key. *)
NewRequestId(s) == ~Known(s.id)

(* Neither the idempotency key nor the request id is taken. *)
NewBinding(s) == binding[s.key] = None /\ ~Known(s.id)

(* Mutant: an equal operation digest is enough for a replay. *)
ReplaySameOperation(s) == binding[s.key] # None /\ binding[s.key].op = s.op

(* The key is bound to this very request: operation and request digest. *)
Replay(s) == binding[s.key] = s

Answer(s, t) == answered' = answered \cup {<<s, t>>}

(* A new request is decided, recorded and bound under the lock. *)
SubmitDecide(c) ==
    /\ waiting[c] # None
    /\ LockFree
    /\ LET s == waiting[c].sub
           state == DecisionState(Evaluate(s)) IN
       /\ NewBinding(s)
       /\ AppendEvidence("policy", s.id, state)
       /\ record' = [record EXCEPT ![s.id] =
                        [sub |-> s, state |-> state, decidedAt |-> waiting[c].at,
                         approval |-> None, grant |-> None]]
       /\ binding' = [binding EXCEPT ![s.key] = s]
       /\ Answer(s, s)
    /\ waiting' = [waiting EXCEPT ![c] = None]
    /\ UNCHANGED <<clock, spent, dispatch, world>>

(* A replay is answered with the record of the bound request. *)
SubmitReplay(c) ==
    /\ waiting[c] # None
    /\ LockFree
    /\ LET s == waiting[c].sub IN
       /\ Replay(s)
       /\ Answer(s, record[binding[s.key].id].sub)
    /\ waiting' = [waiting EXCEPT ![c] = None]
    /\ UNCHANGED <<clock, binding, record, ledger, spent, dispatch, world>>

(* A conflicting key or request id, or a clock behind the ledger, raises. *)
SubmitRejected(c) ==
    /\ waiting[c] # None
    /\ LockFree
    /\ ~Replay(waiting[c].sub)
    /\ ~(NewBinding(waiting[c].sub) /\ MayAppend)
    /\ waiting' = [waiting EXCEPT ![c] = None]
    /\ UNCHANGED <<clock, binding, record, ledger, spent, dispatch, world, answered>>

-----------------------------------------------------------------------------
(* accept_approval *)

Approve(q, a) ==
    record' = [record EXCEPT ![q].state = "approved", ![q].approval = a]

(* Mutant: an approval is taken in any state. *)
ApprovalAnyState(a) ==
    /\ Known(a.req)
    /\ a.from <= clock
    /\ clock < a.until
    /\ Verified(a.from, a.until)

(* An approval is good for one request in one state, inside its window.    *)
(* The approvals consumed are those the records hold.                      *)
ApprovalValid(a) ==
    /\ Known(a.req)
    /\ record[a.req].state = "approval_required"
    /\ a.from <= clock
    /\ clock < a.until
    /\ Verified(a.from, a.until)

(* Mutant: the record advances although the ledger refused the envelope. *)
AcceptApprovalUnrecorded(a) ==
    /\ LockFree
    /\ ApprovalValid(a)
    /\ Approve(a.req, a)
    /\ ledger' = IF MayAppend THEN Append(ledger, Envelope("approval", a.req, "approved"))
                              ELSE ledger
    /\ UNCHANGED <<clock, waiting, binding, spent, dispatch, world, answered>>

AcceptApproval(a) ==
    /\ LockFree
    /\ ApprovalValid(a)
    /\ AppendEvidence("approval", a.req, "approved")
    /\ Approve(a.req, a)
    /\ UNCHANGED <<clock, waiting, binding, spent, dispatch, world, answered>>

-----------------------------------------------------------------------------
(* issue_grant, and the same inside execute_effect *)

(* Mutant: a request that still awaits its approval gets a grant. *)
AuthorisedUnlessDenied(q) == Evaluate(record[q].sub) # "deny"

(* The lifecycle state authorises, and so do the policy and the approval   *)
(* that validate_grant_binding compares with the grant.                    *)
Authorised(q) ==
    /\ record[q].state \in {"policy_authorized", "approved"}
    /\ Evaluate(record[q].sub) # "deny"
    /\ Evaluate(record[q].sub) = "require_approval" => record[q].approval # None

(* Mutant: the grant has its full lifetime whatever else expires. *)
GrantUncapped(q) == clock + GrantTTL

(* The grant ends with its lifetime, the actor context or the approval,    *)
(* whichever is first.                                                     *)
GrantExpiry(q) ==
    LET limits == {clock + GrantTTL, ActorExpires}
                      \cup (IF record[q].approval = None THEN {}
                            ELSE {record[q].approval.until}) IN
    CHOOSE t \in limits : \A u \in limits : t <= u

(* validate_grant_binding on a grant from issued to expires: the order of  *)
(* issue times, which a clock that stepped back may break, and both proofs. *)
GrantBound(q, issued, expires) ==
    LET r == record[q] IN
    /\ r.decidedAt <= issued
    /\ Verified(issued, expires)
    /\ r.approval # None => /\ r.approval.from <= issued
                            /\ expires <= r.approval.until
                            /\ Verified(r.approval.from, r.approval.until)

IssueGrantLocked(q) ==
    /\ Authorised(q)
    /\ GrantExpiry(q) > clock
    /\ GrantBound(q, clock, GrantExpiry(q))
    /\ AppendEvidence("grant", q, "grant_issued")
    /\ record' = [record EXCEPT ![q].state = "grant_issued",
                                ![q].grant = [issued |-> clock, expires |-> GrantExpiry(q)]]

IssueGrant(q) ==
    /\ LockFree
    /\ Known(q)
    /\ ActorCurrent
    /\ IssueGrantLocked(q)
    /\ UNCHANGED <<clock, waiting, binding, spent, dispatch, world, answered>>

-----------------------------------------------------------------------------
(* execute_effect and EffectBroker.dispatch: the lock is held throughout *)

Enforced(q) == record[q].sub.effects \subseteq Enforceable

Phase(q, phase) == dispatch # None /\ dispatch.req = q /\ dispatch.phase = phase
GoOn(phase) == dispatch' = [dispatch EXCEPT !.phase = phase]
Release == dispatch' = None

(* A request with a grant is dispatched; an authorised one gets its grant  *)
(* first, if the executor can enforce it.                                  *)
ExecuteBegin(q) ==
    /\ LockFree
    /\ Known(q)
    /\ ActorCurrent
    /\ \/ record[q].state = "grant_issued" /\ UNCHANGED <<record, ledger>>
       \/ Enforced(q) /\ IssueGrantLocked(q)
    /\ dispatch' = [req |-> q, phase |-> "granted", at |-> clock]
    /\ UNCHANGED <<clock, waiting, binding, spent, world, answered>>

(* Mutant: an old grant is as good as a new one. *)
GrantIssued(q) == record[q].grant.issued <= clock

GrantCurrent(q) == record[q].grant.issued <= clock /\ clock < record[q].grant.expires

(* A grant consumed without a stored result is never dispatched again. *)
GrantUnspent(q) == q \notin spent

MayDispatch(q) ==
    /\ ActorCurrent
    /\ GrantCurrent(q)
    /\ GrantBound(q, record[q].grant.issued, record[q].grant.expires)
    /\ Enforced(q)
    /\ GrantUnspent(q)

DispatchValidate(q) ==
    /\ Phase(q, "granted")
    /\ \/ /\ MayDispatch(q)
          /\ dispatch' = [dispatch EXCEPT !.phase = "validated", !.at = clock]
       \/ ~MayDispatch(q) /\ Release
    /\ UNCHANGED <<clock, waiting, binding, record, ledger, spent, world, answered>>

(* Mutant: the executor is invoked under a grant that is not consumed. *)
DispatchIntentUnconsumed(q) ==
    /\ Phase(q, "validated")
    /\ \/ AppendEvidence("intent", q, "none") /\ GoOn("intended")
       \/ ~MayAppend /\ Release /\ UNCHANGED ledger
    /\ UNCHANGED <<clock, waiting, binding, record, spent, world, answered>>

(* Intent evidence, then consumption; no intent, no executor. *)
DispatchIntent(q) ==
    /\ Phase(q, "validated")
    /\ \/ /\ AppendEvidence("intent", q, "none")
          /\ spent' = spent \cup {q}
          /\ GoOn("intended")
       \/ ~MayAppend /\ Release /\ UNCHANGED <<ledger, spent>>
    /\ UNCHANGED <<clock, waiting, binding, record, world, answered>>

(* _revert_synthetic: the effect is removed, or reverting raises. *)
RevertOrRaise(q) ==
    \/ active' = [active EXCEPT ![q] = FALSE] /\ UNCHANGED unreverted
    \/ active' = active /\ unreverted' = unreverted \cup {q}

(* Mutant: nothing is reverted. *)
RevertNothing(q) == UNCHANGED <<active, unreverted>>

(* The effect of an outcome that could not be recorded. *)
RevertUnrecorded(q) == RevertOrRaise(q)

(* The executor is invoked, and may raise or return something malformed;   *)
(* then its effect is reverted at once, or reverting raises.               *)
ExecutorSucceeds(q) ==
    /\ Phase(q, "intended")
    /\ applied' = [applied EXCEPT ![q] = @ + 1]
    /\ active' = [active EXCEPT ![q] = TRUE]
    /\ GoOn("succeeded")
    /\ UNCHANGED <<clock, waiting, binding, record, ledger, spent, unreverted, answered>>

ExecutorFails(q) ==
    /\ Phase(q, "intended")
    /\ applied' = [applied EXCEPT ![q] = @ + 1]
    /\ \/ GoOn("failed") /\ UNCHANGED <<active, unreverted>>
       \/ /\ \E left \in BOOLEAN : active' = [active EXCEPT ![q] = left]
          /\ unreverted' = unreverted \cup {q}
          /\ Release
    /\ UNCHANGED <<clock, waiting, binding, record, ledger, spent, answered>>

OutcomeState == IF dispatch.phase = "succeeded" THEN "effect_succeeded"
                                                ELSE "effect_indeterminate"

(* _build_outcome derives a scope the actor context must still contain. *)
Buildable == clock <= ActorExpires

DispatchRecords(q) ==
    /\ Phase(q, "succeeded") \/ Phase(q, "failed")
    /\ Buildable
    /\ AppendEvidence("outcome", q, OutcomeState)
    /\ record' = [record EXCEPT ![q].state = OutcomeState]
    /\ Release
    /\ UNCHANGED <<clock, waiting, binding, spent, world, answered>>

(* The outcome cannot be built or appended: a successful effect is         *)
(* reverted, and the request keeps its spent grant.                        *)
DispatchUnrecorded(q) ==
    /\ ~(Buildable /\ MayAppend)
    /\ \/ Phase(q, "succeeded") /\ RevertUnrecorded(q)
       \/ Phase(q, "failed") /\ UNCHANGED <<active, unreverted>>
    /\ Release
    /\ UNCHANGED <<clock, waiting, binding, record, ledger, spent, applied, answered>>

-----------------------------------------------------------------------------
Tick ==
    /\ clock < MaxTime
    /\ clock' = clock + 1
    /\ UNCHANGED <<waiting, binding, record, ledger, spent, dispatch, world, answered>>

StepBack ==
    /\ clock > 0
    /\ clock' = clock - 1
    /\ UNCHANGED <<waiting, binding, record, ledger, spent, dispatch, world, answered>>

Next ==
    \/ \E c \in Callers, s \in Submissions : SubmitCheck(c, s)
    \/ \E c \in Callers : SubmitDecide(c) \/ SubmitReplay(c) \/ SubmitRejected(c)
    \/ \E a \in Approvals : AcceptApproval(a)
    \/ \E q \in Ids :
          \/ IssueGrant(q) \/ ExecuteBegin(q)
          \/ DispatchValidate(q) \/ DispatchIntent(q)
          \/ ExecutorSucceeds(q) \/ ExecutorFails(q)
          \/ DispatchRecords(q) \/ DispatchUnrecorded(q)
    \/ Tick
    \/ StepBack

Spec == Init /\ [][Next]_vars

-----------------------------------------------------------------------------
(* Correctness *)

(* Every variable has its type. *)
TypeOK ==
    /\ clock \in Time
    /\ waiting \in [Callers -> Calls \cup {None}]
    /\ binding \in [Keys -> Submissions \cup {None}]
    /\ record \in [Ids -> Records \cup {None}]
    /\ ledger \in Seq(Envelopes)
    /\ spent \in SUBSET Ids
    /\ dispatch \in Dispatches \cup {None}
    /\ applied \in [Ids -> Nat]
    /\ active \in [Ids -> BOOLEAN]
    /\ unreverted \in SUBSET Ids
    /\ answered \in SUBSET (Submissions \X Submissions)

(* However often a request is executed, and whatever failed the first      *)
(* time, the executor is invoked at most once for it.                      *)
ExecutedOnce == \A q \in Ids : applied[q] <= 1

(* "A single tool proposal is resolved once": submits that race with one   *)
(* idempotency key get one policy decision between them.                   *)
OneDecisionPerKey ==
    \A i, j \in DOMAIN ledger :
        /\ ledger[i].kind = "policy"
        /\ ledger[j].kind = "policy"
        /\ record[ledger[i].req].sub.key = record[ledger[j].req].sub.key
        => i = j

(* "Duplicate commands return the original receipt when the request digest *)
(* matches; a digest mismatch is a conflict": no submit is ever answered   *)
(* with the record of another request.                                     *)
ReplayFaithful == \A p \in answered : p[1] = p[2]

(* Evidence of kind k and state st for the request of envelope i, before i. *)
Before(i, k, st) ==
    \E j \in 1..(i - 1) : /\ ledger[j].req = ledger[i].req
                          /\ ledger[j].kind = k
                          /\ ledger[j].state = st

(* Every intent follows a grant that follows its authority: a policy that  *)
(* authorises, or one that asks for an approval and that approval.         *)
IntentAuthorised ==
    \A i \in DOMAIN ledger :
        ledger[i].kind = "intent" =>
            \E g \in 1..(i - 1) :
                /\ ledger[g].req = ledger[i].req
                /\ ledger[g].kind = "grant"
                /\ \/ Before(g, "policy", "policy_authorized")
                   \/ \E a \in 1..(g - 1) :
                         /\ ledger[a].req = ledger[i].req
                         /\ ledger[a].kind = "approval"
                         /\ Before(a, "policy", "approval_required")

(* An effect is dispatched only at a time when its grant, its actor        *)
(* context and its approval were all valid, whatever the clock did since   *)
(* they were accepted.                                                     *)
DispatchInWindow ==
    dispatch # None /\ dispatch.phase # "granted" =>
        LET r == record[dispatch.req] IN
        /\ dispatch.at < ActorExpires
        /\ r.grant.issued <= dispatch.at /\ dispatch.at < r.grant.expires
        /\ r.approval # None =>
             r.approval.from <= dispatch.at /\ dispatch.at < r.approval.until

(* Outside a dispatch, an effect is in place exactly when its success is   *)
(* on record, unless the executor failed to revert it.                     *)
NoUnrecordedEffect ==
    \A q \in Ids :
        (dispatch = None \/ dispatch.req # q) /\ q \notin unreverted =>
            (active[q] <=> Known(q) /\ record[q].state = "effect_succeeded")

(* "The evidence append succeeds before either authority consumption or    *)
(* state mutation": a record is in the state the last lifecycle envelope   *)
(* of its request names, and without one there is no record.               *)
RecordMatchesLedger ==
    \A q \in Ids :
        LET mine == {i \in DOMAIN ledger : ledger[i].req = q /\ ledger[i].kind # "intent"} IN
        /\ Known(q) <=> mine # {}
        /\ \A i \in mine : (\A j \in mine : j <= i) => ledger[i].state = record[q].state

(* What a request was granted on never changes under it: however calls     *)
(* race, a record keeps its request and decision, and a granted one its    *)
(* approval and grant.                                                     *)
AuthorityKept ==
    [][\A q \in Ids : Known(q) =>
         /\ Known(q)'
         /\ record'[q].sub = record[q].sub
         /\ record'[q].decidedAt = record[q].decidedAt
         /\ record[q].grant # None =>
              /\ record'[q].grant = record[q].grant
              /\ record'[q].approval = record[q].approval]_vars

(* The resolution of an effect is the state of its request's record, which *)
(* every caller of get and execute_effect is given.                        *)
EffectStatus(q) ==
    CASE Known(q) /\ record[q].state = "effect_succeeded" -> "completed"
      [] Known(q) /\ record[q].state = "effect_indeterminate" -> "indeterminate"
      [] OTHER -> IF q \in spent THEN "intended" ELSE "absent"

Once == INSTANCE EffectOnce WITH
            Requests <- Ids,
            status <- [q \in Ids |-> EffectStatus(q)],
            told <- [q \in Ids |-> {EffectStatus(q)} \cap {"completed", "indeterminate"}]

(* The in-memory broker keeps the promise of the durable one: an effect is *)
(* intended before it runs, runs at most once, and is resolved at most     *)
(* once and "completed" only if it ran, across every failure and retry of  *)
(* execute_effect.                                                         *)
BrokerImplementsEffectOnce == Once!Spec

===============================================================================
