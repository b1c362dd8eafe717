--------------------------- MODULE DurableLifecycle ---------------------------
(***************************************************************************)
(* The durable request lifecycle: GovernanceKernel.submit, get,            *)
(* accept_approval, issue_grant and the grant of execute_effect            *)
(* (kernel/core.py) over PostgresDurableEffectStore (persistence/store.py) *)
(* and the lifecycle operations of its SQL functions (migrations/0003).    *)
(* Several kernels share one database and keep records of their own.       *)
(*                                                                         *)
(* The evidence ledger is the authority; gah_request_lifecycle is a        *)
(* projection of it, which every load compares with a replay of the        *)
(* ledger.  Each read is a statement of its own and sees what is committed *)
(* at that moment (READ COMMITTED).  A write transaction takes the run     *)
(* lock, appends its evidence and updates the projection under a version   *)
(* check, so from the lock to the COMMIT it is one step.                   *)
(*                                                                         *)
(* One actor context and one run.  Windows, proofs and policy rules are    *)
(* GovernanceKernel's; what an issued grant does is DurableEffects'.  A    *)
(* call that raises before it starts a transaction has no action.          *)
(***************************************************************************)
EXTENDS Naturals, Sequences

CONSTANTS Kernels,    \* kernel processes
          Requests,   \* tool requests, each with its own idempotency key
          Decision,   \* Decision[q]: what the policy decides for q
          Approvers,  \* identities of the approvals offered for a request
          Damages,    \* subset of {"tamper", "delete"}: what befalls projections
          None        \* the absence of a row, a record or a transaction

ASSUME DecisionAssumption ==
    Decision \in [Requests -> {"authorize", "deny", "require_approval"}]
ASSUME DamageAssumption == Damages \subseteq {"tamper", "delete"}

VARIABLES
    events,      \* events[q]: the committed lifecycle evidence of q, in order
    proj,        \* proj[q]: the gah_request_lifecycle row of q
    cache,       \* cache[k][q]: the record kernel k holds for q
    txn,         \* txn[k]: what kernel k is doing
    dispatched,  \* <<q, g>>: execute_effect handed grant g of q to the broker
    damaged,     \* requests whose projection was damaged and not yet rebuilt
    bound,       \* <<k, q>>: q's idempotency key is in kernel k's _idempotency
    raised       \* <<what, q>>: errors callers of q were given

vars == <<events, proj, cache, txn, dispatched, damaged, bound, raised>>
database == <<events, proj, damaged>>
answers == <<dispatched, raised>>

-----------------------------------------------------------------------------
(* Evidence and rows *)

LifecycleStates == {"denied", "approval_required", "policy_authorized",
                    "approved", "grant_issued"}
Event(kind, state, id) == [kind |-> kind, state |-> state, id |-> id]
Events == [kind : {"policy", "approval", "grant"}, state : LifecycleStates,
           id : (Nat \ {0}) \cup Approvers \cup Kernels]
Rows == [state : LifecycleStates, version : Nat \ {0}, policies : SUBSET (Nat \ {0}),
         approvals : SUBSET Approvers, grants : SUBSET Kernels]
Calls == [op : {"submit", "get", "approve", "grant", "execute", "rebuild"},
          req : Requests, by : Approvers \cup {None},
          next : {"insert", "row", "evidence", "write", "rebuild"},
          row : Rows \cup {None}, want : Nat, seen : Seq(Events)]

ASSUME LifecycleNoneAssumption == None \notin Rows \cup Calls

(* The ids of the records of one kind in a sequence of events. *)
IdsOf(es, kind) == {es[i].id : i \in {j \in DOMAIN es : es[j].kind = kind}}

(* _replay_lifecycle: the projection a sequence of events stands for. *)
Replay(es) == [state |-> es[Len(es)].state,
               version |-> Len(es),
               policies |-> IdsOf(es, "policy"),
               approvals |-> IdsOf(es, "approval"),
               grants |-> IdsOf(es, "grant")]

(* _replay_lifecycle accepts one policy, then at most one approval, which  *)
(* the policy must ask for, then at most one grant.                        *)
Replayable(q, es) ==
    /\ es # <<>>
    /\ es[1].kind = "policy"
    /\ \A i, j \in DOMAIN es : es[i].kind = es[j].kind => i = j
    /\ \A i, j \in DOMAIN es : es[i].kind = "approval" /\ es[j].kind = "grant" => i < j
    /\ IdsOf(es, "approval") # {} => Decision[q] = "require_approval"

(* The state persist_submission expects for a decision: it knows "allow",  *)
(* which no policy decides, and not "authorize".                           *)
ExpectedState(decision) ==
    CASE decision = "deny" -> "denied"
      [] decision = "require_approval" -> "approval_required"
      [] decision = "allow" -> "policy_authorized"
      [] OTHER -> "none"

DecidedState(decision) ==
    CASE decision = "authorize" -> "policy_authorized"
      [] decision = "deny" -> "denied"
      [] decision = "require_approval" -> "approval_required"

-----------------------------------------------------------------------------
Init ==
    /\ events = [q \in Requests |-> <<>>]
    /\ proj = [q \in Requests |-> None]
    /\ cache = [k \in Kernels |-> [q \in Requests |-> None]]
    /\ txn = [k \in Kernels |-> None]
    /\ dispatched = {}
    /\ damaged = {}
    /\ bound = {}
    /\ raised = {}

(* A call in progress: op and its request, the approver of an approval,    *)
(* the next step, the row last read, the version expected and the evidence *)
(* a rebuild saw before it had the lock.                                   *)
Call(op, q, by, next) ==
    [op |-> op, req |-> q, by |-> by, next |-> next, row |-> None, want |-> 0,
     seen |-> <<>>]

Issuable(row) == row.state \in {"policy_authorized", "approved"}

Begin(k, call) == txn[k] = None /\ txn' = [txn EXCEPT ![k] = call]

(* A call whose first statement is lifecycle_by_id; no row, no call. *)
BeginLoad(k, op, q, by) ==
    /\ proj[q] # None
    /\ Begin(k, [Call(op, q, by, "evidence") EXCEPT !.row = proj[q]])

At(k, next) == txn[k] # None /\ txn[k].next = next
End(k) == txn' = [txn EXCEPT ![k] = None]
Remember(k, q, row) == cache' = [cache EXCEPT ![k][q] = row]
Raise(what, q) == raised' = raised \cup {<<what, q>>}

-----------------------------------------------------------------------------
(* Calls *)

(* lifecycle_by_idempotency: a bound key is loaded, a free one inserted. *)
ReadBinding(q) == IF proj[q] = None THEN "insert" ELSE "row"

(* submit of a request this kernel has no record of.  persist_submission   *)
(* checks the decided state before it opens its transaction.               *)
Submit(k, q) ==
    /\ txn[k] = None
    /\ cache[k][q] = None
    /\ \/ /\ DecidedState(Decision[q]) = ExpectedState(Decision[q])
          /\ Begin(k, Call("submit", q, None, ReadBinding(q)))
          /\ UNCHANGED raised
       \/ /\ DecidedState(Decision[q]) # ExpectedState(Decision[q])
          /\ Raise("refused", q)
          /\ UNCHANGED txn
    /\ UNCHANGED <<database, cache, dispatched, bound>>

(* submit of one it has: a bound key is a replay from memory and changes   *)
(* nothing; a record that came in by another way has no key and conflicts. *)
SubmitConflicts(k, q) ==
    /\ txn[k] = None
    /\ cache[k][q] # None
    /\ <<k, q>> \notin bound
    /\ Raise("duplicate", q)
    /\ UNCHANGED <<database, cache, txn, dispatched, bound>>

(* get, and execute_effect on its way in, answer from the kernel's own     *)
(* record when it has one and load it otherwise.                           *)
Get(k, q) ==
    /\ cache[k][q] = None
    /\ BeginLoad(k, "get", q, None)
    /\ UNCHANGED <<database, cache, bound, answers>>

AcceptApproval(k, q, a) ==
    /\ BeginLoad(k, "approve", q, a)
    /\ UNCHANGED <<database, cache, bound, answers>>

IssueGrant(k, q) ==
    /\ BeginLoad(k, "grant", q, None)
    /\ UNCHANGED <<database, cache, bound, answers>>

(* execute_effect trusts the kernel's own record: a grant in it is         *)
(* dispatched, an authorised state asks the store for one.                 *)
ExecuteEffect(k, q) ==
    /\ txn[k] = None
    /\ cache[k][q] # None
    /\ \/ /\ cache[k][q].state = "grant_issued"
          /\ dispatched' = dispatched \cup {<<q, g>> : g \in cache[k][q].grants}
          /\ UNCHANGED txn
       \/ /\ Issuable(cache[k][q])
          /\ BeginLoad(k, "execute", q, None)
          /\ UNCHANGED dispatched
    /\ UNCHANGED <<database, cache, bound, raised>>

RebuildLifecycle(k, q) ==
    /\ events[q] # <<>>
    /\ Begin(k, [Call("rebuild", q, None, "rebuild") EXCEPT !.seen = events[q]])
    /\ UNCHANGED <<database, cache, bound, answers>>

-----------------------------------------------------------------------------
(* Submission *)

(* Mutant: the row starts at version 0. *)
SubmittedZero(es, state) == [Replay(<<Event("policy", state, Len(es))>>) EXCEPT !.version = 0]

(* The row of a submission is that of its own evidence alone. *)
SubmittedRow(es, state) == Replay(<<Event("policy", state, Len(es))>>)

(* Evidence and row are inserted together, or the key is taken and the     *)
(* transaction rolls back; a COMMIT's acknowledgement may be lost.         *)
InsertLifecycle(k) ==
    LET q == txn[k].req
        state == DecidedState(Decision[q])
        es == Append(events[q], Event("policy", state, Len(events[q]) + 1)) IN
    /\ At(k, "insert")
    /\ \/ /\ proj[q] = None
          /\ events' = [events EXCEPT ![q] = es]
          /\ proj' = [proj EXCEPT ![q] = SubmittedRow(es, state)]
          /\ \/ Remember(k, q, SubmittedRow(es, state)) /\ bound' = bound \cup {<<k, q>>}
             \/ UNCHANGED <<cache, bound>>
       \/ UNCHANGED <<events, proj, cache, bound>>
    /\ End(k)
    /\ UNCHANGED <<damaged, answers>>

-----------------------------------------------------------------------------
(* Loading: the row in one statement, the evidence in another *)

(* The row of a bound key, or the store's own load in its transaction. *)
ReadRow(k) ==
    /\ At(k, "row")
    /\ LET row == proj[txn[k].req] IN
       txn' = [txn EXCEPT ![k] =
                  IF row = None THEN None
                  ELSE [txn[k] EXCEPT !.row = row, !.next = "evidence"]]
    /\ UNCHANGED <<database, cache, bound, answers>>

(* The row that was read is what the evidence replays to now. *)
LoadAgrees(k) ==
    LET q == txn[k].req IN
    Replayable(q, events[q]) /\ txn[k].row = Replay(events[q])

(* A load that disagrees raises: the projection is said to have diverged.  *)
LoadRaises(k) ==
    LET q == txn[k].req IN
    /\ At(k, "evidence")
    /\ ~LoadAgrees(k)
    /\ \/ q \notin damaged /\ Raise("diverged", q)
       \/ q \in damaged /\ UNCHANGED raised
    /\ End(k)
    /\ UNCHANGED <<database, cache, dispatched, bound>>

Loaded(k) == At(k, "evidence") /\ LoadAgrees(k)
First(k) == txn[k].want = 0

(* get and a replayed submit keep what they loaded; only submit binds. *)
LoadKeeps(k) ==
    LET q == txn[k].req IN
    /\ Loaded(k)
    /\ \/ txn[k].op = "get" /\ UNCHANGED bound
       \/ txn[k].op = "submit" /\ bound' = bound \cup {<<k, q>>}
    /\ Remember(k, q, txn[k].row)
    /\ End(k)
    /\ UNCHANGED <<database, answers>>

(* The transitions that may go on from a loaded row. *)
MayAdvance(k) ==
    \/ txn[k].op = "approve" /\ txn[k].row.state = "approval_required"
    \/ txn[k].op \in {"grant", "execute"} /\ Issuable(txn[k].row)

(* The kernel's load fixes the expected version; the store's own load in   *)
(* its transaction must find it again.                                     *)
LoadAdvances(k) ==
    /\ Loaded(k)
    /\ MayAdvance(k)
    /\ \/ First(k) /\ txn' = [txn EXCEPT ![k].want = txn[k].row.version, ![k].next = "row"]
       \/ txn[k].row.version = txn[k].want /\ txn' = [txn EXCEPT ![k].next = "write"]
       \/ ~First(k) /\ txn[k].row.version # txn[k].want /\ End(k)
    /\ UNCHANGED <<database, cache, bound, answers>>

(* The store finds the same approval accepted already, and returns it. *)
ApprovalFound(k) == txn[k].op = "approve" /\ txn[k].by \in txn[k].row.approvals
                      /\ txn[k].row.state = "approved" /\ ~First(k)

(* The kernel's load finds a grant, and execute_effect dispatches it. *)
GrantFound(k) == txn[k].op = "execute" /\ txn[k].row.state = "grant_issued" /\ First(k)

(* The transition was made before; in any other state the call raises. *)
LoadEnds(k) ==
    LET q == txn[k].req IN
    /\ Loaded(k)
    /\ txn[k].op \notin {"get", "submit"}
    /\ ~MayAdvance(k)
    /\ \/ ApprovalFound(k) /\ Remember(k, q, txn[k].row) /\ UNCHANGED dispatched
       \/ /\ GrantFound(k)
          /\ dispatched' = dispatched \cup {<<q, g>> : g \in txn[k].row.grants}
          /\ Remember(k, q, txn[k].row) \/ UNCHANGED cache
       \/ ~ApprovalFound(k) /\ ~GrantFound(k) /\ UNCHANGED <<cache, dispatched>>
    /\ End(k)
    /\ UNCHANGED <<database, bound, raised>>

-----------------------------------------------------------------------------
(* Writing *)

(* Mutant: the approval's UPDATE matches the row whatever its state. *)
ApproveUnguarded(row, want) == TRUE

ApproveMatches(row, want) == row.state = "approval_required" /\ row.version = want

(* Mutant: the grant's UPDATE matches the row whatever its state. *)
GrantUnguarded(row, want) == TRUE

GrantMatches(row, want) == Issuable(row) /\ row.version = want

WriteMatches(k) ==
    LET row == proj[txn[k].req] IN
    /\ row # None
    /\ IF txn[k].op = "approve" THEN ApproveMatches(row, txn[k].want)
                                ELSE GrantMatches(row, txn[k].want)

(* The evidence of the write; a grant is fresh, so its issuer names it. *)
WriteEvent(k) ==
    IF txn[k].op = "approve" THEN Event("approval", "approved", txn[k].by)
                             ELSE Event("grant", "grant_issued", k)

WrittenRow(row, e) ==
    [row EXCEPT !.state = e.state, !.version = @ + 1,
                !.approvals = IF e.kind = "approval" THEN {e.id} ELSE @,
                !.grants = IF e.kind = "grant" THEN {e.id} ELSE @]

Write(k) ==
    LET q == txn[k].req
        e == WriteEvent(k)
        row == WrittenRow(txn[k].row, e) IN
    /\ At(k, "write")
    /\ WriteMatches(k)
    /\ events' = [events EXCEPT ![q] = Append(@, e)]
    /\ proj' = [proj EXCEPT ![q] = WrittenRow(@, e)]
    /\ \/ /\ Remember(k, q, row)
          /\ dispatched' = IF txn[k].op = "execute" THEN dispatched \cup {<<q, k>>}
                                                    ELSE dispatched
       \/ UNCHANGED <<cache, dispatched>>            \* acknowledgement lost
    /\ End(k)
    /\ UNCHANGED <<damaged, bound, raised>>

(* Mutant: the kernel goes on although its transition lost the race. *)
WriteLostIgnored(k) ==
    /\ At(k, "write")
    /\ Remember(k, txn[k].req, WrittenRow(txn[k].row, WriteEvent(k)))
    /\ End(k)
    /\ UNCHANGED <<database, bound, answers>>

(* The transition lost its race or the transaction failed: all of it,      *)
(* evidence included, is rolled back, and the call raises.                 *)
WriteLost(k) ==
    /\ At(k, "write")
    /\ End(k)
    /\ UNCHANGED <<database, cache, bound, answers>>

-----------------------------------------------------------------------------
(* Rebuilding, damage and restarts *)

(* Mutant: the projection is rebuilt from what was read before the lock. *)
RebuildCandidates(k) == txn[k].seen

(* The evidence is read again under the run lock. *)
RebuildEvidence(k) == events[txn[k].req]

(* The projection is overwritten with the replay, or the replay raises. *)
Rebuild(k) ==
    LET q == txn[k].req
        es == RebuildEvidence(k) IN
    /\ At(k, "rebuild")
    /\ \/ /\ Replayable(q, es)
          /\ proj' = [proj EXCEPT ![q] = Replay(es)]
          /\ damaged' = damaged \ {q}
       \/ UNCHANGED <<proj, damaged>>
    /\ End(k)
    /\ UNCHANGED <<events, cache, bound, answers>>

Tampered(row) == [row EXCEPT !.version = @ + 1]

(* An administrator's hand or a restored table: a row is lost or altered.  *)
Damage(q, how) ==
    /\ proj[q] # None
    /\ q \notin damaged
    /\ proj' = [proj EXCEPT ![q] =
                   IF how = "delete" THEN None ELSE Tampered(proj[q])]
    /\ damaged' = damaged \cup {q}
    /\ UNCHANGED <<events, cache, txn, bound, answers>>

(* A kernel loses its records and its transaction; the database keeps its. *)
Restart(k) ==
    /\ cache' = [cache EXCEPT ![k] = [q \in Requests |-> None]]
    /\ bound' = {b \in bound : b[1] # k}
    /\ End(k)
    /\ UNCHANGED <<database, answers>>

Next ==
    \/ \E k \in Kernels, q \in Requests :
          \/ Submit(k, q) \/ SubmitConflicts(k, q) \/ Get(k, q)
          \/ \E a \in Approvers : AcceptApproval(k, q, a)
          \/ IssueGrant(k, q) \/ ExecuteEffect(k, q) \/ RebuildLifecycle(k, q)
    \/ \E k \in Kernels :
          \/ InsertLifecycle(k) \/ ReadRow(k)
          \/ LoadRaises(k) \/ LoadKeeps(k)
          \/ LoadAdvances(k) \/ LoadEnds(k)
          \/ Write(k) \/ WriteLost(k)
          \/ Rebuild(k) \/ Restart(k)
    \/ \E q \in Requests, how \in Damages : Damage(q, how)

Spec == Init /\ [][Next]_vars

-----------------------------------------------------------------------------
(* Correctness *)

(* Every variable has its type. *)
TypeOK ==
    /\ events \in [Requests -> Seq(Events)]
    /\ proj \in [Requests -> Rows \cup {None}]
    /\ cache \in [Kernels -> [Requests -> Rows \cup {None}]]
    /\ txn \in [Kernels -> Calls \cup {None}]
    /\ dispatched \in SUBSET (Requests \X Kernels)
    /\ damaged \in SUBSET Requests
    /\ bound \in SUBSET (Kernels \X Requests)
    /\ raised \in SUBSET ({"refused", "duplicate", "diverged"} \X Requests)

(* "Within one unit of work, the system appends an event and updates       *)
(* required projections atomically": whatever submissions, approvals,      *)
(* grants and rebuilds interleave, an undamaged projection is the replay   *)
(* of the whole ledger of its request.                                     *)
ProjectionFollowsLedger ==
    \A q \in Requests \ damaged :
        proj[q] = IF events[q] = <<>> THEN None ELSE Replay(events[q])

(* "Concurrent approval responses use compare-and-set semantics": kernels  *)
(* that race leave one approval and one grant for each policy decision,    *)
(* and no grant without the approval its policy asked for.                 *)
OneAuthority ==
    \A q \in Requests : \A i \in DOMAIN events[q] :
        /\ events[q][i].kind # "policy" =>
             \A j \in 1..(i - 1) : events[q][j].kind = events[q][i].kind =>
                \E p \in j..i : events[q][p].kind = "policy"
        /\ events[q][i].kind = "grant" /\ Decision[q] = "require_approval" =>
             events[q][i - 1].kind = "approval"

DecidedOnce(q) == \A x, y \in IdsOf(events[q], "policy") : x = y

(* Every effect a kernel dispatches, from the store or from its own        *)
(* record, is dispatched under a grant the ledger holds, and under the     *)
(* only one as long as the ledger holds one policy decision.               *)
DispatchOnRecord ==
    \A d \in dispatched :
        /\ d[2] \in IdsOf(events[d[1]], "grant")
        /\ DecidedOnce(d[1]) => IdsOf(events[d[1]], "grant") = {d[2]}

(* A kernel's own record may be stale, but it is always a state the ledger *)
(* went through: no lost race, lost acknowledgement or torn read leaves a  *)
(* kernel with authority of its own.                                       *)
CacheOnRecord ==
    \A k \in Kernels, q \in Requests :
        cache[k][q] # None /\ Replayable(q, events[q]) =>
            \E n \in 1..Len(events[q]) : cache[k][q] = Replay(SubSeq(events[q], 1, n))

(* "Duplicate commands return the original receipt when the request digest *)
(* matches": no kernel refuses a request it has on record.                 *)
DuplicateAnswered == \A q \in Requests : <<"duplicate", q>> \notin raised

(* "lifecycle projection diverged from authoritative evidence": a load     *)
(* says so only of a damaged projection.                                   *)
DivergenceIsReal == \A q \in Requests : <<"diverged", q>> \notin raised

===============================================================================
