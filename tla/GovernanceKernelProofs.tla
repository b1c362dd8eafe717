------------------------ MODULE GovernanceKernelProofs ------------------------
(***************************************************************************)
(* Proofs about GovernanceKernel for every set of callers, submissions,    *)
(* approvals and policy rules and every clock.                             *)
(*                                                                         *)
(* What makes the properties inductive: a record and the binding of its    *)
(* idempotency key name each other; a record has its grant exactly from    *)
(* the grant on; a grant is spent before its executor runs; the dispatch   *)
(* that holds the lock works on a granted request whose phase fixes what   *)
(* was spent, applied and left in place; and the ledger holds the policy,  *)
(* approval and grant of every record in that order.                       *)
(***************************************************************************)
EXTENDS GovernanceKernel, Integers, TLAPS, WellFoundedInduction

(* The states of a record with a grant. *)
Granted == {"grant_issued", "effect_succeeded", "effect_indeterminate"}

(* A record is the one of its request, its key is bound to it, and it has  *)
(* a grant exactly from the grant on; before an approval or a grant it is  *)
(* where the policy put it.                                                *)
RecordInv ==
    \A q \in Ids : Known(q) =>
        /\ record[q].sub.id = q
        /\ binding[record[q].sub.key] = record[q].sub
        /\ record[q].grant # None <=> record[q].state \in Granted
        /\ record[q].state \in {"denied", "approval_required", "policy_authorized"} =>
             record[q].state = DecisionState(Evaluate(record[q].sub))

(* A bound key is bound to a recorded submission with that key. *)
BindingInv ==
    \A k \in Keys : binding[k] # None =>
        /\ binding[k].key = k
        /\ Known(binding[k].id)
        /\ record[binding[k].id].sub = binding[k]

(* The executor runs only under a spent grant, which a record keeps, and   *)
(* nothing is in place or unreverted that never ran.                       *)
SpentInv ==
    \A q \in Ids :
        /\ applied[q] \in {0, 1}
        /\ q \notin spent => applied[q] = 0
        /\ q \in spent => Known(q) /\ record[q].grant # None
        /\ applied[q] = 0 => active[q] = FALSE /\ q \notin unreverted
        /\ Known(q) /\ record[q].state \in {"effect_succeeded", "effect_indeterminate"}
             => q \in spent

(* The dispatch that holds the lock. *)
DispatchInv ==
    dispatch # None =>
        /\ Known(dispatch.req)
        /\ record[dispatch.req].state = "grant_issued"
        /\ dispatch.phase = "validated" => dispatch.req \notin spent
        /\ dispatch.phase \in {"intended", "succeeded", "failed"} => dispatch.req \in spent
        /\ dispatch.phase = "intended" => applied[dispatch.req] = 0
        /\ dispatch.phase # "succeeded" /\ dispatch.req \notin unreverted =>
             active[dispatch.req] = FALSE
        /\ dispatch.phase = "succeeded" => active[dispatch.req] = TRUE

(* Evidence of the authority of q at one place of a ledger. *)
PolicyAt(l, i, q, st) == l[i].req = q /\ l[i].kind = "policy" /\ l[i].state = st

ApprovalAt(l, a, q) ==
    /\ l[a].req = q
    /\ l[a].kind = "approval"
    /\ \E j \in 1..(a - 1) : PolicyAt(l, j, q, "approval_required")

GrantAt(l, g, q) ==
    /\ l[g].req = q
    /\ l[g].kind = "grant"
    /\ \/ \E j \in 1..(g - 1) : PolicyAt(l, j, q, "policy_authorized")
       \/ \E a \in 1..(g - 1) : ApprovalAt(l, a, q)

(* Every envelope is a recorded request's, and the authority a record      *)
(* claims is in the ledger.                                                *)
EvidenceInv ==
    /\ \A i \in DOMAIN ledger : Known(ledger[i].req)
    /\ \A q \in Ids : Known(q) =>
         /\ \E i \in DOMAIN ledger :
               PolicyAt(ledger, i, q, DecisionState(Evaluate(record[q].sub)))
         /\ record[q].approval # None => \E a \in DOMAIN ledger : ApprovalAt(ledger, a, q)
         /\ record[q].grant # None => \E g \in DOMAIN ledger : GrantAt(ledger, g, q)

(* Every intent has its grant before it. *)
IntentInv ==
    \A i \in DOMAIN ledger : ledger[i].kind = "intent" =>
        \E g \in 1..(i - 1) : GrantAt(ledger, g, ledger[i].req)

IndInv ==
    /\ TypeOK
    /\ RecordInv
    /\ BindingInv
    /\ SpentInv
    /\ DispatchInv
    /\ EvidenceInv
    /\ IntentInv
    /\ OneDecisionPerKey
    /\ RecordMatchesLedger
    /\ DispatchInWindow
    /\ NoUnrecordedEffect
    /\ ReplayFaithful

-----------------------------------------------------------------------------
(* Operators *)

(* Every nonempty set of naturals has a least element. *)
LEMMA LeastNatural ==
    ASSUME NEW T \in SUBSET Nat, T # {}
    PROVE  \E x \in T : \A y \in T : x <= y
<1> DEFINE R == OpToRel(<, Nat)
<1>1. IsWellFoundedOn(R, Nat)
  BY NatLessThanWellFounded
<1>2. PICK x \in T : \A y \in T : ~(<<y, x>> \in R)
  <2> HIDE DEF R
  <2> QED BY <1>1, WFMin, Zenon
<1>3. \A y \in T : ~(y < x)
  BY <1>2 DEF OpToRel
<1> HIDE DEF R
<1>4. \A y \in T : x <= y
  BY <1>3
<1> QED BY <1>4

(* The first rule that matches decides, and a decision has a state. *)
LEMMA Decided ==
    ASSUME NEW s \in Submissions
    PROVE  /\ Evaluate(s) \in {"authorize", "deny", "require_approval"}
           /\ DecisionState(Evaluate(s)) \in
                 {"denied", "approval_required", "policy_authorized"}
           /\ DecisionState(Evaluate(s)) = "approval_required" <=>
                 Evaluate(s) = "require_approval"
           /\ DecisionState(Evaluate(s)) = "policy_authorized" <=> Evaluate(s) = "authorize"
<1> DEFINE hits == {i \in DOMAIN Rules : Matches(Rules[i], s)}
<1>1. Evaluate(s) \in {"authorize", "deny", "require_approval"}
  <2>1. CASE hits = {}
    BY <2>1 DEF Evaluate
  <2>2. CASE hits # {}
    <3>1. hits \in SUBSET Nat
      BY RuleAssumption
    <3>2. \E i \in hits : \A j \in hits : i <= j
      <4> HIDE DEF hits
      <4> QED BY <2>2, <3>1, LeastNatural
    <3> DEFINE first == CHOOSE i \in hits : \A j \in hits : i <= j
    <3>3. first \in hits
      <4> HIDE DEF hits
      <4> QED BY <3>2
    <3>4. Rules[first].decision \in {"authorize", "deny", "require_approval"}
      <4> HIDE DEF first
      <4> QED BY <3>3, RuleAssumption
    <3> QED BY <2>2, <3>4 DEF Evaluate
  <2> QED BY <2>1, <2>2
<1> QED BY <1>1 DEF DecisionState

(* The expiry of a grant is the least of its limits. *)
LEMMA ExpiryLeast ==
    ASSUME TypeOK, NEW q \in Ids, Known(q)
    PROVE  /\ GrantExpiry(q) \in Nat
           /\ GrantExpiry(q) <= ActorExpires
<1> DEFINE limits == {clock + GrantTTL, ActorExpires}
                       \cup (IF record[q].approval = None THEN {}
                             ELSE {record[q].approval.until})
<1>1. limits \in SUBSET Nat
  <2>1. clock + GrantTTL \in Nat /\ ActorExpires \in Nat
    BY WindowAssumption DEF TypeOK, Time
  <2>2. record[q].approval # None => record[q].approval.until \in Nat
    BY ApprovalAssumption, WindowAssumption DEF TypeOK, Records, Known, Time
  <2> QED BY <2>1, <2>2
<1>2. ActorExpires \in limits
  OBVIOUS
<1> DEFINE least == CHOOSE t \in limits : \A u \in limits : t <= u
<1>3. least \in limits /\ \A u \in limits : least <= u
  <2> HIDE DEF limits
  <2>1. \E t \in limits : \A u \in limits : t <= u
    BY <1>1, <1>2, LeastNatural
  <2> QED BY <2>1
<1>4. least \in Nat /\ least <= ActorExpires
  <2> HIDE DEF least, limits
  <2> QED BY <1>1, <1>2, <1>3
<1> QED BY <1>4 DEF GrantExpiry

(* Appending keeps what is there and adds the new envelope at the end. *)
LEMMA LedgerAppend ==
    ASSUME NEW s \in Seq(Envelopes), NEW e \in Envelopes
    PROVE  /\ Append(s, e) \in Seq(Envelopes)
           /\ DOMAIN s = 1..Len(s)
           /\ Len(s) \in Nat
           /\ DOMAIN Append(s, e) = 1..(Len(s) + 1)
           /\ \A i \in DOMAIN s : Append(s, e)[i] = s[i]
           /\ Append(s, e)[Len(s) + 1] = e
  OBVIOUS

(* What stood in the ledger still stands after an append. *)
LEMMA EvidenceStays ==
    ASSUME NEW s \in Seq(Envelopes), NEW e \in Envelopes, NEW q, NEW i \in DOMAIN s
    PROVE  /\ i \in DOMAIN Append(s, e)
           /\ \A st : PolicyAt(s, i, q, st) => PolicyAt(Append(s, e), i, q, st)
           /\ ApprovalAt(s, i, q) => ApprovalAt(Append(s, e), i, q)
           /\ GrantAt(s, i, q) => GrantAt(Append(s, e), i, q)
<1> DEFINE t == Append(s, e)
<1>1. /\ DOMAIN s = 1..Len(s) /\ Len(s) \in Nat /\ DOMAIN t = 1..(Len(s) + 1)
      /\ \A j \in DOMAIN s : t[j] = s[j]
  BY LedgerAppend
<1> HIDE DEF t
<1>2. \A j \in DOMAIN s : \A st : PolicyAt(s, j, q, st) => PolicyAt(t, j, q, st)
  BY <1>1 DEF PolicyAt
<1>3. \A a \in DOMAIN s : ApprovalAt(s, a, q) => ApprovalAt(t, a, q)
  <2> SUFFICES ASSUME NEW a \in DOMAIN s, ApprovalAt(s, a, q) PROVE ApprovalAt(t, a, q)
    OBVIOUS
  <2>1. PICK j \in 1..(a - 1) : PolicyAt(s, j, q, "approval_required")
    BY DEF ApprovalAt
  <2>2. PolicyAt(t, j, q, "approval_required")
    BY <1>1, <1>2, <2>1
  <2> QED BY <1>1, <2>2 DEF ApprovalAt
<1>4. GrantAt(s, i, q) => GrantAt(t, i, q)
  <2> SUFFICES ASSUME GrantAt(s, i, q) PROVE GrantAt(t, i, q)
    OBVIOUS
  <2>1. \A j \in 1..(i - 1) : j \in DOMAIN s
    BY <1>1
  <2> QED BY <1>1, <1>2, <1>3, <2>1 DEF GrantAt
<1> QED BY <1>1, <1>2, <1>3, <1>4 DEF t

-----------------------------------------------------------------------------
(* What the steps do to a record *)

(* accept_approval sets the state and the approval. *)
LEMMA ApproveFacts ==
    ASSUME TypeOK, NEW q \in Ids, Known(q), NEW a \in Approvals, Approve(q, a)
    PROVE  /\ record' = [record EXCEPT ![q] = record'[q]]
           /\ record'[q] \in Records
           /\ record'[q].sub = record[q].sub
           /\ record'[q].decidedAt = record[q].decidedAt
           /\ record'[q].state = "approved"
           /\ record'[q].approval = a
           /\ record'[q].grant = record[q].grant
<1> DEFINE r == record[q]
<1> DEFINE r1 == [r EXCEPT !.state = "approved"]
<1> DEFINE r2 == [r1 EXCEPT !.approval = a]
<1>1. r \in Records /\ record \in [Ids -> Records \cup {None}]
  BY DEF TypeOK, Known
<1>2. r1 \in Records
  <2> HIDE DEF r
  <2> QED BY <1>1 DEF Records, Lifecycle
<1>3. r2 \in Records
  <2> HIDE DEF r1
  <2> QED BY <1>2 DEF Records
<1>4. record' = [record EXCEPT ![q] = r2]
  BY DEF Approve
<1>5. /\ r2.sub = r.sub /\ r2.decidedAt = r.decidedAt /\ r2.state = "approved"
      /\ r2.approval = a /\ r2.grant = r.grant
  <2> HIDE DEF r
  <2> QED BY <1>1 DEF Records
<1> HIDE DEF r2
<1> QED BY <1>1, <1>3, <1>4, <1>5

(* A grant sets the state and the grant. *)
LEMMA GrantFacts ==
    ASSUME TypeOK, NEW q \in Ids, Known(q), NEW g \in Grants,
           record' = [record EXCEPT ![q].state = "grant_issued", ![q].grant = g]
    PROVE  /\ record' = [record EXCEPT ![q] = record'[q]]
           /\ record'[q] \in Records
           /\ record'[q].sub = record[q].sub
           /\ record'[q].decidedAt = record[q].decidedAt
           /\ record'[q].state = "grant_issued"
           /\ record'[q].approval = record[q].approval
           /\ record'[q].grant = g
<1> DEFINE r == record[q]
<1> DEFINE r1 == [r EXCEPT !.state = "grant_issued"]
<1> DEFINE r2 == [r1 EXCEPT !.grant = g]
<1>1. r \in Records /\ record \in [Ids -> Records \cup {None}]
  BY DEF TypeOK, Known
<1>2. r1 \in Records
  <2> HIDE DEF r
  <2> QED BY <1>1 DEF Records, Lifecycle
<1>3. r2 \in Records
  <2> HIDE DEF r1
  <2> QED BY <1>2 DEF Records
<1>4. record' = [record EXCEPT ![q] = r2]
  OBVIOUS
<1>5. /\ r2.sub = r.sub /\ r2.decidedAt = r.decidedAt /\ r2.state = "grant_issued"
      /\ r2.approval = r.approval /\ r2.grant = g
  <2> HIDE DEF r
  <2> QED BY <1>1 DEF Records
<1> HIDE DEF r2
<1> QED BY <1>1, <1>3, <1>4, <1>5

(* An outcome sets the state. *)
LEMMA OutcomeFacts ==
    ASSUME TypeOK, NEW q \in Ids, Known(q), NEW st \in Lifecycle,
           record' = [record EXCEPT ![q].state = st]
    PROVE  /\ record' = [record EXCEPT ![q] = record'[q]]
           /\ record'[q] \in Records
           /\ record'[q].sub = record[q].sub
           /\ record'[q].decidedAt = record[q].decidedAt
           /\ record'[q].state = st
           /\ record'[q].approval = record[q].approval
           /\ record'[q].grant = record[q].grant
<1> DEFINE r == record[q]
<1> DEFINE r1 == [r EXCEPT !.state = st]
<1>1. r \in Records /\ record \in [Ids -> Records \cup {None}]
  BY DEF TypeOK, Known
<1>2. r1 \in Records
  <2> HIDE DEF r
  <2> QED BY <1>1 DEF Records
<1>3. record' = [record EXCEPT ![q] = r1]
  OBVIOUS
<1>4. /\ r1.sub = r.sub /\ r1.decidedAt = r.decidedAt /\ r1.state = st
      /\ r1.approval = r.approval /\ r1.grant = r.grant
  <2> HIDE DEF r
  <2> QED BY <1>1 DEF Records
<1> HIDE DEF r1
<1> QED BY <1>1, <1>2, <1>3, <1>4

(* The submission that waits and the record it would get. *)
LEMMA DecideFacts ==
    ASSUME TypeOK, NEW c \in Callers, waiting[c] # None
    PROVE  /\ waiting[c].sub \in Submissions
           /\ waiting[c].sub.id \in Ids
           /\ waiting[c].sub.key \in Keys
           /\ \A st \in Lifecycle :
                 [sub |-> waiting[c].sub, state |-> st, decidedAt |-> waiting[c].at,
                  approval |-> None, grant |-> None] \in Records
<1>1. waiting[c] \in Calls
  BY DEF TypeOK
<1>2. waiting[c].sub \in Submissions /\ waiting[c].at \in Time
  BY <1>1 DEF Calls
<1> QED BY <1>2 DEF Ids, Keys, Records

(* What a grant is made of when it is issued. *)
LEMMA IssueFacts ==
    ASSUME TypeOK, NEW q \in Ids, Known(q), IssueGrantLocked(q)
    PROVE  \E g \in Grants :
             /\ record' = [record EXCEPT ![q].state = "grant_issued", ![q].grant = g]
             /\ record[q].state \in {"policy_authorized", "approved"}
             /\ Evaluate(record[q].sub) # "deny"
             /\ Evaluate(record[q].sub) = "require_approval" => record[q].approval # None
             /\ AppendEvidence("grant", q, "grant_issued")
<1> DEFINE e == GrantExpiry(q)
<1>1. e \in Nat /\ e <= ActorExpires
  BY ExpiryLeast
<1>2. [issued |-> clock, expires |-> e] \in Grants
  <2> HIDE DEF e
  <2>1. e \in Time /\ clock \in Time
    BY <1>1, WindowAssumption DEF TypeOK, Time
  <2> QED BY <2>1 DEF Grants
<1> QED BY <1>2 DEF IssueGrantLocked, Authorised

(* An appended envelope is well typed. *)
LEMMA AppendTyped ==
    ASSUME TypeOK, NEW k \in {"policy", "approval", "grant", "intent", "outcome"},
           NEW q \in Ids, NEW st \in Lifecycle \cup {"none"}, AppendEvidence(k, q, st)
    PROVE  /\ Envelope(k, q, st) \in Envelopes
           /\ ledger' = Append(ledger, Envelope(k, q, st))
           /\ ledger' \in Seq(Envelopes)
           /\ Envelope(k, q, st).kind = k
           /\ Envelope(k, q, st).req = q
           /\ Envelope(k, q, st).state = st
  BY DEF TypeOK, AppendEvidence, Envelope, Envelopes

-----------------------------------------------------------------------------
(* Type correctness *)

(* A dispatch in some phase is a dispatch of a granted request. *)
LEMMA PhaseFacts ==
    ASSUME TypeOK, DispatchInv, NEW q \in Ids, NEW ph, Phase(q, ph)
    PROVE  /\ dispatch \in Dispatches
           /\ dispatch.req = q
           /\ dispatch.phase = ph
           /\ Known(q)
           /\ record[q].state = "grant_issued"
  BY DEF TypeOK, DispatchInv, Phase

(* A dispatch goes on with another phase. *)
LEMMA GoOnFacts ==
    ASSUME dispatch \in Dispatches, NEW t \in Time,
           NEW ph \in {"granted", "validated", "intended", "succeeded", "failed"}
    PROVE  LET d == [dispatch EXCEPT !.phase = ph] IN
             /\ d \in Dispatches /\ d.req = dispatch.req /\ d.at = dispatch.at
             /\ d.phase = ph
             /\ [d EXCEPT !.at = t] \in Dispatches
             /\ [d EXCEPT !.at = t].req = dispatch.req
             /\ [d EXCEPT !.at = t].phase = ph
             /\ [d EXCEPT !.at = t].at = t
<1> DEFINE d == [dispatch EXCEPT !.phase = ph]
<1>1. d \in Dispatches /\ d.req = dispatch.req /\ d.at = dispatch.at /\ d.phase = ph
  BY DEF Dispatches
<1>2. /\ [d EXCEPT !.at = t] \in Dispatches /\ [d EXCEPT !.at = t].req = d.req
      /\ [d EXCEPT !.at = t].phase = d.phase /\ [d EXCEPT !.at = t].at = t
  <2> HIDE DEF d
  <2> QED BY <1>1 DEF Dispatches
<1> QED BY <1>1, <1>2

(* GoOn changes the phase alone. *)
LEMMA GoOnStep ==
    ASSUME TypeOK, dispatch \in Dispatches,
           NEW ph \in {"granted", "validated", "intended", "succeeded", "failed"}, GoOn(ph)
    PROVE  /\ dispatch' \in Dispatches
           /\ dispatch'.req = dispatch.req
           /\ dispatch'.at = dispatch.at
           /\ dispatch'.phase = ph
  BY DEF GoOn, Dispatches

(* Every step of every caller keeps the types. *)
LEMMA TypeStep == IndInv /\ [Next]_vars => TypeOK'
<1> SUFFICES ASSUME IndInv, [Next]_vars PROVE TypeOK'
  OBVIOUS
<1>t. TypeOK /\ DispatchInv /\ BindingInv
  BY DEF IndInv
<1>1. ASSUME NEW c \in Callers, NEW s \in Submissions, SubmitCheck(c, s) PROVE TypeOK'
  <2>1. [sub |-> s, at |-> clock] \in Calls
    BY <1>t DEF TypeOK, Calls
  <2> QED BY <1>t, <1>1, <2>1 DEF SubmitCheck, TypeOK, world
<1>2. ASSUME NEW c \in Callers, SubmitDecide(c) PROVE TypeOK'
  <2> DEFINE s == waiting[c].sub
  <2> DEFINE st == DecisionState(Evaluate(s))
  <2>1. s \in Submissions /\ s.id \in Ids /\ s.key \in Keys /\ st \in Lifecycle
    BY <1>t, <1>2, DecideFacts, Decided DEF SubmitDecide, Lifecycle
  <2> DEFINE r == [sub |-> s, state |-> st, decidedAt |-> waiting[c].at,
                   approval |-> None, grant |-> None]
  <2>2. r \in Records
    BY <1>t, <1>2, <2>1, DecideFacts DEF SubmitDecide
  <2>3. /\ record' = [record EXCEPT ![s.id] = r]
        /\ binding' = [binding EXCEPT ![s.key] = s]
        /\ answered' = answered \cup {<<s, s>>}
        /\ waiting' = [waiting EXCEPT ![c] = None]
        /\ AppendEvidence("policy", s.id, st)
        /\ UNCHANGED <<clock, spent, dispatch, world>>
    BY <1>2 DEF SubmitDecide, Answer
  <2>4. ledger' \in Seq(Envelopes)
    BY <1>t, <2>1, <2>3, AppendTyped
  <2> HIDE DEF s, st, r
  <2> QED BY <1>t, <2>1, <2>2, <2>3, <2>4 DEF TypeOK, world
<1>3. ASSUME NEW c \in Callers, SubmitReplay(c) PROVE TypeOK'
  <2> DEFINE s == waiting[c].sub
  <2>1. s \in Submissions /\ s.key \in Keys
    BY <1>t, <1>3, DecideFacts DEF SubmitReplay
  <2>2. /\ binding[s.key] = s /\ answered' = answered \cup {<<s, record[s.id].sub>>}
        /\ waiting' = [waiting EXCEPT ![c] = None]
        /\ UNCHANGED <<clock, binding, record, ledger, spent, dispatch, world>>
    BY <1>3 DEF SubmitReplay, Replay, Answer
  <2> HIDE DEF s
  <2>3. record[s.id].sub = s
    BY <1>t, <2>1, <2>2, KernelNoneAssumption DEF BindingInv
  <2> QED BY <1>t, <2>1, <2>2, <2>3 DEF TypeOK, world
<1>4. ASSUME NEW c \in Callers, SubmitRejected(c) PROVE TypeOK'
  BY <1>t, <1>4 DEF SubmitRejected, TypeOK, world
<1>5. ASSUME NEW a \in Approvals, AcceptApproval(a) PROVE TypeOK'
  <2>1. a.req \in Ids /\ Known(a.req) /\ Approve(a.req, a)
        /\ AppendEvidence("approval", a.req, "approved")
        /\ UNCHANGED <<clock, waiting, binding, spent, dispatch, world, answered>>
    BY <1>5, ApprovalAssumption DEF AcceptApproval, ApprovalValid
  <2>2. ledger' \in Seq(Envelopes)
    BY <1>t, <2>1, AppendTyped DEF Lifecycle
  <2>3. record' = [record EXCEPT ![a.req] = record'[a.req]] /\ record'[a.req] \in Records
    BY <1>t, <2>1, ApproveFacts
  <2>4. record' \in [Ids -> Records \cup {None}]
    BY <1>t, <2>1, <2>3 DEF TypeOK
  <2> QED BY <1>t, <2>1, <2>2, <2>4 DEF TypeOK, world
<1>g. ASSUME NEW q \in Ids, Known(q), IssueGrantLocked(q)
      PROVE  ledger' \in Seq(Envelopes) /\ record' \in [Ids -> Records \cup {None}]
  <2>1. PICK g \in Grants :
          /\ record' = [record EXCEPT ![q].state = "grant_issued", ![q].grant = g]
          /\ AppendEvidence("grant", q, "grant_issued")
    BY <1>t, <1>g, IssueFacts
  <2>2. ledger' \in Seq(Envelopes)
    BY <1>t, <2>1, AppendTyped DEF Lifecycle
  <2>3. record' = [record EXCEPT ![q] = record'[q]] /\ record'[q] \in Records
    BY <1>t, <1>g, <2>1, GrantFacts
  <2>4. record' \in [Ids -> Records \cup {None}]
    BY <1>t, <2>3 DEF TypeOK
  <2> QED BY <2>2, <2>4
<1>6. ASSUME NEW q \in Ids, IssueGrant(q) PROVE TypeOK'
  <2>1. /\ Known(q) /\ IssueGrantLocked(q)
        /\ UNCHANGED <<clock, waiting, binding, spent, dispatch, world, answered>>
    BY <1>6 DEF IssueGrant
  <2>2. ledger' \in Seq(Envelopes) /\ record' \in [Ids -> Records \cup {None}]
    BY <1>g, <2>1
  <2> QED BY <1>t, <2>1, <2>2 DEF TypeOK, world
<1>7. ASSUME NEW q \in Ids, ExecuteBegin(q) PROVE TypeOK'
  <2>1. /\ Known(q) /\ (IssueGrantLocked(q) \/ UNCHANGED <<record, ledger>>)
        /\ dispatch' = [req |-> q, phase |-> "granted", at |-> clock]
        /\ UNCHANGED <<clock, waiting, binding, spent, world, answered>>
    BY <1>7 DEF ExecuteBegin
  <2>2. ledger' \in Seq(Envelopes) /\ record' \in [Ids -> Records \cup {None}]
    BY <1>t, <1>g, <2>1 DEF TypeOK
  <2>3. dispatch' \in Dispatches
    BY <1>t, <2>1 DEF TypeOK, Dispatches
  <2> QED BY <1>t, <2>1, <2>2, <2>3 DEF TypeOK, world
<1>8. ASSUME NEW q \in Ids, DispatchValidate(q) PROVE TypeOK'
  <2>1. dispatch \in Dispatches /\ clock \in Time
    BY <1>t, <1>8, PhaseFacts DEF DispatchValidate, TypeOK
  <2>2. [[dispatch EXCEPT !.phase = "validated"] EXCEPT !.at = clock] \in Dispatches
    BY <2>1, GoOnFacts
  <2>3. dispatch' \in Dispatches \cup {None}
    BY <1>8, <2>2 DEF DispatchValidate, Release
  <2> QED BY <1>t, <1>8, <2>3 DEF DispatchValidate, TypeOK, world
<1>9. ASSUME NEW q \in Ids, DispatchIntent(q) PROVE TypeOK'
  <2>1. dispatch \in Dispatches /\ clock \in Time
    BY <1>t, <1>9, PhaseFacts DEF DispatchIntent, TypeOK
  <2>2. dispatch' \in Dispatches \cup {None}
    <3>1. GoOn("intended") \/ dispatch' = None
      BY <1>9 DEF DispatchIntent, Release
    <3> QED BY <1>t, <2>1, <3>1, GoOnStep
  <2>3. ledger' \in Seq(Envelopes) /\ spent' \in SUBSET Ids
    BY <1>t, <1>9, AppendTyped DEF DispatchIntent, TypeOK
  <2> QED BY <1>t, <1>9, <2>2, <2>3 DEF DispatchIntent, TypeOK, world
<1>10. ASSUME NEW q \in Ids, ExecutorSucceeds(q) PROVE TypeOK'
  <2>1. dispatch \in Dispatches /\ clock \in Time
    BY <1>t, <1>10, PhaseFacts DEF ExecutorSucceeds, TypeOK
  <2>2. dispatch' \in Dispatches \cup {None}
    BY <1>t, <1>10, <2>1, GoOnStep DEF ExecutorSucceeds
  <2> QED BY <1>t, <1>10, <2>2 DEF ExecutorSucceeds, TypeOK
<1>11. ASSUME NEW q \in Ids, ExecutorFails(q) PROVE TypeOK'
  <2>1. dispatch \in Dispatches /\ clock \in Time
    BY <1>t, <1>11, PhaseFacts DEF ExecutorFails, TypeOK
  <2>2. dispatch' \in Dispatches \cup {None}
    <3>1. GoOn("failed") \/ dispatch' = None
      BY <1>11 DEF ExecutorFails, Release
    <3> QED BY <1>t, <2>1, <3>1, GoOnStep
  <2>3. active' \in [Ids -> BOOLEAN] /\ unreverted' \in SUBSET Ids
    BY <1>t, <1>11 DEF ExecutorFails, TypeOK
  <2>4. /\ applied' = [applied EXCEPT ![q] = @ + 1]
        /\ UNCHANGED <<clock, waiting, binding, record, ledger, spent, answered>>
    BY <1>11 DEF ExecutorFails
  <2> QED BY <1>t, <2>2, <2>3, <2>4 DEF TypeOK
<1>12. ASSUME NEW q \in Ids, DispatchRecords(q) PROVE TypeOK'
  <2>1. Known(q) /\ OutcomeState \in Lifecycle
    BY <1>t, <1>12, PhaseFacts DEF DispatchRecords, OutcomeState, Lifecycle
  <2>2. record' = [record EXCEPT ![q] = record'[q]] /\ record'[q] \in Records
    BY <1>t, <1>12, <2>1, OutcomeFacts DEF DispatchRecords
  <2>3. record' \in [Ids -> Records \cup {None}]
    BY <1>t, <2>2 DEF TypeOK
  <2>4. ledger' \in Seq(Envelopes)
    BY <1>t, <1>12, <2>1, AppendTyped DEF DispatchRecords
  <2> QED BY <1>t, <1>12, <2>3, <2>4 DEF DispatchRecords, Release, TypeOK, world
<1>13. ASSUME NEW q \in Ids, DispatchUnrecorded(q) PROVE TypeOK'
  <2>1. active' \in [Ids -> BOOLEAN] /\ unreverted' \in SUBSET Ids
    BY <1>t, <1>13 DEF DispatchUnrecorded, RevertUnrecorded, RevertOrRaise, TypeOK
  <2> QED BY <1>t, <1>13, <2>1 DEF DispatchUnrecorded, Release, TypeOK
<1>14. CASE Tick
  BY <1>t, <1>14, WindowAssumption DEF Tick, TypeOK, Time, world
<1>15. CASE StepBack
  BY <1>t, <1>15, WindowAssumption DEF StepBack, TypeOK, Time, world
<1>16. CASE UNCHANGED vars
  BY <1>t, <1>16 DEF vars, TypeOK
<1> QED BY <1>1, <1>2, <1>3, <1>4, <1>5, <1>6, <1>7, <1>8, <1>9, <1>10, <1>11,
       <1>12, <1>13, <1>14, <1>15, <1>16 DEF Next

-----------------------------------------------------------------------------
(* Frames *)

(* A step that leaves records, bindings, ledger and answers alone. *)
LEMMA RecordsFrame ==
    ASSUME IndInv, UNCHANGED <<record, ledger, binding, answered>>
    PROVE  /\ RecordInv' /\ BindingInv' /\ EvidenceInv' /\ IntentInv'
           /\ OneDecisionPerKey' /\ RecordMatchesLedger' /\ ReplayFaithful'
<1>1. RecordInv'
  BY DEF IndInv, RecordInv, Known
<1>2. BindingInv'
  BY DEF IndInv, BindingInv, Known
<1>3. EvidenceInv'
  BY DEF IndInv, EvidenceInv, Known
<1>4. IntentInv'
  BY DEF IndInv, IntentInv
<1>5. OneDecisionPerKey' /\ ReplayFaithful'
  BY DEF IndInv, OneDecisionPerKey, ReplayFaithful
<1>6. RecordMatchesLedger'
  BY DEF IndInv, RecordMatchesLedger, Known
<1> QED BY <1>1, <1>2, <1>3, <1>4, <1>5, <1>6

(* A step that leaves records, dispatch, consumption and effects alone. *)
LEMMA EffectsFrame ==
    ASSUME IndInv, UNCHANGED <<record, spent, dispatch, world>>
    PROVE  SpentInv' /\ DispatchInv' /\ DispatchInWindow' /\ NoUnrecordedEffect'
<1>1. SpentInv'
  BY DEF IndInv, SpentInv, Known, world
<1>2. DispatchInv'
  BY DEF IndInv, DispatchInv, Known, world
<1>3. DispatchInWindow'
  BY DEF IndInv, DispatchInWindow
<1>4. NoUnrecordedEffect'
  BY DEF IndInv, NoUnrecordedEffect, Known, world
<1> QED BY <1>1, <1>2, <1>3, <1>4

(* One record advances, with one envelope that names its new state. *)
Advance(q, k, st) ==
    /\ k \in {"approval", "grant", "outcome"}
    /\ st \in Lifecycle
    /\ Known(q)
    /\ record' = [record EXCEPT ![q] = record'[q]]
    /\ record'[q] \in Records
    /\ record'[q].sub = record[q].sub
    /\ record'[q].state = st
    /\ AppendEvidence(k, q, st)
    /\ UNCHANGED <<binding, answered>>

(* The other records stay and all that were known stay known. *)
LEMMA AdvanceKnown ==
    ASSUME TypeOK, NEW q \in Ids, NEW k, NEW st, Advance(q, k, st)
    PROVE  /\ \A p \in Ids : p # q => record'[p] = record[p]
           /\ \A p \in Ids : (record'[p] # None) <=> Known(p)
           /\ \A p \in Ids : Known(p) => record'[p].sub = record[p].sub
<1>1. \A p \in Ids : p # q => record'[p] = record[p]
  BY DEF Advance, TypeOK
<1>2. record'[q] # None
  BY KernelNoneAssumption DEF Advance
<1> QED BY <1>1, <1>2 DEF Advance, Known

(* The envelope of an advance. *)
LEMMA AdvanceAppends ==
    ASSUME TypeOK, NEW q \in Ids, NEW k, NEW st, Advance(q, k, st)
    PROVE  \E e \in Envelopes :
             /\ ledger' = Append(ledger, e)
             /\ e.kind = k /\ e.req = q /\ e.state = st
             /\ ledger' \in Seq(Envelopes)
             /\ DOMAIN ledger = 1..Len(ledger) /\ Len(ledger) \in Nat
             /\ DOMAIN ledger' = 1..(Len(ledger) + 1)
             /\ \A i \in DOMAIN ledger : ledger'[i] = ledger[i]
             /\ ledger'[Len(ledger) + 1] = e
<1> DEFINE e == Envelope(k, q, st)
<1>1. /\ e \in Envelopes /\ ledger' = Append(ledger, e) /\ ledger' \in Seq(Envelopes)
      /\ e.kind = k /\ e.req = q /\ e.state = st
  BY AppendTyped DEF Advance
<1> HIDE DEF e
<1>2. ledger \in Seq(Envelopes)
  BY DEF TypeOK
<1> QED BY <1>1, <1>2, LedgerAppend

(* An advance keeps records, ledger and bindings together. *)
LEMMA AdvanceKeeps ==
    ASSUME IndInv, NEW q \in Ids, NEW k, NEW st, Advance(q, k, st)
    PROVE  /\ BindingInv' /\ IntentInv' /\ OneDecisionPerKey'
           /\ RecordMatchesLedger' /\ ReplayFaithful'
           /\ \A i \in DOMAIN ledger' : record'[ledger'[i].req] # None
           /\ \A p \in Ids : record'[p] # None =>
                 \E i \in DOMAIN ledger' :
                    PolicyAt(ledger', i, p, DecisionState(Evaluate(record'[p].sub)))
<1>t. TypeOK /\ ledger \in Seq(Envelopes)
  BY DEF IndInv, TypeOK
<1>1. /\ \A p \in Ids : p # q => record'[p] = record[p]
      /\ \A p \in Ids : (record'[p] # None) <=> Known(p)
      /\ \A p \in Ids : Known(p) => record'[p].sub = record[p].sub
  BY <1>t, AdvanceKnown
<1>2. PICK e \in Envelopes :
        /\ ledger' = Append(ledger, e)
        /\ e.kind = k /\ e.req = q /\ e.state = st
        /\ DOMAIN ledger = 1..Len(ledger) /\ Len(ledger) \in Nat
        /\ DOMAIN ledger' = 1..(Len(ledger) + 1)
        /\ \A i \in DOMAIN ledger : ledger'[i] = ledger[i]
        /\ ledger'[Len(ledger) + 1] = e
  BY <1>t, AdvanceAppends
<1>3. Known(q) /\ record'[q].state = st /\ k \in {"approval", "grant", "outcome"}
      /\ binding' = binding /\ answered' = answered
  BY DEF Advance
<1>4. \A i \in DOMAIN ledger : ledger[i].req \in Ids
  <2>1. \A i \in DOMAIN ledger : ledger[i] \in Envelopes
    BY <1>t
  <2> QED BY <2>1 DEF Envelopes
<1>5. BindingInv'
  <2> SUFFICES ASSUME NEW x \in Keys, binding[x] # None
               PROVE  /\ binding[x].key = x /\ record'[binding[x].id] # None
                      /\ record'[binding[x].id].sub = binding[x]
    BY <1>3 DEF BindingInv, Known
  <2>1. /\ binding[x].key = x /\ Known(binding[x].id)
        /\ record[binding[x].id].sub = binding[x] /\ binding[x] \in Submissions
    BY DEF IndInv, BindingInv, TypeOK
  <2>2. binding[x].id \in Ids
    BY <2>1 DEF Ids
  <2> QED BY <1>1, <2>1, <2>2
<1>6. \A i \in DOMAIN ledger' : record'[ledger'[i].req] # None
  <2> SUFFICES ASSUME NEW i \in DOMAIN ledger' PROVE record'[ledger'[i].req] # None
    OBVIOUS
  <2>1. CASE i = Len(ledger) + 1
    BY <1>1, <1>2, <1>3, <2>1
  <2>2. CASE i \in DOMAIN ledger
    <3>1. ledger'[i] = ledger[i] /\ Known(ledger[i].req) /\ ledger[i].req \in Ids
      BY <1>2, <1>4, <2>2 DEF IndInv, EvidenceInv
    <3> QED BY <1>1, <3>1
  <2> QED BY <1>2, <2>1, <2>2
<1>7. IntentInv'
  <2> SUFFICES ASSUME NEW i \in DOMAIN ledger', ledger'[i].kind = "intent"
               PROVE  \E g \in 1..(i - 1) : GrantAt(ledger', g, ledger'[i].req)
    BY DEF IntentInv
  <2>1. i \in DOMAIN ledger /\ ledger'[i] = ledger[i]
    BY <1>2, <1>3
  <2>2. PICK g \in 1..(i - 1) : GrantAt(ledger, g, ledger[i].req)
    BY <2>1 DEF IndInv, IntentInv
  <2>3. g \in DOMAIN ledger
    BY <1>2, <2>1
  <2> QED BY <1>t, <1>2, <2>1, <2>2, <2>3, EvidenceStays
<1>8. OneDecisionPerKey'
  <2> SUFFICES ASSUME NEW i \in DOMAIN ledger', NEW j \in DOMAIN ledger',
                      ledger'[i].kind = "policy", ledger'[j].kind = "policy",
                      record'[ledger'[i].req].sub.key = record'[ledger'[j].req].sub.key
               PROVE  i = j
    BY DEF OneDecisionPerKey
  <2>1. /\ i \in DOMAIN ledger /\ j \in DOMAIN ledger
        /\ ledger'[i] = ledger[i] /\ ledger'[j] = ledger[j]
    BY <1>2, <1>3
  <2>2. /\ Known(ledger[i].req) /\ ledger[i].req \in Ids
        /\ Known(ledger[j].req) /\ ledger[j].req \in Ids
    BY <1>4, <2>1 DEF IndInv, EvidenceInv
  <2>3. /\ record'[ledger[i].req].sub = record[ledger[i].req].sub
        /\ record'[ledger[j].req].sub = record[ledger[j].req].sub
    BY <1>1, <2>2
  <2> QED BY <2>1, <2>3 DEF IndInv, OneDecisionPerKey
<1>9. RecordMatchesLedger'
  <2> SUFFICES ASSUME NEW p \in Ids
               PROVE  LET mine == {i \in DOMAIN ledger' : ledger'[i].req = p
                                                         /\ ledger'[i].kind # "intent"} IN
                      /\ (record'[p] # None) <=> mine # {}
                      /\ \A i \in mine : (\A j \in mine : j <= i) =>
                            ledger'[i].state = record'[p].state
    BY DEF RecordMatchesLedger, Known
  <2> DEFINE old == {i \in DOMAIN ledger : ledger[i].req = p /\ ledger[i].kind # "intent"}
  <2> DEFINE mine == {i \in DOMAIN ledger' : ledger'[i].req = p /\ ledger'[i].kind # "intent"}
  <2>1. /\ Known(p) <=> old # {}
        /\ \A i \in old : (\A j \in old : j <= i) => ledger[i].state = record[p].state
    BY DEF IndInv, RecordMatchesLedger
  <2>2. CASE p = q
    <3>1. Len(ledger) + 1 \in mine /\ \A i \in mine : i <= Len(ledger) + 1
      BY <1>2, <1>3, <2>2
    <3>2. record'[p] # None /\ ledger'[Len(ledger) + 1].state = record'[p].state
      BY <1>1, <1>2, <1>3, <2>2
    <3>3. ASSUME NEW i \in mine, \A j \in mine : j <= i PROVE i = Len(ledger) + 1
      <4>1. i \in Int /\ Len(ledger) \in Nat
        BY <1>2
      <4>2. Len(ledger) + 1 <= i /\ i <= Len(ledger) + 1
        BY <3>1, <3>3
      <4> QED BY <4>1, <4>2
    <3> HIDE DEF mine
    <3>4. mine # {} /\ \A i \in mine : (\A j \in mine : j <= i) =>
                            ledger'[i].state = record'[p].state
      BY <3>1, <3>2, <3>3
    <3> QED BY <3>2, <3>4 DEF mine
  <2>3. CASE p # q
    <3>1. mine = old /\ \A i \in old : ledger'[i] = ledger[i]
      BY <1>2, <2>3
    <3>2. record'[p] = record[p] /\ ((record'[p] # None) <=> Known(p))
      BY <1>1, <2>3
    <3> HIDE DEF mine, old
    <3>3. /\ (record'[p] # None) <=> mine # {}
          /\ \A i \in mine : (\A j \in mine : j <= i) => ledger'[i].state = record'[p].state
      BY <2>1, <3>1, <3>2
    <3> QED BY <3>3 DEF mine
  <2> QED BY <2>2, <2>3
<1>10. \A p \in Ids : record'[p] # None =>
          \E i \in DOMAIN ledger' :
             PolicyAt(ledger', i, p, DecisionState(Evaluate(record'[p].sub)))
  <2> SUFFICES ASSUME NEW p \in Ids, Known(p)
               PROVE  \E i \in DOMAIN ledger' :
                         PolicyAt(ledger', i, p, DecisionState(Evaluate(record[p].sub)))
    BY <1>1
  <2>1. PICK i \in DOMAIN ledger :
               PolicyAt(ledger, i, p, DecisionState(Evaluate(record[p].sub)))
    BY DEF IndInv, EvidenceInv
  <2> QED BY <1>t, <1>2, <2>1, EvidenceStays
<1>11. ReplayFaithful'
  BY <1>3 DEF IndInv, ReplayFaithful
<1> QED BY <1>5, <1>6, <1>7, <1>8, <1>9, <1>10, <1>11

(* An advance of a record without a grant touches no effect. *)
LEMMA AdvanceQuiet ==
    ASSUME IndInv, NEW q \in Ids, NEW k, NEW st, Advance(q, k, st),
           dispatch = None, record[q].grant = None,
           st \notin {"effect_succeeded", "effect_indeterminate"},
           UNCHANGED <<spent, world>>
    PROVE  /\ SpentInv'
           /\ \A p \in Ids : p \notin unreverted' =>
                 (active'[p] <=> record'[p] # None /\ record'[p].state = "effect_succeeded")
<1>1. /\ \A p \in Ids : p # q => record'[p] = record[p]
      /\ \A p \in Ids : (record'[p] # None) <=> Known(p)
  BY AdvanceKnown DEF IndInv
<1>2. Known(q) /\ record'[q].state = st /\ record[q].state \notin Granted
  BY DEF Advance, IndInv, RecordInv
<1>3. q \notin spent
  BY DEF IndInv, SpentInv
<1>4. UNCHANGED <<spent, applied, active, unreverted>>
  BY DEF world
<1>5. SpentInv'
  BY <1>1, <1>2, <1>3, <1>4 DEF IndInv, SpentInv, Known
<1>6. ASSUME NEW p \in Ids, p \notin unreverted
      PROVE  active[p] <=> record'[p] # None /\ record'[p].state = "effect_succeeded"
  <2>1. active[p] <=> Known(p) /\ record[p].state = "effect_succeeded"
    BY <1>6 DEF IndInv, NoUnrecordedEffect
  <2> QED BY <1>1, <1>2, <2>1 DEF Granted, Known
<1> QED BY <1>4, <1>5, <1>6

-----------------------------------------------------------------------------
(* One lemma for each step that changes a record *)

(* A submission that is decided gets the first record of its request and   *)
(* binds a free key.                                                       *)
LEMMA DecideKeeps ==
    ASSUME IndInv, TypeOK', NEW c \in Callers, SubmitDecide(c)
    PROVE  IndInv'
<1> DEFINE s == waiting[c].sub
<1> DEFINE st == DecisionState(Evaluate(s))
<1> DEFINE e == Envelope("policy", s.id, st)
<1>t. TypeOK /\ ledger \in Seq(Envelopes)
  BY DEF IndInv, TypeOK
<1>1. /\ s \in Submissions /\ s.id \in Ids /\ s.key \in Keys
      /\ st \in {"denied", "approval_required", "policy_authorized"}
  BY <1>t, DecideFacts, Decided DEF SubmitDecide
<1>2. /\ record' = [record EXCEPT ![s.id] =
                        [sub |-> s, state |-> st, decidedAt |-> waiting[c].at,
                         approval |-> None, grant |-> None]]
      /\ binding' = [binding EXCEPT ![s.key] = s]
      /\ answered' = answered \cup {<<s, s>>}
      /\ dispatch = None /\ binding[s.key] = None /\ record[s.id] = None
      /\ UNCHANGED <<spent, dispatch, applied, active, unreverted>>
      /\ AppendEvidence("policy", s.id, st)
  BY DEF SubmitDecide, Answer, NewBinding, LockFree, world, Known
<1>3. /\ e \in Envelopes /\ ledger' = Append(ledger, e)
      /\ e.kind = "policy" /\ e.req = s.id /\ e.state = st
  BY <1>t, <1>1, <1>2, AppendTyped DEF Lifecycle
<1>4. /\ record'[s.id] # None /\ record'[s.id].sub = s /\ record'[s.id].state = st
      /\ record'[s.id].approval = None /\ record'[s.id].grant = None
  <2> DEFINE r == [sub |-> s, state |-> st, decidedAt |-> waiting[c].at,
                   approval |-> None, grant |-> None]
  <2>1. r \in Records
    BY <1>t, <1>1, DecideFacts DEF SubmitDecide, Lifecycle
  <2>2. r # None
    BY <2>1, KernelNoneAssumption
  <2>3. record'[s.id] = r
    BY <1>1, <1>2, <1>t DEF TypeOK
  <2> QED BY <2>2, <2>3
<1>5. \A p \in Ids : p # s.id => record'[p] = record[p]
  BY <1>2, <1>t DEF TypeOK
<1>6. binding'[s.key] = s /\ \A x \in Keys : x # s.key => binding'[x] = binding[x]
  BY <1>1, <1>2, <1>t DEF TypeOK
<1> HIDE DEF s, st, e
<1>7. /\ DOMAIN ledger = 1..Len(ledger) /\ Len(ledger) \in Nat
      /\ DOMAIN ledger' = 1..(Len(ledger) + 1)
      /\ \A i \in DOMAIN ledger : ledger'[i] = ledger[i]
      /\ ledger'[Len(ledger) + 1] = e
  BY <1>t, <1>3, LedgerAppend
<1>8. \A i \in DOMAIN ledger : ledger[i].req \in Ids /\ ledger[i].req # s.id
                               /\ Known(ledger[i].req)
  <2>1. \A i \in DOMAIN ledger : ledger[i] \in Envelopes
    BY <1>t
  <2> QED BY <1>2, <2>1 DEF Envelopes, IndInv, EvidenceInv, Known
<1>9. \A p \in Ids : Known(p) =>
          /\ p # s.id /\ record'[p] = record[p]
          /\ record[p].sub \in Submissions
          /\ record[p].sub.key # s.key
          /\ record[p].sub.key \in Keys
  <2> SUFFICES ASSUME NEW p \in Ids, Known(p)
               PROVE  /\ p # s.id /\ record'[p] = record[p]
                      /\ record[p].sub \in Submissions
                      /\ record[p].sub.key # s.key
                      /\ record[p].sub.key \in Keys
    OBVIOUS
  <2>1. p # s.id /\ record'[p] = record[p]
    BY <1>2, <1>5 DEF Known
  <2>2. record[p].sub \in Submissions
    BY <1>t DEF TypeOK, Records, Known
  <2>3. binding[record[p].sub.key] = record[p].sub
    BY DEF IndInv, RecordInv
  <2>4. record[p].sub # None
    BY <2>2, KernelNoneAssumption
  <2> QED BY <1>2, <2>1, <2>2, <2>3, <2>4 DEF Keys
<1>10. RecordInv'
  <2> SUFFICES ASSUME NEW p \in Ids, record'[p] # None
               PROVE  /\ record'[p].sub.id = p
                      /\ binding'[record'[p].sub.key] = record'[p].sub
                      /\ record'[p].grant # None <=> record'[p].state \in Granted
                      /\ record'[p].state \in
                            {"denied", "approval_required", "policy_authorized"} =>
                          record'[p].state = DecisionState(Evaluate(record'[p].sub))
    BY DEF RecordInv, Known
  <2>1. CASE p = s.id
    BY <1>1, <1>4, <1>6, <2>1 DEF Granted, st
  <2>2. CASE p # s.id
    <3>1. Known(p)
      BY <1>5, <2>2 DEF Known
    <3>2. /\ record'[p] = record[p] /\ record[p].sub.key # s.key
          /\ record[p].sub.key \in Keys
      BY <1>9, <3>1
    <3>3. binding'[record[p].sub.key] = binding[record[p].sub.key]
      BY <1>6, <3>2
    <3> QED BY <3>1, <3>2, <3>3 DEF IndInv, RecordInv
  <2> QED BY <2>1, <2>2
<1>11. BindingInv'
  <2> SUFFICES ASSUME NEW x \in Keys, binding'[x] # None
               PROVE  /\ binding'[x].key = x /\ record'[binding'[x].id] # None
                      /\ record'[binding'[x].id].sub = binding'[x]
    BY DEF BindingInv, Known
  <2>1. CASE x = s.key
    BY <1>4, <1>6, <2>1
  <2>2. CASE x # s.key
    <3>1. /\ binding'[x] = binding[x] /\ binding[x] # None
      BY <1>6, <2>2
    <3>2. /\ binding[x].key = x /\ Known(binding[x].id)
          /\ record[binding[x].id].sub = binding[x] /\ binding[x] \in Submissions
      BY <1>t, <3>1 DEF IndInv, BindingInv, TypeOK
    <3>3. binding[x].id \in Ids
      BY <3>2 DEF Ids
    <3> QED BY <1>9, <3>1, <3>2, <3>3 DEF Known
  <2> QED BY <2>1, <2>2
<1>12. SpentInv'
  <2>1. s.id \notin spent
    BY <1>1, <1>2 DEF IndInv, SpentInv, Known
  <2> QED BY <1>1, <1>2, <1>4, <1>5, <2>1 DEF IndInv, SpentInv, Known
<1>13. DispatchInv' /\ DispatchInWindow'
  BY <1>2 DEF DispatchInv, DispatchInWindow
<1>14. NoUnrecordedEffect'
  <2> SUFFICES ASSUME NEW p \in Ids, p \notin unreverted
               PROVE  active[p] <=> record'[p] # None /\ record'[p].state = "effect_succeeded"
    BY <1>2 DEF NoUnrecordedEffect, Known
  <2>1. active[p] <=> Known(p) /\ record[p].state = "effect_succeeded"
    BY <1>2 DEF IndInv, NoUnrecordedEffect
  <2>2. CASE p = s.id
    BY <1>1, <1>2, <1>4, <2>1, <2>2 DEF Known
  <2>3. CASE p # s.id
    BY <1>5, <2>1, <2>3 DEF Known
  <2> QED BY <2>2, <2>3
<1>15. EvidenceInv'
  <2>1. \A i \in DOMAIN ledger' : record'[ledger'[i].req] # None
    <3> SUFFICES ASSUME NEW i \in DOMAIN ledger' PROVE record'[ledger'[i].req] # None
      OBVIOUS
    <3>1. CASE i = Len(ledger) + 1
      BY <1>3, <1>4, <1>7, <3>1
    <3>2. CASE i \in DOMAIN ledger
      BY <1>7, <1>8, <1>9, <3>2 DEF Known
    <3> QED BY <1>7, <3>1, <3>2
  <2>2. ASSUME NEW p \in Ids, record'[p] # None
        PROVE  /\ \E i \in DOMAIN ledger' :
                      PolicyAt(ledger', i, p, DecisionState(Evaluate(record'[p].sub)))
               /\ record'[p].approval # None =>
                    \E a \in DOMAIN ledger' : ApprovalAt(ledger', a, p)
               /\ record'[p].grant # None => \E g \in DOMAIN ledger' : GrantAt(ledger', g, p)
    <3>1. CASE p = s.id
      <4>1. PolicyAt(ledger', Len(ledger) + 1, p, DecisionState(Evaluate(record'[p].sub)))
        BY <1>3, <1>4, <1>7, <3>1 DEF PolicyAt, st
      <4>2. Len(ledger) + 1 \in DOMAIN ledger'
        BY <1>7
      <4> QED BY <1>4, <3>1, <4>1, <4>2
    <3>2. CASE p # s.id
      <4>1. Known(p) /\ record'[p] = record[p]
        BY <1>5, <2>2, <3>2 DEF Known
      <4>2. /\ \E i \in DOMAIN ledger :
                   PolicyAt(ledger, i, p, DecisionState(Evaluate(record[p].sub)))
            /\ record[p].approval # None => \E a \in DOMAIN ledger : ApprovalAt(ledger, a, p)
            /\ record[p].grant # None => \E g \in DOMAIN ledger : GrantAt(ledger, g, p)
        BY <4>1 DEF IndInv, EvidenceInv
      <4>3. \A i \in DOMAIN ledger :
               /\ i \in DOMAIN ledger'
               /\ \A z : PolicyAt(ledger, i, p, z) => PolicyAt(ledger', i, p, z)
               /\ ApprovalAt(ledger, i, p) => ApprovalAt(ledger', i, p)
               /\ GrantAt(ledger, i, p) => GrantAt(ledger', i, p)
        BY <1>t, <1>3, EvidenceStays
      <4> QED BY <4>1, <4>2, <4>3
    <3> QED BY <3>1, <3>2
  <2> QED BY <2>1, <2>2 DEF EvidenceInv, Known
<1>16. IntentInv'
  <2> SUFFICES ASSUME NEW i \in DOMAIN ledger', ledger'[i].kind = "intent"
               PROVE  \E g \in 1..(i - 1) : GrantAt(ledger', g, ledger'[i].req)
    BY DEF IntentInv
  <2>1. i \in DOMAIN ledger /\ ledger'[i] = ledger[i]
    BY <1>3, <1>7
  <2>2. PICK g \in 1..(i - 1) : GrantAt(ledger, g, ledger[i].req)
    BY <2>1 DEF IndInv, IntentInv
  <2>3. g \in DOMAIN ledger
    BY <1>7, <2>1
  <2> QED BY <1>t, <1>3, <2>1, <2>2, <2>3, EvidenceStays
<1>17. OneDecisionPerKey'
  <2> SUFFICES ASSUME NEW i \in DOMAIN ledger', NEW j \in DOMAIN ledger',
                      ledger'[i].kind = "policy", ledger'[j].kind = "policy",
                      record'[ledger'[i].req].sub.key = record'[ledger'[j].req].sub.key
               PROVE  i = j
    BY DEF OneDecisionPerKey
  <2>1. \A n \in DOMAIN ledger :
           /\ ledger'[n] = ledger[n]
           /\ record'[ledger'[n].req] = record[ledger[n].req]
           /\ record'[ledger'[n].req].sub.key # s.key
    BY <1>7, <1>8, <1>9
  <2>2. record'[ledger'[Len(ledger) + 1].req].sub.key = s.key
    BY <1>3, <1>4, <1>7
  <2>3. CASE i \in DOMAIN ledger /\ j \in DOMAIN ledger
    BY <2>1, <2>3 DEF IndInv, OneDecisionPerKey
  <2>4. CASE i \notin DOMAIN ledger /\ j \notin DOMAIN ledger
    BY <1>7, <2>4
  <2>5. CASE i \in DOMAIN ledger /\ j \notin DOMAIN ledger
    BY <1>7, <2>1, <2>2, <2>5
  <2>6. CASE i \notin DOMAIN ledger /\ j \in DOMAIN ledger
    BY <1>7, <2>1, <2>2, <2>6
  <2> QED BY <2>3, <2>4, <2>5, <2>6
<1>18. RecordMatchesLedger'
  <2> SUFFICES ASSUME NEW p \in Ids
               PROVE  LET mine == {i \in DOMAIN ledger' : ledger'[i].req = p
                                                         /\ ledger'[i].kind # "intent"} IN
                      /\ (record'[p] # None) <=> mine # {}
                      /\ \A i \in mine : (\A j \in mine : j <= i) =>
                            ledger'[i].state = record'[p].state
    BY DEF RecordMatchesLedger, Known
  <2> DEFINE old == {i \in DOMAIN ledger : ledger[i].req = p /\ ledger[i].kind # "intent"}
  <2> DEFINE mine == {i \in DOMAIN ledger' : ledger'[i].req = p /\ ledger'[i].kind # "intent"}
  <2>1. CASE p = s.id
    <3>1. mine = {Len(ledger) + 1}
      BY <1>3, <1>7, <1>8, <2>1
    <3>2. record'[p] # None /\ ledger'[Len(ledger) + 1].state = record'[p].state
      BY <1>3, <1>4, <1>7, <2>1
    <3> HIDE DEF mine
    <3>3. mine # {} /\ \A i \in mine : (\A j \in mine : j <= i) =>
                            ledger'[i].state = record'[p].state
      BY <3>1, <3>2
    <3> QED BY <3>2, <3>3 DEF mine
  <2>2. CASE p # s.id
    <3>1. mine = old /\ \A i \in old : ledger'[i] = ledger[i]
      BY <1>3, <1>7, <2>2
    <3>2. record'[p] = record[p]
      BY <1>5, <2>2
    <3>3. /\ Known(p) <=> old # {}
          /\ \A i \in old : (\A j \in old : j <= i) => ledger[i].state = record[p].state
      BY DEF IndInv, RecordMatchesLedger
    <3> HIDE DEF mine, old
    <3>4. /\ (record'[p] # None) <=> mine # {}
          /\ \A i \in mine : (\A j \in mine : j <= i) => ledger'[i].state = record'[p].state
      BY <3>1, <3>2, <3>3 DEF Known
    <3> QED BY <3>4 DEF mine
  <2> QED BY <2>1, <2>2
<1>19. ReplayFaithful'
  BY <1>2 DEF IndInv, ReplayFaithful
<1> QED BY <1>10, <1>11, <1>12, <1>13, <1>14, <1>15, <1>16, <1>17, <1>18, <1>19 DEF IndInv

(* The records an advance leaves alone keep their evidence, and so do the  *)
(* approval and the grant of the one that advances.                        *)
LEMMA AdvanceEvidence ==
    ASSUME IndInv, NEW q \in Ids, NEW k, NEW st, Advance(q, k, st),
           record'[q].approval # None => \E a \in DOMAIN ledger' : ApprovalAt(ledger', a, q),
           record'[q].grant # None => \E g \in DOMAIN ledger' : GrantAt(ledger', g, q)
    PROVE  EvidenceInv'
<1>t. TypeOK /\ ledger \in Seq(Envelopes)
  BY DEF IndInv, TypeOK
<1>1. PICK e \in Envelopes : ledger' = Append(ledger, e)
  BY <1>t, AdvanceAppends
<1>2. \A p \in Ids : p # q => record'[p] = record[p]
  BY <1>t, AdvanceKnown
<1>3. /\ \A i \in DOMAIN ledger' : record'[ledger'[i].req] # None
      /\ \A p \in Ids : record'[p] # None =>
            \E i \in DOMAIN ledger' :
               PolicyAt(ledger', i, p, DecisionState(Evaluate(record'[p].sub)))
  BY AdvanceKeeps
<1>4. ASSUME NEW p \in Ids, record'[p] # None
      PROVE  /\ record'[p].approval # None =>
                  \E a \in DOMAIN ledger' : ApprovalAt(ledger', a, p)
             /\ record'[p].grant # None => \E g \in DOMAIN ledger' : GrantAt(ledger', g, p)
  <2>1. CASE p = q
    BY <2>1
  <2>2. CASE p # q
    <3>1. Known(p) /\ record'[p] = record[p]
      BY <1>2, <1>4, <2>2 DEF Known
    <3>2. /\ record[p].approval # None => \E a \in DOMAIN ledger : ApprovalAt(ledger, a, p)
          /\ record[p].grant # None => \E g \in DOMAIN ledger : GrantAt(ledger, g, p)
      BY <3>1 DEF IndInv, EvidenceInv
    <3>3. \A i \in DOMAIN ledger :
             /\ i \in DOMAIN ledger'
             /\ ApprovalAt(ledger, i, p) => ApprovalAt(ledger', i, p)
             /\ GrantAt(ledger, i, p) => GrantAt(ledger', i, p)
      BY <1>t, <1>1, EvidenceStays
    <3> QED BY <3>1, <3>2, <3>3
  <2> QED BY <2>1, <2>2
<1> QED BY <1>3, <1>4 DEF EvidenceInv, Known

(* An advance that leaves the policy's states keeps the records well       *)
(* formed.                                                                 *)
LEMMA AdvanceRecords ==
    ASSUME IndInv, NEW q \in Ids, NEW k, NEW st, Advance(q, k, st),
           record'[q].grant # None <=> st \in Granted,
           st \notin {"denied", "approval_required", "policy_authorized"}
    PROVE  RecordInv'
<1>1. /\ \A p \in Ids : p # q => record'[p] = record[p]
      /\ \A p \in Ids : (record'[p] # None) <=> Known(p)
      /\ \A p \in Ids : Known(p) => record'[p].sub = record[p].sub
  BY AdvanceKnown DEF IndInv
<1>2. record'[q].state = st /\ Known(q) /\ binding' = binding
  BY DEF Advance
<1> QED BY <1>1, <1>2 DEF IndInv, RecordInv, Known

(* An approval is accepted for a request that waits for one, and follows   *)
(* its policy decision in the ledger.                                      *)
LEMMA ApprovalKeeps ==
    ASSUME IndInv, TypeOK', NEW a \in Approvals, AcceptApproval(a)
    PROVE  IndInv'
<1> DEFINE q == a.req
<1>t. TypeOK /\ ledger \in Seq(Envelopes)
  BY DEF IndInv, TypeOK
<1>1. /\ q \in Ids /\ Known(q) /\ Approve(q, a) /\ dispatch = None
      /\ record[q].state = "approval_required"
      /\ AppendEvidence("approval", q, "approved")
      /\ UNCHANGED <<binding, spent, dispatch, world, answered>>
  BY ApprovalAssumption DEF AcceptApproval, ApprovalValid, LockFree
<1> HIDE DEF q
<1>2. /\ record' = [record EXCEPT ![q] = record'[q]] /\ record'[q] \in Records
      /\ record'[q].sub = record[q].sub /\ record'[q].state = "approved"
      /\ record'[q].grant = record[q].grant
  BY <1>t, <1>1, ApproveFacts
<1>3. Advance(q, "approval", "approved")
  BY <1>1, <1>2 DEF Advance, Lifecycle
<1>4. record[q].grant = None
  BY <1>1 DEF IndInv, RecordInv, Granted
<1>5. RecordInv'
  BY <1>1, <1>2, <1>3, <1>4, AdvanceRecords DEF Granted
<1>6. EvidenceInv'
  <2>1. PICK e \in Envelopes :
          /\ ledger' = Append(ledger, e) /\ e.kind = "approval" /\ e.req = q
          /\ DOMAIN ledger = 1..Len(ledger) /\ Len(ledger) \in Nat
          /\ DOMAIN ledger' = 1..(Len(ledger) + 1)
          /\ ledger'[Len(ledger) + 1] = e
    BY <1>t, <1>1, <1>3, AdvanceAppends
  <2>2. "approval_required" = DecisionState(Evaluate(record[q].sub))
    BY <1>1 DEF IndInv, RecordInv
  <2>3. PICK j \in DOMAIN ledger : PolicyAt(ledger, j, q, "approval_required")
    BY <1>1, <2>2 DEF IndInv, EvidenceInv
  <2>4. PolicyAt(ledger', j, q, "approval_required")
    BY <1>t, <2>1, <2>3, EvidenceStays
  <2>5. j \in 1..((Len(ledger) + 1) - 1)
    BY <2>1, <2>3
  <2>6. ApprovalAt(ledger', Len(ledger) + 1, q)
    BY <2>1, <2>4, <2>5 DEF ApprovalAt
  <2>7. Len(ledger) + 1 \in DOMAIN ledger'
    BY <2>1
  <2> QED BY <1>1, <1>2, <1>3, <1>4, <2>6, <2>7, AdvanceEvidence
<1>7. /\ BindingInv' /\ IntentInv' /\ OneDecisionPerKey' /\ RecordMatchesLedger'
      /\ ReplayFaithful'
  BY <1>1, <1>3, AdvanceKeeps
<1>8. SpentInv' /\ \A p \in Ids : p \notin unreverted' =>
          (active'[p] <=> record'[p] # None /\ record'[p].state = "effect_succeeded")
  BY <1>1, <1>3, <1>4, AdvanceQuiet
<1>9. NoUnrecordedEffect' /\ DispatchInv' /\ DispatchInWindow'
  BY <1>1, <1>8 DEF NoUnrecordedEffect, DispatchInv, DispatchInWindow, Known
<1> QED BY <1>5, <1>6, <1>7, <1>8, <1>9 DEF IndInv

(* A grant follows in the ledger the policy that authorises it, or the     *)
(* approval that policy asked for.                                         *)
LEMMA GrantKeeps ==
    ASSUME IndInv, NEW q \in Ids, Known(q), dispatch = None, IssueGrantLocked(q),
           UNCHANGED <<binding, spent, world, answered>>
    PROVE  /\ RecordInv' /\ BindingInv' /\ SpentInv' /\ EvidenceInv' /\ IntentInv'
           /\ OneDecisionPerKey' /\ RecordMatchesLedger' /\ ReplayFaithful'
           /\ record'[q] # None /\ record'[q].state = "grant_issued"
           /\ \A p \in Ids : p \notin unreverted' =>
                 (active'[p] <=> record'[p] # None /\ record'[p].state = "effect_succeeded")
<1>t. TypeOK /\ ledger \in Seq(Envelopes)
  BY DEF IndInv, TypeOK
<1>1. PICK g \in Grants :
         /\ record' = [record EXCEPT ![q].state = "grant_issued", ![q].grant = g]
         /\ record[q].state \in {"policy_authorized", "approved"}
         /\ Evaluate(record[q].sub) # "deny"
         /\ Evaluate(record[q].sub) = "require_approval" => record[q].approval # None
         /\ AppendEvidence("grant", q, "grant_issued")
  BY <1>t, IssueFacts
<1>2. /\ record' = [record EXCEPT ![q] = record'[q]] /\ record'[q] \in Records
      /\ record'[q].sub = record[q].sub /\ record'[q].state = "grant_issued"
      /\ record'[q].approval = record[q].approval /\ record'[q].grant = g
  BY <1>t, <1>1, GrantFacts
<1>3. Advance(q, "grant", "grant_issued")
  BY <1>1, <1>2 DEF Advance, Lifecycle
<1>4. record[q].grant = None
  BY <1>1 DEF IndInv, RecordInv, Granted
<1>5. g # None /\ record'[q] # None
  BY <1>2, KernelNoneAssumption
<1>6. RecordInv'
  BY <1>2, <1>3, <1>5, AdvanceRecords DEF Granted
<1>7. EvidenceInv'
  <2>1. PICK e \in Envelopes :
          /\ ledger' = Append(ledger, e) /\ e.kind = "grant" /\ e.req = q
          /\ DOMAIN ledger = 1..Len(ledger) /\ Len(ledger) \in Nat
          /\ DOMAIN ledger' = 1..(Len(ledger) + 1)
          /\ ledger'[Len(ledger) + 1] = e
    BY <1>t, <1>3, AdvanceAppends
  <2>2. record[q].sub \in Submissions
    BY <1>t DEF TypeOK, Records, Known
  <2>3. /\ \E i \in DOMAIN ledger :
               PolicyAt(ledger, i, q, DecisionState(Evaluate(record[q].sub)))
        /\ record[q].approval # None => \E a \in DOMAIN ledger : ApprovalAt(ledger, a, q)
    BY DEF IndInv, EvidenceInv
  <2>4. \A i \in DOMAIN ledger :
           /\ i \in DOMAIN ledger' /\ i \in 1..((Len(ledger) + 1) - 1)
           /\ \A z : PolicyAt(ledger, i, q, z) => PolicyAt(ledger', i, q, z)
           /\ ApprovalAt(ledger, i, q) => ApprovalAt(ledger', i, q)
    BY <1>t, <2>1, EvidenceStays
  <2>5. \/ \E j \in 1..((Len(ledger) + 1) - 1) :
              PolicyAt(ledger', j, q, "policy_authorized")
        \/ \E a \in 1..((Len(ledger) + 1) - 1) : ApprovalAt(ledger', a, q)
    <3>1. CASE Evaluate(record[q].sub) = "authorize"
      <4>1. DecisionState(Evaluate(record[q].sub)) = "policy_authorized"
        BY <2>2, <3>1, Decided
      <4> QED BY <2>3, <2>4, <4>1
    <3>2. CASE Evaluate(record[q].sub) = "require_approval"
      BY <1>1, <2>3, <2>4, <3>2
    <3> QED BY <1>1, <2>2, <3>1, <3>2, Decided
  <2>6. GrantAt(ledger', Len(ledger) + 1, q) /\ Len(ledger) + 1 \in DOMAIN ledger'
    BY <2>1, <2>5 DEF GrantAt
  <2>7. record'[q].approval # None => \E a \in DOMAIN ledger' : ApprovalAt(ledger', a, q)
    BY <1>2, <2>3, <2>4
  <2> QED BY <1>3, <2>6, <2>7, AdvanceEvidence
<1>8. /\ BindingInv' /\ IntentInv' /\ OneDecisionPerKey' /\ RecordMatchesLedger'
      /\ ReplayFaithful'
  BY <1>3, AdvanceKeeps
<1>9. SpentInv' /\ \A p \in Ids : p \notin unreverted' =>
          (active'[p] <=> record'[p] # None /\ record'[p].state = "effect_succeeded")
  BY <1>3, <1>4, AdvanceQuiet
<1> QED BY <1>2, <1>5, <1>6, <1>7, <1>8, <1>9

-----------------------------------------------------------------------------
(* The dispatch that holds the lock *)

(* A dispatch begins on a request with a grant, old or new. *)
LEMMA BeginKeeps ==
    ASSUME IndInv, TypeOK', NEW q \in Ids, ExecuteBegin(q)
    PROVE  IndInv'
<1>1. /\ dispatch = None /\ Known(q)
      /\ dispatch' = [req |-> q, phase |-> "granted", at |-> clock]
      /\ UNCHANGED <<binding, spent, world, answered>>
      /\ \/ record[q].state = "grant_issued" /\ UNCHANGED <<record, ledger>>
         \/ IssueGrantLocked(q)
  BY DEF ExecuteBegin, LockFree
<1>2. /\ RecordInv' /\ BindingInv' /\ SpentInv' /\ EvidenceInv' /\ IntentInv'
      /\ OneDecisionPerKey' /\ RecordMatchesLedger' /\ ReplayFaithful'
      /\ record'[q] # None /\ record'[q].state = "grant_issued"
      /\ \A p \in Ids : p \notin unreverted' =>
            (active'[p] <=> record'[p] # None /\ record'[p].state = "effect_succeeded")
  <2>1. CASE record[q].state = "grant_issued" /\ UNCHANGED <<record, ledger>>
    <3>1. /\ RecordInv' /\ BindingInv' /\ EvidenceInv' /\ IntentInv'
          /\ OneDecisionPerKey' /\ RecordMatchesLedger' /\ ReplayFaithful'
      BY <1>1, <2>1, RecordsFrame
    <3>2. UNCHANGED <<record, spent, applied, active, unreverted>>
      BY <1>1, <2>1 DEF world
    <3>3. SpentInv'
      BY <3>2 DEF IndInv, SpentInv, Known
    <3> QED BY <1>1, <2>1, <3>1, <3>2, <3>3 DEF IndInv, NoUnrecordedEffect, Known
  <2>2. CASE IssueGrantLocked(q)
    BY <1>1, <2>2, GrantKeeps
  <2> QED BY <1>1, <2>1, <2>2
<1>3. dispatch'.req = q /\ dispatch'.phase = "granted"
  BY <1>1
<1>4. active' \in [Ids -> BOOLEAN]
  BY DEF TypeOK
<1>5. q \notin unreverted' => active'[q] = FALSE
  BY <1>2, <1>4
<1>6. DispatchInv' /\ DispatchInWindow'
  BY <1>2, <1>3, <1>5 DEF DispatchInv, DispatchInWindow, Known
<1>7. NoUnrecordedEffect'
  BY <1>2 DEF NoUnrecordedEffect, Known
<1> QED BY <1>2, <1>6, <1>7 DEF IndInv

(* The broker's checks put the dispatch inside every window. *)
LEMMA ValidateKeeps ==
    ASSUME IndInv, TypeOK', NEW q \in Ids, DispatchValidate(q)
    PROVE  IndInv'
<1>1. /\ dispatch \in Dispatches /\ dispatch.req = q /\ dispatch.phase = "granted"
      /\ Known(q) /\ record[q].state = "grant_issued" /\ dispatch # None
  BY PhaseFacts, KernelNoneAssumption DEF IndInv, DispatchValidate
<1>2. UNCHANGED <<binding, record, ledger, spent, applied, active, unreverted, answered>>
  BY DEF DispatchValidate, world
<1>3. /\ RecordInv' /\ BindingInv' /\ EvidenceInv' /\ IntentInv'
      /\ OneDecisionPerKey' /\ RecordMatchesLedger' /\ ReplayFaithful'
  BY <1>2, RecordsFrame
<1>4. SpentInv'
  BY <1>2 DEF IndInv, SpentInv, Known
<1>5. CASE MayDispatch(q) /\ dispatch' = [dispatch EXCEPT !.phase = "validated", !.at = clock]
  <2>1. /\ dispatch'.req = q /\ dispatch'.phase = "validated" /\ dispatch'.at = clock
        /\ dispatch' # None
    <3>1. clock \in Time
      BY DEF IndInv, TypeOK
    <3>2. dispatch' = [[dispatch EXCEPT !.phase = "validated"] EXCEPT !.at = clock]
      BY <1>5
    <3> DEFINE d == [dispatch EXCEPT !.phase = "validated"]
    <3>4. d \in Dispatches /\ d.req = q /\ d.phase = "validated"
      BY <1>1 DEF Dispatches
    <3>5. dispatch' = [d EXCEPT !.at = clock]
      BY <3>2
    <3>3. /\ dispatch' \in Dispatches /\ dispatch'.req = q
          /\ dispatch'.phase = "validated" /\ dispatch'.at = clock
      <4> HIDE DEF d
      <4> QED BY <3>1, <3>4, <3>5 DEF Dispatches
    <3> QED BY <3>3, KernelNoneAssumption
  <2>2. /\ q \notin spent /\ clock < ActorExpires
        /\ record[q].grant.issued <= clock /\ clock < record[q].grant.expires
        /\ record[q].approval # None =>
              /\ record[q].approval.from <= record[q].grant.issued
              /\ record[q].grant.expires <= record[q].approval.until
    BY <1>5 DEF MayDispatch, GrantUnspent, ActorCurrent, GrantCurrent, GrantBound
  <2>3. /\ record[q].approval # None =>
              record[q].approval.from <= clock /\ clock < record[q].approval.until
    <3>1. record[q] \in Records /\ record[q].grant # None
      BY <1>1 DEF IndInv, TypeOK, RecordInv, Granted, Known
    <3>2. /\ clock \in Nat /\ record[q].grant.issued \in Nat
          /\ record[q].grant.expires \in Nat
      BY <3>1, WindowAssumption DEF IndInv, TypeOK, Records, Grants, Time
    <3>3. record[q].approval # None =>
             record[q].approval.from \in Nat /\ record[q].approval.until \in Nat
      BY <3>1, ApprovalAssumption, WindowAssumption DEF Records, Time
    <3> QED BY <2>2, <3>2, <3>3
  <2>4. DispatchInWindow'
    BY <1>2, <2>1, <2>2, <2>3 DEF DispatchInWindow
  <2>5. DispatchInv'
    BY <1>1, <1>2, <2>1, <2>2 DEF IndInv, DispatchInv, Known
  <2>6. NoUnrecordedEffect'
    BY <1>1, <1>2, <2>1 DEF IndInv, NoUnrecordedEffect, Known
  <2> QED BY <1>3, <1>4, <2>4, <2>5, <2>6 DEF IndInv
<1>6. CASE dispatch' = None
  <2>1. DispatchInWindow' /\ DispatchInv'
    BY <1>6 DEF DispatchInWindow, DispatchInv
  <2>2. NoUnrecordedEffect'
    BY <1>1, <1>2, <1>6 DEF IndInv, NoUnrecordedEffect, DispatchInv, Known
  <2> QED BY <1>3, <1>4, <2>1, <2>2 DEF IndInv
<1> QED BY <1>5, <1>6 DEF DispatchValidate, Release

(* An intent follows its grant in the ledger and spends it. *)
LEMMA IntentKeeps ==
    ASSUME IndInv, TypeOK', NEW q \in Ids, DispatchIntent(q)
    PROVE  IndInv'
<1>t. TypeOK /\ ledger \in Seq(Envelopes)
  BY DEF IndInv, TypeOK
<1>1. /\ dispatch \in Dispatches /\ dispatch.req = q /\ dispatch.phase = "validated"
      /\ Known(q) /\ record[q].state = "grant_issued" /\ dispatch # None
  BY PhaseFacts, KernelNoneAssumption DEF IndInv, DispatchIntent
<1>2. UNCHANGED <<binding, record, applied, active, unreverted, answered>>
  BY DEF DispatchIntent, world
<1>3. CASE AppendEvidence("intent", q, "none") /\ spent' = spent \cup {q} /\ GoOn("intended")
  <2> DEFINE e == Envelope("intent", q, "none")
  <2>1. e \in Envelopes /\ ledger' = Append(ledger, e) /\ e.kind = "intent" /\ e.req = q
    BY <1>t, <1>3, AppendTyped
  <2> HIDE DEF e
  <2>2. /\ DOMAIN ledger = 1..Len(ledger) /\ Len(ledger) \in Nat
        /\ DOMAIN ledger' = 1..(Len(ledger) + 1)
        /\ \A i \in DOMAIN ledger : ledger'[i] = ledger[i]
        /\ ledger'[Len(ledger) + 1] = e
    BY <1>t, <2>1, LedgerAppend
  <2>3. /\ dispatch' \in Dispatches /\ dispatch'.req = q /\ dispatch'.phase = "intended"
        /\ dispatch'.at = dispatch.at
    BY <1>t, <1>1, <1>3, GoOnStep
  <2>4. dispatch' # None
    BY <2>3, KernelNoneAssumption
  <2>5. RecordInv' /\ BindingInv' /\ ReplayFaithful'
    BY <1>2 DEF IndInv, RecordInv, BindingInv, ReplayFaithful, Known
  <2>6. q \notin spent /\ applied[q] = 0 /\ record[q].grant # None
    BY <1>1 DEF IndInv, DispatchInv, SpentInv, RecordInv, Granted
  <2>7. SpentInv'
    BY <1>1, <1>2, <1>3, <2>6 DEF IndInv, SpentInv, Known
  <2>8. DispatchInv' /\ DispatchInWindow'
    BY <1>1, <1>2, <1>3, <2>3, <2>4, <2>6
    DEF IndInv, DispatchInv, DispatchInWindow, SpentInv, Known
  <2>9. NoUnrecordedEffect'
    BY <1>1, <1>2, <2>3, <2>4 DEF IndInv, NoUnrecordedEffect, Known
  <2>10. \A p : \A i \in DOMAIN ledger :
            /\ i \in DOMAIN ledger'
            /\ \A z : PolicyAt(ledger, i, p, z) => PolicyAt(ledger', i, p, z)
            /\ ApprovalAt(ledger, i, p) => ApprovalAt(ledger', i, p)
            /\ GrantAt(ledger, i, p) => GrantAt(ledger', i, p)
    BY <1>t, <2>1, EvidenceStays
  <2>11. EvidenceInv'
    <3>1. \A i \in DOMAIN ledger' : record[ledger'[i].req] # None
      <4> SUFFICES ASSUME NEW i \in DOMAIN ledger' PROVE record[ledger'[i].req] # None
        OBVIOUS
      <4>1. CASE i = Len(ledger) + 1
        BY <1>1, <2>1, <2>2, <4>1 DEF Known
      <4>2. CASE i \in DOMAIN ledger
        BY <2>2, <4>2 DEF IndInv, EvidenceInv, Known
      <4> QED BY <2>2, <4>1, <4>2
    <3>2. ASSUME NEW p \in Ids, Known(p)
          PROVE  /\ \E i \in DOMAIN ledger' :
                        PolicyAt(ledger', i, p, DecisionState(Evaluate(record[p].sub)))
                 /\ record[p].approval # None =>
                       \E a \in DOMAIN ledger' : ApprovalAt(ledger', a, p)
                 /\ record[p].grant # None =>
                       \E g \in DOMAIN ledger' : GrantAt(ledger', g, p)
      <4>1. /\ \E i \in DOMAIN ledger :
                   PolicyAt(ledger, i, p, DecisionState(Evaluate(record[p].sub)))
            /\ record[p].approval # None => \E a \in DOMAIN ledger : ApprovalAt(ledger, a, p)
            /\ record[p].grant # None => \E g \in DOMAIN ledger : GrantAt(ledger, g, p)
        BY <3>2 DEF IndInv, EvidenceInv
      <4> QED BY <2>10, <4>1
    <3> QED BY <1>2, <3>1, <3>2 DEF EvidenceInv, Known
  <2>12. IntentInv'
    <3> SUFFICES ASSUME NEW i \in DOMAIN ledger', ledger'[i].kind = "intent"
                 PROVE  \E g \in 1..(i - 1) : GrantAt(ledger', g, ledger'[i].req)
      BY DEF IntentInv
    <3>1. CASE i = Len(ledger) + 1
      <4>1. PICK g \in DOMAIN ledger : GrantAt(ledger, g, q)
        BY <1>1, <2>6 DEF IndInv, EvidenceInv
      <4>2. GrantAt(ledger', g, q) /\ ledger'[i].req = q /\ g \in 1..(i - 1)
        BY <2>1, <2>2, <2>10, <3>1, <4>1
      <4> QED BY <4>2
    <3>2. CASE i \in DOMAIN ledger
      <4>1. ledger'[i] = ledger[i]
        BY <2>2, <3>2
      <4>2. PICK g \in 1..(i - 1) : GrantAt(ledger, g, ledger[i].req)
        BY <3>2, <4>1 DEF IndInv, IntentInv
      <4>3. g \in DOMAIN ledger
        BY <2>2, <3>2
      <4> QED BY <2>10, <4>1, <4>2, <4>3
    <3> QED BY <2>2, <3>1, <3>2
  <2>13. OneDecisionPerKey'
    <3> SUFFICES ASSUME NEW i \in DOMAIN ledger', NEW j \in DOMAIN ledger',
                        ledger'[i].kind = "policy", ledger'[j].kind = "policy",
                        record[ledger'[i].req].sub.key = record[ledger'[j].req].sub.key
                 PROVE  i = j
      BY <1>2 DEF OneDecisionPerKey
    <3>1. /\ i \in DOMAIN ledger /\ j \in DOMAIN ledger
          /\ ledger'[i] = ledger[i] /\ ledger'[j] = ledger[j]
      BY <2>1, <2>2
    <3> QED BY <3>1 DEF IndInv, OneDecisionPerKey
  <2>14. RecordMatchesLedger'
    <3> SUFFICES ASSUME NEW p \in Ids
                 PROVE  LET mine == {i \in DOMAIN ledger' : ledger'[i].req = p
                                                           /\ ledger'[i].kind # "intent"} IN
                        /\ Known(p) <=> mine # {}
                        /\ \A i \in mine : (\A j \in mine : j <= i) =>
                              ledger'[i].state = record[p].state
      BY <1>2 DEF RecordMatchesLedger, Known
    <3> DEFINE old == {i \in DOMAIN ledger : ledger[i].req = p /\ ledger[i].kind # "intent"}
    <3> DEFINE mine == {i \in DOMAIN ledger' : ledger'[i].req = p
                                               /\ ledger'[i].kind # "intent"}
    <3>1. mine = old /\ \A i \in old : ledger'[i] = ledger[i]
      BY <2>1, <2>2
    <3>2. /\ Known(p) <=> old # {}
          /\ \A i \in old : (\A j \in old : j <= i) => ledger[i].state = record[p].state
      BY DEF IndInv, RecordMatchesLedger
    <3> HIDE DEF mine, old
    <3>3. /\ Known(p) <=> mine # {}
          /\ \A i \in mine : (\A j \in mine : j <= i) => ledger'[i].state = record[p].state
      BY <3>1, <3>2
    <3> QED BY <3>3 DEF mine
  <2> QED BY <2>5, <2>7, <2>8, <2>9, <2>11, <2>12, <2>13, <2>14 DEF IndInv
<1>4. CASE dispatch' = None /\ UNCHANGED <<ledger, spent>>
  <2>1. /\ RecordInv' /\ BindingInv' /\ EvidenceInv' /\ IntentInv'
        /\ OneDecisionPerKey' /\ RecordMatchesLedger' /\ ReplayFaithful'
    BY <1>2, <1>4, RecordsFrame
  <2>2. SpentInv'
    BY <1>2, <1>4 DEF IndInv, SpentInv, Known
  <2>3. DispatchInWindow' /\ DispatchInv'
    BY <1>4 DEF DispatchInWindow, DispatchInv
  <2>4. NoUnrecordedEffect'
    BY <1>1, <1>2, <1>4 DEF IndInv, NoUnrecordedEffect, DispatchInv, Known
  <2> QED BY <2>1, <2>2, <2>3, <2>4 DEF IndInv
<1> QED BY <1>3, <1>4 DEF DispatchIntent, Release

(* The executor runs on the one dispatch that spent the grant, and its     *)
(* effect is in place.                                                     *)
LEMMA SucceedsKeeps ==
    ASSUME IndInv, TypeOK', NEW q \in Ids, ExecutorSucceeds(q)
    PROVE  IndInv'
<1>t. TypeOK
  BY DEF IndInv
<1>1. /\ dispatch \in Dispatches /\ dispatch.req = q /\ dispatch.phase = "intended"
      /\ Known(q) /\ record[q].state = "grant_issued" /\ dispatch # None
  BY PhaseFacts, KernelNoneAssumption DEF IndInv, ExecutorSucceeds
<1>2. /\ applied' = [applied EXCEPT ![q] = @ + 1] /\ active' = [active EXCEPT ![q] = TRUE]
      /\ GoOn("succeeded")
      /\ UNCHANGED <<binding, record, ledger, spent, unreverted, answered>>
  BY DEF ExecutorSucceeds
<1>3. /\ RecordInv' /\ BindingInv' /\ EvidenceInv' /\ IntentInv'
      /\ OneDecisionPerKey' /\ RecordMatchesLedger' /\ ReplayFaithful'
  BY <1>2, RecordsFrame
<1>4. /\ dispatch' \in Dispatches /\ dispatch'.req = q /\ dispatch'.phase = "succeeded"
      /\ dispatch'.at = dispatch.at
  BY <1>t, <1>1, <1>2, GoOnStep
<1>5. dispatch' # None
  BY <1>4, KernelNoneAssumption
<1>6. q \in spent /\ applied[q] = 0
  BY <1>1 DEF IndInv, DispatchInv
<1>7. /\ applied'[q] = 1 /\ active'[q] = TRUE
      /\ \A p \in Ids : p # q => applied'[p] = applied[p] /\ active'[p] = active[p]
  BY <1>2, <1>6, <1>t DEF TypeOK
<1>8. SpentInv'
  BY <1>2, <1>6, <1>7 DEF IndInv, SpentInv, Known
<1>9. DispatchInv' /\ DispatchInWindow'
  BY <1>1, <1>2, <1>4, <1>5, <1>6, <1>7
  DEF IndInv, DispatchInv, DispatchInWindow, Known
<1>10. NoUnrecordedEffect'
  BY <1>1, <1>2, <1>4, <1>5, <1>7 DEF IndInv, NoUnrecordedEffect, Known
<1> QED BY <1>3, <1>8, <1>9, <1>10 DEF IndInv

(* The executor fails; its effect is gone, or the request is unreverted. *)
LEMMA FailsKeeps ==
    ASSUME IndInv, TypeOK', NEW q \in Ids, ExecutorFails(q)
    PROVE  IndInv'
<1>t. TypeOK
  BY DEF IndInv
<1>1. /\ dispatch \in Dispatches /\ dispatch.req = q /\ dispatch.phase = "intended"
      /\ Known(q) /\ record[q].state = "grant_issued" /\ dispatch # None
  BY PhaseFacts, KernelNoneAssumption DEF IndInv, ExecutorFails
<1>2. /\ applied' = [applied EXCEPT ![q] = @ + 1]
      /\ UNCHANGED <<binding, record, ledger, spent, answered>>
  BY DEF ExecutorFails
<1>3. /\ RecordInv' /\ BindingInv' /\ EvidenceInv' /\ IntentInv'
      /\ OneDecisionPerKey' /\ RecordMatchesLedger' /\ ReplayFaithful'
  BY <1>2, RecordsFrame
<1>4. q \in spent /\ applied[q] = 0
  BY <1>1 DEF IndInv, DispatchInv
<1>5. /\ applied'[q] = 1
      /\ \A p \in Ids : p # q => applied'[p] = applied[p]
  BY <1>2, <1>4, <1>t DEF TypeOK
<1>6. CASE GoOn("failed") /\ UNCHANGED <<active, unreverted>>
  <2>1. /\ dispatch' \in Dispatches /\ dispatch'.req = q /\ dispatch'.phase = "failed"
        /\ dispatch'.at = dispatch.at
    BY <1>t, <1>1, <1>6, GoOnStep
  <2>2. dispatch' # None
    BY <2>1, KernelNoneAssumption
  <2>3. SpentInv'
    BY <1>2, <1>4, <1>5, <1>6 DEF IndInv, SpentInv, Known
  <2>4. DispatchInv' /\ DispatchInWindow'
    BY <1>1, <1>2, <1>4, <1>6, <2>1, <2>2
    DEF IndInv, DispatchInv, DispatchInWindow, Known
  <2>5. NoUnrecordedEffect'
    BY <1>1, <1>2, <1>6, <2>1, <2>2 DEF IndInv, NoUnrecordedEffect, Known
  <2> QED BY <1>3, <2>3, <2>4, <2>5 DEF IndInv
<1>7. CASE /\ \E left \in BOOLEAN : active' = [active EXCEPT ![q] = left]
           /\ unreverted' = unreverted \cup {q}
           /\ dispatch' = None
  <2>1. \A p \in Ids : p # q => active'[p] = active[p]
    BY <1>7, <1>t DEF TypeOK
  <2>2. SpentInv'
    BY <1>2, <1>4, <1>5, <1>7, <2>1 DEF IndInv, SpentInv, Known
  <2>3. DispatchInv' /\ DispatchInWindow'
    BY <1>7 DEF DispatchInv, DispatchInWindow
  <2>4. NoUnrecordedEffect'
    BY <1>1, <1>2, <1>7, <2>1 DEF IndInv, NoUnrecordedEffect, Known
  <2> QED BY <1>3, <2>2, <2>3, <2>4 DEF IndInv
<1> QED BY <1>6, <1>7 DEF ExecutorFails, Release

(* A recorded outcome agrees with the effect that is in place. *)
LEMMA OutcomeKeeps ==
    ASSUME IndInv, TypeOK', NEW q \in Ids, DispatchRecords(q)
    PROVE  IndInv'
<1> DEFINE st == OutcomeState
<1>t. TypeOK /\ ledger \in Seq(Envelopes)
  BY DEF IndInv, TypeOK
<1>1. /\ dispatch \in Dispatches /\ dispatch.req = q
      /\ dispatch.phase \in {"succeeded", "failed"}
      /\ Known(q) /\ record[q].state = "grant_issued" /\ dispatch # None
  BY PhaseFacts, KernelNoneAssumption DEF IndInv, DispatchRecords
<1>2. /\ dispatch.phase = "succeeded" => st = "effect_succeeded"
      /\ dispatch.phase = "failed" => st = "effect_indeterminate"
      /\ st \in {"effect_succeeded", "effect_indeterminate"}
      /\ st \in Lifecycle
  BY <1>1 DEF OutcomeState, Lifecycle
<1>3. /\ AppendEvidence("outcome", q, st) /\ record' = [record EXCEPT ![q].state = st]
      /\ dispatch' = None
      /\ UNCHANGED <<binding, spent, applied, active, unreverted, answered>>
  BY DEF DispatchRecords, Release, world
<1> HIDE DEF st
<1>4. /\ record' = [record EXCEPT ![q] = record'[q]] /\ record'[q] \in Records
      /\ record'[q].sub = record[q].sub /\ record'[q].state = st
      /\ record'[q].approval = record[q].approval /\ record'[q].grant = record[q].grant
  BY <1>t, <1>1, <1>2, <1>3, OutcomeFacts
<1>5. Advance(q, "outcome", st)
  BY <1>1, <1>2, <1>3, <1>4 DEF Advance
<1>6. record[q].grant # None
  BY <1>1 DEF IndInv, RecordInv, Granted
<1>7. RecordInv'
  <2>1. record'[q].grant # None <=> st \in Granted
    BY <1>2, <1>4, <1>6 DEF Granted
  <2>2. st \notin {"denied", "approval_required", "policy_authorized"}
    BY <1>2
  <2> QED BY <1>5, <2>1, <2>2, AdvanceRecords
<1>8. /\ BindingInv' /\ IntentInv' /\ OneDecisionPerKey' /\ RecordMatchesLedger'
      /\ ReplayFaithful'
  BY <1>5, AdvanceKeeps
<1>9. EvidenceInv'
  <2>1. PICK e \in Envelopes : ledger' = Append(ledger, e)
    BY <1>t, <1>5, AdvanceAppends
  <2>2. /\ record[q].approval # None => \E a \in DOMAIN ledger : ApprovalAt(ledger, a, q)
        /\ record[q].grant # None => \E g \in DOMAIN ledger : GrantAt(ledger, g, q)
    BY <1>1 DEF IndInv, EvidenceInv
  <2>3. \A i \in DOMAIN ledger :
           /\ i \in DOMAIN ledger'
           /\ ApprovalAt(ledger, i, q) => ApprovalAt(ledger', i, q)
           /\ GrantAt(ledger, i, q) => GrantAt(ledger', i, q)
    BY <1>t, <2>1, EvidenceStays
  <2>4. /\ record'[q].approval # None => \E a \in DOMAIN ledger' : ApprovalAt(ledger', a, q)
        /\ record'[q].grant # None => \E g \in DOMAIN ledger' : GrantAt(ledger', g, q)
    BY <1>4, <2>2, <2>3
  <2> QED BY <1>5, <2>4, AdvanceEvidence
<1>10. /\ \A p \in Ids : p # q => record'[p] = record[p]
       /\ record'[q] # None
  BY <1>t, <1>1, <1>5, AdvanceKnown
<1>11. SpentInv'
  <2>1. q \in spent
    BY <1>1 DEF IndInv, DispatchInv
  <2> QED BY <1>3, <1>4, <1>6, <1>10, <2>1 DEF IndInv, SpentInv, Known
<1>12. DispatchInv' /\ DispatchInWindow'
  BY <1>3 DEF DispatchInv, DispatchInWindow
<1>13. NoUnrecordedEffect'
  <2> SUFFICES ASSUME NEW p \in Ids, p \notin unreverted
               PROVE  active[p] <=> record'[p] # None /\ record'[p].state = "effect_succeeded"
    BY <1>3 DEF NoUnrecordedEffect, Known
  <2>1. CASE p = q
    <3>1. active[q] = TRUE <=> dispatch.phase = "succeeded"
      BY <1>1, <2>1 DEF IndInv, DispatchInv
    <3>2. active[q] \in BOOLEAN
      BY <1>t DEF TypeOK
    <3> QED BY <1>1, <1>2, <1>4, <1>10, <2>1, <3>1, <3>2
  <2>2. CASE p # q
    BY <1>1, <1>10, <2>2 DEF IndInv, NoUnrecordedEffect, Known
  <2> QED BY <2>1, <2>2
<1> QED BY <1>7, <1>8, <1>9, <1>11, <1>12, <1>13 DEF IndInv

(* An outcome that is not recorded leaves no effect, or an unreverted one. *)
LEMMA UnrecordedKeeps ==
    ASSUME IndInv, TypeOK', NEW q \in Ids, DispatchUnrecorded(q)
    PROVE  IndInv'
<1>t. TypeOK
  BY DEF IndInv
<1>1. /\ dispatch \in Dispatches /\ dispatch.req = q
      /\ dispatch.phase \in {"succeeded", "failed"}
      /\ Known(q) /\ record[q].state = "grant_issued" /\ dispatch # None
  BY PhaseFacts, KernelNoneAssumption DEF IndInv, DispatchUnrecorded
<1>2. /\ dispatch' = None
      /\ UNCHANGED <<binding, record, ledger, spent, applied, answered>>
  BY DEF DispatchUnrecorded, Release
<1>3. /\ RecordInv' /\ BindingInv' /\ EvidenceInv' /\ IntentInv'
      /\ OneDecisionPerKey' /\ RecordMatchesLedger' /\ ReplayFaithful'
  BY <1>2, RecordsFrame
<1>4. DispatchInv' /\ DispatchInWindow'
  BY <1>2 DEF DispatchInv, DispatchInWindow
<1>5. /\ \A p \in Ids : p # q =>
            active'[p] = active[p] /\ (p \in unreverted' <=> p \in unreverted)
      /\ q \notin unreverted' => active'[q] = FALSE
      /\ q \in unreverted' => q \in unreverted \/ active[q] = TRUE
  BY <1>1, <1>t
  DEF DispatchUnrecorded, RevertUnrecorded, RevertOrRaise, Phase, IndInv, DispatchInv, TypeOK
<1>6. SpentInv'
  BY <1>2, <1>5 DEF IndInv, SpentInv, Known
<1>7. NoUnrecordedEffect'
  <2> SUFFICES ASSUME NEW p \in Ids, p \notin unreverted'
               PROVE  active'[p] <=> Known(p) /\ record[p].state = "effect_succeeded"
    BY <1>2 DEF NoUnrecordedEffect, Known
  <2>1. CASE p = q
    BY <1>1, <1>5, <2>1
  <2>2. CASE p # q
    BY <1>1, <1>5, <2>2 DEF IndInv, NoUnrecordedEffect
  <2> QED BY <2>1, <2>2
<1> QED BY <1>3, <1>4, <1>6, <1>7 DEF IndInv

-----------------------------------------------------------------------------
(* The invariant *)

(* A grant issued outside a dispatch. *)
LEMMA IssueKeeps ==
    ASSUME IndInv, TypeOK', NEW q \in Ids, IssueGrant(q)
    PROVE  IndInv'
<1>1. /\ dispatch = None /\ dispatch' = None /\ Known(q) /\ IssueGrantLocked(q)
      /\ UNCHANGED <<binding, spent, world, answered>>
  BY DEF IssueGrant, LockFree
<1>2. /\ RecordInv' /\ BindingInv' /\ SpentInv' /\ EvidenceInv' /\ IntentInv'
      /\ OneDecisionPerKey' /\ RecordMatchesLedger' /\ ReplayFaithful'
      /\ \A p \in Ids : p \notin unreverted' =>
            (active'[p] <=> record'[p] # None /\ record'[p].state = "effect_succeeded")
  BY <1>1, GrantKeeps
<1>3. DispatchInv' /\ DispatchInWindow'
  BY <1>1 DEF DispatchInv, DispatchInWindow
<1>4. NoUnrecordedEffect'
  BY <1>2 DEF NoUnrecordedEffect, Known
<1> QED BY <1>2, <1>3, <1>4 DEF IndInv

(* A replay is answered with the submission its key is bound to. *)
LEMMA ReplayKeeps ==
    ASSUME IndInv, TypeOK', NEW c \in Callers, SubmitReplay(c)
    PROVE  IndInv'
<1> DEFINE s == waiting[c].sub
<1>t. TypeOK
  BY DEF IndInv
<1>1. s \in Submissions /\ s.key \in Keys
  BY <1>t, DecideFacts DEF SubmitReplay
<1>2. /\ binding[s.key] = s /\ answered' = answered \cup {<<s, record[s.id].sub>>}
      /\ UNCHANGED <<binding, record, ledger, spent, dispatch, world>>
  BY DEF SubmitReplay, Replay, Answer
<1> HIDE DEF s
<1>3. record[s.id].sub = s
  BY <1>1, <1>2, KernelNoneAssumption DEF IndInv, BindingInv
<1>4. SpentInv' /\ DispatchInv' /\ DispatchInWindow' /\ NoUnrecordedEffect'
  BY <1>2, EffectsFrame
<1>5. ReplayFaithful'
  BY <1>2, <1>3 DEF IndInv, ReplayFaithful
<1>6. RecordInv' /\ BindingInv' /\ EvidenceInv' /\ IntentInv'
  BY <1>2 DEF IndInv, RecordInv, BindingInv, EvidenceInv, IntentInv, Known
<1>7. OneDecisionPerKey' /\ RecordMatchesLedger'
  BY <1>2 DEF IndInv, OneDecisionPerKey, RecordMatchesLedger, Known
<1> QED BY <1>4, <1>5, <1>6, <1>7 DEF IndInv

(* A step of the clock, of a caller before the lock, or of no one. *)
LEMMA QuietKeeps ==
    ASSUME IndInv, TypeOK',
           UNCHANGED <<record, ledger, binding, answered, spent, dispatch, world>>
    PROVE  IndInv'
<1>1. /\ RecordInv' /\ BindingInv' /\ EvidenceInv' /\ IntentInv'
      /\ OneDecisionPerKey' /\ RecordMatchesLedger' /\ ReplayFaithful'
  BY RecordsFrame
<1>2. SpentInv' /\ DispatchInv' /\ DispatchInWindow' /\ NoUnrecordedEffect'
  BY EffectsFrame
<1> QED BY <1>1, <1>2 DEF IndInv

(* The kernel starts with nothing submitted, recorded or applied. *)
LEMMA InitInv == Init => IndInv
<1> SUFFICES ASSUME Init PROVE IndInv
  OBVIOUS
<1>1. TypeOK
  BY WindowAssumption DEF Init, TypeOK, Time
<1>2. RecordInv /\ BindingInv /\ SpentInv /\ DispatchInv
  BY DEF Init, RecordInv, BindingInv, SpentInv, DispatchInv, Known
<1>3. EvidenceInv /\ IntentInv /\ OneDecisionPerKey /\ RecordMatchesLedger
  BY DEF Init, EvidenceInv, IntentInv, OneDecisionPerKey, RecordMatchesLedger, Known
<1>4. DispatchInWindow /\ NoUnrecordedEffect /\ ReplayFaithful
  BY DEF Init, DispatchInWindow, NoUnrecordedEffect, ReplayFaithful, Known
<1> QED BY <1>1, <1>2, <1>3, <1>4 DEF IndInv

(* Every step of every caller keeps the invariant. *)
LEMMA NextInv == IndInv /\ [Next]_vars => IndInv'
<1> SUFFICES ASSUME IndInv, [Next]_vars PROVE IndInv'
  OBVIOUS
<1>t. TypeOK'
  BY TypeStep
<1>1. ASSUME NEW c \in Callers, NEW s \in Submissions, SubmitCheck(c, s) PROVE IndInv'
  BY <1>t, <1>1, QuietKeeps DEF SubmitCheck
<1>2. ASSUME NEW c \in Callers, SubmitDecide(c) \/ SubmitReplay(c) \/ SubmitRejected(c)
      PROVE  IndInv'
  <2>1. CASE SubmitDecide(c)
    BY <1>t, <2>1, DecideKeeps
  <2>2. CASE SubmitReplay(c)
    BY <1>t, <2>2, ReplayKeeps
  <2>3. CASE SubmitRejected(c)
    BY <1>t, <2>3, QuietKeeps DEF SubmitRejected
  <2> QED BY <1>2, <2>1, <2>2, <2>3
<1>3. ASSUME NEW a \in Approvals, AcceptApproval(a) PROVE IndInv'
  BY <1>t, <1>3, ApprovalKeeps
<1>4. ASSUME NEW q \in Ids, \/ IssueGrant(q) \/ ExecuteBegin(q)
                            \/ DispatchValidate(q) \/ DispatchIntent(q)
                            \/ ExecutorSucceeds(q) \/ ExecutorFails(q)
                            \/ DispatchRecords(q) \/ DispatchUnrecorded(q)
      PROVE  IndInv'
  <2>1. CASE IssueGrant(q)
    BY <1>t, <2>1, IssueKeeps
  <2>2. CASE ExecuteBegin(q)
    BY <1>t, <2>2, BeginKeeps
  <2>3. CASE DispatchValidate(q)
    BY <1>t, <2>3, ValidateKeeps
  <2>4. CASE DispatchIntent(q)
    BY <1>t, <2>4, IntentKeeps
  <2>5. CASE ExecutorSucceeds(q)
    BY <1>t, <2>5, SucceedsKeeps
  <2>6. CASE ExecutorFails(q)
    BY <1>t, <2>6, FailsKeeps
  <2>7. CASE DispatchRecords(q)
    BY <1>t, <2>7, OutcomeKeeps
  <2>8. CASE DispatchUnrecorded(q)
    BY <1>t, <2>8, UnrecordedKeeps
  <2> QED BY <1>4, <2>1, <2>2, <2>3, <2>4, <2>5, <2>6, <2>7, <2>8
<1>5. CASE Tick
  BY <1>t, <1>5, QuietKeeps DEF Tick
<1>6. CASE StepBack
  BY <1>t, <1>6, QuietKeeps DEF StepBack
<1>7. CASE UNCHANGED vars
  BY <1>t, <1>7, QuietKeeps DEF vars, world
<1> QED BY <1>1, <1>2, <1>3, <1>4, <1>5, <1>6, <1>7 DEF Next

(* The strengthened invariant holds in every reachable state. *)
THEOREM Inductive == Spec => []IndInv
<1>1. Init => IndInv
  BY InitInv
<1>2. IndInv /\ [Next]_vars => IndInv'
  BY NextInv
<1> QED BY <1>1, <1>2, PTL DEF Spec

-----------------------------------------------------------------------------
(* The theorems *)

(* Type correctness of the kernel's state. *)
THEOREM TypeCorrect == Spec => []TypeOK
<1>1. IndInv => TypeOK
  BY DEF IndInv
<1> QED BY <1>1, Inductive, PTL

(* EffectBroker.dispatch invokes the executor at most once for a request,  *)
(* however often execute_effect is called and whatever failed before.      *)
THEOREM ExecutedAtMostOnce == Spec => []ExecutedOnce
<1>1. IndInv => ExecutedOnce
  BY DEF IndInv, SpentInv, ExecutedOnce
<1> QED BY <1>1, Inductive, PTL

(* Submits that race with one idempotency key get one policy decision.     *)
THEOREM OneDecision == Spec => []OneDecisionPerKey
<1>1. IndInv => OneDecisionPerKey
  BY DEF IndInv
<1> QED BY <1>1, Inductive, PTL

(* submit never answers with the record of another request. *)
THEOREM ReplaysFaithful == Spec => []ReplayFaithful
<1>1. IndInv => ReplayFaithful
  BY DEF IndInv
<1> QED BY <1>1, Inductive, PTL

(* Every intent of the ledger follows the grant and the authority it needs. *)
THEOREM IntentsAuthorised == Spec => []IntentAuthorised
<1>1. IndInv => IntentAuthorised
  <2> SUFFICES ASSUME IndInv, NEW i \in DOMAIN ledger, ledger[i].kind = "intent"
               PROVE  \E g \in 1..(i - 1) :
                        /\ ledger[g].req = ledger[i].req
                        /\ ledger[g].kind = "grant"
                        /\ \/ Before(g, "policy", "policy_authorized")
                           \/ \E a \in 1..(g - 1) :
                                 /\ ledger[a].req = ledger[i].req
                                 /\ ledger[a].kind = "approval"
                                 /\ Before(a, "policy", "approval_required")
    BY DEF IntentAuthorised
  <2>1. PICK g \in 1..(i - 1) : GrantAt(ledger, g, ledger[i].req)
    BY DEF IndInv, IntentInv
  <2>2. \A a \in 1..(g - 1) : ApprovalAt(ledger, a, ledger[i].req) =>
            /\ ledger[a].req = ledger[i].req /\ ledger[a].kind = "approval"
            /\ Before(a, "policy", "approval_required")
    BY DEF ApprovalAt, PolicyAt, Before
  <2> QED BY <2>1, <2>2 DEF GrantAt, PolicyAt, Before
<1> QED BY <1>1, Inductive, PTL

(* An effect is dispatched inside the windows of its grant, its actor      *)
(* context and its approval, whatever the clock did.                       *)
THEOREM DispatchedInWindow == Spec => []DispatchInWindow
<1>1. IndInv => DispatchInWindow
  BY DEF IndInv
<1> QED BY <1>1, Inductive, PTL

(* Outside a dispatch, what is in place is what the records say succeeded. *)
THEOREM NoEffectUnrecorded == Spec => []NoUnrecordedEffect
<1>1. IndInv => NoUnrecordedEffect
  BY DEF IndInv
<1> QED BY <1>1, Inductive, PTL

(* A record is where the last lifecycle envelope of its request put it. *)
THEOREM RecordsMatchLedger == Spec => []RecordMatchesLedger
<1>1. IndInv => RecordMatchesLedger
  BY DEF IndInv
<1> QED BY <1>1, Inductive, PTL

(* No step changes the request or decision of a record, nor the approval   *)
(* and grant of a granted one.                                             *)
THEOREM AuthorityNeverChanges == Spec => AuthorityKept
<1> DEFINE Kept(q) == /\ record'[q] # None
                      /\ record'[q].sub = record[q].sub
                      /\ record'[q].decidedAt = record[q].decidedAt
                      /\ record[q].grant # None =>
                           /\ record'[q].grant = record[q].grant
                           /\ record'[q].approval = record[q].approval
<1> DEFINE Step == \A q \in Ids : Known(q) => Kept(q)
<1>1. ASSUME IndInv, [Next]_vars PROVE Step
  <2>t. TypeOK
    BY <1>1 DEF IndInv
  <2>1. CASE record' = record
    BY <2>1 DEF Known
  <2>2. ASSUME NEW q \in Ids, Known(q), record' = [record EXCEPT ![q] = record'[q]], Kept(q)
        PROVE  Step
    <3>1. \A p \in Ids : p # q => record'[p] = record[p]
      BY <2>t, <2>2 DEF TypeOK
    <3> QED BY <2>2, <3>1 DEF Known
  <2>g. ASSUME NEW q \in Ids, Known(q), IssueGrantLocked(q) PROVE Step
    <3>1. PICK g \in Grants :
            /\ record' = [record EXCEPT ![q].state = "grant_issued", ![q].grant = g]
            /\ record[q].state \in {"policy_authorized", "approved"}
      BY <2>t, <2>g, IssueFacts
    <3>2. record[q].grant = None
      BY <1>1, <2>g, <3>1 DEF IndInv, RecordInv, Granted
    <3>3. record' = [record EXCEPT ![q] = record'[q]] /\ Kept(q)
      BY <2>t, <2>g, <3>1, <3>2, GrantFacts, KernelNoneAssumption
    <3> QED BY <2>2, <2>g, <3>3
  <2>3. ASSUME NEW c \in Callers, SubmitDecide(c) PROVE Step
    <3>1. waiting[c].sub.id \in Ids
      BY <2>t, <2>3, DecideFacts DEF SubmitDecide
    <3>2. /\ ~Known(waiting[c].sub.id)
          /\ \A p \in Ids : p # waiting[c].sub.id => record'[p] = record[p]
      BY <2>t, <2>3, <3>1 DEF SubmitDecide, NewBinding, TypeOK
    <3> QED BY <3>2 DEF Known
  <2>4. ASSUME NEW a \in Approvals, AcceptApproval(a) PROVE Step
    <3>1. /\ a.req \in Ids /\ Known(a.req) /\ Approve(a.req, a)
          /\ record[a.req].state = "approval_required"
      BY <2>4, ApprovalAssumption DEF AcceptApproval, ApprovalValid
    <3>2. record[a.req].grant = None
      BY <1>1, <3>1 DEF IndInv, RecordInv, Granted
    <3>3. record' = [record EXCEPT ![a.req] = record'[a.req]] /\ Kept(a.req)
      BY <2>t, <3>1, <3>2, ApproveFacts, KernelNoneAssumption
    <3> QED BY <2>2, <3>1, <3>3
  <2>5. ASSUME NEW q \in Ids, DispatchRecords(q) PROVE Step
    <3>1. Known(q) /\ OutcomeState \in Lifecycle
          /\ record' = [record EXCEPT ![q].state = OutcomeState]
      BY <1>1, <2>5, PhaseFacts DEF DispatchRecords, OutcomeState, Lifecycle, IndInv
    <3>2. record' = [record EXCEPT ![q] = record'[q]] /\ Kept(q)
      BY <2>t, <3>1, OutcomeFacts, KernelNoneAssumption
    <3> QED BY <2>2, <3>1, <3>2
  <2>6. ASSUME NEW q \in Ids, IssueGrant(q) \/ ExecuteBegin(q) PROVE Step
    <3>1. Known(q) /\ (IssueGrantLocked(q) \/ record' = record)
      BY <2>6 DEF IssueGrant, ExecuteBegin
    <3> QED BY <2>1, <2>g, <3>1
  <2>7. ASSUME NEW q \in Ids, \/ DispatchValidate(q) \/ DispatchIntent(q)
                              \/ ExecutorSucceeds(q) \/ ExecutorFails(q)
                              \/ DispatchUnrecorded(q)
        PROVE  record' = record
    BY <2>7 DEF DispatchValidate, DispatchIntent, ExecutorSucceeds, ExecutorFails,
                DispatchUnrecorded
  <2>8. ASSUME NEW c \in Callers, NEW s \in Submissions, SubmitCheck(c, s)
        PROVE  record' = record
    BY <2>8 DEF SubmitCheck
  <2>9. ASSUME NEW c \in Callers, SubmitReplay(c) \/ SubmitRejected(c)
        PROVE  record' = record
    BY <2>9 DEF SubmitReplay, SubmitRejected
  <2>10. Tick \/ StepBack \/ UNCHANGED vars => record' = record
    BY DEF Tick, StepBack, vars
  <2> HIDE DEF Step
  <2> QED BY <1>1, <2>1, <2>3, <2>4, <2>5, <2>6, <2>7, <2>8, <2>9, <2>10 DEF Next
<1>2. IndInv /\ [Next]_vars =>
        [\A q \in Ids : Known(q) =>
           /\ Known(q)'
           /\ record'[q].sub = record[q].sub
           /\ record'[q].decidedAt = record[q].decidedAt
           /\ record[q].grant # None =>
                /\ record'[q].grant = record[q].grant
                /\ record'[q].approval = record[q].approval]_vars
  BY <1>1 DEF Known
<1> QED BY <1>2, Inductive, PTL DEF Spec, AuthorityKept

-----------------------------------------------------------------------------
(* Refinement *)

(* The abstract status and answers of the kernel's state. *)
StatusBar == [q \in Ids |-> EffectStatus(q)]
ToldBar == [q \in Ids |-> {EffectStatus(q)} \cap {"completed", "indeterminate"}]

Resolved == {"effect_succeeded", "effect_indeterminate"}

(* A request without an outcome is intended once its grant is spent. *)
LEMMA StatusOpen ==
    ASSUME NEW q, ~Known(q) \/ record[q].state \notin Resolved
    PROVE  EffectStatus(q) = IF q \in spent THEN "intended" ELSE "absent"
BY DEF EffectStatus, Resolved

LEMMA StatusOpenNext ==
    ASSUME NEW q, record'[q] = None \/ record'[q].state \notin Resolved
    PROVE  EffectStatus(q)' = IF q \in spent' THEN "intended" ELSE "absent"
BY DEF EffectStatus, Resolved, Known

(* Where a record stays or moves short of an outcome, nothing abstract     *)
(* happens.                                                                *)
LEMMA QuietRefines ==
    ASSUME spent' = spent, applied' = applied,
           \A q \in Ids :
              \/ record'[q] = record[q]
              \/ /\ ~Known(q) \/ record[q].state \notin Resolved
                 /\ record'[q] = None \/ record'[q].state \notin Resolved
    PROVE  UNCHANGED Once!vars
<1>1. ASSUME NEW q \in Ids PROVE EffectStatus(q)' = EffectStatus(q)
  <2>1. CASE record'[q] = record[q]
    BY <2>1 DEF EffectStatus, Known
  <2>2. CASE record'[q] # record[q]
    BY <2>2, StatusOpen, StatusOpenNext
  <2> QED BY <2>1, <2>2
<1>2. StatusBar' = StatusBar /\ ToldBar' = ToldBar
  BY <1>1 DEF StatusBar, ToldBar
<1> QED BY <1>2 DEF Once!vars, StatusBar, ToldBar

(* Spending the grant is the abstract intent. *)
LEMMA IntentRefines ==
    ASSUME IndInv, NEW q \in Ids, Phase(q, "validated"), spent' = spent \cup {q},
           UNCHANGED <<record, applied>>
    PROVE  Once!Intend(q)
<1>1. Known(q) /\ record[q].state = "grant_issued" /\ q \notin spent
  BY PhaseFacts DEF IndInv, DispatchInv, Phase
<1>2. EffectStatus(q) = "absent" /\ EffectStatus(q)' = "intended"
  BY <1>1, StatusOpen, StatusOpenNext DEF Resolved
<1>3. \A p \in Ids \ {q} : EffectStatus(p)' = EffectStatus(p)
  BY DEF EffectStatus, Known
<1>4. StatusBar[q] = "absent" /\ StatusBar' = [StatusBar EXCEPT ![q] = "intended"]
  BY <1>2, <1>3 DEF StatusBar
<1>5. ToldBar' = ToldBar
  BY <1>2, <1>3 DEF ToldBar
<1> QED BY <1>4, <1>5 DEF Once!Intend, StatusBar, ToldBar

(* The executor's invocation is the abstract effect, whether it succeeds   *)
(* or fails.                                                               *)
LEMMA ExecutorRefines ==
    ASSUME IndInv, NEW q \in Ids, Phase(q, "intended"),
           applied' = [applied EXCEPT ![q] = @ + 1], UNCHANGED <<record, spent>>
    PROVE  Once!Apply(q)
<1>1. /\ Known(q) /\ record[q].state = "grant_issued" /\ q \in spent /\ applied[q] = 0
  BY PhaseFacts DEF IndInv, DispatchInv, Phase
<1>2. applied' = [applied EXCEPT ![q] = 1]
  BY <1>1
<1>3. StatusBar[q] # "absent"
  BY <1>1, StatusOpen DEF Resolved, StatusBar
<1>4. StatusBar' = StatusBar /\ ToldBar' = ToldBar
  BY DEF StatusBar, ToldBar, EffectStatus, Known
<1> QED BY <1>1, <1>2, <1>3, <1>4 DEF Once!Apply, StatusBar, ToldBar

(* The recorded outcome is the abstract resolution. *)
LEMMA OutcomeRefines ==
    ASSUME IndInv, NEW q \in Ids, DispatchRecords(q)
    PROVE  \E res \in Once!Resolutions : Once!Resolve(q, res)
<1>t. TypeOK
  BY DEF IndInv
<1>1. /\ Known(q) /\ record[q].state = "grant_issued" /\ q \in spent
      /\ dispatch.phase = "succeeded" => applied[q] = 1
  <2>1. /\ Known(q) /\ record[q].state = "grant_issued" /\ dispatch.req = q
        /\ dispatch # None /\ dispatch.phase \in {"succeeded", "failed"}
    BY PhaseFacts DEF IndInv, DispatchRecords, Phase
  <2>2. applied[q] \in {0, 1} /\ (applied[q] = 0 => active[q] = FALSE)
    BY DEF IndInv, SpentInv
  <2> QED BY <2>1, <2>2 DEF IndInv, DispatchInv
<1>2. OutcomeState \in Resolved /\ OutcomeState \in Lifecycle
  BY DEF OutcomeState, Resolved, Lifecycle
<1>3. /\ record' = [record EXCEPT ![q].state = OutcomeState]
      /\ spent' = spent /\ applied' = applied
  BY DEF DispatchRecords, world
<1>4. /\ record' = [record EXCEPT ![q] = record'[q]] /\ record'[q] \in Records
      /\ record'[q].state = OutcomeState
  BY <1>t, <1>1, <1>2, <1>3, OutcomeFacts
<1>5. \A p \in Ids \ {q} : record'[p] = record[p]
  BY <1>t, <1>4 DEF TypeOK
<1>6. \A p \in Ids \ {q} : EffectStatus(p)' = EffectStatus(p)
  BY <1>3, <1>5 DEF EffectStatus, Known
<1> DEFINE res == EffectStatus(q)'
<1>7. /\ EffectStatus(q) = "intended" /\ res \in {"completed", "indeterminate"}
      /\ res = "completed" => dispatch.phase = "succeeded"
  <2>1. EffectStatus(q) = "intended"
    BY <1>1, StatusOpen DEF Resolved
  <2>2. Known(q)'
    BY <1>4, KernelNoneAssumption DEF Known
  <2> QED BY <1>2, <1>4, <2>1, <2>2 DEF EffectStatus, OutcomeState, Resolved
<1> HIDE DEF res
<1>8. StatusBar[q] = "intended" /\ StatusBar' = [StatusBar EXCEPT ![q] = res]
  BY <1>6, <1>7 DEF StatusBar, res
<1>9. ToldBar' = [ToldBar EXCEPT ![q] = @ \cup {res}]
  <2>1. ToldBar[q] = {} /\ ToldBar'[q] = {res}
    BY <1>7 DEF ToldBar, res
  <2>2. \A p \in Ids \ {q} : ToldBar'[p] = ToldBar[p]
    BY <1>6 DEF ToldBar
  <2>3. DOMAIN ToldBar = Ids /\ DOMAIN ToldBar' = Ids /\ ToldBar = [p \in Ids |-> ToldBar[p]]
        /\ ToldBar' = [p \in Ids |-> ToldBar'[p]]
    BY DEF ToldBar
  <2> QED BY <2>1, <2>2, <2>3
<1>10. Once!Resolve(q, res)
  BY <1>1, <1>3, <1>7, <1>8, <1>9 DEF Once!Resolve, StatusBar, ToldBar
<1> QED BY <1>7, <1>10 DEF Once!Resolutions

(* Every step is an abstract step or a stuttering step. *)
LEMMA StepRefines == IndInv /\ [Next]_vars => [Once!Next]_(Once!vars)
<1> SUFFICES ASSUME IndInv, [Next]_vars PROVE Once!Next \/ UNCHANGED Once!vars
  OBVIOUS
<1>t. TypeOK
  BY DEF IndInv
<1>q. ASSUME UNCHANGED <<record, spent, applied>> PROVE UNCHANGED Once!vars
  BY <1>q, QuietRefines
<1>g. ASSUME NEW q \in Ids, Known(q), IssueGrantLocked(q), UNCHANGED <<spent, applied>>
      PROVE  UNCHANGED Once!vars
  <2>1. PICK g \in Grants :
          /\ record' = [record EXCEPT ![q].state = "grant_issued", ![q].grant = g]
          /\ record[q].state \in {"policy_authorized", "approved"}
    BY <1>t, <1>g, IssueFacts
  <2>2. record' = [record EXCEPT ![q] = record'[q]] /\ record'[q].state = "grant_issued"
    BY <1>t, <1>g, <2>1, GrantFacts
  <2>3. \A p \in Ids \ {q} : record'[p] = record[p]
    BY <1>t, <2>2 DEF TypeOK
  <2> QED BY <1>g, <2>1, <2>2, <2>3, QuietRefines DEF Resolved
<1>1. ASSUME NEW c \in Callers, NEW s \in Submissions, SubmitCheck(c, s)
      PROVE  UNCHANGED Once!vars
  BY <1>1, <1>q DEF SubmitCheck, world
<1>2. ASSUME NEW c \in Callers, SubmitDecide(c) PROVE UNCHANGED Once!vars
  <2> DEFINE s == waiting[c].sub
  <2> DEFINE st == DecisionState(Evaluate(s))
  <2>1. s \in Submissions /\ s.id \in Ids
    BY <1>t, <1>2, DecideFacts DEF SubmitDecide
  <2>2. st \in {"denied", "approval_required", "policy_authorized"}
    BY <2>1, Decided
  <2> DEFINE r == [sub |-> s, state |-> st, decidedAt |-> waiting[c].at,
                   approval |-> None, grant |-> None]
  <2>3. record' = [record EXCEPT ![s.id] = r] /\ r.state = st
    BY <1>2 DEF SubmitDecide
  <2>4. ~Known(s.id) /\ UNCHANGED <<spent, applied>>
    BY <1>2 DEF SubmitDecide, NewBinding, world
  <2> HIDE DEF r
  <2>5. /\ record'[s.id].state = st
        /\ \A p \in Ids : p # s.id => record'[p] = record[p]
    BY <1>t, <2>1, <2>3 DEF TypeOK
  <2> HIDE DEF s, st
  <2> QED BY <2>2, <2>4, <2>5, QuietRefines DEF Resolved
<1>3. ASSUME NEW c \in Callers, SubmitReplay(c) \/ SubmitRejected(c)
      PROVE  UNCHANGED Once!vars
  BY <1>3, <1>q DEF SubmitReplay, SubmitRejected, world
<1>4. ASSUME NEW a \in Approvals, AcceptApproval(a) PROVE UNCHANGED Once!vars
  <2>1. /\ a.req \in Ids /\ Known(a.req) /\ Approve(a.req, a)
        /\ record[a.req].state = "approval_required" /\ UNCHANGED <<spent, applied>>
    BY <1>4, ApprovalAssumption DEF AcceptApproval, ApprovalValid, world
  <2>2. /\ record' = [record EXCEPT ![a.req] = record'[a.req]]
        /\ record'[a.req].state = "approved"
    BY <1>t, <2>1, ApproveFacts
  <2>3. \A p \in Ids \ {a.req} : record'[p] = record[p]
    BY <1>t, <2>2 DEF TypeOK
  <2> QED BY <2>1, <2>2, <2>3, QuietRefines DEF Resolved
<1>5. ASSUME NEW q \in Ids, IssueGrant(q) \/ ExecuteBegin(q) PROVE UNCHANGED Once!vars
  <2>1. /\ Known(q) /\ (IssueGrantLocked(q) \/ record' = record)
        /\ UNCHANGED <<spent, applied>>
    BY <1>5 DEF IssueGrant, ExecuteBegin, world
  <2> QED BY <1>q, <1>g, <2>1
<1>6. ASSUME NEW q \in Ids, DispatchValidate(q) \/ DispatchUnrecorded(q)
      PROVE  UNCHANGED Once!vars
  BY <1>6, <1>q DEF DispatchValidate, DispatchUnrecorded, world
<1>7. ASSUME NEW q \in Ids, DispatchIntent(q) PROVE Once!Next \/ UNCHANGED Once!vars
  <2>1. CASE spent' = spent
    BY <1>7, <1>q, <2>1 DEF DispatchIntent, world
  <2>2. CASE spent' = spent \cup {q}
    BY <1>7, <2>2, IntentRefines DEF DispatchIntent, world, Once!Next
  <2> QED BY <1>7, <2>1, <2>2 DEF DispatchIntent
<1>8. ASSUME NEW q \in Ids, ExecutorSucceeds(q) \/ ExecutorFails(q) PROVE Once!Next
  BY <1>8, ExecutorRefines DEF ExecutorSucceeds, ExecutorFails, Once!Next
<1>9. ASSUME NEW q \in Ids, DispatchRecords(q) PROVE Once!Next
  BY <1>9, OutcomeRefines DEF Once!Next
<1>10. Tick \/ StepBack \/ UNCHANGED vars => UNCHANGED Once!vars
  BY <1>q DEF Tick, StepBack, vars, world
<1> QED BY <1>1, <1>2, <1>3, <1>4, <1>5, <1>6, <1>7, <1>8, <1>9, <1>10 DEF Next

(* The in-memory kernel and broker implement the abstract at-most-once     *)
(* effect that the durable path implements.                                *)
THEOREM BrokerRefinement == Spec => BrokerImplementsEffectOnce
<1>1. Init => Once!Init
  <2> SUFFICES ASSUME Init PROVE Once!Init
    OBVIOUS
  <2>1. \A q \in Ids : EffectStatus(q) = "absent"
    BY StatusOpen DEF Init, Known
  <2> QED BY <2>1 DEF Init, Once!Init
<1>2. IndInv /\ [Next]_vars => [Once!Next]_(Once!vars)
  BY StepRefines
<1> QED BY <1>1, <1>2, Inductive, PTL DEF Spec, BrokerImplementsEffectOnce, Once!Spec

===============================================================================
