------------------------ MODULE DurableLifecycleProofs ------------------------
(***************************************************************************)
(* Proofs about DurableLifecycle for every set of kernels, requests,       *)
(* approvers and damages and every policy.                                 *)
(*                                                                         *)
(* What makes the properties inductive: in the ledger of a request an      *)
(* approval stands right after its policy and a grant right after its      *)
(* approval, whatever befell the projection; the row, when there is one,   *)
(* is in the state of the last event; a ledger with one policy is thus a   *)
(* prefix of policy, approval, grant; and a transaction that is about to   *)
(* write holds the row of that prefix.                                     *)
(***************************************************************************)
EXTENDS DurableLifecycle, Integers, TLAPS, SequenceTheorems

(* What stands where in the ledger of q. *)
Ordered(q, es) ==
    \A i \in DOMAIN es :
        /\ es[i].kind = "policy" =>
             /\ es[i].state = DecidedState(Decision[q])
             /\ es[i].id = i
             /\ Decision[q] # "authorize"
        /\ es[i].kind = "approval" =>
             /\ es[i].state = "approved"
             /\ es[i].id \in Approvers
             /\ i > 1
             /\ es[i - 1].kind = "policy"
             /\ Decision[q] = "require_approval"
        /\ es[i].kind = "grant" =>
             /\ es[i].state = "grant_issued"
             /\ es[i].id \in Kernels
             /\ i > 2
             /\ es[i - 1].kind = "approval"

(* Only the first event is a policy decision. *)
OnePolicy(es) == \A i \in DOMAIN es : es[i].kind = "policy" => i = 1

(* The rows a transaction may write over. *)
DecidedRow == [state |-> "approval_required", version |-> 1, policies |-> {1},
               approvals |-> {}, grants |-> {}]
ApprovedRow(a) == [state |-> "approved", version |-> 2, policies |-> {1},
                   approvals |-> {a}, grants |-> {}]

(* A call in progress, over the ledgers ev. *)
CallGood(c, ev) ==
    /\ c \in Calls
    /\ c.op = "approve" => c.by \in Approvers
    /\ c.next = "insert" => Decision[c.req] # "authorize"
    /\ c.next \in {"evidence", "write"} => c.row \in Rows
    /\ c.next = "write" /\ c.op = "approve" => c.row = DecidedRow /\ c.want = 1
    /\ c.next = "write" /\ c.op # "approve" =>
         /\ c.op \in {"grant", "execute"}
         /\ Len(ev[c.req]) >= 2
         /\ c.row = ApprovedRow(ev[c.req][2].id)
         /\ c.want = 2

(* The projection of a ledger, damaged or not. *)
RowGood(row, es) == es # <<>> /\ row.state = es[Len(es)].state

(* A kernel's record of q, over its ledger. *)
RecordGood(q, row, es) ==
    /\ es # <<>>
    /\ row.grants \subseteq IdsOf(es, "grant")
    /\ Replayable(q, es) => \E n \in 1..Len(es) : row = Replay(SubSeq(es, 1, n))

EventsInv == \A q \in Requests : Ordered(q, events[q])
CallInv == \A k \in Kernels : txn[k] # None => CallGood(txn[k], events)
RowInv == \A q \in Requests : proj[q] # None => RowGood(proj[q], events[q])
RecordInv == \A k \in Kernels, q \in Requests :
                cache[k][q] # None => RecordGood(q, cache[k][q], events[q])
DamageInv == \A q \in Requests \ damaged : OnePolicy(events[q])
GrantInv == \A d \in dispatched : d[2] \in IdsOf(events[d[1]], "grant")

IndInv ==
    /\ TypeOK
    /\ EventsInv
    /\ CallInv
    /\ RowInv
    /\ RecordInv
    /\ DamageInv
    /\ GrantInv
    /\ ProjectionFollowsLedger

-----------------------------------------------------------------------------
(* Ledgers *)

(* An appended event, and what stays. *)
LEMMA AppendFacts ==
    ASSUME NEW es \in Seq(Events), NEW e \in Events
    PROVE  /\ Append(es, e) \in Seq(Events)
           /\ Len(Append(es, e)) = Len(es) + 1
           /\ DOMAIN es = 1..Len(es)
           /\ Len(es) \in Nat
           /\ DOMAIN Append(es, e) = 1..(Len(es) + 1)
           /\ \A i \in DOMAIN es : Append(es, e)[i] = es[i]
           /\ Append(es, e)[Len(es) + 1] = e
           /\ Append(es, e) # <<>>
  OBVIOUS

(* The ids of one kind after an append. *)
LEMMA AppendIds ==
    ASSUME NEW es \in Seq(Events), NEW e \in Events, NEW kind
    PROVE  IdsOf(Append(es, e), kind) =
              IdsOf(es, kind) \cup (IF e.kind = kind THEN {e.id} ELSE {})
<1> DEFINE t == Append(es, e)
<1>1. /\ DOMAIN es = 1..Len(es) /\ Len(es) \in Nat /\ DOMAIN t = 1..(Len(es) + 1)
      /\ \A i \in DOMAIN es : t[i] = es[i]
      /\ t[Len(es) + 1] = e
  BY AppendFacts
<1> HIDE DEF t
<1>2. ASSUME NEW x \in IdsOf(t, kind)
      PROVE  x \in IdsOf(es, kind) \/ (e.kind = kind /\ x = e.id)
  <2>1. PICK i \in DOMAIN t : t[i].kind = kind /\ x = t[i].id
    BY <1>2 DEF IdsOf
  <2>2. CASE i \in DOMAIN es
    BY <1>1, <2>1, <2>2 DEF IdsOf
  <2>3. CASE i = Len(es) + 1
    BY <1>1, <2>1, <2>3
  <2> QED BY <1>1, <2>2, <2>3
<1>3. ASSUME NEW x \in IdsOf(es, kind) PROVE x \in IdsOf(t, kind)
  BY <1>1, <1>3 DEF IdsOf
<1>4. e.kind = kind => e.id \in IdsOf(t, kind)
  BY <1>1 DEF IdsOf
<1> QED BY <1>2, <1>3, <1>4 DEF t

(* A ledger with one policy is a prefix of policy, approval, grant. *)
LEMMA Shape ==
    ASSUME NEW q, NEW es \in Seq(Events), es # <<>>, Ordered(q, es), OnePolicy(es)
    PROVE  /\ Len(es) \in {1, 2, 3}
           /\ es[1].kind = "policy" /\ es[1].id = 1
           /\ Len(es) >= 2 => es[2].kind = "approval"
           /\ Len(es) = 3 => es[3].kind = "grant"
<1>1. /\ DOMAIN es = 1..Len(es) /\ Len(es) \in Nat /\ Len(es) >= 1
  OBVIOUS
<1>2. \A i \in DOMAIN es : es[i].kind \in {"policy", "approval", "grant"}
  <2>1. \A i \in DOMAIN es : es[i] \in Events
    OBVIOUS
  <2> QED BY <2>1 DEF Events
<1>3. es[1].kind = "policy" /\ es[1].id = 1
  BY <1>1, <1>2 DEF Ordered
<1>4. Len(es) >= 2 => es[2].kind = "approval"
  <2> SUFFICES ASSUME Len(es) >= 2 PROVE es[2].kind = "approval"
    OBVIOUS
  <2>1. 2 \in DOMAIN es
    BY <1>1
  <2> QED BY <1>2, <2>1 DEF Ordered, OnePolicy
<1>5. Len(es) >= 3 => es[3].kind = "grant"
  <2> SUFFICES ASSUME Len(es) >= 3 PROVE es[3].kind = "grant"
    OBVIOUS
  <2>1. 3 \in DOMAIN es /\ es[2].kind = "approval"
    BY <1>1, <1>4
  <2>2. es[3].kind # "policy"
    BY <2>1 DEF OnePolicy
  <2>3. es[3].kind # "approval"
    <3>1. 3 - 1 = 2
      OBVIOUS
    <3> QED BY <2>1, <3>1 DEF Ordered
  <2> QED BY <1>2, <2>1, <2>2, <2>3
<1>6. ~(Len(es) >= 4)
  <2> SUFFICES ASSUME Len(es) >= 4 PROVE FALSE
    OBVIOUS
  <2>1. 4 \in DOMAIN es /\ es[3].kind = "grant" /\ 4 - 1 = 3
    BY <1>1, <1>5
  <2>2. es[4].kind # "policy"
    BY <2>1 DEF OnePolicy
  <2>3. es[4].kind # "approval" /\ es[4].kind # "grant"
    BY <2>1 DEF Ordered
  <2> QED BY <1>2, <2>1, <2>2, <2>3
<1> QED BY <1>1, <1>3, <1>4, <1>5, <1>6

(* One policy is what _replay_lifecycle asks of an ordered ledger. *)
LEMMA ReplayableShape ==
    ASSUME NEW q \in Requests, NEW es \in Seq(Events), Ordered(q, es)
    PROVE  Replayable(q, es) <=> es # <<>> /\ OnePolicy(es)
<1>1. ASSUME Replayable(q, es) PROVE es # <<>> /\ OnePolicy(es)
  <2>1. es # <<>> /\ 1 \in DOMAIN es
    BY <1>1 DEF Replayable
  <2> QED BY <1>1, <2>1 DEF Replayable, OnePolicy
<1>2. ASSUME es # <<>>, OnePolicy(es) PROVE Replayable(q, es)
  <2>1. /\ Len(es) \in {1, 2, 3}
        /\ es[1].kind = "policy"
        /\ Len(es) >= 2 => es[2].kind = "approval"
        /\ Len(es) = 3 => es[3].kind = "grant"
        /\ DOMAIN es = 1..Len(es)
    BY <1>2, Shape
  <2>2. \A i \in DOMAIN es : i \in {1, 2, 3} /\
             \/ i = 1 /\ es[i].kind = "policy"
             \/ i = 2 /\ es[i].kind = "approval"
             \/ i = 3 /\ es[i].kind = "grant"
    BY <2>1
  <2>3. \A i, j \in DOMAIN es : es[i].kind = es[j].kind => i = j
    BY <2>2
  <2>4. \A i, j \in DOMAIN es : es[i].kind = "approval" /\ es[j].kind = "grant" => i < j
    BY <2>2
  <2>5. IdsOf(es, "approval") # {} => Decision[q] = "require_approval"
    BY DEF IdsOf, Ordered
  <2> QED BY <1>2, <2>1, <2>3, <2>4, <2>5 DEF Replayable
<1> QED BY <1>1, <1>2

(* The projection of such a ledger. *)
LEMMA ReplayShape ==
    ASSUME NEW q, NEW es \in Seq(Events), es # <<>>, Ordered(q, es), OnePolicy(es)
    PROVE  Replay(es) = [state |-> es[Len(es)].state, version |-> Len(es), policies |-> {1},
                         approvals |-> IF Len(es) >= 2 THEN {es[2].id} ELSE {},
                         grants |-> IF Len(es) = 3 THEN {es[3].id} ELSE {}]
<1>1. /\ Len(es) \in {1, 2, 3}
      /\ es[1].kind = "policy" /\ es[1].id = 1
      /\ Len(es) >= 2 => es[2].kind = "approval"
      /\ Len(es) = 3 => es[3].kind = "grant"
      /\ DOMAIN es = 1..Len(es)
  BY Shape
<1>2. IdsOf(es, "policy") = {1}
  BY <1>1 DEF IdsOf, OnePolicy
<1>3. IdsOf(es, "approval") = IF Len(es) >= 2 THEN {es[2].id} ELSE {}
  BY <1>1 DEF IdsOf
<1>4. IdsOf(es, "grant") = IF Len(es) = 3 THEN {es[3].id} ELSE {}
  BY <1>1 DEF IdsOf
<1> QED BY <1>2, <1>3, <1>4 DEF Replay

(* A prefix does not change when the ledger grows. *)
LEMMA PrefixStays ==
    ASSUME NEW es \in Seq(Events), NEW e \in Events, NEW n \in 1..Len(es)
    PROVE  SubSeq(Append(es, e), 1, n) = SubSeq(es, 1, n)
<1>1. Append(es, e) = es \o <<e>>
  OBVIOUS
<1>2. <<e>> \in Seq(Events)
  OBVIOUS
<1>3. 1 \in 1..Len(es)
  OBVIOUS
<1> QED BY <1>1, <1>2, <1>3, SubSeqOfConcat1

(* The row a submission inserts. *)
LEMMA SubmittedFacts ==
    ASSUME NEW es \in Seq(Events), es # <<>>, NEW st \in LifecycleStates
    PROVE  /\ SubmittedRow(es, st) = [state |-> st, version |-> 1, policies |-> {Len(es)},
                                      approvals |-> {}, grants |-> {}]
           /\ SubmittedRow(es, st) \in Rows
<1> DEFINE e == Event("policy", st, Len(es))
<1> DEFINE one == <<e>>
<1>1. /\ Len(one) = 1 /\ DOMAIN one = {1} /\ one[1] = e
      /\ e.kind = "policy" /\ e.state = st /\ e.id = Len(es)
  BY DEF Event
<1> HIDE DEF one, e
<1>2. /\ IdsOf(one, "policy") = {Len(es)} /\ IdsOf(one, "approval") = {}
      /\ IdsOf(one, "grant") = {}
  BY <1>1 DEF IdsOf
<1>3. Replay(one) = [state |-> st, version |-> 1, policies |-> {Len(es)},
                     approvals |-> {}, grants |-> {}]
  BY <1>1, <1>2 DEF Replay
<1>4. SubmittedRow(es, st) = Replay(one)
  BY DEF SubmittedRow, one, e
<1>5. Len(es) \in Nat \ {0}
  OBVIOUS
<1> QED BY <1>3, <1>4, <1>5 DEF Rows

(* Replaying an ordered ledger with one policy gives a row. *)
LEMMA ReplayTyped ==
    ASSUME NEW q, NEW es \in Seq(Events), es # <<>>, Ordered(q, es), OnePolicy(es)
    PROVE  Replay(es) \in Rows
<1>1. /\ Len(es) \in {1, 2, 3}
      /\ Len(es) >= 2 => es[2].kind = "approval"
      /\ Len(es) = 3 => es[3].kind = "grant"
      /\ DOMAIN es = 1..Len(es)
  BY Shape
<1>2. /\ Len(es) >= 2 => es[2].id \in Approvers
      /\ Len(es) = 3 => es[3].id \in Kernels
  BY <1>1 DEF Ordered
<1>3. es[Len(es)].state \in LifecycleStates
  <2>1. es[Len(es)] \in Events
    BY <1>1
  <2> QED BY <2>1 DEF Events
<1>4. Replay(es) = [state |-> es[Len(es)].state, version |-> Len(es), policies |-> {1},
                    approvals |-> IF Len(es) >= 2 THEN {es[2].id} ELSE {},
                    grants |-> IF Len(es) = 3 THEN {es[3].id} ELSE {}]
  BY ReplayShape
<1> QED BY <1>1, <1>2, <1>3, <1>4 DEF Rows

(* What a write makes of a row. *)
LEMMA WrittenFields ==
    ASSUME NEW s, NEW v, NEW p, NEW a, NEW g, NEW kind, NEW state, NEW id
    PROVE  WrittenRow([state |-> s, version |-> v, policies |-> p, approvals |-> a,
                       grants |-> g], Event(kind, state, id)) =
              [state |-> state, version |-> v + 1, policies |-> p,
               approvals |-> IF kind = "approval" THEN {id} ELSE a,
               grants |-> IF kind = "grant" THEN {id} ELSE g]
<1> DEFINE e == Event(kind, state, id)
<1> DEFINE na == IF kind = "approval" THEN {id} ELSE a
<1> DEFINE ng == IF kind = "grant" THEN {id} ELSE g
<1> DEFINE r0 == [state |-> s, version |-> v, policies |-> p, approvals |-> a, grants |-> g]
<1> DEFINE r1 == [state |-> state, version |-> v, policies |-> p, approvals |-> a,
                  grants |-> g]
<1> DEFINE r2 == [state |-> state, version |-> v + 1, policies |-> p, approvals |-> a,
                  grants |-> g]
<1> DEFINE r3 == [state |-> state, version |-> v + 1, policies |-> p, approvals |-> na,
                  grants |-> g]
<1> DEFINE r4 == [state |-> state, version |-> v + 1, policies |-> p, approvals |-> na,
                  grants |-> ng]
<1>1. e.kind = kind /\ e.state = state /\ e.id = id
  BY DEF Event
<1>2. WrittenRow(r0, e) =
        [[[[r0 EXCEPT !.state = e.state] EXCEPT !.version = @ + 1]
             EXCEPT !.approvals = IF e.kind = "approval" THEN {e.id} ELSE @]
             EXCEPT !.grants = IF e.kind = "grant" THEN {e.id} ELSE @]
  BY DEF WrittenRow
<1> HIDE DEF e
<1>3. [r0 EXCEPT !.state = e.state] = r1
  BY <1>1
<1>4. [r1 EXCEPT !.version = @ + 1] = r2
  OBVIOUS
<1>5. [r2 EXCEPT !.approvals = IF e.kind = "approval" THEN {e.id} ELSE @] = r3
  BY <1>1
<1>6. [r3 EXCEPT !.grants = IF e.kind = "grant" THEN {e.id} ELSE @] = r4
  BY <1>1
<1> HIDE DEF r0, r1, r2, r3, r4
<1>7. WrittenRow(r0, e) = r4
  BY <1>2, <1>3, <1>4, <1>5, <1>6
<1> QED BY <1>7 DEF r0, r4, e, na, ng

(* What a write makes of the rows it may write over. *)
LEMMA WrittenFacts ==
    ASSUME NEW a, NEW id
    PROVE  /\ WrittenRow(DecidedRow, Event("approval", "approved", id)) = ApprovedRow(id)
           /\ WrittenRow(ApprovedRow(a), Event("grant", "grant_issued", id)) =
                 [state |-> "grant_issued", version |-> 3, policies |-> {1},
                  approvals |-> {a}, grants |-> {id}]
<1>1. WrittenRow(DecidedRow, Event("approval", "approved", id)) =
        [state |-> "approved", version |-> 1 + 1, policies |-> {1},
         approvals |-> IF "approval" = "approval" THEN {id} ELSE {},
         grants |-> IF "approval" = "grant" THEN {id} ELSE {}]
  BY WrittenFields DEF DecidedRow
<1>2. WrittenRow(ApprovedRow(a), Event("grant", "grant_issued", id)) =
        [state |-> "grant_issued", version |-> 2 + 1, policies |-> {1},
         approvals |-> IF "grant" = "approval" THEN {id} ELSE {a},
         grants |-> IF "grant" = "grant" THEN {id} ELSE {}]
  BY WrittenFields DEF ApprovedRow
<1> QED BY <1>1, <1>2 DEF ApprovedRow

-----------------------------------------------------------------------------
(* Frames *)

(* What is about the database alone. *)
LEMMA DatabaseFrame ==
    ASSUME IndInv, UNCHANGED <<events, proj, damaged>>
    PROVE  EventsInv' /\ RowInv' /\ DamageInv' /\ ProjectionFollowsLedger'
  BY DEF IndInv, EventsInv, RowInv, DamageInv, ProjectionFollowsLedger

(* One kernel goes on with another call, or with none. *)
LEMMA CallsFrame ==
    ASSUME IndInv, events' = events, NEW k \in Kernels, NEW c,
           c = None \/ CallGood(c, events), txn' = [txn EXCEPT ![k] = c]
    PROVE  CallInv' /\ txn' \in [Kernels -> Calls \cup {None}]
<1>1. txn \in [Kernels -> Calls \cup {None}]
  BY DEF IndInv, TypeOK
<1>2. c \in Calls \cup {None}
  BY DEF CallGood
<1>3. ASSUME NEW j \in Kernels, txn'[j] # None PROVE CallGood(txn'[j], events)
  <2>1. CASE j = k
    BY <1>1, <1>3, <2>1
  <2>2. CASE j # k
    BY <1>1, <1>3, <2>2 DEF IndInv, CallInv
  <2> QED BY <2>1, <2>2
<1> QED BY <1>1, <1>2, <1>3 DEF CallInv

(* The kernels' records and what they dispatched. *)
LEMMA RecordsFrame ==
    ASSUME IndInv, events' = events
    PROVE  /\ cache' = cache => RecordInv'
           /\ dispatched' = dispatched => GrantInv'
  BY DEF IndInv, RecordInv, GrantInv

(* A kernel keeps a record. *)
LEMMA RememberFrame ==
    ASSUME IndInv, events' = events, NEW k \in Kernels, NEW q \in Requests, NEW row \in Rows,
           RecordGood(q, row, events[q]), Remember(k, q, row)
    PROVE  RecordInv' /\ cache' \in [Kernels -> [Requests -> Rows \cup {None}]]
<1>1. cache \in [Kernels -> [Requests -> Rows \cup {None}]]
  BY DEF IndInv, TypeOK
<1>2. cache' = [cache EXCEPT ![k][q] = row]
  BY DEF Remember
<1>3. cache' \in [Kernels -> [Requests -> Rows \cup {None}]]
  BY <1>1, <1>2
<1>4. ASSUME NEW j \in Kernels, NEW p \in Requests, cache'[j][p] # None
      PROVE  RecordGood(p, cache'[j][p], events[p])
  <2>1. CASE j = k /\ p = q
    BY <1>1, <1>2, <2>1
  <2>2. CASE ~(j = k /\ p = q)
    <3>1. cache'[j][p] = cache[j][p]
      BY <1>1, <1>2, <2>2
    <3> QED BY <1>4, <3>1 DEF IndInv, RecordInv
  <2> QED BY <2>1, <2>2
<1> QED BY <1>3, <1>4 DEF RecordInv

(* A call that only goes on itself keeps the invariant. *)
LEMMA CallStep ==
    ASSUME IndInv, NEW k \in Kernels, NEW c, c = None \/ CallGood(c, events),
           txn' = [txn EXCEPT ![k] = c], UNCHANGED <<database, cache, bound, dispatched>>,
           raised' \in SUBSET ({"refused", "duplicate", "diverged"} \X Requests)
    PROVE  IndInv'
<1>1. UNCHANGED <<events, proj, damaged>>
  BY DEF database
<1>2. EventsInv' /\ RowInv' /\ DamageInv' /\ ProjectionFollowsLedger'
  BY <1>1, DatabaseFrame
<1>3. CallInv' /\ txn' \in [Kernels -> Calls \cup {None}]
  BY <1>1, CallsFrame
<1>4. RecordInv' /\ GrantInv'
  BY <1>1, RecordsFrame
<1>5. TypeOK'
  BY <1>1, <1>3 DEF IndInv, TypeOK
<1> QED BY <1>2, <1>3, <1>4, <1>5 DEF IndInv

(* A call as it begins. *)
LEMMA CallTyped ==
    ASSUME IndInv, NEW op \in {"submit", "get", "approve", "grant", "execute", "rebuild"},
           NEW q \in Requests, NEW by \in Approvers \cup {None},
           op = "approve" => by \in Approvers,
           NEW next \in {"insert", "row", "evidence", "rebuild"},
           next = "insert" => Decision[q] # "authorize"
    PROVE  /\ Call(op, q, by, next) \in Calls
           /\ Call(op, q, by, next).row = None
           /\ next # "evidence" => CallGood(Call(op, q, by, next), events)
           /\ next # "evidence" =>
                CallGood([Call(op, q, by, next) EXCEPT !.seen = events[q]], events)
           /\ next = "evidence" /\ proj[q] # None =>
                CallGood([Call(op, q, by, next) EXCEPT !.row = proj[q]], events)
<1> DEFINE c == Call(op, q, by, next)
<1>1. /\ c \in Calls /\ c.op = op /\ c.req = q /\ c.by = by /\ c.next = next
      /\ c.row = None
  BY DEF Call, Calls
<1> HIDE DEF c
<1>2. next # "evidence" => CallGood(c, events)
  BY <1>1 DEF CallGood
<1>3. next # "evidence" => CallGood([c EXCEPT !.seen = events[q]], events)
  <2> DEFINE d == [c EXCEPT !.seen = events[q]]
  <2>1. events[q] \in Seq(Events)
    BY DEF IndInv, TypeOK
  <2>2. d \in Calls /\ d.op = op /\ d.req = q /\ d.by = by /\ d.next = next
    BY <1>1, <2>1 DEF Calls
  <2> HIDE DEF d
  <2>3. next # "evidence" => CallGood(d, events)
    BY <2>2 DEF CallGood
  <2> QED BY <2>3 DEF d
<1>4. next = "evidence" /\ proj[q] # None => CallGood([c EXCEPT !.row = proj[q]], events)
  <2> SUFFICES ASSUME next = "evidence", proj[q] # None
               PROVE  CallGood([c EXCEPT !.row = proj[q]], events)
    OBVIOUS
  <2> DEFINE d == [c EXCEPT !.row = proj[q]]
  <2>1. proj[q] \in Rows
    BY DEF IndInv, TypeOK
  <2>2. d \in Calls /\ d.op = op /\ d.req = q /\ d.by = by /\ d.next = next /\ d.row = proj[q]
    BY <1>1, <2>1 DEF Calls
  <2> HIDE DEF d
  <2>3. CallGood(d, events)
    BY <2>1, <2>2 DEF CallGood
  <2> QED BY <2>3 DEF d
<1> QED BY <1>1, <1>2, <1>3, <1>4 DEF c

(* An answer to a caller changes nothing else. *)
LEMMA AnswerStep ==
    ASSUME IndInv, UNCHANGED <<database, cache, txn, bound, dispatched>>,
           raised' \in SUBSET ({"refused", "duplicate", "diverged"} \X Requests)
    PROVE  IndInv'
<1>1. UNCHANGED <<events, proj, damaged, txn, cache, dispatched, bound>>
  BY DEF database
<1>2. EventsInv' /\ RowInv' /\ DamageInv' /\ ProjectionFollowsLedger'
  BY <1>1, DatabaseFrame
<1>3. CallInv'
  BY <1>1 DEF IndInv, CallInv
<1>4. RecordInv' /\ GrantInv'
  BY <1>1, RecordsFrame
<1>5. TypeOK'
  BY <1>1 DEF IndInv, TypeOK
<1> QED BY <1>2, <1>3, <1>4, <1>5 DEF IndInv

(* What a step of a call may rely on. *)
LEMMA CallFacts ==
    ASSUME IndInv, NEW k \in Kernels, NEW next, At(k, next)
    PROVE  /\ CallGood(txn[k], events)
           /\ txn[k] \in Calls
           /\ txn[k].next = next
           /\ txn[k].req \in Requests
           /\ events[txn[k].req] \in Seq(Events)
           /\ Ordered(txn[k].req, events[txn[k].req])
<1>1. CallGood(txn[k], events) /\ txn[k].next = next
  BY DEF IndInv, CallInv, At
<1>2. txn[k] \in Calls
  BY <1>1 DEF CallGood
<1>3. txn[k].req \in Requests
  BY <1>2 DEF Calls
<1> QED BY <1>1, <1>2, <1>3 DEF IndInv, TypeOK, EventsInv

(* A row that agrees with the ledger is on record, and a transition may go *)
(* on only from the row of a decision that asked for an approval, or from  *)
(* that of the approval.                                                   *)
LEMMA LoadedFacts ==
    ASSUME IndInv, NEW k \in Kernels, Loaded(k)
    PROVE  /\ txn[k].row \in Rows
           /\ txn[k].row = Replay(events[txn[k].req])
           /\ RecordGood(txn[k].req, txn[k].row, events[txn[k].req])
           /\ MayAdvance(k) /\ txn[k].op = "approve" => txn[k].row = DecidedRow
           /\ MayAdvance(k) /\ txn[k].op # "approve" =>
                /\ txn[k].op \in {"grant", "execute"}
                /\ Len(events[txn[k].req]) >= 2
                /\ txn[k].row = ApprovedRow(events[txn[k].req][2].id)
<1> DEFINE q == txn[k].req
<1> DEFINE es == events[q]
<1> DEFINE row == txn[k].row
<1>1. /\ CallGood(txn[k], events) /\ txn[k].next = "evidence"
      /\ q \in Requests /\ es \in Seq(Events) /\ Ordered(q, es)
  BY CallFacts DEF Loaded
<1>2. row \in Rows /\ row = Replay(es) /\ Replayable(q, es)
  BY <1>1 DEF Loaded, LoadAgrees, CallGood
<1>3. es # <<>> /\ OnePolicy(es)
  BY <1>1, <1>2, ReplayableShape
<1>4. RecordGood(q, row, es)
  <2>1. Len(es) \in 1..Len(es) /\ SubSeq(es, 1, Len(es)) = es
    BY <1>1, <1>3, SubSeqFull
  <2>2. row.grants = IdsOf(es, "grant")
    BY <1>2 DEF Replay
  <2> QED BY <1>2, <1>3, <2>1, <2>2 DEF RecordGood
<1> HIDE DEF q, es, row
<1>5. /\ Len(es) \in {1, 2, 3}
      /\ es[1].kind = "policy"
      /\ Len(es) >= 2 => es[2].kind = "approval"
      /\ Len(es) = 3 => es[3].kind = "grant"
      /\ DOMAIN es = 1..Len(es)
  BY <1>1, <1>3, Shape
<1>6. row = [state |-> es[Len(es)].state, version |-> Len(es), policies |-> {1},
             approvals |-> IF Len(es) >= 2 THEN {es[2].id} ELSE {},
             grants |-> IF Len(es) = 3 THEN {es[3].id} ELSE {}]
  BY <1>1, <1>2, <1>3, ReplayShape
<1>7. /\ es[1].state \in {"denied", "approval_required"}
      /\ Len(es) >= 2 => es[2].state = "approved"
      /\ Len(es) = 3 => es[3].state = "grant_issued"
  <2>1. es[1].state = DecidedState(Decision[q]) /\ Decision[q] # "authorize"
    BY <1>1, <1>5 DEF Ordered
  <2>2. Decision[q] \in {"deny", "require_approval"}
    BY <1>1, <2>1, DecisionAssumption
  <2>3. es[1].state \in {"denied", "approval_required"}
    BY <2>1, <2>2 DEF DecidedState
  <2> QED BY <1>1, <1>5, <2>3 DEF Ordered
<1>8. row.state = es[Len(es)].state
  BY <1>6
<1>9. row.state = "approval_required" => row = DecidedRow
  <2> SUFFICES ASSUME row.state = "approval_required" PROVE row = DecidedRow
    OBVIOUS
  <2>1. Len(es) = 1
    BY <1>5, <1>7, <1>8
  <2> QED BY <1>6, <1>8, <2>1 DEF DecidedRow
<1>10. row.state \in {"policy_authorized", "approved"} =>
          Len(es) >= 2 /\ row = ApprovedRow(es[2].id)
  <2> SUFFICES ASSUME row.state \in {"policy_authorized", "approved"}
               PROVE  Len(es) >= 2 /\ row = ApprovedRow(es[2].id)
    OBVIOUS
  <2>1. Len(es) = 2
    BY <1>5, <1>7, <1>8
  <2>2. row.state = "approved"
    BY <1>7, <1>8, <2>1
  <2> QED BY <1>6, <1>8, <2>1, <2>2 DEF ApprovedRow
<1> QED BY <1>2, <1>4, <1>9, <1>10 DEF MayAdvance, Issuable, q, es, row

-----------------------------------------------------------------------------
(* Steps that leave the database alone *)

(* submit begins, or is refused before it opens its transaction. *)
LEMMA SubmitKeeps ==
    ASSUME IndInv, NEW k \in Kernels, NEW q \in Requests, Submit(k, q)
    PROVE  IndInv'
<1>1. UNCHANGED <<database, cache, dispatched, bound>>
  BY DEF Submit
<1>r. raised \in SUBSET ({"refused", "duplicate", "diverged"} \X Requests)
  BY DEF IndInv, TypeOK
<1>2. CASE /\ DecidedState(Decision[q]) = ExpectedState(Decision[q])
           /\ Begin(k, Call("submit", q, None, ReadBinding(q)))
           /\ UNCHANGED raised
  <2>1. Decision[q] # "authorize"
    BY <1>2 DEF DecidedState, ExpectedState
  <2>2. CallGood(Call("submit", q, None, ReadBinding(q)), events)
    BY <2>1, CallTyped DEF ReadBinding
  <2> QED BY <1>1, <1>2, <1>r, <2>2, CallStep DEF Begin
<1>3. CASE Raise("refused", q) /\ UNCHANGED txn
  BY <1>1, <1>3, <1>r, AnswerStep DEF Raise
<1> QED BY <1>2, <1>3 DEF Submit

(* A call that begins with a load reads the row it will compare. *)
LEMMA BeginLoadKeeps ==
    ASSUME IndInv, NEW k \in Kernels, NEW q \in Requests,
           NEW op \in {"get", "approve", "grant", "execute"}, NEW by \in Approvers \cup {None},
           op = "approve" => by \in Approvers, BeginLoad(k, op, q, by),
           UNCHANGED <<database, cache, bound, answers>>
    PROVE  IndInv'
<1>1. /\ proj[q] # None
      /\ txn' = [txn EXCEPT ![k] = [Call(op, q, by, "evidence") EXCEPT !.row = proj[q]]]
  BY DEF BeginLoad, Begin
<1>2. CallGood([Call(op, q, by, "evidence") EXCEPT !.row = proj[q]], events)
  BY <1>1, CallTyped
<1>3. UNCHANGED <<dispatched, raised>>
  BY DEF answers
<1>r. raised' \in SUBSET ({"refused", "duplicate", "diverged"} \X Requests)
  BY <1>3 DEF IndInv, TypeOK
<1> QED BY <1>1, <1>2, <1>3, <1>r, CallStep

(* execute_effect dispatches what the kernel's own record grants, or goes  *)
(* to the store.                                                           *)
LEMMA ExecuteKeeps ==
    ASSUME IndInv, NEW k \in Kernels, NEW q \in Requests, ExecuteEffect(k, q)
    PROVE  IndInv'
<1>1. UNCHANGED <<database, cache, bound, raised>> /\ cache[k][q] # None
  BY DEF ExecuteEffect
<1>2. CASE /\ dispatched' = dispatched \cup {<<q, g>> : g \in cache[k][q].grants}
           /\ UNCHANGED txn
  <2>1. UNCHANGED <<events, proj, damaged, txn, cache, bound, raised>>
    BY <1>1, <1>2 DEF database
  <2>2. cache[k][q] \in Rows /\ RecordGood(q, cache[k][q], events[q])
    BY <1>1 DEF IndInv, TypeOK, RecordInv
  <2>3. cache[k][q].grants \subseteq Kernels /\
        cache[k][q].grants \subseteq IdsOf(events[q], "grant")
    BY <2>2 DEF Rows, RecordGood
  <2>4. GrantInv'
    BY <1>2, <2>1, <2>3 DEF IndInv, GrantInv
  <2>5. dispatched' \in SUBSET (Requests \X Kernels)
    BY <1>2, <2>3 DEF IndInv, TypeOK
  <2>6. EventsInv' /\ RowInv' /\ DamageInv' /\ ProjectionFollowsLedger'
    BY <2>1, DatabaseFrame
  <2>7. CallInv' /\ RecordInv'
    BY <2>1, RecordsFrame DEF IndInv, CallInv
  <2>8. TypeOK'
    BY <2>1, <2>5 DEF IndInv, TypeOK
  <2> QED BY <2>4, <2>6, <2>7, <2>8 DEF IndInv
<1>3. CASE BeginLoad(k, "execute", q, None) /\ UNCHANGED dispatched
  BY <1>1, <1>3, BeginLoadKeeps DEF answers
<1> QED BY <1>2, <1>3 DEF ExecuteEffect

(* The row of a bound key, or no row and no call. *)
LEMMA ReadRowKeeps ==
    ASSUME IndInv, NEW k \in Kernels, ReadRow(k)
    PROVE  IndInv'
<1> DEFINE row == proj[txn[k].req]
<1> DEFINE c == [[txn[k] EXCEPT !.row = row] EXCEPT !.next = "evidence"]
<1>1. /\ CallGood(txn[k], events) /\ txn[k] \in Calls /\ txn[k].req \in Requests
  BY CallFacts DEF ReadRow
<1>2. /\ UNCHANGED <<database, cache, bound, dispatched, raised>>
      /\ txn' = [txn EXCEPT ![k] = IF row = None THEN None ELSE c]
  BY DEF ReadRow, answers
<1>3. row # None => CallGood(c, events)
  <2> SUFFICES ASSUME row # None PROVE CallGood(c, events)
    OBVIOUS
  <2>1. row \in Rows
    BY <1>1 DEF IndInv, TypeOK
  <2> HIDE DEF row
  <2>2. /\ c \in Calls /\ c.op = txn[k].op /\ c.by = txn[k].by /\ c.next = "evidence"
        /\ c.row = row
    BY <1>1, <2>1 DEF Calls
  <2> HIDE DEF c
  <2> QED BY <1>1, <2>1, <2>2 DEF CallGood
<1>r. raised' \in SUBSET ({"refused", "duplicate", "diverged"} \X Requests)
  BY <1>2 DEF IndInv, TypeOK
<1> HIDE DEF c, row
<1> QED BY <1>2, <1>3, <1>r, CallStep

(* A load that disagrees raises. *)
LEMMA LoadRaisesKeeps ==
    ASSUME IndInv, NEW k \in Kernels, LoadRaises(k)
    PROVE  IndInv'
<1>1. txn[k].req \in Requests
  BY CallFacts DEF LoadRaises
<1>2. raised' \in SUBSET ({"refused", "duplicate", "diverged"} \X Requests)
  BY <1>1 DEF LoadRaises, Raise, IndInv, TypeOK
<1>3. txn' = [txn EXCEPT ![k] = None] /\ UNCHANGED <<database, cache, bound, dispatched>>
  BY DEF LoadRaises, End
<1> QED BY <1>2, <1>3, CallStep

(* The kernel's load fixes the version, the store's own load finds it      *)
(* again, or the call ends.                                                *)
LEMMA LoadAdvancesKeeps ==
    ASSUME IndInv, NEW k \in Kernels, LoadAdvances(k)
    PROVE  IndInv'
<1>1. /\ CallGood(txn[k], events) /\ txn[k] \in Calls
      /\ Loaded(k) /\ MayAdvance(k) /\ UNCHANGED <<database, cache, bound, dispatched, raised>>
  BY CallFacts DEF LoadAdvances, Loaded, answers
<1>2. /\ txn[k].row \in Rows
      /\ txn[k].op = "approve" => txn[k].row = DecidedRow
      /\ txn[k].op # "approve" =>
           /\ txn[k].op \in {"grant", "execute"}
           /\ Len(events[txn[k].req]) >= 2
           /\ txn[k].row = ApprovedRow(events[txn[k].req][2].id)
  BY <1>1, LoadedFacts
<1>r. raised' \in SUBSET ({"refused", "duplicate", "diverged"} \X Requests)
  BY <1>1 DEF IndInv, TypeOK
<1>t. txn \in [Kernels -> Calls \cup {None}]
  BY DEF IndInv, TypeOK
<1>3. CASE txn' = [txn EXCEPT ![k].want = txn[k].row.version, ![k].next = "row"]
  <2> DEFINE c == [[txn[k] EXCEPT !.want = txn[k].row.version] EXCEPT !.next = "row"]
  <2>1. txn[k].row.version \in Nat
    BY <1>2 DEF Rows
  <2>2. txn' = [txn EXCEPT ![k] = c]
    BY <1>3, <1>t
  <2>3. c \in Calls /\ c.op = txn[k].op /\ c.by = txn[k].by /\ c.next = "row"
    BY <1>1, <2>1 DEF Calls
  <2> HIDE DEF c
  <2>4. CallGood(c, events)
    BY <1>1, <2>3 DEF CallGood
  <2> QED BY <1>1, <1>r, <2>2, <2>4, CallStep
<1>4. CASE txn[k].row.version = txn[k].want /\ txn' = [txn EXCEPT ![k].next = "write"]
  <2> DEFINE c == [txn[k] EXCEPT !.next = "write"]
  <2>1. txn' = [txn EXCEPT ![k] = c]
    BY <1>4, <1>t
  <2>2. /\ c \in Calls /\ c.op = txn[k].op /\ c.by = txn[k].by /\ c.next = "write"
        /\ c.row = txn[k].row /\ c.want = txn[k].want /\ c.req = txn[k].req
    BY <1>1 DEF Calls
  <2> HIDE DEF c
  <2>3. /\ txn[k].op = "approve" => txn[k].want = 1
        /\ txn[k].op # "approve" => txn[k].want = 2
    BY <1>2, <1>4 DEF DecidedRow, ApprovedRow
  <2>4. CallGood(c, events)
    BY <1>1, <1>2, <2>2, <2>3 DEF CallGood
  <2> QED BY <1>1, <1>r, <2>1, <2>4, CallStep
<1>5. CASE End(k)
  BY <1>1, <1>5, <1>r, CallStep DEF End
<1> QED BY <1>3, <1>4, <1>5 DEF LoadAdvances

(* A kernel that settles a call on a row of the record. *)
LEMMA SettleStep ==
    ASSUME IndInv, NEW k \in Kernels, NEW q \in Requests, NEW row \in Rows,
           RecordGood(q, row, events[q]), Remember(k, q, row) \/ UNCHANGED cache,
           End(k), UNCHANGED <<events, proj, damaged, raised>>,
           bound' \in SUBSET (Kernels \X Requests),
           dispatched' \in SUBSET (dispatched \cup {<<q, g>> : g \in row.grants})
    PROVE  IndInv'
<1>1. EventsInv' /\ RowInv' /\ DamageInv' /\ ProjectionFollowsLedger'
  BY DatabaseFrame
<1>2. CallInv' /\ txn' \in [Kernels -> Calls \cup {None}]
  BY CallsFrame DEF End
<1>3. RecordInv' /\ cache' \in [Kernels -> [Requests -> Rows \cup {None}]]
  BY RememberFrame, RecordsFrame DEF IndInv, TypeOK
<1>4. row.grants \subseteq Kernels /\ row.grants \subseteq IdsOf(events[q], "grant")
  BY DEF Rows, RecordGood
<1>5. GrantInv'
  BY <1>4 DEF IndInv, GrantInv
<1>6. dispatched' \in SUBSET (Requests \X Kernels)
  BY <1>4 DEF IndInv, TypeOK
<1>7. TypeOK'
  BY <1>2, <1>3, <1>6 DEF IndInv, TypeOK
<1> QED BY <1>1, <1>2, <1>3, <1>5, <1>7 DEF IndInv

(* get and a replayed submit keep the row they loaded. *)
LEMMA LoadKeepsKeeps ==
    ASSUME IndInv, NEW k \in Kernels, LoadKeeps(k)
    PROVE  IndInv'
<1> DEFINE q == txn[k].req
<1> DEFINE row == txn[k].row
<1>1. q \in Requests
  BY CallFacts DEF LoadKeeps, Loaded
<1>2. row \in Rows /\ RecordGood(q, row, events[q])
  BY LoadedFacts DEF LoadKeeps
<1>3. /\ Remember(k, q, row) /\ End(k)
      /\ UNCHANGED <<events, proj, damaged, raised, dispatched>>
  BY DEF LoadKeeps, database, answers
<1>4. bound' \in SUBSET (Kernels \X Requests)
  BY <1>1 DEF LoadKeeps, IndInv, TypeOK
<1> HIDE DEF q, row
<1> QED BY <1>1, <1>2, <1>3, <1>4, SettleStep

(* A transition that was made before is returned, and a grant found is     *)
(* dispatched.                                                             *)
LEMMA LoadEndsKeeps ==
    ASSUME IndInv, NEW k \in Kernels, LoadEnds(k)
    PROVE  IndInv'
<1> DEFINE q == txn[k].req
<1> DEFINE row == txn[k].row
<1>1. q \in Requests
  BY CallFacts DEF LoadEnds, Loaded
<1>2. row \in Rows /\ RecordGood(q, row, events[q])
  BY LoadedFacts DEF LoadEnds
<1>3. /\ Remember(k, q, row) \/ UNCHANGED cache
      /\ End(k) /\ UNCHANGED <<events, proj, damaged, raised, bound>>
      /\ dispatched' \in SUBSET (dispatched \cup {<<q, g>> : g \in row.grants})
  BY DEF LoadEnds, database
<1>4. bound' \in SUBSET (Kernels \X Requests)
  BY <1>3 DEF IndInv, TypeOK
<1> HIDE DEF q, row
<1> QED BY <1>1, <1>2, <1>3, <1>4, SettleStep

(* A write that lost its race rolls back. *)
LEMMA WriteLostKeeps ==
    ASSUME IndInv, NEW k \in Kernels, WriteLost(k)
    PROVE  IndInv'
<1>1. txn' = [txn EXCEPT ![k] = None] /\ UNCHANGED <<database, cache, bound, dispatched, raised>>
  BY DEF WriteLost, End, answers
<1>r. raised' \in SUBSET ({"refused", "duplicate", "diverged"} \X Requests)
  BY <1>1 DEF IndInv, TypeOK
<1> QED BY <1>1, <1>r, CallStep

(* rebuild_lifecycle reads its candidates. *)
LEMMA RebuildBeginKeeps ==
    ASSUME IndInv, NEW k \in Kernels, NEW q \in Requests, RebuildLifecycle(k, q)
    PROVE  IndInv'
<1>1. /\ txn' = [txn EXCEPT ![k] =
                    [Call("rebuild", q, None, "rebuild") EXCEPT !.seen = events[q]]]
      /\ UNCHANGED <<database, cache, bound, dispatched, raised>>
  BY DEF RebuildLifecycle, Begin, answers
<1>2. CallGood([Call("rebuild", q, None, "rebuild") EXCEPT !.seen = events[q]], events)
  BY CallTyped
<1>r. raised' \in SUBSET ({"refused", "duplicate", "diverged"} \X Requests)
  BY <1>1 DEF IndInv, TypeOK
<1> QED BY <1>1, <1>2, <1>r, CallStep

(* A restart forgets, and forgetting is safe. *)
LEMMA RestartKeeps ==
    ASSUME IndInv, NEW k \in Kernels, Restart(k)
    PROVE  IndInv'
<1>1. /\ cache' = [cache EXCEPT ![k] = [q \in Requests |-> None]]
      /\ bound' = {b \in bound : b[1] # k}
      /\ txn' = [txn EXCEPT ![k] = None]
      /\ UNCHANGED <<events, proj, damaged, dispatched, raised>>
  BY DEF Restart, End, database, answers
<1>2. EventsInv' /\ RowInv' /\ DamageInv' /\ ProjectionFollowsLedger'
  BY <1>1, DatabaseFrame
<1>3. CallInv' /\ txn' \in [Kernels -> Calls \cup {None}]
  BY <1>1, CallsFrame
<1>t. cache \in [Kernels -> [Requests -> Rows \cup {None}]]
  BY DEF IndInv, TypeOK
<1>4. cache' \in [Kernels -> [Requests -> Rows \cup {None}]]
  BY <1>1, <1>t
<1>5. \A j \in Kernels, q \in Requests : cache'[j][q] # None => cache'[j][q] = cache[j][q]
  BY <1>1, <1>t
<1>6. RecordInv'
  BY <1>1, <1>5 DEF IndInv, RecordInv
<1>7. GrantInv'
  BY <1>1, RecordsFrame
<1>8. TypeOK'
  BY <1>1, <1>3, <1>4 DEF IndInv, TypeOK
<1> QED BY <1>2, <1>3, <1>6, <1>7, <1>8 DEF IndInv

-----------------------------------------------------------------------------
(* Steps that change a projection *)

(* The projection becomes the replay of the ledger. *)
LEMMA RebuildKeeps ==
    ASSUME IndInv, NEW k \in Kernels, Rebuild(k)
    PROVE  IndInv'
<1> DEFINE q == txn[k].req
<1> DEFINE es == events[q]
<1>1. q \in Requests /\ es \in Seq(Events) /\ Ordered(q, es)
  BY CallFacts DEF Rebuild
<1>2. /\ txn' = [txn EXCEPT ![k] = None]
      /\ UNCHANGED <<events, cache, bound, dispatched, raised>>
  BY DEF Rebuild, End, answers
<1>3. CallInv' /\ txn' \in [Kernels -> Calls \cup {None}]
  BY <1>2, CallsFrame
<1>4. RecordInv' /\ GrantInv' /\ EventsInv'
  BY <1>2, RecordsFrame DEF IndInv, EventsInv
<1>5. CASE /\ Replayable(q, es) /\ proj' = [proj EXCEPT ![q] = Replay(es)]
           /\ damaged' = damaged \ {q}
  <2> HIDE DEF q, es
  <2>1. es # <<>> /\ OnePolicy(es)
    BY <1>1, <1>5, ReplayableShape
  <2>2. Replay(es) \in Rows /\ Replay(es).state = es[Len(es)].state
    BY <1>1, <2>1, ReplayTyped DEF Replay
  <2>3. proj \in [Requests -> Rows \cup {None}]
    BY DEF IndInv, TypeOK
  <2>4. proj'[q] = Replay(es) /\ \A p \in Requests : p # q => proj'[p] = proj[p]
    BY <1>1, <1>5, <2>3
  <2>5. RowInv'
    <3> SUFFICES ASSUME NEW p \in Requests, proj'[p] # None
                 PROVE  RowGood(proj'[p], events[p])
      BY <1>2 DEF RowInv
    <3>1. CASE p = q
      BY <2>1, <2>2, <2>4, <3>1 DEF RowGood, es
    <3>2. CASE p # q
      BY <2>4, <3>2 DEF IndInv, RowInv
    <3> QED BY <3>1, <3>2
  <2>6. DamageInv' /\ ProjectionFollowsLedger'
    <3> SUFFICES ASSUME NEW p \in Requests \ damaged'
                 PROVE  /\ OnePolicy(events[p])
                        /\ proj'[p] = IF events[p] = <<>> THEN None ELSE Replay(events[p])
      BY <1>2 DEF DamageInv, ProjectionFollowsLedger
    <3>1. CASE p = q
      BY <2>1, <2>4, <3>1 DEF es
    <3>2. CASE p # q
      BY <1>5, <2>4, <3>2 DEF IndInv, DamageInv, ProjectionFollowsLedger
    <3> QED BY <3>1, <3>2
  <2>7. TypeOK'
    BY <1>2, <1>3, <1>5, <2>2, <2>3 DEF IndInv, TypeOK
  <2> QED BY <1>3, <1>4, <2>5, <2>6, <2>7 DEF IndInv
<1>6. CASE UNCHANGED <<proj, damaged>>
  <2>1. EventsInv' /\ RowInv' /\ DamageInv' /\ ProjectionFollowsLedger'
    BY <1>2, <1>6, DatabaseFrame
  <2>2. TypeOK'
    BY <1>2, <1>3, <1>6 DEF IndInv, TypeOK
  <2> QED BY <1>3, <1>4, <2>1, <2>2 DEF IndInv
<1> QED BY <1>5, <1>6 DEF Rebuild, RebuildEvidence

(* A damaged row keeps its state or is gone. *)
LEMMA DamageKeeps ==
    ASSUME IndInv, NEW q \in Requests, NEW how, Damage(q, how)
    PROVE  IndInv'
<1> DEFINE row == IF how = "delete" THEN None ELSE Tampered(proj[q])
<1>t. proj \in [Requests -> Rows \cup {None}] /\ proj[q] # None /\ proj[q] \in Rows
  BY DEF Damage, IndInv, TypeOK
<1>1. /\ proj' = [proj EXCEPT ![q] = row]
      /\ damaged' = damaged \cup {q}
      /\ UNCHANGED <<events, cache, txn, bound, dispatched, raised>>
  BY DEF Damage, answers
<1>2. row # None => row \in Rows /\ row.state = proj[q].state
  BY <1>t DEF Rows, Tampered
<1> HIDE DEF row
<1>3. proj'[q] = row /\ \A p \in Requests : p # q => proj'[p] = proj[p]
  BY <1>t, <1>1
<1>4. RowInv'
  <2> SUFFICES ASSUME NEW p \in Requests, proj'[p] # None
               PROVE  RowGood(proj'[p], events[p])
    BY <1>1 DEF RowInv
  <2>1. CASE p = q
    BY <1>t, <1>2, <1>3, <2>1 DEF IndInv, RowInv, RowGood
  <2>2. CASE p # q
    BY <1>3, <2>2 DEF IndInv, RowInv
  <2> QED BY <2>1, <2>2
<1>5. DamageInv' /\ ProjectionFollowsLedger'
  BY <1>1, <1>3 DEF IndInv, DamageInv, ProjectionFollowsLedger
<1>6. CallInv' /\ EventsInv'
  BY <1>1 DEF IndInv, CallInv, EventsInv
<1>7. RecordInv' /\ GrantInv'
  BY <1>1, RecordsFrame
<1>8. proj' \in [Requests -> Rows \cup {None}]
  BY <1>t, <1>1, <1>2
<1>9. TypeOK'
  BY <1>1, <1>8 DEF IndInv, TypeOK
<1> QED BY <1>4, <1>5, <1>6, <1>7, <1>9 DEF IndInv

-----------------------------------------------------------------------------
(* Steps that append evidence *)

(* One event in order is appended: nothing that was on record is lost. *)
LEMMA Grows ==
    ASSUME IndInv, NEW q \in Requests, NEW e \in Events,
           events' = [events EXCEPT ![q] = Append(events[q], e)],
           Ordered(q, Append(events[q], e))
    PROVE  /\ EventsInv'
           /\ events' \in [Requests -> Seq(Events)]
           /\ events'[q] = Append(events[q], e)
           /\ \A p \in Requests : p # q => events'[p] = events[p]
           /\ \A c : CallGood(c, events) => CallGood(c, events')
           /\ \A p \in Requests : \A row :
                 RecordGood(p, row, events[p]) => RecordGood(p, row, events'[p])
           /\ \A p \in Requests : IdsOf(events[p], "grant") \subseteq IdsOf(events'[p], "grant")
<1> DEFINE es == events[q]
<1> DEFINE ns == Append(es, e)
<1>t. events \in [Requests -> Seq(Events)] /\ es \in Seq(Events) /\ Ordered(q, es)
  BY DEF IndInv, TypeOK, EventsInv
<1>1. /\ ns \in Seq(Events) /\ Len(ns) = Len(es) + 1 /\ Len(es) \in Nat
      /\ DOMAIN es = 1..Len(es) /\ DOMAIN ns = 1..(Len(es) + 1)
      /\ \A i \in DOMAIN es : ns[i] = es[i]
      /\ ns # <<>>
  BY <1>t, AppendFacts
<1>2. /\ events'[q] = ns /\ events' \in [Requests -> Seq(Events)]
      /\ \A p \in Requests : p # q => events'[p] = events[p]
  BY <1>t, <1>1
<1>3. EventsInv'
  <2>1. \A p \in Requests : Ordered(p, events'[p])
    BY <1>2 DEF IndInv, EventsInv
  <2> QED BY <2>1 DEF EventsInv
<1>4. IdsOf(es, "grant") \subseteq IdsOf(ns, "grant")
  BY <1>t, AppendIds
<1>5. Replayable(q, ns) /\ es # <<>> => Replayable(q, es)
  <2>1. OnePolicy(ns) => OnePolicy(es)
    BY <1>1 DEF OnePolicy
  <2> QED BY <1>t, <1>1, <2>1, ReplayableShape
<1>6. \A n \in 1..Len(es) : n \in 1..Len(ns) /\ SubSeq(ns, 1, n) = SubSeq(es, 1, n)
  BY <1>t, <1>1, PrefixStays
<1> HIDE DEF ns
<1>7. ASSUME NEW c, CallGood(c, events) PROVE CallGood(c, events')
  <2>1. c.req \in Requests
    BY <1>7 DEF CallGood, Calls
  <2>2. Len(events[c.req]) >= 2 =>
          Len(events'[c.req]) >= 2 /\ events'[c.req][2] = events[c.req][2]
    <3>1. CASE c.req = q
      BY <1>1, <1>2, <3>1
    <3>2. CASE c.req # q
      BY <1>2, <2>1, <3>2
    <3> QED BY <3>1, <3>2
  <2> QED BY <1>7, <2>2 DEF CallGood
<1>8. ASSUME NEW row, RecordGood(q, row, es) PROVE RecordGood(q, row, ns)
  <2>1. row.grants \subseteq IdsOf(ns, "grant")
    BY <1>4, <1>8 DEF RecordGood
  <2>2. ASSUME Replayable(q, ns) PROVE \E n \in 1..Len(ns) : row = Replay(SubSeq(ns, 1, n))
    <3>1. PICK n \in 1..Len(es) : row = Replay(SubSeq(es, 1, n))
      BY <1>5, <1>8, <2>2 DEF RecordGood
    <3> QED BY <1>6, <3>1
  <2> QED BY <1>1, <2>1, <2>2 DEF RecordGood
<1>9. \A p \in Requests : \A row :
         RecordGood(p, row, events[p]) => RecordGood(p, row, events'[p])
  BY <1>2, <1>8
<1>10. \A p \in Requests : IdsOf(events[p], "grant") \subseteq IdsOf(events'[p], "grant")
  BY <1>2, <1>4
<1> QED BY <1>2, <1>3, <1>7, <1>9, <1>10 DEF ns

(* A row that advances with its ledger: what is left to show is that the   *)
(* row fits the ledger and that the kernel's record does.                  *)
LEMMA AppendStep ==
    ASSUME IndInv, NEW k \in Kernels, NEW q \in Requests, NEW e \in Events,
           events' = [events EXCEPT ![q] = Append(events[q], e)],
           Ordered(q, Append(events[q], e)),
           NEW new \in Rows, proj' = [proj EXCEPT ![q] = new],
           new.state = e.state,
           q \notin damaged =>
              OnePolicy(Append(events[q], e)) /\ new = Replay(Append(events[q], e)),
           NEW row \in Rows, RecordGood(q, row, Append(events[q], e)),
           Remember(k, q, row) \/ UNCHANGED cache,
           End(k), UNCHANGED <<damaged, raised>>,
           bound' \in SUBSET (Kernels \X Requests),
           dispatched' \in SUBSET (dispatched \cup {<<q, g>> : g \in row.grants})
    PROVE  IndInv'
<1> DEFINE ns == Append(events[q], e)
<1>1. /\ EventsInv'
      /\ events' \in [Requests -> Seq(Events)]
      /\ events'[q] = ns
      /\ \A p \in Requests : p # q => events'[p] = events[p]
      /\ \A c : CallGood(c, events) => CallGood(c, events')
      /\ \A p \in Requests : \A r :
            RecordGood(p, r, events[p]) => RecordGood(p, r, events'[p])
      /\ \A p \in Requests : IdsOf(events[p], "grant") \subseteq IdsOf(events'[p], "grant")
  BY Grows
<1>2. ns # <<>> /\ ns[Len(ns)] = e
  <2>1. events[q] \in Seq(Events)
    BY DEF IndInv, TypeOK
  <2> QED BY <2>1, AppendFacts
<1> HIDE DEF ns
<1>t. /\ proj \in [Requests -> Rows \cup {None}] /\ txn \in [Kernels -> Calls \cup {None}]
      /\ cache \in [Kernels -> [Requests -> Rows \cup {None}]]
      /\ dispatched \in SUBSET (Requests \X Kernels)
  BY DEF IndInv, TypeOK
<1>3. proj'[q] = new /\ \A p \in Requests : p # q => proj'[p] = proj[p]
  BY <1>t
<1>4. RowInv'
  <2> SUFFICES ASSUME NEW p \in Requests, proj'[p] # None
               PROVE  RowGood(proj'[p], events'[p])
    BY DEF RowInv
  <2>1. CASE p = q
    BY <1>1, <1>2, <1>3, <2>1 DEF RowGood
  <2>2. CASE p # q
    BY <1>1, <1>3, <2>2 DEF IndInv, RowInv
  <2> QED BY <2>1, <2>2
<1>5. DamageInv' /\ ProjectionFollowsLedger'
  <2> SUFFICES ASSUME NEW p \in Requests \ damaged
               PROVE  /\ OnePolicy(events'[p])
                      /\ proj'[p] = IF events'[p] = <<>> THEN None ELSE Replay(events'[p])
    BY DEF DamageInv, ProjectionFollowsLedger
  <2>1. CASE p = q
    BY <1>1, <1>2, <1>3, <2>1 DEF ns
  <2>2. CASE p # q
    BY <1>1, <1>3, <2>2 DEF IndInv, DamageInv, ProjectionFollowsLedger
  <2> QED BY <2>1, <2>2
<1>6. txn' = [txn EXCEPT ![k] = None]
  BY DEF End
<1>7. CallInv'
  <2> SUFFICES ASSUME NEW j \in Kernels, txn'[j] # None PROVE CallGood(txn'[j], events')
    BY DEF CallInv
  <2>1. txn'[j] = txn[j]
    BY <1>t, <1>6
  <2> QED BY <1>1, <2>1 DEF IndInv, CallInv
<1>8. RecordInv'
  <2> SUFFICES ASSUME NEW j \in Kernels, NEW p \in Requests, cache'[j][p] # None
               PROVE  RecordGood(p, cache'[j][p], events'[p])
    BY DEF RecordInv
  <2>1. CASE cache'[j][p] = cache[j][p]
    BY <1>1, <2>1 DEF IndInv, RecordInv
  <2>2. CASE p = q /\ cache'[j][p] = row
    BY <1>1, <2>2 DEF ns
  <2>3. CASE UNCHANGED cache
    BY <2>1, <2>3
  <2>4. CASE cache' = [cache EXCEPT ![k][q] = row]
    <3>1. cache'[j][p] = cache[j][p] \/ (p = q /\ cache'[j][p] = row)
      BY <1>t, <2>4
    <3> QED BY <2>1, <2>2, <3>1
  <2> QED BY <2>3, <2>4 DEF Remember
<1>9. row.grants \subseteq Kernels /\ row.grants \subseteq IdsOf(ns, "grant")
  BY DEF Rows, RecordGood, ns
<1>10. GrantInv'
  <2> SUFFICES ASSUME NEW d \in dispatched' PROVE d[2] \in IdsOf(events'[d[1]], "grant")
    BY DEF GrantInv
  <2>1. CASE d \in dispatched
    <3>1. d[1] \in Requests /\ d[2] \in IdsOf(events[d[1]], "grant")
      BY <1>t, <2>1 DEF IndInv, GrantInv
    <3> QED BY <1>1, <3>1
  <2>2. CASE d \in {<<q, g>> : g \in row.grants}
    <3>1. PICK g \in row.grants : d = <<q, g>>
      BY <2>2
    <3>2. d[1] = q /\ d[2] = g /\ g \in IdsOf(ns, "grant")
      BY <1>9, <3>1
    <3> QED BY <1>1, <3>2
  <2> QED BY <2>1, <2>2
<1>11. dispatched' \in SUBSET (Requests \X Kernels)
  BY <1>t, <1>9
<1>12. cache' \in [Kernels -> [Requests -> Rows \cup {None}]]
  <2>1. CASE cache' = [cache EXCEPT ![k][q] = row]
    BY <1>t, <2>1
  <2> QED BY <1>t, <2>1 DEF Remember
<1>13. proj' \in [Requests -> Rows \cup {None}] /\ txn' \in [Kernels -> Calls \cup {None}]
  BY <1>t, <1>6
<1>14. TypeOK'
  BY <1>1, <1>11, <1>12, <1>13 DEF IndInv, TypeOK
<1> QED BY <1>1, <1>4, <1>5, <1>7, <1>8, <1>10, <1>14 DEF IndInv

(* An event in its place keeps the order. *)
LEMMA OrderedAppend ==
    ASSUME NEW q \in Requests, NEW es \in Seq(Events), Ordered(q, es), NEW e \in Events,
           e.kind = "policy" =>
              /\ e.state = DecidedState(Decision[q]) /\ e.id = Len(es) + 1
              /\ Decision[q] # "authorize",
           e.kind = "approval" =>
              /\ e.state = "approved" /\ e.id \in Approvers /\ Len(es) >= 1
              /\ es[Len(es)].kind = "policy" /\ Decision[q] = "require_approval",
           e.kind = "grant" =>
              /\ e.state = "grant_issued" /\ e.id \in Kernels /\ Len(es) >= 2
              /\ es[Len(es)].kind = "approval"
    PROVE  Ordered(q, Append(es, e))
<1> DEFINE ns == Append(es, e)
<1>1. /\ DOMAIN es = 1..Len(es) /\ Len(es) \in Nat /\ DOMAIN ns = 1..(Len(es) + 1)
      /\ \A i \in DOMAIN es : ns[i] = es[i]
      /\ ns[Len(es) + 1] = e
  BY AppendFacts
<1> HIDE DEF ns
<1> DEFINE Fits(i) ==
        /\ ns[i].kind = "policy" =>
             /\ ns[i].state = DecidedState(Decision[q]) /\ ns[i].id = i
             /\ Decision[q] # "authorize"
        /\ ns[i].kind = "approval" =>
             /\ ns[i].state = "approved" /\ ns[i].id \in Approvers /\ i > 1
             /\ ns[i - 1].kind = "policy" /\ Decision[q] = "require_approval"
        /\ ns[i].kind = "grant" =>
             /\ ns[i].state = "grant_issued" /\ ns[i].id \in Kernels /\ i > 2
             /\ ns[i - 1].kind = "approval"
<1>2. ASSUME NEW i \in DOMAIN es PROVE Fits(i)
  <2>1. ns[i] = es[i] /\ (i > 1 => ns[i - 1] = es[i - 1])
    BY <1>1
  <2> QED BY <2>1 DEF Ordered
<1>3. Fits(Len(es) + 1)
  <2>1. /\ (Len(es) + 1) - 1 = Len(es)
        /\ Len(es) >= 1 => ns[Len(es)] = es[Len(es)] /\ Len(es) + 1 > 1
        /\ Len(es) >= 2 => Len(es) + 1 > 2
    BY <1>1
  <2> QED BY <1>1, <2>1
<1>4. \A i \in DOMAIN ns : Fits(i)
  <2> HIDE DEF Fits
  <2> QED BY <1>1, <1>2, <1>3
<1> QED BY <1>4 DEF Ordered, ns

(* The last event of a ledger with one policy tells all of its row. *)
LEMMA LastShape ==
    ASSUME NEW q \in Requests, NEW es \in Seq(Events), es # <<>>, Ordered(q, es), OnePolicy(es)
    PROVE  /\ es[Len(es)].kind = "policy" =>
                Len(es) = 1 /\ Replay(es) = [state |-> es[1].state, version |-> 1,
                                             policies |-> {1}, approvals |-> {}, grants |-> {}]
           /\ es[Len(es)].kind = "approval" =>
                Len(es) = 2 /\ Replay(es) = ApprovedRow(es[2].id)
           /\ es[Len(es)].kind = "grant" =>
                Len(es) = 3 /\ Replay(es) = [state |-> "grant_issued", version |-> 3,
                                             policies |-> {1}, approvals |-> {es[2].id},
                                             grants |-> {es[3].id}]
           /\ Len(es) \in 1..Len(es) /\ SubSeq(es, 1, Len(es)) = es
<1>1. /\ Len(es) \in {1, 2, 3}
      /\ es[1].kind = "policy"
      /\ Len(es) >= 2 => es[2].kind = "approval"
      /\ Len(es) = 3 => es[3].kind = "grant"
      /\ DOMAIN es = 1..Len(es)
  BY Shape
<1>2. Replay(es) = [state |-> es[Len(es)].state, version |-> Len(es), policies |-> {1},
                    approvals |-> IF Len(es) >= 2 THEN {es[2].id} ELSE {},
                    grants |-> IF Len(es) = 3 THEN {es[3].id} ELSE {}]
  BY ReplayShape
<1>3. /\ Len(es) >= 2 => es[2].state = "approved"
      /\ Len(es) = 3 => es[3].state = "grant_issued"
  BY <1>1 DEF Ordered
<1>s. Len(es) \in 1..Len(es) /\ SubSeq(es, 1, Len(es)) = es
  BY <1>1, SubSeqFull
<1>4. CASE Len(es) = 1
  BY <1>1, <1>2, <1>4, <1>s
<1>5. CASE Len(es) = 2
  <2>1. es[Len(es)].kind = "approval"
    BY <1>1, <1>5
  <2>3. /\ es[Len(es)].state = "approved"
        /\ (IF Len(es) >= 2 THEN {es[2].id} ELSE {}) = {es[2].id}
        /\ (IF Len(es) = 3 THEN {es[3].id} ELSE {}) = {}
    BY <1>3, <1>5
  <2>2. Replay(es) = ApprovedRow(es[2].id)
    BY <1>2, <1>5, <2>3, Zenon DEF ApprovedRow
  <2> QED BY <1>5, <1>s, <2>1, <2>2
<1>6. CASE Len(es) = 3
  <2>1. es[Len(es)].kind = "grant"
    BY <1>1, <1>6
  <2>3. /\ es[Len(es)].state = "grant_issued"
        /\ (IF Len(es) >= 2 THEN {es[2].id} ELSE {}) = {es[2].id}
        /\ (IF Len(es) = 3 THEN {es[3].id} ELSE {}) = {es[3].id}
    BY <1>3, <1>6
  <2>2. Replay(es) = [state |-> "grant_issued", version |-> 3, policies |-> {1},
                      approvals |-> {es[2].id}, grants |-> {es[3].id}]
    BY <1>2, <1>6, <2>3, Zenon
  <2> QED BY <1>6, <1>s, <2>1, <2>2
<1> QED BY <1>1, <1>4, <1>5, <1>6

(* The state of the last event tells its kind. *)
LEMMA LastKind ==
    ASSUME NEW q \in Requests, NEW es \in Seq(Events), es # <<>>, Ordered(q, es)
    PROVE  /\ Len(es) \in DOMAIN es
           /\ es[Len(es)].state = "approval_required" =>
                es[Len(es)].kind = "policy" /\ Decision[q] = "require_approval"
           /\ es[Len(es)].state \in {"policy_authorized", "approved"} =>
                es[Len(es)].kind = "approval" /\ Len(es) >= 2
<1> DEFINE n == Len(es)
<1>1. n \in DOMAIN es /\ n \in Nat
  OBVIOUS
<1>2. es[n].kind \in {"policy", "approval", "grant"}
  <2>1. es[n] \in Events
    BY <1>1
  <2> QED BY <2>1 DEF Events
<1> HIDE DEF n
<1>3. es[n].kind = "policy" =>
         es[n].state = DecidedState(Decision[q]) /\ Decision[q] \in {"deny", "require_approval"}
  BY <1>1, DecisionAssumption DEF Ordered
<1>4. /\ es[n].kind = "approval" => es[n].state = "approved" /\ n > 1
      /\ es[n].kind = "grant" => es[n].state = "grant_issued"
  BY <1>1 DEF Ordered
<1>5. es[n].kind = "policy" =>
         /\ es[n].state \in {"denied", "approval_required"}
         /\ es[n].state = "approval_required" => Decision[q] = "require_approval"
  BY <1>3 DEF DecidedState
<1> QED BY <1>1, <1>2, <1>4, <1>5 DEF n

(* What a write leaves in a row of any version. *)
LEMMA WrittenTyped ==
    ASSUME NEW row \in Rows, NEW kind, NEW state \in LifecycleStates, NEW id,
           kind = "approval" => id \in Approvers, kind = "grant" => id \in Kernels
    PROVE  /\ WrittenRow(row, Event(kind, state, id)) \in Rows
           /\ WrittenRow(row, Event(kind, state, id)).state = state
<1>1. row = [state |-> row.state, version |-> row.version, policies |-> row.policies,
             approvals |-> row.approvals, grants |-> row.grants]
  BY DEF Rows
<1>2. /\ row.version \in Nat \ {0} /\ row.policies \in SUBSET (Nat \ {0})
      /\ row.approvals \in SUBSET Approvers /\ row.grants \in SUBSET Kernels
  BY DEF Rows
<1>3. WrittenRow(row, Event(kind, state, id)) =
        [state |-> state, version |-> row.version + 1, policies |-> row.policies,
         approvals |-> IF kind = "approval" THEN {id} ELSE row.approvals,
         grants |-> IF kind = "grant" THEN {id} ELSE row.grants]
  <2> DEFINE r == [state |-> row.state, version |-> row.version, policies |-> row.policies,
                   approvals |-> row.approvals, grants |-> row.grants]
  <2>1. WrittenRow(r, Event(kind, state, id)) =
          [state |-> state, version |-> row.version + 1, policies |-> row.policies,
           approvals |-> IF kind = "approval" THEN {id} ELSE row.approvals,
           grants |-> IF kind = "grant" THEN {id} ELSE row.grants]
    BY WrittenFields
  <2>2. row = r
    BY <1>1
  <2> HIDE DEF r
  <2> QED BY <2>1, <2>2, Zenon
<1>4. row.version + 1 \in Nat \ {0}
  BY <1>2
<1> QED BY <1>2, <1>3, <1>4 DEF Rows

(* Evidence and row of a submission are inserted together. *)
LEMMA InsertKeeps ==
    ASSUME IndInv, NEW k \in Kernels, InsertLifecycle(k)
    PROVE  IndInv'
<1> DEFINE q == txn[k].req
<1> DEFINE st == DecidedState(Decision[q])
<1> DEFINE es == events[q]
<1> DEFINE e == Event("policy", st, Len(es) + 1)
<1> DEFINE ns == Append(es, e)
<1>1. /\ CallGood(txn[k], events) /\ txn[k].next = "insert"
      /\ q \in Requests /\ es \in Seq(Events) /\ Ordered(q, es)
  BY CallFacts DEF InsertLifecycle
<1>2. Decision[q] \in {"deny", "require_approval"}
  BY <1>1, DecisionAssumption DEF CallGood
<1>3. st \in LifecycleStates
  BY <1>2 DEF DecidedState, LifecycleStates
<1>b. bound' \in SUBSET (Kernels \X Requests)
  BY <1>1 DEF InsertLifecycle, IndInv, TypeOK
<1>4. CASE /\ proj[q] = None
           /\ events' = [events EXCEPT ![q] = ns]
           /\ proj' = [proj EXCEPT ![q] = SubmittedRow(ns, st)]
           /\ Remember(k, q, SubmittedRow(ns, st)) \/ UNCHANGED cache
  <2>u. End(k) /\ UNCHANGED <<damaged, raised, dispatched>>
    BY DEF InsertLifecycle, answers
  <2> HIDE DEF q, st, es
  <2>1. Len(es) + 1 \in Nat \ {0}
    BY <1>1
  <2>2. /\ e \in Events /\ e.kind = "policy" /\ e.state = st /\ e.id = Len(es) + 1
    BY <1>3, <2>1 DEF Event, Events
  <2>3. Ordered(q, ns)
    BY <1>1, <1>2, <2>2, OrderedAppend DEF st
  <2> HIDE DEF e
  <2>4. /\ ns \in Seq(Events) /\ Len(ns) = Len(es) + 1 /\ ns # <<>> /\ ns[Len(ns)] = e
        /\ Len(es) \in Nat /\ DOMAIN ns = 1..(Len(es) + 1)
    BY <1>1, <2>2, AppendFacts
  <2> HIDE DEF ns
  <2>5. /\ SubmittedRow(ns, st) = [state |-> st, version |-> 1, policies |-> {Len(ns)},
                                   approvals |-> {}, grants |-> {}]
        /\ SubmittedRow(ns, st) \in Rows
    BY <1>3, <2>4, SubmittedFacts
  <2>6. OnePolicy(ns) => /\ SubmittedRow(ns, st) = Replay(ns)
                         /\ SubSeq(ns, 1, Len(ns)) = ns /\ Len(ns) \in 1..Len(ns)
    <3> SUFFICES ASSUME OnePolicy(ns)
                 PROVE  /\ SubmittedRow(ns, st) = Replay(ns)
                        /\ SubSeq(ns, 1, Len(ns)) = ns /\ Len(ns) \in 1..Len(ns)
      OBVIOUS
    <3>1. /\ ns[Len(ns)].kind = "policy" => Len(ns) = 1 /\ Replay(ns) =
               [state |-> ns[1].state, version |-> 1, policies |-> {1}, approvals |-> {},
                grants |-> {}]
          /\ Len(ns) \in 1..Len(ns) /\ SubSeq(ns, 1, Len(ns)) = ns
      BY <1>1, <2>3, <2>4, LastShape
    <3>2. Len(ns) = 1 /\ ns[1].state = st
      BY <2>2, <2>4, <3>1
    <3> QED BY <2>2, <2>4, <2>5, <3>1, <3>2
  <2>7. q \notin damaged => OnePolicy(ns)
    <3> SUFFICES ASSUME q \notin damaged PROVE OnePolicy(ns)
      OBVIOUS
    <3>1. es = <<>>
      <4> SUFFICES ASSUME es # <<>> PROVE FALSE
        OBVIOUS
      <4>1. OnePolicy(es) /\ None = Replay(es)
        BY <1>1, <1>4 DEF IndInv, DamageInv, ProjectionFollowsLedger, es
      <4>2. Replay(es) \in Rows
        BY <1>1, <4>1, ReplayTyped
      <4> QED BY <4>1, <4>2, LifecycleNoneAssumption
    <3>2. DOMAIN ns = {1}
      BY <2>4, <3>1
    <3> QED BY <3>2 DEF OnePolicy
  <2>8. RecordGood(q, SubmittedRow(ns, st), ns)
    <3>1. SubmittedRow(ns, st).grants = {}
      BY <2>5
    <3>2. Replayable(q, ns) => OnePolicy(ns)
      BY <1>1, <2>3, <2>4, ReplayableShape
    <3>3. Replayable(q, ns) => \E n \in 1..Len(ns) : SubmittedRow(ns, st) = Replay(SubSeq(ns, 1, n))
      BY <2>6, <3>2
    <3> QED BY <2>4, <3>1, <3>3 DEF RecordGood
  <2>9. SubmittedRow(ns, st).state = e.state
    BY <2>2, <2>5
  <2> DEFINE row == SubmittedRow(ns, st)
  <2>10. /\ row \in Rows /\ RecordGood(q, row, ns) /\ row.state = e.state
         /\ proj' = [proj EXCEPT ![q] = row]
         /\ q \notin damaged => OnePolicy(ns) /\ row = Replay(ns)
         /\ Remember(k, q, row) \/ UNCHANGED cache
    BY <1>4, <2>5, <2>6, <2>7, <2>8, <2>9
  <2> HIDE DEF row
  <2>11. /\ events' = [events EXCEPT ![q] = Append(events[q], e)]
         /\ ns = Append(events[q], e)
    BY <1>4 DEF ns, es
  <2> QED BY <1>1, <1>b, <2>2, <2>3, <2>10, <2>11, <2>u, AppendStep
<1>5. CASE UNCHANGED <<events, proj, cache, bound>>
  <2>1. /\ txn' = [txn EXCEPT ![k] = None]
        /\ UNCHANGED <<database, cache, bound, dispatched, raised>>
    BY <1>5 DEF InsertLifecycle, End, answers, database
  <2>r. raised' \in SUBSET ({"refused", "duplicate", "diverged"} \X Requests)
    BY <2>1 DEF IndInv, TypeOK
  <2> QED BY <2>1, <2>r, CallStep
<1> QED BY <1>4, <1>5 DEF InsertLifecycle

(* The one write that matches its row appends its evidence and updates     *)
(* projection and record alike.                                            *)
LEMMA WriteKeeps ==
    ASSUME IndInv, NEW k \in Kernels, Write(k)
    PROVE  IndInv'
<1> DEFINE q == txn[k].req
<1> DEFINE es == events[q]
<1> DEFINE e == WriteEvent(k)
<1> DEFINE ns == Append(es, e)
<1> DEFINE new == WrittenRow(proj[q], e)
<1> DEFINE row == WrittenRow(txn[k].row, e)
<1>1. /\ CallGood(txn[k], events) /\ txn[k].next = "write"
      /\ q \in Requests /\ es \in Seq(Events) /\ Ordered(q, es)
  BY CallFacts DEF Write
<1>2. /\ txn[k].row \in Rows
      /\ txn[k].op = "approve" =>
           txn[k].by \in Approvers /\ txn[k].row = DecidedRow
      /\ txn[k].op # "approve" => Len(es) >= 2 /\ txn[k].row = ApprovedRow(es[2].id)
  BY <1>1 DEF CallGood
<1>3. /\ proj[q] # None
      /\ txn[k].op = "approve" => proj[q].state = "approval_required"
      /\ txn[k].op # "approve" => proj[q].state \in {"policy_authorized", "approved"}
  BY DEF Write, WriteMatches, ApproveMatches, GrantMatches, Issuable
<1>4. proj[q] \in Rows /\ RowGood(proj[q], es)
  BY <1>1, <1>3 DEF IndInv, TypeOK, RowInv
<1>5. es # <<>> /\ proj[q].state = es[Len(es)].state
  BY <1>4 DEF RowGood
<1>6. /\ events' = [events EXCEPT ![q] = Append(events[q], e)]
      /\ proj' = [proj EXCEPT ![q] = new]
      /\ Remember(k, q, row) \/ UNCHANGED cache
      /\ dispatched' = dispatched \/
            (txn[k].op = "execute" /\ dispatched' = dispatched \cup {<<q, k>>})
      /\ End(k) /\ UNCHANGED <<damaged, bound, raised>>
  BY DEF Write
<1>b. bound' \in SUBSET (Kernels \X Requests)
  BY <1>6 DEF IndInv, TypeOK
<1>7. q \notin damaged => OnePolicy(es) /\ proj[q] = Replay(es)
  BY <1>1, <1>5 DEF IndInv, DamageInv, ProjectionFollowsLedger
<1>8. CASE txn[k].op = "approve"
  <2> DEFINE a == txn[k].by
  <2>1. e = Event("approval", "approved", a)
    BY <1>8 DEF WriteEvent
  <2>2. a \in Approvers /\ txn[k].row = DecidedRow
    BY <1>2, <1>8
  <2>3. es[Len(es)].kind = "policy" /\ Decision[q] = "require_approval" /\ Len(es) >= 1
    BY <1>1, <1>3, <1>5, <1>8, LastKind
  <2>x. dispatched' = dispatched
    BY <1>6, <1>8
  <2> HIDE DEF q, es, a, e
  <2>4. e \in Events /\ e.kind = "approval" /\ e.state = "approved" /\ e.id = a
    BY <2>1, <2>2 DEF Event, Events, LifecycleStates
  <2>5. Ordered(q, ns)
    BY <1>1, <2>2, <2>3, <2>4, OrderedAppend
  <2>6. /\ ns \in Seq(Events) /\ Len(ns) = Len(es) + 1 /\ ns # <<>> /\ ns[Len(ns)] = e
        /\ Len(es) \in Nat /\ DOMAIN es = 1..Len(es) /\ DOMAIN ns = 1..(Len(es) + 1)
        /\ \A i \in DOMAIN es : ns[i] = es[i]
    BY <1>1, <2>4, AppendFacts
  <2>7. row = ApprovedRow(a)
    BY <2>1, <2>2, WrittenFacts
  <2>8. row \in Rows
    <3>1. DecidedRow \in Rows
      BY <1>2, <2>2
    <3> QED BY <1>2, <2>1, <2>2, WrittenTyped DEF LifecycleStates
  <2>9. new \in Rows /\ new.state = e.state
    <3>1. "approved" \in LifecycleStates
      BY DEF LifecycleStates
    <3>2. /\ WrittenRow(proj[q], Event("approval", "approved", a)) \in Rows
          /\ WrittenRow(proj[q], Event("approval", "approved", a)).state = "approved"
      BY <1>4, <2>2, <3>1, WrittenTyped
    <3> QED BY <2>1, <2>4, <3>2
  <2> HIDE DEF ns, row
  <2>10. OnePolicy(ns) => Replay(ns) = ApprovedRow(a) /\ SubSeq(ns, 1, Len(ns)) = ns
                          /\ Len(ns) \in 1..Len(ns)
    <3> SUFFICES ASSUME OnePolicy(ns)
                 PROVE  Replay(ns) = ApprovedRow(a) /\ SubSeq(ns, 1, Len(ns)) = ns
                        /\ Len(ns) \in 1..Len(ns)
      OBVIOUS
    <3>1. /\ ns[Len(ns)].kind = "approval" =>
                Len(ns) = 2 /\ Replay(ns) = ApprovedRow(ns[2].id)
          /\ Len(ns) \in 1..Len(ns) /\ SubSeq(ns, 1, Len(ns)) = ns
      BY <1>1, <2>5, <2>6, LastShape
    <3>2. Len(ns) = 2 /\ ns[2] = e
      BY <2>4, <2>6, <3>1
    <3> QED BY <2>4, <2>6, <3>1, <3>2
  <2>11. RecordGood(q, row, ns)
    <3>1. row.grants = {}
      BY <2>7 DEF ApprovedRow
    <3>2. Replayable(q, ns) => OnePolicy(ns)
      BY <1>1, <2>5, <2>6, ReplayableShape
    <3>3. Replayable(q, ns) => \E n \in 1..Len(ns) : row = Replay(SubSeq(ns, 1, n))
      BY <2>7, <2>10, <3>2
    <3> QED BY <2>6, <3>1, <3>3 DEF RecordGood
  <2>12. q \notin damaged => OnePolicy(ns) /\ new = Replay(ns)
    <3> SUFFICES ASSUME q \notin damaged PROVE OnePolicy(ns) /\ new = Replay(ns)
      OBVIOUS
    <3>1. OnePolicy(ns)
      <4> SUFFICES ASSUME NEW i \in DOMAIN ns, ns[i].kind = "policy" PROVE i = 1
        BY DEF OnePolicy
      <4>1. i \in DOMAIN es /\ ns[i] = es[i]
        BY <2>4, <2>6
      <4> QED BY <1>7, <4>1 DEF OnePolicy
    <3>2. Replay(es) = [state |-> es[1].state, version |-> 1, policies |-> {1},
                        approvals |-> {}, grants |-> {}] /\ Len(es) = 1
      BY <1>1, <1>5, <1>7, <2>3, LastShape
    <3>3. proj[q] = DecidedRow
      BY <1>3, <1>5, <1>7, <1>8, <3>2 DEF DecidedRow
    <3>4. new = ApprovedRow(a)
      BY <2>1, <3>3, WrittenFacts
    <3> QED BY <2>10, <3>1, <3>4
  <2> HIDE DEF new
  <2>13. ns = Append(events[q], e)
    BY DEF ns, es
  <2> QED BY <1>1, <1>6, <1>b, <2>4, <2>5, <2>8, <2>9, <2>11, <2>12, <2>13, <2>x, AppendStep
<1>9. CASE txn[k].op # "approve"
  <2>1. e = Event("grant", "grant_issued", k)
    BY <1>9 DEF WriteEvent
  <2>2. Len(es) >= 2 /\ txn[k].row = ApprovedRow(es[2].id)
    BY <1>2, <1>9
  <2>3. es[Len(es)].kind = "approval"
    BY <1>1, <1>3, <1>5, <1>9, LastKind
  <2> HIDE DEF q, es, e
  <2>4. e \in Events /\ e.kind = "grant" /\ e.state = "grant_issued" /\ e.id = k
    BY <2>1 DEF Event, Events, LifecycleStates
  <2>5. Ordered(q, ns)
    BY <1>1, <2>2, <2>3, <2>4, OrderedAppend
  <2>6. /\ ns \in Seq(Events) /\ Len(ns) = Len(es) + 1 /\ ns # <<>> /\ ns[Len(ns)] = e
        /\ Len(es) \in Nat /\ DOMAIN es = 1..Len(es) /\ DOMAIN ns = 1..(Len(es) + 1)
        /\ \A i \in DOMAIN es : ns[i] = es[i]
    BY <1>1, <2>4, AppendFacts
  <2>7. row = [state |-> "grant_issued", version |-> 3, policies |-> {1},
               approvals |-> {es[2].id}, grants |-> {k}]
    BY <2>1, <2>2, WrittenFacts
  <2>8. row \in Rows
    BY <1>2, <2>1, WrittenTyped DEF LifecycleStates
  <2>9. new \in Rows /\ new.state = e.state
    <3>1. "grant_issued" \in LifecycleStates
      BY DEF LifecycleStates
    <3>2. /\ WrittenRow(proj[q], Event("grant", "grant_issued", k)) \in Rows
          /\ WrittenRow(proj[q], Event("grant", "grant_issued", k)).state = "grant_issued"
      BY <1>4, <3>1, WrittenTyped
    <3> QED BY <2>1, <2>4, <3>2
  <2>i. IdsOf(ns, "grant") = IdsOf(es, "grant") \cup {k}
    BY <1>1, <2>4, AppendIds
  <2> HIDE DEF ns, row
  <2>10. OnePolicy(ns) => /\ Replay(ns) = [state |-> "grant_issued", version |-> 3,
                                           policies |-> {1}, approvals |-> {es[2].id},
                                           grants |-> {k}]
                          /\ SubSeq(ns, 1, Len(ns)) = ns /\ Len(ns) \in 1..Len(ns)
    <3> SUFFICES ASSUME OnePolicy(ns)
                 PROVE  /\ Replay(ns) = [state |-> "grant_issued", version |-> 3,
                                         policies |-> {1}, approvals |-> {es[2].id},
                                         grants |-> {k}]
                        /\ SubSeq(ns, 1, Len(ns)) = ns /\ Len(ns) \in 1..Len(ns)
      OBVIOUS
    <3>1. /\ ns[Len(ns)].kind = "grant" =>
                Len(ns) = 3 /\ Replay(ns) = [state |-> "grant_issued", version |-> 3,
                                             policies |-> {1}, approvals |-> {ns[2].id},
                                             grants |-> {ns[3].id}]
          /\ Len(ns) \in 1..Len(ns) /\ SubSeq(ns, 1, Len(ns)) = ns
      BY <1>1, <2>5, <2>6, LastShape
    <3>2. Len(ns) = 3 /\ ns[3].id = k /\ ns[2] = es[2]
      BY <2>2, <2>4, <2>6, <3>1
    <3> QED BY <2>4, <2>6, <3>1, <3>2
  <2>11. RecordGood(q, row, ns)
    <3>1. row.grants = {k}
      BY <2>7
    <3>2. Replayable(q, ns) => OnePolicy(ns)
      BY <1>1, <2>5, <2>6, ReplayableShape
    <3>3. Replayable(q, ns) => \E n \in 1..Len(ns) : row = Replay(SubSeq(ns, 1, n))
      BY <2>7, <2>10, <3>2
    <3> QED BY <2>6, <2>i, <3>1, <3>3 DEF RecordGood
  <2>12. q \notin damaged => OnePolicy(ns) /\ new = Replay(ns)
    <3> SUFFICES ASSUME q \notin damaged PROVE OnePolicy(ns) /\ new = Replay(ns)
      OBVIOUS
    <3>1. OnePolicy(ns)
      <4> SUFFICES ASSUME NEW i \in DOMAIN ns, ns[i].kind = "policy" PROVE i = 1
        BY DEF OnePolicy
      <4>1. i \in DOMAIN es /\ ns[i] = es[i]
        BY <2>4, <2>6
      <4> QED BY <1>7, <4>1 DEF OnePolicy
    <3>2. proj[q] = ApprovedRow(es[2].id)
      BY <1>1, <1>5, <1>7, <2>3, LastShape
    <3>3. new = [state |-> "grant_issued", version |-> 3, policies |-> {1},
                 approvals |-> {es[2].id}, grants |-> {k}]
      BY <2>1, <3>2, WrittenFacts
    <3> QED BY <2>10, <3>1, <3>3
  <2>13. ns = Append(events[q], e)
    BY DEF ns, es
  <2>14. dispatched' \in SUBSET (dispatched \cup {<<q, g>> : g \in row.grants})
    <3>1. row.grants = {k}
      BY <2>7
    <3> QED BY <1>6, <3>1
  <2> HIDE DEF new
  <2> QED BY <1>1, <1>6, <1>b, <2>4, <2>5, <2>8, <2>9, <2>11, <2>12, <2>13, <2>14, AppendStep
<1> QED BY <1>8, <1>9

-----------------------------------------------------------------------------
(* The invariant *)

(* Nothing was submitted. *)
LEMMA InitInv == Init => IndInv
<1> SUFFICES ASSUME Init PROVE IndInv
  OBVIOUS
<1>1. TypeOK
  BY DEF Init, TypeOK
<1>2. EventsInv /\ DamageInv
  BY DEF Init, EventsInv, DamageInv, Ordered, OnePolicy
<1>3. CallInv /\ RowInv /\ RecordInv /\ GrantInv
  BY DEF Init, CallInv, RowInv, RecordInv, GrantInv
<1>4. ProjectionFollowsLedger
  BY DEF Init, ProjectionFollowsLedger
<1> QED BY <1>1, <1>2, <1>3, <1>4 DEF IndInv

(* Every step of every kernel, and every damage, keeps the invariant. *)
LEMMA NextInv == IndInv /\ [Next]_vars => IndInv'
<1> SUFFICES ASSUME IndInv, [Next]_vars PROVE IndInv'
  OBVIOUS
<1>r. raised \in SUBSET ({"refused", "duplicate", "diverged"} \X Requests)
  BY DEF IndInv, TypeOK
<1>1. ASSUME NEW k \in Kernels, NEW q \in Requests,
             \/ Submit(k, q) \/ SubmitConflicts(k, q) \/ Get(k, q)
             \/ \E a \in Approvers : AcceptApproval(k, q, a)
             \/ IssueGrant(k, q) \/ ExecuteEffect(k, q) \/ RebuildLifecycle(k, q)
      PROVE  IndInv'
  <2>1. CASE Submit(k, q)
    BY <2>1, SubmitKeeps
  <2>2. CASE SubmitConflicts(k, q)
    BY <1>r, <2>2, AnswerStep DEF SubmitConflicts, Raise
  <2>3. CASE Get(k, q)
    BY <2>3, BeginLoadKeeps DEF Get
  <2>4. ASSUME NEW a \in Approvers, AcceptApproval(k, q, a) PROVE IndInv'
    BY <2>4, BeginLoadKeeps DEF AcceptApproval
  <2>5. CASE IssueGrant(k, q)
    BY <2>5, BeginLoadKeeps DEF IssueGrant
  <2>6. CASE ExecuteEffect(k, q)
    BY <2>6, ExecuteKeeps
  <2>7. CASE RebuildLifecycle(k, q)
    BY <2>7, RebuildBeginKeeps
  <2> QED BY <1>1, <2>1, <2>2, <2>3, <2>4, <2>5, <2>6, <2>7
<1>2. ASSUME NEW k \in Kernels,
             \/ InsertLifecycle(k) \/ ReadRow(k)
             \/ LoadRaises(k) \/ LoadKeeps(k)
             \/ LoadAdvances(k) \/ LoadEnds(k)
             \/ Write(k) \/ WriteLost(k)
             \/ Rebuild(k) \/ Restart(k)
      PROVE  IndInv'
  BY <1>2, InsertKeeps, ReadRowKeeps, LoadRaisesKeeps, LoadKeepsKeeps, LoadAdvancesKeeps,
     LoadEndsKeeps, WriteKeeps, WriteLostKeeps, RebuildKeeps, RestartKeeps
<1>3. ASSUME NEW q \in Requests, NEW how \in Damages, Damage(q, how) PROVE IndInv'
  BY <1>3, DamageKeeps
<1>4. CASE UNCHANGED vars
  <2>1. UNCHANGED <<database, cache, txn, bound, dispatched, raised>>
    BY <1>4 DEF vars, database
  <2> QED BY <1>r, <2>1, AnswerStep
<1> QED BY <1>1, <1>2, <1>3, <1>4 DEF Next

(* The strengthened invariant holds in every reachable state. *)
THEOREM Inductive == Spec => []IndInv
<1>1. Init => IndInv
  BY InitInv
<1>2. IndInv /\ [Next]_vars => IndInv'
  BY NextInv
<1> QED BY <1>1, <1>2, PTL DEF Spec

-----------------------------------------------------------------------------
(* The theorems *)

(* Type correctness of database, kernels and calls. *)
THEOREM TypeCorrect == Spec => []TypeOK
<1>1. IndInv => TypeOK
  BY DEF IndInv
<1> QED BY <1>1, Inductive, PTL

(* persist_submission, persist_approval, persist_grant and                 *)
(* rebuild_lifecycle leave an undamaged gah_request_lifecycle row the      *)
(* replay of the whole ledger of its request.                              *)
THEOREM ProjectionsFollowLedger == Spec => []ProjectionFollowsLedger
<1>1. IndInv => ProjectionFollowsLedger
  BY DEF IndInv
<1> QED BY <1>1, Inductive, PTL

(* Kernels that race leave one approval and one grant for each policy      *)
(* decision, and no grant without the approval its policy asked for.       *)
THEOREM AuthorityIsOne == Spec => []OneAuthority
<1>1. IndInv => OneAuthority
  <2> SUFFICES ASSUME IndInv, NEW q \in Requests, NEW i \in DOMAIN events[q]
               PROVE  /\ events[q][i].kind # "policy" =>
                           \A j \in 1..(i - 1) : events[q][j].kind = events[q][i].kind =>
                              \E p \in j..i : events[q][p].kind = "policy"
                      /\ events[q][i].kind = "grant" /\ Decision[q] = "require_approval" =>
                           events[q][i - 1].kind = "approval"
    BY DEF OneAuthority
  <2> DEFINE es == events[q]
  <2>1. es \in Seq(Events) /\ Ordered(q, es)
    BY DEF IndInv, TypeOK, EventsInv
  <2> HIDE DEF es
  <2>2. i \in DOMAIN es /\ DOMAIN es = 1..Len(es) /\ Len(es) \in Nat /\ es[i] \in Events
    BY <2>1 DEF es
  <2>3. es[i].kind \in {"policy", "approval", "grant"}
    BY <2>2 DEF Events
  <2>4. es[i].kind = "grant" => i > 2 /\ es[i - 1].kind = "approval"
    BY <2>1, <2>2 DEF Ordered
  <2>5. es[i].kind = "approval" => i > 1 /\ es[i - 1].kind = "policy"
    BY <2>1, <2>2 DEF Ordered
  <2>6. es[i].kind = "grant" => es[i - 2].kind = "policy"
    <3> SUFFICES ASSUME es[i].kind = "grant" PROVE es[i - 2].kind = "policy"
      OBVIOUS
    <3>1. i - 1 \in DOMAIN es /\ es[i - 1].kind = "approval" /\ (i - 1) - 1 = i - 2
      BY <2>2, <2>4
    <3> QED BY <2>1, <3>1 DEF Ordered
  <2>7. ASSUME es[i].kind # "policy", NEW j \in 1..(i - 1), es[j].kind = es[i].kind
        PROVE  \E p \in j..i : es[p].kind = "policy"
    <3>1. CASE es[i].kind = "approval"
      <4>1. i - 1 \in j..i
        BY <2>2, <2>5, <3>1
      <4> QED BY <2>5, <3>1, <4>1
    <3>2. CASE es[i].kind = "grant"
      <4>1. j # i - 1
        BY <2>4, <2>7, <3>2
      <4>2. i - 2 \in j..i
        BY <2>2, <2>4, <3>2, <4>1
      <4> QED BY <2>6, <3>2, <4>2
    <3> QED BY <2>3, <2>7, <3>1, <3>2
  <2> QED BY <2>4, <2>7 DEF es
<1> QED BY <1>1, Inductive, PTL

(* An effect is dispatched under a grant of the ledger, which is the only  *)
(* one while the ledger holds one decision.                                *)
THEOREM DispatchesOnRecord == Spec => []DispatchOnRecord
<1>1. IndInv => DispatchOnRecord
  <2> SUFFICES ASSUME IndInv, NEW d \in dispatched
               PROVE  /\ d[2] \in IdsOf(events[d[1]], "grant")
                      /\ DecidedOnce(d[1]) => IdsOf(events[d[1]], "grant") = {d[2]}
    BY DEF DispatchOnRecord
  <2> DEFINE q == d[1]
  <2> DEFINE es == events[q]
  <2>1. q \in Requests /\ d[2] \in IdsOf(es, "grant")
    BY DEF IndInv, TypeOK, GrantInv
  <2>2. es \in Seq(Events) /\ Ordered(q, es)
    BY <2>1 DEF IndInv, TypeOK, EventsInv
  <2>3. ASSUME DecidedOnce(q) PROVE IdsOf(es, "grant") = {d[2]}
    <3>0. \A x, y \in IdsOf(es, "policy") : x = y
      BY <2>3 DEF DecidedOnce
    <3> HIDE DEF q, es
    <3>1. es # <<>>
      BY <2>1 DEF IdsOf
    <3>2. 1 \in DOMAIN es /\ es[1].kind = "policy"
      <4>1. 1 \in DOMAIN es /\ es[1] \in Events
        BY <2>2, <3>1
      <4>2. es[1].kind \in {"policy", "approval", "grant"}
        BY <4>1 DEF Events
      <4> QED BY <2>2, <4>1, <4>2 DEF Ordered
    <3>3. OnePolicy(es)
      <4> SUFFICES ASSUME NEW i \in DOMAIN es, es[i].kind = "policy" PROVE i = 1
        BY DEF OnePolicy
      <4>1. es[i].id = i /\ es[1].id = 1
        BY <2>2, <3>2 DEF Ordered
      <4>2. es[i].id \in IdsOf(es, "policy") /\ es[1].id \in IdsOf(es, "policy")
        BY <3>2 DEF IdsOf
      <4> QED BY <3>0, <4>1, <4>2
    <3>4. Replay(es).grants = IdsOf(es, "grant")
      BY DEF Replay
    <3>5. Replay(es).grants = IF Len(es) = 3 THEN {es[3].id} ELSE {}
      <4>1. Replay(es) = [state |-> es[Len(es)].state, version |-> Len(es), policies |-> {1},
                          approvals |-> IF Len(es) >= 2 THEN {es[2].id} ELSE {},
                          grants |-> IF Len(es) = 3 THEN {es[3].id} ELSE {}]
        BY <2>2, <3>1, <3>3, ReplayShape
      <4> QED BY <4>1
    <3> QED BY <2>1, <3>4, <3>5
  <2> QED BY <2>1, <2>3
<1> QED BY <1>1, Inductive, PTL

(* A kernel's own record is a state its ledger went through. *)
THEOREM CachesOnRecord == Spec => []CacheOnRecord
<1>1. IndInv => CacheOnRecord
  BY DEF IndInv, RecordInv, RecordGood, CacheOnRecord
<1> QED BY <1>1, Inductive, PTL

===============================================================================
