------------------------ MODULE BuiltinExecutionProofs ------------------------
(***************************************************************************)
(* Proofs about BuiltinExecution beside SkillLifecycle, for every set of   *)
(* callers, executors, commands and executions and every lease.            *)
(*                                                                         *)
(* The lifecycle's own invariant holds of the composed system: executions  *)
(* append to its run on the head they drafted for and take none of its     *)
(* callers' locks.  What the execution adds to it: a grant has at most one *)
(* issuance, one intent and one outcome, in that order and for one         *)
(* operation; a row says which of them are in the ledger; and a caller     *)
(* that runs the handler holds the only attempt of its grant.              *)
(*                                                                         *)
(* Then: somebody always goes on, because the holder of the innermost lock *)
(* waits for none; the lifecycle implements GovernedSkill beside           *)
(* executions too; and the handler's runs, taken grant by grant, implement *)
(* EffectOnce.                                                             *)
(***************************************************************************)
EXTENDS BuiltinExecution, SkillLifecycleProofs, FiniteSetTheorems

Issuance == "execution.authorization_issued"
Intent == "execution.intent"
Outcome == "execution.outcome"
ExecutionKinds == {Issuance, Intent, Outcome}

(* Event i of es is of this kind and grant. *)
IsEvent(es, i, kind, g) == i \in DOMAIN es /\ es[i].kind = kind /\ es[i].of.grant = g

(* The execution events of a run es on which n grants were issued. *)
EventsGood(es, n) ==
    /\ \A i \in DOMAIN es : es[i].kind \in ExecutionKinds =>
          es[i].of.op \in Executions /\ es[i].of.grant \in 1..n
    /\ \A i, j \in DOMAIN es :
          /\ es[i].kind \in ExecutionKinds /\ es[i].kind = es[j].kind
          /\ es[i].of.grant = es[j].of.grant
          => i = j
    /\ \A i, j \in DOMAIN es :
          /\ es[i].kind \in ExecutionKinds /\ es[j].kind \in ExecutionKinds
          /\ es[i].of.grant = es[j].of.grant
          => es[i].of.op = es[j].of.op
    /\ \A i \in DOMAIN es : es[i].kind = Intent =>
          \E j \in 1..(i - 1) : IsEvent(es, j, Issuance, es[i].of.grant)
    /\ \A i \in DOMAIN es : es[i].kind = Outcome =>
          /\ \E j \in 1..(i - 1) : IsEvent(es, j, Intent, es[i].of.grant)
          /\ es[i].of.outcome \in {"succeeded", "indeterminate"}

(* What row r of operation o says of the run. *)
RowGood(o, r, es, n) ==
    /\ r.state # "absent" =>
          /\ r.grant \in 1..n
          /\ \E j \in DOMAIN es : IsEvent(es, j, Issuance, r.grant) /\ es[j].of.op = o
    /\ r.state = "authorized" => \A i \in DOMAIN es : ~IsEvent(es, i, Intent, r.grant)
    /\ r.state = "executing" =>
          /\ IsEvent(es, r.attempt, Intent, r.grant) /\ r.generation = 1
          /\ \A i \in DOMAIN es : ~IsEvent(es, i, Outcome, r.grant)
    /\ r.state \in Terminal =>
          /\ IsEvent(es, r.outcome, Outcome, r.grant)
          /\ es[r.outcome].of.outcome =
                (IF r.state = "completed" THEN "succeeded" ELSE "indeterminate")

Attempting == {"running", "completing"}

(* What a call under way knows of the run. *)
CallerGood(c, es) ==
    /\ c.pc # "idle" => c.op \in Executions
    /\ c.pc \in Attempting => IsEvent(es, c.attempt, Intent, c.grant)
                              /\ es[c.attempt].of.op = c.op

EventsInv == EventsGood(ledger, Len(life))
RowsInv == \A o \in Executions : RowGood(o, row[o], ledger, Len(life))
CallersInv == \A x \in Executors : CallerGood(call[x], ledger)

(* A grant has one attempt and its handler runs under it once. *)
RunsInv ==
    /\ \A g \in DOMAIN runs :
          /\ runs[g] <= 1
          /\ runs[g] = 1 => \E i \in DOMAIN ledger : IsEvent(ledger, i, Intent, g)
    /\ \A x \in Executors : call[x].pc = "running" => runs[call[x].grant] = 0
    /\ \A x, y \in Executors :
          /\ call[x].pc \in Attempting /\ call[y].pc \in Attempting
          /\ call[x].grant = call[y].grant
          => x = y

(* An issuance is drafted under its operation's lock for an absent row. *)
IssuingInv ==
    /\ \A x \in Executors : call[x].pc = "issuing" =>
          /\ <<x, ExecutionLock(call[x].op)>> \in locks
          /\ row[call[x].op].state = "absent"
    /\ \A x, y \in Executors :
          /\ call[x].pc = "issuing" /\ call[y].pc = "issuing"
          /\ call[x].op = call[y].op
          => x = y

(* What a caller was told is an outcome of the run. *)
ToldInv == \A i \in told : i \in DOMAIN ledger /\ ledger[i].kind = Outcome

(* Unless rows were lost, an operation is issued once. *)
IssuedOnce ==
    losses = 0 =>
        \A i, j \in DOMAIN ledger :
            /\ ledger[i].kind = Issuance
            => /\ row[ledger[i].of.op].state # "absent"
               /\ ledger[j].kind = Issuance /\ ledger[i].of.op = ledger[j].of.op => i = j

SystemInv ==
    /\ SkillInv
    /\ ExecutionTypeOK
    /\ EventsInv
    /\ RowsInv
    /\ CallersInv
    /\ RunsInv
    /\ IssuingInv
    /\ IssuedOnce
    /\ ToldInv
    /\ ConsumedOnActiveSkill

-----------------------------------------------------------------------------
(* The run as it grows *)

LEMMA LedgerSeq ==
    ASSUME LedgerInv
    PROVE  /\ ledger \in Seq(Range(ledger))
           /\ Len(ledger) \in Nat /\ DOMAIN ledger = 1..Len(ledger)
BY LenProperties DEF LedgerInv

(* An appended event adds to what the events before it say. *)
LEMMA EventAppend ==
    ASSUME NEW S, NEW es \in Seq(S), NEW e
    PROVE  /\ Len(es) \in Nat /\ DOMAIN es = 1..Len(es)
           /\ DOMAIN Append(es, e) = 1..(Len(es) + 1) /\ Len(Append(es, e)) = Len(es) + 1
           /\ \A i \in DOMAIN es : Append(es, e)[i] = es[i]
           /\ Append(es, e)[Len(es) + 1] = e
           /\ \A i, kind, g :
                 IsEvent(Append(es, e), i, kind, g) <=>
                    \/ IsEvent(es, i, kind, g)
                    \/ i = Len(es) + 1 /\ e.kind = kind /\ e.of.grant = g
<1>1. S \subseteq S \cup {e} /\ e \in S \cup {e}
  OBVIOUS
<1>2. /\ Len(es) \in Nat /\ DOMAIN es = 1..Len(es)
      /\ DOMAIN Append(es, e) = 1..(Len(es) + 1) /\ Len(Append(es, e)) = Len(es) + 1
      /\ \A i \in DOMAIN es : Append(es, e)[i] = es[i]
      /\ Append(es, e)[Len(es) + 1] = e
  BY <1>1, AppendFacts
<1>3. ASSUME NEW i, NEW kind, NEW g
      PROVE  IsEvent(Append(es, e), i, kind, g) <=>
                \/ IsEvent(es, i, kind, g)
                \/ i = Len(es) + 1 /\ e.kind = kind /\ e.of.grant = g
  <2> DEFINE ns == Append(es, e)
  <2> HIDE DEF ns
  <2>0. /\ DOMAIN ns = 1..(Len(es) + 1) /\ ns[Len(es) + 1] = e
        /\ \A j \in DOMAIN es : ns[j] = es[j]
    BY <1>2 DEF ns
  <2>1. CASE i = Len(es) + 1
    <3>1. i \in DOMAIN ns /\ ns[i] = e /\ i \notin DOMAIN es
      BY <1>2, <2>0, <2>1
    <3>2. IsEvent(ns, i, kind, g) <=> e.kind = kind /\ e.of.grant = g
      BY <3>1 DEF IsEvent
    <3>3. ~IsEvent(es, i, kind, g)
      BY <3>1 DEF IsEvent
    <3> QED BY <2>1, <3>2, <3>3 DEF ns
  <2>2. CASE i \in DOMAIN es
    <3>1. i \in DOMAIN ns /\ ns[i] = es[i] /\ i # Len(es) + 1
      BY <1>2, <2>0, <2>2
    <3>2. IsEvent(ns, i, kind, g) <=> IsEvent(es, i, kind, g)
      BY <2>2, <3>1 DEF IsEvent
    <3> QED BY <3>1, <3>2 DEF ns
  <2>3. CASE i # Len(es) + 1 /\ i \notin DOMAIN es
    <3>1. i \notin DOMAIN ns
      BY <1>2, <2>0, <2>3
    <3>2. ~IsEvent(ns, i, kind, g) /\ ~IsEvent(es, i, kind, g)
      BY <2>3, <3>1 DEF IsEvent
    <3> QED BY <2>3, <3>2 DEF ns
  <2> QED BY <2>1, <2>2, <2>3
<1> QED BY <1>2, <1>3

LEMMA LedgerAppend ==
    ASSUME LedgerInv, NEW e, ledger' = Append(ledger, e)
    PROVE  /\ ledger \in Seq(Range(ledger))
           /\ Len(ledger) \in Nat /\ DOMAIN ledger = 1..Len(ledger)
           /\ DOMAIN ledger' = 1..(Len(ledger) + 1) /\ Len(ledger') = Len(ledger) + 1
           /\ \A i \in DOMAIN ledger : ledger'[i] = ledger[i]
           /\ ledger'[Len(ledger) + 1] = e
           /\ \A i, kind, g :
                 IsEvent(ledger', i, kind, g) <=>
                    \/ IsEvent(ledger, i, kind, g)
                    \/ i = Len(ledger) + 1 /\ e.kind = kind /\ e.of.grant = g
<1>1. ledger \in Seq(Range(ledger))
  BY LedgerSeq
<1> DEFINE ns == Append(ledger, e)
<1>2. /\ Len(ledger) \in Nat /\ DOMAIN ledger = 1..Len(ledger)
      /\ DOMAIN ns = 1..(Len(ledger) + 1) /\ Len(ns) = Len(ledger) + 1
      /\ \A i \in DOMAIN ledger : ns[i] = ledger[i]
      /\ ns[Len(ledger) + 1] = e
      /\ \A i, kind, g :
            IsEvent(ns, i, kind, g) <=>
               \/ IsEvent(ledger, i, kind, g)
               \/ i = Len(ledger) + 1 /\ e.kind = kind /\ e.of.grant = g
  BY <1>1, EventAppend
<1>3. ledger' = ns
  OBVIOUS
<1> HIDE DEF ns
<1> QED BY <1>1, <1>2, <1>3

(* An event that is none of an execution's. *)
LEMMA EventsForeign ==
    ASSUME NEW S, NEW es \in Seq(S), NEW e, NEW n \in Nat,
           EventsGood(es, n), e.kind \notin ExecutionKinds
    PROVE  EventsGood(Append(es, e), n)
<1> DEFINE ns == Append(es, e)
<1>1. /\ Len(es) \in Nat /\ DOMAIN es = 1..Len(es)
      /\ DOMAIN ns = 1..(Len(es) + 1)
      /\ \A i \in DOMAIN es : ns[i] = es[i]
      /\ ns[Len(es) + 1] = e
      /\ \A i, kind, g : IsEvent(es, i, kind, g) => IsEvent(ns, i, kind, g)
  BY EventAppend
<1> HIDE DEF ns
<1>2. \A i \in DOMAIN ns : ns[i].kind \in ExecutionKinds => i \in DOMAIN es /\ ns[i] = es[i]
  <2> SUFFICES ASSUME NEW i \in DOMAIN ns, ns[i].kind \in ExecutionKinds
               PROVE  i \in DOMAIN es /\ ns[i] = es[i]
    OBVIOUS
  <2>1. i # Len(es) + 1
    BY <1>1
  <2> QED BY <1>1, <2>1
<1>3. \A i \in DOMAIN ns : ns[i].kind \in ExecutionKinds =>
          ns[i].of.op \in Executions /\ ns[i].of.grant \in 1..n
  BY <1>2 DEF EventsGood
<1>4. \A i, j \in DOMAIN ns :
          /\ ns[i].kind \in ExecutionKinds /\ ns[i].kind = ns[j].kind
          /\ ns[i].of.grant = ns[j].of.grant
          => i = j
  BY <1>2 DEF EventsGood
<1>5. \A i, j \in DOMAIN ns :
          /\ ns[i].kind \in ExecutionKinds /\ ns[j].kind \in ExecutionKinds
          /\ ns[i].of.grant = ns[j].of.grant
          => ns[i].of.op = ns[j].of.op
  BY <1>2 DEF EventsGood
<1>6. ASSUME NEW i \in DOMAIN ns, ns[i].kind = Intent
      PROVE  \E j \in 1..(i - 1) : IsEvent(ns, j, Issuance, ns[i].of.grant)
  <2>1. i \in DOMAIN es /\ ns[i] = es[i]
    BY <1>2, <1>6 DEF ExecutionKinds
  <2> QED BY <1>1, <1>6, <2>1 DEF EventsGood
<1>7. ASSUME NEW i \in DOMAIN ns, ns[i].kind = Outcome
      PROVE  /\ \E j \in 1..(i - 1) : IsEvent(ns, j, Intent, ns[i].of.grant)
             /\ ns[i].of.outcome \in {"succeeded", "indeterminate"}
  <2>1. i \in DOMAIN es /\ ns[i] = es[i]
    BY <1>2, <1>7 DEF ExecutionKinds
  <2> QED BY <1>1, <1>7, <2>1 DEF EventsGood
<1> QED BY <1>3, <1>4, <1>5, <1>6, <1>7 DEF EventsGood, ns

(* The next event of a grant. *)
LEMMA EventsNext ==
    ASSUME NEW S, NEW es \in Seq(S), NEW e, NEW n \in Nat, NEW k \in Nat, n <= k,
           EventsGood(es, n), e.kind \in ExecutionKinds,
           e.of.op \in Executions, e.of.grant \in 1..k,
           \A i \in DOMAIN es : ~IsEvent(es, i, e.kind, e.of.grant),
           \A i \in DOMAIN es : es[i].kind \in ExecutionKinds /\ es[i].of.grant = e.of.grant
                                  => es[i].of.op = e.of.op,
           e.kind = Intent => \E j \in DOMAIN es : IsEvent(es, j, Issuance, e.of.grant),
           e.kind = Outcome => /\ \E j \in DOMAIN es : IsEvent(es, j, Intent, e.of.grant)
                               /\ e.of.outcome \in {"succeeded", "indeterminate"}
    PROVE  EventsGood(Append(es, e), k)
<1> DEFINE ns == Append(es, e)
<1>1. /\ Len(es) \in Nat /\ DOMAIN es = 1..Len(es)
      /\ DOMAIN ns = 1..(Len(es) + 1)
      /\ \A i \in DOMAIN es : ns[i] = es[i]
      /\ ns[Len(es) + 1] = e
      /\ \A i, kind, g : IsEvent(es, i, kind, g) => IsEvent(ns, i, kind, g)
  BY EventAppend
<1> HIDE DEF ns
<1>2. \A i \in DOMAIN ns : \/ i \in DOMAIN es /\ ns[i] = es[i]
                           \/ i = Len(es) + 1 /\ ns[i] = e
  BY <1>1
<1>3. \A i \in DOMAIN ns : ns[i].kind \in ExecutionKinds =>
          ns[i].of.op \in Executions /\ ns[i].of.grant \in 1..k
  BY <1>2 DEF EventsGood
<1>4. ASSUME NEW i \in DOMAIN ns, NEW j \in DOMAIN ns,
             ns[i].kind \in ExecutionKinds, ns[i].kind = ns[j].kind,
             ns[i].of.grant = ns[j].of.grant
      PROVE  i = j
  <2>1. \A l \in DOMAIN es : ~(es[l].kind = e.kind /\ es[l].of.grant = e.of.grant)
    BY DEF IsEvent
  <2>2. CASE i \in DOMAIN es /\ j \in DOMAIN es
    BY <1>1, <1>4, <2>2 DEF EventsGood
  <2>3. CASE i \in DOMAIN es /\ j \notin DOMAIN es
    BY <1>2, <1>4, <2>1, <2>3
  <2>4. CASE i \notin DOMAIN es /\ j \in DOMAIN es
    BY <1>2, <1>4, <2>1, <2>4
  <2>5. CASE i \notin DOMAIN es /\ j \notin DOMAIN es
    BY <1>2, <2>5
  <2> QED BY <2>2, <2>3, <2>4, <2>5
<1>5. ASSUME NEW i \in DOMAIN ns, NEW j \in DOMAIN ns,
             ns[i].kind \in ExecutionKinds, ns[j].kind \in ExecutionKinds,
             ns[i].of.grant = ns[j].of.grant
      PROVE  ns[i].of.op = ns[j].of.op
  <2>2. CASE i \in DOMAIN es /\ j \in DOMAIN es
    BY <1>1, <1>5, <2>2 DEF EventsGood
  <2>3. CASE i \in DOMAIN es /\ j \notin DOMAIN es
    BY <1>2, <1>5, <2>3
  <2>4. CASE i \notin DOMAIN es /\ j \in DOMAIN es
    BY <1>2, <1>5, <2>4
  <2>5. CASE i \notin DOMAIN es /\ j \notin DOMAIN es
    BY <1>2, <2>5
  <2> QED BY <2>2, <2>3, <2>4, <2>5
<1>6. ASSUME NEW i \in DOMAIN ns, ns[i].kind = Intent
      PROVE  \E j \in 1..(i - 1) : IsEvent(ns, j, Issuance, ns[i].of.grant)
  <2>1. CASE i \in DOMAIN es /\ ns[i] = es[i]
    BY <1>1, <1>6, <2>1 DEF EventsGood
  <2>2. CASE i = Len(es) + 1 /\ ns[i] = e
    <3>1. PICK j \in DOMAIN es : IsEvent(es, j, Issuance, e.of.grant)
      BY <1>6, <2>2
    <3>2. j \in 1..(i - 1)
      BY <1>1, <2>2
    <3> QED BY <1>1, <2>2, <3>1, <3>2
  <2> QED BY <1>2, <2>1, <2>2
<1>7. ASSUME NEW i \in DOMAIN ns, ns[i].kind = Outcome
      PROVE  /\ \E j \in 1..(i - 1) : IsEvent(ns, j, Intent, ns[i].of.grant)
             /\ ns[i].of.outcome \in {"succeeded", "indeterminate"}
  <2>1. CASE i \in DOMAIN es /\ ns[i] = es[i]
    BY <1>1, <1>7, <2>1 DEF EventsGood
  <2>2. CASE i = Len(es) + 1 /\ ns[i] = e
    <3>1. PICK j \in DOMAIN es : IsEvent(es, j, Intent, e.of.grant)
      BY <1>7, <2>2
    <3>2. j \in 1..(i - 1)
      BY <1>1, <2>2
    <3> QED BY <1>1, <1>7, <2>2, <3>1, <3>2
  <2> QED BY <1>2, <2>1, <2>2
<1> QED BY <1>3, <1>4, <1>5, <1>6, <1>7 DEF EventsGood, ns

(* The events of a grant are of one operation. *)
LEMMA SameGrant ==
    ASSUME NEW es, NEW n, EventsGood(es, n), NEW i \in DOMAIN es, NEW j \in DOMAIN es,
           es[i].kind \in ExecutionKinds, es[j].kind \in ExecutionKinds,
           es[i].of.grant = es[j].of.grant
    PROVE  es[i].of.op = es[j].of.op
BY DEF EventsGood

(* A row that an appended event is not about stays true of the run. *)
LEMMA RowAppend ==
    ASSUME NEW S, NEW es \in Seq(S), NEW e, NEW n \in Nat, NEW k \in Nat, n <= k,
           NEW o, NEW r, RowGood(o, r, es, n),
           r.state = "authorized" => ~(e.kind = Intent /\ e.of.grant = r.grant),
           r.state = "executing" => ~(e.kind = Outcome /\ e.of.grant = r.grant)
    PROVE  RowGood(o, r, Append(es, e), k)
<1> DEFINE ns == Append(es, e)
<1>1. /\ Len(es) \in Nat /\ DOMAIN es = 1..Len(es)
      /\ DOMAIN ns = 1..(Len(es) + 1)
      /\ \A i \in DOMAIN es : ns[i] = es[i]
      /\ \A i, kind, g :
            IsEvent(ns, i, kind, g) <=>
                \/ IsEvent(es, i, kind, g)
                \/ i = Len(es) + 1 /\ e.kind = kind /\ e.of.grant = g
  BY EventAppend
<1> HIDE DEF ns
<1>2. ASSUME r.state # "absent"
      PROVE  /\ r.grant \in 1..k
             /\ \E j \in DOMAIN ns : IsEvent(ns, j, Issuance, r.grant) /\ ns[j].of.op = o
  <2>1. PICK j \in DOMAIN es : IsEvent(es, j, Issuance, r.grant) /\ es[j].of.op = o
    BY <1>2 DEF RowGood
  <2>2. j \in DOMAIN ns /\ ns[j] = es[j] /\ IsEvent(ns, j, Issuance, r.grant)
    BY <1>1, <2>1
  <2>3. r.grant \in 1..n
    BY <1>2 DEF RowGood
  <2> QED BY <2>1, <2>2, <2>3
<1>3. ASSUME r.state = "authorized"
      PROVE  \A i \in DOMAIN ns : ~IsEvent(ns, i, Intent, r.grant)
  <2>1. \A i : IsEvent(es, i, Intent, r.grant) => FALSE
    BY <1>3 DEF RowGood, IsEvent
  <2> QED BY <1>1, <1>3, <2>1
<1>4. ASSUME r.state = "executing"
      PROVE  /\ IsEvent(ns, r.attempt, Intent, r.grant) /\ r.generation = 1
             /\ \A i \in DOMAIN ns : ~IsEvent(ns, i, Outcome, r.grant)
  <2>1. \A i : IsEvent(es, i, Outcome, r.grant) => FALSE
    BY <1>4 DEF RowGood, IsEvent
  <2>2. IsEvent(es, r.attempt, Intent, r.grant) /\ r.generation = 1
    BY <1>4 DEF RowGood
  <2> QED BY <1>1, <1>4, <2>1, <2>2
<1>5. ASSUME r.state \in Terminal
      PROVE  /\ IsEvent(ns, r.outcome, Outcome, r.grant)
             /\ ns[r.outcome].of.outcome =
                   (IF r.state = "completed" THEN "succeeded" ELSE "indeterminate")
  <2>1. IsEvent(es, r.outcome, Outcome, r.grant)
    BY <1>5 DEF RowGood
  <2>2. r.outcome \in DOMAIN es
    BY <2>1 DEF IsEvent
  <2>3. ns[r.outcome] = es[r.outcome]
    BY <1>1, <2>2
  <2> QED BY <1>1, <1>5, <2>1, <2>3 DEF RowGood
<1> QED BY <1>2, <1>3, <1>4, <1>5 DEF RowGood, ns

LEMMA CallerAppend ==
    ASSUME NEW S, NEW es \in Seq(S), NEW e, NEW c, CallerGood(c, es)
    PROVE  CallerGood(c, Append(es, e))
<1>1. /\ \A i \in DOMAIN es : Append(es, e)[i] = es[i]
      /\ \A i, kind, g : IsEvent(es, i, kind, g) => IsEvent(Append(es, e), i, kind, g)
  BY EventAppend
<1>2. ASSUME c.pc \in Attempting
      PROVE  /\ IsEvent(Append(es, e), c.attempt, Intent, c.grant)
             /\ Append(es, e)[c.attempt].of.op = c.op
  <2>1. IsEvent(es, c.attempt, Intent, c.grant) /\ es[c.attempt].of.op = c.op
    BY <1>2 DEF CallerGood
  <2>2. c.attempt \in DOMAIN es
    BY <2>1 DEF IsEvent
  <2> QED BY <1>1, <2>1, <2>2
<1> QED BY <1>2 DEF CallerGood

-----------------------------------------------------------------------------
(* The skill at an intent *)

(* Event e was recorded at place i while its revision was the active one. *)
ConsumedAt(i, e, tr, arts) ==
    \E n \in 0..Len(tr) :
        /\ \A k \in DOMAIN tr : tr[k].event < i <=> k <= n
        /\ ReplayOn(SubSeq(tr, 1, n), arts).revision = e.of.op.revision
        /\ ReplayOn(SubSeq(tr, 1, n), arts).digest = e.of.op.digest

LEMMA ConsumedIs ==
    /\ ConsumedOnActiveSkill <=>
         \A i \in DOMAIN ledger : ledger[i].kind = Intent =>
            ConsumedAt(i, ledger[i], transitions, artifacts)
    /\ ConsumedOnActiveSkill' <=>
         \A i \in DOMAIN ledger' : ledger'[i].kind = Intent =>
            ConsumedAt(i, ledger'[i], transitions', artifacts')
<1>1. \A h : Replay(h) = ReplayOn(h, artifacts)
  BY ReplayIs
<1>2. \A h : Replay(h)' = ReplayOn(h', artifacts')
  BY DEF Replay, ReplayOn, Deciding
<1>3. ConsumedOnActiveSkill <=>
        \A i \in DOMAIN ledger : ledger[i].kind = Intent =>
            ConsumedAt(i, ledger[i], transitions, artifacts)
  BY <1>1 DEF ConsumedOnActiveSkill, ConsumedAt, IsKind, Intent
<1>4. \A n : Replay(SubSeq(transitions, 1, n))' =
                 ReplayOn(SubSeq(transitions', 1, n), artifacts')
  BY DEF Replay, ReplayOn, Deciding
<1>5. ConsumedOnActiveSkill' <=>
        \A i \in DOMAIN ledger' : ledger'[i].kind = Intent =>
            ConsumedAt(i, ledger'[i], transitions', artifacts')
  BY <1>4 DEF ConsumedOnActiveSkill, ConsumedAt, IsKind, Intent
<1> QED BY <1>3, <1>5

LEMMA ConsumedGrow ==
    ASSUME LedgerInv, ConsumedOnActiveSkill,
           transitions' = transitions, artifacts' = artifacts,
           \/ ledger' = ledger
           \/ \E e : /\ ledger' = Append(ledger, e)
                     /\ e.kind = Intent =>
                          ConsumedAt(Len(ledger) + 1, e, transitions, artifacts)
    PROVE  ConsumedOnActiveSkill'
<1>1. \A i \in DOMAIN ledger : ledger[i].kind = Intent =>
          ConsumedAt(i, ledger[i], transitions, artifacts)
  BY ConsumedIs
<1>2. SUFFICES \A i \in DOMAIN ledger' : ledger'[i].kind = Intent =>
                  ConsumedAt(i, ledger'[i], transitions, artifacts)
  BY ConsumedIs
<1>3. CASE ledger' = ledger
  BY <1>1, <1>3
<1>4. ASSUME NEW e, ledger' = Append(ledger, e),
             e.kind = Intent => ConsumedAt(Len(ledger) + 1, e, transitions, artifacts)
      PROVE  \A i \in DOMAIN ledger' : ledger'[i].kind = Intent =>
                  ConsumedAt(i, ledger'[i], transitions, artifacts)
  <2>1. /\ Len(ledger) \in Nat /\ DOMAIN ledger = 1..Len(ledger)
        /\ DOMAIN ledger' = 1..(Len(ledger) + 1)
        /\ \A i \in DOMAIN ledger : ledger'[i] = ledger[i]
        /\ ledger'[Len(ledger) + 1] = e
    BY <1>4, LedgerAppend
  <2>2. \A i \in DOMAIN ledger' : \/ i \in DOMAIN ledger /\ ledger'[i] = ledger[i]
                                  \/ i = Len(ledger) + 1 /\ ledger'[i] = e
    BY <2>1
  <2> QED BY <1>1, <1>4, <2>2
<1> QED BY <1>3, <1>4

(* A history's projection does not depend on artifacts added later. *)
LEMMA ReplayStays ==
    ASSUME NEW S, NEW h \in Seq(S), NEW arts, NEW more,
           \A i \in DOMAIN h : more[h[i].cmd.target] = arts[h[i].cmd.target]
    PROVE  ReplayOn(h, more) = ReplayOn(h, arts)
<1>1. CASE Deciding(h) = {}
  BY <1>1 DEF ReplayOn
<1>2. CASE Deciding(h) # {}
  <2>1. Len(h) \in Nat /\ DOMAIN h = 1..Len(h)
    BY LenProperties
  <2>2. Deciding(h) \in SUBSET (1..Len(h))
    BY <2>1 DEF Deciding
  <2>3. Max(Deciding(h)) \in DOMAIN h
    BY <1>2, <2>1, <2>2, MaxFacts
  <2> QED BY <2>3 DEF ReplayOn
<1> QED BY <1>1, <1>2

(* A transition recorded after the intent. *)
LEMMA ConsumedLater ==
    ASSUME NEW S, NEW tr \in Seq(S), NEW t, NEW arts, NEW more, NEW i \in Nat, NEW e,
           ConsumedAt(i, e, tr, arts), t.event \in Nat, t.event > i,
           \A k \in DOMAIN tr : more[tr[k].cmd.target] = arts[tr[k].cmd.target]
    PROVE  ConsumedAt(i, e, Append(tr, t), more)
<1> DEFINE nt == Append(tr, t)
<1>1. /\ Len(tr) \in Nat /\ DOMAIN tr = 1..Len(tr)
      /\ DOMAIN nt = 1..(Len(tr) + 1) /\ Len(nt) = Len(tr) + 1
      /\ \A k \in DOMAIN tr : nt[k] = tr[k]
      /\ nt[Len(tr) + 1] = t
      /\ nt \in Seq(S \cup {t})
  <2>1. S \subseteq S \cup {t} /\ t \in S \cup {t}
    OBVIOUS
  <2> QED BY <2>1, AppendFacts
<1>2. PICK n \in 0..Len(tr) :
        /\ \A k \in DOMAIN tr : tr[k].event < i <=> k <= n
        /\ ReplayOn(SubSeq(tr, 1, n), arts).revision = e.of.op.revision
        /\ ReplayOn(SubSeq(tr, 1, n), arts).digest = e.of.op.digest
  BY DEF ConsumedAt
<1>3. SubSeq(nt, 1, n) = SubSeq(tr, 1, n)
  <2> HIDE DEF nt
  <2>1. /\ SubSeq(nt, 1, n) \in Seq(S \cup {t}) /\ SubSeq(tr, 1, n) \in Seq(S)
        /\ Len(SubSeq(nt, 1, n)) = n /\ Len(SubSeq(tr, 1, n)) = n
        /\ \A k \in 1..n : SubSeq(nt, 1, n)[k] = nt[k] /\ SubSeq(tr, 1, n)[k] = tr[k]
    BY <1>1, SubSeqProperties
  <2>2. SubSeq(tr, 1, n) \in Seq(S \cup {t})
    BY <2>1, SeqMonotonic
  <2>3. \A k \in 1..n : nt[k] = tr[k]
    BY <1>1
  <2> QED BY <2>1, <2>2, <2>3, SeqEqual
<1>4. ReplayOn(SubSeq(tr, 1, n), more) = ReplayOn(SubSeq(tr, 1, n), arts)
  <2> DEFINE h == SubSeq(tr, 1, n)
  <2>1. /\ h \in Seq(S) /\ Len(h) = n /\ \A k \in 1..n : h[k] = tr[k]
    BY <1>1, SubSeqProperties
  <2>2. \A k \in DOMAIN h : k \in DOMAIN tr /\ h[k] = tr[k]
    BY <1>1, <2>1, LenProperties
  <2> HIDE DEF h
  <2>3. \A k \in DOMAIN h : more[h[k].cmd.target] = arts[h[k].cmd.target]
    BY <2>2
  <2>4. ReplayOn(h, more) = ReplayOn(h, arts)
    BY <2>1, <2>3, ReplayStays
  <2> QED BY <2>4 DEF h
<1> HIDE DEF nt
<1>5. ASSUME NEW k \in DOMAIN nt PROVE nt[k].event < i <=> k <= n
  <2>1. CASE k \in DOMAIN tr
    BY <1>1, <1>2, <2>1
  <2>2. CASE k \notin DOMAIN tr
    BY <1>1, <2>2
  <2> QED BY <2>1, <2>2
<1>6. n \in 0..Len(nt)
  BY <1>1
<1> QED BY <1>2, <1>3, <1>4, <1>5, <1>6 DEF ConsumedAt, nt

-----------------------------------------------------------------------------
(* Types *)

(* The rows and the calls of a run of k events and n grants. *)
ExecutionRows(n, k) ==
    [state : {"absent", "authorized", "executing"} \cup Terminal,
     grant : 0..n, attempt : 0..k, generation : 0..2, lease : 0..LeaseTicks, outcome : 0..k]
ExecutionCalls(n, k) ==
    [pc : ExecutionPCs, op : Executions \cup {None}, grant : 0..n, head : 0..k, attempt : 0..k]

LeasesGood(rs, ls) ==
    \A o \in Executions : rs[o].state = "executing" /\ rs[o].lease > 0
                            => rs[o].lease < ls[rs[o].grant]

LEMMA TypesGrow ==
    ASSUME NEW n \in Nat, NEW k \in Nat, NEW n2 \in Nat, NEW k2 \in Nat, n <= n2, k <= k2
    PROVE  /\ ExecutionRows(n, k) \subseteq ExecutionRows(n2, k2)
           /\ ExecutionCalls(n, k) \subseteq ExecutionCalls(n2, k2)
<1>1. 0..n \subseteq 0..n2 /\ 0..k \subseteq 0..k2
  OBVIOUS
<1>2. ExecutionRows(n, k) \subseteq ExecutionRows(n2, k2)
  <2> SUFFICES ASSUME NEW r \in ExecutionRows(n, k) PROVE r \in ExecutionRows(n2, k2)
    OBVIOUS
  <2> QED BY <1>1 DEF ExecutionRows
<1>3. ExecutionCalls(n, k) \subseteq ExecutionCalls(n2, k2)
  <2> SUFFICES ASSUME NEW r \in ExecutionCalls(n, k) PROVE r \in ExecutionCalls(n2, k2)
    OBVIOUS
  <2> QED BY <1>1 DEF ExecutionCalls
<1> QED BY <1>2, <1>3

LEMMA TypesAre ==
    ASSUME SystemInv
    PROVE  /\ life \in Seq(0..GrantTicks) /\ Len(life) \in Nat /\ DOMAIN life = 1..Len(life)
           /\ row \in [Executions -> ExecutionRows(Len(life), Len(ledger))]
           /\ call \in [Executors -> ExecutionCalls(Len(life), Len(ledger))]
           /\ runs \in Seq(Nat) /\ Len(runs) = Len(life) /\ DOMAIN runs = 1..Len(life)
           /\ told \subseteq DOMAIN ledger
           /\ losses \in 0..MaxLosses
           /\ LeasesGood(row, life)
           /\ LedgerInv /\ Len(ledger) \in Nat /\ DOMAIN ledger = 1..Len(ledger)
<1>1. /\ life \in Seq(0..GrantTicks)
      /\ row \in [Executions -> ExecutionRows(Len(life), Len(ledger))]
      /\ call \in [Executors -> ExecutionCalls(Len(life), Len(ledger))]
      /\ runs \in Seq(Nat) /\ Len(runs) = Len(life)
      /\ told \subseteq DOMAIN ledger
      /\ losses \in 0..MaxLosses
      /\ LeasesGood(row, life)
  BY DEF SystemInv, ExecutionTypeOK, ExecutionRows, ExecutionCalls, LeasesGood
<1>2. Len(life) \in Nat /\ DOMAIN life = 1..Len(life) /\ DOMAIN runs = 1..Len(life)
  BY <1>1, LenProperties
<1>3. LedgerInv /\ Len(ledger) \in Nat /\ DOMAIN ledger = 1..Len(ledger)
  BY LedgerSeq DEF SystemInv, SkillInv
<1> QED BY <1>1, <1>2, <1>3

(* The same, of the next state. *)
LEMMA TypesNext ==
    ASSUME life' \in Seq(0..GrantTicks),
           row' \in [Executions -> ExecutionRows(Len(life'), Len(ledger'))],
           call' \in [Executors -> ExecutionCalls(Len(life'), Len(ledger'))],
           runs' \in Seq(Nat), Len(runs') = Len(life'),
           told' \subseteq DOMAIN ledger',
           losses' \in 0..MaxLosses,
           LeasesGood(row', life')
    PROVE  ExecutionTypeOK'
BY DEF ExecutionTypeOK, ExecutionRows, ExecutionCalls, LeasesGood

-----------------------------------------------------------------------------
(* Steps of the lifecycle *)

LEMMA LeaveFrame ==
    ASSUME NEW c \in Callers, Leave(c)
    PROVE  \A x \in Executors : \A key : <<x, key>> \in locks => <<x, key>> \in locks'
<1>1. locks' = {l \in locks : l[1] # c}
  BY DEF Leave, ReleaseAll
<1> QED BY <1>1, ExecutorAssumption

(* What a step of the lifecycle leaves of the run, the history and the     *)
(* executors' locks.                                                       *)
LEMMA LifecycleFrame ==
    ASSUME SkillInv, LifecycleNext
    PROVE  /\ \A x \in Executors : \A key : <<x, key>> \in locks => <<x, key>> \in locks'
           /\ \/ ledger' = ledger
              \/ \E e : e.kind \notin ExecutionKinds /\ ledger' = Append(ledger, e)
           /\ \/ transitions' = transitions /\ artifacts' = artifacts
              \/ \E e, t :
                   /\ e.kind \notin ExecutionKinds /\ ledger' = Append(ledger, e)
                   /\ transitions' = Append(transitions, t) /\ t.event = Len(ledger) + 1
                   /\ \A v \in DOMAIN artifacts : artifacts'[v] = artifacts[v]
<1> DEFINE P == \A x \in Executors : \A key : <<x, key>> \in locks => <<x, key>> \in locks'
<1> DEFINE Q == \/ ledger' = ledger
                \/ \E e : e.kind \notin ExecutionKinds /\ ledger' = Append(ledger, e)
<1> DEFINE R == transitions' = transitions /\ artifacts' = artifacts
<1> DEFINE A == \E e, t :
                   /\ e.kind \notin ExecutionKinds /\ ledger' = Append(ledger, e)
                   /\ transitions' = Append(transitions, t) /\ t.event = Len(ledger) + 1
                   /\ \A v \in DOMAIN artifacts : artifacts'[v] = artifacts[v]
<1> SUFFICES P /\ Q /\ (R \/ A)
  OBVIOUS
<1>a. ASSUME NEW c \in Callers, Raise(c) \/ Answer(c) PROVE P /\ Q /\ R
  <2>1. Leave(c) /\ UNCHANGED store
    BY <1>a DEF Raise, Answer
  <2> QED BY <2>1, LeaveFrame DEF store
<1>b. ASSUME locks \subseteq locks', UNCHANGED store PROVE P /\ Q /\ R
  BY <1>b DEF store
<1>1. ASSUME NEW c \in Callers, NEW m \in Commands, Call(c, m) PROVE P /\ Q /\ R
  BY <1>1, <1>b DEF Call
<1>2. ASSUME NEW c \in Callers, Step(c) PROVE P /\ Q /\ (R \/ A)
  <2>1. CASE LookupReplay(c) \/ LookupConflicts(c) \/ ValidationFails(c) \/ DraftReplay(c)
             \/ DraftRefused(c) \/ ApplyRefused(c) \/ RebuildReplay(c) \/ RebuildRefused(c)
    <3>1. Raise(c) \/ Answer(c)
      BY <2>1 DEF LookupReplay, LookupConflicts, ValidationFails, DraftReplay, DraftRefused,
                  ApplyRefused, RebuildReplay, RebuildRefused
    <3> QED BY <1>a, <3>1
  <2>2. CASE LookupMisses(c) \/ Authorize(c) \/ AuthorizeLock(c) \/ LockOperation(c)
             \/ Draft(c) \/ RebuildRead(c)
    <3>1. locks \subseteq locks' /\ UNCHANGED store
      BY <2>2 DEF LookupMisses, Authorize, AuthorizeLock, LockOperation, Draft, RebuildRead,
                  Acquire
    <3> QED BY <1>b, <3>1
  <2>3. CASE RebuildWrite(c)
    <3>1. Leave(c) /\ ledger' = ledger /\ transitions' = transitions /\ artifacts' = artifacts
      BY <2>3 DEF RebuildWrite
    <3> QED BY <3>1, LeaveFrame
  <2>4. CASE Apply(c)
    <3> DEFINE e == LifecycleEvent(c)
    <3> DEFINE t == [cmd |-> cmd[c], to |-> ToState(cmd[c]), auth |-> auth[c],
                     event |-> Len(ledger) + 1]
    <3>1. /\ Leave(c) /\ ledger' = Append(ledger, e) /\ transitions' = Append(transitions, t)
          /\ artifacts' = IF cmd[c].operation = "install"
                          THEN Append(artifacts, cmd[c].digest) ELSE artifacts
          /\ cmd[c] \in Commands
      BY <2>4 DEF Apply, SkillInv, CallsInv, CallGood
    <3>2. e.kind \notin ExecutionKinds /\ t.event = Len(ledger) + 1
      BY DEF LifecycleEvent, ExecutionKinds, Issuance, Intent, Outcome
    <3>3. \A v \in DOMAIN artifacts : artifacts'[v] = artifacts[v]
      <4>1. artifacts \in Seq(DigestSet) /\ cmd[c].digest \in DigestSet
        BY <3>1 DEF SkillInv, StoreInv, StoreTyped, DigestSet
      <4>2. CASE cmd[c].operation = "install"
        BY <3>1, <4>1, <4>2, AppendFacts
      <4>3. CASE cmd[c].operation # "install"
        BY <3>1, <4>3
      <4> QED BY <4>2, <4>3
    <3> HIDE DEF e, t
    <3> QED BY <3>1, <3>2, <3>3, LeaveFrame
  <2> HIDE DEF P, Q, R, A
  <2> QED BY <1>2, <2>1, <2>2, <2>3, <2>4 DEF Step
<1>3. ASSUME NEW c \in Callers, Abort(c) PROVE P /\ Q /\ R
  BY <1>3, <1>a DEF Abort
<1>4. CASE LoseProjection
  BY <1>4 DEF LoseProjection
<1>5. CASE GenericAppend \/ ForeignAppend
  <2> DEFINE e == [kind |-> "other", sequence |-> Len(ledger), of |-> None]
  <2>1. AppendOther
    BY <1>5 DEF GenericAppend, ForeignAppend
  <2>2. /\ ledger' = Append(ledger, e) /\ transitions' = transitions
        /\ artifacts' = artifacts /\ locks' = locks
    BY <2>1 DEF AppendOther
  <2>3. e.kind \notin ExecutionKinds
    BY DEF ExecutionKinds, Issuance, Intent, Outcome
  <2> HIDE DEF e
  <2> QED BY <2>2, <2>3
<1> HIDE DEF P, Q, R, A
<1> QED BY <1>1, <1>2, <1>3, <1>4, <1>5 DEF LifecycleNext

(* The rows, calls and grants stay as they are while the run may grow by   *)
(* an event that is not theirs.                                            *)
LEMMA ExecutionStays ==
    ASSUME SystemInv, UNCHANGED executionVars,
           \A x \in Executors : \A key : <<x, key>> \in locks => <<x, key>> \in locks',
           \/ ledger' = ledger
           \/ \E e : e.kind \notin ExecutionKinds /\ ledger' = Append(ledger, e)
    PROVE  /\ ExecutionTypeOK' /\ EventsInv' /\ RowsInv' /\ CallersInv' /\ RunsInv'
           /\ IssuingInv' /\ IssuedOnce' /\ ToldInv'
<1>1. /\ row' = row /\ life' = life /\ call' = call /\ runs' = runs /\ told' = told
      /\ losses' = losses
  BY DEF executionVars
<1>2. CASE ledger' = ledger
  <2>1. ExecutionTypeOK'
    BY <1>1, <1>2 DEF SystemInv, ExecutionTypeOK
  <2>2. EventsInv' /\ RowsInv' /\ CallersInv' /\ RunsInv' /\ IssuedOnce' /\ ToldInv'
    BY <1>1, <1>2 DEF SystemInv, EventsInv, RowsInv, CallersInv, RunsInv, IssuedOnce, ToldInv
  <2>3. IssuingInv'
    BY <1>1 DEF SystemInv, IssuingInv, ExecutionLock
  <2> QED BY <2>1, <2>2, <2>3
<1>3. ASSUME NEW e, e.kind \notin ExecutionKinds, ledger' = Append(ledger, e)
      PROVE  /\ ExecutionTypeOK' /\ EventsInv' /\ RowsInv' /\ CallersInv' /\ RunsInv'
             /\ IssuingInv' /\ IssuedOnce' /\ ToldInv'
  <2>1. /\ ledger \in Seq(Range(ledger))
        /\ Len(ledger) \in Nat /\ DOMAIN ledger = 1..Len(ledger)
        /\ DOMAIN ledger' = 1..(Len(ledger) + 1) /\ Len(ledger') = Len(ledger) + 1
        /\ \A i \in DOMAIN ledger : ledger'[i] = ledger[i]
        /\ ledger'[Len(ledger) + 1] = e
        /\ \A i, kind, g : IsEvent(ledger, i, kind, g) => IsEvent(ledger', i, kind, g)
    BY <1>3, LedgerAppend, TypesAre
  <2>2. Len(life) \in Nat /\ Len(life) <= Len(life)
    BY TypesAre
  <2>3. ExecutionTypeOK'
    <3>1. /\ ExecutionRows(Len(life), Len(ledger)) \subseteq
               ExecutionRows(Len(life'), Len(ledger'))
          /\ ExecutionCalls(Len(life), Len(ledger)) \subseteq
               ExecutionCalls(Len(life'), Len(ledger'))
      BY <1>1, <2>1, <2>2, TypesGrow
    <3>2. /\ row' \in [Executions -> ExecutionRows(Len(life'), Len(ledger'))]
          /\ call' \in [Executors -> ExecutionCalls(Len(life'), Len(ledger'))]
      BY <1>1, <3>1, TypesAre
    <3>3. told' \subseteq DOMAIN ledger'
      BY <1>1, <2>1, TypesAre
    <3> QED BY <1>1, <3>2, <3>3, TypesAre, TypesNext
  <2>4. EventsInv'
    <3>1. EventsGood(ledger, Len(life))
      BY DEF SystemInv, EventsInv
    <3>2. EventsGood(Append(ledger, e), Len(life))
      BY <1>3, <2>1, <2>2, <3>1, EventsForeign
    <3> QED BY <1>1, <1>3, <3>2 DEF EventsInv
  <2>5. RowsInv'
    <3> SUFFICES ASSUME NEW o \in Executions PROVE RowGood(o, row[o], Append(ledger, e), Len(life))
      BY <1>1, <1>3 DEF RowsInv
    <3>1. RowGood(o, row[o], ledger, Len(life))
      BY DEF SystemInv, RowsInv
    <3>2. e.kind # Intent /\ e.kind # Outcome
      BY <1>3 DEF ExecutionKinds
    <3> QED BY <2>1, <2>2, <3>1, <3>2, RowAppend
  <2>6. CallersInv'
    <3> SUFFICES ASSUME NEW x \in Executors PROVE CallerGood(call[x], Append(ledger, e))
      BY <1>1, <1>3 DEF CallersInv
    <3>1. CallerGood(call[x], ledger)
      BY DEF SystemInv, CallersInv
    <3> QED BY <2>1, <3>1, CallerAppend
  <2>7. RunsInv'
    <3>1. ASSUME NEW g \in DOMAIN runs, runs[g] = 1
          PROVE  \E i \in DOMAIN ledger' : IsEvent(ledger', i, Intent, g)
      <4>1. PICK i \in DOMAIN ledger : IsEvent(ledger, i, Intent, g)
        BY <3>1 DEF SystemInv, RunsInv
      <4>2. i \in DOMAIN ledger' /\ IsEvent(ledger', i, Intent, g)
        BY <2>1, <4>1
      <4> QED BY <4>2
    <3> QED BY <1>1, <3>1 DEF SystemInv, RunsInv
  <2>8. IssuingInv'
    BY <1>1 DEF SystemInv, IssuingInv, ExecutionLock
  <2>9. IssuedOnce'
    <3>1. e.kind # Issuance
      BY <1>3 DEF ExecutionKinds
    <3>2. \A i \in DOMAIN ledger' : ledger'[i].kind = Issuance =>
              i \in DOMAIN ledger /\ ledger'[i] = ledger[i]
      <4> SUFFICES ASSUME NEW i \in DOMAIN ledger', ledger'[i].kind = Issuance
                   PROVE  i \in DOMAIN ledger /\ ledger'[i] = ledger[i]
        OBVIOUS
      <4>1. i # Len(ledger) + 1
        BY <2>1, <3>1
      <4> QED BY <2>1, <4>1
    <3> QED BY <1>1, <3>2 DEF SystemInv, IssuedOnce
  <2>10. ToldInv'
    BY <1>1, <2>1 DEF SystemInv, ToldInv
  <2> QED BY <2>3, <2>4, <2>5, <2>6, <2>7, <2>8, <2>9, <2>10
<1> QED BY <1>2, <1>3

LEMMA LifecycleKeeps ==
    ASSUME SystemInv, LifecycleNext, UNCHANGED executionVars
    PROVE  SystemInv'
<1>0. SkillInv
  BY DEF SystemInv
<1>1. SkillInv'
  BY <1>0, NextKeeps
<1>2. /\ \A x \in Executors : \A key : <<x, key>> \in locks => <<x, key>> \in locks'
      /\ \/ ledger' = ledger
         \/ \E e : e.kind \notin ExecutionKinds /\ ledger' = Append(ledger, e)
  BY <1>0, LifecycleFrame
<1>3. /\ ExecutionTypeOK' /\ EventsInv' /\ RowsInv' /\ CallersInv' /\ RunsInv'
      /\ IssuingInv' /\ IssuedOnce' /\ ToldInv'
  BY <1>2, ExecutionStays
<1>4. ConsumedOnActiveSkill'
  <2>1. CASE transitions' = transitions /\ artifacts' = artifacts
    <3>1. ASSUME NEW e, e.kind \notin ExecutionKinds PROVE e.kind # Intent
      BY <3>1 DEF ExecutionKinds
    <3> QED BY <1>0, <1>2, <2>1, <3>1, ConsumedGrow DEF SkillInv, SystemInv
  <2>2. ASSUME NEW e, NEW t, e.kind \notin ExecutionKinds, ledger' = Append(ledger, e),
               transitions' = Append(transitions, t), t.event = Len(ledger) + 1,
               \A v \in DOMAIN artifacts : artifacts'[v] = artifacts[v]
        PROVE  ConsumedOnActiveSkill'
    <3>1. /\ Len(ledger) \in Nat /\ DOMAIN ledger = 1..Len(ledger)
          /\ DOMAIN ledger' = 1..(Len(ledger) + 1)
          /\ \A i \in DOMAIN ledger : ledger'[i] = ledger[i]
          /\ ledger'[Len(ledger) + 1] = e
      BY <2>2, LedgerAppend, TypesAre
    <3>2. e.kind # Intent
      BY <2>2 DEF ExecutionKinds
    <3>3. transitions \in Seq(Transitions)
      BY <1>0 DEF SkillInv, StoreInv, StoreTyped
    <3>4. \A k \in DOMAIN transitions :
              artifacts'[transitions[k].cmd.target] = artifacts[transitions[k].cmd.target]
      BY <1>0, <2>2 DEF SkillInv, StoreInv, HistoryInv, TransitionGood
    <3>5. ASSUME NEW i \in DOMAIN ledger', ledger'[i].kind = Intent
          PROVE  ConsumedAt(i, ledger'[i], transitions', artifacts')
      <4>1. i \in DOMAIN ledger /\ ledger'[i] = ledger[i] /\ i \in Nat /\ Len(ledger) + 1 > i
            /\ Len(ledger) + 1 \in Nat
        <5>1. i # Len(ledger) + 1
          BY <3>1, <3>2, <3>5
        <5> QED BY <3>1, <5>1
      <4>2. ConsumedAt(i, ledger[i], transitions, artifacts)
        BY <3>5, <4>1, ConsumedIs DEF SystemInv
      <4>3. ConsumedAt(i, ledger[i], Append(transitions, t), artifacts')
        BY <2>2, <3>3, <3>4, <4>1, <4>2, ConsumedLater
      <4> QED BY <2>2, <4>1, <4>3
    <3> QED BY <3>5, ConsumedIs
  <2> QED BY <1>0, <2>1, <2>2, LifecycleFrame
<1> QED BY <1>1, <1>3, <1>4 DEF SystemInv

-----------------------------------------------------------------------------
(* Steps of an executor that record nothing *)

(* A step of x leaves the locks of all others in place. *)
LocksKept(x) == \A y : \A key : y # x /\ <<y, key>> \in locks => <<y, key>> \in locks'

LEMMA ReleaseKept ==
    ASSUME NEW x, ReleaseAll(x)
    PROVE  LocksKept(x)
BY DEF ReleaseAll, LocksKept

LEMMA AcquireKept ==
    ASSUME NEW x, NEW keys, Acquire(x, keys)
    PROVE  LocksKept(x) /\ \A key \in keys : <<x, key>> \in locks'
BY DEF Acquire, LocksKept

LEMMA SkillStays ==
    ASSUME SystemInv, UNCHANGED skillVars, NEW x \in Executors, LocksKept(x),
           \/ ledger' = ledger
           \/ \E e : e.sequence = Len(ledger) /\ ledger' = Append(ledger, e)
    PROVE  /\ SkillInv' /\ transitions' = transitions /\ artifacts' = artifacts
<1>1. UNCHANGED <<artifacts, transitions, active, rebuilds, lost, local, answers>>
  BY DEF skillVars, local
<1>2. \A c \in Callers : <<c, SkillLock>> \in locks => <<c, SkillLock>> \in locks'
  BY ExecutorAssumption DEF LocksKept
<1> QED BY <1>1, <1>2, EvidenceStep DEF SystemInv

(* Only the call of x changes. *)
LEMMA CallStep ==
    ASSUME SystemInv, NEW x \in Executors,
           NEW c \in ExecutionCalls(Len(life), Len(ledger)),
           call' = [call EXCEPT ![x] = c],
           UNCHANGED <<ledger, skillVars, row, life, runs, losses>>, LocksKept(x),
           CallerGood(c, ledger), c.pc \notin Attempting,
           c.pc = "issuing" => /\ <<x, ExecutionLock(c.op)>> \in locks'
                               /\ row[c.op].state = "absent"
                               /\ Free(ExecutionLock(c.op)),
           \A i \in told' : i \in told \/ (i \in DOMAIN ledger /\ ledger[i].kind = Outcome)
    PROVE  SystemInv'
<1>1. /\ ledger' = ledger /\ row' = row /\ life' = life /\ runs' = runs /\ losses' = losses
      /\ UNCHANGED skillVars
  OBVIOUS
<1>2. SkillInv' /\ transitions' = transitions /\ artifacts' = artifacts
  BY <1>1, SkillStays
<1>3. call \in [Executors -> ExecutionCalls(Len(life), Len(ledger))]
  BY TypesAre
<1>4. call'[x] = c /\ \A y \in Executors : y # x => call'[y] = call[y]
  BY <1>3
<1>5. ToldInv'
  BY <1>1 DEF SystemInv, ToldInv
<1>6. ExecutionTypeOK'
  <2>1. call' \in [Executors -> ExecutionCalls(Len(life'), Len(ledger'))]
    BY <1>1, <1>3
  <2>2. told' \subseteq DOMAIN ledger'
    BY <1>5 DEF ToldInv
  <2> QED BY <1>1, <2>1, <2>2, TypesAre, TypesNext
<1>7. EventsInv' /\ RowsInv' /\ IssuedOnce'
  BY <1>1 DEF SystemInv, EventsInv, RowsInv, IssuedOnce
<1>8. CallersInv'
  <2> SUFFICES ASSUME NEW y \in Executors PROVE CallerGood(call'[y], ledger)
    BY <1>1 DEF CallersInv
  <2>1. CASE y = x
    BY <1>4, <2>1
  <2>2. CASE y # x
    BY <1>4, <2>2 DEF SystemInv, CallersInv
  <2> QED BY <2>1, <2>2
<1>9. RunsInv'
  <2>1. \A y \in Executors : call'[y].pc \in Attempting => y # x /\ call'[y] = call[y]
    BY <1>4
  <2>2. \A y \in Executors : call'[y].pc = "running" => call'[y] = call[y]
    BY <2>1 DEF Attempting
  <2>3. \A y, z \in Executors :
          /\ call'[y].pc \in Attempting /\ call'[z].pc \in Attempting
          /\ call'[y].grant = call'[z].grant
          => y = z
    BY <2>1 DEF SystemInv, RunsInv
  <2>4. \A y \in Executors : call'[y].pc = "running" => runs[call'[y].grant] = 0
    BY <2>2 DEF SystemInv, RunsInv
  <2> QED BY <1>1, <2>3, <2>4 DEF SystemInv, RunsInv
<1>10. IssuingInv'
  <2>1. ASSUME NEW y \in Executors, call'[y].pc = "issuing"
        PROVE  /\ <<y, ExecutionLock(call'[y].op)>> \in locks'
               /\ row[call'[y].op].state = "absent"
    <3>1. CASE y = x
      BY <1>4, <2>1, <3>1
    <3>2. CASE y # x
      <4>1. /\ call'[y] = call[y] /\ <<y, ExecutionLock(call[y].op)>> \in locks
            /\ row[call[y].op].state = "absent"
        BY <1>4, <2>1, <3>2 DEF SystemInv, IssuingInv
      <4> QED BY <3>2, <4>1 DEF LocksKept
    <3> QED BY <3>1, <3>2
  <2>2. ASSUME NEW y \in Executors, y # x, call[y].pc = "issuing", c.pc = "issuing",
               call[y].op = c.op
        PROVE  FALSE
    <3>1. <<y, ExecutionLock(c.op)>> \in locks
      BY <2>2 DEF SystemInv, IssuingInv
    <3> QED BY <2>2, <3>1 DEF Free
  <2>3. ASSUME NEW y \in Executors, NEW z \in Executors,
               call'[y].pc = "issuing", call'[z].pc = "issuing", call'[y].op = call'[z].op
        PROVE  y = z
    <3>1. CASE y = x
      BY <1>4, <2>2, <2>3, <3>1
    <3>2. CASE y # x /\ z = x
      BY <1>4, <2>2, <2>3, <3>2
    <3>3. CASE y # x /\ z # x
      BY <1>4, <2>3, <3>3 DEF SystemInv, IssuingInv
    <3> QED BY <3>1, <3>2, <3>3
  <2> QED BY <1>1, <2>1, <2>3 DEF IssuingInv, ExecutionLock
<1>11. ConsumedOnActiveSkill'
  BY <1>1, <1>2, ConsumedGrow, TypesAre DEF SystemInv
<1> QED BY <1>2, <1>5, <1>6, <1>7, <1>8, <1>9, <1>10, <1>11 DEF SystemInv

LEMMA IdleTyped ==
    ASSUME NEW n \in Nat, NEW k \in Nat, NEW es
    PROVE  /\ Idle \in ExecutionCalls(n, k) /\ Idle.pc = "idle" /\ CallerGood(Idle, es)
           /\ Idle.pc \notin Attempting
<1>1. Idle.pc = "idle"
  BY DEF Idle
<1>2. Idle \in ExecutionCalls(n, k)
  BY DEF Idle, ExecutionCalls, ExecutionPCs
<1>3. Idle.pc \notin Attempting
  BY <1>1 DEF Attempting
<1> QED BY <1>1, <1>2, <1>3 DEF CallerGood

(* A call that ends, told nothing or an outcome of the run. *)
LEMMA EndStep ==
    ASSUME SystemInv, NEW x \in Executors, End(x),
           \A i \in told' : i \in told \/ (i \in DOMAIN ledger /\ ledger[i].kind = Outcome)
    PROVE  SystemInv'
<1>1. /\ call' = [call EXCEPT ![x] = Idle] /\ LocksKept(x)
      /\ UNCHANGED <<ledger, skillVars, row, life, runs, losses>>
  BY ReleaseKept DEF End, Return
<1>2. /\ Idle \in ExecutionCalls(Len(life), Len(ledger)) /\ Idle.pc = "idle"
      /\ CallerGood(Idle, ledger) /\ Idle.pc \notin Attempting
  BY IdleTyped, TypesAre
<1> QED BY <1>1, <1>2, CallStep

(* The outcome of a row that ended is in the run. *)
LEMMA OutcomeThere ==
    ASSUME SystemInv, NEW o \in Executions, row[o].state \in Terminal
    PROVE  row[o].outcome \in DOMAIN ledger /\ ledger[row[o].outcome].kind = Outcome
<1>1. RowGood(o, row[o], ledger, Len(life))
  BY DEF SystemInv, RowsInv
<1>2. IsEvent(ledger, row[o].outcome, Outcome, row[o].grant)
  BY <1>1 DEF RowGood
<1> QED BY <1>2 DEF IsEvent

LEMMA CallFields ==
    ASSUME SystemInv, NEW x \in Executors
    PROVE  /\ call[x] \in ExecutionCalls(Len(life), Len(ledger))
           /\ call[x].grant \in 0..Len(life) /\ call[x].head \in 0..Len(ledger)
           /\ call[x].attempt \in 0..Len(ledger) /\ CallerGood(call[x], ledger)
           /\ call[x] = [pc |-> call[x].pc, op |-> call[x].op, grant |-> call[x].grant,
                         head |-> call[x].head, attempt |-> call[x].attempt]
<1>1. call[x] \in ExecutionCalls(Len(life), Len(ledger))
  BY TypesAre
<1>2. CallerGood(call[x], ledger)
  BY DEF SystemInv, CallersInv
<1> QED BY <1>1, <1>2 DEF ExecutionCalls

(* A call that goes on without a lock. *)
LEMMA MoveOn ==
    ASSUME SystemInv, NEW x \in Executors,
           NEW c \in ExecutionCalls(Len(life), Len(ledger)),
           call' = [call EXCEPT ![x] = c],
           UNCHANGED <<ledger, skillVars, row, life, runs, losses>>,
           LocksKept(x), told' = told,
           c.op \in Executions, c.pc \notin Attempting, c.pc # "issuing"
    PROVE  SystemInv'
<1>1. CallerGood(c, ledger)
  BY DEF CallerGood
<1>2. \A i \in told' : i \in told \/ (i \in DOMAIN ledger /\ ledger[i].kind = Outcome)
  OBVIOUS
<1>3. c.pc = "issuing" => /\ <<x, ExecutionLock(c.op)>> \in locks'
                          /\ row[c.op].state = "absent"
                          /\ Free(ExecutionLock(c.op))
  OBVIOUS
<1> QED BY <1>1, <1>2, <1>3, CallStep

LEMMA IssueResolveKeeps ==
    ASSUME SystemInv, NEW x \in Executors, NEW o \in Executions, IssueResolve(x, o)
    PROVE  SystemInv'
<1> DEFINE c == [call[x] EXCEPT !.pc = "issue", !.op = o]
<1>1. /\ call' = [call EXCEPT ![x].pc = "issue", ![x].op = o]
      /\ UNCHANGED <<ledger, skillVars, row, life, runs, losses>>
      /\ locks' = locks /\ told' = told
  BY DEF IssueResolve
<1>2. call' = [call EXCEPT ![x] = c]
  BY <1>1, Zenon
<1>3. /\ c \in ExecutionCalls(Len(life), Len(ledger))
      /\ c.pc = "issue" /\ c.op = o
  BY CallFields DEF ExecutionCalls, ExecutionPCs
<1> HIDE DEF c
<1>4. c.pc \notin Attempting /\ c.pc # "issuing" /\ c.op \in Executions
  BY <1>3 DEF Attempting
<1>5. LocksKept(x)
  BY <1>1 DEF LocksKept
<1> QED BY <1>1, <1>2, <1>3, <1>4, <1>5, MoveOn

LEMMA InvokeDraftKeeps ==
    ASSUME SystemInv, NEW x \in Executors, NEW o \in Executions, NEW g \in DOMAIN life,
           InvokeDraft(x, o, g)
    PROVE  SystemInv'
<1> DEFINE c == [call[x] EXCEPT !.pc = "begin", !.op = o, !.grant = g, !.head = Len(ledger)]
<1>1. /\ call' = [call EXCEPT ![x].pc = "begin", ![x].op = o, ![x].grant = g,
                              ![x].head = Len(ledger)]
      /\ UNCHANGED <<ledger, skillVars, row, life, runs, losses>>
      /\ locks' = locks /\ told' = told
  BY DEF InvokeDraft
<1>2. call' = [call EXCEPT ![x] = c]
  BY <1>1, Zenon
<1>h. Len(ledger) \in 0..Len(ledger) /\ g \in 0..Len(life)
  BY TypesAre
<1>3. /\ c \in ExecutionCalls(Len(life), Len(ledger))
      /\ c.pc = "begin" /\ c.op = o
  BY <1>h, CallFields DEF ExecutionCalls, ExecutionPCs
<1> HIDE DEF c
<1>4. c.pc \notin Attempting /\ c.pc # "issuing" /\ c.op \in Executions
  BY <1>3 DEF Attempting
<1>5. LocksKept(x)
  BY <1>1 DEF LocksKept
<1> QED BY <1>1, <1>2, <1>3, <1>4, <1>5, MoveOn

LEMMA BeginLockKeeps ==
    ASSUME SystemInv, NEW x \in Executors, BeginLock(x)
    PROVE  SystemInv'
<1> DEFINE c == [call[x] EXCEPT !.pc = "beginning"]
<1>1. /\ call' = [call EXCEPT ![x].pc = "beginning"] /\ call[x].pc = "begin"
      /\ UNCHANGED <<ledger, skillVars, row, life, runs, losses>>
      /\ Acquire(x, {ExecutionLock(call[x].op)}) /\ told' = told
  BY DEF BeginLock
<1>2. call' = [call EXCEPT ![x] = c]
  BY <1>1, Zenon
<1>3. /\ c \in ExecutionCalls(Len(life), Len(ledger))
      /\ c.pc = "beginning" /\ c.op = call[x].op
  BY CallFields DEF ExecutionCalls, ExecutionPCs
<1> HIDE DEF c
<1>4. c.pc \notin Attempting /\ c.pc # "issuing"
  BY <1>3 DEF Attempting
<1>5. c.op \in Executions
  BY <1>1, <1>3, CallFields DEF CallerGood
<1>6. LocksKept(x)
  BY <1>1, AcquireKept
<1> QED BY <1>1, <1>2, <1>3, <1>4, <1>5, <1>6, MoveOn

LEMMA RecoverLookupKeeps ==
    ASSUME SystemInv, NEW x \in Executors, NEW o \in Executions, NEW g \in DOMAIN life,
           RecoverLookup(x, o, g)
    PROVE  SystemInv'
<1> DEFINE c == [call[x] EXCEPT !.pc = "recover", !.op = o, !.grant = g,
                                !.attempt = row[o].attempt]
<1>1. /\ call' = [call EXCEPT ![x].pc = "recover", ![x].op = o, ![x].grant = g,
                              ![x].attempt = row[o].attempt]
      /\ UNCHANGED <<ledger, skillVars, row, life, runs, losses>>
      /\ locks' = locks /\ told' = told
  BY DEF RecoverLookup
<1>2. call' = [call EXCEPT ![x] = c]
  BY <1>1, Zenon
<1>3. row[o].attempt \in 0..Len(ledger) /\ g \in 0..Len(life)
  BY TypesAre DEF ExecutionRows
<1>4. /\ c \in ExecutionCalls(Len(life), Len(ledger))
      /\ c.pc = "recover" /\ c.op = o
  BY <1>3, CallFields DEF ExecutionCalls, ExecutionPCs
<1> HIDE DEF c
<1>5. c.pc \notin Attempting /\ c.pc # "issuing" /\ c.op \in Executions
  BY <1>4 DEF Attempting
<1>6. LocksKept(x)
  BY <1>1 DEF LocksKept
<1> QED BY <1>1, <1>2, <1>4, <1>5, <1>6, MoveOn

LEMMA RecoverDraftKeeps ==
    ASSUME SystemInv, NEW x \in Executors, RecoverDraft(x)
    PROVE  SystemInv'
<1> DEFINE c == [call[x] EXCEPT !.pc = "recovering", !.head = Len(ledger)]
<1>1. /\ call' = [call EXCEPT ![x].pc = "recovering", ![x].head = Len(ledger)]
      /\ UNCHANGED <<ledger, skillVars, row, life, runs, losses>>
      /\ locks' = locks /\ told' = told /\ call[x].pc = "recover"
  BY DEF RecoverDraft
<1>2. call' = [call EXCEPT ![x] = c]
  BY <1>1, Zenon
<1>h. Len(ledger) \in 0..Len(ledger)
  BY TypesAre
<1>3. /\ c \in ExecutionCalls(Len(life), Len(ledger))
      /\ c.pc = "recovering" /\ c.op = call[x].op
  BY <1>h, CallFields DEF ExecutionCalls, ExecutionPCs
<1> HIDE DEF c
<1>4. c.pc \notin Attempting /\ c.pc # "issuing"
  BY <1>3 DEF Attempting
<1>5. c.op \in Executions
  BY <1>1, <1>3, CallFields DEF CallerGood
<1>6. LocksKept(x)
  BY <1>1 DEF LocksKept
<1> QED BY <1>1, <1>2, <1>3, <1>4, <1>5, <1>6, MoveOn

LEMMA IssueDraftKeeps ==
    ASSUME SystemInv, NEW x \in Executors, IssueDraft(x)
    PROVE  SystemInv'
<1> DEFINE c == [call[x] EXCEPT !.pc = "issuing", !.head = Len(ledger)]
<1>1. /\ call' = [call EXCEPT ![x].pc = "issuing", ![x].head = Len(ledger)]
      /\ UNCHANGED <<ledger, skillVars, row, life, runs, losses>>
      /\ told' = told /\ call[x].pc = "issue" /\ row[call[x].op].state = "absent"
      /\ Free(ExecutionLock(call[x].op)) /\ Acquire(x, {ExecutionLock(call[x].op)})
  BY DEF IssueDraft
<1>2. call' = [call EXCEPT ![x] = c]
  BY <1>1, Zenon
<1>h. Len(ledger) \in 0..Len(ledger)
  BY TypesAre
<1>3. /\ c \in ExecutionCalls(Len(life), Len(ledger))
      /\ c.pc = "issuing" /\ c.op = call[x].op
  BY <1>h, CallFields DEF ExecutionCalls, ExecutionPCs
<1> HIDE DEF c
<1>4. c.pc \notin Attempting
  BY <1>3 DEF Attempting
<1>5. c.op \in Executions
  BY <1>1, <1>3, CallFields DEF CallerGood
<1>6. CallerGood(c, ledger)
  BY <1>4, <1>5 DEF CallerGood
<1>7. LocksKept(x) /\ <<x, ExecutionLock(call[x].op)>> \in locks'
  BY <1>1, AcquireKept
<1>8. c.pc = "issuing" => /\ <<x, ExecutionLock(c.op)>> \in locks'
                          /\ row[c.op].state = "absent"
                          /\ Free(ExecutionLock(c.op))
  BY <1>1, <1>3, <1>7
<1>9. \A i \in told' : i \in told \/ (i \in DOMAIN ledger /\ ledger[i].kind = Outcome)
  BY <1>1
<1> QED BY <1>1, <1>2, <1>3, <1>4, <1>6, <1>7, <1>8, <1>9, CallStep

(* The calls that end with an exception or with what is stored. *)
LEMMA EndKeeps ==
    ASSUME SystemInv, NEW x \in Executors,
           \/ IssueReplay(x) \/ IssueRefused(x) \/ BeginReplay(x) \/ BeginRefused(x)
           \/ CompleteRefused(x) \/ RecoverLate(x) \/ RecoverRefused(x) \/ Die(x)
    PROVE  SystemInv'
<1>1. ASSUME End(x), told' = told PROVE SystemInv'
  BY <1>1, EndStep
<1>2. ASSUME End(x), call[x].pc # "idle", row[call[x].op].state \in Terminal,
             Tell(row[call[x].op].outcome)
      PROVE  SystemInv'
  <2>1. call[x].op \in Executions
    BY <1>2, CallFields DEF CallerGood
  <2>2. \A i \in told' : i \in told \/ (i \in DOMAIN ledger /\ ledger[i].kind = Outcome)
    BY <1>2, <2>1, OutcomeThere DEF Tell
  <2> QED BY <1>2, <2>2, EndStep
<1>3. CASE IssueReplay(x) \/ IssueRefused(x) \/ BeginRefused(x) \/ CompleteRefused(x)
           \/ RecoverRefused(x) \/ Die(x)
  <2>1. End(x) /\ told' = told
    BY <1>3 DEF IssueReplay, IssueRefused, BeginRefused, CompleteRefused, RecoverRefused, Die
  <2> QED BY <1>1, <2>1
<1>4. CASE BeginReplay(x)
  <2>1. /\ End(x) /\ call[x].pc = "beginning" /\ row[call[x].op].state \in Terminal
        /\ Tell(row[call[x].op].outcome)
    BY <1>4 DEF BeginReplay, Beginning, Replayable
  <2> QED BY <1>2, <2>1
<1>5. CASE RecoverLate(x)
  <2>1. /\ End(x) /\ call[x].pc = "recovering" /\ row[call[x].op].state \in Terminal
        /\ Tell(row[call[x].op].outcome)
    BY <1>5 DEF RecoverLate
  <2> QED BY <1>2, <2>1
<1> QED BY <1>3, <1>4, <1>5

LEMMA RecoverReplayKeeps ==
    ASSUME SystemInv, NEW x \in Executors, NEW o \in Executions, NEW g,
           RecoverReplay(x, o, g)
    PROVE  SystemInv'
<1> DEFINE c == call[x]
<1>1. /\ UNCHANGED <<ledger, skillVars, row, life, runs, losses>>
      /\ call' = call /\ locks' = locks /\ c.pc = "idle" /\ row[o].state \in Terminal
      /\ Tell(row[o].outcome)
  BY DEF RecoverReplay
<1>2. c \in ExecutionCalls(Len(life), Len(ledger)) /\ CallerGood(c, ledger)
  BY CallFields
<1>3. call' = [call EXCEPT ![x] = c]
  BY <1>1, TypesAre
<1>4. c.pc \notin Attempting /\ c.pc # "issuing"
  BY <1>1 DEF Attempting
<1>5. \A i \in told' : i \in told \/ (i \in DOMAIN ledger /\ ledger[i].kind = Outcome)
  BY <1>1, OutcomeThere DEF Tell
<1>6. LocksKept(x)
  BY <1>1 DEF LocksKept
<1>7. c.pc = "issuing" => /\ <<x, ExecutionLock(c.op)>> \in locks'
                          /\ row[c.op].state = "absent"
                          /\ Free(ExecutionLock(c.op))
  BY <1>4
<1> HIDE DEF c
<1>8. PICK d : d = c
  OBVIOUS
<1>9. /\ call' = [call EXCEPT ![x] = d] /\ d \in ExecutionCalls(Len(life), Len(ledger))
      /\ CallerGood(d, ledger) /\ d.pc \notin Attempting /\ d.pc # "issuing"
  BY <1>2, <1>3, <1>4, <1>8
<1>10. d.pc = "issuing" => /\ <<x, ExecutionLock(d.op)>> \in locks'
                           /\ row[d.op].state = "absent"
                           /\ Free(ExecutionLock(d.op))
  BY <1>9
<1> QED BY <1>1, <1>5, <1>6, <1>9, <1>10, CallStep

-----------------------------------------------------------------------------
(* Steps of an executor that record an event *)

(* A call of x records event e of operation o, replaces o's row by r and    *)
(* goes on as c.                                                           *)
Records(x, o, e, r, c) ==
    /\ ledger' = Append(ledger, e)
    /\ e.sequence = Len(ledger)
    /\ e.kind \in ExecutionKinds
    /\ e.of.op = o
    /\ e.kind = Issuance => row[o].state = "absent"
    /\ e.kind = Intent => ConsumedAt(Len(ledger) + 1, e, transitions, artifacts)
    /\ EventsGood(ledger', Len(life'))
    /\ UNCHANGED skillVars
    /\ losses' = losses
    /\ LocksKept(x)
    /\ life' \in Seq(0..GrantTicks)
    /\ Len(life') \in Nat
    /\ Len(life) <= Len(life')
    /\ \A g \in DOMAIN life : life'[g] = life[g]
    /\ runs' \in Seq(Nat)
    /\ Len(runs') = Len(life')
    /\ RunsInv'
    /\ row' = [row EXCEPT ![o] = r]
    /\ r \in ExecutionRows(Len(life'), Len(ledger'))
    /\ RowGood(o, r, ledger', Len(life'))
    /\ r.state # "absent"
    /\ r.state = "executing" /\ r.lease > 0 => r.lease < life'[r.grant]
    /\ call' = [call EXCEPT ![x] = c]
    /\ c \in ExecutionCalls(Len(life'), Len(ledger'))
    /\ CallerGood(c, ledger')
    /\ c.pc # "issuing"
    /\ \A y \in Executors : y # x /\ call[y].pc = "issuing" => call[y].op # o
    /\ \A i \in told' : i \in told \/ (i = Len(ledger) + 1 /\ e.kind = Outcome)

LEMMA RecordStep ==
    ASSUME SystemInv, NEW x \in Executors, NEW o \in Executions, NEW e, NEW r, NEW c,
           Records(x, o, e, r, c)
    PROVE  SystemInv'
<1> USE DEF Records
<1>1. /\ ledger \in Seq(Range(ledger))
      /\ Len(ledger) \in Nat /\ DOMAIN ledger = 1..Len(ledger)
      /\ DOMAIN ledger' = 1..(Len(ledger) + 1) /\ Len(ledger') = Len(ledger) + 1
      /\ \A i \in DOMAIN ledger : ledger'[i] = ledger[i]
      /\ ledger'[Len(ledger) + 1] = e
      /\ \A i, kind, g : IsEvent(ledger, i, kind, g) => IsEvent(ledger', i, kind, g)
  BY LedgerAppend, TypesAre
<1>2. SkillInv' /\ transitions' = transitions /\ artifacts' = artifacts
  BY SkillStays
<1>3. /\ Len(life) \in Nat /\ DOMAIN life = 1..Len(life)
      /\ row \in [Executions -> ExecutionRows(Len(life), Len(ledger))]
      /\ call \in [Executors -> ExecutionCalls(Len(life), Len(ledger))]
      /\ losses \in 0..MaxLosses /\ LeasesGood(row, life)
  BY TypesAre
<1>4. /\ call'[x] = c /\ \A y \in Executors : y # x => call'[y] = call[y]
      /\ row'[o] = r /\ \A p \in Executions : p # o => row'[p] = row[p]
  BY <1>3
<1>5. ToldInv'
  <2> SUFFICES ASSUME NEW i \in told' PROVE i \in DOMAIN ledger' /\ ledger'[i].kind = Outcome
    BY DEF ToldInv
  <2>1. CASE i \in told
    <3>1. i \in DOMAIN ledger /\ ledger[i].kind = Outcome
      BY <2>1 DEF SystemInv, ToldInv
    <3> QED BY <1>1, <3>1
  <2>2. CASE i = Len(ledger) + 1 /\ e.kind = Outcome
    BY <1>1, <2>2
  <2> QED BY <2>1, <2>2
<1>6. \A p \in Executions : RowGood(p, row[p], ledger, Len(life))
  BY DEF SystemInv, RowsInv
<1>7. ExecutionTypeOK'
  <2>1. /\ ExecutionRows(Len(life), Len(ledger)) \subseteq
               ExecutionRows(Len(life'), Len(ledger'))
        /\ ExecutionCalls(Len(life), Len(ledger)) \subseteq
               ExecutionCalls(Len(life'), Len(ledger'))
    BY <1>1, <1>3, TypesGrow
  <2>2. /\ row' \in [Executions -> ExecutionRows(Len(life'), Len(ledger'))]
        /\ call' \in [Executors -> ExecutionCalls(Len(life'), Len(ledger'))]
    BY <1>3, <2>1
  <2>3. told' \subseteq DOMAIN ledger'
    BY <1>5 DEF ToldInv
  <2>4. LeasesGood(row', life')
    <3> SUFFICES ASSUME NEW p \in Executions, row'[p].state = "executing", row'[p].lease > 0
                 PROVE  row'[p].lease < life'[row'[p].grant]
      BY DEF LeasesGood
    <3>1. CASE p = o
      BY <1>4, <3>1
    <3>2. CASE p # o
      <4>1. row'[p] = row[p] /\ row[p].lease < life[row[p].grant]
        BY <1>3, <1>4, <3>2 DEF LeasesGood
      <4>2. row[p].grant \in DOMAIN life
        BY <1>3, <1>6, <4>1 DEF RowGood
      <4> QED BY <4>1, <4>2
    <3> QED BY <3>1, <3>2
  <2> QED BY <1>3, <2>2, <2>3, <2>4, TypesNext
<1>8. EventsInv'
  BY DEF EventsInv
<1>9. RowsInv'
  <2> SUFFICES ASSUME NEW p \in Executions PROVE RowGood(p, row'[p], ledger', Len(life'))
    BY DEF RowsInv
  <2>1. CASE p = o
    BY <1>4, <2>1
  <2>2. CASE p # o
    <3>1. row'[p] = row[p] /\ RowGood(p, row[p], ledger, Len(life))
      BY <1>4, <1>6, <2>2
    <3>2. ASSUME row[p].state # "absent" PROVE e.of.grant # row[p].grant
      <4>1. PICK j \in DOMAIN ledger :
              IsEvent(ledger, j, Issuance, row[p].grant) /\ ledger[j].of.op = p
        BY <3>1, <3>2 DEF RowGood
      <4>2. /\ j \in DOMAIN ledger' /\ ledger'[j].kind = Issuance
            /\ ledger'[j].of.grant = row[p].grant /\ ledger'[j].of.op = p
        BY <1>1, <4>1 DEF IsEvent
      <4>3. Issuance \in ExecutionKinds
        BY DEF ExecutionKinds
      <4>4. PICK k : k = Len(ledger) + 1
        OBVIOUS
      <4>5. k \in DOMAIN ledger' /\ ledger'[k] = e
        BY <1>1, <4>4
      <4>6. /\ ledger'[k].kind \in ExecutionKinds /\ ledger'[j].kind \in ExecutionKinds
            /\ ledger'[k].of.op = o /\ ledger'[k].of.grant = e.of.grant
        BY <4>2, <4>3, <4>5
      <4>7. ledger'[k].of.grant = ledger'[j].of.grant => ledger'[k].of.op = ledger'[j].of.op
        BY <4>2, <4>5, <4>6, SameGrant
      <4> QED BY <2>2, <4>2, <4>6, <4>7
    <3>3. /\ row[p].state = "authorized" => ~(e.kind = Intent /\ e.of.grant = row[p].grant)
          /\ row[p].state = "executing" => ~(e.kind = Outcome /\ e.of.grant = row[p].grant)
      BY <3>2
    <3>4. RowGood(p, row[p], Append(ledger, e), Len(life'))
      BY <1>1, <1>3, <3>1, <3>3, RowAppend
    <3> QED BY <3>1, <3>4
  <2> QED BY <2>1, <2>2
<1>10. CallersInv'
  <2> SUFFICES ASSUME NEW y \in Executors PROVE CallerGood(call'[y], ledger')
    BY DEF CallersInv
  <2>1. CASE y = x
    BY <1>4, <2>1
  <2>2. CASE y # x
    <3>1. call'[y] = call[y] /\ CallerGood(call[y], ledger)
      BY <1>4, <2>2, CallFields
    <3>2. CallerGood(call[y], Append(ledger, e))
      BY <1>1, <3>1, CallerAppend
    <3> QED BY <3>1, <3>2
  <2> QED BY <2>1, <2>2
<1>11. IssuingInv'
  <2>1. \A y \in Executors : call'[y].pc = "issuing" => y # x /\ call'[y] = call[y]
    BY <1>4
  <2>2. ASSUME NEW y \in Executors, call'[y].pc = "issuing"
        PROVE  /\ <<y, ExecutionLock(call'[y].op)>> \in locks'
               /\ row'[call'[y].op].state = "absent"
    <3>1. y # x /\ call'[y] = call[y] /\ call[y].pc = "issuing"
      BY <2>1, <2>2
    <3>2. /\ <<y, ExecutionLock(call[y].op)>> \in locks
          /\ row[call[y].op].state = "absent" /\ call[y].op # o
      BY <3>1 DEF SystemInv, IssuingInv
    <3>3. call[y].op \in Executions
      BY <3>1, CallFields DEF CallerGood
    <3> QED BY <1>4, <3>1, <3>2, <3>3 DEF LocksKept
  <2>3. \A y, z \in Executors :
          /\ call'[y].pc = "issuing" /\ call'[z].pc = "issuing"
          /\ call'[y].op = call'[z].op
          => y = z
    BY <2>1 DEF SystemInv, IssuingInv
  <2> QED BY <2>2, <2>3 DEF IssuingInv, ExecutionLock
<1>12. IssuedOnce'
  <2> SUFFICES ASSUME losses = 0, NEW i \in DOMAIN ledger', NEW j \in DOMAIN ledger',
                      ledger'[i].kind = Issuance
               PROVE  /\ row'[ledger'[i].of.op].state # "absent"
                      /\ ledger'[j].kind = Issuance /\ ledger'[i].of.op = ledger'[j].of.op
                           => i = j
    BY DEF IssuedOnce
  <2>1. \A k \in DOMAIN ledger' : \/ k \in DOMAIN ledger /\ ledger'[k] = ledger[k]
                                  \/ k = Len(ledger) + 1 /\ ledger'[k] = e
    BY <1>1
  <2>2. \A k, l \in DOMAIN ledger : ledger[k].kind = Issuance =>
            /\ row[ledger[k].of.op].state # "absent"
            /\ ledger[l].kind = Issuance /\ ledger[k].of.op = ledger[l].of.op => k = l
    BY DEF SystemInv, IssuedOnce
  <2>3. ledger'[i].of.op \in Executions
    <3>1. ledger'[i].kind \in ExecutionKinds
      BY DEF ExecutionKinds
    <3> QED BY <3>1 DEF EventsGood
  <2>4. row'[ledger'[i].of.op].state # "absent"
    <3>1. CASE ledger'[i].of.op = o
      BY <1>4, <3>1
    <3>2. CASE ledger'[i].of.op # o
      <4>1. i \in DOMAIN ledger /\ ledger'[i] = ledger[i]
        BY <2>1, <3>2
      <4>2. row'[ledger'[i].of.op] = row[ledger'[i].of.op]
        BY <1>4, <2>3, <3>2
      <4> QED BY <2>2, <4>1, <4>2
    <3> QED BY <3>1, <3>2
  <2>5. ASSUME ledger'[j].kind = Issuance, ledger'[i].of.op = ledger'[j].of.op
        PROVE  i = j
    <3>1. CASE i \in DOMAIN ledger /\ j \in DOMAIN ledger
      BY <1>1, <2>2, <2>5, <3>1
    <3>2. CASE i = Len(ledger) + 1 /\ j \in DOMAIN ledger
      <4>1. e.kind = Issuance /\ ledger[j].kind = Issuance /\ ledger[j].of.op = o
        BY <1>1, <2>5, <3>2
      <4> QED BY <2>2, <3>2, <4>1
    <3>3. CASE i \in DOMAIN ledger /\ j = Len(ledger) + 1
      <4>1. e.kind = Issuance /\ ledger[i].kind = Issuance /\ ledger[i].of.op = o
        BY <1>1, <2>5, <3>3
      <4> QED BY <2>2, <3>3, <4>1
    <3> QED BY <2>1, <3>1, <3>2, <3>3
  <2> QED BY <2>4, <2>5
<1>13. ConsumedOnActiveSkill'
  BY <1>2, ConsumedGrow, TypesAre DEF SystemInv
<1> QED BY <1>2, <1>5, <1>7, <1>8, <1>9, <1>10, <1>11, <1>12, <1>13 DEF SystemInv

(* While the handler's count stays and the call of x ends. *)
LEMMA RunsStay ==
    ASSUME SystemInv, NEW x \in Executors, NEW e, ledger' = Append(ledger, e),
           runs' = runs, Return(x)
    PROVE  RunsInv'
<1>1. /\ call'[x] = Idle /\ \A y \in Executors : y # x => call'[y] = call[y]
  BY TypesAre DEF Return
<1>2. Idle.pc = "idle"
  BY DEF Idle
<1>3. \A y \in Executors : call'[y].pc \in Attempting => call'[y] = call[y]
  BY <1>1, <1>2 DEF Attempting
<1>4. \A y \in Executors : call'[y].pc = "running" => call'[y] = call[y]
  BY <1>3 DEF Attempting
<1>5. ASSUME NEW g \in DOMAIN runs, runs[g] = 1
      PROVE  \E i \in DOMAIN ledger' : IsEvent(ledger', i, Intent, g)
  <2>1. PICK i \in DOMAIN ledger : IsEvent(ledger, i, Intent, g)
    BY <1>5 DEF SystemInv, RunsInv
  <2>2. IsEvent(ledger', i, Intent, g)
    BY <2>1, LedgerAppend, TypesAre
  <2>3. i \in DOMAIN ledger'
    BY <2>2 DEF IsEvent
  <2> QED BY <2>2, <2>3
<1>6. \A y \in Executors : call'[y].pc = "running" => runs[call'[y].grant] = 0
  BY <1>4 DEF SystemInv, RunsInv
<1>7. \A y, z \in Executors :
        /\ call'[y].pc \in Attempting /\ call'[z].pc \in Attempting
        /\ call'[y].grant = call'[z].grant
        => y = z
  BY <1>3 DEF SystemInv, RunsInv
<1> QED BY <1>5, <1>6, <1>7 DEF SystemInv, RunsInv

LEMMA ReturnIs ==
    ASSUME SystemInv, NEW x \in Executors, Return(x), NEW es, NEW n \in Nat, NEW k \in Nat
    PROVE  /\ call' = [call EXCEPT ![x] = Idle] /\ Idle \in ExecutionCalls(n, k)
           /\ CallerGood(Idle, es) /\ Idle.pc # "issuing"
<1>1. Idle \in ExecutionCalls(n, k) /\ Idle.pc = "idle" /\ CallerGood(Idle, es)
  BY IdleTyped
<1> QED BY <1>1 DEF Return

LEMMA IssueCommitKeeps ==
    ASSUME SystemInv, NEW x \in Executors, IssueCommit(x)
    PROVE  SystemInv'
<1>1. PICK o : o = call[x].op
  OBVIOUS
<1>2. PICK g : g = Len(life) + 1
  OBVIOUS
<1> DEFINE e == [kind |-> Issuance, sequence |-> Len(ledger),
                 of |-> [op |-> o, grant |-> g, outcome |-> None]]
<1> DEFINE r == [NoRow EXCEPT !.state = "authorized", !.grant = g]
<1>3. /\ call[x].pc = "issuing" /\ Chains(x)
      /\ \E ticks \in GrantLives : life' = Append(life, ticks)
      /\ runs' = Append(runs, 0) /\ Record(x, Issuance, g, None)
      /\ row' = [row EXCEPT ![o] = r] /\ Return(x) /\ ReleaseAll(x)
      /\ UNCHANGED skillVars /\ told' = told /\ losses' = losses
  BY <1>1, <1>2 DEF IssueCommit, Issuable, Issuance
<1>4. o \in Executions
  BY <1>1, <1>3, CallFields DEF CallerGood
<1>5. ledger' = Append(ledger, e)
  BY <1>1, <1>3 DEF Record, Chains
<1>6. /\ e.kind = Issuance /\ e.sequence = Len(ledger) /\ e.of.op = o /\ e.of.grant = g
  OBVIOUS
<1>7. r \in ExecutionRows(g, Len(ledger) + 1) /\ r.state = "authorized" /\ r.grant = g
  <2>1. Len(life) \in Nat /\ Len(ledger) \in Nat
    BY TypesAre
  <2>2. /\ g \in 0..g /\ 0 \in 0..(Len(ledger) + 1) /\ 0 \in 0..2 /\ 0 \in 0..LeaseTicks
    BY <1>2, <2>1, TickAssumption
  <2> QED BY <2>2 DEF NoRow, ExecutionRows, Terminal
<1> HIDE DEF e, r
<1>8. /\ Len(life) \in Nat /\ g \in Nat /\ Len(life') = g /\ Len(life) <= g
      /\ life' \in Seq(0..GrantTicks) /\ \A k \in DOMAIN life : life'[k] = life[k]
  <2>1. PICK ticks \in GrantLives : life' = Append(life, ticks)
    BY <1>3
  <2>2. ticks \in 0..GrantTicks /\ life \in Seq(0..GrantTicks) /\ Len(life) \in Nat
    BY TypesAre, TickAssumption DEF GrantLives
  <2>3. /\ Append(life, ticks) \in Seq(0..GrantTicks) /\ Len(Append(life, ticks)) = Len(life) + 1
        /\ \A k \in DOMAIN life : Append(life, ticks)[k] = life[k]
    BY <2>2, AppendFacts
  <2> QED BY <1>2, <2>1, <2>2, <2>3
<1>9. /\ runs' \in Seq(Nat) /\ Len(runs') = g /\ DOMAIN runs' = 1..g
      /\ \A k \in DOMAIN runs : runs'[k] = runs[k]
      /\ DOMAIN runs = 1..Len(life) /\ runs'[g] = 0
  <2>1. /\ runs \in Seq(Nat) /\ Len(runs) = Len(life) /\ DOMAIN runs = 1..Len(life)
    BY TypesAre
  <2>2. /\ Append(runs, 0) \in Seq(Nat) /\ Len(Append(runs, 0)) = Len(runs) + 1
        /\ DOMAIN Append(runs, 0) = 1..(Len(runs) + 1)
        /\ \A k \in DOMAIN runs : Append(runs, 0)[k] = runs[k]
        /\ Append(runs, 0)[Len(runs) + 1] = 0
    BY <2>1, AppendFacts
  <2> QED BY <1>2, <1>3, <2>1, <2>2
<1>10. /\ ledger \in Seq(Range(ledger))
       /\ Len(ledger) \in Nat /\ DOMAIN ledger = 1..Len(ledger)
       /\ DOMAIN ledger' = 1..(Len(ledger) + 1) /\ Len(ledger') = Len(ledger) + 1
       /\ \A i \in DOMAIN ledger : ledger'[i] = ledger[i]
       /\ ledger'[Len(ledger) + 1] = e
       /\ \A i, kind, k :
            IsEvent(ledger', i, kind, k) <=>
               \/ IsEvent(ledger, i, kind, k)
               \/ i = Len(ledger) + 1 /\ e.kind = kind /\ e.of.grant = k
  BY <1>5, LedgerAppend, TypesAre
<1>11. EventsGood(ledger, Len(life))
  BY DEF SystemInv, EventsInv
<1>12. \A i \in DOMAIN ledger : ledger[i].kind \in ExecutionKinds => ledger[i].of.grant # g
  <2>1. \A i \in DOMAIN ledger : ledger[i].kind \in ExecutionKinds =>
          ledger[i].of.grant \in 1..Len(life)
    BY <1>11 DEF EventsGood
  <2> QED BY <1>2, <1>8, <2>1
<1>13. Issuance \in ExecutionKinds /\ Intent \in ExecutionKinds /\ Outcome \in ExecutionKinds
       /\ Issuance # Intent /\ Issuance # Outcome
  BY DEF ExecutionKinds, Issuance, Intent, Outcome
<1>14. EventsGood(ledger', Len(life'))
  <2>1. \A i \in DOMAIN ledger : ~IsEvent(ledger, i, e.kind, e.of.grant)
    BY <1>6, <1>12, <1>13 DEF IsEvent
  <2>2. \A i \in DOMAIN ledger :
          ledger[i].kind \in ExecutionKinds /\ ledger[i].of.grant = e.of.grant
            => ledger[i].of.op = e.of.op
    BY <1>6, <1>12
  <2>3. e.of.grant \in 1..g /\ e.kind # Intent /\ e.kind # Outcome /\ e.kind \in ExecutionKinds
        /\ e.of.op \in Executions
    BY <1>2, <1>4, <1>6, <1>8, <1>13
  <2>4. EventsGood(Append(ledger, e), g)
    BY <1>8, <1>10, <1>11, <2>1, <2>2, <2>3, EventsNext
  <2> QED BY <1>5, <1>8, <2>4
<1>15. RowGood(o, r, ledger', Len(life'))
  <2>1. IsEvent(ledger', Len(ledger) + 1, Issuance, g) /\ Len(ledger) + 1 \in DOMAIN ledger'
        /\ ledger'[Len(ledger) + 1].of.op = o
    BY <1>6, <1>10
  <2>2. \A i \in DOMAIN ledger' : ~IsEvent(ledger', i, Intent, g)
    <3>1. \A i : ~IsEvent(ledger, i, Intent, g)
      BY <1>12, <1>13 DEF IsEvent
    <3> QED BY <1>6, <1>10, <1>13, <3>1
  <2>3. g \in 1..Len(life')
    BY <1>2, <1>8
  <2> QED BY <1>7, <2>1, <2>2, <2>3 DEF RowGood, Terminal
<1>16. RunsInv'
  <2>1. /\ call'[x] = Idle /\ \A y \in Executors : y # x => call'[y] = call[y]
    BY <1>3, TypesAre DEF Return
  <2>2. Idle.pc = "idle"
    BY DEF Idle
  <2>3. \A y \in Executors : call'[y].pc \in Attempting => call'[y] = call[y]
    BY <2>1, <2>2 DEF Attempting
  <2>4. ASSUME NEW k \in DOMAIN runs'
        PROVE  /\ runs'[k] <= 1
               /\ runs'[k] = 1 => \E i \in DOMAIN ledger' : IsEvent(ledger', i, Intent, k)
    <3>1. CASE k = g
      BY <1>9, <3>1
    <3>2. CASE k # g
      <4>1. k \in DOMAIN runs /\ runs'[k] = runs[k]
        BY <1>2, <1>8, <1>9, <3>2
      <4>2. runs[k] <= 1
        BY <4>1 DEF SystemInv, RunsInv
      <4>3. ASSUME runs[k] = 1
            PROVE  \E i \in DOMAIN ledger' : IsEvent(ledger', i, Intent, k)
        <5>1. PICK i \in DOMAIN ledger : IsEvent(ledger, i, Intent, k)
          BY <4>1, <4>3 DEF SystemInv, RunsInv
        <5>2. IsEvent(ledger', i, Intent, k)
          BY <1>10, <5>1
        <5>3. i \in DOMAIN ledger'
          BY <5>2 DEF IsEvent
        <5> QED BY <5>2, <5>3
      <4> QED BY <4>1, <4>2, <4>3
    <3> QED BY <3>1, <3>2
  <2>5. ASSUME NEW y \in Executors, call'[y].pc = "running" PROVE runs'[call'[y].grant] = 0
    <3>1. call[y].pc = "running" /\ call'[y] = call[y]
      BY <2>3, <2>5 DEF Attempting
    <3>2. runs[call[y].grant] = 0 /\ IsEvent(ledger, call[y].attempt, Intent, call[y].grant)
      BY <3>1, CallFields DEF SystemInv, RunsInv, CallerGood, Attempting
    <3>3. call[y].grant \in 1..Len(life)
      BY <1>11, <1>13, <3>2 DEF IsEvent, EventsGood
    <3> QED BY <1>9, <3>1, <3>2, <3>3
  <2>6. \A y, z \in Executors :
        /\ call'[y].pc \in Attempting /\ call'[z].pc \in Attempting
        /\ call'[y].grant = call'[z].grant
        => y = z
    BY <2>3 DEF SystemInv, RunsInv
  <2> QED BY <2>4, <2>5, <2>6 DEF RunsInv
<1>17. row[o].state = "absent" /\ \A y \in Executors : y # x /\ call[y].pc = "issuing" => call[y].op # o
  BY <1>1, <1>3 DEF SystemInv, IssuingInv
<1>18. LocksKept(x)
  BY <1>3, ReleaseKept
<1>19. /\ call' = [call EXCEPT ![x] = Idle] /\ Idle \in ExecutionCalls(Len(life'), Len(ledger'))
       /\ CallerGood(Idle, ledger') /\ Idle.pc # "issuing"
  <2>1. Len(life') \in Nat /\ Len(ledger') \in Nat
    BY <1>8, <1>10
  <2> QED BY <1>3, <2>1, ReturnIs
<1>20. /\ e.kind \in ExecutionKinds /\ e.kind # Intent /\ r.state # "absent" /\ r.state # "executing"
       /\ r \in ExecutionRows(Len(life'), Len(ledger'))
       /\ Len(life') \in Nat /\ Len(life) <= Len(life') /\ Len(runs') = Len(life')
  BY <1>6, <1>7, <1>8, <1>9, <1>10, <1>13
<1>21. \A i \in told' : i \in told \/ (i = Len(ledger) + 1 /\ e.kind = Outcome)
  BY <1>3
<1>22. r.state = "executing" /\ r.lease > 0 => r.lease < life'[r.grant]
  BY <1>20
<1>23. Records(x, o, e, r, Idle)
  BY <1>3, <1>5, <1>6, <1>8, <1>9, <1>14, <1>15, <1>16, <1>17, <1>18, <1>19, <1>20, <1>21,
     <1>22 DEF Records
<1> QED BY <1>4, <1>23, RecordStep

(* The history so far is what an intent recorded now finds active. *)
LEMMA ActiveConsumed ==
    ASSUME SystemInv, NEW o \in Executions, ActiveMatches(o), NEW e, e.of.op = o
    PROVE  ConsumedAt(Len(ledger) + 1, e, transitions, artifacts)
<1>1. /\ transitions \in Seq(Transitions) /\ Len(transitions) \in Nat
      /\ DOMAIN transitions = 1..Len(transitions)
  BY LenProperties DEF SystemInv, SkillInv, StoreInv, StoreTyped
<1>2. active = Replay(transitions)
  <2>1. o.revision # 0
    BY ExecutionAssumption
  <2>2. active # NoSkill
    BY <2>1 DEF ActiveMatches, NoSkill
  <2> QED BY <2>2 DEF SystemInv, SkillInv, StoreInv, ActiveFollowsHistory
<1>3. SubSeq(transitions, 1, Len(transitions)) = transitions
  <2> DEFINE h == SubSeq(transitions, 1, Len(transitions))
  <2>1. /\ h \in Seq(Transitions) /\ Len(h) = Len(transitions)
        /\ \A k \in 1..Len(transitions) : h[k] = transitions[k]
    BY <1>1, SubSeqProperties
  <2> HIDE DEF h
  <2>2. h = transitions
    BY <1>1, <2>1, SeqEqual
  <2> QED BY <2>2 DEF h
<1>4. ASSUME NEW k \in DOMAIN transitions PROVE transitions[k].event \in 1..Len(ledger)
  <2>1. transitions[k] \in Transitions
    BY <1>1, ElementOfSeq
  <2>2. transitions[k].event \in DOMAIN ledger
    BY <2>1 DEF Transitions
  <2> QED BY <2>2, TypesAre
<1>5. \A k \in DOMAIN transitions : transitions[k].event < Len(ledger) + 1 <=> k <= Len(transitions)
  BY <1>1, <1>4, TypesAre
<1>6. /\ ReplayOn(transitions, artifacts).revision = e.of.op.revision
      /\ ReplayOn(transitions, artifacts).digest = e.of.op.digest
  BY <1>2, ReplayIs DEF ActiveMatches
<1>7. Len(transitions) \in 0..Len(transitions)
  BY <1>1
<1> QED BY <1>3, <1>5, <1>6, <1>7 DEF ConsumedAt

(* The lease an authorized grant gets. *)
LEMMA LeaseFits ==
    ASSUME SystemInv, NEW g \in DOMAIN life, LeaseGranted(g) > 0
    PROVE  LeaseGranted(g) \in 0..LeaseTicks /\ LeaseGranted(g) < life[g]
<1>1. LeaseTicks \in Nat /\ life[g] \in Nat
  BY TypesAre, TickAssumption
<1> DEFINE S == {LeaseTicks, life[g] - 1}
<1>2. \E z \in S : \A y \in S : z <= y
  BY <1>1
<1>3. Min(S) \in S /\ \A y \in S : Min(S) <= y
  BY <1>2 DEF Min
<1>4. /\ LeaseGranted(g) = Min(S) /\ LeaseTicks \in S /\ life[g] - 1 \in S
  BY DEF LeaseGranted
<1>5. LeaseGranted(g) \in Int /\ LeaseGranted(g) <= LeaseTicks /\ LeaseGranted(g) <= life[g] - 1
  BY <1>1, <1>3, <1>4
<1> QED BY <1>1, <1>5

(* The row an operation has, and its issuance. *)
LEMMA RowFacts ==
    ASSUME SystemInv, NEW o \in Executions, row[o].state # "absent"
    PROVE  /\ row[o] \in ExecutionRows(Len(life), Len(ledger))
           /\ row[o].grant \in 1..Len(life)
           /\ RowGood(o, row[o], ledger, Len(life))
           /\ \A i \in DOMAIN ledger :
                 ledger[i].kind \in ExecutionKinds /\ ledger[i].of.grant = row[o].grant
                   => ledger[i].of.op = o
           /\ \E j \in DOMAIN ledger : IsEvent(ledger, j, Issuance, row[o].grant)
           /\ \A y \in Executors : call[y].pc = "issuing" => call[y].op # o
<1>1. row[o] \in ExecutionRows(Len(life), Len(ledger))
  BY TypesAre
<1>2. RowGood(o, row[o], ledger, Len(life)) /\ EventsGood(ledger, Len(life))
  BY DEF SystemInv, RowsInv, EventsInv
<1>3. row[o].grant \in 1..Len(life)
  BY <1>2 DEF RowGood
<1>4. PICK j \in DOMAIN ledger :
          IsEvent(ledger, j, Issuance, row[o].grant) /\ ledger[j].of.op = o
  BY <1>2 DEF RowGood
<1>5. ASSUME NEW i \in DOMAIN ledger, ledger[i].kind \in ExecutionKinds,
             ledger[i].of.grant = row[o].grant
      PROVE  ledger[i].of.op = o
  <2>1. ledger[j].kind \in ExecutionKinds /\ ledger[j].of.grant = ledger[i].of.grant
    BY <1>4, <1>5 DEF IsEvent, ExecutionKinds
  <2>2. ledger[i].of.op = ledger[j].of.op
    BY <1>2, <1>5, <2>1, SameGrant
  <2> QED BY <1>4, <2>2
<1>6. \A y \in Executors : call[y].pc = "issuing" => call[y].op # o
  BY DEF SystemInv, IssuingInv
<1> QED BY <1>1, <1>2, <1>3, <1>4, <1>5, <1>6

LEMMA BeginCommitKeeps ==
    ASSUME SystemInv, NEW x \in Executors, BeginCommit(x)
    PROVE  SystemInv'
<1>1. PICK o : o = call[x].op
  OBVIOUS
<1>2. PICK g : g = call[x].grant
  OBVIOUS
<1>3. PICK i : i = Len(ledger) + 1
  OBVIOUS
<1> DEFINE e == [kind |-> Intent, sequence |-> Len(ledger),
                 of |-> [op |-> o, grant |-> g, outcome |-> None]]
<1> DEFINE r == [row[o] EXCEPT !.state = "executing", !.attempt = i, !.generation = 1,
                               !.lease = LeaseGranted(g)]
<1> DEFINE c == [call[x] EXCEPT !.pc = "running", !.head = 0, !.attempt = i]
<1>4. /\ call[x].pc = "beginning" /\ Chains(x) /\ Record(x, Intent, g, None)
      /\ row' = [row EXCEPT ![o].state = "executing", ![o].attempt = i,
                            ![o].generation = 1, ![o].lease = LeaseGranted(g)]
      /\ call' = [call EXCEPT ![x].pc = "running", ![x].head = 0, ![x].attempt = i]
      /\ ReleaseAll(x) /\ UNCHANGED skillVars
      /\ life' = life /\ runs' = runs /\ told' = told /\ losses' = losses
      /\ row[o].grant = g /\ row[o].state = "authorized" /\ ActiveMatches(o)
      /\ LeaseGranted(g) > 0
  BY <1>1, <1>2, <1>3 DEF BeginCommit, Beginning, Consumable, Intent
<1>5. o \in Executions
  BY <1>1, <1>4, CallFields DEF CallerGood
<1>6. row[o].state # "absent"
  BY <1>4
<1>7. /\ row[o] \in ExecutionRows(Len(life), Len(ledger))
      /\ g \in 1..Len(life) /\ RowGood(o, row[o], ledger, Len(life))
      /\ \A k \in DOMAIN ledger :
            ledger[k].kind \in ExecutionKinds /\ ledger[k].of.grant = g => ledger[k].of.op = o
      /\ \E j \in DOMAIN ledger : IsEvent(ledger, j, Issuance, g)
      /\ \A y \in Executors : call[y].pc = "issuing" => call[y].op # o
  BY <1>4, <1>5, <1>6, RowFacts
<1>8. LeaseGranted(g) \in 0..LeaseTicks /\ LeaseGranted(g) < life[g]
  <2>1. g \in DOMAIN life
    BY <1>7, TypesAre
  <2> QED BY <1>4, <2>1, LeaseFits
<1>9. ledger' = Append(ledger, e)
  BY <1>1, <1>4 DEF Record, Chains
<1>10. row' = [row EXCEPT ![o] = r] /\ call' = [call EXCEPT ![x] = c]
  BY <1>4, Zenon
<1>11. /\ e.kind = Intent /\ e.sequence = Len(ledger) /\ e.of.op = o /\ e.of.grant = g
  OBVIOUS
<1>12. /\ Len(ledger) \in Nat /\ i \in 0..i /\ 0 \in 0..i /\ Len(life) \in Nat
       /\ Len(ledger) <= i /\ i \in Nat /\ Len(life) <= Len(life)
  BY <1>3, TypesAre
<1>13. /\ r \in ExecutionRows(Len(life), i) /\ r.state = "executing" /\ r.grant = g
       /\ r.attempt = i /\ r.generation = 1 /\ r.lease = LeaseGranted(g)
  <2>1. row[o] \in ExecutionRows(Len(life), i)
    BY <1>7, <1>12, TypesGrow
  <2>2. 1 \in 0..2
    OBVIOUS
  <2> QED BY <1>4, <1>8, <1>12, <2>1, <2>2 DEF ExecutionRows, Terminal
<1>14. /\ c \in ExecutionCalls(Len(life), i) /\ c.pc = "running" /\ c.op = o /\ c.grant = g
       /\ c.attempt = i
  <2>1. call[x] \in ExecutionCalls(Len(life), i)
    BY <1>12, CallFields, TypesGrow
  <2> QED BY <1>1, <1>2, <1>12, <2>1 DEF ExecutionCalls, ExecutionPCs
<1> HIDE DEF e, r, c
<1>15. /\ ledger \in Seq(Range(ledger))
       /\ DOMAIN ledger' = 1..i /\ Len(ledger') = i
       /\ \A k \in DOMAIN ledger : ledger'[k] = ledger[k]
       /\ ledger'[i] = e
       /\ \A j, kind, k :
            IsEvent(ledger', j, kind, k) <=>
               \/ IsEvent(ledger, j, kind, k)
               \/ j = i /\ e.kind = kind /\ e.of.grant = k
  BY <1>3, <1>9, LedgerAppend, TypesAre
<1>16. EventsGood(ledger, Len(life))
  BY DEF SystemInv, EventsInv
<1>17. Intent \in ExecutionKinds /\ Intent # Outcome /\ Intent # Issuance
  BY DEF ExecutionKinds, Issuance, Intent, Outcome
<1>18. \A j : ~IsEvent(ledger, j, Intent, g)
  BY <1>4, <1>7 DEF RowGood, IsEvent
<1>19. EventsGood(ledger', Len(life'))
  <2>1. \A j \in DOMAIN ledger : ~IsEvent(ledger, j, e.kind, e.of.grant)
    BY <1>11, <1>18
  <2>2. \A j \in DOMAIN ledger :
          ledger[j].kind \in ExecutionKinds /\ ledger[j].of.grant = e.of.grant
            => ledger[j].of.op = e.of.op
    BY <1>7, <1>11
  <2>3. /\ e.of.grant \in 1..Len(life) /\ e.kind # Outcome /\ e.kind \in ExecutionKinds
        /\ e.of.op \in Executions
        /\ \E j \in DOMAIN ledger : IsEvent(ledger, j, Issuance, e.of.grant)
    BY <1>5, <1>7, <1>11, <1>17
  <2>4. EventsGood(Append(ledger, e), Len(life))
    BY <1>12, <1>15, <1>16, <2>1, <2>2, <2>3, EventsNext
  <2> QED BY <1>4, <1>9, <2>4
<1>20. IsEvent(ledger', i, Intent, g) /\ i \in DOMAIN ledger' /\ ledger'[i].of.op = o
  BY <1>3, <1>11, <1>12, <1>15
<1>21. RowGood(o, r, ledger', Len(life'))
  <2>1. \E j \in DOMAIN ledger' : IsEvent(ledger', j, Issuance, g) /\ ledger'[j].of.op = o
    <3>1. PICK j \in DOMAIN ledger : IsEvent(ledger, j, Issuance, g)
      BY <1>7
    <3>2. /\ j \in DOMAIN ledger' /\ IsEvent(ledger', j, Issuance, g)
          /\ ledger'[j] = ledger[j]
      BY <1>15, <3>1 DEF IsEvent
    <3>3. ledger[j].of.op = o
      BY <1>7, <3>1 DEF IsEvent, ExecutionKinds
    <3> QED BY <3>2, <3>3
  <2>2. \A j \in DOMAIN ledger' : ~IsEvent(ledger', j, Outcome, g)
    <3>1. ASSUME NEW j, IsEvent(ledger, j, Outcome, g) PROVE FALSE
      <4>1. \E k \in 1..(j - 1) : IsEvent(ledger, k, Intent, g)
        BY <1>16, <3>1 DEF IsEvent, EventsGood
      <4> QED BY <1>18, <4>1
    <3> QED BY <1>11, <1>15, <1>17, <3>1
  <2>3. g \in 1..Len(life')
    BY <1>4, <1>7
  <2> QED BY <1>13, <1>20, <2>1, <2>2, <2>3 DEF RowGood, Terminal
<1>22. CallerGood(c, ledger')
  BY <1>5, <1>14, <1>20 DEF CallerGood
<1>23. RunsInv'
  <2>1. /\ call'[x] = c /\ \A y \in Executors : y # x => call'[y] = call[y]
    BY <1>10, TypesAre
  <2>2. \A k \in DOMAIN runs : runs[k] = 1 => \E j \in DOMAIN ledger : IsEvent(ledger, j, Intent, k)
    BY DEF SystemInv, RunsInv
  <2>3. runs[g] = 0
    <3>1. g \in DOMAIN runs /\ runs[g] \in Nat
      BY <1>7, TypesAre
    <3>2. runs[g] # 1 /\ runs[g] <= 1
      BY <1>18, <2>2, <3>1 DEF SystemInv, RunsInv
    <3> QED BY <3>1, <3>2
  <2>4. ASSUME NEW y \in Executors, y # x, call[y].pc \in Attempting PROVE call[y].grant # g
    <3>1. IsEvent(ledger, call[y].attempt, Intent, call[y].grant)
      BY <2>4, CallFields DEF CallerGood
    <3> QED BY <1>18, <3>1
  <2>5. ASSUME NEW k \in DOMAIN runs, runs[k] = 1
        PROVE  \E j \in DOMAIN ledger' : IsEvent(ledger', j, Intent, k)
    <3>1. PICK j \in DOMAIN ledger : IsEvent(ledger, j, Intent, k)
      BY <2>2, <2>5
    <3>2. IsEvent(ledger', j, Intent, k)
      BY <1>15, <3>1
    <3>3. j \in DOMAIN ledger'
      BY <3>2 DEF IsEvent
    <3> QED BY <3>2, <3>3
  <2>6. ASSUME NEW y \in Executors, call'[y].pc = "running" PROVE runs[call'[y].grant] = 0
    <3>1. CASE y = x
      BY <1>14, <2>1, <2>3, <3>1
    <3>2. CASE y # x
      BY <2>1, <2>6, <3>2 DEF SystemInv, RunsInv
    <3> QED BY <3>1, <3>2
  <2>7. ASSUME NEW y \in Executors, NEW z \in Executors,
               call'[y].pc \in Attempting, call'[z].pc \in Attempting,
               call'[y].grant = call'[z].grant
        PROVE  y = z
    <3>1. CASE y = x
      BY <1>14, <2>1, <2>4, <2>7, <3>1
    <3>2. CASE y # x /\ z = x
      BY <1>14, <2>1, <2>4, <2>7, <3>2
    <3>3. CASE y # x /\ z # x
      BY <2>1, <2>7, <3>3 DEF SystemInv, RunsInv
    <3> QED BY <3>1, <3>2, <3>3
  <2>8. \A k \in DOMAIN runs : runs[k] <= 1
    BY DEF SystemInv, RunsInv
  <2> QED BY <1>4, <2>5, <2>6, <2>7, <2>8 DEF RunsInv
<1>24. LocksKept(x)
  BY <1>4, ReleaseKept
<1>25. ConsumedAt(Len(ledger) + 1, e, transitions, artifacts)
  BY <1>4, <1>5, <1>11, ActiveConsumed
<1>26. /\ e.kind \in ExecutionKinds /\ e.kind # Issuance /\ r.state # "absent"
       /\ r \in ExecutionRows(Len(life'), Len(ledger'))
       /\ c \in ExecutionCalls(Len(life'), Len(ledger')) /\ c.pc # "issuing"
       /\ r.lease < life'[r.grant]
  BY <1>4, <1>8, <1>11, <1>13, <1>14, <1>15, <1>17
<1>27. \A k \in told' : k \in told \/ (k = Len(ledger) + 1 /\ e.kind = Outcome)
  BY <1>4
<1>28. /\ Len(life') \in Nat /\ Len(life) <= Len(life') /\ life' \in Seq(0..GrantTicks)
       /\ \A k \in DOMAIN life : life'[k] = life[k]
       /\ runs' \in Seq(Nat) /\ Len(runs') = Len(life')
  BY <1>4, <1>12, TypesAre
<1>29. \A y \in Executors : y # x /\ call[y].pc = "issuing" => call[y].op # o
  BY <1>7
<1>30. /\ e.kind = Issuance => row[o].state = "absent"
       /\ r.state = "executing" /\ r.lease > 0 => r.lease < life'[r.grant]
  BY <1>26
<1>31. UNCHANGED skillVars /\ losses' = losses /\ e.sequence = Len(ledger) /\ e.of.op = o
  BY <1>4, <1>11
<1>32. Records(x, o, e, r, c)
  BY <1>9, <1>10, <1>19, <1>21, <1>22, <1>23, <1>24, <1>25, <1>26, <1>27, <1>28, <1>29, <1>30,
     <1>31 DEF Records
<1> QED BY <1>5, <1>32, RecordStep

(* The call of x records the outcome of o's executing row under grant g. *)
Ends(x, o, g, outcome, r) ==
    /\ o = call[x].op /\ g = call[x].grant
    /\ row[o].state = "executing" /\ row[o].grant = g
    /\ Chains(x) /\ Record(x, Outcome, g, outcome)
    /\ outcome \in {"succeeded", "indeterminate"}
    /\ row' = [row EXCEPT ![o] = r] /\ r \in ExecutionRows(Len(life), Len(ledger) + 1)
    /\ r.state \in Terminal /\ r.grant = g /\ r.outcome = Len(ledger) + 1
    /\ outcome = (IF r.state = "completed" THEN "succeeded" ELSE "indeterminate")
    /\ Tell(Len(ledger) + 1) /\ Return(x)
    /\ UNCHANGED <<locks, skillVars, life, runs, losses>>

LEMMA OutcomeStep ==
    ASSUME SystemInv, NEW x \in Executors, NEW o \in Executions, NEW g, NEW outcome, NEW r,
           Ends(x, o, g, outcome, r)
    PROVE  SystemInv'
<1> USE DEF Ends
<1>1. PICK i : i = Len(ledger) + 1
  OBVIOUS
<1> DEFINE e == [kind |-> Outcome, sequence |-> Len(ledger),
                 of |-> [op |-> o, grant |-> g, outcome |-> outcome]]
<1>2. ledger' = Append(ledger, e)
  BY DEF Record, Chains
<1>3. /\ e.kind = Outcome /\ e.sequence = Len(ledger) /\ e.of.op = o /\ e.of.grant = g
      /\ e.of.outcome = outcome
  OBVIOUS
<1> HIDE DEF e
<1>4. /\ locks' = locks /\ UNCHANGED skillVars /\ life' = life /\ runs' = runs
      /\ losses' = losses
  OBVIOUS
<1>5. row[o].state # "absent"
  OBVIOUS
<1>6. /\ g \in 1..Len(life) /\ RowGood(o, row[o], ledger, Len(life))
      /\ \A k \in DOMAIN ledger :
            ledger[k].kind \in ExecutionKinds /\ ledger[k].of.grant = g => ledger[k].of.op = o
      /\ \E j \in DOMAIN ledger : IsEvent(ledger, j, Issuance, g)
      /\ \A y \in Executors : call[y].pc = "issuing" => call[y].op # o
  BY <1>5, RowFacts
<1>7. IsEvent(ledger, row[o].attempt, Intent, g) /\ \A j : ~IsEvent(ledger, j, Outcome, g)
  BY <1>6 DEF RowGood, IsEvent
<1>8. /\ Len(ledger) \in Nat /\ Len(life) \in Nat /\ Len(life) <= Len(life)
  BY TypesAre
<1>9. /\ ledger \in Seq(Range(ledger))
      /\ DOMAIN ledger' = 1..i /\ Len(ledger') = i
      /\ \A k \in DOMAIN ledger : ledger'[k] = ledger[k]
      /\ ledger'[i] = e
      /\ \A j, kind, k :
           IsEvent(ledger', j, kind, k) <=>
              \/ IsEvent(ledger, j, kind, k)
              \/ j = i /\ e.kind = kind /\ e.of.grant = k
  BY <1>1, <1>2, LedgerAppend, TypesAre
<1>10. Outcome \in ExecutionKinds /\ Outcome # Intent /\ Outcome # Issuance
  BY DEF ExecutionKinds, Issuance, Intent, Outcome
<1>11. EventsGood(ledger', Len(life'))
  <2>1. \A j \in DOMAIN ledger : ~IsEvent(ledger, j, e.kind, e.of.grant)
    BY <1>3, <1>7
  <2>2. \A j \in DOMAIN ledger :
          ledger[j].kind \in ExecutionKinds /\ ledger[j].of.grant = e.of.grant
            => ledger[j].of.op = e.of.op
    BY <1>3, <1>6
  <2>3. \E j \in DOMAIN ledger : IsEvent(ledger, j, Intent, e.of.grant)
    BY <1>3, <1>7 DEF IsEvent
  <2>4. /\ e.of.grant \in 1..Len(life) /\ e.kind # Intent /\ e.kind \in ExecutionKinds
        /\ e.of.op \in Executions /\ e.of.outcome \in {"succeeded", "indeterminate"}
    BY <1>3, <1>6, <1>10
  <2>5. EventsGood(ledger, Len(life))
    BY DEF SystemInv, EventsInv
  <2>6. EventsGood(Append(ledger, e), Len(life))
    BY <1>8, <1>9, <2>1, <2>2, <2>3, <2>4, <2>5, EventsNext
  <2> QED BY <1>2, <1>4, <2>6
<1>12. RowGood(o, r, ledger', Len(life'))
  <2>1. \E j \in DOMAIN ledger' : IsEvent(ledger', j, Issuance, g) /\ ledger'[j].of.op = o
    <3>1. PICK j \in DOMAIN ledger : IsEvent(ledger, j, Issuance, g)
      BY <1>6
    <3>2. /\ j \in DOMAIN ledger' /\ IsEvent(ledger', j, Issuance, g)
          /\ ledger'[j] = ledger[j]
      BY <1>9, <3>1 DEF IsEvent
    <3>3. ledger[j].of.op = o
      BY <1>6, <3>1 DEF IsEvent, ExecutionKinds
    <3> QED BY <3>2, <3>3
  <2>2. IsEvent(ledger', i, Outcome, g) /\ ledger'[i].of.outcome = outcome
    BY <1>1, <1>3, <1>8, <1>9
  <2>3. g \in 1..Len(life') /\ r.state # "authorized" /\ r.state # "executing"
    BY <1>4, <1>6 DEF Terminal
  <2>4. IsEvent(ledger', r.outcome, Outcome, r.grant) /\ ledger'[r.outcome].of.outcome = outcome
    BY <1>1, <2>2
  <2> QED BY <2>1, <2>3, <2>4 DEF RowGood
<1>13. RunsInv'
  BY <1>2, <1>4, RunsStay
<1>14. LocksKept(x)
  BY <1>4 DEF LocksKept
<1>15. /\ call' = [call EXCEPT ![x] = Idle] /\ Idle \in ExecutionCalls(Len(life'), Len(ledger'))
       /\ CallerGood(Idle, ledger') /\ Idle.pc # "issuing"
  <2>1. Len(life') \in Nat /\ Len(ledger') \in Nat
    BY <1>1, <1>4, <1>8, <1>9
  <2> QED BY <2>1, ReturnIs
<1>16. /\ e.kind \in ExecutionKinds
       /\ e.kind = Issuance => row[o].state = "absent"
       /\ e.kind = Intent => ConsumedAt(Len(ledger) + 1, e, transitions, artifacts)
  BY <1>3, <1>10
<1>17. /\ r \in ExecutionRows(Len(life'), Len(ledger')) /\ r.state # "absent"
       /\ r.state = "executing" /\ r.lease > 0 => r.lease < life'[r.grant]
  BY <1>1, <1>4, <1>9 DEF Terminal
<1>18. /\ Len(life') \in Nat /\ Len(life) <= Len(life') /\ life' \in Seq(0..GrantTicks)
       /\ \A k \in DOMAIN life : life'[k] = life[k]
       /\ runs' \in Seq(Nat) /\ Len(runs') = Len(life')
  BY <1>4, <1>8, TypesAre
<1>19. \A k \in told' : k \in told \/ (k = Len(ledger) + 1 /\ e.kind = Outcome)
  BY <1>3 DEF Tell
<1>20. \A y \in Executors : y # x /\ call[y].pc = "issuing" => call[y].op # o
  BY <1>6
<1>21. Records(x, o, e, r, Idle)
  BY <1>2, <1>3, <1>4, <1>11, <1>12, <1>13, <1>14, <1>15, <1>16, <1>17, <1>18, <1>19,
     <1>20 DEF Records
<1> QED BY <1>21, RecordStep

LEMMA CompleteCommitKeeps ==
    ASSUME SystemInv, NEW x \in Executors, CompleteCommit(x)
    PROVE  SystemInv'
<1>1. PICK o : o = call[x].op
  OBVIOUS
<1>2. PICK g : g = call[x].grant
  OBVIOUS
<1>3. PICK i : i = Len(ledger) + 1
  OBVIOUS
<1> DEFINE r == [row[o] EXCEPT !.state = "completed", !.outcome = i]
<1>4. /\ call[x].pc = "completing" /\ Chains(x) /\ Record(x, Outcome, g, "succeeded")
      /\ row' = [row EXCEPT ![o].state = "completed", ![o].outcome = i]
      /\ Tell(i) /\ Return(x) /\ UNCHANGED <<locks, skillVars, life, runs, losses>>
      /\ row[o].state = "executing" /\ row[o].attempt = call[x].attempt
  BY <1>1, <1>2, <1>3 DEF CompleteCommit, CompleteMatches, Outcome
<1>5. o \in Executions /\ IsEvent(ledger, call[x].attempt, Intent, g)
  BY <1>1, <1>2, <1>4, CallFields DEF CallerGood, Attempting
<1>6. row[o].grant = g
  <2>1. IsEvent(ledger, row[o].attempt, Intent, row[o].grant)
    BY <1>4, <1>5, RowFacts DEF RowGood
  <2> QED BY <1>4, <1>5, <2>1 DEF IsEvent
<1>7. row' = [row EXCEPT ![o] = r]
  BY <1>4, Zenon
<1>8. /\ r \in ExecutionRows(Len(life), i) /\ r.state = "completed" /\ r.grant = g
      /\ r.outcome = i
  <2>1. Len(ledger) \in Nat /\ i \in Nat /\ Len(ledger) <= i /\ i \in 0..i /\ Len(life) \in Nat
        /\ Len(life) <= Len(life)
    BY <1>3, TypesAre
  <2>2. row[o] \in ExecutionRows(Len(life), Len(ledger))
    BY <1>5, TypesAre
  <2>3. row[o] \in ExecutionRows(Len(life), i)
    BY <2>1, <2>2, TypesGrow
  <2> QED BY <1>6, <2>1, <2>3 DEF ExecutionRows, Terminal
<1> HIDE DEF r
<1>9. r.state \in Terminal /\ "succeeded" \in {"succeeded", "indeterminate"}
  BY <1>8 DEF Terminal
<1>10. Ends(x, o, g, "succeeded", r)
  BY <1>1, <1>2, <1>3, <1>4, <1>6, <1>7, <1>8, <1>9 DEF Ends
<1> QED BY <1>5, <1>10, OutcomeStep

LEMMA RecoverCommitKeeps ==
    ASSUME SystemInv, NEW x \in Executors, RecoverCommit(x)
    PROVE  SystemInv'
<1>1. PICK o : o = call[x].op
  OBVIOUS
<1>2. PICK g : g = call[x].grant
  OBVIOUS
<1>3. PICK i : i = Len(ledger) + 1
  OBVIOUS
<1> DEFINE r == [row[o] EXCEPT !.state = "indeterminate", !.generation = @ + 1, !.outcome = i]
<1>4. /\ call[x].pc = "recovering" /\ Chains(x) /\ Record(x, Outcome, g, "indeterminate")
      /\ row' = [row EXCEPT ![o].state = "indeterminate", ![o].generation = @ + 1,
                            ![o].outcome = i]
      /\ Tell(i) /\ Return(x) /\ UNCHANGED <<locks, skillVars, life, runs, losses>>
      /\ row[o].state = "executing" /\ row[o].grant = g
  BY <1>1, <1>2, <1>3 DEF RecoverCommit, RecoverMatches, Outcome
<1>5. o \in Executions
  BY <1>1, <1>4, CallFields DEF CallerGood
<1>6. row' = [row EXCEPT ![o] = r]
  BY <1>4, Zenon
<1>7. /\ r \in ExecutionRows(Len(life), i) /\ r.state = "indeterminate" /\ r.grant = g
      /\ r.outcome = i
  <2>1. Len(ledger) \in Nat /\ i \in Nat /\ Len(ledger) <= i /\ i \in 0..i /\ Len(life) \in Nat
        /\ Len(life) <= Len(life)
    BY <1>3, TypesAre
  <2>2. row[o] \in ExecutionRows(Len(life), Len(ledger))
    BY <1>5, TypesAre
  <2>3. row[o] \in ExecutionRows(Len(life), i)
    BY <2>1, <2>2, TypesGrow
  <2>4. row[o].generation = 1
    BY <1>4, <1>5, RowFacts DEF RowGood
  <2>5. row[o].generation + 1 \in 0..2
    BY <2>4
  <2> QED BY <1>4, <2>1, <2>3, <2>5 DEF ExecutionRows, Terminal
<1> HIDE DEF r
<1>8. r.state \in Terminal /\ "indeterminate" \in {"succeeded", "indeterminate"}
  BY <1>7 DEF Terminal
<1>9. Ends(x, o, g, "indeterminate", r)
  BY <1>1, <1>2, <1>3, <1>4, <1>6, <1>7, <1>8 DEF Ends
<1> QED BY <1>5, <1>9, OutcomeStep

(* The handler runs under the one attempt of its grant. *)
LEMMA RunHandlerKeeps ==
    ASSUME SystemInv, NEW x \in Executors, RunHandler(x)
    PROVE  SystemInv'
<1>1. PICK g : g = call[x].grant
  OBVIOUS
<1> DEFINE c == [call[x] EXCEPT !.pc = "completing", !.head = Len(ledger)]
<1>2. /\ call[x].pc = "running" /\ runs' = [runs EXCEPT ![g] = @ + 1]
      /\ call' = [call EXCEPT ![x].pc = "completing", ![x].head = Len(ledger)]
      /\ ledger' = ledger /\ locks' = locks /\ UNCHANGED skillVars /\ row' = row
      /\ life' = life /\ told' = told /\ losses' = losses
  BY <1>1 DEF RunHandler
<1>3. call' = [call EXCEPT ![x] = c]
  BY <1>2, Zenon
<1>4. Len(ledger) \in 0..Len(ledger)
  BY TypesAre
<1>5. /\ c \in ExecutionCalls(Len(life), Len(ledger)) /\ c.pc = "completing"
      /\ c.op = call[x].op /\ c.grant = g /\ c.attempt = call[x].attempt
  BY <1>1, <1>4, CallFields DEF ExecutionCalls, ExecutionPCs
<1> HIDE DEF c
<1>6. /\ call'[x] = c /\ \A y \in Executors : y # x => call'[y] = call[y]
  BY <1>3, TypesAre
<1>7. /\ call[x].pc \in Attempting /\ call[x].op \in Executions
      /\ IsEvent(ledger, call[x].attempt, Intent, g)
      /\ ledger[call[x].attempt].of.op = call[x].op
  BY <1>1, <1>2, CallFields DEF CallerGood, Attempting
<1>8. g \in DOMAIN runs /\ runs[g] = 0
  <2>1. g \in 1..Len(life)
    BY <1>7 DEF SystemInv, EventsInv, EventsGood, IsEvent, ExecutionKinds
  <2> QED BY <1>1, <1>2, <2>1, TypesAre DEF SystemInv, RunsInv
<1>9. /\ runs' \in Seq(Nat) /\ Len(runs') = Len(runs) /\ DOMAIN runs' = DOMAIN runs
      /\ runs'[g] = 1 /\ \A k \in DOMAIN runs : k # g => runs'[k] = runs[k]
  <2>1. runs \in Seq(Nat) /\ runs[g] + 1 \in Nat
    BY <1>8, TypesAre
  <2>2. runs' = [runs EXCEPT ![g] = runs[g] + 1]
    BY <1>2
  <2>3. runs' \in Seq(Nat) /\ Len(runs') = Len(runs)
    BY <1>8, <2>1, <2>2, ExceptSeq
  <2> QED BY <1>8, <2>2, <2>3
<1>10. SkillInv' /\ transitions' = transitions /\ artifacts' = artifacts
  <2>1. LocksKept(x)
    BY <1>2 DEF LocksKept
  <2> QED BY <1>2, <2>1, SkillStays
<1>11. ExecutionTypeOK'
  <2>1. call' \in [Executors -> ExecutionCalls(Len(life'), Len(ledger'))]
    BY <1>2, <1>3, <1>5, TypesAre
  <2>2. /\ life' \in Seq(0..GrantTicks) /\ runs' \in Seq(Nat) /\ Len(runs') = Len(life')
        /\ row' \in [Executions -> ExecutionRows(Len(life'), Len(ledger'))]
        /\ told' \subseteq DOMAIN ledger' /\ losses' \in 0..MaxLosses
        /\ LeasesGood(row', life')
    BY <1>2, <1>9, TypesAre
  <2> QED BY <2>1, <2>2, TypesNext
<1>12. EventsInv' /\ RowsInv' /\ IssuedOnce' /\ ToldInv'
  BY <1>2 DEF SystemInv, EventsInv, RowsInv, IssuedOnce, ToldInv
<1>13. CallersInv'
  <2> SUFFICES ASSUME NEW y \in Executors PROVE CallerGood(call'[y], ledger)
    BY <1>2 DEF CallersInv
  <2>1. CASE y = x
    BY <1>5, <1>6, <1>7, <2>1 DEF CallerGood
  <2>2. CASE y # x
    BY <1>6, <2>2, CallFields
  <2> QED BY <2>1, <2>2
<1>14. RunsInv'
  <2>1. ASSUME NEW k \in DOMAIN runs'
        PROVE  /\ runs'[k] <= 1
               /\ runs'[k] = 1 => \E i \in DOMAIN ledger : IsEvent(ledger, i, Intent, k)
    <3>1. CASE k = g
      BY <1>7, <1>9, <3>1 DEF IsEvent
    <3>2. CASE k # g
      BY <1>9, <3>2 DEF SystemInv, RunsInv
    <3> QED BY <3>1, <3>2
  <2>2. ASSUME NEW y \in Executors, y # x, call[y].pc \in Attempting PROVE call[y].grant # g
    BY <1>1, <1>7, <2>2 DEF SystemInv, RunsInv
  <2>3. ASSUME NEW y \in Executors, call'[y].pc = "running" PROVE runs'[call'[y].grant] = 0
    <3>1. y # x /\ call'[y] = call[y] /\ call[y].pc = "running"
      BY <1>5, <1>6, <2>3
    <3>2. call[y].grant # g /\ runs[call[y].grant] = 0
      BY <2>2, <3>1 DEF SystemInv, RunsInv, Attempting
    <3>3. call[y].grant \in DOMAIN runs
      <4>1. IsEvent(ledger, call[y].attempt, Intent, call[y].grant)
        BY <3>1, CallFields DEF CallerGood, Attempting
      <4>2. call[y].grant \in 1..Len(life)
        BY <4>1 DEF SystemInv, EventsInv, EventsGood, IsEvent, ExecutionKinds
      <4> QED BY <4>2, TypesAre
    <3> QED BY <1>9, <3>1, <3>2, <3>3
  <2>4. ASSUME NEW y \in Executors, NEW z \in Executors,
               call'[y].pc \in Attempting, call'[z].pc \in Attempting,
               call'[y].grant = call'[z].grant
        PROVE  y = z
    <3>1. CASE y = x
      BY <1>5, <1>6, <2>2, <2>4, <3>1
    <3>2. CASE y # x /\ z = x
      BY <1>5, <1>6, <2>2, <2>4, <3>2
    <3>3. CASE y # x /\ z # x
      BY <1>6, <2>4, <3>3 DEF SystemInv, RunsInv
    <3> QED BY <3>1, <3>2, <3>3
  <2> QED BY <1>2, <2>1, <2>3, <2>4 DEF RunsInv
<1>15. IssuingInv'
  <2>1. \A y \in Executors : call'[y].pc = "issuing" => call'[y] = call[y]
    BY <1>5, <1>6
  <2>2. \A y \in Executors : call'[y].pc = "issuing" =>
          /\ <<y, ExecutionLock(call'[y].op)>> \in locks
          /\ row[call'[y].op].state = "absent"
    BY <2>1 DEF SystemInv, IssuingInv
  <2>3. \A y, z \in Executors :
          /\ call'[y].pc = "issuing" /\ call'[z].pc = "issuing"
          /\ call'[y].op = call'[z].op
          => y = z
    BY <2>1 DEF SystemInv, IssuingInv
  <2> QED BY <1>2, <2>2, <2>3 DEF IssuingInv, ExecutionLock
<1>16. ConsumedOnActiveSkill'
  BY <1>2, <1>10, ConsumedGrow, TypesAre DEF SystemInv
<1> QED BY <1>10, <1>11, <1>12, <1>13, <1>14, <1>15, <1>16 DEF SystemInv

-----------------------------------------------------------------------------
(* Steps that change rows and grants only *)

RowsChange ==
    /\ UNCHANGED <<ledger, locks, skillVars, call, runs, told>>
    /\ life' \in Seq(0..GrantTicks) /\ Len(life') = Len(life)
    /\ row' \in [Executions -> ExecutionRows(Len(life), Len(ledger))]
    /\ LeasesGood(row', life')
    /\ \A o \in Executions : RowGood(o, row'[o], ledger, Len(life))
    /\ losses' \in 0..MaxLosses
    /\ losses' = 0 => losses = 0 /\ \A o \in Executions : row[o].state # "absent"
                                                            => row'[o].state # "absent"
    /\ \A x \in Executors : call[x].pc = "issuing" => row'[call[x].op].state = "absent"

LEMMA RowsStep ==
    ASSUME SystemInv, RowsChange
    PROVE  SystemInv'
<1>1. /\ ledger' = ledger /\ locks' = locks /\ UNCHANGED skillVars /\ call' = call
      /\ runs' = runs /\ told' = told
      /\ life' \in Seq(0..GrantTicks) /\ Len(life') = Len(life)
      /\ row' \in [Executions -> ExecutionRows(Len(life), Len(ledger))]
      /\ LeasesGood(row', life')
      /\ \A o \in Executions : RowGood(o, row'[o], ledger, Len(life))
      /\ losses' \in 0..MaxLosses
      /\ losses' = 0 => losses = 0 /\ \A o \in Executions : row[o].state # "absent"
                                                              => row'[o].state # "absent"
      /\ \A x \in Executors : call[x].pc = "issuing" => row'[call[x].op].state = "absent"
  BY DEF RowsChange
<1>2. SkillInv' /\ transitions' = transitions /\ artifacts' = artifacts
  <2>1. UNCHANGED <<artifacts, transitions, active, rebuilds, lost, local, answers>>
    BY <1>1 DEF skillVars, local
  <2>2. SkillInv
    BY DEF SystemInv
  <2> QED BY <1>1, <2>1, <2>2, EvidenceStep
<1>3. ExecutionTypeOK'
  <2>1. /\ row' \in [Executions -> ExecutionRows(Len(life'), Len(ledger'))]
        /\ call' \in [Executors -> ExecutionCalls(Len(life'), Len(ledger'))]
        /\ runs' \in Seq(Nat) /\ Len(runs') = Len(life') /\ told' \subseteq DOMAIN ledger'
    BY <1>1, TypesAre
  <2> QED BY <1>1, <2>1, TypesNext
<1>4. EventsInv' /\ CallersInv' /\ RunsInv' /\ ToldInv' /\ RowsInv'
  BY <1>1 DEF SystemInv, EventsInv, RowsInv, CallersInv, RunsInv, ToldInv
<1>5. IssuedOnce'
  <2> SUFFICES ASSUME losses' = 0, NEW i \in DOMAIN ledger, NEW j \in DOMAIN ledger,
                      ledger[i].kind = Issuance
               PROVE  /\ row'[ledger[i].of.op].state # "absent"
                      /\ ledger[j].kind = Issuance /\ ledger[i].of.op = ledger[j].of.op
                           => i = j
    BY <1>1 DEF IssuedOnce
  <2>1. /\ row[ledger[i].of.op].state # "absent"
        /\ ledger[j].kind = Issuance /\ ledger[i].of.op = ledger[j].of.op => i = j
    BY <1>1 DEF SystemInv, IssuedOnce
  <2>2. ledger[i].of.op \in Executions
    BY DEF SystemInv, EventsInv, EventsGood, ExecutionKinds
  <2> QED BY <1>1, <2>1, <2>2
<1>6. IssuingInv'
  BY <1>1 DEF SystemInv, IssuingInv, ExecutionLock
<1>7. ConsumedOnActiveSkill'
  BY <1>1, <1>2, ConsumedGrow, TypesAre DEF SystemInv
<1> QED BY <1>2, <1>3, <1>4, <1>5, <1>6, <1>7 DEF SystemInv

LEMMA NoRowGood ==
    ASSUME NEW n \in Nat, NEW k \in Nat, NEW o, NEW es
    PROVE  /\ NoRow \in ExecutionRows(n, k) /\ NoRow.state = "absent" /\ NoRow.lease = 0
           /\ RowGood(o, NoRow, es, n)
<1>1. 0 \in 0..n /\ 0 \in 0..k /\ 0 \in 0..2 /\ 0 \in 0..LeaseTicks
  BY TickAssumption
<1>2. NoRow.state = "absent" /\ NoRow.lease = 0
  BY DEF NoRow
<1>3. NoRow \in ExecutionRows(n, k)
  BY <1>1 DEF NoRow, ExecutionRows
<1>4. RowGood(o, NoRow, es, n)
  BY <1>2 DEF RowGood, Terminal
<1> QED BY <1>2, <1>3, <1>4

LEMMA LoseRowKeeps ==
    ASSUME SystemInv, NEW o \in Executions, LoseRow(o)
    PROVE  SystemInv'
<1>1. /\ losses < MaxLosses /\ row' = [row EXCEPT ![o] = NoRow] /\ losses' = losses + 1
      /\ UNCHANGED <<ledger, locks, skillVars, call, runs, told>> /\ life' = life
  BY DEF LoseRow
<1>2. /\ NoRow \in ExecutionRows(Len(life), Len(ledger)) /\ NoRow.state = "absent"
      /\ NoRow.lease = 0 /\ RowGood(o, NoRow, ledger, Len(life))
  BY NoRowGood, TypesAre
<1>3. row'[o] = NoRow /\ \A p \in Executions : p # o => row'[p] = row[p]
  BY <1>1, TypesAre
<1>4. row' \in [Executions -> ExecutionRows(Len(life), Len(ledger))]
  BY <1>1, <1>2, TypesAre
<1>5. LeasesGood(row', life')
  <2> SUFFICES ASSUME NEW p \in Executions, row'[p].state = "executing", row'[p].lease > 0
               PROVE  row'[p].lease < life[row'[p].grant]
    BY <1>1 DEF LeasesGood
  <2>1. p # o
    BY <1>2, <1>3
  <2> QED BY <1>3, <2>1, TypesAre DEF LeasesGood
<1>6. ASSUME NEW p \in Executions PROVE RowGood(p, row'[p], ledger, Len(life))
  <2>1. CASE p = o
    BY <1>2, <1>3, <2>1
  <2>2. CASE p # o
    BY <1>3, <2>2 DEF SystemInv, RowsInv
  <2> QED BY <2>1, <2>2
<1>7. losses' \in 0..MaxLosses /\ losses' # 0
  BY <1>1, TypesAre, TickAssumption
<1>8. ASSUME NEW x \in Executors, call[x].pc = "issuing"
      PROVE  row'[call[x].op].state = "absent"
  <2>1. row[call[x].op].state = "absent" /\ call[x].op \in Executions
    BY <1>8, CallFields DEF SystemInv, IssuingInv, CallerGood
  <2> QED BY <1>2, <1>3, <2>1
<1>9. life' \in Seq(0..GrantTicks) /\ Len(life') = Len(life)
  BY <1>1, TypesAre
<1>10. RowsChange
  BY <1>1, <1>4, <1>5, <1>6, <1>7, <1>8, <1>9 DEF RowsChange
<1> QED BY <1>10, RowsStep

(* A tick takes one from what is left. *)
LEMMA TickDown ==
    ASSUME NEW n \in Nat, NEW k \in 0..n
    PROVE  /\ Max({0, k - 1}) \in 0..n
           /\ Max({0, k - 1}) >= k - 1
           /\ Max({0, k - 1}) > 0 => Max({0, k - 1}) = k - 1
<1> DEFINE S == {0, k - 1}
<1>1. \E z \in S : \A y \in S : z >= y
  OBVIOUS
<1>2. Max(S) \in S /\ \A y \in S : Max(S) >= y
  BY <1>1 DEF Max
<1>3. Max(S) = 0 \/ Max(S) = k - 1
  BY <1>2
<1>4. Max(S) >= 0 /\ Max(S) >= k - 1
  BY <1>2
<1> HIDE DEF S
<1>5. Max(S) \in 0..n /\ (Max(S) > 0 => Max(S) = k - 1)
  BY <1>3, <1>4
<1> QED BY <1>4, <1>5 DEF S

LEMMA TickKeeps ==
    ASSUME SystemInv, Tick
    PROVE  SystemInv'
<1>1. /\ life' = [g \in DOMAIN life |-> Max({0, life[g] - 1})]
      /\ row' = [o \in Executions |-> [row[o] EXCEPT !.lease = Max({0, @ - 1})]]
      /\ UNCHANGED <<ledger, locks, skillVars, call, runs, told>> /\ losses' = losses
  BY DEF Tick
<1>2. /\ GrantTicks \in Nat /\ LeaseTicks \in Nat /\ Len(life) \in Nat /\ DOMAIN life = 1..Len(life)
  BY TypesAre, TickAssumption
<1>3. \A g \in DOMAIN life : life[g] \in 0..GrantTicks
  <2>1. life \in Seq(0..GrantTicks)
    BY TypesAre
  <2> QED BY <2>1, ElementOfSeq, LenProperties
<1>4. \A g \in DOMAIN life : /\ life'[g] \in 0..GrantTicks /\ life'[g] >= life[g] - 1
  BY <1>1, <1>2, <1>3, TickDown
<1>5. life' \in Seq(0..GrantTicks) /\ Len(life') = Len(life)
  <2>1. life' \in [1..Len(life) -> 0..GrantTicks]
    BY <1>1, <1>2, <1>4
  <2> QED BY <1>2, <2>1, LenProperties
<1>6. ASSUME NEW o \in Executions
      PROVE  /\ row'[o] \in ExecutionRows(Len(life), Len(ledger))
             /\ row'[o].state = row[o].state /\ row'[o].grant = row[o].grant
             /\ row'[o].attempt = row[o].attempt /\ row'[o].generation = row[o].generation
             /\ row'[o].outcome = row[o].outcome
             /\ row[o].lease \in Nat
             /\ row'[o].lease > 0 => row'[o].lease = row[o].lease - 1
  <2>1. row[o] \in ExecutionRows(Len(life), Len(ledger))
    BY TypesAre
  <2>2. row[o].lease \in 0..LeaseTicks
    BY <2>1 DEF ExecutionRows
  <2>3. PICK l : l = Max({0, row[o].lease - 1})
    OBVIOUS
  <2>4. l \in 0..LeaseTicks /\ (l > 0 => l = row[o].lease - 1)
    BY <1>2, <2>2, <2>3, TickDown
  <2>5. row'[o] = [row[o] EXCEPT !.lease = l]
    BY <1>1, <2>3
  <2> QED BY <2>1, <2>2, <2>4, <2>5 DEF ExecutionRows
<1>7. row' \in [Executions -> ExecutionRows(Len(life), Len(ledger))]
  BY <1>1, <1>6
<1>8. LeasesGood(row', life')
  <2> SUFFICES ASSUME NEW o \in Executions, row'[o].state = "executing", row'[o].lease > 0
               PROVE  row'[o].lease < life'[row'[o].grant]
    BY DEF LeasesGood
  <2>1. /\ row[o].state = "executing" /\ row'[o].lease = row[o].lease - 1
        /\ row[o].lease \in Nat /\ row'[o].grant = row[o].grant
    BY <1>6
  <2>2. row[o].lease > 0
    BY <2>1
  <2>3. row[o].lease < life[row[o].grant]
    BY <2>1, <2>2, TypesAre DEF LeasesGood
  <2>4. row[o].grant \in DOMAIN life
    BY <1>2, <2>1, RowFacts
  <2>5. /\ life[row[o].grant] \in Nat /\ life'[row[o].grant] \in Nat
        /\ life'[row[o].grant] >= life[row[o].grant] - 1
    BY <1>3, <1>4, <2>4
  <2> QED BY <2>1, <2>3, <2>5
<1>9. ASSUME NEW o \in Executions PROVE RowGood(o, row'[o], ledger, Len(life))
  <2>1. RowGood(o, row[o], ledger, Len(life))
    BY DEF SystemInv, RowsInv
  <2> QED BY <1>6, <2>1 DEF RowGood
<1>10. ASSUME NEW x \in Executors, call[x].pc = "issuing"
       PROVE  row'[call[x].op].state = "absent"
  <2>1. row[call[x].op].state = "absent" /\ call[x].op \in Executions
    BY <1>10, CallFields DEF SystemInv, IssuingInv, CallerGood
  <2> QED BY <1>6, <2>1
<1>11. losses' \in 0..MaxLosses
  BY <1>1, TypesAre
<1>12. RowsChange
  BY <1>1, <1>5, <1>6, <1>7, <1>8, <1>9, <1>10, <1>11 DEF RowsChange
<1> QED BY <1>12, RowsStep

(* The events of an operation with one issuance are of that issuance's grant. *)
LEMMA OneGrant ==
    ASSUME SystemInv, NEW o \in Executions, NEW i \in EventsOf(o, Issuance),
           Cardinality(EventsOf(o, Issuance)) = 1
    PROVE  /\ i \in DOMAIN ledger /\ ledger[i].kind = Issuance /\ ledger[i].of.op = o
           /\ ledger[i].of.grant \in 1..Len(life)
           /\ \A j \in EventsOf(o, Intent) : IsEvent(ledger, j, Intent, ledger[i].of.grant)
           /\ \A j \in EventsOf(o, Outcome) : IsEvent(ledger, j, Outcome, ledger[i].of.grant)
           /\ \A j : IsEvent(ledger, j, Intent, ledger[i].of.grant) => j \in EventsOf(o, Intent)
           /\ \A j : IsEvent(ledger, j, Outcome, ledger[i].of.grant) => j \in EventsOf(o, Outcome)
<1>1. i \in DOMAIN ledger /\ ledger[i].kind = Issuance /\ ledger[i].of.op = o
  BY DEF EventsOf
<1>2. EventsGood(ledger, Len(life)) /\ DOMAIN ledger = 1..Len(ledger) /\ Len(ledger) \in Nat
  BY TypesAre DEF SystemInv, EventsInv
<1>3. Issuance \in ExecutionKinds /\ Intent \in ExecutionKinds /\ Outcome \in ExecutionKinds
  BY DEF ExecutionKinds
<1>4. ledger[i].of.grant \in 1..Len(life)
  BY <1>1, <1>2, <1>3 DEF EventsGood
<1>5. EventsOf(o, Issuance) = {i}
  <2>1. EventsOf(o, Issuance) \in SUBSET (1..Len(ledger)) /\ 1 \in Int /\ Len(ledger) \in Int
    BY <1>2 DEF EventsOf
  <2>2. IsFiniteSet(1..Len(ledger))
    BY <2>1, FS_Interval
  <2>3. IsFiniteSet(EventsOf(o, Issuance))
    BY <2>1, <2>2, FS_Subset
  <2>4. PICK y : EventsOf(o, Issuance) = {y}
    BY <2>3, FS_Singleton
  <2> QED BY <2>4
<1>6. ASSUME NEW j \in DOMAIN ledger, ledger[j].kind = Issuance, ledger[j].of.op = o
      PROVE  j = i
  BY <1>5, <1>6 DEF EventsOf
<1>7. ASSUME NEW j \in EventsOf(o, Intent) PROVE IsEvent(ledger, j, Intent, ledger[i].of.grant)
  <2>1. j \in DOMAIN ledger /\ ledger[j].kind = Intent /\ ledger[j].of.op = o
    BY DEF EventsOf
  <2>2. PICK k \in 1..(j - 1) : IsEvent(ledger, k, Issuance, ledger[j].of.grant)
    BY <1>2, <2>1 DEF EventsGood
  <2>3. k \in DOMAIN ledger /\ ledger[k].kind = Issuance /\ ledger[k].of.grant = ledger[j].of.grant
    BY <2>2 DEF IsEvent
  <2>4. ledger[k].of.op = ledger[j].of.op
    BY <1>2, <1>3, <2>1, <2>3, SameGrant
  <2>5. k = i
    BY <1>6, <2>1, <2>3, <2>4
  <2> QED BY <2>1, <2>3, <2>5 DEF IsEvent
<1>8. ASSUME NEW j \in EventsOf(o, Outcome) PROVE IsEvent(ledger, j, Outcome, ledger[i].of.grant)
  <2>1. j \in DOMAIN ledger /\ ledger[j].kind = Outcome /\ ledger[j].of.op = o
    BY DEF EventsOf
  <2>2. PICK k \in 1..(j - 1) : IsEvent(ledger, k, Intent, ledger[j].of.grant)
    BY <1>2, <2>1 DEF EventsGood
  <2>3. k \in DOMAIN ledger /\ ledger[k].kind = Intent /\ ledger[k].of.grant = ledger[j].of.grant
    BY <2>2 DEF IsEvent
  <2>4. ledger[k].of.op = ledger[j].of.op
    BY <1>2, <1>3, <2>1, <2>3, SameGrant
  <2>5. k \in EventsOf(o, Intent)
    BY <2>1, <2>3, <2>4 DEF EventsOf
  <2>6. ledger[k].of.grant = ledger[i].of.grant
    BY <1>7, <2>5 DEF IsEvent
  <2> QED BY <2>1, <2>3, <2>6 DEF IsEvent
<1>9. ASSUME NEW j, NEW kind \in {Intent, Outcome}, IsEvent(ledger, j, kind, ledger[i].of.grant)
      PROVE  j \in EventsOf(o, kind)
  <2>1. /\ j \in DOMAIN ledger /\ ledger[j].kind = kind
        /\ ledger[j].of.grant = ledger[i].of.grant
    BY <1>9 DEF IsEvent
  <2>2. ledger[j].kind \in ExecutionKinds /\ ledger[i].kind \in ExecutionKinds
    BY <1>1, <1>3, <2>1
  <2>3. ledger[j].of.op = ledger[i].of.op
    BY <1>1, <1>2, <2>1, <2>2, SameGrant
  <2> QED BY <1>1, <2>1, <2>3 DEF EventsOf
<1> QED BY <1>1, <1>4, <1>7, <1>8, <1>9

(* What the evidence proves is true of the run. *)
LEMMA RebuiltGood ==
    ASSUME SystemInv, NEW o \in Executions, NEW i \in EventsOf(o, Issuance),
           Cardinality(EventsOf(o, Issuance)) = 1, NEW g, g = ledger[i].of.grant,
           NEW r, r = Rebuilt(o, g)
    PROVE  /\ r \in ExecutionRows(Len(life), Len(ledger)) /\ r.lease = 0
           /\ r.state # "absent" /\ RowGood(o, r, ledger, Len(life))
<1>1. /\ i \in DOMAIN ledger /\ ledger[i].kind = Issuance /\ ledger[i].of.op = o
      /\ g \in 1..Len(life)
      /\ \A j \in EventsOf(o, Intent) : IsEvent(ledger, j, Intent, g)
      /\ \A j \in EventsOf(o, Outcome) : IsEvent(ledger, j, Outcome, g)
      /\ \A j : IsEvent(ledger, j, Intent, g) => j \in EventsOf(o, Intent)
      /\ \A j : IsEvent(ledger, j, Outcome, g) => j \in EventsOf(o, Outcome)
  BY OneGrant
<1>2. /\ EventsGood(ledger, Len(life)) /\ DOMAIN ledger = 1..Len(ledger)
      /\ Len(ledger) \in Nat /\ Len(life) \in Nat
  BY TypesAre DEF SystemInv, EventsInv
<1>3. /\ 0 \in 0..Len(ledger) /\ g \in 0..Len(life) /\ 0 \in 0..2 /\ 1 \in 0..2 /\ 2 \in 0..2
      /\ 0 \in 0..LeaseTicks
  BY <1>1, <1>2, TickAssumption
<1>4. \E j \in DOMAIN ledger : IsEvent(ledger, j, Issuance, g) /\ ledger[j].of.op = o
  BY <1>1 DEF IsEvent
<1>5. ASSUME NEW kind, EventsOf(o, kind) # {}
      PROVE  /\ Max(EventsOf(o, kind)) \in EventsOf(o, kind)
             /\ Max(EventsOf(o, kind)) \in 0..Len(ledger)
  <2>1. EventsOf(o, kind) \in SUBSET (1..Len(ledger))
    BY <1>2 DEF EventsOf
  <2>2. Max(EventsOf(o, kind)) \in EventsOf(o, kind)
    BY <1>2, <1>5, <2>1, MaxFacts
  <2> QED BY <1>2, <2>1, <2>2
<1> DEFINE authorized == [NoRow EXCEPT !.state = "authorized", !.grant = g]
<1>6. /\ authorized \in ExecutionRows(Len(life), Len(ledger)) /\ authorized.lease = 0
      /\ authorized.state = "authorized" /\ authorized.grant = g
  BY <1>3 DEF NoRow, ExecutionRows, Terminal
<1> HIDE DEF authorized
<1>7. CASE EventsOf(o, Intent) = {}
  <2>1. r = authorized
    BY <1>7 DEF Rebuilt, authorized, Intent
  <2>2. \A j : ~IsEvent(ledger, j, Intent, g)
    BY <1>1, <1>7
  <2> QED BY <1>1, <1>4, <1>6, <2>1, <2>2 DEF RowGood, Terminal
<1>8. CASE EventsOf(o, Intent) # {}
  <2>1. PICK a : a = Max(EventsOf(o, Intent))
    OBVIOUS
  <2>2. a \in 0..Len(ledger) /\ IsEvent(ledger, a, Intent, g)
    BY <1>1, <1>5, <1>8, <2>1
  <2> DEFINE executing == [authorized EXCEPT !.state = "executing", !.attempt = a,
                                             !.generation = 1]
  <2>3. /\ executing \in ExecutionRows(Len(life), Len(ledger)) /\ executing.lease = 0
        /\ executing.state = "executing" /\ executing.grant = g /\ executing.attempt = a
        /\ executing.generation = 1
    BY <1>3, <1>6, <2>2 DEF ExecutionRows, Terminal
  <2>4. CASE EventsOf(o, Outcome) = {}
    <3>1. r = executing
      BY <1>8, <2>1, <2>4 DEF Rebuilt, authorized, Intent, Outcome
    <3> HIDE DEF executing
    <3>2. \A j : ~IsEvent(ledger, j, Outcome, g)
      BY <1>1, <2>4
    <3> QED BY <1>1, <1>4, <2>2, <2>3, <3>1, <3>2 DEF RowGood, Terminal
  <2>5. CASE EventsOf(o, Outcome) # {}
    <3>1. PICK z : z = Max(EventsOf(o, Outcome))
      OBVIOUS
    <3>2. z \in 0..Len(ledger) /\ IsEvent(ledger, z, Outcome, g)
      BY <1>1, <1>5, <2>5, <3>1
    <3>3. ledger[z].of.outcome \in {"succeeded", "indeterminate"}
      BY <1>2, <3>2 DEF IsEvent, EventsGood
    <3>4. CASE ledger[z].of.outcome = "indeterminate"
      <4> DEFINE ended == [executing EXCEPT !.state = "indeterminate", !.generation = 2,
                                            !.outcome = z]
      <4>1. r = ended
        BY <1>8, <2>1, <2>5, <3>1, <3>4 DEF Rebuilt, authorized, Intent, Outcome
      <4> HIDE DEF executing
      <4>2. /\ ended \in ExecutionRows(Len(life), Len(ledger)) /\ ended.lease = 0
            /\ ended.state = "indeterminate" /\ ended.grant = g /\ ended.outcome = z
        BY <1>3, <2>3, <3>2 DEF ExecutionRows, Terminal
      <4> HIDE DEF ended
      <4> QED BY <1>1, <1>4, <3>2, <3>4, <4>1, <4>2 DEF RowGood, Terminal
    <3>5. CASE ledger[z].of.outcome = "succeeded"
      <4> DEFINE ended == [executing EXCEPT !.state = "completed", !.outcome = z]
      <4>1. r = ended
        BY <1>8, <2>1, <2>5, <3>1, <3>5 DEF Rebuilt, authorized, Intent, Outcome
      <4> HIDE DEF executing
      <4>2. /\ ended \in ExecutionRows(Len(life), Len(ledger)) /\ ended.lease = 0
            /\ ended.state = "completed" /\ ended.grant = g /\ ended.outcome = z
        BY <1>3, <2>3, <3>2 DEF ExecutionRows, Terminal
      <4> HIDE DEF ended
      <4> QED BY <1>1, <1>4, <3>2, <3>5, <4>1, <4>2 DEF RowGood, Terminal
    <3> QED BY <3>3, <3>4, <3>5
  <2> QED BY <2>4, <2>5
<1> QED BY <1>7, <1>8

LEMMA RebuildKeeps ==
    ASSUME SystemInv, NEW x \in Executors, NEW o \in Executions, Rebuild(x, o)
    PROVE  SystemInv'
<1>1. /\ Free(ExecutionLock(o)) /\ row[o].state = "absent"
      /\ Cardinality(EventsOf(o, Issuance)) = 1
      /\ \E i \in EventsOf(o, Issuance) : row' = [row EXCEPT ![o] = Rebuilt(o, ledger[i].of.grant)]
      /\ UNCHANGED <<ledger, locks, skillVars, call, runs, told>>
      /\ life' = life /\ losses' = losses
  BY DEF Rebuild, Issuance
<1>2. PICK i \in EventsOf(o, Issuance) : row' = [row EXCEPT ![o] = Rebuilt(o, ledger[i].of.grant)]
  BY <1>1
<1>3. PICK g : g = ledger[i].of.grant
  OBVIOUS
<1>4. PICK r : r = Rebuilt(o, g)
  OBVIOUS
<1>5. /\ r \in ExecutionRows(Len(life), Len(ledger)) /\ r.lease = 0
      /\ r.state # "absent" /\ RowGood(o, r, ledger, Len(life))
  BY <1>1, <1>3, <1>4, RebuiltGood
<1>6. row' = [row EXCEPT ![o] = r]
  BY <1>2, <1>3, <1>4
<1>7. row'[o] = r /\ \A p \in Executions : p # o => row'[p] = row[p]
  BY <1>6, TypesAre
<1>8. row' \in [Executions -> ExecutionRows(Len(life), Len(ledger))]
  BY <1>5, <1>6, TypesAre
<1>9. LeasesGood(row', life')
  <2> SUFFICES ASSUME NEW p \in Executions, row'[p].state = "executing", row'[p].lease > 0
               PROVE  row'[p].lease < life[row'[p].grant]
    BY <1>1 DEF LeasesGood
  <2>1. p # o
    BY <1>5, <1>7
  <2> QED BY <1>7, <2>1, TypesAre DEF LeasesGood
<1>10. ASSUME NEW p \in Executions PROVE RowGood(p, row'[p], ledger, Len(life))
  <2>1. CASE p = o
    BY <1>5, <1>7, <2>1
  <2>2. CASE p # o
    BY <1>7, <2>2 DEF SystemInv, RowsInv
  <2> QED BY <2>1, <2>2
<1>11. ASSUME NEW y \in Executors, call[y].pc = "issuing"
       PROVE  row'[call[y].op].state = "absent"
  <2>1. /\ row[call[y].op].state = "absent" /\ <<y, ExecutionLock(call[y].op)>> \in locks
        /\ call[y].op \in Executions
    BY <1>11, CallFields DEF SystemInv, IssuingInv, CallerGood
  <2>2. call[y].op # o
    BY <1>1, <2>1 DEF Free
  <2> QED BY <1>7, <2>1, <2>2
<1>12. /\ life' \in Seq(0..GrantTicks) /\ Len(life') = Len(life) /\ losses' \in 0..MaxLosses
  BY <1>1, TypesAre
<1>13. \A p \in Executions : row[p].state # "absent" => row'[p].state # "absent"
  BY <1>5, <1>7
<1>14. RowsChange
  BY <1>1, <1>8, <1>9, <1>10, <1>11, <1>12, <1>13 DEF RowsChange
<1> QED BY <1>14, RowsStep

-----------------------------------------------------------------------------
(* The invariant *)

LEMMA ExecutorKeeps ==
    ASSUME SystemInv, NEW x \in Executors, ExecutionCall(x) \/ ExecutionStep(x) \/ Die(x)
    PROVE  SystemInv'
<1>1. CASE ExecutionCall(x)
  <2>1. PICK o \in Executions :
          \/ IssueResolve(x, o)
          \/ Rebuild(x, o)
          \/ \E g \in DOMAIN life :
                InvokeDraft(x, o, g) \/ RecoverReplay(x, o, g) \/ RecoverLookup(x, o, g)
    BY <1>1 DEF ExecutionCall
  <2>2. ASSUME NEW g \in DOMAIN life,
               InvokeDraft(x, o, g) \/ RecoverReplay(x, o, g) \/ RecoverLookup(x, o, g)
        PROVE  SystemInv'
    BY <2>2, InvokeDraftKeeps, RecoverReplayKeeps, RecoverLookupKeeps
  <2> QED BY <2>1, <2>2, IssueResolveKeeps, RebuildKeeps
<1>2. CASE ExecutionStep(x)
  <2>1. CASE IssueDraft(x)
    BY <2>1, IssueDraftKeeps
  <2>2. CASE IssueCommit(x)
    BY <2>2, IssueCommitKeeps
  <2>3. CASE BeginLock(x)
    BY <2>3, BeginLockKeeps
  <2>4. CASE BeginCommit(x)
    BY <2>4, BeginCommitKeeps
  <2>5. CASE RunHandler(x)
    BY <2>5, RunHandlerKeeps
  <2>6. CASE CompleteCommit(x)
    BY <2>6, CompleteCommitKeeps
  <2>7. CASE RecoverDraft(x)
    BY <2>7, RecoverDraftKeeps
  <2>8. CASE RecoverCommit(x)
    BY <2>8, RecoverCommitKeeps
  <2>9. CASE \/ IssueReplay(x) \/ IssueRefused(x) \/ BeginReplay(x) \/ BeginRefused(x)
             \/ CompleteRefused(x) \/ RecoverLate(x) \/ RecoverRefused(x)
    BY <2>9, EndKeeps
  <2> QED BY <1>2, <2>1, <2>2, <2>3, <2>4, <2>5, <2>6, <2>7, <2>8, <2>9 DEF ExecutionStep
<1>3. CASE Die(x)
  BY <1>3, EndKeeps
<1> QED BY <1>1, <1>2, <1>3

LEMMA SystemStutter ==
    ASSUME SystemInv, UNCHANGED systemVars
    PROVE  SystemInv'
<1>1. /\ ledger' = ledger /\ locks' = locks /\ UNCHANGED skillVars /\ UNCHANGED executionVars
  BY DEF systemVars
<1>2. SkillInv' /\ transitions' = transitions /\ artifacts' = artifacts
  <2>1. UNCHANGED <<artifacts, transitions, active, rebuilds, lost, local, answers>>
    BY <1>1 DEF skillVars, local
  <2>2. SkillInv
    BY DEF SystemInv
  <2> QED BY <1>1, <2>1, <2>2, EvidenceStep
<1>3. /\ ExecutionTypeOK' /\ EventsInv' /\ RowsInv' /\ CallersInv' /\ RunsInv'
      /\ IssuingInv' /\ IssuedOnce' /\ ToldInv'
  BY <1>1, ExecutionStays
<1>4. ConsumedOnActiveSkill'
  BY <1>1, <1>2, ConsumedGrow, TypesAre DEF SystemInv
<1> QED BY <1>2, <1>3, <1>4 DEF SystemInv

LEMMA SystemInitial ==
    ASSUME SystemInit
    PROVE  SystemInv
<1>1. /\ Init /\ row = [o \in Executions |-> NoRow] /\ life = <<>>
      /\ call = [x \in Executors |-> Idle] /\ runs = <<>> /\ told = {} /\ losses = 0
  BY DEF SystemInit
<1>2. ledger = <<>>
  BY <1>1 DEF Init
<1>3. Len(ledger) = 0 /\ Len(life) = 0 /\ DOMAIN ledger = {} /\ DOMAIN runs = {}
  BY <1>1, <1>2
<1>4. SkillInv
  BY <1>1, InitKeeps
<1>5. \A o \in Executions : /\ row[o] \in ExecutionRows(0, 0) /\ row[o].state = "absent"
                            /\ row[o].lease = 0 /\ RowGood(o, row[o], ledger, 0)
  BY <1>1, NoRowGood
<1>6. \A x \in Executors : /\ call[x] \in ExecutionCalls(0, 0) /\ call[x].pc = "idle"
                           /\ CallerGood(call[x], ledger) /\ call[x].pc \notin Attempting
  BY <1>1, IdleTyped
<1>7. ExecutionTypeOK
  <2>1. row \in [Executions -> ExecutionRows(Len(life), Len(ledger))]
    BY <1>1, <1>3, <1>5
  <2>2. call \in [Executors -> ExecutionCalls(Len(life), Len(ledger))]
    BY <1>1, <1>3, <1>6
  <2>3. life \in Seq(0..GrantTicks) /\ runs \in Seq(Nat) /\ Len(runs) = Len(life)
    BY <1>1
  <2>4. told \subseteq DOMAIN ledger /\ losses \in 0..MaxLosses
    BY <1>1, TickAssumption
  <2>5. \A o \in Executions : ~(row[o].lease > 0)
    BY <1>5
  <2> QED BY <2>1, <2>2, <2>3, <2>4, <2>5 DEF ExecutionTypeOK, ExecutionRows, ExecutionCalls
<1>8. EventsInv
  BY <1>3 DEF EventsInv, EventsGood
<1>9. RowsInv /\ CallersInv
  BY <1>3, <1>5, <1>6 DEF RowsInv, CallersInv
<1>10. RunsInv /\ IssuingInv
  BY <1>3, <1>6 DEF RunsInv, IssuingInv, Attempting
<1>11. IssuedOnce /\ ToldInv /\ ConsumedOnActiveSkill
  BY <1>1, <1>3 DEF IssuedOnce, ToldInv, ConsumedOnActiveSkill
<1> QED BY <1>4, <1>7, <1>8, <1>9, <1>10, <1>11 DEF SystemInv

-----------------------------------------------------------------------------
(* What the composed system keeps.  The lifecycle's own invariant is part  *)
(* of it: beside executions, whose evidence goes to the same run, the      *)
(* lifecycle stays correct.                                                *)
THEOREM SystemInductive == SystemSpec => []SystemInv
<1>1. SystemInit => SystemInv
  BY SystemInitial
<1>2. SystemInv /\ [SystemNext]_systemVars => SystemInv'
  <2> SUFFICES ASSUME SystemInv, [SystemNext]_systemVars PROVE SystemInv'
    OBVIOUS
  <2>1. CASE LifecycleNext /\ UNCHANGED executionVars
    BY <2>1, LifecycleKeeps
  <2>2. CASE \E x \in Executors : ExecutionCall(x) \/ ExecutionStep(x) \/ Die(x)
    BY <2>2, ExecutorKeeps
  <2>3. CASE \E o \in Executions : LoseRow(o)
    BY <2>3, LoseRowKeeps
  <2>4. CASE Tick
    BY <2>4, TickKeeps
  <2>5. CASE UNCHANGED systemVars
    BY <2>5, SystemStutter
  <2> QED BY <2>1, <2>2, <2>3, <2>4, <2>5 DEF SystemNext
<1> QED BY <1>1, <1>2, PTL DEF SystemSpec

(* Every variable has its type, and a lease that runs ends before its      *)
(* grant (gah_begin_builtin_execution_validated).                          *)
THEOREM ExecutionTypeCorrect == SystemSpec => []ExecutionTypeOK
<1>1. SystemInv => ExecutionTypeOK
  BY DEF SystemInv
<1> QED BY <1>1, SystemInductive, PTL

(* The chain of the run is intact: of all that lifecycle and executions    *)
(* draft on a head, one event is appended to it                            *)
(* (gah_builtin_execution_commit_evidence).                                *)
THEOREM ChainStaysIntact == SystemSpec => []ChainIntact
<1>1. SystemInv => ChainIntact
  BY DEF SystemInv, SkillInv, LedgerInv, ChainIntact
<1> QED BY <1>1, SystemInductive, PTL

(* A grant is consumed on the revision it was issued for, whatever         *)
(* transitions race the invocation (gah_begin_builtin_execution_validated). *)
THEOREM ConsumedOnItsSkill == SystemSpec => []ConsumedOnActiveSkill
<1>1. SystemInv => ConsumedOnActiveSkill
  BY DEF SystemInv
<1> QED BY <1>1, SystemInductive, PTL

(* The handler of invoke runs at most once under a grant, after its        *)
(* intent, and once for an operation whose row was never lost.             *)
THEOREM HandlerRunsOnce == SystemSpec => []RunsOnce
<1>1. ASSUME SystemInv PROVE RunsOnce
  <2>1. ASSUME NEW g \in DOMAIN runs
        PROVE  /\ runs[g] <= 1
               /\ runs[g] = 1 => \E i \in DOMAIN ledger :
                                    IsKind(i, "execution.intent") /\ ledger[i].of.grant = g
    BY <1>1 DEF SystemInv, RunsInv, IsEvent, IsKind, Intent
  <2>2. ASSUME losses = 0, NEW i \in DOMAIN ledger, NEW j \in DOMAIN ledger,
               ledger[i].kind = Intent, ledger[j].kind = Intent,
               ledger[i].of.op = ledger[j].of.op
        PROVE  i = j
    <3>1. EventsGood(ledger, Len(life))
      BY <1>1 DEF SystemInv, EventsInv
    <3>2. Issuance \in ExecutionKinds /\ Intent \in ExecutionKinds
      BY DEF ExecutionKinds
    <3>3. PICK k \in 1..(i - 1) : IsEvent(ledger, k, Issuance, ledger[i].of.grant)
      BY <2>2, <3>1 DEF EventsGood
    <3>4. PICK l \in 1..(j - 1) : IsEvent(ledger, l, Issuance, ledger[j].of.grant)
      BY <2>2, <3>1 DEF EventsGood
    <3>5. /\ k \in DOMAIN ledger /\ ledger[k].kind = Issuance
          /\ ledger[k].of.grant = ledger[i].of.grant
          /\ l \in DOMAIN ledger /\ ledger[l].kind = Issuance
          /\ ledger[l].of.grant = ledger[j].of.grant
      BY <3>3, <3>4 DEF IsEvent
    <3>6. ledger[k].of.op = ledger[i].of.op /\ ledger[l].of.op = ledger[j].of.op
      BY <2>2, <3>1, <3>2, <3>5, SameGrant
    <3>7. k = l
      BY <1>1, <2>2, <3>5, <3>6 DEF SystemInv, IssuedOnce
    <3>8. ledger[i].of.grant = ledger[j].of.grant
      BY <3>5, <3>7
    <3> QED BY <2>2, <3>1, <3>2, <3>8 DEF EventsGood
  <2> QED BY <2>1, <2>2 DEF RunsOnce, IsKind, Intent
<1> QED BY <1>1, SystemInductive, PTL

(* A grant has one outcome after its intent, its row ended with it or has  *)
(* not ended, and callers are given no other: a late completion, a         *)
(* recovery and a rebuild never leave two answers.                         *)
THEOREM OutcomesAgree == SystemSpec => []OutcomeAgrees
<1>1. ASSUME SystemInv PROVE OutcomeAgrees
  <2> DEFINE outcomes == {i \in DOMAIN ledger : IsKind(i, "execution.outcome")}
  <2>1. EventsGood(ledger, Len(life))
    BY <1>1 DEF SystemInv, EventsInv
  <2>2. \A i : i \in outcomes <=> i \in DOMAIN ledger /\ ledger[i].kind = Outcome
    BY DEF IsKind, Outcome
  <2> HIDE DEF outcomes
  <2>3. \A i, j \in outcomes : ledger[i].of.grant = ledger[j].of.grant => i = j
    BY <2>1, <2>2 DEF EventsGood, ExecutionKinds
  <2>4. \A i \in outcomes : \E j \in 1..(i - 1) :
          IsKind(j, "execution.intent") /\ ledger[j].of.grant = ledger[i].of.grant
    BY <2>1, <2>2 DEF EventsGood, IsEvent, IsKind, Intent
  <2>5. told \subseteq outcomes
    BY <1>1, <2>2 DEF SystemInv, ToldInv
  <2>6. ASSUME NEW o \in Executions, row[o].state \in Terminal
        PROVE  /\ {i \in outcomes : ledger[i].of.grant = row[o].grant} = {row[o].outcome}
               /\ ledger[row[o].outcome].of.outcome =
                     (IF row[o].state = "completed" THEN "succeeded" ELSE "indeterminate")
    <3>1. RowGood(o, row[o], ledger, Len(life))
      BY <1>1 DEF SystemInv, RowsInv
    <3>2. row[o].outcome \in outcomes /\ ledger[row[o].outcome].of.grant = row[o].grant
      BY <2>2, <2>6, <3>1 DEF RowGood, IsEvent
    <3>3. \A i \in outcomes : ledger[i].of.grant = row[o].grant => i = row[o].outcome
      BY <2>3, <3>2
    <3> QED BY <2>6, <3>1, <3>2, <3>3 DEF RowGood
  <2>7. ASSUME NEW o \in Executions, row[o].state # "absent", row[o].state \notin Terminal
        PROVE  {i \in outcomes : ledger[i].of.grant = row[o].grant} = {}
    <3>1. RowGood(o, row[o], ledger, Len(life))
      BY <1>1 DEF SystemInv, RowsInv
    <3>2. row[o].state = "authorized" \/ row[o].state = "executing"
      <4>1. row[o] \in ExecutionRows(Len(life), Len(ledger))
        BY <1>1, TypesAre
      <4> QED BY <2>7, <4>1 DEF ExecutionRows
    <3>3. ASSUME NEW i \in outcomes, ledger[i].of.grant = row[o].grant PROVE FALSE
      <4>1. IsEvent(ledger, i, Outcome, row[o].grant)
        BY <2>2, <3>3 DEF IsEvent
      <4>2. CASE row[o].state = "executing"
        BY <3>1, <4>1, <4>2 DEF RowGood, IsEvent
      <4>3. CASE row[o].state = "authorized"
        <5>1. PICK j \in 1..(i - 1) : IsEvent(ledger, j, Intent, ledger[i].of.grant)
          BY <2>1, <2>2 DEF EventsGood
        <5> QED BY <3>1, <3>3, <4>3, <5>1 DEF RowGood, IsEvent
      <4> QED BY <3>2, <4>2, <4>3
    <3> QED BY <3>3
  <2> QED BY <2>3, <2>4, <2>5, <2>6, <2>7 DEF OutcomeAgrees, outcomes
<1> QED BY <1>1, SystemInductive, PTL

(* Beside executions that append to its run, the lifecycle keeps its own   *)
(* promises: the projection follows the history, an operation is applied   *)
(* once and answered with its one result, and a transition is applied to   *)
(* the state its writer committed to.                                      *)
THEOREM LifecycleBesideExecutions ==
    SystemSpec => [](ActiveFollowsHistory /\ OperationAppliedOnce /\ AppliedAsAuthorized)
<1>1. SystemInv => ActiveFollowsHistory /\ OperationAppliedOnce /\ AppliedAsAuthorized
  BY DEF SystemInv, SkillInv, StoreInv, AppliedOnce, AnswersInv, OperationAppliedOnce
<1> QED BY <1>1, SystemInductive, PTL

-----------------------------------------------------------------------------
(* Locks and who waits for them *)

(* Where a caller is while it holds a lock of this kind. *)
HeldIn(kind) ==
    CASE kind = "writer" -> {"authorized", "operation", "drafted", "rebuilding"}
      [] kind = "operation" -> {"operation", "drafted", "rebuilding"}
      [] kind \in {"skill", "run"} -> {"drafted", "rebuilding"}
      [] OTHER -> {}

HoldsExecution == {"issuing", "beginning"}

CallerHolds(l) == l[1] \in Callers /\ pc[l[1]] \in HeldIn(l[2][1])
ExecutorHolds(l) ==
    l[1] \in Executors /\ l[2][1] = "execution" /\ call[l[1]].pc \in HoldsExecution

(* A lock is held by a call that is under way and past taking it. *)
HeldInv == \A l \in locks : CallerHolds(l) \/ ExecutorHolds(l)

(* A caller moves on with the locks it has and takes others. *)
LEMMA HeldMove ==
    ASSUME HeldInv, LocalTyped, NEW c \in Callers, NEW label \in PCs, NEW K,
           Goto(c, label), call' = call, locks' = locks \cup ({c} \X K),
           \A kind : pc[c] \in HeldIn(kind) => label \in HeldIn(kind),
           \A key \in K : label \in HeldIn(key[1])
    PROVE  HeldInv'
<1>1. pc'[c] = label /\ \A d \in Callers \ {c} : pc'[d] = pc[d]
  BY DEF Goto, LocalTyped
<1> SUFFICES ASSUME NEW l \in locks' PROVE CallerHolds(l)' \/ ExecutorHolds(l)'
  BY DEF HeldInv
<1>2. CASE l \in locks
  <2>1. CASE CallerHolds(l)
    BY <1>1, <2>1 DEF CallerHolds
  <2>2. CASE ExecutorHolds(l)
    BY <2>2 DEF ExecutorHolds
  <2> QED BY <1>2, <2>1, <2>2 DEF HeldInv
<1>3. CASE l \notin locks
  <2>1. l[1] = c /\ l[2] \in K
    BY <1>3
  <2> QED BY <1>1, <2>1 DEF CallerHolds
<1> QED BY <1>2, <1>3

(* A caller that leaves takes its locks with it. *)
LEMMA HeldLeave ==
    ASSUME HeldInv, LocalTyped, NEW c \in Callers, Leave(c), call' = call
    PROVE  HeldInv'
<1>1. locks' = {l \in locks : l[1] # c} /\ \A d \in Callers \ {c} : pc'[d] = pc[d]
  BY DEF Leave, Goto, ReleaseAll, LocalTyped
<1> SUFFICES ASSUME NEW l \in locks' PROVE CallerHolds(l)' \/ ExecutorHolds(l)'
  BY DEF HeldInv
<1>2. l \in locks /\ l[1] # c
  BY <1>1
<1>3. CASE CallerHolds(l)
  BY <1>1, <1>2, <1>3 DEF CallerHolds
<1>4. CASE ExecutorHolds(l)
  BY <1>4 DEF ExecutorHolds
<1> QED BY <1>2, <1>3, <1>4 DEF HeldInv

LEMMA HeldStays ==
    ASSUME HeldInv, locks' = locks, pc' = pc, call' = call
    PROVE  HeldInv'
BY DEF HeldInv, CallerHolds, ExecutorHolds

(* The kinds of locks a caller may hold by where it is. *)
LEMMA HeldKinds ==
    /\ \A kind : HeldIn(kind) \subseteq {"authorized", "operation", "drafted", "rebuilding"}
    /\ \A kind : "authorized" \in HeldIn(kind) => "operation" \in HeldIn(kind)
    /\ \A kind : "operation" \in HeldIn(kind) =>
                    "drafted" \in HeldIn(kind) /\ "rebuilding" \in HeldIn(kind)
    /\ "authorized" \in HeldIn("writer") /\ "operation" \in HeldIn("operation")
    /\ HeldIn("skill") = {"drafted", "rebuilding"} /\ HeldIn("run") = {"drafted", "rebuilding"}
    /\ HeldIn("execution") = {}
BY DEF HeldIn

LEMMA CallersHeld ==
    ASSUME SkillInv, HeldInv, LifecycleNext, call' = call
    PROVE  HeldInv'
<1> USE DEF SkillInv
<1>1. ASSUME NEW c \in Callers, NEW m \in Commands, Call(c, m) PROVE HeldInv'
  <2>1. /\ Goto(c, "lookup") /\ locks' = locks \cup ({c} \X {}) /\ pc[c] = "idle"
        /\ "lookup" \in PCs
    BY <1>1 DEF Call, PCs
  <2> QED BY <2>1, HeldKinds, HeldMove
<1>2. ASSUME NEW c \in Callers, Raise(c) \/ Answer(c) \/ Apply(c) \/ RebuildWrite(c)
      PROVE  HeldInv'
  <2>1. Leave(c)
    BY <1>2 DEF Raise, Answer, Apply, RebuildWrite
  <2> QED BY <2>1, HeldLeave
<1>3. ASSUME NEW c \in Callers, LookupMisses(c) PROVE HeldInv'
  <2>1. /\ Goto(c, "validated") /\ locks' = locks \cup ({c} \X {}) /\ pc[c] = "lookup"
        /\ "validated" \in PCs
    BY <1>3 DEF LookupMisses, PCs
  <2> QED BY <2>1, HeldKinds, HeldMove
<1>4. ASSUME NEW c \in Callers, Authorize(c) PROVE HeldInv'
  <2>1. /\ Goto(c, "authorizing") /\ locks' = locks \cup ({c} \X {}) /\ pc[c] = "validated"
        /\ "authorizing" \in PCs
    BY <1>4 DEF Authorize, PCs
  <2> QED BY <2>1, HeldKinds, HeldMove
<1>5. ASSUME NEW c \in Callers, AuthorizeLock(c) PROVE HeldInv'
  <2> DEFINE key == WriterLock(cmd[c], auth[c])
  <2>1. /\ Goto(c, "authorized") /\ locks' = locks \cup ({c} \X {key})
        /\ pc[c] = "authorizing" /\ "authorized" \in PCs
    BY <1>5 DEF AuthorizeLock, Acquire, PCs
  <2>2. \A k \in {key} : "authorized" \in HeldIn(k[1])
    BY HeldKinds DEF WriterLock
  <2>3. \A kind : pc[c] \notin HeldIn(kind)
    BY <2>1, HeldKinds
  <2> DEFINE K == {key}
  <2>4. locks' = locks \cup ({c} \X K) /\ \A k \in K : "authorized" \in HeldIn(k[1])
    BY <2>1, <2>2
  <2> HIDE DEF K
  <2> QED BY <2>1, <2>3, <2>4, HeldMove
<1>6. ASSUME NEW c \in Callers, LockOperation(c) PROVE HeldInv'
  <2> DEFINE key == OperationLock(cmd[c])
  <2>1. /\ Goto(c, "operation") /\ locks' = locks \cup ({c} \X {key})
        /\ pc[c] \in {"authorized", "validated"} /\ "operation" \in PCs
    BY <1>6 DEF LockOperation, Acquire, PCs
  <2>2. \A k \in {key} : "operation" \in HeldIn(k[1])
    BY HeldKinds DEF OperationLock
  <2>3. \A kind : pc[c] \in HeldIn(kind) => "operation" \in HeldIn(kind)
    BY <2>1, HeldKinds
  <2> DEFINE K == {key}
  <2>4. locks' = locks \cup ({c} \X K) /\ \A k \in K : "operation" \in HeldIn(k[1])
    BY <2>1, <2>2
  <2> HIDE DEF K
  <2> QED BY <2>1, <2>3, <2>4, HeldMove
<1>7. ASSUME NEW c \in Callers, Draft(c) PROVE HeldInv'
  <2> DEFINE K == {SkillLock, RunLock}
  <2>1. /\ Goto(c, "drafted") /\ locks' = locks \cup ({c} \X K)
        /\ pc[c] = "operation" /\ "drafted" \in PCs
    BY <1>7 DEF Draft, Drafting, Acquire, PCs
  <2>2. \A key \in K : key[1] \in {"skill", "run"}
    BY DEF SkillLock, RunLock
  <2> HIDE DEF K
  <2> QED BY <2>1, <2>2, HeldKinds, HeldMove
<1>8. ASSUME NEW c \in Callers, RebuildRead(c) PROVE HeldInv'
  <2> DEFINE K == {SkillLock}
  <2>1. /\ Goto(c, "rebuilding") /\ locks' = locks \cup ({c} \X K)
        /\ pc[c] = "operation" /\ "rebuilding" \in PCs
    BY <1>8 DEF RebuildRead, Acquire, PCs
  <2>2. \A key \in K : key[1] = "skill"
    BY DEF SkillLock
  <2> HIDE DEF K
  <2> QED BY <2>1, <2>2, HeldKinds, HeldMove
<1>9. ASSUME LoseProjection \/ GenericAppend \/ ForeignAppend PROVE HeldInv'
  <2>1. locks' = locks /\ pc' = pc
    BY <1>9 DEF LoseProjection, GenericAppend, ForeignAppend, AppendOther, local
  <2> QED BY <2>1, HeldStays
<1>10. ASSUME NEW c \in Callers, Step(c) \/ Abort(c) PROVE HeldInv'
  BY <1>2, <1>3, <1>4, <1>5, <1>6, <1>7, <1>8, <1>10
  DEF Step, Abort, LookupReplay, LookupConflicts, ValidationFails, DraftReplay, DraftRefused,
      ApplyRefused, RebuildReplay, RebuildRefused
<1> QED BY <1>1, <1>9, <1>10 DEF LifecycleNext

(* An executor moves on, keeping its lock while it is where it needs it. *)
LEMMA HeldCall ==
    ASSUME HeldInv, NEW x \in Executors, pc' = pc,
           \A y \in Executors \ {x} : call'[y] = call[y],
           \A l \in locks' :
              \/ l \in locks /\ l[1] # x
              \/ l \in locks /\ (call[x].pc \in HoldsExecution => call'[x].pc \in HoldsExecution)
              \/ l[1] = x /\ l[2][1] = "execution" /\ call'[x].pc \in HoldsExecution
    PROVE  HeldInv'
<1> SUFFICES ASSUME NEW l \in locks' PROVE CallerHolds(l)' \/ ExecutorHolds(l)'
  BY DEF HeldInv
<1>1. CASE l \in locks
  <2>1. CASE CallerHolds(l)
    BY <2>1 DEF CallerHolds
  <2>2. CASE ExecutorHolds(l)
    BY <2>2 DEF ExecutorHolds
  <2> QED BY <1>1, <2>1, <2>2 DEF HeldInv
<1>2. CASE l \notin locks
  BY <1>2 DEF ExecutorHolds
<1> QED BY <1>1, <1>2

LEMMA ExecutorsHeld ==
    ASSUME SystemInv, HeldInv, NEW x \in Executors,
           ExecutionCall(x) \/ ExecutionStep(x) \/ Die(x)
    PROVE  HeldInv'
<1>t. DOMAIN call = Executors /\ \A y \in Executors : DOMAIN call[y] = {"pc", "op", "grant", "head", "attempt"}
  BY DEF SystemInv, ExecutionTypeOK
<1>1. ASSUME Return(x), ReleaseAll(x), pc' = pc PROVE HeldInv'
  BY <1>t, <1>1, HeldCall DEF Return, ReleaseAll
<1>2. ASSUME End(x) PROVE HeldInv'
  BY <1>1, <1>2 DEF End, skillVars
<1>3. ASSUME call[x].pc \notin HoldsExecution, locks' = locks, pc' = pc,
             \A y \in Executors \ {x} : call'[y] = call[y]
      PROVE  HeldInv'
  BY <1>3, HeldCall
<1>4. ASSUME NEW o \in Executions, IssueResolve(x, o) PROVE HeldInv'
  BY <1>t, <1>3, <1>4 DEF IssueResolve, skillVars, HoldsExecution
<1>5. ASSUME NEW o \in Executions, Rebuild(x, o) PROVE HeldInv'
  BY <1>5, HeldStays DEF Rebuild, skillVars
<1>6. ASSUME NEW o \in Executions, NEW g \in DOMAIN life, InvokeDraft(x, o, g) PROVE HeldInv'
  BY <1>t, <1>3, <1>6 DEF InvokeDraft, skillVars, HoldsExecution
<1>7. ASSUME NEW o \in Executions, NEW g \in DOMAIN life, RecoverReplay(x, o, g) PROVE HeldInv'
  BY <1>7, HeldStays DEF RecoverReplay, skillVars
<1>8. ASSUME NEW o \in Executions, NEW g \in DOMAIN life, RecoverLookup(x, o, g) PROVE HeldInv'
  BY <1>t, <1>3, <1>8 DEF RecoverLookup, skillVars, HoldsExecution
<1>9. ASSUME IssueDraft(x) PROVE HeldInv'
  <2> DEFINE key == ExecutionLock(call[x].op)
  <2>1. /\ locks' = locks \cup ({x} \X {key}) /\ pc' = pc /\ call'[x].pc = "issuing"
        /\ \A y \in Executors \ {x} : call'[y] = call[y]
    BY <1>t, <1>9 DEF IssueDraft, Acquire, skillVars
  <2>2. key[1] = "execution"
    BY DEF ExecutionLock
  <2> HIDE DEF key
  <2> QED BY <2>1, <2>2, HeldCall DEF HoldsExecution
<1>10. ASSUME BeginLock(x) PROVE HeldInv'
  <2> DEFINE key == ExecutionLock(call[x].op)
  <2>1. /\ locks' = locks \cup ({x} \X {key}) /\ pc' = pc /\ call'[x].pc = "beginning"
        /\ \A y \in Executors \ {x} : call'[y] = call[y]
    BY <1>t, <1>10 DEF BeginLock, Acquire, skillVars
  <2>2. key[1] = "execution"
    BY DEF ExecutionLock
  <2> HIDE DEF key
  <2> QED BY <2>1, <2>2, HeldCall DEF HoldsExecution
<1>11. ASSUME IssueCommit(x) PROVE HeldInv'
  BY <1>1, <1>11 DEF IssueCommit, skillVars
<1>12. ASSUME BeginCommit(x) PROVE HeldInv'
  <2>1. /\ locks' = {l \in locks : l[1] # x} /\ pc' = pc
        /\ \A y \in Executors \ {x} : call'[y] = call[y]
    BY <1>t, <1>12 DEF BeginCommit, ReleaseAll, skillVars
  <2> QED BY <2>1, HeldCall
<1>13. ASSUME RunHandler(x) \/ RecoverDraft(x) PROVE HeldInv'
  BY <1>t, <1>3, <1>13 DEF RunHandler, RecoverDraft, skillVars, HoldsExecution
<1>14. ASSUME CompleteCommit(x) \/ RecoverCommit(x) PROVE HeldInv'
  BY <1>t, <1>3, <1>14 DEF CompleteCommit, RecoverCommit, Return, skillVars, HoldsExecution
<1>15. CASE ExecutionCall(x)
  BY <1>4, <1>5, <1>6, <1>7, <1>8, <1>15 DEF ExecutionCall
<1>16. CASE ExecutionStep(x) \/ Die(x)
  BY <1>2, <1>9, <1>10, <1>11, <1>12, <1>13, <1>14, <1>16
  DEF ExecutionStep, Die, IssueReplay, IssueRefused, BeginReplay, BeginRefused,
      CompleteRefused, RecoverLate, RecoverRefused
<1> QED BY <1>15, <1>16

(* A lock that is not free has a holder. *)
LEMMA HolderThere ==
    ASSUME HeldInv, NEW key, ~Free(key)
    PROVE  \/ \E c \in Callers : pc[c] \in HeldIn(key[1])
           \/ key[1] = "execution" /\ \E x \in Executors : call[x].pc \in HoldsExecution
BY DEF HeldInv, Free, CallerHolds, ExecutorHolds

(* The holder of the innermost lock that is held waits for nothing. *)
LEMMA InnermostGoesOn ==
    ASSUME SystemInv, HeldInv
    PROVE  NobodyStuck
<1> SUFFICES ASSUME \A c \in Working : ~AllFree(Awaited(c)),
                    \A x \in Executing : ~AllFree(ExecutionAwaits(x)),
                    Working \cup Executing # {}
             PROVE  FALSE
  BY DEF NobodyStuck
<1> DEFINE At(labels) == \E c \in Callers : pc[c] \in labels
<1> DEFINE ExecutionAt(labels) == \E x \in Executors : call[x].pc \in labels
<1>t. (\A c \in Callers : pc[c] \in PCs) /\ (\A x \in Executors : call[x].pc \in ExecutionPCs)
  BY DEF SystemInv, SkillInv, LocalTyped, ExecutionTypeOK
<1>1. ~At({"drafted", "rebuilding"})
  <2> SUFFICES ASSUME NEW c \in Callers, pc[c] \in {"drafted", "rebuilding"} PROVE FALSE
    OBVIOUS
  <2>1. c \in Working /\ Awaited(c) = {}
    BY DEF Working, Awaited
  <2> QED BY <2>1 DEF AllFree
<1>2. Free(SkillLock) /\ Free(RunLock)
  <2>1. SkillLock[1] = "skill" /\ RunLock[1] = "run"
    BY DEF SkillLock, RunLock
  <2>2. "skill" # "execution" /\ "run" # "execution"
    OBVIOUS
  <2> QED BY <1>1, <2>1, <2>2, HeldKinds, HolderThere
<1>3. ~At({"operation"}) /\ ~ExecutionAt(HoldsExecution)
  <2>1. ASSUME NEW c \in Callers, pc[c] = "operation" PROVE FALSE
    <3>1. c \in Working /\ Awaited(c) \subseteq {SkillLock, RunLock}
      BY <2>1 DEF Working, Awaited
    <3> QED BY <1>2, <3>1 DEF AllFree
  <2>2. ASSUME NEW x \in Executors, call[x].pc \in HoldsExecution PROVE FALSE
    <3>1. x \in Executing /\ ExecutionAwaits(x) = {SkillLock}
      BY <2>2 DEF Executing, ExecutionAwaits, HoldsExecution
    <3> QED BY <1>2, <3>1 DEF AllFree
  <2> QED BY <2>1, <2>2
<1>4. \A m : Free(OperationLock(m))
  <2> SUFFICES ASSUME NEW m, ~Free(OperationLock(m)) PROVE FALSE
    OBVIOUS
  <2> DEFINE key == OperationLock(m)
  <2>1. key[1] = "operation" /\ "operation" # "execution"
    BY DEF OperationLock
  <2>2. HeldIn("operation") \subseteq {"operation", "drafted", "rebuilding"}
    BY DEF HeldIn
  <2> HIDE DEF key
  <2>3. PICK c \in Callers : pc[c] \in HeldIn("operation")
    BY <2>1, HolderThere DEF key
  <2> QED BY <1>1, <1>3, <2>2, <2>3
<1>5. \A o : Free(ExecutionLock(o))
  <2> SUFFICES ASSUME NEW o, ~Free(ExecutionLock(o)) PROVE FALSE
    OBVIOUS
  <2> DEFINE key == ExecutionLock(o)
  <2>1. key[1] = "execution"
    BY DEF ExecutionLock
  <2> HIDE DEF key
  <2>2. \E x \in Executors : call[x].pc \in HoldsExecution
    BY <2>1, HeldKinds, HolderThere DEF key
  <2> QED BY <1>3, <2>2
<1>6. ~At({"authorized"})
  <2> SUFFICES ASSUME NEW c \in Callers, pc[c] = "authorized" PROVE FALSE
    OBVIOUS
  <2>1. c \in Working /\ Awaited(c) = {OperationLock(cmd[c])}
    BY DEF Working, Awaited
  <2> QED BY <1>4, <2>1 DEF AllFree
<1>7. \A m, a : Free(WriterLock(m, a))
  <2> SUFFICES ASSUME NEW m, NEW a, ~Free(WriterLock(m, a)) PROVE FALSE
    OBVIOUS
  <2> DEFINE key == WriterLock(m, a)
  <2>1. key[1] = "writer" /\ "writer" # "execution"
    BY DEF WriterLock
  <2> HIDE DEF key
  <2>2. PICK c \in Callers : pc[c] \in HeldIn("writer")
    BY <2>1, HolderThere DEF key
  <2> QED BY <1>1, <1>3, <1>6, <2>2, HeldKinds
<1>8. ASSUME NEW c \in Working PROVE AllFree(Awaited(c))
  <2>1. \A key \in Awaited(c) :
           \/ key = SkillLock \/ key = RunLock
           \/ key = OperationLock(cmd[c]) \/ key = WriterLock(cmd[c], auth[c])
    BY <1>t DEF Awaited, Working, PCs
  <2> QED BY <1>2, <1>4, <1>7, <2>1 DEF AllFree
<1>9. ASSUME NEW x \in Executing PROVE AllFree(ExecutionAwaits(x))
  <2>1. \A key \in ExecutionAwaits(x) : key = SkillLock \/ key = ExecutionLock(call[x].op)
    BY <1>t DEF ExecutionAwaits, Executing, ExecutionPCs
  <2> QED BY <1>2, <1>5, <2>1 DEF AllFree
<1> QED BY <1>8, <1>9

(* No set of lifecycle calls and executions waits for itself: lookups and  *)
(* authorizations take the operation lock before the skill and run locks,  *)
(* executions theirs before the skill lock, whatever races or dies.        *)
THEOREM SomebodyGoesOn == SystemSpec => []NobodyStuck
<1>1. SystemInit => HeldInv
  BY DEF SystemInit, Init, HeldInv
<1>2. SystemInv /\ HeldInv /\ [SystemNext]_systemVars => HeldInv'
  <2> SUFFICES ASSUME SystemInv, HeldInv, [SystemNext]_systemVars PROVE HeldInv'
    OBVIOUS
  <2>1. CASE LifecycleNext /\ UNCHANGED executionVars
    BY <2>1, CallersHeld DEF SystemInv, executionVars
  <2>2. ASSUME NEW x \in Executors, ExecutionCall(x) \/ ExecutionStep(x) \/ Die(x)
        PROVE  HeldInv'
    BY <2>2, ExecutorsHeld
  <2>3. CASE (\E o \in Executions : LoseRow(o)) \/ Tick \/ UNCHANGED systemVars
    BY <2>3, HeldStays DEF LoseRow, Tick, systemVars, skillVars, executionVars
  <2> QED BY <2>1, <2>2, <2>3 DEF SystemNext
<1>3. SystemInv /\ HeldInv => NobodyStuck
  BY InnermostGoesOn
<1> QED BY <1>1, <1>2, <1>3, SystemInductive, PTL DEF SystemSpec

-----------------------------------------------------------------------------
(* The lifecycle beside executions *)

(* No step of an executor, a lost row or a tick touches the skill. *)
LEMMA ExecutorsQuiet ==
    ASSUME \/ \E x \in Executors : ExecutionCall(x) \/ ExecutionStep(x) \/ Die(x)
           \/ \E o \in Executions : LoseRow(o)
           \/ Tick
           \/ UNCHANGED systemVars
    PROVE  UNCHANGED skillVars
<1>1. ASSUME NEW x \in Executors, ExecutionCall(x) PROVE UNCHANGED skillVars
  BY <1>1 DEF ExecutionCall, IssueResolve, Rebuild, InvokeDraft, RecoverReplay, RecoverLookup
<1>2. ASSUME NEW x \in Executors, ExecutionStep(x) PROVE UNCHANGED skillVars
  BY <1>2 DEF ExecutionStep, IssueDraft, IssueReplay, IssueCommit, IssueRefused, BeginLock,
              BeginReplay, BeginCommit, BeginRefused, RunHandler, CompleteCommit,
              CompleteRefused, RecoverDraft, RecoverCommit, RecoverLate, RecoverRefused, End
<1> QED BY <1>1, <1>2 DEF Die, End, LoseRow, Tick, systemVars

(* Beside executions, too, every lifecycle operation is atomic to its      *)
(* callers.                                                                *)
THEOREM SkillRefinementBesideExecutions == SystemSpec => ImplementsGovernedSkill
<1>1. SystemInit => Governed!Init
  BY SkillInitRefines DEF SystemInit
<1>2. SystemInv /\ SystemInv' /\ [SystemNext]_systemVars => [Governed!Next]_(Governed!vars)
  <2> SUFFICES ASSUME SystemInv, SystemInv', [SystemNext]_systemVars
               PROVE  Governed!Next \/ UNCHANGED Governed!vars
    OBVIOUS
  <2>1. CASE LifecycleNext
    BY <2>1, SkillStepRefines DEF SystemInv
  <2>2. CASE ~LifecycleNext
    <3>1. UNCHANGED skillVars
      BY <2>2, ExecutorsQuiet DEF SystemNext
    <3> QED BY <3>1, SkillQuiet DEF skillVars
  <2> QED BY <2>1, <2>2
<1> QED BY <1>1, <1>2, SystemInductive, PTL
        DEF SystemSpec, ImplementsGovernedSkill, Governed!Spec

-----------------------------------------------------------------------------
(* A completion follows a run of the handler *)

RanInv == \A x \in Executors : call[x].pc = "completing" => runs[call[x].grant] = 1

(* Nobody but the one that ran the handler comes to complete. *)
LEMMA CompletingFrame ==
    ASSUME SystemInv, NEW x \in Executors, ExecutionCall(x) \/ ExecutionStep(x) \/ Die(x),
           ~RunHandler(x)
    PROVE  \A y \in Executors : call'[y].pc = "completing" => call'[y] = call[y]
<1>1. call \in [Executors -> ExecutionCalls(Len(life), Len(ledger))]
  BY TypesAre
<1>2. ASSUME Return(x) \/ call' = call
      PROVE  \A y \in Executors : call'[y].pc = "completing" => call'[y] = call[y]
  BY <1>1, <1>2 DEF Return, Idle
<1>3. ASSUME NEW label, label # "completing", call'[x].pc = label,
             \A y \in Executors \ {x} : call'[y] = call[y]
      PROVE  \A y \in Executors : call'[y].pc = "completing" => call'[y] = call[y]
  BY <1>3
<1>4. ASSUME ExecutionCall(x)
      PROVE  \A y \in Executors : call'[y].pc = "completing" => call'[y] = call[y]
  <2>1. PICK o \in Executions :
          \/ IssueResolve(x, o)
          \/ Rebuild(x, o)
          \/ \E g \in DOMAIN life :
                InvokeDraft(x, o, g) \/ RecoverReplay(x, o, g) \/ RecoverLookup(x, o, g)
    BY <1>4 DEF ExecutionCall
  <2>2. CASE IssueResolve(x, o)
    BY <1>1, <1>3, <2>2 DEF IssueResolve, ExecutionCalls
  <2>3. CASE Rebuild(x, o)
    BY <1>2, <2>3 DEF Rebuild
  <2>4. ASSUME NEW g \in DOMAIN life, InvokeDraft(x, o, g)
        PROVE  \A y \in Executors : call'[y].pc = "completing" => call'[y] = call[y]
    BY <1>1, <1>3, <2>4 DEF InvokeDraft, ExecutionCalls
  <2>5. ASSUME NEW g \in DOMAIN life, RecoverReplay(x, o, g)
        PROVE  \A y \in Executors : call'[y].pc = "completing" => call'[y] = call[y]
    BY <1>2, <2>5 DEF RecoverReplay
  <2>6. ASSUME NEW g \in DOMAIN life, RecoverLookup(x, o, g)
        PROVE  \A y \in Executors : call'[y].pc = "completing" => call'[y] = call[y]
    BY <1>1, <1>3, <2>6 DEF RecoverLookup, ExecutionCalls
  <2> QED BY <2>1, <2>2, <2>3, <2>4, <2>5, <2>6
<1>5. ASSUME IssueReplay(x) \/ IssueCommit(x) \/ IssueRefused(x) \/ BeginReplay(x)
               \/ BeginRefused(x) \/ CompleteCommit(x) \/ CompleteRefused(x)
               \/ RecoverCommit(x) \/ RecoverLate(x) \/ RecoverRefused(x) \/ Die(x)
      PROVE  \A y \in Executors : call'[y].pc = "completing" => call'[y] = call[y]
  BY <1>2, <1>5 DEF IssueReplay, IssueCommit, IssueRefused, BeginReplay, BeginRefused,
                    CompleteCommit, CompleteRefused, RecoverCommit, RecoverLate,
                    RecoverRefused, Die, End
<1>6. CASE IssueDraft(x)
  BY <1>1, <1>3, <1>6 DEF IssueDraft, ExecutionCalls
<1>7. CASE BeginLock(x)
  BY <1>1, <1>3, <1>7 DEF BeginLock, ExecutionCalls
<1>8. CASE BeginCommit(x)
  BY <1>1, <1>3, <1>8 DEF BeginCommit, ExecutionCalls
<1>9. CASE RecoverDraft(x)
  BY <1>1, <1>3, <1>9 DEF RecoverDraft, ExecutionCalls
<1> QED BY <1>4, <1>5, <1>6, <1>7, <1>8, <1>9 DEF ExecutionStep

(* The handler's runs are kept, except for the one it adds. *)
LEMMA RunsFrame ==
    ASSUME SystemInv, NEW x \in Executors, ExecutionCall(x) \/ ExecutionStep(x) \/ Die(x),
           ~RunHandler(x)
    PROVE  runs' = runs \/ runs' = Append(runs, 0)
<1>1. ASSUME ExecutionCall(x) PROVE runs' = runs
  BY <1>1 DEF ExecutionCall, IssueResolve, Rebuild, InvokeDraft, RecoverReplay, RecoverLookup
<1>2. ASSUME ExecutionStep(x) PROVE runs' = runs \/ runs' = Append(runs, 0)
  BY <1>2 DEF ExecutionStep, IssueDraft, IssueReplay, IssueCommit, IssueRefused, BeginLock,
              BeginReplay, BeginCommit, BeginRefused, CompleteCommit,
              CompleteRefused, RecoverDraft, RecoverCommit, RecoverLate, RecoverRefused, End
<1> QED BY <1>1, <1>2 DEF Die, End

(* A call that attempts has a grant that was issued. *)
LEMMA AttemptGranted ==
    ASSUME SystemInv, NEW x \in Executors, call[x].pc \in Attempting
    PROVE  /\ IsEvent(ledger, call[x].attempt, Intent, call[x].grant)
           /\ call[x].grant \in DOMAIN runs
<1>1. IsEvent(ledger, call[x].attempt, Intent, call[x].grant)
  BY CallFields DEF CallerGood
<1>2. call[x].grant \in 1..Len(life)
  BY <1>1 DEF SystemInv, EventsInv, EventsGood, IsEvent, ExecutionKinds
<1> QED BY <1>1, <1>2, TypesAre

LEMMA RunFacts ==
    ASSUME SystemInv, NEW x \in Executors, RunHandler(x)
    PROVE  /\ call[x].grant \in DOMAIN runs /\ runs[call[x].grant] = 0
           /\ DOMAIN runs' = DOMAIN runs /\ runs'[call[x].grant] = 1
           /\ \A k \in DOMAIN runs : k # call[x].grant => runs'[k] = runs[k]
           /\ call'[x].pc = "completing" /\ call'[x].grant = call[x].grant
           /\ \A y \in Executors : y # x => call'[y] = call[y]
<1>1. call[x].pc = "running" /\ call[x].pc \in Attempting
  BY DEF RunHandler, Attempting
<1>2. call[x].grant \in DOMAIN runs /\ runs[call[x].grant] = 0
  BY <1>1, AttemptGranted DEF SystemInv, RunsInv
<1>3. call \in [Executors -> ExecutionCalls(Len(life), Len(ledger))] /\ runs \in Seq(Nat)
  BY TypesAre
<1>4. /\ runs' = [runs EXCEPT ![call[x].grant] = @ + 1]
      /\ call' = [call EXCEPT ![x].pc = "completing", ![x].head = Len(ledger)]
  BY DEF RunHandler
<1>5. /\ DOMAIN runs' = DOMAIN runs /\ runs'[call[x].grant] = 1
      /\ \A k \in DOMAIN runs : k # call[x].grant => runs'[k] = runs[k]
  BY <1>2, <1>3, <1>4
<1>6. /\ call'[x].pc = "completing" /\ call'[x].grant = call[x].grant
      /\ \A y \in Executors : y # x => call'[y] = call[y]
  BY <1>3, <1>4 DEF ExecutionCalls
<1> QED BY <1>2, <1>5, <1>6

LEMMA RanStep ==
    ASSUME SystemInv, RanInv, [SystemNext]_systemVars
    PROVE  RanInv'
<1>1. ASSUME NEW x \in Executors, RunHandler(x) PROVE RanInv'
  <2> SUFFICES ASSUME NEW y \in Executors, call'[y].pc = "completing"
               PROVE  runs'[call'[y].grant] = 1
    BY DEF RanInv
  <2>1. CASE y = x
    BY <1>1, <2>1, RunFacts
  <2>2. CASE y # x
    <3>1. call'[y] = call[y] /\ call[y].pc = "completing"
      BY <1>1, <2>2, RunFacts
    <3>2. call[y].pc \in Attempting /\ call[x].pc \in Attempting
      BY <1>1, <3>1 DEF RunHandler, Attempting
    <3>3. call[y].grant # call[x].grant
      BY <2>2, <3>2 DEF SystemInv, RunsInv
    <3>4. call[y].grant \in DOMAIN runs
      BY <3>2, AttemptGranted
    <3> QED BY <1>1, <3>1, <3>3, <3>4, RunFacts DEF RanInv
  <2> QED BY <2>1, <2>2
<1>2. ASSUME NEW x \in Executors, ExecutionCall(x) \/ ExecutionStep(x) \/ Die(x),
             ~RunHandler(x)
      PROVE  RanInv'
  <2> SUFFICES ASSUME NEW y \in Executors, call'[y].pc = "completing"
               PROVE  runs'[call'[y].grant] = 1
    BY DEF RanInv
  <2>1. call'[y] = call[y] /\ call[y].pc = "completing"
    BY <1>2, CompletingFrame
  <2>2. call[y].grant \in DOMAIN runs
    BY <2>1, AttemptGranted DEF Attempting
  <2>3. runs' = runs \/ runs' = Append(runs, 0)
    BY <1>2, RunsFrame
  <2>4. runs \in Seq(Nat) /\ 0 \in Nat
    BY TypesAre
  <2>5. runs'[call[y].grant] = runs[call[y].grant]
    <3>1. CASE runs' = Append(runs, 0)
      BY <2>2, <2>4, <3>1, AppendFacts
    <3> QED BY <2>3, <3>1
  <2> QED BY <2>1, <2>5 DEF RanInv
<1>3. ASSUME UNCHANGED <<call, runs>> PROVE RanInv'
  BY <1>3 DEF RanInv
<1>4. ASSUME UNCHANGED executionVars PROVE RanInv'
  BY <1>3, <1>4 DEF executionVars
<1>5. ASSUME UNCHANGED systemVars PROVE RanInv'
  BY <1>4, <1>5 DEF systemVars
<1>6. ASSUME NEW o \in Executions, LoseRow(o) PROVE RanInv'
  BY <1>3, <1>6 DEF LoseRow
<1>7. ASSUME Tick PROVE RanInv'
  BY <1>3, <1>7 DEF Tick
<1> QED BY <1>1, <1>2, <1>4, <1>5, <1>6, <1>7 DEF SystemNext

-----------------------------------------------------------------------------
(* Refinement of EffectOnce, one effect for each grant *)

AppliedOf(g) == IF g \in DOMAIN runs THEN runs[g] ELSE 0
ToldOf(g) == {Resolution(i) : i \in {j \in told : ledger[j].of.grant = g}}

GrantStatusBar == [g \in Grants |-> GrantStatus(g)]
GrantAppliedBar == [g \in Grants |-> AppliedOf(g)]
GrantToldBar == [g \in Grants |-> ToldOf(g)]

(* The same of any run es. *)
OutcomesOf(es, g) == {i \in DOMAIN es : es[i].kind = Outcome /\ es[i].of.grant = g}
OutcomeStatus(e) == IF e.of.outcome = "succeeded" THEN "completed" ELSE "indeterminate"
StatusOn(es, g) ==
    IF \E i \in DOMAIN es : es[i].kind = Intent /\ es[i].of.grant = g
    THEN IF OutcomesOf(es, g) = {} THEN "intended" ELSE OutcomeStatus(es[Max(OutcomesOf(es, g))])
    ELSE "absent"

LEMMA StatusOnLedger ==
    ASSUME NEW g
    PROVE  /\ GrantStatus(g) = StatusOn(ledger, g)
           /\ GrantStatus(g)' = StatusOn(ledger', g)
<1>1. GrantStatus(g) = StatusOn(ledger, g)
  BY DEF GrantStatus, StatusOn, OutcomesOf, Resolution, OutcomeStatus, Intent, Outcome
<1>2. GrantStatus(g)' = StatusOn(ledger', g)
  BY DEF GrantStatus, StatusOn, OutcomesOf, Resolution, OutcomeStatus, Intent, Outcome
<1> QED BY <1>1, <1>2

(* No intent, an intent without an outcome, or one outcome after it. *)
LEMMA StatusIs ==
    ASSUME NEW S, NEW es \in Seq(S), NEW n, EventsGood(es, n), NEW g
    PROVE  /\ (\A i : ~IsEvent(es, i, Intent, g)) => StatusOn(es, g) = "absent"
           /\ \A i : /\ IsEvent(es, i, Intent, g)
                     /\ \A k : ~IsEvent(es, k, Outcome, g)
                     => StatusOn(es, g) = "intended"
           /\ \A i : IsEvent(es, i, Outcome, g) => StatusOn(es, g) = OutcomeStatus(es[i])
<1>1. Len(es) \in Nat /\ DOMAIN es = 1..Len(es)
  BY LenProperties
<1>2. /\ OutcomesOf(es, g) \in SUBSET (1..Len(es))
      /\ \A i : i \in OutcomesOf(es, g) <=> IsEvent(es, i, Outcome, g)
  BY <1>1 DEF OutcomesOf, IsEvent
<1>3. ASSUME NEW i, IsEvent(es, i, Outcome, g)
      PROVE  /\ \E j \in 1..(i - 1) : IsEvent(es, j, Intent, g)
             /\ \A j : IsEvent(es, j, Outcome, g) => i = j
  BY <1>3 DEF EventsGood, IsEvent, ExecutionKinds
<1>4. ASSUME NEW i, IsEvent(es, i, Outcome, g) PROVE StatusOn(es, g) = OutcomeStatus(es[i])
  <2>1. OutcomesOf(es, g) = {i} /\ i \in 1..Len(es)
    BY <1>2, <1>3, <1>4
  <2>2. Max(OutcomesOf(es, g)) = i
    <3>1. i \in OutcomesOf(es, g) /\ \A y \in OutcomesOf(es, g) : i >= y
      BY <2>1
    <3> QED BY <1>1, <1>2, <3>1, MaxIs
  <2>3. \E j \in DOMAIN es : es[j].kind = Intent /\ es[j].of.grant = g
    BY <1>3, <1>4 DEF IsEvent
  <2> QED BY <2>1, <2>2, <2>3 DEF StatusOn
<1>5. ASSUME \A i : ~IsEvent(es, i, Intent, g) PROVE StatusOn(es, g) = "absent"
  BY <1>5 DEF StatusOn, IsEvent
<1>6. ASSUME NEW i, IsEvent(es, i, Intent, g), \A k : ~IsEvent(es, k, Outcome, g)
      PROVE  StatusOn(es, g) = "intended"
  BY <1>2, <1>6 DEF StatusOn, IsEvent
<1> QED BY <1>4, <1>5, <1>6

LEMMA RunGood ==
    ASSUME SystemInv
    PROVE  ledger \in Seq(Range(ledger)) /\ EventsGood(ledger, Len(life))
BY LedgerSeq DEF SystemInv, SkillInv, EventsInv

LEMMA RunGoodNext ==
    ASSUME SystemInv'
    PROVE  ledger' \in Seq(Range(ledger')) /\ EventsGood(ledger', Len(life'))
BY DEF SystemInv, SkillInv, LedgerInv, EventsInv

(* An event that is neither intent nor outcome of g leaves its status. *)
LEMMA StatusKept ==
    ASSUME SystemInv, SystemInv', NEW g,
           \/ ledger' = ledger
           \/ \E e : /\ ledger' = Append(ledger, e)
                     /\ e.kind \in {Intent, Outcome} => e.of.grant # g
    PROVE  GrantStatus(g)' = GrantStatus(g)
<1> SUFFICES StatusOn(ledger', g) = StatusOn(ledger, g)
  BY StatusOnLedger
<1>1. CASE ledger' = ledger
  BY <1>1
<1>2. CASE \E e : /\ ledger' = Append(ledger, e)
                  /\ e.kind \in {Intent, Outcome} => e.of.grant # g
  <2>1. PICK e : /\ ledger' = Append(ledger, e)
                 /\ e.kind \in {Intent, Outcome} => e.of.grant # g
    BY <1>2
  <2>2. /\ \A kind \in {Intent, Outcome} : \A i :
              IsEvent(ledger', i, kind, g) <=> IsEvent(ledger, i, kind, g)
        /\ \A i \in DOMAIN ledger : ledger'[i] = ledger[i]
    BY <2>1, LedgerAppend, TypesAre
  <2>3. CASE \A i : ~IsEvent(ledger, i, Intent, g)
    BY <2>2, <2>3, RunGood, RunGoodNext, StatusIs
  <2>4. CASE \E i : IsEvent(ledger, i, Intent, g) /\ \A k : ~IsEvent(ledger, k, Outcome, g)
    BY <2>2, <2>4, RunGood, RunGoodNext, StatusIs
  <2>5. CASE \E i : IsEvent(ledger, i, Outcome, g)
    <3>1. PICK i : IsEvent(ledger, i, Outcome, g)
      BY <2>5
    <3>2. IsEvent(ledger', i, Outcome, g) /\ ledger'[i] = ledger[i]
      BY <2>2, <3>1 DEF IsEvent
    <3> QED BY <3>1, <3>2, RunGood, RunGoodNext, StatusIs
  <2> QED BY <2>3, <2>4, <2>5
<1> QED BY <1>1, <1>2

(* What callers were told does not depend on later events. *)
LEMMA ToldKept ==
    ASSUME SystemInv, NEW g, \A i \in DOMAIN ledger : ledger'[i] = ledger[i]
    PROVE  /\ told' = told => ToldOf(g)' = ToldOf(g)
           /\ \A i : told' = told \cup {i} =>
                ToldOf(g)' = ToldOf(g) \cup
                               (IF ledger'[i].of.grant = g THEN {Resolution(i)'} ELSE {})
<1>1. \A i \in told : ledger'[i] = ledger[i]
  BY TypesAre
<1>2. \A i \in told : Resolution(i)' = Resolution(i)
  BY <1>1 DEF Resolution
<1>3. ASSUME told' = told PROVE ToldOf(g)' = ToldOf(g)
  BY <1>1, <1>2, <1>3 DEF ToldOf
<1>4. ASSUME NEW i, told' = told \cup {i}
      PROVE  ToldOf(g)' = ToldOf(g) \cup
                            (IF ledger'[i].of.grant = g THEN {Resolution(i)'} ELSE {})
  BY <1>1, <1>2, <1>4 DEF ToldOf
<1> QED BY <1>3, <1>4

(* A step in which nothing happens to any grant. *)
LEMMA GrantsQuiet ==
    ASSUME SystemInv, SystemInv',
           \/ ledger' = ledger
           \/ \E e : e.kind \notin {Intent, Outcome} /\ ledger' = Append(ledger, e),
           runs' = runs \/ runs' = Append(runs, 0),
           told' = told
    PROVE  UNCHANGED Handled!vars
<1>1. \A i \in DOMAIN ledger : ledger'[i] = ledger[i]
  BY LedgerAppend, TypesAre
<1>2. \A g : GrantStatus(g)' = GrantStatus(g) /\ ToldOf(g)' = ToldOf(g)
  BY <1>1, StatusKept, ToldKept
<1>3. \A g : AppliedOf(g)' = AppliedOf(g)
  <2>1. CASE runs' = Append(runs, 0)
    <3>1. /\ DOMAIN runs = 1..Len(runs) /\ DOMAIN runs' = 1..(Len(runs) + 1)
          /\ \A i \in DOMAIN runs : runs'[i] = runs[i]
          /\ runs'[Len(runs) + 1] = 0 /\ Len(runs) \in Nat
      BY <2>1, AppendFacts, TypesAre
    <3> QED BY <3>1 DEF AppliedOf
  <2> QED BY <2>1 DEF AppliedOf
<1>4. /\ GrantStatusBar' = GrantStatusBar /\ GrantAppliedBar' = GrantAppliedBar
      /\ GrantToldBar' = GrantToldBar
  BY <1>2, <1>3 DEF GrantStatusBar, GrantAppliedBar, GrantToldBar
<1> QED BY <1>4 DEF Handled!vars, GrantStatusBar, GrantAppliedBar, GrantToldBar, AppliedOf, ToldOf

(* The bars change at one grant, if at all. *)
LEMMA BarAt ==
    ASSUME NEW g0 \in Grants, NEW v,
           GrantStatus(g0)' = v,
           \A g \in Grants \ {g0} : GrantStatus(g)' = GrantStatus(g)
    PROVE  GrantStatusBar' = [GrantStatusBar EXCEPT ![g0] = v]
<1>1. GrantStatusBar'[g0] = v /\ \A g \in Grants \ {g0} : GrantStatusBar'[g] = GrantStatusBar[g]
  BY DEF GrantStatusBar
<1>2. /\ GrantStatusBar = [g \in Grants |-> GrantStatusBar[g]]
      /\ GrantStatusBar' = [g \in Grants |-> GrantStatusBar'[g]]
  BY DEF GrantStatusBar
<1> QED BY <1>1, <1>2

LEMMA ToldBarAt ==
    ASSUME NEW g0 \in Grants, NEW v,
           ToldOf(g0)' = ToldOf(g0) \cup {v},
           \A g \in Grants \ {g0} : ToldOf(g)' = ToldOf(g)
    PROVE  GrantToldBar' = [GrantToldBar EXCEPT ![g0] = @ \cup {v}]
<1>1. /\ GrantToldBar'[g0] = GrantToldBar[g0] \cup {v}
      /\ \A g \in Grants \ {g0} : GrantToldBar'[g] = GrantToldBar[g]
  BY DEF GrantToldBar
<1>2. /\ GrantToldBar = [g \in Grants |-> GrantToldBar[g]]
      /\ GrantToldBar' = [g \in Grants |-> GrantToldBar'[g]]
  BY DEF GrantToldBar
<1> QED BY <1>1, <1>2

LEMMA AppliedBarSame ==
    ASSUME runs' = runs
    PROVE  GrantAppliedBar' = GrantAppliedBar
BY DEF GrantAppliedBar, AppliedOf

(* No grant that is compared is concerned. *)
LEMMA BarsSame ==
    ASSUME \A g \in Grants : /\ GrantStatus(g)' = GrantStatus(g)
                             /\ AppliedOf(g)' = AppliedOf(g) /\ ToldOf(g)' = ToldOf(g)
    PROVE  UNCHANGED Handled!vars
<1>1. /\ GrantStatusBar' = GrantStatusBar /\ GrantAppliedBar' = GrantAppliedBar
      /\ GrantToldBar' = GrantToldBar
  BY DEF GrantStatusBar, GrantAppliedBar, GrantToldBar
<1> QED BY <1>1 DEF Handled!vars, GrantStatusBar, GrantAppliedBar, GrantToldBar, AppliedOf, ToldOf

(* A consumed grant is intended. *)
LEMMA BeginRefines ==
    ASSUME SystemInv, SystemInv', NEW x \in Executors, BeginCommit(x)
    PROVE  Handled!Next \/ UNCHANGED Handled!vars
<1>1. PICK g : g = call[x].grant
  OBVIOUS
<1>2. PICK e : e = [kind |-> Intent, sequence |-> call[x].head,
                    of |-> [op |-> call[x].op, grant |-> g, outcome |-> None]]
  OBVIOUS
<1>3. /\ ledger' = Append(ledger, e) /\ runs' = runs /\ told' = told
      /\ row[call[x].op].state = "authorized" /\ row[call[x].op].grant = g
      /\ call[x].pc = "beginning"
  BY <1>1, <1>2 DEF BeginCommit, Beginning, Record, Consumable, Intent
<1>4. e.kind = Intent /\ e.of.grant = g
  BY <1>2
<1>5. call[x].op \in Executions
  BY <1>3, CallFields DEF CallerGood
<1>6. \A i : ~IsEvent(ledger, i, Intent, g)
  BY <1>3, <1>5, RowFacts DEF RowGood, IsEvent
<1>7. \A i : ~IsEvent(ledger, i, Outcome, g)
  BY <1>6, RunGood DEF EventsGood, IsEvent
<1>8. /\ \A i \in DOMAIN ledger : ledger'[i] = ledger[i]
      /\ IsEvent(ledger', Len(ledger) + 1, Intent, g)
      /\ \A i : ~IsEvent(ledger', i, Outcome, g)
  <2>1. /\ \A i \in DOMAIN ledger : ledger'[i] = ledger[i]
        /\ \A i, kind, k :
              IsEvent(ledger', i, kind, k) <=>
                 \/ IsEvent(ledger, i, kind, k)
                 \/ i = Len(ledger) + 1 /\ e.kind = kind /\ e.of.grant = k
    BY <1>3, LedgerAppend, TypesAre
  <2>2. Intent # Outcome
    BY DEF Intent, Outcome
  <2> QED BY <1>4, <1>7, <2>1, <2>2
<1>9. GrantStatus(g) = "absent" /\ GrantStatus(g)' = "intended"
  <2>1. StatusOn(ledger, g) = "absent"
    BY <1>6, RunGood, StatusIs
  <2>2. StatusOn(ledger', g) = "intended"
    BY <1>8, RunGoodNext, StatusIs
  <2> QED BY <2>1, <2>2, StatusOnLedger
<1>10. \A k : k # g => GrantStatus(k)' = GrantStatus(k)
  BY <1>3, <1>4, StatusKept
<1>11. \A k : ToldOf(k)' = ToldOf(k) /\ AppliedOf(k)' = AppliedOf(k)
  BY <1>3, <1>8, ToldKept DEF AppliedOf
<1>12. CASE g \notin Grants
  BY <1>10, <1>11, <1>12, BarsSame
<1>13. CASE g \in Grants
  <2>1. GrantStatusBar[g] = "absent" /\ GrantStatusBar' = [GrantStatusBar EXCEPT ![g] = "intended"]
    <3>1. GrantStatusBar[g] = "absent"
      BY <1>9, <1>13 DEF GrantStatusBar
    <3> QED BY <1>9, <1>10, <1>13, <3>1, BarAt
  <2>2. GrantAppliedBar' = GrantAppliedBar /\ GrantToldBar' = GrantToldBar
    BY <1>11 DEF GrantAppliedBar, GrantToldBar
  <2>3. Handled!Intend(g)
    BY <2>1, <2>2 DEF Handled!Intend, GrantStatusBar, GrantAppliedBar, GrantToldBar,
                      AppliedOf, ToldOf
  <2> QED BY <1>13, <2>3 DEF Handled!Next
<1> QED BY <1>12, <1>13

(* The handler is the effect. *)
LEMMA RunRefines ==
    ASSUME SystemInv, SystemInv', NEW x \in Executors, RunHandler(x)
    PROVE  Handled!Next \/ UNCHANGED Handled!vars
<1>1. PICK g : g = call[x].grant
  OBVIOUS
<1>2. /\ g \in DOMAIN runs /\ runs[g] = 0 /\ DOMAIN runs' = DOMAIN runs /\ runs'[g] = 1
      /\ \A k \in DOMAIN runs : k # g => runs'[k] = runs[k]
  BY <1>1, RunFacts
<1>3. ledger' = ledger /\ told' = told /\ call[x].pc \in Attempting
  BY DEF RunHandler, Attempting
<1>4. \A k : GrantStatus(k)' = GrantStatus(k) /\ ToldOf(k)' = ToldOf(k)
  BY <1>3, StatusKept, ToldKept
<1>5. AppliedOf(g) = 0 /\ AppliedOf(g)' = 1 /\ \A k : k # g => AppliedOf(k)' = AppliedOf(k)
  BY <1>2 DEF AppliedOf
<1>6. GrantStatus(g) # "absent"
  <2>1. PICK i : IsEvent(ledger, i, Intent, g)
    BY <1>1, <1>3, AttemptGranted
  <2>2. CASE \E k : IsEvent(ledger, k, Outcome, g)
    <3>1. PICK k : IsEvent(ledger, k, Outcome, g)
      BY <2>2
    <3>2. StatusOn(ledger, g) = OutcomeStatus(ledger[k])
      BY <3>1, RunGood, StatusIs
    <3> QED BY <3>2, StatusOnLedger DEF OutcomeStatus
  <2>3. CASE \A k : ~IsEvent(ledger, k, Outcome, g)
    <3>1. StatusOn(ledger, g) = "intended"
      BY <2>1, <2>3, RunGood, StatusIs
    <3> QED BY <3>1, StatusOnLedger
  <2> QED BY <2>2, <2>3
<1>7. CASE g \notin Grants
  BY <1>4, <1>5, <1>7, BarsSame
<1>8. CASE g \in Grants
  <2>1. GrantStatusBar' = GrantStatusBar /\ GrantToldBar' = GrantToldBar
    BY <1>4 DEF GrantStatusBar, GrantToldBar
  <2>2. GrantStatusBar[g] # "absent" /\ GrantAppliedBar[g] = 0
    BY <1>5, <1>6, <1>8 DEF GrantStatusBar, GrantAppliedBar
  <2>3. GrantAppliedBar' = [GrantAppliedBar EXCEPT ![g] = 1]
    <3>1. /\ GrantAppliedBar'[g] = 1
          /\ \A k \in Grants \ {g} : GrantAppliedBar'[k] = GrantAppliedBar[k]
      BY <1>5, <1>8 DEF GrantAppliedBar
    <3>2. /\ GrantAppliedBar = [k \in Grants |-> GrantAppliedBar[k]]
          /\ GrantAppliedBar' = [k \in Grants |-> GrantAppliedBar'[k]]
      BY DEF GrantAppliedBar
    <3> QED BY <3>1, <3>2
  <2>4. Handled!Apply(g)
    BY <2>1, <2>2, <2>3 DEF Handled!Apply, GrantStatusBar, GrantAppliedBar, GrantToldBar,
                            AppliedOf, ToldOf
  <2> QED BY <1>8, <2>4 DEF Handled!Next
<1> QED BY <1>7, <1>8

(* The one outcome of a grant resolves its effect. *)
LEMMA EndRefines ==
    ASSUME SystemInv, SystemInv', NEW x \in Executors, NEW o \in Executions, NEW g,
           NEW outcome \in {"succeeded", "indeterminate"},
           row[o].state = "executing", row[o].grant = g,
           Record(x, Outcome, g, outcome), Tell(Len(ledger) + 1), runs' = runs,
           outcome = "succeeded" => g \in DOMAIN runs /\ runs[g] = 1
    PROVE  Handled!Next \/ UNCHANGED Handled!vars
<1>1. PICK i : i = Len(ledger) + 1
  OBVIOUS
<1>2. PICK e : e = [kind |-> Outcome, sequence |-> call[x].head,
                    of |-> [op |-> call[x].op, grant |-> g, outcome |-> outcome]]
  OBVIOUS
<1>3. ledger' = Append(ledger, e) /\ told' = told \cup {i}
  BY <1>1, <1>2 DEF Record, Tell
<1>4. e.kind = Outcome /\ e.of.grant = g /\ e.of.outcome = outcome /\ Outcome # Intent
  BY <1>2 DEF Outcome, Intent
<1>5. IsEvent(ledger, row[o].attempt, Intent, g) /\ \A k : ~IsEvent(ledger, k, Outcome, g)
  BY RowFacts DEF RowGood, IsEvent
<1>6. /\ \A k \in DOMAIN ledger : ledger'[k] = ledger[k]
      /\ IsEvent(ledger', i, Outcome, g) /\ ledger'[i] = e
  BY <1>1, <1>3, <1>4, LedgerAppend, TypesAre
<1> DEFINE res == OutcomeStatus(e)
<1>7. GrantStatus(g) = "intended" /\ GrantStatus(g)' = res
  <2>1. StatusOn(ledger, g) = "intended"
    BY <1>5, RunGood, StatusIs
  <2>2. StatusOn(ledger', g) = OutcomeStatus(ledger'[i])
    BY <1>6, RunGoodNext, StatusIs
  <2> QED BY <1>6, <2>1, <2>2, StatusOnLedger
<1>8. /\ res \in {"completed", "indeterminate"} /\ Resolution(i)' = res
      /\ res = "completed" => outcome = "succeeded"
  BY <1>4, <1>6 DEF OutcomeStatus, Resolution, Intent
<1> HIDE DEF res
<1>9. \A k : k # g => GrantStatus(k)' = GrantStatus(k)
  BY <1>3, <1>4, StatusKept
<1>10. \A k : ToldOf(k)' = ToldOf(k) \cup (IF k = g THEN {res} ELSE {})
  <2>1. ledger'[i].of.grant = g
    BY <1>4, <1>6
  <2> QED BY <1>3, <1>6, <1>8, <2>1, ToldKept
<1>11. \A k : AppliedOf(k)' = AppliedOf(k)
  BY DEF AppliedOf
<1>12. CASE g \notin Grants
  <2>1. \A k \in Grants : k # g /\ ToldOf(k)' = ToldOf(k)
    BY <1>10, <1>12
  <2> QED BY <1>9, <1>11, <2>1, BarsSame
<1>13. CASE g \in Grants
  <2>1. GrantStatusBar[g] = "intended" /\ GrantStatusBar' = [GrantStatusBar EXCEPT ![g] = res]
    <3>1. GrantStatusBar[g] = "intended"
      BY <1>7, <1>13 DEF GrantStatusBar
    <3> QED BY <1>7, <1>9, <1>13, <3>1, BarAt
  <2>2. GrantToldBar' = [GrantToldBar EXCEPT ![g] = @ \cup {res}]
    <3>1. ToldOf(g)' = ToldOf(g) \cup {res} /\ \A k \in Grants \ {g} : ToldOf(k)' = ToldOf(k)
      BY <1>10
    <3> QED BY <1>13, <3>1, ToldBarAt
  <2>3. GrantAppliedBar' = GrantAppliedBar
    BY AppliedBarSame
  <2>4. res = "completed" => GrantAppliedBar[g] = 1
    BY <1>8, <1>13 DEF GrantAppliedBar, AppliedOf
  <2>5. Handled!Resolve(g, res)
    BY <2>1, <2>2, <2>3, <2>4 DEF Handled!Resolve, GrantStatusBar, GrantAppliedBar,
                                  GrantToldBar, AppliedOf, ToldOf
  <2> QED BY <1>8, <1>13, <2>5 DEF Handled!Next, Handled!Resolutions
<1> QED BY <1>12, <1>13

(* Whoever is told an outcome is told the one on record. *)
LEMMA TellRefines ==
    ASSUME SystemInv, SystemInv', NEW o \in Executions, row[o].state \in Terminal,
           Tell(row[o].outcome), ledger' = ledger, runs' = runs
    PROVE  Handled!Next \/ UNCHANGED Handled!vars
<1>1. PICK i : i = row[o].outcome
  OBVIOUS
<1>2. PICK g : g = row[o].grant
  OBVIOUS
<1>3. told' = told \cup {i}
  BY <1>1 DEF Tell
<1>4. IsEvent(ledger, i, Outcome, g) /\ Intent # Outcome
  BY <1>1, <1>2, RowFacts DEF RowGood, Terminal, Intent, Outcome
<1>5. GrantStatus(g) = OutcomeStatus(ledger[i])
  <2>1. StatusOn(ledger, g) = OutcomeStatus(ledger[i])
    BY <1>4, RunGood, StatusIs
  <2> QED BY <2>1, StatusOnLedger
<1>6. /\ ledger'[i].of.grant = g /\ Resolution(i)' = GrantStatus(g)
      /\ GrantStatus(g) \in {"completed", "indeterminate"}
  BY <1>4, <1>5 DEF IsEvent, Resolution, OutcomeStatus, Intent
<1>7. \A k : /\ GrantStatus(k)' = GrantStatus(k) /\ AppliedOf(k)' = AppliedOf(k)
             /\ ToldOf(k)' = ToldOf(k) \cup (IF k = g THEN {GrantStatus(g)} ELSE {})
  BY <1>3, <1>6, StatusKept, ToldKept DEF AppliedOf
<1>8. CASE g \notin Grants
  <2>1. \A k \in Grants : k # g /\ ToldOf(k)' = ToldOf(k)
    BY <1>7, <1>8
  <2> QED BY <1>7, <2>1, BarsSame
<1>9. CASE g \in Grants
  <2>1. GrantStatusBar' = GrantStatusBar /\ GrantAppliedBar' = GrantAppliedBar
    BY <1>7 DEF GrantStatusBar, GrantAppliedBar
  <2>2. GrantStatusBar[g] = GrantStatus(g)
    BY <1>9 DEF GrantStatusBar
  <2>3. GrantToldBar' = [GrantToldBar EXCEPT ![g] = @ \cup {GrantStatus(g)}]
    <3>1. /\ ToldOf(g)' = ToldOf(g) \cup {GrantStatus(g)}
          /\ \A k \in Grants \ {g} : ToldOf(k)' = ToldOf(k)
      BY <1>7
    <3> QED BY <1>9, <3>1, ToldBarAt
  <2>4. Handled!Report(g)
    BY <1>6, <2>1, <2>2, <2>3
       DEF Handled!Report, Handled!Resolutions, GrantStatusBar, GrantAppliedBar, GrantToldBar,
           AppliedOf, ToldOf
  <2> QED BY <1>9, <2>4 DEF Handled!Next
<1> QED BY <1>8, <1>9

(* Every step of an executor is an abstract step or a stuttering step. *)
LEMMA ExecutorRefines ==
    ASSUME SystemInv, SystemInv', RanInv, NEW x \in Executors,
           ExecutionCall(x) \/ ExecutionStep(x) \/ Die(x)
    PROVE  Handled!Next \/ UNCHANGED Handled!vars
<1>q. ASSUME ledger' = ledger, runs' = runs, told' = told PROVE UNCHANGED Handled!vars
  BY <1>q, GrantsQuiet
<1>1. CASE ExecutionCall(x)
  <2>1. PICK o \in Executions :
          \/ IssueResolve(x, o)
          \/ Rebuild(x, o)
          \/ \E g \in DOMAIN life :
                InvokeDraft(x, o, g) \/ RecoverReplay(x, o, g) \/ RecoverLookup(x, o, g)
    BY <1>1 DEF ExecutionCall
  <2>2. ASSUME NEW g \in DOMAIN life, RecoverReplay(x, o, g)
        PROVE  Handled!Next \/ UNCHANGED Handled!vars
    BY <2>2, TellRefines DEF RecoverReplay
  <2>3. ASSUME NEW g \in DOMAIN life, InvokeDraft(x, o, g) \/ RecoverLookup(x, o, g)
        PROVE  UNCHANGED Handled!vars
    BY <1>q, <2>3 DEF InvokeDraft, RecoverLookup
  <2>4. ASSUME IssueResolve(x, o) \/ Rebuild(x, o) PROVE UNCHANGED Handled!vars
    BY <1>q, <2>4 DEF IssueResolve, Rebuild
  <2> QED BY <2>1, <2>2, <2>3, <2>4
<1>2. CASE IssueDraft(x) \/ IssueReplay(x) \/ IssueRefused(x) \/ BeginLock(x) \/ BeginRefused(x)
             \/ CompleteRefused(x) \/ RecoverDraft(x) \/ RecoverRefused(x) \/ Die(x)
  BY <1>q, <1>2 DEF IssueDraft, IssueReplay, IssueRefused, BeginLock, BeginRefused,
                    CompleteRefused, RecoverDraft, RecoverRefused, Die, End
<1>3. CASE IssueCommit(x)
  <2>1. PICK e : e = [kind |-> Issuance, sequence |-> call[x].head,
                      of |-> [op |-> call[x].op, grant |-> Len(life) + 1, outcome |-> None]]
    OBVIOUS
  <2>2. /\ ledger' = Append(ledger, e) /\ runs' = Append(runs, 0) /\ told' = told
    BY <1>3, <2>1 DEF IssueCommit, Record, Issuance
  <2>3. e.kind \notin {Intent, Outcome}
    BY <2>1 DEF Issuance, Intent, Outcome
  <2> QED BY <2>2, <2>3, GrantsQuiet
<1>4. CASE BeginCommit(x)
  BY <1>4, BeginRefines
<1>5. CASE RunHandler(x)
  BY <1>5, RunRefines
<1>6. CASE CompleteCommit(x)
  <2>1. PICK o : o = call[x].op
    OBVIOUS
  <2>2. PICK g : g = call[x].grant
    OBVIOUS
  <2>3. /\ call[x].pc = "completing" /\ Record(x, Outcome, g, "succeeded")
        /\ Tell(Len(ledger) + 1) /\ runs' = runs
        /\ row[o].state = "executing" /\ row[o].attempt = call[x].attempt
    BY <1>6, <2>1, <2>2 DEF CompleteCommit, CompleteMatches, Outcome
  <2>4. /\ o \in Executions /\ IsEvent(ledger, call[x].attempt, Intent, g)
        /\ g \in DOMAIN runs /\ runs[g] = 1
    <3>1. call[x].pc \in Attempting
      BY <2>3 DEF Attempting
    <3> QED BY <2>1, <2>2, <2>3, <3>1, AttemptGranted, CallFields DEF CallerGood, RanInv
  <2>5. row[o].grant = g
    <3>1. IsEvent(ledger, row[o].attempt, Intent, row[o].grant)
      BY <2>3, <2>4, RowFacts DEF RowGood
    <3> QED BY <2>3, <2>4, <3>1 DEF IsEvent
  <2> QED BY <2>3, <2>4, <2>5, EndRefines
<1>7. CASE RecoverCommit(x)
  <2>1. PICK o : o = call[x].op
    OBVIOUS
  <2>2. /\ call[x].pc = "recovering" /\ Record(x, Outcome, row[o].grant, "indeterminate")
        /\ Tell(Len(ledger) + 1) /\ runs' = runs /\ row[o].state = "executing"
    BY <1>7, <2>1 DEF RecoverCommit, RecoverMatches, Outcome
  <2>3. o \in Executions
    BY <2>1, <2>2, CallFields DEF CallerGood
  <2> QED BY <2>2, <2>3, EndRefines
<1>8. CASE BeginReplay(x) \/ RecoverLate(x)
  <2>1. PICK o : o = call[x].op
    OBVIOUS
  <2>2. /\ call[x].pc # "idle" /\ row[o].state \in Terminal /\ Tell(row[o].outcome)
        /\ ledger' = ledger /\ runs' = runs
    BY <1>8, <2>1 DEF BeginReplay, Beginning, Replayable, RecoverLate, End
  <2>3. o \in Executions
    BY <2>1, <2>2, CallFields DEF CallerGood
  <2> QED BY <2>2, <2>3, TellRefines
<1> QED BY <1>1, <1>2, <1>3, <1>4, <1>5, <1>6, <1>7, <1>8 DEF ExecutionStep

LEMMA SystemStepRefines ==
    ASSUME SystemInv, SystemInv', RanInv, [SystemNext]_systemVars
    PROVE  Handled!Next \/ UNCHANGED Handled!vars
<1>1. ASSUME LifecycleNext, UNCHANGED executionVars PROVE UNCHANGED Handled!vars
  <2>1. \/ ledger' = ledger
        \/ \E e : e.kind \notin ExecutionKinds /\ ledger' = Append(ledger, e)
    BY <1>1, LifecycleFrame DEF SystemInv
  <2>2. \/ ledger' = ledger
        \/ \E e : e.kind \notin {Intent, Outcome} /\ ledger' = Append(ledger, e)
    BY <2>1 DEF ExecutionKinds
  <2>3. runs' = runs /\ told' = told
    BY <1>1 DEF executionVars
  <2> QED BY <2>2, <2>3, GrantsQuiet
<1>2. ASSUME NEW x \in Executors, ExecutionCall(x) \/ ExecutionStep(x) \/ Die(x)
      PROVE  Handled!Next \/ UNCHANGED Handled!vars
  BY <1>2, ExecutorRefines
<1>3. ASSUME NEW o \in Executions, LoseRow(o) PROVE UNCHANGED Handled!vars
  BY <1>3, GrantsQuiet DEF LoseRow
<1>4. ASSUME Tick PROVE UNCHANGED Handled!vars
  BY <1>4, GrantsQuiet DEF Tick
<1>5. ASSUME UNCHANGED systemVars PROVE UNCHANGED Handled!vars
  BY <1>5, GrantsQuiet DEF systemVars, executionVars
<1> QED BY <1>1, <1>2, <1>3, <1>4, <1>5 DEF SystemNext

(* Under any grant the handler is an effect of the kind the two brokers    *)
(* perform: intended first, performed once at most, resolved once, and     *)
(* "completed" only after the handler ran (invoke, recover and rebuild of  *)
(* persistence/execution.py).                                              *)
THEOREM HandlerRefinement == SystemSpec => HandlerImplementsEffectOnce
<1>1. SystemInit => Handled!Init /\ RanInv
  <2> SUFFICES ASSUME SystemInit PROVE Handled!Init /\ RanInv
    OBVIOUS
  <2>1. /\ ledger = <<>> /\ runs = <<>> /\ told = {} /\ call = [x \in Executors |-> Idle]
        /\ DOMAIN ledger = {} /\ DOMAIN runs = {}
    BY DEF SystemInit, Init
  <2>2. \A g : GrantStatus(g) = "absent" /\ AppliedOf(g) = 0 /\ ToldOf(g) = {}
    BY <2>1 DEF GrantStatus, AppliedOf, ToldOf
  <2>3. Handled!Init
    BY <2>2 DEF Handled!Init, AppliedOf, ToldOf
  <2>4. RanInv
    BY <2>1 DEF RanInv, Idle
  <2> QED BY <2>3, <2>4
<1>2. SystemInv /\ RanInv /\ [SystemNext]_systemVars => RanInv'
  BY RanStep
<1>3. SystemInv /\ SystemInv' /\ RanInv /\ [SystemNext]_systemVars
        => [Handled!Next]_(Handled!vars)
  BY SystemStepRefines
<1> QED BY <1>1, <1>2, <1>3, SystemInductive, PTL
        DEF SystemSpec, HandlerImplementsEffectOnce, Handled!Spec

===============================================================================
