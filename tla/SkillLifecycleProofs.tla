------------------------- MODULE SkillLifecycleProofs -------------------------
(***************************************************************************)
(* Proofs about SkillLifecycle for every set of callers and of commands.   *)
(*                                                                         *)
(* What makes the properties inductive: only the holder of the skill lock  *)
(* drafts or rebuilds, so there is one such caller at a time, and what it  *)
(* read under the lock (the authorized state, the length of the history,   *)
(* the absence of its operation) still holds when it writes; and every     *)
(* transition is of an installed revision with the digest of its command,  *)
(* so that the result computed from the history for a retry is the result  *)
(* the first call returned.                                                *)
(***************************************************************************)
EXTENDS SkillLifecycle, TLAPS, SequenceTheorems, WellFoundedInduction

Transitions == [cmd : Commands, to : States, auth : Authorizations, event : DOMAIN ledger]

(* The run is a sequence, whoever appended to it. *)
LedgerInv ==
    /\ ledger \in Seq(Range(ledger))
    /\ \A i \in DOMAIN ledger : ledger[i].sequence = i - 1

StoreTyped ==
    /\ artifacts \in Seq(DigestSet)
    /\ transitions \in Seq(Transitions)
    /\ active = NoSkill \/ /\ active.revision \in DOMAIN artifacts
                           /\ active.digest = artifacts[active.revision]
                           /\ active.sequence \in DOMAIN transitions
    /\ rebuilds \subseteq [cmd : Commands, result : Results]
    /\ lost \in BOOLEAN

LocalTyped ==
    /\ pc \in [Callers -> PCs]
    /\ cmd \in [Callers -> Commands \cup {None}]
    /\ auth \in [Callers -> Authorizations \cup {None}]
    /\ seen \in [Callers -> Nat]

(* A transition is of a revision that is installed with the command's own  *)
(* digest.                                                                 *)
TransitionGood(t) ==
    /\ t.cmd.operation # "rebuild"
    /\ t.to = ToState(t.cmd)
    /\ t.cmd.target \in DOMAIN artifacts
    /\ artifacts[t.cmd.target] = t.cmd.digest

HistoryInv == \A i \in DOMAIN transitions : TransitionGood(transitions[i])

(* No two transitions, and no two rebuilds, share an operation identifier, *)
(* and only rebuilds are journaled as such.                                *)
AppliedOnce ==
    /\ \A i, j \in DOMAIN transitions :
          transitions[i].cmd.id = transitions[j].cmd.id => i = j
    /\ \A e, f \in rebuilds : e.cmd.id = f.cmd.id => e = f
    /\ \A e \in rebuilds : e.cmd.operation = "rebuild"

AnswersInv ==
    /\ answers \in [Commands -> SUBSET Results]
    /\ \A m \in Commands : answers[m] \subseteq {e.result : e \in Exact(m)}

(* The calls that read under the skill lock and have not written yet. *)
Critical(c) == pc[c] \in {"drafted", "rebuilding"}

CallGood(c) ==
    /\ pc[c] # "idle" => cmd[c] \in Commands
    /\ pc[c] \in {"authorizing", "authorized"} => cmd[c].operation # "rebuild"
    /\ Critical(c) => <<c, SkillLock>> \in locks /\ Stored(cmd[c]) = {}
    /\ pc[c] = "drafted" => /\ cmd[c].operation # "rebuild"
                            /\ auth[c] = CurrentAuthorization
    /\ pc[c] = "rebuilding" => /\ cmd[c].operation = "rebuild"
                               /\ cmd[c].expected = Len(artifacts)
                               /\ seen[c] = Len(transitions)
                               /\ transitions # <<>>

CallsInv == \A c \in Callers : CallGood(c)

(* One caller at a time is between its reads and its writes. *)
Alone == \A c, d \in Callers : Critical(c) /\ Critical(d) => c = d

StoreInv ==
    /\ StoreTyped
    /\ HistoryInv
    /\ AppliedOnce
    /\ ActiveFollowsHistory
    /\ AppliedAsAuthorized

SkillInv ==
    /\ LedgerInv
    /\ StoreInv
    /\ AnswersInv
    /\ LocalTyped
    /\ CallsInv
    /\ Alone

-----------------------------------------------------------------------------
(* Sets of naturals *)

(* A bounded nonempty set of naturals has a greatest element, its Max. *)
LEMMA MaxFacts ==
    ASSUME NEW n \in Nat, NEW T \in SUBSET (1..n), T # {}
    PROVE  Max(T) \in T /\ \A y \in T : Max(T) >= y
<1> DEFINE U == {n - x : x \in T}
<1> DEFINE R == OpToRel(<, Nat)
<1>0. \A x \in T : x \in 1..n /\ n - x \in Nat
  OBVIOUS
<1>1. U \in SUBSET Nat /\ U # {}
  BY <1>0
<1>2. PICK u \in U : \A v \in U : ~(<<v, u>> \in R)
  <2>1. IsWellFoundedOn(R, Nat)
    BY NatLessThanWellFounded
  <2> HIDE DEF R, U
  <2> QED BY <1>1, <2>1, WFMin, Zenon
<1>3. \A v \in U : u <= v
  <2>1. \A v \in U : ~(v < u)
    BY <1>1, <1>2 DEF OpToRel
  <2> QED BY <1>1, <2>1
<1>4. PICK x \in T : u = n - x
  OBVIOUS
<1>5. ASSUME NEW y \in T PROVE x >= y
  <2>1. n - y \in U
    OBVIOUS
  <2>2. n - x <= n - y
    BY <1>3, <1>4, <2>1
  <2> QED BY <2>2
<1>6. \E z \in T : \A y \in T : z >= y
  BY <1>5
<1> QED BY <1>6 DEF Max

(* An element that bounds the set is its Max. *)
LEMMA MaxIs ==
    ASSUME NEW n \in Nat, NEW T \in SUBSET (1..n), NEW x \in T, \A y \in T : x >= y
    PROVE  Max(T) = x
<1>1. Max(T) \in T /\ Max(T) >= x
  BY MaxFacts
<1>2. x >= Max(T)
  BY <1>1
<1>3. x \in 1..n /\ Max(T) \in 1..n
  BY <1>1
<1> QED BY <1>1, <1>2, <1>3

-----------------------------------------------------------------------------
(* Sequences *)

LEMMA AppendFacts ==
    ASSUME NEW S, NEW s \in Seq(S), NEW T, S \subseteq T, NEW e \in T
    PROVE  /\ Append(s, e) \in Seq(T)
           /\ Len(s) \in Nat
           /\ DOMAIN s = 1..Len(s)
           /\ Len(Append(s, e)) = Len(s) + 1
           /\ DOMAIN Append(s, e) = 1..(Len(s) + 1)
           /\ \A i \in DOMAIN s : Append(s, e)[i] = s[i]
           /\ Append(s, e)[Len(s) + 1] = e
<1>1. s \in Seq(T)
  BY SeqMonotonic
<1>2. /\ Len(Append(s, e)) = Len(s) + 1
      /\ \A i \in 1..Len(s) : Append(s, e)[i] = s[i]
      /\ Append(s, e)[Len(s) + 1] = e
      /\ Append(s, e) \in Seq(T)
  BY <1>1, AppendProperties
<1>3. Len(s) \in Nat /\ DOMAIN s = 1..Len(s)
  BY LenProperties
<1>4. DOMAIN Append(s, e) = 1..(Len(s) + 1)
  BY <1>2, LenProperties
<1> QED BY <1>2, <1>3, <1>4

-----------------------------------------------------------------------------
(* Replay *)

Deciding(h) == {i \in DOMAIN h : h[i].cmd.operation # "install"}

(* Replay with the artifacts as a parameter. *)
ReplayOn(h, arts) ==
    IF Deciding(h) = {} \/ h[Max(Deciding(h))].cmd.operation = "deactivate"
    THEN NoSkill
    ELSE [revision |-> h[Max(Deciding(h))].cmd.target,
          digest |-> arts[h[Max(Deciding(h))].cmd.target],
          sequence |-> Max(Deciding(h))]

LEMMA ReplayIs ==
    ASSUME NEW h
    PROVE  Replay(h) = ReplayOn(h, artifacts)
BY DEF Replay, ReplayOn, Deciding

LEMMA DecidingAppend ==
    ASSUME NEW S, NEW h \in Seq(S), NEW T, S \subseteq T, NEW t \in T
    PROVE  /\ Deciding(h) \in SUBSET (1..Len(h))
           /\ Deciding(Append(h, t)) =
                IF t.cmd.operation = "install" THEN Deciding(h)
                                               ELSE Deciding(h) \cup {Len(h) + 1}
BY AppendFacts DEF Deciding

(* An install leaves the projection alone, also as it adds an artifact. *)
LEMMA ReplayInstall ==
    ASSUME NEW S, NEW h \in Seq(S), NEW T, S \subseteq T, NEW t \in T,
           NEW D, NEW arts \in Seq(D), NEW d \in D,
           t.cmd.operation = "install",
           \A i \in DOMAIN h : h[i].cmd.target \in DOMAIN arts
    PROVE  ReplayOn(Append(h, t), Append(arts, d)) = ReplayOn(h, arts)
<1>1. Deciding(Append(h, t)) = Deciding(h) /\ Deciding(h) \in SUBSET (1..Len(h))
  BY DecidingAppend
<1>2. CASE Deciding(h) = {}
  BY <1>1, <1>2 DEF ReplayOn
<1>3. CASE Deciding(h) # {}
  <2> DEFINE x == Max(Deciding(h))
  <2>1. x \in Deciding(h) /\ x \in DOMAIN h
    <3>1. Len(h) \in Nat
      BY LenProperties
    <3>2. x \in Deciding(h)
      BY <1>1, <1>3, <3>1, MaxFacts
    <3> QED BY <3>2 DEF Deciding
  <2>2. Append(h, t)[x] = h[x]
    BY <2>1, AppendFacts
  <2>3. Append(arts, d)[h[x].cmd.target] = arts[h[x].cmd.target]
    <3>1. h[x].cmd.target \in DOMAIN arts
      BY <2>1
    <3> QED BY <3>1, AppendFacts
  <2> QED BY <1>1, <1>3, <2>2, <2>3 DEF ReplayOn
<1> QED BY <1>2, <1>3

(* Any other transition decides the projection. *)
LEMMA ReplayDecided ==
    ASSUME NEW S, NEW h \in Seq(S), NEW T, S \subseteq T, NEW t \in T, NEW arts,
           t.cmd.operation # "install"
    PROVE  ReplayOn(Append(h, t), arts) =
             IF t.cmd.operation = "deactivate" THEN NoSkill
             ELSE [revision |-> t.cmd.target, digest |-> arts[t.cmd.target],
                   sequence |-> Len(h) + 1]
<1> DEFINE n == Len(h) + 1
<1> DEFINE g == Append(h, t)
<1>1. Deciding(g) = Deciding(h) \cup {n} /\ Deciding(h) \in SUBSET (1..Len(h))
  BY DecidingAppend
<1>2. Len(h) \in Nat /\ g[n] = t
  BY AppendFacts
<1>3. Max(Deciding(g)) = n
  <2>1. n \in Nat /\ Deciding(g) \in SUBSET (1..n) /\ n \in Deciding(g)
    BY <1>1, <1>2
  <2>2. \A y \in Deciding(g) : n >= y
    BY <2>1
  <2> HIDE DEF n, g
  <2> QED BY <2>1, <2>2, MaxIs
<1>4. Deciding(g) # {}
  BY <1>1
<1>5. ReplayOn(g, arts) =
        IF t.cmd.operation = "deactivate" THEN NoSkill
        ELSE [revision |-> t.cmd.target, digest |-> arts[t.cmd.target], sequence |-> n]
  <2> HIDE DEF g, n
  <2> QED BY <1>2, <1>3, <1>4 DEF ReplayOn
<1> QED BY <1>5

-----------------------------------------------------------------------------
(* The journals *)

LEMMA StoredTransition ==
    ASSUME NEW m, m.operation # "rebuild"
    PROVE  /\ Stored(m) = {} <=> \A i \in DOMAIN transitions : transitions[i].cmd.id # m.id
           /\ \A r : r \in {e.result : e \in Exact(m)} <=>
                \E i \in DOMAIN transitions :
                    transitions[i].cmd = m /\ r = TransitionResult(transitions[i])
<1> DEFINE J == {[cmd |-> t.cmd, result |-> TransitionResult(t)] : t \in Range(transitions)}
<1>1. Stored(m) = {e \in J : e.cmd.id = m.id}
  BY DEF Stored, Journal
<1> DEFINE E(i) == [cmd |-> transitions[i].cmd, result |-> TransitionResult(transitions[i])]
<1>2. /\ \A i \in DOMAIN transitions : E(i) \in J
      /\ \A e \in J : \E i \in DOMAIN transitions : e = E(i)
  BY DEF Range
<1>3. \A i \in DOMAIN transitions :
         E(i).cmd = transitions[i].cmd /\ E(i).result = TransitionResult(transitions[i])
  OBVIOUS
<1> HIDE DEF J, E
<1>4. Stored(m) = {} <=> \A i \in DOMAIN transitions : transitions[i].cmd.id # m.id
  <2>1. ASSUME NEW e \in Stored(m)
        PROVE  \E i \in DOMAIN transitions : transitions[i].cmd.id = m.id
    BY <1>1, <1>2, <1>3
  <2>2. ASSUME NEW i \in DOMAIN transitions, transitions[i].cmd.id = m.id
        PROVE  E(i) \in Stored(m)
    BY <1>1, <1>2, <1>3, <2>2
  <2> QED BY <2>1, <2>2
<1>5. \A e : e \in Exact(m) <=> e \in J /\ e.cmd = m
  BY <1>1 DEF Exact
<1>6. ASSUME NEW r, r \in {e.result : e \in Exact(m)}
      PROVE  \E i \in DOMAIN transitions :
                 transitions[i].cmd = m /\ r = TransitionResult(transitions[i])
  <2>1. PICK e \in Exact(m) : r = e.result
    BY <1>6
  <2>2. PICK i \in DOMAIN transitions : e = E(i)
    BY <1>2, <1>5
  <2> QED BY <1>3, <1>5, <2>1, <2>2
<1>7. ASSUME NEW i \in DOMAIN transitions, transitions[i].cmd = m
      PROVE  TransitionResult(transitions[i]) \in {e.result : e \in Exact(m)}
  <2>1. E(i) \in Exact(m) /\ E(i).result = TransitionResult(transitions[i])
    BY <1>2, <1>3, <1>5, <1>7
  <2> QED BY <2>1
<1> QED BY <1>4, <1>6, <1>7

LEMMA StoredRebuild ==
    ASSUME NEW m, m.operation = "rebuild"
    PROVE  /\ Stored(m) = {} <=> \A e \in rebuilds : e.cmd.id # m.id
           /\ \A r : r \in {e.result : e \in Exact(m)} <=>
                \E e \in rebuilds : e.cmd = m /\ r = e.result
BY DEF Stored, Journal, Exact

(* The result computed from a transition is fixed when it is recorded. *)
LEMMA ResultFixed ==
    ASSUME NEW t, TransitionGood(t)
    PROVE  TransitionResult(t) = [revision |-> t.cmd.target, state |-> t.to,
                                  digest |-> t.cmd.digest, event |-> t.event]
BY DEF TransitionGood, TransitionResult

LEMMA TransitionFields ==
    ASSUME LedgerInv, StoreInv, NEW i \in DOMAIN transitions
    PROVE  /\ transitions[i] \in Transitions
           /\ transitions[i].cmd \in Commands /\ transitions[i].to \in States
           /\ transitions[i].event \in Nat \ {0} /\ transitions[i].event \in DOMAIN ledger
           /\ TransitionGood(transitions[i])
<1>1. transitions[i] \in Transitions
  BY ElementOfSeq, LenProperties DEF StoreInv, StoreTyped
<1>2. DOMAIN ledger = 1..Len(ledger) /\ Len(ledger) \in Nat
  BY LenProperties DEF LedgerInv
<1>3. transitions[i].cmd \in Commands /\ transitions[i].to \in States
      /\ transitions[i].event \in DOMAIN ledger
  BY <1>1 DEF Transitions
<1> QED BY <1>1, <1>2, <1>3 DEF StoreInv, HistoryInv

(* Every stored result is a result. *)
LEMMA StoredResults ==
    ASSUME LedgerInv, StoreInv, NEW m \in Commands, NEW e \in Exact(m)
    PROVE  e.result \in Results
<1>1. e.result \in {f.result : f \in Exact(m)}
  OBVIOUS
<1>2. CASE m.operation = "rebuild"
  <2>1. PICK f \in rebuilds : e.result = f.result
    BY <1>1, <1>2, StoredRebuild
  <2>2. f \in [cmd : Commands, result : Results]
    BY DEF StoreInv, StoreTyped
  <2> QED BY <2>1, <2>2
<1>3. CASE m.operation # "rebuild"
  <2>1. PICK i \in DOMAIN transitions : e.result = TransitionResult(transitions[i])
    BY <1>1, <1>3, StoredTransition
  <2> DEFINE t == transitions[i]
  <2>2. /\ t.cmd \in Commands /\ t.to \in States /\ t.event \in Nat \ {0}
        /\ TransitionGood(t)
    BY TransitionFields
  <2>3. t.cmd.target \in Nat \ {0} /\ t.cmd.digest \in DigestSet
    BY <2>2, CommandAssumption DEF DigestSet
  <2>4. e.result = [revision |-> t.cmd.target, state |-> t.to, digest |-> t.cmd.digest,
                    event |-> t.event]
    BY <2>1, <2>2, ResultFixed
  <2> HIDE DEF t
  <2> QED BY <2>2, <2>3, <2>4 DEF Results
<1> QED BY <1>2, <1>3

-----------------------------------------------------------------------------
(* Steps that write nothing *)

(* A step of c leaves the other callers and their locks alone. *)
OthersKept(c) ==
    \A d \in Callers \ {c} :
        /\ pc'[d] = pc[d] /\ cmd'[d] = cmd[d] /\ auth'[d] = auth[d] /\ seen'[d] = seen[d]
        /\ <<d, SkillLock>> \in locks => <<d, SkillLock>> \in locks'

LEMMA AloneStep ==
    ASSUME SkillInv, NEW c \in Callers, OthersKept(c), Critical(c)' => Free(SkillLock)
    PROVE  Alone'
<1> SUFFICES ASSUME NEW a \in Callers, NEW b \in Callers, Critical(a)', Critical(b)', a # b
             PROVE  FALSE
  BY DEF Alone
<1>1. \A d \in Callers \ {c} : Critical(d)' => Critical(d) /\ <<d, SkillLock>> \in locks
  BY DEF OthersKept, Critical, SkillInv, CallsInv, CallGood
<1>2. \A d \in Callers \ {c} : Critical(d)' => ~Free(SkillLock)
  BY <1>1 DEF Free
<1>3. CASE a = c \/ b = c
  BY <1>2, <1>3
<1>4. CASE a # c /\ b # c
  BY <1>1, <1>4 DEF SkillInv, Alone
<1> QED BY <1>3, <1>4

LEMMA StoreStays ==
    ASSUME LedgerInv, StoreInv, UNCHANGED store
    PROVE  /\ LedgerInv' /\ StoreInv'
           /\ \A m : Stored(m)' = Stored(m) /\ Exact(m)' = Exact(m)
           /\ CurrentAuthorization' = CurrentAuthorization
<1>1. /\ ledger' = ledger /\ artifacts' = artifacts /\ transitions' = transitions
      /\ active' = active /\ rebuilds' = rebuilds /\ lost' = lost
  BY DEF store
<1>2. LedgerInv'
  BY <1>1 DEF LedgerInv
<1>3. StoreTyped' /\ HistoryInv' /\ AppliedOnce'
  BY <1>1 DEF StoreInv, StoreTyped, HistoryInv, AppliedOnce, Transitions, TransitionGood
<1>4. ActiveFollowsHistory'
  BY <1>1 DEF StoreInv, ActiveFollowsHistory, Replay
<1>5. AppliedAsAuthorized' /\ CurrentAuthorization' = CurrentAuthorization
  BY <1>1 DEF StoreInv, AppliedAsAuthorized, StateAt, CurrentAuthorization
<1>6. \A m : Stored(m)' = Stored(m) /\ Exact(m)' = Exact(m)
  BY <1>1 DEF Stored, Exact, Journal, TransitionResult
<1> QED BY <1>2, <1>3, <1>4, <1>5, <1>6 DEF StoreInv

LEMMA LocalStep ==
    ASSUME SkillInv, UNCHANGED store, NEW c \in Callers, OthersKept(c),
           LocalTyped', CallGood(c)', Critical(c)' => Free(SkillLock),
           answers' \in [Commands -> SUBSET Results],
           \A m \in Commands : answers'[m] \subseteq answers[m] \cup {e.result : e \in Exact(m)}
    PROVE  SkillInv'
<1>1. /\ LedgerInv' /\ StoreInv'
      /\ \A m : Stored(m)' = Stored(m) /\ Exact(m)' = Exact(m)
      /\ CurrentAuthorization' = CurrentAuthorization
  BY StoreStays DEF SkillInv
<1>2. AnswersInv'
  BY <1>1 DEF SkillInv, AnswersInv
<1>3. ASSUME NEW d \in Callers, d # c PROVE CallGood(d)'
  <2>1. CallGood(d)
    BY DEF SkillInv, CallsInv
  <2>2. /\ pc'[d] = pc[d] /\ cmd'[d] = cmd[d] /\ auth'[d] = auth[d] /\ seen'[d] = seen[d]
        /\ <<d, SkillLock>> \in locks => <<d, SkillLock>> \in locks'
    BY <1>3 DEF OthersKept
  <2>3. artifacts' = artifacts /\ transitions' = transitions
    BY DEF store
  <2>4. Stored(cmd[d])' = Stored(cmd[d])
    BY <1>1, <2>2 DEF Stored, Journal, store, TransitionResult
  <2> QED BY <1>1, <2>1, <2>2, <2>3, <2>4 DEF CallGood, Critical, SkillLock
<1>4. CallsInv'
  BY <1>3 DEF CallsInv
<1>5. Alone'
  BY AloneStep
<1> QED BY <1>1, <1>2, <1>4, <1>5 DEF SkillInv

(* A call that ends holds nothing and is nowhere. *)
LEMMA LeaveFacts ==
    ASSUME LocalTyped, NEW c \in Callers, Leave(c)
    PROVE  LocalTyped' /\ OthersKept(c) /\ CallGood(c)' /\ ~Critical(c)' /\ pc'[c] = "idle"
<1>1. /\ pc' = [pc EXCEPT ![c] = "idle"] /\ cmd' = [cmd EXCEPT ![c] = None]
      /\ auth' = [auth EXCEPT ![c] = None] /\ seen' = [seen EXCEPT ![c] = 0]
      /\ locks' = {l \in locks : l[1] # c}
  BY DEF Leave, Goto, ReleaseAll
<1>2. LocalTyped'
  BY <1>1 DEF LocalTyped, PCs
<1>3. pc'[c] = "idle"
  BY <1>1 DEF LocalTyped
<1>4. OthersKept(c)
  <2> SUFFICES ASSUME NEW d \in Callers \ {c}
               PROVE  /\ pc'[d] = pc[d] /\ cmd'[d] = cmd[d] /\ auth'[d] = auth[d]
                      /\ seen'[d] = seen[d]
                      /\ <<d, SkillLock>> \in locks => <<d, SkillLock>> \in locks'
    BY DEF OthersKept
  <2>1. /\ pc'[d] = pc[d] /\ cmd'[d] = cmd[d] /\ auth'[d] = auth[d] /\ seen'[d] = seen[d]
    BY <1>1 DEF LocalTyped
  <2>2. <<d, SkillLock>> \in locks => <<d, SkillLock>> \in locks'
    BY <1>1
  <2> QED BY <2>1, <2>2
<1> QED BY <1>2, <1>3, <1>4 DEF CallGood, Critical

LEMMA RaiseStep ==
    ASSUME SkillInv, NEW c \in Callers, Raise(c)
    PROVE  SkillInv'
<1>1. LocalTyped' /\ OthersKept(c) /\ CallGood(c)' /\ ~Critical(c)'
  BY LeaveFacts DEF Raise, SkillInv
<1>2. UNCHANGED store /\ answers' = answers
  BY DEF Raise
<1>3. answers' \in [Commands -> SUBSET Results]
  BY <1>2 DEF SkillInv, AnswersInv
<1> QED BY <1>1, <1>2, <1>3, LocalStep

LEMMA AnswerStep ==
    ASSUME SkillInv, NEW c \in Callers, pc[c] # "idle", Answer(c)
    PROVE  SkillInv'
<1>1. LocalTyped' /\ OthersKept(c) /\ CallGood(c)' /\ ~Critical(c)' /\ UNCHANGED store
  BY LeaveFacts DEF Answer, SkillInv
<1> DEFINE m == cmd[c]
<1>2. m \in Commands
  BY DEF SkillInv, CallsInv, CallGood
<1>3. PICK e \in Exact(m) : answers' = [answers EXCEPT ![m] = @ \cup {e.result}]
  BY DEF Answer
<1> HIDE DEF m
<1>4. e.result \in Results
  BY <1>2, StoredResults DEF SkillInv
<1>5. answers \in [Commands -> SUBSET Results]
  BY DEF SkillInv, AnswersInv
<1>6. answers' \in [Commands -> SUBSET Results]
  BY <1>2, <1>3, <1>4, <1>5
<1>7. ASSUME NEW n \in Commands
      PROVE  answers'[n] \subseteq answers[n] \cup {f.result : f \in Exact(n)}
  <2>1. CASE n = m
    BY <1>3, <1>5, <2>1
  <2>2. CASE n # m
    BY <1>3, <1>5, <2>2
  <2> QED BY <2>1, <2>2
<1> QED BY <1>1, <1>6, <1>7, LocalStep

(* A step that moves c on, where it writes nothing but its own state and   *)
(* takes some locks.                                                       *)
LEMMA MoveStep ==
    ASSUME SkillInv, UNCHANGED <<store, answers>>, NEW c \in Callers, NEW label \in PCs,
           Goto(c, label), locks \subseteq locks',
           LocalTyped',
           \A d \in Callers \ {c} : cmd'[d] = cmd[d] /\ auth'[d] = auth[d] /\ seen'[d] = seen[d],
           CallGood(c)', label \in {"drafted", "rebuilding"} => Free(SkillLock)
    PROVE  SkillInv'
<1>1. pc' = [pc EXCEPT ![c] = label]
  BY DEF Goto
<1>2. pc'[c] = label /\ \A d \in Callers \ {c} : pc'[d] = pc[d]
  BY <1>1 DEF SkillInv, LocalTyped
<1>3. OthersKept(c)
  BY <1>2 DEF OthersKept
<1>4. Critical(c)' => Free(SkillLock)
  BY <1>2 DEF Critical
<1>5. UNCHANGED store /\ answers' = answers
  OBVIOUS
<1>6. answers' \in [Commands -> SUBSET Results]
  BY <1>5 DEF SkillInv, AnswersInv
<1> QED BY <1>3, <1>4, <1>5, <1>6, LocalStep

LEMMA CallKeeps ==
    ASSUME SkillInv, NEW c \in Callers, NEW m \in Commands, Call(c, m)
    PROVE  SkillInv'
<1>1. /\ Goto(c, "lookup") /\ cmd' = [cmd EXCEPT ![c] = m]
      /\ UNCHANGED <<store, answers>> /\ locks' = locks /\ auth' = auth /\ seen' = seen
  BY DEF Call
<1>2. LocalTyped' /\ pc'[c] = "lookup" /\ cmd'[c] = m /\ "lookup" \in PCs
  BY <1>1 DEF SkillInv, LocalTyped, Goto, PCs
<1>3. CallGood(c)'
  BY <1>2 DEF CallGood, Critical
<1>4. \A d \in Callers \ {c} : cmd'[d] = cmd[d] /\ auth'[d] = auth[d] /\ seen'[d] = seen[d]
  BY <1>1 DEF SkillInv, LocalTyped
<1> QED BY <1>1, <1>2, <1>3, <1>4, MoveStep

(* Whoever is not idle has a command. *)
LEMMA HasCommand ==
    ASSUME SkillInv, NEW c \in Callers, pc[c] # "idle"
    PROVE  cmd[c] \in Commands /\ cmd[c].operation \in Operations
BY CommandAssumption DEF SkillInv, CallsInv, CallGood

LEMMA LookupMissesKeeps ==
    ASSUME SkillInv, NEW c \in Callers, LookupMisses(c)
    PROVE  SkillInv'
<1>1. /\ Goto(c, "validated") /\ UNCHANGED <<store, answers>>
      /\ locks' = locks /\ cmd' = cmd /\ auth' = auth /\ seen' = seen /\ pc[c] # "idle"
  BY DEF LookupMisses
<1>2. LocalTyped' /\ pc'[c] = "validated" /\ "validated" \in PCs
  BY <1>1 DEF SkillInv, LocalTyped, Goto, PCs
<1>3. CallGood(c)'
  BY <1>1, <1>2, HasCommand DEF CallGood, Critical
<1>4. \A d \in Callers \ {c} : cmd'[d] = cmd[d] /\ auth'[d] = auth[d] /\ seen'[d] = seen[d]
  BY <1>1
<1> QED BY <1>1, <1>2, <1>3, <1>4, MoveStep

LEMMA CurrentTyped ==
    ASSUME LedgerInv, StoreInv
    PROVE  CurrentAuthorization \in Authorizations
<1>1. Len(transitions) \in Nat /\ DOMAIN transitions = 1..Len(transitions)
  BY LenProperties DEF StoreInv, StoreTyped
<1>2. StateAt(Len(transitions)) \in States
  <2>1. CASE Len(transitions) = 0
    BY <2>1 DEF StateAt, States
  <2>2. CASE Len(transitions) # 0
    BY <1>1, <2>2, TransitionFields DEF StateAt
  <2> QED BY <2>1, <2>2
<1> QED BY <1>1, <1>2 DEF CurrentAuthorization, Authorizations

LEMMA AuthorizeKeeps ==
    ASSUME SkillInv, NEW c \in Callers, Authorize(c)
    PROVE  SkillInv'
<1>1. /\ Goto(c, "authorizing") /\ UNCHANGED <<store, answers>>
      /\ auth' = [auth EXCEPT ![c] = CurrentAuthorization] /\ cmd[c].operation # "rebuild"
      /\ locks' = locks /\ cmd' = cmd /\ seen' = seen /\ pc[c] # "idle"
  BY DEF Authorize
<1>2. CurrentAuthorization \in Authorizations
  BY CurrentTyped DEF SkillInv
<1>3. LocalTyped' /\ pc'[c] = "authorizing" /\ "authorizing" \in PCs
  BY <1>1, <1>2 DEF SkillInv, LocalTyped, Goto, PCs
<1>4. CallGood(c)'
  BY <1>1, <1>3, HasCommand DEF CallGood, Critical
<1>5. \A d \in Callers \ {c} : cmd'[d] = cmd[d] /\ auth'[d] = auth[d] /\ seen'[d] = seen[d]
  BY <1>1 DEF SkillInv, LocalTyped
<1> QED BY <1>1, <1>3, <1>4, <1>5, MoveStep

LEMMA AuthorizeLockKeeps ==
    ASSUME SkillInv, NEW c \in Callers, AuthorizeLock(c)
    PROVE  SkillInv'
<1>1. /\ Goto(c, "authorized") /\ UNCHANGED <<store, answers>>
      /\ locks \subseteq locks' /\ pc[c] = "authorizing"
      /\ cmd' = cmd /\ auth' = auth /\ seen' = seen
  BY DEF AuthorizeLock, Acquire
<1>2. LocalTyped' /\ pc'[c] = "authorized" /\ "authorized" \in PCs
  BY <1>1 DEF SkillInv, LocalTyped, Goto, PCs
<1>3. cmd[c].operation # "rebuild"
  BY <1>1 DEF SkillInv, CallsInv, CallGood
<1>4. CallGood(c)'
  BY <1>1, <1>2, <1>3, HasCommand DEF CallGood, Critical
<1>5. \A d \in Callers \ {c} : cmd'[d] = cmd[d] /\ auth'[d] = auth[d] /\ seen'[d] = seen[d]
  BY <1>1
<1> QED BY <1>1, <1>2, <1>4, <1>5, MoveStep

LEMMA LockOperationKeeps ==
    ASSUME SkillInv, NEW c \in Callers, LockOperation(c)
    PROVE  SkillInv'
<1>1. /\ Goto(c, "operation") /\ UNCHANGED <<store, answers>>
      /\ locks \subseteq locks' /\ pc[c] # "idle"
      /\ cmd' = cmd /\ auth' = auth /\ seen' = seen
  BY DEF LockOperation, Acquire
<1>2. LocalTyped' /\ pc'[c] = "operation" /\ "operation" \in PCs
  BY <1>1 DEF SkillInv, LocalTyped, Goto, PCs
<1>3. CallGood(c)'
  BY <1>1, <1>2, HasCommand DEF CallGood, Critical
<1>4. \A d \in Callers \ {c} : cmd'[d] = cmd[d] /\ auth'[d] = auth[d] /\ seen'[d] = seen[d]
  BY <1>1
<1> QED BY <1>1, <1>2, <1>3, <1>4, MoveStep

(* What a draft and a rebuild read under the skill lock. *)
LEMMA DraftKeeps ==
    ASSUME SkillInv, NEW c \in Callers, Draft(c)
    PROVE  SkillInv'
<1>1. /\ Goto(c, "drafted") /\ UNCHANGED <<store, answers>> /\ pc[c] = "operation"
      /\ locks' = locks \cup ({c} \X {SkillLock, RunLock})
      /\ seen' = [seen EXCEPT ![c] = Len(ledger)] /\ cmd' = cmd /\ auth' = auth
      /\ cmd[c].operation # "rebuild" /\ Free(SkillLock)
      /\ auth[c] = CurrentAuthorization /\ Stored(cmd[c]) = {}
  BY DEF Draft, Drafting, Acquire, AuthorizationCurrent
<1>2. Len(ledger) \in Nat
  BY LenProperties DEF SkillInv, LedgerInv
<1>3. LocalTyped' /\ pc'[c] = "drafted" /\ "drafted" \in PCs
  BY <1>1, <1>2 DEF SkillInv, LocalTyped, Goto, PCs
<1>4. CurrentAuthorization' = CurrentAuthorization /\ Stored(cmd[c])' = Stored(cmd[c])
  BY <1>1 DEF store, CurrentAuthorization, StateAt, Stored, Journal, TransitionResult
<1>5. <<c, SkillLock>> \in locks'
  BY <1>1
<1>6. CallGood(c)'
  BY <1>1, <1>3, <1>4, <1>5, HasCommand DEF CallGood, Critical, SkillLock
<1>7. \A d \in Callers \ {c} : cmd'[d] = cmd[d] /\ auth'[d] = auth[d] /\ seen'[d] = seen[d]
  BY <1>1 DEF SkillInv, LocalTyped
<1> QED BY <1>1, <1>3, <1>6, <1>7, MoveStep

LEMMA RebuildReadKeeps ==
    ASSUME SkillInv, NEW c \in Callers, RebuildRead(c)
    PROVE  SkillInv'
<1>1. /\ Goto(c, "rebuilding") /\ UNCHANGED <<store, answers>> /\ pc[c] = "operation"
      /\ locks' = locks \cup ({c} \X {SkillLock})
      /\ seen' = [seen EXCEPT ![c] = Len(transitions)] /\ cmd' = cmd /\ auth' = auth
      /\ cmd[c].operation = "rebuild" /\ Free(SkillLock)
      /\ Stored(cmd[c]) = {} /\ cmd[c].expected = Len(artifacts) /\ transitions # <<>>
  BY DEF RebuildRead, Acquire, Rebuildable, HistoryProved
<1>2. Len(transitions) \in Nat
  BY LenProperties DEF SkillInv, StoreInv, StoreTyped
<1>3. /\ LocalTyped' /\ pc'[c] = "rebuilding" /\ "rebuilding" \in PCs
      /\ seen'[c] = Len(transitions)
  BY <1>1, <1>2 DEF SkillInv, LocalTyped, Goto, PCs
<1>4. /\ Stored(cmd[c])' = Stored(cmd[c])
      /\ artifacts' = artifacts /\ transitions' = transitions
  BY <1>1 DEF store, Stored, Journal, TransitionResult
<1>5. <<c, SkillLock>> \in locks'
  BY <1>1
<1>6. CallGood(c)'
  BY <1>1, <1>3, <1>4, <1>5, HasCommand DEF CallGood, Critical, SkillLock
<1>7. \A d \in Callers \ {c} : cmd'[d] = cmd[d] /\ auth'[d] = auth[d] /\ seen'[d] = seen[d]
  BY <1>1 DEF SkillInv, LocalTyped
<1> QED BY <1>1, <1>3, <1>6, <1>7, MoveStep

-----------------------------------------------------------------------------
(* Evidence of another origin *)

LEMMA LedgerGrows ==
    ASSUME LedgerInv, NEW e, e.sequence = Len(ledger), ledger' = Append(ledger, e)
    PROVE  /\ LedgerInv'
           /\ DOMAIN ledger \subseteq DOMAIN ledger'
           /\ Len(ledger) \in Nat /\ Len(ledger) + 1 \in DOMAIN ledger'
<1> DEFINE S == Range(ledger) \cup {e}
<1>0. ledger \in Seq(Range(ledger)) /\ Range(ledger) \subseteq S /\ e \in S
  BY DEF LedgerInv
<1>1. /\ ledger' \in Seq(S) /\ Len(ledger) \in Nat /\ DOMAIN ledger = 1..Len(ledger)
      /\ DOMAIN ledger' = 1..(Len(ledger) + 1)
      /\ \A i \in DOMAIN ledger : ledger'[i] = ledger[i]
      /\ ledger'[Len(ledger) + 1] = e
  <2> HIDE DEF S
  <2> QED BY <1>0, AppendFacts
<1>2. ledger' \in Seq(Range(ledger'))
  <2> HIDE DEF S
  <2> QED BY <1>1, SeqOfRange
<1>3. ASSUME NEW i \in DOMAIN ledger' PROVE ledger'[i].sequence = i - 1
  <2>1. CASE i = Len(ledger) + 1
    BY <1>1, <2>1
  <2>2. CASE i # Len(ledger) + 1
    BY <1>1, <2>2 DEF LedgerInv
  <2> QED BY <2>1, <2>2
<1> QED BY <1>1, <1>2, <1>3 DEF LedgerInv

(* A step that leaves the skill's tables and calls alone: it may append to *)
(* the run and take or give back locks of others than the callers.         *)
LEMMA EvidenceStep ==
    ASSUME SkillInv,
           UNCHANGED <<artifacts, transitions, active, rebuilds, lost, local, answers>>,
           \/ ledger' = ledger
           \/ \E e : e.sequence = Len(ledger) /\ ledger' = Append(ledger, e),
           \A c \in Callers : <<c, SkillLock>> \in locks => <<c, SkillLock>> \in locks'
    PROVE  SkillInv'
<1>1. /\ artifacts' = artifacts /\ transitions' = transitions /\ active' = active
      /\ rebuilds' = rebuilds /\ lost' = lost /\ answers' = answers
      /\ pc' = pc /\ cmd' = cmd /\ auth' = auth /\ seen' = seen
  BY DEF local
<1>2. LedgerInv' /\ DOMAIN ledger \subseteq DOMAIN ledger'
  <2>1. CASE ledger' = ledger
    BY <2>1 DEF SkillInv, LedgerInv
  <2>2. CASE \E e : e.sequence = Len(ledger) /\ ledger' = Append(ledger, e)
    BY <2>2, LedgerGrows DEF SkillInv
  <2> QED BY <2>1, <2>2
<1>3. StoreTyped'
  <2>1. Transitions \subseteq Transitions'
    BY <1>2 DEF Transitions
  <2>2. transitions' \in Seq(Transitions')
    BY <1>1, <2>1, SeqMonotonic DEF SkillInv, StoreInv, StoreTyped
  <2> QED BY <1>1, <2>2 DEF SkillInv, StoreInv, StoreTyped
<1>4. HistoryInv' /\ AppliedOnce' /\ ActiveFollowsHistory' /\ AppliedAsAuthorized'
  BY <1>1 DEF SkillInv, StoreInv, HistoryInv, AppliedOnce, TransitionGood,
              ActiveFollowsHistory, Replay, AppliedAsAuthorized, StateAt
<1>5. \A m : Stored(m)' = Stored(m) /\ Exact(m)' = Exact(m)
  BY <1>1 DEF Stored, Exact, Journal, TransitionResult
<1>6. AnswersInv'
  BY <1>1, <1>5 DEF SkillInv, AnswersInv
<1>7. LocalTyped' /\ Alone'
  BY <1>1 DEF SkillInv, LocalTyped, Alone, Critical
<1>8. ASSUME NEW c \in Callers PROVE CallGood(c)'
  <2>1. CallGood(c)
    BY DEF SkillInv, CallsInv
  <2>2. Stored(cmd[c])' = Stored(cmd[c]) /\ CurrentAuthorization' = CurrentAuthorization
    BY <1>1 DEF Stored, Journal, TransitionResult, CurrentAuthorization, StateAt
  <2> QED BY <1>1, <2>1, <2>2 DEF CallGood, Critical, SkillLock
<1> QED BY <1>2, <1>3, <1>4, <1>6, <1>7, <1>8 DEF SkillInv, StoreInv, CallsInv

LEMMA AppendKeeps ==
    ASSUME SkillInv, AppendOther
    PROVE  SkillInv'
<1>1. PICK e : e.sequence = Len(ledger) /\ ledger' = Append(ledger, e)
  BY DEF AppendOther
<1>2. /\ UNCHANGED <<artifacts, transitions, active, rebuilds, lost, local, answers>>
      /\ locks' = locks
  BY DEF AppendOther
<1> QED BY <1>1, <1>2, EvidenceStep

LEMMA LoseKeeps ==
    ASSUME SkillInv, LoseProjection
    PROVE  SkillInv'
<1>1. /\ ledger' = ledger /\ artifacts' = artifacts /\ transitions' = transitions
      /\ rebuilds' = rebuilds /\ answers' = answers /\ locks' = locks
      /\ pc' = pc /\ cmd' = cmd /\ auth' = auth /\ seen' = seen
      /\ active' = NoSkill /\ lost' = TRUE
  BY DEF LoseProjection, local
<1>2. LedgerInv' /\ StoreTyped'
  BY <1>1 DEF SkillInv, LedgerInv, StoreInv, StoreTyped, Transitions, NoSkill
<1>3. HistoryInv' /\ AppliedOnce' /\ AppliedAsAuthorized'
  BY <1>1 DEF SkillInv, StoreInv, HistoryInv, AppliedOnce, TransitionGood,
              AppliedAsAuthorized, StateAt
<1>4. ActiveFollowsHistory'
  BY <1>1 DEF ActiveFollowsHistory, NoSkill
<1>5. \A m : Stored(m)' = Stored(m) /\ Exact(m)' = Exact(m)
  BY <1>1 DEF Stored, Exact, Journal, TransitionResult
<1>6. AnswersInv'
  BY <1>1, <1>5 DEF SkillInv, AnswersInv
<1>7. LocalTyped' /\ Alone'
  BY <1>1 DEF SkillInv, LocalTyped, Alone, Critical
<1>8. ASSUME NEW c \in Callers PROVE CallGood(c)'
  <2>1. CallGood(c)
    BY DEF SkillInv, CallsInv
  <2>2. Stored(cmd[c])' = Stored(cmd[c]) /\ CurrentAuthorization' = CurrentAuthorization
    BY <1>1 DEF Stored, Journal, TransitionResult, CurrentAuthorization, StateAt
  <2> QED BY <1>1, <2>1, <2>2 DEF CallGood, Critical, SkillLock
<1> QED BY <1>2, <1>3, <1>4, <1>6, <1>7, <1>8 DEF SkillInv, StoreInv, CallsInv

-----------------------------------------------------------------------------
(* The steps that write *)

(* When c writes under the skill lock no one else has read under it. *)
LEMMA WriteStep ==
    ASSUME SkillInv, NEW c \in Callers, Critical(c), Leave(c),
           LedgerInv', StoreInv', AnswersInv'
    PROVE  SkillInv'
<1>1. LocalTyped' /\ OthersKept(c) /\ CallGood(c)' /\ ~Critical(c)'
  BY LeaveFacts DEF SkillInv
<1>2. ASSUME NEW d \in Callers, d # c PROVE CallGood(d)'
  <2>1. CallGood(d) /\ ~Critical(d)
    BY <1>2 DEF SkillInv, CallsInv, Alone
  <2>2. pc'[d] = pc[d] /\ cmd'[d] = cmd[d]
    BY <1>2, <1>1 DEF OthersKept
  <2> QED BY <2>1, <2>2 DEF CallGood, Critical
<1>3. CallsInv'
  BY <1>1, <1>2 DEF CallsInv
<1>4. Alone'
  BY <1>1, AloneStep
<1> QED BY <1>1, <1>3, <1>4 DEF SkillInv

(* The result of a recorded transition is an answer to its command. *)
LEMMA ResultStored ==
    ASSUME NEW m, m.operation # "rebuild", NEW i \in DOMAIN transitions',
           transitions'[i].cmd = m, NEW r, r = TransitionResult(transitions[i])'
    PROVE  r \in {e.result : e \in Exact(m)}'
<1> DEFINE e == [cmd |-> m, result |-> r]
<1>1. e \in {[cmd |-> t.cmd, result |-> TransitionResult(t)] : t \in Range(transitions)}'
  BY DEF Range
<1>2. e \in Journal(m)'
  BY <1>1 DEF Journal
<1>3. e.cmd = m /\ e.result = r
  OBVIOUS
<1> HIDE DEF e
<1>4. e \in Exact(m)'
  BY <1>2, <1>3 DEF Exact, Stored
<1> QED BY <1>3, <1>4

(* A transition that is applied is recorded once, on the state its writer  *)
(* authorized, and the projection and the answer follow from it.           *)
LEMMA ApplyKeeps ==
    ASSUME SkillInv, NEW c \in Callers, Apply(c)
    PROVE  SkillInv'
<1>m. PICK m : m = cmd[c]
  OBVIOUS
<1>n. PICK n : n = Len(transitions)
  OBVIOUS
<1> DEFINE t == [cmd |-> m, to |-> ToState(m), auth |-> auth[c], event |-> Len(ledger) + 1]
<1> DEFINE r == [revision |-> m.target, state |-> t.to, digest |-> m.digest,
                 event |-> t.event]
<1>1. /\ pc[c] = "drafted" /\ seen[c] = Len(ledger) /\ Applicable(m)
      /\ ledger' = Append(ledger, LifecycleEvent(c))
      /\ artifacts' = IF m.operation = "install" THEN Append(artifacts, m.digest)
                                                 ELSE artifacts
      /\ transitions' = Append(transitions, t)
      /\ active' = Project(m, n + 1)
      /\ lost' = (lost /\ ToState(m) # "active")
      /\ answers' = [answers EXCEPT ![m] = @ \cup {r}]
      /\ Leave(c) /\ rebuilds' = rebuilds
  BY <1>m, <1>n DEF Apply, HeadCurrent
<1>2. /\ m \in Commands /\ m.operation \in Operations \ {"rebuild"}
      /\ auth[c] = CurrentAuthorization /\ Stored(m) = {} /\ Critical(c)
      /\ m.target \in Nat \ {0} /\ m.digest \in DigestSet
  BY <1>m, <1>1, CommandAssumption DEF SkillInv, CallsInv, CallGood, Critical, DigestSet
<1>3. /\ artifacts \in Seq(DigestSet) /\ transitions \in Seq(Transitions)
      /\ lost \in BOOLEAN /\ rebuilds \subseteq [cmd : Commands, result : Results]
      /\ answers \in [Commands -> SUBSET Results]
  BY DEF SkillInv, StoreInv, StoreTyped, AnswersInv
<1>4. /\ LedgerInv' /\ DOMAIN ledger \subseteq DOMAIN ledger'
      /\ Len(ledger) \in Nat /\ Len(ledger) + 1 \in DOMAIN ledger'
  <2>1. LifecycleEvent(c).sequence = Len(ledger)
    BY <1>1 DEF LifecycleEvent
  <2> QED BY <1>1, <2>1, LedgerGrows DEF SkillInv
<1>5. ToState(m) \in States
  BY <1>2 DEF ToState, States, Operations
<1>6. Transitions \subseteq Transitions' /\ t \in Transitions'
  <2>1. CurrentAuthorization \in Authorizations
    BY CurrentTyped DEF SkillInv
  <2> QED BY <1>2, <1>4, <1>5, <2>1 DEF Transitions
<1>7. /\ t.cmd = m /\ t.to = ToState(m) /\ t.auth = CurrentAuthorization
      /\ t.event = Len(ledger) + 1 /\ r.digest = m.digest
  BY <1>2
<1>r. r \in Results
  BY <1>2, <1>4, <1>5, <1>7 DEF Results
<1> HIDE DEF t
<1>8. /\ transitions' \in Seq(Transitions') /\ n \in Nat
      /\ DOMAIN transitions = 1..n /\ DOMAIN transitions' = 1..(n + 1)
      /\ Len(transitions') = n + 1
      /\ \A i \in DOMAIN transitions : transitions'[i] = transitions[i]
      /\ transitions'[n + 1] = t
  BY <1>n, <1>1, <1>3, <1>6, AppendFacts
<1>9. /\ artifacts' \in Seq(DigestSet)
      /\ DOMAIN artifacts \subseteq DOMAIN artifacts'
      /\ \A v \in DOMAIN artifacts : artifacts'[v] = artifacts[v]
      /\ m.target \in DOMAIN artifacts' /\ artifacts'[m.target] = m.digest
  <2>1. CASE m.operation = "install"
    <3>1. /\ artifacts' = Append(artifacts, m.digest) /\ m.target = Len(artifacts) + 1
      BY <1>1, <2>1 DEF Applicable
    <3> QED BY <1>2, <1>3, <3>1, AppendFacts
  <2>2. CASE m.operation # "install"
    BY <1>1, <1>3, <2>2 DEF Applicable
  <2> QED BY <2>1, <2>2
<1>10. HistoryInv'
  <2> SUFFICES ASSUME NEW i \in DOMAIN transitions'
               PROVE  TransitionGood(transitions[i])'
    BY DEF HistoryInv
  <2>1. CASE i = n + 1
    <3>1. transitions'[i] = t
      BY <1>8, <2>1
    <3> QED BY <1>2, <1>7, <1>9, <3>1 DEF TransitionGood, ToState
  <2>2. CASE i # n + 1
    <3>1. i \in DOMAIN transitions /\ transitions'[i] = transitions[i]
      BY <1>8, <2>2
    <3>2. TransitionGood(transitions[i])
      BY <3>1 DEF SkillInv, StoreInv, HistoryInv
    <3> QED BY <1>9, <3>1, <3>2 DEF TransitionGood, ToState
  <2> QED BY <2>1, <2>2
<1>11. AppliedOnce'
  <2>1. \A i \in DOMAIN transitions : transitions[i].cmd.id # m.id
    BY <1>2, StoredTransition
  <2>2. \A i, j \in DOMAIN transitions :
            transitions[i].cmd.id = transitions[j].cmd.id => i = j
    BY DEF SkillInv, StoreInv, AppliedOnce
  <2>3. ASSUME NEW i \in DOMAIN transitions', NEW j \in DOMAIN transitions',
               transitions'[i].cmd.id = transitions'[j].cmd.id
        PROVE  i = j
    <3>1. CASE i = n + 1 /\ j # n + 1
      BY <1>7, <1>8, <2>1, <2>3, <3>1
    <3>2. CASE i # n + 1 /\ j = n + 1
      BY <1>7, <1>8, <2>1, <2>3, <3>2
    <3>3. CASE i # n + 1 /\ j # n + 1
      BY <1>8, <2>2, <2>3, <3>3
    <3> QED BY <3>1, <3>2, <3>3
  <2> QED BY <1>1, <2>3 DEF SkillInv, StoreInv, AppliedOnce
<1>12. AppliedAsAuthorized'
  <2> SUFFICES ASSUME NEW i \in DOMAIN transitions'
               PROVE  transitions'[i].auth = [sequence |-> i - 1, state |-> StateAt(i - 1)']
    BY DEF AppliedAsAuthorized
  <2>1. StateAt(i - 1)' = StateAt(i - 1)
    BY <1>8 DEF StateAt
  <2>2. CASE i = n + 1
    BY <1>n, <1>7, <1>8, <2>1, <2>2 DEF CurrentAuthorization
  <2>3. CASE i # n + 1
    BY <1>8, <2>1, <2>3 DEF SkillInv, StoreInv, AppliedAsAuthorized
  <2> QED BY <2>2, <2>3
<1>13. /\ ActiveFollowsHistory'
       /\ \/ active' = NoSkill
          \/ /\ active'.revision \in DOMAIN artifacts'
             /\ active'.digest = artifacts'[active'.revision]
             /\ active'.sequence \in DOMAIN transitions'
  <2>0. Replay(transitions)' = ReplayOn(transitions', artifacts')
    BY DEF Replay, ReplayOn, Deciding
  <2>1. CASE m.operation = "install"
    <3>1. artifacts' = Append(artifacts, m.digest) /\ active' = active /\ lost' = lost
      BY <1>1, <1>3, <2>1 DEF Project, ToState
    <3>2. \A i \in DOMAIN transitions : transitions[i].cmd.target \in DOMAIN artifacts
      BY DEF SkillInv, StoreInv, HistoryInv, TransitionGood
    <3>3. Replay(transitions)' = Replay(transitions)
      <4>1. t.cmd.operation = "install"
        BY <1>7, <2>1
      <4>2. ReplayOn(Append(transitions, t), Append(artifacts, m.digest)) =
              ReplayOn(transitions, artifacts)
        BY <1>2, <1>3, <1>6, <3>2, <4>1, ReplayInstall
      <4> QED BY <1>1, <2>0, <3>1, <4>2, ReplayIs
    <3>4. ActiveFollowsHistory'
      BY <3>1, <3>3 DEF SkillInv, StoreInv, ActiveFollowsHistory, NoSkill
    <3> QED BY <1>8, <1>9, <3>1, <3>4 DEF SkillInv, StoreInv, StoreTyped, NoSkill
  <2>2. CASE m.operation = "deactivate"
    <3>1. active' = NoSkill
      BY <1>1, <2>2 DEF Project, ToState
    <3>2. Replay(transitions)' = NoSkill
      <4>1. t.cmd.operation # "install" /\ t.cmd.operation = "deactivate"
        BY <1>7, <2>2
      <4>2. ReplayOn(Append(transitions, t), artifacts') = NoSkill
        BY <1>3, <1>6, <4>1, ReplayDecided
      <4> QED BY <1>1, <2>0, <4>2
    <3> QED BY <3>1, <3>2 DEF ActiveFollowsHistory, NoSkill
  <2>3. CASE m.operation \in {"activate", "rollback"}
    <3>1. /\ active' = [revision |-> m.target, digest |-> m.digest, sequence |-> n + 1]
          /\ ~lost'
      BY <1>1, <2>3 DEF Project, ToState
    <3>2. Replay(transitions)' = [revision |-> m.target, digest |-> artifacts'[m.target],
                                  sequence |-> n + 1]
      <4>1. t.cmd.operation # "install" /\ t.cmd.operation # "deactivate"
        BY <1>7, <2>3
      <4>2. ReplayOn(Append(transitions, t), artifacts') =
              [revision |-> m.target, digest |-> artifacts'[m.target], sequence |-> n + 1]
        BY <1>n, <1>3, <1>6, <1>7, <4>1, ReplayDecided
      <4> QED BY <1>1, <2>0, <4>2
    <3> QED BY <1>8, <1>9, <3>1, <3>2 DEF ActiveFollowsHistory
  <2> QED BY <1>2, <2>1, <2>2, <2>3 DEF Operations
<1>14. lost' \in BOOLEAN
  BY <1>1
<1>15. StoreInv'
  BY <1>1, <1>3, <1>8, <1>9, <1>10, <1>11, <1>12, <1>13, <1>14 DEF StoreInv, StoreTyped, NoSkill
<1>16. AnswersInv'
  <2>1. answers' \in [Commands -> SUBSET Results]
    <3> HIDE DEF r
    <3> QED BY <1>1, <1>2, <1>3, <1>r
  <2>2. ASSUME NEW i \in DOMAIN transitions'
        PROVE  TransitionResult(transitions[i])' =
                 [revision |-> transitions'[i].cmd.target, state |-> transitions'[i].to,
                  digest |-> transitions'[i].cmd.digest, event |-> transitions'[i].event]
    BY <1>10 DEF HistoryInv, TransitionGood, TransitionResult
  <2>3. r = TransitionResult(transitions[n + 1])'
    BY <1>7, <1>8, <2>2
  <2>4. r \in {e.result : e \in Exact(m)}'
    <3>1. n + 1 \in DOMAIN transitions' /\ transitions'[n + 1].cmd = m
      BY <1>7, <1>8
    <3>2. m.operation # "rebuild"
      BY <1>2
    <3> QED BY <2>3, <3>1, <3>2, ResultStored
  <2>5. ASSUME NEW o \in Commands, NEW s \in answers[o]
        PROVE  s \in {e.result : e \in Exact(o)}'
    <3>1. s \in {e.result : e \in Exact(o)}
      BY DEF SkillInv, AnswersInv
    <3>2. CASE o.operation = "rebuild"
      BY <1>1, <3>1, <3>2 DEF Exact, Stored, Journal
    <3>3. CASE o.operation # "rebuild"
      <4>1. PICK i \in DOMAIN transitions :
                transitions[i].cmd = o /\ s = TransitionResult(transitions[i])
        BY <3>1, <3>3, StoredTransition
      <4>2. i \in DOMAIN transitions' /\ transitions'[i] = transitions[i]
        BY <1>8
      <4>3. TransitionGood(transitions[i])
        BY DEF SkillInv, StoreInv, HistoryInv
      <4>4. s = TransitionResult(transitions[i])'
        BY <2>2, <4>1, <4>2, <4>3, ResultFixed
      <4> QED BY <3>3, <4>1, <4>2, <4>4, ResultStored
    <3> QED BY <3>2, <3>3
  <2>6. ASSUME NEW o \in Commands PROVE answers'[o] \subseteq {e.result : e \in Exact(o)}'
    <3> HIDE DEF r
    <3>1. CASE o = m
      <4>1. answers'[o] = answers[o] \cup {r}
        BY <1>1, <1>2, <1>3, <3>1
      <4> QED BY <2>4, <2>5, <3>1, <4>1
    <3>2. CASE o # m
      <4>1. answers'[o] = answers[o]
        BY <1>1, <1>3, <3>2
      <4> QED BY <2>5, <4>1
    <3> QED BY <3>1, <3>2
  <2> QED BY <2>1, <2>6 DEF AnswersInv
<1> QED BY <1>1, <1>2, <1>4, <1>15, <1>16, WriteStep

(* The projection a history stands for names an installed revision. *)
LEMMA ReplayTyped ==
    ASSUME LedgerInv, StoreInv
    PROVE  \/ Replay(transitions) = NoSkill
           \/ /\ Replay(transitions).revision \in DOMAIN artifacts
              /\ Replay(transitions).digest = artifacts[Replay(transitions).revision]
              /\ Replay(transitions).sequence \in DOMAIN transitions
<1> DEFINE T == Deciding(transitions)
<1> DEFINE x == Max(T)
<1>1. Replay(transitions) = ReplayOn(transitions, artifacts)
  BY ReplayIs
<1>2. CASE T = {} \/ transitions[x].cmd.operation = "deactivate"
  BY <1>1, <1>2 DEF ReplayOn
<1>3. CASE ~(T = {} \/ transitions[x].cmd.operation = "deactivate")
  <2>1. Len(transitions) \in Nat /\ DOMAIN transitions = 1..Len(transitions)
    BY LenProperties DEF StoreInv, StoreTyped
  <2>2. T \in SUBSET (1..Len(transitions))
    BY <2>1 DEF Deciding
  <2>3. x \in T
    <3> HIDE DEF T
    <3> QED BY <1>3, <2>1, <2>2, MaxFacts
  <2>4. x \in DOMAIN transitions
    BY <2>1, <2>2, <2>3
  <2>5. TransitionGood(transitions[x])
    BY <2>4, TransitionFields
  <2>6. Replay(transitions) =
          [revision |-> transitions[x].cmd.target,
           digest |-> artifacts[transitions[x].cmd.target], sequence |-> x]
    BY <1>1, <1>3 DEF ReplayOn
  <2> HIDE DEF x
  <2> QED BY <2>4, <2>5, <2>6 DEF TransitionGood
<1> QED BY <1>2, <1>3

(* A rebuild writes what the history stands for, under a new identifier. *)
LEMMA RebuildWriteKeeps ==
    ASSUME SkillInv, NEW c \in Callers, RebuildWrite(c)
    PROVE  SkillInv'
<1>m. PICK m : m = cmd[c]
  OBVIOUS
<1>1. /\ pc[c] = "rebuilding" /\ Critical(c)
      /\ m \in Commands /\ m.operation = "rebuild" /\ Stored(m) = {}
      /\ m.expected = Len(artifacts) /\ seen[c] = Len(transitions) /\ transitions # <<>>
      /\ m.expected \in Nat \ {0}
  <2>1. pc[c] = "rebuilding"
    BY DEF RebuildWrite
  <2>2. CallGood(c)
    BY DEF SkillInv, CallsInv
  <2>3. m \in Commands /\ m.operation = "rebuild"
    BY <1>m, <2>1, <2>2 DEF CallGood
  <2>4. m.expected \in Nat \ {0}
    BY <2>3, CommandAssumption
  <2> QED BY <1>m, <2>1, <2>2, <2>3, <2>4 DEF CallGood, Critical
<1>2. /\ artifacts \in Seq(DigestSet) /\ transitions \in Seq(Transitions)
      /\ rebuilds \subseteq [cmd : Commands, result : Results]
      /\ answers \in [Commands -> SUBSET Results]
  BY DEF SkillInv, StoreInv, StoreTyped, AnswersInv
<1>3. /\ Len(transitions) \in Nat \ {0} /\ Len(artifacts) \in Nat
      /\ DOMAIN artifacts = 1..Len(artifacts)
      /\ DOMAIN transitions = 1..Len(transitions)
      /\ SubSeq(transitions, 1, Len(transitions)) = transitions
  BY <1>1, <1>2, EmptySeq, LenProperties, SubSeqFull
<1> DEFINE last == transitions[Len(transitions)]
<1> DEFINE rebuilt == Replay(transitions)
<1> DEFINE result ==
        IF rebuilt # NoSkill
        THEN [revision |-> rebuilt.revision, state |-> "active",
              digest |-> rebuilt.digest, event |-> last.event]
        ELSE [revision |-> m.expected,
              state |-> IF last.cmd.operation = "install" THEN "installed" ELSE "inactive",
              digest |-> artifacts[m.expected], event |-> last.event]
<1>4. PICK r : r = result
  OBVIOUS
<1>5. /\ active' = rebuilt
      /\ rebuilds' = rebuilds \cup {[cmd |-> m, result |-> r]}
      /\ lost' = FALSE
      /\ answers' = [answers EXCEPT ![m] = @ \cup {r}]
      /\ Leave(c)
      /\ ledger' = ledger /\ artifacts' = artifacts /\ transitions' = transitions
  BY <1>m, <1>1, <1>3, <1>4 DEF RebuildWrite
<1>6. \/ rebuilt = NoSkill
      \/ /\ rebuilt.revision \in DOMAIN artifacts
         /\ rebuilt.digest = artifacts[rebuilt.revision]
         /\ rebuilt.sequence \in DOMAIN transitions
  BY ReplayTyped DEF SkillInv
<1> HIDE DEF rebuilt
<1>7. r \in Results
  <2>1. last.event \in Nat \ {0}
    <3>1. Len(transitions) \in DOMAIN transitions
      BY <1>3
    <3> QED BY <3>1, TransitionFields DEF SkillInv
  <2>2. \A v \in DOMAIN artifacts : artifacts[v] \in DigestSet /\ v \in Nat \ {0}
    BY <1>2, <1>3, ElementOfSeq
  <2> HIDE DEF last
  <2>3. CASE rebuilt # NoSkill
    BY <1>4, <1>6, <2>1, <2>2, <2>3 DEF Results, States
  <2>4. CASE rebuilt = NoSkill
    <3>1. m.expected \in DOMAIN artifacts
      BY <1>1, <1>3
    <3>2. /\ m.expected \in Nat \ {0} /\ artifacts[m.expected] \in DigestSet
      BY <2>2, <3>1
    <3> QED BY <1>4, <2>1, <2>4, <3>2 DEF Results, States
  <2> QED BY <2>3, <2>4
<1> HIDE DEF result, last
<1>8. LedgerInv' /\ HistoryInv' /\ AppliedAsAuthorized'
  BY <1>5 DEF SkillInv, StoreInv, LedgerInv, HistoryInv, TransitionGood, ToState,
              AppliedAsAuthorized, StateAt
<1>9. StoreTyped'
  <2>1. [cmd |-> m, result |-> r] \in [cmd : Commands, result : Results]
    BY <1>1, <1>7
  <2>2. rebuilds' \subseteq [cmd : Commands, result : Results] /\ lost' \in BOOLEAN
    BY <1>2, <1>5, <2>1
  <2>3. transitions' \in Seq(Transitions')
    BY <1>2, <1>5 DEF Transitions
  <2> QED BY <1>2, <1>5, <1>6, <2>2, <2>3 DEF StoreTyped, NoSkill
<1>10. AppliedOnce'
  <2>1. \A e \in rebuilds : e.cmd.id # m.id
    BY <1>1, StoredRebuild
  <2>2. [cmd |-> m, result |-> r].cmd = m
    OBVIOUS
  <2>3. /\ \A e, f \in rebuilds' : e.cmd.id = f.cmd.id => e = f
        /\ \A e \in rebuilds' : e.cmd.operation = "rebuild"
    BY <1>1, <1>5, <2>1, <2>2 DEF SkillInv, StoreInv, AppliedOnce
  <2> QED BY <1>5, <2>3 DEF SkillInv, StoreInv, AppliedOnce
<1>11. ActiveFollowsHistory'
  BY <1>5 DEF ActiveFollowsHistory, Replay, rebuilt
<1>12. AnswersInv'
  <2>1. answers' \in [Commands -> SUBSET Results]
    BY <1>1, <1>2, <1>5, <1>7
  <2>2. ASSUME NEW o \in Commands, NEW e \in Exact(o) PROVE e \in Exact(o)'
    BY <1>5 DEF Exact, Stored, Journal, TransitionResult
  <2>3. [cmd |-> m, result |-> r] \in Exact(m)'
    <3> DEFINE e == [cmd |-> m, result |-> r]
    <3>1. e \in rebuilds' /\ e.cmd = m
      BY <1>5
    <3> HIDE DEF e
    <3>2. e \in Exact(m)'
      BY <1>1, <3>1 DEF Exact, Stored, Journal
    <3> QED BY <3>2 DEF e
  <2>4. ASSUME NEW o \in Commands PROVE answers'[o] \subseteq {e.result : e \in Exact(o)}'
    <3>1. \A s \in answers[o] : s \in {e.result : e \in Exact(o)}'
      <4>1. answers[o] \subseteq {e.result : e \in Exact(o)}
        BY DEF SkillInv, AnswersInv
      <4> QED BY <2>2, <4>1
    <3>2. CASE o = m
      <4>1. answers'[o] = answers[o] \cup {r}
        BY <1>1, <1>2, <1>5, <3>2
      <4>2. r \in {e.result : e \in Exact(o)}'
        <5>1. [cmd |-> m, result |-> r].result = r
          OBVIOUS
        <5> QED BY <2>3, <3>2, <5>1
      <4> QED BY <3>1, <4>1, <4>2
    <3>3. CASE o # m
      BY <1>2, <1>5, <3>1, <3>3
    <3> QED BY <3>2, <3>3
  <2> QED BY <2>1, <2>4 DEF AnswersInv
<1>13. StoreInv'
  BY <1>8, <1>9, <1>10, <1>11 DEF StoreInv
<1> QED BY <1>1, <1>5, <1>8, <1>12, <1>13, WriteStep

-----------------------------------------------------------------------------
(* Every step of the lifecycle. *)
LEMMA NextKeeps ==
    ASSUME SkillInv, LifecycleNext
    PROVE  SkillInv'
<1>1. ASSUME NEW c \in Callers, NEW m \in Commands, Call(c, m) PROVE SkillInv'
  BY <1>1, CallKeeps
<1>2. ASSUME NEW c \in Callers, Step(c) PROVE SkillInv'
  <2>1. CASE LookupReplay(c)
    BY <2>1, AnswerStep DEF LookupReplay
  <2>2. CASE LookupConflicts(c)
    BY <2>2, RaiseStep DEF LookupConflicts
  <2>3. CASE LookupMisses(c)
    BY <2>3, LookupMissesKeeps
  <2>4. CASE ValidationFails(c)
    BY <2>4, RaiseStep DEF ValidationFails
  <2>5. CASE Authorize(c)
    BY <2>5, AuthorizeKeeps
  <2>6. CASE AuthorizeLock(c)
    BY <2>6, AuthorizeLockKeeps
  <2>7. CASE LockOperation(c)
    BY <2>7, LockOperationKeeps
  <2>8. CASE DraftReplay(c)
    BY <2>8, AnswerStep DEF DraftReplay, Drafting
  <2>9. CASE DraftRefused(c)
    BY <2>9, RaiseStep DEF DraftRefused
  <2>10. CASE Draft(c)
    BY <2>10, DraftKeeps
  <2>11. CASE Apply(c)
    BY <2>11, ApplyKeeps
  <2>12. CASE ApplyRefused(c)
    BY <2>12, RaiseStep DEF ApplyRefused
  <2>13. CASE RebuildReplay(c)
    BY <2>13, AnswerStep DEF RebuildReplay
  <2>14. CASE RebuildRead(c)
    BY <2>14, RebuildReadKeeps
  <2>15. CASE RebuildRefused(c)
    BY <2>15, RaiseStep DEF RebuildRefused
  <2>16. CASE RebuildWrite(c)
    BY <2>16, RebuildWriteKeeps
  <2> QED BY <1>2, <2>1, <2>2, <2>3, <2>4, <2>5, <2>6, <2>7, <2>8, <2>9, <2>10, <2>11,
             <2>12, <2>13, <2>14, <2>15, <2>16 DEF Step
<1>3. ASSUME NEW c \in Callers, Abort(c) PROVE SkillInv'
  BY <1>3, RaiseStep DEF Abort
<1>4. CASE LoseProjection
  BY <1>4, LoseKeeps
<1>5. CASE GenericAppend \/ ForeignAppend
  BY <1>5, AppendKeeps DEF GenericAppend, ForeignAppend
<1> QED BY <1>1, <1>2, <1>3, <1>4, <1>5 DEF LifecycleNext

LEMMA StutterKeeps ==
    ASSUME SkillInv, UNCHANGED lifecycleVars
    PROVE  SkillInv'
<1>1. /\ UNCHANGED <<artifacts, transitions, active, rebuilds, lost, local, answers>>
      /\ ledger' = ledger /\ locks' = locks
  BY DEF lifecycleVars, local
<1> QED BY <1>1, EvidenceStep

LEMMA InitKeeps ==
    ASSUME Init
    PROVE  SkillInv
<1>1. LedgerInv
  BY DEF Init, LedgerInv
<1>2. StoreTyped /\ HistoryInv /\ AppliedOnce /\ AppliedAsAuthorized
  <2>1. transitions = <<>> /\ rebuilds = {} /\ DOMAIN transitions = {}
    BY DEF Init
  <2>2. StoreTyped
    BY EmptySeq DEF Init, StoreTyped
  <2> QED BY <2>1, <2>2 DEF HistoryInv, AppliedOnce, AppliedAsAuthorized
<1>3. ActiveFollowsHistory
  <2>1. Deciding(transitions) = {}
    BY DEF Init, Deciding
  <2> QED BY <2>1, ReplayIs DEF Init, ActiveFollowsHistory, ReplayOn
<1>4. AnswersInv
  BY DEF Init, AnswersInv
<1>5. LocalTyped
  BY DEF Init, LocalTyped, PCs
<1>6. CallsInv /\ Alone
  BY DEF Init, CallsInv, CallGood, Alone, Critical
<1> QED BY <1>1, <1>2, <1>3, <1>4, <1>5, <1>6 DEF SkillInv, StoreInv

(* The invariant the other theorems follow from. *)
THEOREM SkillInductive == LifecycleSpec => []SkillInv
<1>1. Init => SkillInv
  BY InitKeeps
<1>2. SkillInv /\ [LifecycleNext]_lifecycleVars => SkillInv'
  BY NextKeeps, StutterKeeps
<1> QED BY <1>1, <1>2, PTL DEF LifecycleSpec

(* Every variable has its type and the run's chain has no gap. *)
THEOREM LifecycleTypeCorrect == LifecycleSpec => []LifecycleTypeOK
<1>1. SkillInv => LifecycleTypeOK
  BY DEF SkillInv, LedgerInv, StoreInv, StoreTyped, LocalTyped, AnswersInv, Transitions,
         LifecycleTypeOK
<1> QED BY <1>1, SkillInductive, PTL

(* No interleaving leaves a revision active that the history does not. *)
THEOREM ProjectionFollowsHistory == LifecycleSpec => []ActiveFollowsHistory
<1>1. SkillInv => ActiveFollowsHistory
  BY DEF SkillInv, StoreInv
<1> QED BY <1>1, SkillInductive, PTL

(* An operation is applied once, and every retry gets its one result. *)
THEOREM OperationsAppliedOnce == LifecycleSpec => []OperationAppliedOnce
<1>1. SkillInv => OperationAppliedOnce
  BY DEF SkillInv, StoreInv, AppliedOnce, AnswersInv, OperationAppliedOnce
<1> QED BY <1>1, SkillInductive, PTL

(* A transition is applied to the state its writer committed to. *)
THEOREM TransitionsAsAuthorized == LifecycleSpec => []AppliedAsAuthorized
<1>1. SkillInv => AppliedAsAuthorized
  BY DEF SkillInv, StoreInv
<1> QED BY <1>1, SkillInductive, PTL

-----------------------------------------------------------------------------
(* Refinement of GovernedSkill *)

StageBar == StateAt(Len(transitions))
CurrentBar == Skill(Replay(transitions))
ShownBar == Skill(active)
ResultsBar ==
    {[cmd |-> t.cmd, result |-> Plain(TransitionResult(t))] : t \in Range(transitions)}
      \cup {[cmd |-> e.cmd, result |-> Plain(e.result)] : e \in rebuilds}
GivenBar == [m \in Commands |-> {Plain(r) : r \in answers[m]}]

(* The entry of a transition, read from the transition alone. *)
TransitionEntry(t) == [cmd |-> t.cmd, result |-> Governed!Result(t.cmd.target, t.to, t.cmd.digest)]
RebuildEntry(e) == [cmd |-> e.cmd, result |-> Plain(e.result)]
EntriesOf(h, J) == {TransitionEntry(h[i]) : i \in DOMAIN h} \cup {RebuildEntry(e) : e \in J}

(* The result of a transition does not depend on later installs. *)
LEMMA EntriesFixed ==
    ASSUME NEW h, NEW arts, NEW J,
           \A i \in DOMAIN h : arts[h[i].cmd.target] = h[i].cmd.digest
    PROVE  {[cmd |-> t.cmd,
             result |-> Plain([revision |-> t.cmd.target, state |-> t.to,
                               digest |-> arts[t.cmd.target], event |-> t.event])]
              : t \in Range(h)} \cup {[cmd |-> e.cmd, result |-> Plain(e.result)] : e \in J}
             = EntriesOf(h, J)
<1> DEFINE X(t) == [cmd |-> t.cmd,
                    result |-> Plain([revision |-> t.cmd.target, state |-> t.to,
                                      digest |-> arts[t.cmd.target], event |-> t.event])]
<1>1. ASSUME NEW i \in DOMAIN h PROVE X(h[i]) = TransitionEntry(h[i])
  BY DEF TransitionEntry, Plain, Governed!Result
<1>2. {X(t) : t \in Range(h)} = {X(h[i]) : i \in DOMAIN h}
  BY DEF Range
<1>3. {X(h[i]) : i \in DOMAIN h} = {TransitionEntry(h[i]) : i \in DOMAIN h}
  BY <1>1
<1> QED BY <1>2, <1>3 DEF EntriesOf, RebuildEntry

LEMMA EntriesAre ==
    ASSUME SkillInv, SkillInv'
    PROVE  /\ ResultsBar = EntriesOf(transitions, rebuilds)
           /\ ResultsBar' = EntriesOf(transitions', rebuilds')
<1>1. \A i \in DOMAIN transitions :
          artifacts[transitions[i].cmd.target] = transitions[i].cmd.digest
  BY DEF SkillInv, StoreInv, HistoryInv, TransitionGood
<1>2. \A i \in DOMAIN transitions' :
          artifacts'[transitions'[i].cmd.target] = transitions'[i].cmd.digest
  BY DEF SkillInv, StoreInv, HistoryInv, TransitionGood
<1>3. ResultsBar = EntriesOf(transitions, rebuilds)
  BY <1>1, EntriesFixed DEF ResultsBar, TransitionResult
<1>4. ResultsBar' = EntriesOf(transitions', rebuilds')
  BY <1>2, EntriesFixed DEF ResultsBar, TransitionResult
<1> QED BY <1>3, <1>4

(* A recorded transition adds one entry. *)
LEMMA EntriesAppend ==
    ASSUME NEW S, NEW h \in Seq(S), NEW T, S \subseteq T, NEW t \in T, NEW J
    PROVE  EntriesOf(Append(h, t), J) = EntriesOf(h, J) \cup {TransitionEntry(t)}
<1> DEFINE g == Append(h, t)
<1> DEFINE n == Len(h)
<1>1. /\ n \in Nat /\ DOMAIN h = 1..n /\ DOMAIN g = 1..(n + 1)
      /\ \A i \in DOMAIN h : g[i] = h[i]
      /\ g[n + 1] = t
  BY AppendFacts
<1> HIDE DEF g, n
<1>2. \A i \in DOMAIN g : i \in DOMAIN h \/ i = n + 1
  BY <1>1
<1>3. DOMAIN h \subseteq DOMAIN g /\ n + 1 \in DOMAIN g
  BY <1>1
<1>4. {TransitionEntry(g[i]) : i \in DOMAIN g} = {TransitionEntry(h[i]) : i \in DOMAIN h} \cup {TransitionEntry(t)}
  <2> HIDE DEF TransitionEntry
  <2>1. ASSUME NEW i \in DOMAIN g
        PROVE  TransitionEntry(g[i]) \in {TransitionEntry(h[j]) : j \in DOMAIN h} \cup {TransitionEntry(t)}
    BY <1>1, <1>2
  <2>2. ASSUME NEW i \in DOMAIN h PROVE TransitionEntry(h[i]) \in {TransitionEntry(g[j]) : j \in DOMAIN g}
    BY <1>1, <1>3
  <2>3. TransitionEntry(t) \in {TransitionEntry(g[j]) : j \in DOMAIN g}
    BY <1>1, <1>3
  <2> QED BY <2>1, <2>2, <2>3
<1> QED BY <1>4 DEF EntriesOf, g

(* Whoever is answered is given the plain result. *)
LEMMA GivenGrows ==
    ASSUME SkillInv, NEW m \in Commands, NEW r, answers' = [answers EXCEPT ![m] = @ \cup {r}]
    PROVE  GivenBar' = [GivenBar EXCEPT ![m] = @ \cup {Plain(r)}]
<1>1. answers \in [Commands -> SUBSET Results]
  BY DEF SkillInv, AnswersInv
<1>2. answers'[m] = answers[m] \cup {r} /\ \A o \in Commands \ {m} : answers'[o] = answers[o]
  BY <1>1
<1>3. GivenBar'[m] = GivenBar[m] \cup {Plain(r)}
  BY <1>2 DEF GivenBar
<1>4. \A o \in Commands \ {m} : GivenBar'[o] = GivenBar[o]
  BY <1>2 DEF GivenBar
<1>5. /\ GivenBar = [o \in Commands |-> GivenBar[o]]
      /\ GivenBar' = [o \in Commands |-> GivenBar'[o]]
  BY DEF GivenBar
<1> QED BY <1>3, <1>4, <1>5

(* A command with no stored entry, that expects the revisions there are,   *)
(* fits.                                                                   *)
LEMMA NewFits ==
    ASSUME SkillInv, SkillInv', NEW m \in Commands, Stored(m) = {}, m.expected = Len(artifacts)
    PROVE  Governed!Fits(m)
<1>1. ResultsBar = EntriesOf(transitions, rebuilds)
  BY EntriesAre
<1>2. ASSUME NEW i \in DOMAIN transitions,
             Governed!SameJournal(TransitionEntry(transitions[i]).cmd, m)
      PROVE  TransitionEntry(transitions[i]).cmd.id # m.id
  <2>1. TransitionEntry(transitions[i]).cmd = transitions[i].cmd
    BY DEF TransitionEntry
  <2>2. m.operation # "rebuild"
    BY <1>2, <2>1 DEF Governed!SameJournal, SkillInv, StoreInv, HistoryInv, TransitionGood
  <2> QED BY <2>1, <2>2, StoredTransition
<1>3. ASSUME NEW e \in rebuilds, Governed!SameJournal(RebuildEntry(e).cmd, m)
      PROVE  RebuildEntry(e).cmd.id # m.id
  <2>1. RebuildEntry(e).cmd = e.cmd
    BY DEF RebuildEntry
  <2>2. m.operation = "rebuild"
    BY <1>3, <2>1 DEF Governed!SameJournal, SkillInv, StoreInv, AppliedOnce
  <2> QED BY <2>1, <2>2, StoredRebuild
<1>4. \A x \in ResultsBar : Governed!SameJournal(x.cmd, m) => x.cmd.id # m.id
  BY <1>1, <1>2, <1>3 DEF EntriesOf
<1> QED BY <1>4 DEF Governed!Fits, ResultsBar

(* Nothing the abstract specification sees changes. *)
LEMMA SkillQuiet ==
    ASSUME UNCHANGED <<artifacts, transitions, active, rebuilds, answers>>
    PROVE  UNCHANGED Governed!vars
BY DEF Governed!vars, StateAt, Replay, TransitionResult, Plain, Skill

(* An answer repeats the result of its operation. *)
LEMMA AnswerRefines ==
    ASSUME SkillInv, SkillInv', NEW c \in Callers, pc[c] # "idle", Answer(c)
    PROVE  \E m \in Commands : Governed!Repeat(m)
<1>m. PICK m : m = cmd[c]
  OBVIOUS
<1>1. m \in Commands
  BY <1>m, HasCommand
<1>2. PICK e \in Exact(m) : answers' = [answers EXCEPT ![m] = @ \cup {e.result}]
  BY <1>m DEF Answer
<1>3. /\ artifacts' = artifacts /\ transitions' = transitions /\ active' = active
      /\ rebuilds' = rebuilds
  BY DEF Answer, store
<1>4. GivenBar' = [GivenBar EXCEPT ![m] = @ \cup {Plain(e.result)}]
  BY <1>1, <1>2, GivenGrows
<1>5. PICK x \in ResultsBar : x.cmd = m /\ x.result = Plain(e.result)
  <2>1. e.cmd = m /\ e \in Journal(m)
    BY DEF Exact, Stored
  <2>2. CASE m.operation = "rebuild"
    <3>1. RebuildEntry(e) \in ResultsBar
      BY <2>1, <2>2 DEF Journal, ResultsBar, RebuildEntry
    <3> QED BY <2>1, <3>1 DEF RebuildEntry
  <2>3. CASE m.operation # "rebuild"
    <3>1. PICK t \in Range(transitions) : e = [cmd |-> t.cmd, result |-> TransitionResult(t)]
      BY <2>1, <2>3 DEF Journal
    <3> DEFINE x == [cmd |-> t.cmd, result |-> Plain(TransitionResult(t))]
    <3>2. x \in ResultsBar
      BY DEF ResultsBar
    <3>3. x.cmd = m /\ x.result = Plain(e.result)
      BY <2>1, <3>1
    <3> QED BY <3>2, <3>3
  <2> QED BY <2>2, <2>3
<1>6. /\ StageBar' = StageBar /\ CurrentBar' = CurrentBar /\ ShownBar' = ShownBar
      /\ ResultsBar' = ResultsBar
  BY <1>3 DEF StageBar, CurrentBar, ShownBar, ResultsBar, StateAt, Replay, TransitionResult
<1>7. Governed!Repeat(m)
  BY <1>3, <1>4, <1>5, <1>6
     DEF Governed!Repeat, StageBar, CurrentBar, ShownBar, ResultsBar, GivenBar
<1> QED BY <1>1, <1>7

(* What an applied transition adds to the abstract state. *)
LEMMA ApplyAdds ==
    ASSUME SkillInv, SkillInv', NEW c \in Callers, Apply(c), NEW m, m = cmd[c]
    PROVE  /\ m \in Commands /\ m.operation \in Operations \ {"rebuild"}
           /\ Governed!Fits(m) /\ Applicable(m)
           /\ artifacts' = IF m.operation = "install" THEN Append(artifacts, m.digest)
                                                      ELSE artifacts
           /\ active' = Project(m, Len(transitions) + 1)
           /\ StageBar' = ToState(m)
           /\ ResultsBar' = ResultsBar \cup
                {[cmd |-> m, result |-> Governed!Result(m.target, ToState(m), m.digest)]}
           /\ GivenBar' = [GivenBar EXCEPT ![m] = @ \cup
                {Governed!Result(m.target, ToState(m), m.digest)}]
           /\ m.operation = "install" => CurrentBar' = CurrentBar
           /\ m.operation = "deactivate" => CurrentBar' = Governed!Nothing
           /\ m.operation \in {"activate", "rollback"} =>
                CurrentBar' = [revision |-> m.target, digest |-> m.digest]
<1> DEFINE t == [cmd |-> m, to |-> ToState(m), auth |-> auth[c], event |-> Len(ledger) + 1]
<1> DEFINE r == [revision |-> m.target, state |-> t.to, digest |-> m.digest,
                 event |-> t.event]
<1>1. /\ pc[c] = "drafted" /\ Applicable(m)
      /\ artifacts' = IF m.operation = "install" THEN Append(artifacts, m.digest)
                                                 ELSE artifacts
      /\ transitions' = Append(transitions, t)
      /\ active' = Project(m, Len(transitions) + 1)
      /\ answers' = [answers EXCEPT ![m] = @ \cup {r}]
      /\ rebuilds' = rebuilds
  BY DEF Apply
<1>2. /\ m \in Commands /\ m.operation \in Operations \ {"rebuild"} /\ Stored(m) = {}
      /\ m.digest \in DigestSet
  BY <1>1, CommandAssumption DEF SkillInv, CallsInv, CallGood, Critical, DigestSet
<1>3. Governed!Fits(m)
  BY <1>1, <1>2, NewFits DEF Applicable
<1>4. t.cmd = m /\ t.to = ToState(m) /\ Plain(r) = Governed!Result(m.target, ToState(m), m.digest)
  BY DEF Plain, Governed!Result
<1>5. TransitionEntry(t) = [cmd |-> m, result |-> Governed!Result(m.target, ToState(m), m.digest)]
  BY <1>4 DEF TransitionEntry
<1>6. GivenBar' = [GivenBar EXCEPT ![m] = @ \cup
                     {Governed!Result(m.target, ToState(m), m.digest)}]
  <2> HIDE DEF r
  <2> QED BY <1>1, <1>2, <1>4, GivenGrows
<1> HIDE DEF t
<1> DEFINE T == Transitions \cup {t}
<1>7. /\ transitions \in Seq(Transitions) /\ Transitions \subseteq T /\ t \in T
      /\ artifacts \in Seq(DigestSet)
  BY DEF SkillInv, StoreInv, StoreTyped
<1> HIDE DEF T
<1>8. ResultsBar' = ResultsBar \cup
        {[cmd |-> m, result |-> Governed!Result(m.target, ToState(m), m.digest)]}
  <2>1. EntriesOf(Append(transitions, t), rebuilds) =
          EntriesOf(transitions, rebuilds) \cup {TransitionEntry(t)}
    BY <1>7, EntriesAppend
  <2>2. ResultsBar' = EntriesOf(Append(transitions, t), rebuilds)
    BY <1>1, EntriesAre
  <2>3. ResultsBar = EntriesOf(transitions, rebuilds)
    BY EntriesAre
  <2> QED BY <1>5, <2>1, <2>2, <2>3
<1>9. StageBar' = ToState(m)
  <2>1. /\ Len(transitions) \in Nat /\ Len(transitions') = Len(transitions) + 1
        /\ transitions'[Len(transitions) + 1] = t
    BY <1>1, <1>7, AppendFacts
  <2> QED BY <1>4, <2>1 DEF StageBar, StateAt
<1>10. Replay(transitions)' = ReplayOn(transitions', artifacts')
  BY DEF Replay, ReplayOn, Deciding
<1>11. ASSUME m.operation = "install" PROVE CurrentBar' = CurrentBar
  <2>1. \A i \in DOMAIN transitions : transitions[i].cmd.target \in DOMAIN artifacts
    BY DEF SkillInv, StoreInv, HistoryInv, TransitionGood
  <2>2. ReplayOn(Append(transitions, t), Append(artifacts, m.digest)) =
          ReplayOn(transitions, artifacts)
    BY <1>2, <1>4, <1>7, <1>11, <2>1, ReplayInstall
  <2> QED BY <1>1, <1>10, <1>11, <2>2, ReplayIs DEF CurrentBar
<1>12. ASSUME m.operation # "install"
       PROVE  Replay(transitions)' =
                IF m.operation = "deactivate" THEN NoSkill
                ELSE [revision |-> m.target, digest |-> artifacts[m.target],
                      sequence |-> Len(transitions) + 1]
  <2>1. ReplayOn(Append(transitions, t), artifacts) =
          IF m.operation = "deactivate" THEN NoSkill
          ELSE [revision |-> m.target, digest |-> artifacts[m.target],
                sequence |-> Len(transitions) + 1]
    BY <1>4, <1>7, <1>12, ReplayDecided
  <2> QED BY <1>1, <1>10, <1>12, <2>1
<1>13. ASSUME m.operation = "deactivate" PROVE CurrentBar' = Governed!Nothing
  BY <1>12, <1>13 DEF CurrentBar, Skill, NoSkill, Governed!Nothing
<1>14. ASSUME m.operation \in {"activate", "rollback"}
       PROVE  CurrentBar' = [revision |-> m.target, digest |-> m.digest]
  <2>1. artifacts[m.target] = m.digest
    BY <1>1, <1>14 DEF Applicable
  <2> QED BY <1>12, <1>14, <2>1 DEF CurrentBar, Skill
<1> QED BY <1>1, <1>2, <1>3, <1>6, <1>8, <1>9, <1>11, <1>13, <1>14

(* An applied transition is the operation it is of. *)
LEMMA ApplyRefines ==
    ASSUME SkillInv, SkillInv', NEW c \in Callers, Apply(c)
    PROVE  \E m \in Commands :
               Governed!Install(m) \/ Governed!Activate(m) \/ Governed!Deactivate(m)
<1>m. PICK m : m = cmd[c]
  OBVIOUS
<1> DEFINE r == Governed!Result(m.target, ToState(m), m.digest)
<1>1. /\ m \in Commands /\ m.operation \in Operations \ {"rebuild"}
      /\ Governed!Fits(m) /\ Applicable(m)
      /\ artifacts' = IF m.operation = "install" THEN Append(artifacts, m.digest)
                                                 ELSE artifacts
      /\ active' = Project(m, Len(transitions) + 1)
      /\ StageBar' = ToState(m)
      /\ ResultsBar' = ResultsBar \cup {[cmd |-> m, result |-> r]}
      /\ GivenBar' = [GivenBar EXCEPT ![m] = @ \cup {r}]
      /\ m.operation = "install" => CurrentBar' = CurrentBar
      /\ m.operation = "deactivate" => CurrentBar' = Governed!Nothing
      /\ m.operation \in {"activate", "rollback"} =>
           CurrentBar' = [revision |-> m.target, digest |-> m.digest]
  BY <1>m, ApplyAdds
<1> HIDE DEF r
<1>2. Governed!Finish(m, r)
  BY <1>1 DEF Governed!Finish, ResultsBar, GivenBar
<1>3. CASE m.operation = "install"
  <2>1. ToState(m) = "installed" /\ m.target = Len(artifacts) + 1
    BY <1>1, <1>3 DEF ToState, Applicable
  <2>2. active' = active
    BY <1>1, <1>3, <2>1 DEF Project
  <2>3. ShownBar' = ShownBar
    BY <2>2 DEF ShownBar
  <2>4. Governed!Install(m)
    BY <1>1, <1>2, <1>3, <2>1, <2>3
       DEF Governed!Install, StageBar, CurrentBar, ShownBar, r
  <2> QED BY <1>1, <2>4
<1>4. CASE m.operation \in {"activate", "rollback"}
  <2>1. /\ ToState(m) = "active" /\ m.target \in DOMAIN artifacts
        /\ artifacts[m.target] = m.digest /\ artifacts' = artifacts
        /\ m.operation = "rollback" => active # NoSkill
    BY <1>1, <1>4 DEF ToState, Applicable
  <2>2. ShownBar' = [revision |-> m.target, digest |-> m.digest]
    <3>1. active' = [revision |-> m.target, digest |-> m.digest,
                     sequence |-> Len(transitions) + 1]
      BY <1>1, <1>4, <2>1 DEF Project
    <3> QED BY <3>1 DEF ShownBar, Skill
  <2>3. ASSUME active # NoSkill PROVE ShownBar # Governed!Nothing
    <3>1. active.revision \in DOMAIN artifacts /\ DOMAIN artifacts = 1..Len(artifacts)
      BY <2>3, LenProperties DEF SkillInv, StoreInv, StoreTyped
    <3>2. ShownBar.revision = active.revision /\ Governed!Nothing.revision = 0
      BY DEF ShownBar, Skill, Governed!Nothing
    <3> QED BY <3>1, <3>2
  <2>4. Governed!IsInstalled(m)
    BY <2>1 DEF Governed!IsInstalled
  <2>5. Governed!Activate(m)
    BY <1>1, <1>2, <1>4, <2>1, <2>2, <2>3, <2>4
       DEF Governed!Activate, StageBar, CurrentBar, ShownBar, r
  <2> QED BY <1>1, <2>5
<1>5. CASE m.operation = "deactivate"
  <2>1. /\ ToState(m) = "inactive" /\ m.target \in DOMAIN artifacts
        /\ artifacts[m.target] = m.digest /\ artifacts' = artifacts
        /\ active.revision = m.target
    BY <1>1, <1>5 DEF ToState, Applicable
  <2>2. ShownBar' = Governed!Nothing /\ ShownBar.revision = m.target
    BY <1>1, <1>5, <2>1 DEF Project, ShownBar, Skill, NoSkill, Governed!Nothing
  <2>4. Governed!IsInstalled(m)
    BY <2>1 DEF Governed!IsInstalled
  <2>5. Governed!Deactivate(m)
    BY <1>1, <1>2, <1>5, <2>1, <2>2, <2>4
       DEF Governed!Deactivate, StageBar, CurrentBar, ShownBar, r
  <2> QED BY <1>1, <2>5
<1> QED BY <1>1, <1>3, <1>4, <1>5 DEF Operations

(* A rebuild shows what the operations made active, and answers with it. *)
LEMMA RebuildRefines ==
    ASSUME SkillInv, SkillInv', NEW c \in Callers, RebuildWrite(c)
    PROVE  \E m \in Commands : Governed!Rebuild(m)
<1>m. PICK m : m = cmd[c]
  OBVIOUS
<1>1. /\ m \in Commands /\ m.operation = "rebuild" /\ Stored(m) = {}
      /\ m.expected = Len(artifacts) /\ seen[c] = Len(transitions) /\ transitions # <<>>
  <2>1. pc[c] = "rebuilding" /\ CallGood(c)
    BY DEF RebuildWrite, SkillInv, CallsInv
  <2> QED BY <1>m, <2>1 DEF CallGood, Critical
<1>2. transitions \in Seq(Transitions)
  BY DEF SkillInv, StoreInv, StoreTyped
<1>3. /\ Len(transitions) \in Nat \ {0} /\ DOMAIN transitions = 1..Len(transitions)
      /\ SubSeq(transitions, 1, Len(transitions)) = transitions
  BY <1>1, <1>2, EmptySeq, LenProperties, SubSeqFull
<1> DEFINE last == transitions[Len(transitions)]
<1> DEFINE rebuilt == Replay(transitions)
<1> DEFINE result ==
        IF rebuilt # NoSkill
        THEN [revision |-> rebuilt.revision, state |-> "active",
              digest |-> rebuilt.digest, event |-> last.event]
        ELSE [revision |-> m.expected,
              state |-> IF last.cmd.operation = "install" THEN "installed" ELSE "inactive",
              digest |-> artifacts[m.expected], event |-> last.event]
<1>4. PICK r : r = result
  OBVIOUS
<1>5. /\ active' = rebuilt
      /\ rebuilds' = rebuilds \cup {[cmd |-> m, result |-> r]}
      /\ answers' = [answers EXCEPT ![m] = @ \cup {r}]
      /\ artifacts' = artifacts /\ transitions' = transitions
  BY <1>m, <1>1, <1>3, <1>4 DEF RebuildWrite
<1>6. \/ rebuilt = NoSkill /\ CurrentBar = Governed!Nothing
      \/ /\ rebuilt # NoSkill /\ CurrentBar # Governed!Nothing
         /\ CurrentBar.revision = rebuilt.revision /\ CurrentBar.digest = rebuilt.digest
  <2>1. CurrentBar = [revision |-> rebuilt.revision, digest |-> rebuilt.digest]
    BY DEF CurrentBar, Skill
  <2> HIDE DEF rebuilt
  <2>2. CASE rebuilt = NoSkill
    BY <2>1, <2>2 DEF NoSkill, Governed!Nothing
  <2>3. CASE rebuilt # NoSkill
    <3>1. rebuilt.revision \in DOMAIN artifacts /\ DOMAIN artifacts = 1..Len(artifacts)
      BY <2>3, ReplayTyped, LenProperties DEF SkillInv, StoreInv, StoreTyped, rebuilt
    <3> QED BY <2>1, <2>3, <3>1 DEF Governed!Nothing
  <2> QED BY <2>2, <2>3
<1>7. ASSUME rebuilt = NoSkill
      PROVE  StageBar = IF last.cmd.operation = "install" THEN "installed" ELSE "inactive"
  <2>1. Len(transitions) \in DOMAIN transitions
    BY <1>3
  <2>2. /\ last.cmd.operation \in Operations \ {"rebuild"} /\ last.to = ToState(last.cmd)
    BY <2>1, TransitionFields, CommandAssumption DEF SkillInv, TransitionGood
  <2>3. StageBar = ToState(last.cmd)
    BY <1>3, <2>2 DEF StageBar, StateAt
  <2>4. ASSUME last.cmd.operation \in {"activate", "rollback"} PROVE FALSE
    <3> DEFINE D == Deciding(transitions)
    <3>1. D \in SUBSET (1..Len(transitions)) /\ Len(transitions) \in D
          /\ \A y \in D : Len(transitions) >= y
      BY <1>3, <2>1, <2>4 DEF Deciding
    <3>2. Max(D) = Len(transitions)
      <4> HIDE DEF D
      <4> QED BY <1>3, <3>1, MaxIs
    <3>3. rebuilt = [revision |-> last.cmd.target, digest |-> artifacts[last.cmd.target],
                     sequence |-> Len(transitions)]
      BY <2>4, <3>1, <3>2, ReplayIs DEF ReplayOn
    <3> QED BY <1>3, <1>7, <3>3 DEF NoSkill
  <2> QED BY <2>2, <2>3, <2>4 DEF ToState, Operations
<1> DEFINE v == IF CurrentBar # Governed!Nothing
                THEN Governed!Result(CurrentBar.revision, "active", CurrentBar.digest)
                ELSE Governed!Result(Len(artifacts), StageBar, artifacts[Len(artifacts)])
<1>8. Plain(r) = v
  <2> HIDE DEF rebuilt, last
  <2>1. CASE rebuilt = NoSkill
    BY <1>1, <1>4, <1>6, <1>7, <2>1 DEF Plain, Governed!Result
  <2>2. CASE rebuilt # NoSkill
    BY <1>4, <1>6, <2>2 DEF Plain, Governed!Result
  <2> QED BY <2>1, <2>2
<1> HIDE DEF result, last, v
<1>9. Governed!Fits(m)
  BY <1>1, NewFits
<1>10. GivenBar' = [GivenBar EXCEPT ![m] = @ \cup {Plain(r)}]
  BY <1>1, <1>5, GivenGrows
<1>11. ResultsBar' = ResultsBar \cup {[cmd |-> m, result |-> Plain(r)]}
  <2>0. PICK e : e = [cmd |-> m, result |-> r]
    OBVIOUS
  <2>1. RebuildEntry(e) = [cmd |-> m, result |-> Plain(r)]
    BY <2>0 DEF RebuildEntry
  <2>2. EntriesOf(transitions, rebuilds \cup {e}) =
          EntriesOf(transitions, rebuilds) \cup {RebuildEntry(e)}
    BY DEF EntriesOf
  <2>3. ResultsBar' = EntriesOf(transitions, rebuilds \cup {e})
    BY <1>5, <2>0, EntriesAre
  <2>4. ResultsBar = EntriesOf(transitions, rebuilds)
    BY EntriesAre
  <2> QED BY <2>1, <2>2, <2>3, <2>4
<1>12. /\ StageBar' = StageBar /\ CurrentBar' = CurrentBar /\ ShownBar' = CurrentBar
  BY <1>5 DEF StageBar, CurrentBar, ShownBar, StateAt, Replay
<1>13. Governed!Finish(m, v)
  BY <1>8, <1>10, <1>11 DEF Governed!Finish, ResultsBar, GivenBar
<1>14. artifacts # <<>>
  <2>1. 1 \in DOMAIN transitions
    BY <1>3
  <2>2. transitions[1].cmd.target \in DOMAIN artifacts
    BY <2>1 DEF SkillInv, StoreInv, HistoryInv, TransitionGood
  <2> QED BY <2>2
<1>15. Governed!Rebuild(m)
  BY <1>1, <1>5, <1>9, <1>12, <1>13, <1>14
     DEF Governed!Rebuild, StageBar, CurrentBar, ShownBar, v
<1> QED BY <1>1, <1>15

(* Every step of the lifecycle is an abstract step or a stuttering step. *)
LEMMA SkillStepRefines ==
    ASSUME SkillInv, SkillInv', LifecycleNext
    PROVE  Governed!Next \/ UNCHANGED Governed!vars
<1>1. ASSUME UNCHANGED <<store, answers>> PROVE UNCHANGED Governed!vars
  BY <1>1, SkillQuiet DEF store
<1>2. ASSUME NEW c \in Callers, pc[c] # "idle", Answer(c) PROVE Governed!Next
  BY <1>2, AnswerRefines DEF Governed!Next
<1>3. ASSUME NEW c \in Callers, NEW m \in Commands, Call(c, m) PROVE UNCHANGED Governed!vars
  BY <1>1, <1>3 DEF Call
<1>4. ASSUME NEW c \in Callers, Step(c) PROVE Governed!Next \/ UNCHANGED Governed!vars
  <2>1. ASSUME LookupReplay(c) \/ DraftReplay(c) \/ RebuildReplay(c) PROVE Governed!Next
    BY <1>2, <2>1 DEF LookupReplay, DraftReplay, RebuildReplay, Drafting
  <2>2. ASSUME LookupConflicts(c) \/ ValidationFails(c) \/ DraftRefused(c)
                 \/ ApplyRefused(c) \/ RebuildRefused(c)
        PROVE  UNCHANGED Governed!vars
    BY <1>1, <2>2 DEF LookupConflicts, ValidationFails, DraftRefused, ApplyRefused,
                      RebuildRefused, Raise
  <2>3. ASSUME LookupMisses(c) \/ Authorize(c) \/ AuthorizeLock(c) \/ LockOperation(c)
                 \/ Draft(c) \/ RebuildRead(c)
        PROVE  UNCHANGED Governed!vars
    BY <1>1, <2>3 DEF LookupMisses, Authorize, AuthorizeLock, LockOperation, Draft, RebuildRead
  <2>4. ASSUME Apply(c) PROVE Governed!Next
    BY <2>4, ApplyRefines DEF Governed!Next
  <2>5. ASSUME RebuildWrite(c) PROVE Governed!Next
    BY <2>5, RebuildRefines DEF Governed!Next
  <2> QED BY <1>4, <2>1, <2>2, <2>3, <2>4, <2>5 DEF Step
<1>5. ASSUME NEW c \in Callers, Abort(c) PROVE UNCHANGED Governed!vars
  BY <1>1, <1>5 DEF Abort, Raise
<1>6. ASSUME LoseProjection PROVE Governed!Next
  <2>1. /\ artifacts' = artifacts /\ transitions' = transitions
        /\ rebuilds' = rebuilds /\ answers' = answers /\ active' = NoSkill
    BY <1>6 DEF LoseProjection
  <2>2. /\ StageBar' = StageBar /\ CurrentBar' = CurrentBar /\ ResultsBar' = ResultsBar
        /\ GivenBar' = GivenBar /\ ShownBar' = Governed!Nothing
    BY <2>1 DEF StageBar, CurrentBar, ShownBar, ResultsBar, GivenBar, StateAt, Replay,
                TransitionResult, Skill, NoSkill, Governed!Nothing
  <2>3. Governed!Lose
    BY <2>1, <2>2 DEF Governed!Lose, StageBar, CurrentBar, ShownBar, ResultsBar, GivenBar
  <2> QED BY <2>3 DEF Governed!Next
<1>7. ASSUME AppendOther PROVE UNCHANGED Governed!vars
  BY <1>7, SkillQuiet DEF AppendOther
<1> QED BY <1>3, <1>4, <1>5, <1>6, <1>7 DEF LifecycleNext, GenericAppend, ForeignAppend

LEMMA SkillInitRefines ==
    ASSUME Init
    PROVE  Governed!Init
<1>1. /\ transitions = <<>> /\ artifacts = <<>> /\ rebuilds = {} /\ active = NoSkill
      /\ answers = [m \in Commands |-> {}] /\ Len(transitions) = 0
      /\ DOMAIN transitions = {}
  BY DEF Init
<1>2. StageBar = "none" /\ ShownBar = Governed!Nothing
  BY <1>1 DEF StageBar, StateAt, ShownBar, Skill, NoSkill, Governed!Nothing
<1>3. CurrentBar = Governed!Nothing
  BY <1>1 DEF CurrentBar, Replay, Skill, NoSkill, Governed!Nothing
<1>4. ResultsBar = {} /\ GivenBar = [m \in Commands |-> {}]
  BY <1>1 DEF ResultsBar, GivenBar, Range
<1> QED BY <1>1, <1>2, <1>3, <1>4
        DEF Governed!Init, StageBar, CurrentBar, ShownBar, ResultsBar, GivenBar

(* What is stored, shown and answered changes as if every operation took   *)
(* effect at once, at most once and on the revisions it expects.           *)
THEOREM SkillRefinement == LifecycleSpec => ImplementsGovernedSkill
<1>1. Init => Governed!Init
  BY SkillInitRefines
<1>2. SkillInv /\ SkillInv' /\ [LifecycleNext]_lifecycleVars
        => [Governed!Next]_(Governed!vars)
  <2>1. ASSUME UNCHANGED lifecycleVars PROVE UNCHANGED Governed!vars
    BY <2>1, SkillQuiet DEF lifecycleVars
  <2> QED BY <2>1, SkillStepRefines
<1> QED BY <1>1, <1>2, SkillInductive, PTL
        DEF LifecycleSpec, ImplementsGovernedSkill, Governed!Spec

===============================================================================
