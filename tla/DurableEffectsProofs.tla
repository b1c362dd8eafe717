------------------------- MODULE DurableEffectsProofs -------------------------
(***************************************************************************)
(* Proofs about DurableEffects for every set of kernels and requests and   *)
(* every lease duration.                                                   *)
(*                                                                         *)
(* None of the safety properties is inductive by itself.  What makes them  *)
(* so is ownership: the kernel that prepared a request is the attempt its  *)
(* row names for ever, so at most one kernel is past the preparation of a  *)
(* request, and only that kernel runs the executor or completes.           *)
(***************************************************************************)
EXTENDS DurableEffects, TLAPS

(* The labels of a kernel that owns the row it is working on. *)
OwnerPCs == {"prepared", "running", "executing", "ran", "reconcile"}

(* A kernel past the preparation is the attempt its row names, and its     *)
(* executor is invoked exactly on the way to the label "executing".        *)
OwnerInv ==
    \A k \in Kernels :
        /\ pc[k] # "idle" => job[k] \in Requests
        /\ pc[k] \in OwnerPCs => /\ row[job[k]].state # "absent"
                                 /\ row[job[k]].attempt = k
        /\ pc[k] \in {"prepared", "running"} => applied[job[k]] = 0
        /\ pc[k] = "executing" => applied[job[k]] = 1
        /\ beat[k] => pc[k] \in {"running", "executing"}

(* A kernel that is about to complete has an outcome, and only a finished  *)
(* executor reports success.                                               *)
ResultInv ==
    \A k \in Kernels :
        pc[k] \in {"ran", "reconcile"} =>
            /\ result[k] \in Outcomes
            /\ result[k].status = "succeeded" => applied[job[k]] = 1

(* An unresolved COMMIT belongs to a live row, whose owner is waiting for  *)
(* it or has gone; a row is completed only by an owner past the label      *)
(* "ran", after the executor ran.                                          *)
CommitInv ==
    /\ \A r \in Requests :
          inDoubt[r] # NoOutcome =>
              /\ IsLive(r)
              /\ inDoubt[r].status = "succeeded" => applied[r] = 1
    /\ \A k \in Kernels :
          pc[k] \in {"prepared", "running", "executing", "ran"} =>
              /\ inDoubt[job[k]] = NoOutcome
              /\ row[job[k]].state # "completed"

(* An absent row has no effect; a terminal one has the outcome its state   *)
(* names.                                                                  *)
RowInv ==
    \A r \in Requests :
        /\ applied[r] <= 1
        /\ row[r].state = "absent" => applied[r] = 0
        /\ IsTerminal(r) => /\ row[r].outcome \in Outcomes
                            /\ row[r].state = TerminalState(row[r].outcome)

(* Every prepared request has its intent in the ledger and its grant       *)
(* consumed.                                                               *)
IntentInv ==
    \A r \in Requests :
        row[r].state # "absent" =>
            /\ \E i \in DOMAIN evidence : evidence[i] = Intent(r)
            /\ r \in consumed

IndInv ==
    /\ TypeOK
    /\ OwnerInv
    /\ ResultInv
    /\ CommitInv
    /\ RowInv
    /\ IntentInv
    /\ LedgerMatchesRow
    /\ ToldIsDurable

-----------------------------------------------------------------------------
(* The records *)

(* The outcomes the code builds, and the envelopes that carry them, are    *)
(* well-typed; no built outcome is the absent one.                         *)
LEMMA OutcomeTypes ==
    ASSUME NEW k \in Kernels
    PROVE  /\ OwnerOutcome(k, "succeeded") \in Outcomes
           /\ OwnerOutcome(k, "indeterminate") \in Outcomes
           /\ RecoveryOutcome(k) \in Outcomes
           /\ OwnerOutcome(k, "indeterminate").status # "succeeded"
           /\ TerminalState(RecoveryOutcome(k)) = "indeterminate"
  BY DEF OwnerOutcome, RecoveryOutcome, Outcomes, TerminalState

(* Every outcome has a terminal state, completed only for a success. *)
LEMMA TerminalStateType ==
    ASSUME NEW o \in Outcomes
    PROVE  /\ TerminalState(o) \in Terminal
           /\ TerminalState(o) = "completed" => o.status = "succeeded"
  BY DEF TerminalState, Terminal

(* The two kinds of envelope. *)
LEMMA IntentType ==
    ASSUME NEW r \in Requests
    PROVE  Intent(r) \in Events /\ Intent(r).kind = "intent"
  BY DEF Intent, Events

(* An outcome envelope carries its request and its outcome. *)
LEMMA EventTypes ==
    ASSUME NEW r \in Requests, NEW o \in Outcomes
    PROVE  /\ OutcomeEvent(r, o) \in Events
           /\ OutcomeEvent(r, o).kind = "outcome"
           /\ OutcomeEvent(r, o).req = r
           /\ OutcomeEvent(r, o).outcome = o
  BY DEF OutcomeEvent, Events

(* What each transaction does to a row.  Prepare inserts it, owned by k. *)
LEMMA PreparedRowFacts ==
    ASSUME NEW k \in Kernels
    PROVE  /\ PreparedRow(k) \in Rows
           /\ PreparedRow(k).state = "prepared"
           /\ PreparedRow(k).attempt = k
  BY LeaseAssumption DEF PreparedRow, Rows, States, Live

(* renew_effect keeps the attempt. *)
LEMMA RenewedRowFacts ==
    ASSUME NEW x \in Rows
    PROVE  /\ RenewedRow(x) \in Rows
           /\ RenewedRow(x).state = "executing"
           /\ RenewedRow(x).attempt = x.attempt
<1> DEFINE y == [x EXCEPT !.state = "executing"]
<1>1. y \in Rows
  BY DEF Rows, States, Live
<1>2. [y EXCEPT !.lease = LeaseTicks] \in Rows
  <2> HIDE DEF y
  <2> QED BY <1>1, LeaseAssumption DEF Rows
<1>3. RenewedRow(x) \in Rows
  BY <1>2 DEF RenewedRow
<1>4. RenewedRow(x).state = "executing" /\ RenewedRow(x).attempt = x.attempt
  BY DEF RenewedRow, Rows
<1> QED BY <1>3, <1>4

(* complete_effect keeps the attempt and stores the outcome. *)
LEMMA CompletedRowFacts ==
    ASSUME NEW x \in Rows, NEW o \in Outcomes
    PROVE  /\ CompletedRow(x, o) \in Rows
           /\ CompletedRow(x, o).state = TerminalState(o)
           /\ CompletedRow(x, o).attempt = x.attempt
           /\ CompletedRow(x, o).outcome = o
<1> DEFINE y == [x EXCEPT !.state = TerminalState(o)]
<1> DEFINE z == [y EXCEPT !.version = @ + 1]
<1>1. y \in Rows
  BY TerminalStateType DEF Rows, States
<1>2. z \in Rows
  <2> HIDE DEF y
  <2> QED BY <1>1 DEF Rows
<1>3. [z EXCEPT !.outcome = o] \in Rows
  <2> HIDE DEF z
  <2> QED BY <1>2 DEF Rows
<1>4. CompletedRow(x, o) \in Rows
  BY <1>3 DEF CompletedRow
<1>5. /\ CompletedRow(x, o).state = TerminalState(o)
      /\ CompletedRow(x, o).attempt = x.attempt
      /\ CompletedRow(x, o).outcome = o
  BY DEF CompletedRow, Rows
<1> QED BY <1>4, <1>5

(* recover_effect keeps the attempt and stores its own outcome. *)
LEMMA RecoveredRowFacts ==
    ASSUME NEW x \in Rows, NEW k \in Kernels
    PROVE  /\ RecoveredRow(x, k) \in Rows
           /\ RecoveredRow(x, k).state = "indeterminate"
           /\ RecoveredRow(x, k).attempt = x.attempt
           /\ RecoveredRow(x, k).outcome = RecoveryOutcome(k)
<1> DEFINE y == [x EXCEPT !.state = "indeterminate"]
<1> DEFINE z == [y EXCEPT !.version = @ + 1]
<1> DEFINE w == [z EXCEPT !.gen = @ + 1]
<1>1. y \in Rows
  BY DEF Rows, States, Terminal
<1>2. z \in Rows
  <2> HIDE DEF y
  <2> QED BY <1>1 DEF Rows
<1>3. w \in Rows
  <2> HIDE DEF z
  <2> QED BY <1>2 DEF Rows
<1>4. [w EXCEPT !.outcome = RecoveryOutcome(k)] \in Rows
  <2> HIDE DEF w
  <2> QED BY <1>3, OutcomeTypes DEF Rows
<1>5. RecoveredRow(x, k) \in Rows
  BY <1>4 DEF RecoveredRow
<1>6. /\ RecoveredRow(x, k).state = "indeterminate"
      /\ RecoveredRow(x, k).attempt = x.attempt
      /\ RecoveredRow(x, k).outcome = RecoveryOutcome(k)
  BY DEF RecoveredRow, Rows
<1> QED BY <1>5, <1>6

(* The clock takes a tick off a lease that has one. *)
LEMMA TickedRowFacts ==
    ASSUME NEW x \in Rows, x.lease > 0
    PROVE  /\ TickedRow(x) \in Rows
           /\ TickedRow(x).state = x.state
           /\ TickedRow(x).attempt = x.attempt
           /\ TickedRow(x).outcome = x.outcome
  BY LeaseAssumption DEF TickedRow, Rows

(* A request without a row. *)
LEMMA AbsentRowFacts == AbsentRow \in Rows /\ AbsentRow.state = "absent"
  BY LeaseAssumption DEF AbsentRow, Rows, States

(* Appending to the ledger keeps what is there and adds the new envelope   *)
(* at the end.                                                             *)
LEMMA LedgerAppend ==
    ASSUME NEW s \in Seq(Events), NEW e \in Events
    PROVE  /\ Append(s, e) \in Seq(Events)
           /\ DOMAIN s = 1..Len(s)
           /\ Len(s) \in Nat
           /\ DOMAIN Append(s, e) = 1..(Len(s) + 1)
           /\ \A i \in DOMAIN s : Append(s, e)[i] = s[i]
           /\ Append(s, e)[Len(s) + 1] = e
  OBVIOUS

-----------------------------------------------------------------------------
(* Type correctness *)

(* The building blocks of the actions keep the types. *)
LEMMA TellTyped ==
    ASSUME TypeOK, NEW r \in Requests, NEW o \in Outcomes,
           Tell(r, o) \/ UNCHANGED told
    PROVE  told' \in [Requests -> SUBSET Outcomes]
<1>1. told' = told \/ told' = [told EXCEPT ![r] = told[r] \cup {o}]
  BY DEF Tell
<1>2. told \in [Requests -> SUBSET Outcomes]
  BY DEF TypeOK
<1>3. told[r] \cup {o} \in SUBSET Outcomes
  BY <1>2
<1> QED BY <1>1, <1>2, <1>3

(* A renewal keeps the type of the rows. *)
LEMMA RenewTyped ==
    ASSUME TypeOK, NEW r \in Requests, Renew(r) \/ UNCHANGED row
    PROVE  row' \in [Requests -> Rows]
<1>1. row' = row \/ row' = [row EXCEPT ![r] = RenewedRow(row[r])]
  BY DEF Renew
<1>2. row \in [Requests -> Rows]
  BY DEF TypeOK
<1>3. RenewedRow(row[r]) \in Rows
  BY <1>2, RenewedRowFacts
<1> QED BY <1>1, <1>2, <1>3

(* A completion's COMMIT keeps the types of rows and ledger. *)
LEMMA CommitTyped ==
    ASSUME TypeOK, NEW r \in Requests, NEW o \in Outcomes,
           CommitCompletion(r, o) \/ UNCHANGED <<row, evidence>>
    PROVE  row' \in [Requests -> Rows] /\ evidence' \in Seq(Events)
<1>1. \/ /\ row' = [row EXCEPT ![r] = CompletedRow(row[r], o)]
         /\ evidence' = Append(evidence, OutcomeEvent(r, o))
      \/ row' = row /\ evidence' = evidence
  BY DEF CommitCompletion
<1>2. row \in [Requests -> Rows] /\ evidence \in Seq(Events)
  BY DEF TypeOK
<1>3. CompletedRow(row[r], o) \in Rows
  BY <1>2, CompletedRowFacts
<1>4. Append(evidence, OutcomeEvent(r, o)) \in Seq(Events)
  BY <1>2, EventTypes, LedgerAppend
<1> QED BY <1>1, <1>2, <1>3, <1>4

(* Leaving a dispatch keeps the types of a kernel's locals. *)
LEMMA LeaveTyped ==
    ASSUME TypeOK, NEW k \in Kernels, Leave(k)
    PROVE  /\ pc' \in [Kernels -> PCs]
           /\ job' \in [Kernels -> Requests \cup {None}]
           /\ result' \in [Kernels -> Outcomes \cup {NoOutcome}]
  BY DEF TypeOK, Leave, PCs

(* So does moving on to a label. *)
LEMMA GotoTyped ==
    ASSUME TypeOK, NEW k \in Kernels, NEW label \in PCs, Goto(k, label)
    PROVE  /\ pc' \in [Kernels -> PCs]
           /\ job' \in [Kernels -> Requests \cup {None}]
  BY DEF TypeOK, Goto

(* Every action keeps the types. *)
LEMMA TypeOKStep == IndInv /\ [Next]_vars => TypeOK'
<1> SUFFICES ASSUME IndInv, [Next]_vars PROVE TypeOK'
  OBVIOUS
<1>1. ASSUME NEW k \in Kernels, Prepare(k) PROVE TypeOK'
  <2>1. job[k] \in Requests
    BY <1>1 DEF Prepare, IndInv, OwnerInv
  <2>2. row' \in [Requests -> Rows]
    BY <1>1, <2>1, PreparedRowFacts DEF Prepare, IndInv, TypeOK
  <2>3. evidence' \in Seq(Events)
    BY <1>1, <2>1, IntentType, LedgerAppend
    DEF Prepare, RecordIntent, IndInv, TypeOK
  <2>4. /\ pc' \in [Kernels -> PCs]
        /\ job' \in [Kernels -> Requests \cup {None}]
        /\ result' \in [Kernels -> Outcomes \cup {NoOutcome}]
    BY <1>1, <2>1 DEF Prepare, Leave, Goto, IndInv, TypeOK, PCs
  <2> QED BY <1>1, <2>1, <2>2, <2>3, <2>4
          DEF Prepare, IndInv, TypeOK, world, authority
<1>2. ASSUME NEW k \in Kernels, PrepareNotCreated(k) PROVE TypeOK'
  <2>1. told' \in [Requests -> SUBSET Outcomes]
    <3>1. PICK r \in Requests : r = job[k]
      BY <1>2 DEF PrepareNotCreated, IndInv, OwnerInv
    <3>2. CASE IsTerminal(r) /\ Tell(r, row[r].outcome)
      BY <3>2, TellTyped DEF IndInv, RowInv
    <3>3. CASE UNCHANGED told
      BY <3>3 DEF IndInv, TypeOK
    <3> QED BY <1>2, <3>1, <3>2, <3>3 DEF PrepareNotCreated
  <2>2. Leave(k) /\ TypeOK
    BY <1>2 DEF PrepareNotCreated, IndInv
  <2> QED BY <1>2, <2>1, <2>2, LeaveTyped
          DEF PrepareNotCreated, IndInv, TypeOK, db, world, authority
<1>3. ASSUME NEW k \in Kernels, FirstRenewal(k) PROVE TypeOK'
  <2>1. job[k] \in Requests
    BY <1>3 DEF FirstRenewal, IndInv, OwnerInv
  <2>2. row' \in [Requests -> Rows]
    BY <1>3, <2>1, RenewTyped DEF FirstRenewal, IndInv
  <2>3. /\ pc' \in [Kernels -> PCs]
        /\ job' \in [Kernels -> Requests \cup {None}]
        /\ result' \in [Kernels -> Outcomes \cup {NoOutcome}]
        /\ beat' \in [Kernels -> BOOLEAN]
    BY <1>3 DEF FirstRenewal, Leave, Goto, IndInv, TypeOK, PCs
  <2> QED BY <1>3, <2>2, <2>3 DEF FirstRenewal, IndInv, TypeOK, world, authority
<1>4. ASSUME NEW k \in Kernels, FirstRenewalFails(k) PROVE TypeOK'
  BY <1>4 DEF FirstRenewalFails, Leave, IndInv, TypeOK, OwnerInv, ResultInv,
         RowInv, OwnerPCs, PCs, db, local, world, authority
<1>5. ASSUME NEW k \in Kernels, ExecutorStart(k) PROVE TypeOK'
  BY <1>5 DEF ExecutorStart, Goto, IndInv, TypeOK, OwnerInv, ResultInv, RowInv,
         OwnerPCs, PCs, db, local, world, authority
<1>6. ASSUME NEW k \in Kernels, ExecutorSucceeds(k) PROVE TypeOK'
  BY <1>6, OutcomeTypes DEF ExecutorSucceeds, Goto, StopHeartbeat, IndInv,
         TypeOK, OwnerInv, ResultInv, RowInv, OwnerPCs, PCs, db, local, world,
         authority
<1>7. ASSUME NEW k \in Kernels, ExecutorFails(k) PROVE TypeOK'
  <2>1. job[k] \in Requests
    BY <1>7 DEF ExecutorFails, IndInv, OwnerInv
  <2>2. /\ pc' \in [Kernels -> PCs]
        /\ job' \in [Kernels -> Requests \cup {None}]
        /\ result' \in [Kernels -> Outcomes \cup {NoOutcome}]
    <3>1. CASE Leave(k)
      BY <3>1, LeaveTyped DEF IndInv
    <3>2. CASE /\ Goto(k, "ran")
               /\ result' = [result EXCEPT ![k] = OwnerOutcome(k, "indeterminate")]
      BY <3>2, GotoTyped, OutcomeTypes DEF IndInv, TypeOK, PCs
    <3> QED BY <1>7, <3>1, <3>2 DEF ExecutorFails
  <2>3. beat' \in [Kernels -> BOOLEAN] /\ lateBeat' \in SUBSET (Kernels \X Requests)
    BY <1>7, <2>1 DEF ExecutorFails, StopHeartbeat, IndInv, TypeOK
  <2>4. active' \in [Requests -> BOOLEAN]
    BY <1>7, <2>1 DEF ExecutorFails, IndInv, TypeOK
  <2> QED BY <1>7, <2>2, <2>3, <2>4 DEF ExecutorFails, IndInv, TypeOK, db, authority
<1>8. ASSUME NEW k \in Kernels, BuildOutcomeFails(k) PROVE TypeOK'
  BY <1>8 DEF BuildOutcomeFails, Leave, RevertIfActive, IndInv, TypeOK,
         OwnerInv, ResultInv, RowInv, OwnerPCs, PCs, db, local, world,
         authority
<1>9. ASSUME NEW k \in Kernels, Complete(k) PROVE TypeOK'
  <2>1. job[k] \in Requests /\ result[k] \in Outcomes
    BY <1>9 DEF Complete, IndInv, OwnerInv, ResultInv
  <2>2. row' \in [Requests -> Rows] /\ evidence' \in Seq(Events)
    BY <1>9, <2>1, CommitTyped DEF Complete, IndInv
  <2>4. inDoubt' \in [Requests -> Outcomes \cup {NoOutcome}]
    BY <1>9, <2>1 DEF Complete, IndInv, TypeOK
  <2>5. /\ pc' \in [Kernels -> PCs]
        /\ job' \in [Kernels -> Requests \cup {None}]
        /\ result' \in [Kernels -> Outcomes \cup {NoOutcome}]
    BY <1>9, <2>1 DEF Complete, Leave, Goto, IndInv, TypeOK, PCs
  <2>6. told' \in [Requests -> SUBSET Outcomes]
    BY <1>9, <2>1, TellTyped DEF Complete, IndInv
  <2> QED BY <1>9, <2>2, <2>4, <2>5, <2>6
          DEF Complete, IndInv, TypeOK, world, authority
<1>10. ASSUME NEW k \in Kernels, CompleteRaises(k) PROVE TypeOK'
  BY <1>10 DEF CompleteRaises, Goto, IndInv, TypeOK, OwnerInv, ResultInv,
         RowInv, OwnerPCs, PCs, db, local, world, authority
<1>11. ASSUME NEW k \in Kernels, Reconcile(k) PROVE TypeOK'
  <2>1. job[k] \in Requests /\ result[k] \in Outcomes
    BY <1>11 DEF Reconcile, IndInv, OwnerInv, ResultInv
  <2>2. /\ pc' \in [Kernels -> PCs]
        /\ job' \in [Kernels -> Requests \cup {None}]
        /\ result' \in [Kernels -> Outcomes \cup {NoOutcome}]
    BY <1>11 DEF Reconcile, Leave, IndInv, TypeOK, PCs
  <2>3. active' \in [Requests -> BOOLEAN]
    BY <1>11, <2>1 DEF Reconcile, RevertIfActive, IndInv, TypeOK
  <2>4. told' \in [Requests -> SUBSET Outcomes]
    BY <1>11, <2>1, TellTyped DEF Reconcile, IndInv
  <2> QED BY <1>11, <2>2, <2>3, <2>4 DEF Reconcile, IndInv, TypeOK, db, authority
<1>12. ASSUME NEW k \in Kernels, Heartbeat(k) PROVE TypeOK'
  <2>1. job[k] \in Requests
    BY <1>12 DEF Heartbeat, IndInv, OwnerInv
  <2>2. row' \in [Requests -> Rows]
    BY <1>12, <2>1, RenewTyped DEF Heartbeat, IndInv
  <2>3. beat' \in [Kernels -> BOOLEAN]
    BY <1>12 DEF Heartbeat, IndInv, TypeOK
  <2> QED BY <1>12, <2>2, <2>3 DEF Heartbeat, IndInv, TypeOK, world, authority
<1>13. ASSUME NEW k \in Kernels, Crash(k) PROVE TypeOK'
  BY <1>13 DEF Crash, Leave, IndInv, TypeOK, OwnerInv, ResultInv, RowInv,
         OwnerPCs, PCs, db, local, world, authority
<1>14. ASSUME NEW k \in Kernels, NEW r \in Requests, DispatchNew(k, r) PROVE TypeOK'
  BY <1>14 DEF DispatchNew, IndInv, TypeOK, OwnerInv, ResultInv, RowInv,
         OwnerPCs, PCs, db, local, world, authority
<1>15. ASSUME NEW k \in Kernels, NEW r \in Requests, ReplayTerminal(k, r) PROVE TypeOK'
  BY <1>15 DEF ReplayTerminal, Tell, IndInv, TypeOK, OwnerInv, ResultInv,
         RowInv, OwnerPCs, PCs, db, local, world, authority
<1>16. ASSUME NEW k \in Kernels, NEW r \in Requests, Recover(k, r) PROVE TypeOK'
  <2>1. row' \in [Requests -> Rows]
    BY <1>16, RecoveredRowFacts DEF Recover, IndInv, TypeOK
  <2>2. evidence' \in Seq(Events)
    BY <1>16, OutcomeTypes, EventTypes, LedgerAppend DEF Recover, IndInv, TypeOK
  <2>3. told' \in [Requests -> SUBSET Outcomes]
    BY <1>16, OutcomeTypes, TellTyped DEF Recover, IndInv
  <2> QED BY <1>16, <2>1, <2>2, <2>3
          DEF Recover, IndInv, TypeOK, local, world, authority
<1>17. ASSUME NEW k \in Kernels, NEW r \in Requests, LateRenewal(k, r) PROVE TypeOK'
  <2>1. row' \in [Requests -> Rows]
    BY <1>17, RenewTyped DEF LateRenewal, IndInv
  <2>2. lateBeat' \in SUBSET (Kernels \X Requests)
    BY <1>17 DEF LateRenewal, IndInv, TypeOK
  <2> QED BY <1>17, <2>1, <2>2 DEF LateRenewal, IndInv, TypeOK, world, authority
<1>18. ASSUME NEW r \in Requests, ResolveInDoubt(r) PROVE TypeOK'
  <2>1. inDoubt[r] \in Outcomes
    BY <1>18 DEF ResolveInDoubt, IndInv, TypeOK
  <2>2. row' \in [Requests -> Rows] /\ evidence' \in Seq(Events)
    BY <1>18, <2>1, CommitTyped DEF ResolveInDoubt, IndInv
  <2>4. inDoubt' \in [Requests -> Outcomes \cup {NoOutcome}]
    BY <1>18 DEF ResolveInDoubt, IndInv, TypeOK
  <2> QED BY <1>18, <2>2, <2>4
          DEF ResolveInDoubt, IndInv, TypeOK, local, world, authority
<1>19. ASSUME NEW r \in Requests, ActorAges(r) PROVE TypeOK'
  BY <1>19 DEF ActorAges, IndInv, TypeOK, OwnerInv, ResultInv, RowInv,
         OwnerPCs, PCs, db, local, world, authority
<1>20. ASSUME NEW r \in Requests, GrantLapses(r) PROVE TypeOK'
  BY <1>20 DEF GrantLapses, IndInv, TypeOK, OwnerInv, ResultInv, RowInv,
         OwnerPCs, PCs, db, local, world, authority
<1>21. CASE Tick
  BY <1>21, TickedRowFacts DEF Tick, IndInv, TypeOK, OwnerInv, ResultInv,
         RowInv, OwnerPCs, PCs, db, local, world, authority
<1>22. CASE UNCHANGED vars
  BY <1>22 DEF vars, IndInv, TypeOK, OwnerInv, ResultInv, RowInv, OwnerPCs,
         PCs, db, local, world, authority
<1> QED BY <1>1, <1>2, <1>3, <1>4, <1>5, <1>6, <1>7, <1>8, <1>9, <1>10, <1>11,
       <1>12, <1>13, <1>14, <1>15, <1>16, <1>17, <1>18, <1>19, <1>20, <1>21,
       <1>22 DEF Next, Step

-----------------------------------------------------------------------------
(* What the transactions leave alone *)

(* A renewal keeps every row's attempt and keeps live rows live; rows that *)
(* are absent or terminal do not change.                                   *)
LEMMA RenewKeeps ==
    ASSUME TypeOK, NEW r \in Requests,
           (IsLive(r) /\ Renew(r)) \/ UNCHANGED row,
           NEW q \in Requests
    PROVE  /\ row'[q].attempt = row[q].attempt
           /\ IsLive(q) => IsLive(q)'
           /\ ~IsLive(q) => row'[q] = row[q]
<1>1. row \in [Requests -> Rows]
  BY DEF TypeOK
<1>2. CASE IsLive(r) /\ Renew(r)
  <2>1. row'[q] = IF q = r THEN RenewedRow(row[r]) ELSE row[q]
    BY <1>1, <1>2 DEF Renew
  <2> QED BY <1>1, <1>2, <2>1, RenewedRowFacts DEF IsLive, Live
<1>3. CASE UNCHANGED row
  BY <1>3 DEF IsLive
<1> QED BY <1>2, <1>3

(* So do the first renewal, the heartbeat and a renewal that outlived it:  *)
(* renew_effect matches live rows only.                                    *)
LEMMA RenewalFrame ==
    ASSUME IndInv, NEW k \in Kernels,
           \/ FirstRenewal(k) \/ Heartbeat(k)
           \/ \E r \in Requests : LateRenewal(k, r)
    PROVE  \A q \in Requests : /\ row'[q].attempt = row[q].attempt
                               /\ row'[q] = row[q] \/ (IsLive(q) /\ IsLive(q)')
<1>1. \E r \in Requests : (IsLive(r) /\ Renew(r)) \/ UNCHANGED row
  BY DEF FirstRenewal, Heartbeat, LateRenewal, RenewMatches, IndInv, OwnerInv
<1> QED BY <1>1, RenewKeeps DEF IndInv

(* A completion changes one live row, for good, and keeps its attempt. *)
LEMMA CommitKeeps ==
    ASSUME TypeOK, NEW r \in Requests, NEW o \in Outcomes, IsLive(r),
           CommitCompletion(r, o), NEW q \in Requests
    PROVE  /\ row'[q].attempt = row[q].attempt
           /\ q # r => row'[q] = row[q]
           /\ row'[r].state = TerminalState(o)
           /\ row'[r].state \in Terminal
           /\ row'[r].outcome = o
<1>1. row \in [Requests -> Rows]
  BY DEF TypeOK
<1>2. row'[q] = IF q = r THEN CompletedRow(row[r], o) ELSE row[q]
  BY <1>1 DEF CommitCompletion
<1>3. row'[r] = CompletedRow(row[r], o)
  BY <1>1 DEF CommitCompletion
<1> QED BY <1>1, <1>2, <1>3, CompletedRowFacts, TerminalStateType

(* So does a recovery. *)
LEMMA RecoverKeeps ==
    ASSUME TypeOK, NEW k \in Kernels, NEW r \in Requests, Recover(k, r),
           NEW q \in Requests
    PROVE  /\ row'[q].attempt = row[q].attempt
           /\ q # r => row'[q] = row[q]
           /\ row'[r].state = "indeterminate"
           /\ row'[r].outcome = RecoveryOutcome(k)
<1>1. row \in [Requests -> Rows]
  BY DEF TypeOK
<1>2. row' = [row EXCEPT ![r] = RecoveredRow(row[r], k)]
  BY DEF Recover
<1> QED BY <1>1, <1>2, RecoveredRowFacts

(* The clock changes no row but for the lease of a live one. *)
LEMMA TickKeeps ==
    ASSUME TypeOK, Tick, NEW q \in Requests
    PROVE  /\ row'[q].attempt = row[q].attempt
           /\ row'[q].state = row[q].state
           /\ row'[q].outcome = row[q].outcome
           /\ ~IsLive(q) => row'[q] = row[q]
<1>1. row[q] \in Rows
  BY DEF TypeOK
<1>2. row'[q] = IF IsLive(q) /\ row[q].lease > 0 THEN TickedRow(row[q]) ELSE row[q]
  BY DEF Tick
<1> QED BY <1>1, <1>2, TickedRowFacts

(* Every action keeps ownership: only Prepare makes an owner, of a row that *)
(* was absent, so of a row no other kernel owns.                            *)
LEMMA OwnerInvStep == IndInv /\ [Next]_vars => OwnerInv'
<1> SUFFICES ASSUME IndInv, [Next]_vars PROVE OwnerInv'
  OBVIOUS
<1>1. ASSUME NEW k \in Kernels, Prepare(k) PROVE OwnerInv'
  BY <1>1, PreparedRowFacts DEF Prepare, Leave, Goto, IndInv, TypeOK, OwnerInv,
         OwnerPCs, db, local, world, authority, RowInv, MayPrepare,
         RecordIntent
<1>2. ASSUME NEW k \in Kernels, PrepareNotCreated(k) PROVE OwnerInv'
  BY <1>2 DEF PrepareNotCreated, Leave, IndInv, TypeOK, OwnerInv, OwnerPCs, db,
         local, world, authority
<1>3. ASSUME NEW k \in Kernels, FirstRenewal(k) PROVE OwnerInv'
  <2>1. \A q \in Requests : /\ row'[q].attempt = row[q].attempt
                            /\ row[q].state # "absent" => row'[q].state # "absent"
    BY <1>3, RenewalFrame DEF IsLive, Live
  <2>2. CASE Goto(k, "running") /\ beat' = [beat EXCEPT ![k] = TRUE]
    BY <1>3, <2>1, <2>2
    DEF FirstRenewal, Goto, IndInv, TypeOK, OwnerInv, OwnerPCs, world
  <2>3. CASE Leave(k) /\ UNCHANGED beat
    BY <1>3, <2>1, <2>3
    DEF FirstRenewal, Leave, IndInv, TypeOK, OwnerInv, OwnerPCs, world
  <2> QED BY <1>3, <2>2, <2>3 DEF FirstRenewal
<1>4. ASSUME NEW k \in Kernels, FirstRenewalFails(k) PROVE OwnerInv'
  BY <1>4 DEF FirstRenewalFails, Leave, IndInv, TypeOK, OwnerInv, OwnerPCs, db,
         local, world, authority
<1>5. ASSUME NEW k \in Kernels, ExecutorStart(k) PROVE OwnerInv'
  BY <1>5 DEF ExecutorStart, Goto, IndInv, TypeOK, OwnerInv, OwnerPCs, db,
         local, world, authority
<1>6. ASSUME NEW k \in Kernels, ExecutorSucceeds(k) PROVE OwnerInv'
  BY <1>6 DEF ExecutorSucceeds, Goto, StopHeartbeat, IndInv, TypeOK, OwnerInv,
         OwnerPCs, db, local, world, authority
<1>7. ASSUME NEW k \in Kernels, ExecutorFails(k) PROVE OwnerInv'
  BY <1>7 DEF ExecutorFails, Goto, Leave, StopHeartbeat, IndInv, TypeOK,
         OwnerInv, OwnerPCs, db, local, world, authority
<1>8. ASSUME NEW k \in Kernels, BuildOutcomeFails(k) PROVE OwnerInv'
  BY <1>8 DEF BuildOutcomeFails, Leave, IndInv, TypeOK, OwnerInv, OwnerPCs, db,
         local, world, authority
<1>9. ASSUME NEW k \in Kernels, Complete(k) PROVE OwnerInv'
  <2>1. job[k] \in Requests /\ result[k] \in Outcomes /\ IsLive(job[k])
    BY <1>9 DEF Complete, CompleteMatches, IndInv, OwnerInv, ResultInv
  <2>2. \A q \in Requests : /\ row'[q].attempt = row[q].attempt
                            /\ row[q].state # "absent" => row'[q].state # "absent"
    <3>1. CASE CommitCompletion(job[k], result[k])
      BY <2>1, <3>1, CommitKeeps DEF IndInv, Terminal
    <3>2. CASE UNCHANGED row
      BY <3>2
    <3> QED BY <1>9, <3>1, <3>2 DEF Complete
  <2>3. pc[k] = "ran" /\ ~beat[k] /\ beat' = beat /\ applied' = applied
    BY <1>9 DEF Complete, IndInv, OwnerInv, world
  <2>4. CASE Leave(k)
    BY <2>2, <2>3, <2>4 DEF Leave, IndInv, TypeOK, OwnerInv, OwnerPCs
  <2>5. CASE Goto(k, "reconcile")
    BY <2>2, <2>3, <2>5 DEF Goto, IndInv, TypeOK, OwnerInv, OwnerPCs
  <2> QED BY <1>9, <2>4, <2>5 DEF Complete
<1>10. ASSUME NEW k \in Kernels, CompleteRaises(k) PROVE OwnerInv'
  BY <1>10 DEF CompleteRaises, Goto, IndInv, TypeOK, OwnerInv, OwnerPCs, db,
         local, world, authority
<1>11. ASSUME NEW k \in Kernels, Reconcile(k) PROVE OwnerInv'
  BY <1>11 DEF Reconcile, Leave, IndInv, TypeOK, OwnerInv, OwnerPCs, db, local,
         world, authority
<1>12. ASSUME NEW k \in Kernels, Heartbeat(k) PROVE OwnerInv'
  <2>1. \A q \in Requests : /\ row'[q].attempt = row[q].attempt
                            /\ row[q].state # "absent" => row'[q].state # "absent"
    BY <1>12, RenewalFrame DEF IsLive, Live
  <2> QED BY <1>12, <2>1
          DEF Heartbeat, IndInv, TypeOK, OwnerInv, OwnerPCs, world
<1>13. ASSUME NEW k \in Kernels, Crash(k) PROVE OwnerInv'
  BY <1>13 DEF Crash, Leave, IndInv, TypeOK, OwnerInv, OwnerPCs, db, local,
         world, authority
<1>14. ASSUME NEW k \in Kernels, NEW r \in Requests, DispatchNew(k, r) PROVE OwnerInv'
  BY <1>14 DEF DispatchNew, IndInv, TypeOK, OwnerInv, OwnerPCs, db, local,
         world, authority
<1>15. ASSUME NEW k \in Kernels, NEW r \in Requests, ReplayTerminal(k, r) PROVE OwnerInv'
  BY <1>15 DEF ReplayTerminal, IndInv, TypeOK, OwnerInv, OwnerPCs, db, local,
         world, authority
<1>16. ASSUME NEW k \in Kernels, NEW r \in Requests, Recover(k, r) PROVE OwnerInv'
  <2>1. \A q \in Requests : /\ row'[q].attempt = row[q].attempt
                            /\ row[q].state # "absent" => row'[q].state # "absent"
    BY <1>16, RecoverKeeps DEF IndInv
  <2> QED BY <1>16, <2>1
          DEF Recover, IndInv, TypeOK, OwnerInv, OwnerPCs, local, world
<1>17. ASSUME NEW k \in Kernels, NEW r \in Requests, LateRenewal(k, r) PROVE OwnerInv'
  <2>1. \A q \in Requests : /\ row'[q].attempt = row[q].attempt
                            /\ row[q].state # "absent" => row'[q].state # "absent"
    BY <1>17, RenewalFrame DEF IsLive, Live
  <2> QED BY <1>17, <2>1
          DEF LateRenewal, IndInv, TypeOK, OwnerInv, OwnerPCs, world
<1>18. ASSUME NEW r \in Requests, ResolveInDoubt(r) PROVE OwnerInv'
  <2>1. inDoubt[r] \in Outcomes /\ IsLive(r)
    BY <1>18 DEF ResolveInDoubt, IndInv, TypeOK, CommitInv
  <2>2. \A q \in Requests : /\ row'[q].attempt = row[q].attempt
                            /\ row[q].state # "absent" => row'[q].state # "absent"
    <3>1. CASE CommitCompletion(r, inDoubt[r])
      BY <2>1, <3>1, CommitKeeps DEF IndInv, Terminal
    <3>2. CASE UNCHANGED row
      BY <3>2
    <3> QED BY <1>18, <3>1, <3>2 DEF ResolveInDoubt
  <2> QED BY <1>18, <2>2
          DEF ResolveInDoubt, IndInv, TypeOK, OwnerInv, OwnerPCs, local, world
<1>19. ASSUME NEW r \in Requests, ActorAges(r) PROVE OwnerInv'
  BY <1>19 DEF ActorAges, IndInv, TypeOK, OwnerInv, OwnerPCs, db, local, world,
         authority
<1>20. ASSUME NEW r \in Requests, GrantLapses(r) PROVE OwnerInv'
  BY <1>20 DEF GrantLapses, IndInv, TypeOK, OwnerInv, OwnerPCs, db, local,
         world, authority
<1>21. CASE Tick
  <2>1. \A q \in Requests : /\ row'[q].attempt = row[q].attempt
                            /\ row'[q].state = row[q].state
    BY <1>21, TickKeeps DEF IndInv
  <2> QED BY <1>21, <2>1
          DEF Tick, IndInv, TypeOK, OwnerInv, OwnerPCs, local, world
<1>22. CASE UNCHANGED vars
  BY <1>22 DEF vars, IndInv, TypeOK, OwnerInv, OwnerPCs, db, local, world,
         authority
<1> QED BY <1>1, <1>2, <1>3, <1>4, <1>5, <1>6, <1>7, <1>8, <1>9, <1>10, <1>11,
       <1>12, <1>13, <1>14, <1>15, <1>16, <1>17, <1>18, <1>19, <1>20, <1>21,
       <1>22 DEF Next, Step

(* Every action keeps a success reported only after the executor ran. *)
LEMMA ResultInvStep == IndInv /\ [Next]_vars => ResultInv'
<1> SUFFICES ASSUME IndInv, [Next]_vars PROVE ResultInv'
  OBVIOUS
<1>1. ASSUME NEW k \in Kernels, Prepare(k) PROVE ResultInv'
  BY <1>1 DEF Prepare, Leave, Goto, IndInv, TypeOK, OwnerInv, OwnerPCs,
         ResultInv, db, local, world, authority
<1>2. ASSUME NEW k \in Kernels, PrepareNotCreated(k) PROVE ResultInv'
  BY <1>2 DEF PrepareNotCreated, Leave, IndInv, TypeOK, OwnerInv, OwnerPCs,
         ResultInv, db, local, world, authority
<1>3. ASSUME NEW k \in Kernels, FirstRenewal(k) PROVE ResultInv'
  BY <1>3 DEF FirstRenewal, Leave, Goto, IndInv, TypeOK, OwnerInv, OwnerPCs,
         ResultInv, db, local, world, authority
<1>4. ASSUME NEW k \in Kernels, FirstRenewalFails(k) PROVE ResultInv'
  BY <1>4 DEF FirstRenewalFails, Leave, IndInv, TypeOK, OwnerInv, OwnerPCs,
         ResultInv, db, local, world, authority
<1>5. ASSUME NEW k \in Kernels, ExecutorStart(k) PROVE ResultInv'
  BY <1>5 DEF ExecutorStart, Goto, IndInv, TypeOK, OwnerInv, OwnerPCs,
         ResultInv, db, local, world, authority
<1>6. ASSUME NEW k \in Kernels, ExecutorSucceeds(k) PROVE ResultInv'
  BY <1>6, OutcomeTypes DEF ExecutorSucceeds, Goto, StopHeartbeat, IndInv,
         TypeOK, OwnerInv, OwnerPCs, ResultInv, db, local, world, authority
<1>7. ASSUME NEW k \in Kernels, ExecutorFails(k) PROVE ResultInv'
  BY <1>7, OutcomeTypes DEF ExecutorFails, Goto, Leave, StopHeartbeat, IndInv,
         TypeOK, OwnerInv, OwnerPCs, ResultInv, db, local, world, authority
<1>8. ASSUME NEW k \in Kernels, BuildOutcomeFails(k) PROVE ResultInv'
  BY <1>8 DEF BuildOutcomeFails, Leave, IndInv, TypeOK, OwnerInv, OwnerPCs,
         ResultInv, db, local, world, authority
<1>9. ASSUME NEW k \in Kernels, Complete(k) PROVE ResultInv'
  BY <1>9 DEF Complete, Leave, Goto, IndInv, TypeOK, OwnerInv, OwnerPCs,
         ResultInv, db, local, world, authority
<1>10. ASSUME NEW k \in Kernels, CompleteRaises(k) PROVE ResultInv'
  BY <1>10 DEF CompleteRaises, Goto, IndInv, TypeOK, OwnerInv, OwnerPCs,
         ResultInv, db, local, world, authority
<1>11. ASSUME NEW k \in Kernels, Reconcile(k) PROVE ResultInv'
  BY <1>11 DEF Reconcile, Leave, IndInv, TypeOK, OwnerInv, OwnerPCs, ResultInv,
         db, local, world, authority
<1>12. ASSUME NEW k \in Kernels, Heartbeat(k) PROVE ResultInv'
  BY <1>12 DEF Heartbeat, IndInv, TypeOK, OwnerInv, OwnerPCs, ResultInv, db,
         local, world, authority
<1>13. ASSUME NEW k \in Kernels, Crash(k) PROVE ResultInv'
  BY <1>13 DEF Crash, Leave, IndInv, TypeOK, OwnerInv, OwnerPCs, ResultInv, db,
         local, world, authority
<1>14. ASSUME NEW k \in Kernels, NEW r \in Requests, DispatchNew(k, r) PROVE ResultInv'
  BY <1>14 DEF DispatchNew, IndInv, TypeOK, OwnerInv, OwnerPCs, ResultInv, db,
         local, world, authority
<1>15. ASSUME NEW k \in Kernels, NEW r \in Requests, ReplayTerminal(k, r) PROVE ResultInv'
  BY <1>15 DEF ReplayTerminal, IndInv, TypeOK, OwnerInv, OwnerPCs, ResultInv,
         db, local, world, authority
<1>16. ASSUME NEW k \in Kernels, NEW r \in Requests, Recover(k, r) PROVE ResultInv'
  BY <1>16 DEF Recover, IndInv, TypeOK, OwnerInv, OwnerPCs, ResultInv, db,
         local, world, authority
<1>17. ASSUME NEW k \in Kernels, NEW r \in Requests, LateRenewal(k, r) PROVE ResultInv'
  BY <1>17 DEF LateRenewal, IndInv, TypeOK, OwnerInv, OwnerPCs, ResultInv, db,
         local, world, authority
<1>18. ASSUME NEW r \in Requests, ResolveInDoubt(r) PROVE ResultInv'
  BY <1>18 DEF ResolveInDoubt, IndInv, TypeOK, OwnerInv, OwnerPCs, ResultInv,
         db, local, world, authority
<1>19. ASSUME NEW r \in Requests, ActorAges(r) PROVE ResultInv'
  BY <1>19 DEF ActorAges, IndInv, TypeOK, OwnerInv, OwnerPCs, ResultInv, db,
         local, world, authority
<1>20. ASSUME NEW r \in Requests, GrantLapses(r) PROVE ResultInv'
  BY <1>20 DEF GrantLapses, IndInv, TypeOK, OwnerInv, OwnerPCs, ResultInv, db,
         local, world, authority
<1>21. CASE Tick
  BY <1>21 DEF Tick, IndInv, TypeOK, OwnerInv, OwnerPCs, ResultInv, db, local,
         world, authority
<1>22. CASE UNCHANGED vars
  BY <1>22 DEF vars, IndInv, TypeOK, OwnerInv, OwnerPCs, ResultInv, db, local,
         world, authority
<1> QED BY <1>1, <1>2, <1>3, <1>4, <1>5, <1>6, <1>7, <1>8, <1>9, <1>10, <1>11,
       <1>12, <1>13, <1>14, <1>15, <1>16, <1>17, <1>18, <1>19, <1>20, <1>21,
       <1>22 DEF Next, Step

(* Every action keeps an unresolved COMMIT on a live row: while there is   *)
(* one, nobody else gets the run head.                                     *)
LEMMA CommitInvStep == IndInv /\ [Next]_vars => CommitInv'
<1> SUFFICES ASSUME IndInv, [Next]_vars PROVE CommitInv'
  OBVIOUS
<1>1. ASSUME NEW k \in Kernels, Prepare(k) PROVE CommitInv'
  <2>1. job[k] \in Requests /\ ~IsLive(job[k]) /\ \A q \in Requests : inDoubt[q] = NoOutcome
    BY <1>1 DEF Prepare, MayPrepare, RunHeadFree, IsLive, Live, IndInv, OwnerInv
  <2>2. row' = [row EXCEPT ![job[k]] = PreparedRow(k)]
    BY <1>1 DEF Prepare
  <2>3. \A q \in Requests : row[q].state # "completed" => row'[q].state # "completed"
    BY <2>1, <2>2, PreparedRowFacts DEF IndInv, TypeOK
  <2>4. row'[job[k]].state # "completed" /\ inDoubt' = inDoubt
    BY <1>1, <2>1, <2>2, PreparedRowFacts DEF Prepare, IndInv, TypeOK
  <2>5. /\ job'[k] = job[k] \/ pc'[k] = "idle"
        /\ \A j \in Kernels \ {k} : pc'[j] = pc[j] /\ job'[j] = job[j]
    BY <1>1 DEF Prepare, Leave, Goto, IndInv, TypeOK
  <2> QED BY <2>1, <2>3, <2>4, <2>5 DEF IndInv, OwnerInv, CommitInv
<1>2. ASSUME NEW k \in Kernels, PrepareNotCreated(k) PROVE CommitInv'
  BY <1>2 DEF PrepareNotCreated, Leave, IndInv, TypeOK, OwnerInv, CommitInv,
         IsLive, db, local, world, authority
<1>3. ASSUME NEW k \in Kernels, FirstRenewal(k) PROVE CommitInv'
  <2>1. \A q \in Requests :
           /\ IsLive(q) => IsLive(q)'
           /\ row[q].state # "completed" => row'[q].state # "completed"
    BY <1>3, RenewalFrame DEF IsLive, Live
  <2>2. /\ inDoubt' = inDoubt /\ applied' = applied
        /\ pc[k] = "prepared" /\ (job'[k] = job[k] \/ pc'[k] = "idle")
        /\ \A j \in Kernels \ {k} : pc'[j] = pc[j] /\ job'[j] = job[j]
    BY <1>3 DEF FirstRenewal, Leave, Goto, IndInv, TypeOK, world
  <2> QED BY <2>1, <2>2 DEF IndInv, OwnerInv, CommitInv
<1>4. ASSUME NEW k \in Kernels, FirstRenewalFails(k) PROVE CommitInv'
  BY <1>4 DEF FirstRenewalFails, Leave, IndInv, TypeOK, OwnerInv, CommitInv,
         IsLive, db, local, world, authority
<1>5. ASSUME NEW k \in Kernels, ExecutorStart(k) PROVE CommitInv'
  <2>1. job[k] \in Requests /\ inDoubt[job[k]] = NoOutcome
    BY <1>5 DEF ExecutorStart, IndInv, OwnerInv, CommitInv
  <2>2. \A q \in Requests : q # job[k] => applied'[q] = applied[q]
    BY <1>5 DEF ExecutorStart, IndInv, TypeOK
  <2> QED BY <1>5, <2>1, <2>2
          DEF ExecutorStart, Goto, IndInv, TypeOK, OwnerInv, CommitInv, IsLive, db
<1>6. ASSUME NEW k \in Kernels, ExecutorSucceeds(k) PROVE CommitInv'
  BY <1>6 DEF ExecutorSucceeds, Goto, StopHeartbeat, IndInv, TypeOK, OwnerInv,
         CommitInv, IsLive, db, local, world, authority
<1>7. ASSUME NEW k \in Kernels, ExecutorFails(k) PROVE CommitInv'
  BY <1>7 DEF ExecutorFails, Goto, Leave, StopHeartbeat, IndInv, TypeOK,
         OwnerInv, CommitInv, IsLive, db, local, world, authority
<1>8. ASSUME NEW k \in Kernels, BuildOutcomeFails(k) PROVE CommitInv'
  BY <1>8 DEF BuildOutcomeFails, Leave, IndInv, TypeOK, OwnerInv, CommitInv,
         IsLive, db, local, world, authority
<1>9. ASSUME NEW k \in Kernels, Complete(k) PROVE CommitInv'
  <2>1. /\ job[k] \in Requests /\ result[k] \in Outcomes /\ IsLive(job[k])
        /\ row[job[k]].attempt = k /\ pc[k] = "ran" /\ applied' = applied
        /\ result[k].status = "succeeded" => applied[job[k]] = 1
        /\ \A q \in Requests : inDoubt[q] = NoOutcome
    BY <1>9
    DEF Complete, CompleteMatches, RunHeadFree, IndInv, OwnerInv, ResultInv, world
  <2>2. \A j \in Kernels : j # k /\ pc[j] \in OwnerPCs => job[j] # job[k]
    BY <2>1 DEF IndInv, OwnerInv
  <2>3. \A q \in Requests \ {job[k]} : row'[q] = row[q] /\ inDoubt'[q] = NoOutcome
    <3>1. CASE CommitCompletion(job[k], result[k])
      BY <1>9, <2>1, <3>1, CommitKeeps DEF Complete, IndInv, TypeOK
    <3>2. CASE UNCHANGED row
      BY <1>9, <2>1, <3>2 DEF Complete, IndInv, TypeOK
    <3> QED BY <1>9, <3>1, <3>2 DEF Complete
  <2>4. inDoubt'[job[k]] # NoOutcome =>
           row' = row /\ inDoubt'[job[k]] = result[k]
    BY <1>9, <2>1 DEF Complete, IndInv, TypeOK
  <2>5. /\ pc'[k] \notin {"prepared", "running", "executing", "ran"}
        /\ \A j \in Kernels \ {k} : pc'[j] = pc[j] /\ job'[j] = job[j]
    BY <1>9 DEF Complete, Leave, Goto, IndInv, TypeOK
  <2>6. \A q \in Requests : inDoubt'[q] # NoOutcome =>
              /\ IsLive(q)'
              /\ inDoubt'[q].status = "succeeded" => applied'[q] = 1
    BY <2>1, <2>3, <2>4 DEF IsLive
  <2> QED BY <2>1, <2>2, <2>3, <2>5, <2>6
          DEF IndInv, OwnerInv, OwnerPCs, CommitInv
<1>10. ASSUME NEW k \in Kernels, CompleteRaises(k) PROVE CommitInv'
  BY <1>10 DEF CompleteRaises, Goto, IndInv, TypeOK, OwnerInv, CommitInv,
         IsLive, db, local, world, authority
<1>11. ASSUME NEW k \in Kernels, Reconcile(k) PROVE CommitInv'
  BY <1>11 DEF Reconcile, Leave, IndInv, TypeOK, OwnerInv, CommitInv, IsLive,
         db, local, world, authority
<1>12. ASSUME NEW k \in Kernels, Heartbeat(k) PROVE CommitInv'
  <2>1. \A q \in Requests :
           /\ IsLive(q) => IsLive(q)'
           /\ row[q].state # "completed" => row'[q].state # "completed"
    BY <1>12, RenewalFrame DEF IsLive, Live
  <2> QED BY <1>12, <2>1
          DEF Heartbeat, IndInv, TypeOK, OwnerInv, CommitInv, world
<1>13. ASSUME NEW k \in Kernels, Crash(k) PROVE CommitInv'
  BY <1>13 DEF Crash, Leave, IndInv, TypeOK, OwnerInv, CommitInv, IsLive, db,
         local, world, authority
<1>14. ASSUME NEW k \in Kernels, NEW r \in Requests, DispatchNew(k, r) PROVE CommitInv'
  BY <1>14 DEF DispatchNew, IndInv, TypeOK, OwnerInv, CommitInv, IsLive, db,
         local, world, authority
<1>15. ASSUME NEW k \in Kernels, NEW r \in Requests, ReplayTerminal(k, r) PROVE CommitInv'
  BY <1>15 DEF ReplayTerminal, IndInv, TypeOK, OwnerInv, CommitInv, IsLive, db,
         local, world, authority
<1>16. ASSUME NEW k \in Kernels, NEW r \in Requests, Recover(k, r) PROVE CommitInv'
  <2>1. \A q \in Requests : inDoubt'[q] = NoOutcome
    BY <1>16 DEF Recover, RunHeadFree
  <2>2. \A q \in Requests : row[q].state # "completed" => row'[q].state # "completed"
    BY <1>16, RecoverKeeps DEF IndInv
  <2> QED BY <1>16, <2>1, <2>2 DEF Recover, IndInv, OwnerInv, CommitInv, local, world
<1>17. ASSUME NEW k \in Kernels, NEW r \in Requests, LateRenewal(k, r) PROVE CommitInv'
  <2>1. \A q \in Requests :
           /\ IsLive(q) => IsLive(q)'
           /\ row[q].state # "completed" => row'[q].state # "completed"
    BY <1>17, RenewalFrame DEF IsLive, Live
  <2> QED BY <1>17, <2>1
          DEF LateRenewal, IndInv, TypeOK, OwnerInv, CommitInv, world
<1>18. ASSUME NEW r \in Requests, ResolveInDoubt(r) PROVE CommitInv'
  <2>1. inDoubt[r] \in Outcomes /\ IsLive(r)
    BY <1>18 DEF ResolveInDoubt, IndInv, TypeOK, CommitInv
  <2>2. \A q \in Requests \ {r} : row'[q] = row[q] /\ inDoubt'[q] = inDoubt[q]
    <3>1. CASE CommitCompletion(r, inDoubt[r])
      BY <1>18, <2>1, <3>1, CommitKeeps DEF ResolveInDoubt, IndInv, TypeOK
    <3>2. CASE UNCHANGED row
      BY <1>18, <3>2 DEF ResolveInDoubt, IndInv, TypeOK
    <3> QED BY <1>18, <3>1, <3>2 DEF ResolveInDoubt
  <2>3. inDoubt'[r] = NoOutcome /\ inDoubt[r] # NoOutcome
    BY <1>18 DEF ResolveInDoubt, IndInv, TypeOK
  <2> QED BY <1>18, <2>2, <2>3
          DEF ResolveInDoubt, IndInv, OwnerInv, CommitInv, IsLive, local, world
<1>19. ASSUME NEW r \in Requests, ActorAges(r) PROVE CommitInv'
  BY <1>19 DEF ActorAges, IndInv, TypeOK, OwnerInv, CommitInv, IsLive, db,
         local, world, authority
<1>20. ASSUME NEW r \in Requests, GrantLapses(r) PROVE CommitInv'
  BY <1>20 DEF GrantLapses, IndInv, TypeOK, OwnerInv, CommitInv, IsLive, db,
         local, world, authority
<1>21. CASE Tick
  <2>1. \A q \in Requests : row'[q].state = row[q].state
    BY <1>21, TickKeeps DEF IndInv
  <2> QED BY <1>21, <2>1 DEF Tick, IndInv, OwnerInv, CommitInv, IsLive, local, world
<1>22. CASE UNCHANGED vars
  BY <1>22 DEF vars, IndInv, TypeOK, OwnerInv, CommitInv, IsLive, db, local,
         world, authority
<1> QED BY <1>1, <1>2, <1>3, <1>4, <1>5, <1>6, <1>7, <1>8, <1>9, <1>10, <1>11,
       <1>12, <1>13, <1>14, <1>15, <1>16, <1>17, <1>18, <1>19, <1>20, <1>21,
       <1>22 DEF Next, Step

(* Every action keeps one executor run per row and an outcome for each     *)
(* terminal row.                                                           *)
LEMMA RowInvStep == IndInv /\ [Next]_vars => RowInv'
<1> SUFFICES ASSUME IndInv, [Next]_vars PROVE RowInv'
  OBVIOUS
<1>1. ASSUME NEW k \in Kernels, Prepare(k) PROVE RowInv'
  <2>1. job[k] \in Requests /\ row' = [row EXCEPT ![job[k]] = PreparedRow(k)]
    BY <1>1 DEF Prepare, IndInv, OwnerInv
  <2>2. \A q \in Requests : row'[q] = row[q] \/ row'[q].state = "prepared"
    BY <2>1, PreparedRowFacts DEF IndInv, TypeOK
  <2> QED BY <1>1, <2>2 DEF Prepare, IndInv, RowInv, IsTerminal, Terminal, world
<1>2. ASSUME NEW k \in Kernels, PrepareNotCreated(k) PROVE RowInv'
  BY <1>2 DEF PrepareNotCreated, IndInv, RowInv, IsTerminal, db, world
<1>3. ASSUME NEW k \in Kernels, FirstRenewal(k) PROVE RowInv'
  BY <1>3, RenewalFrame
  DEF FirstRenewal, IndInv, RowInv, IsLive, IsTerminal, Live, Terminal, world
<1>4. ASSUME NEW k \in Kernels, FirstRenewalFails(k) PROVE RowInv'
  BY <1>4 DEF FirstRenewalFails, IndInv, RowInv, IsTerminal, db, world
<1>5. ASSUME NEW k \in Kernels, ExecutorStart(k) PROVE RowInv'
  BY <1>5 DEF ExecutorStart, IndInv, RowInv, IsTerminal, db, world, TypeOK,
         OwnerInv, OwnerPCs
<1>6. ASSUME NEW k \in Kernels, ExecutorSucceeds(k) PROVE RowInv'
  BY <1>6 DEF ExecutorSucceeds, IndInv, RowInv, IsTerminal, db, world
<1>7. ASSUME NEW k \in Kernels, ExecutorFails(k) PROVE RowInv'
  BY <1>7 DEF ExecutorFails, IndInv, RowInv, IsTerminal, db, world
<1>8. ASSUME NEW k \in Kernels, BuildOutcomeFails(k) PROVE RowInv'
  BY <1>8 DEF BuildOutcomeFails, IndInv, RowInv, IsTerminal, db, world
<1>9. ASSUME NEW k \in Kernels, Complete(k) PROVE RowInv'
  <2>1. job[k] \in Requests /\ result[k] \in Outcomes /\ IsLive(job[k])
    BY <1>9 DEF Complete, CompleteMatches, IndInv, OwnerInv, ResultInv
  <2>2. \A q \in Requests : \/ row'[q] = row[q]
                            \/ /\ row'[q].state # "absent"
                               /\ row'[q].outcome \in Outcomes
                               /\ row'[q].state = TerminalState(row'[q].outcome)
    <3>1. CASE CommitCompletion(job[k], result[k])
      BY <2>1, <3>1, CommitKeeps DEF IndInv, Terminal
    <3>2. CASE UNCHANGED row
      BY <3>2
    <3> QED BY <1>9, <3>1, <3>2 DEF Complete
  <2>3. applied' = applied
    BY <1>9 DEF Complete, world
  <2> QED BY <2>2, <2>3 DEF IndInv, RowInv, IsTerminal
<1>10. ASSUME NEW k \in Kernels, CompleteRaises(k) PROVE RowInv'
  BY <1>10 DEF CompleteRaises, IndInv, RowInv, IsTerminal, db, world
<1>11. ASSUME NEW k \in Kernels, Reconcile(k) PROVE RowInv'
  BY <1>11 DEF Reconcile, IndInv, RowInv, IsTerminal, db, world
<1>12. ASSUME NEW k \in Kernels, Heartbeat(k) PROVE RowInv'
  BY <1>12, RenewalFrame
  DEF Heartbeat, IndInv, RowInv, IsLive, IsTerminal, Live, Terminal, world
<1>13. ASSUME NEW k \in Kernels, Crash(k) PROVE RowInv'
  BY <1>13 DEF Crash, IndInv, RowInv, IsTerminal, db, world
<1>14. ASSUME NEW k \in Kernels, NEW r \in Requests, DispatchNew(k, r) PROVE RowInv'
  BY <1>14 DEF DispatchNew, IndInv, RowInv, IsTerminal, db, world
<1>15. ASSUME NEW k \in Kernels, NEW r \in Requests, ReplayTerminal(k, r) PROVE RowInv'
  BY <1>15 DEF ReplayTerminal, IndInv, RowInv, IsTerminal, db, world
<1>16. ASSUME NEW k \in Kernels, NEW r \in Requests, Recover(k, r) PROVE RowInv'
  <2>1. \A q \in Requests : \/ row'[q] = row[q]
                            \/ /\ row'[q].state # "absent"
                               /\ row'[q].outcome \in Outcomes
                               /\ row'[q].state = TerminalState(row'[q].outcome)
    BY <1>16, RecoverKeeps, OutcomeTypes DEF IndInv
  <2> QED BY <1>16, <2>1 DEF Recover, IndInv, RowInv, IsTerminal, world
<1>17. ASSUME NEW k \in Kernels, NEW r \in Requests, LateRenewal(k, r) PROVE RowInv'
  BY <1>17, RenewalFrame
  DEF LateRenewal, IndInv, RowInv, IsLive, IsTerminal, Live, Terminal, world
<1>18. ASSUME NEW r \in Requests, ResolveInDoubt(r) PROVE RowInv'
  <2>1. inDoubt[r] \in Outcomes /\ IsLive(r)
    BY <1>18 DEF ResolveInDoubt, IndInv, TypeOK, CommitInv
  <2>2. \A q \in Requests : \/ row'[q] = row[q]
                            \/ /\ row'[q].state # "absent"
                               /\ row'[q].outcome \in Outcomes
                               /\ row'[q].state = TerminalState(row'[q].outcome)
    <3>1. CASE CommitCompletion(r, inDoubt[r])
      BY <2>1, <3>1, CommitKeeps DEF IndInv, Terminal
    <3>2. CASE UNCHANGED row
      BY <3>2
    <3> QED BY <1>18, <3>1, <3>2 DEF ResolveInDoubt
  <2>3. applied' = applied
    BY <1>18 DEF ResolveInDoubt, world
  <2> QED BY <2>2, <2>3 DEF IndInv, RowInv, IsTerminal
<1>19. ASSUME NEW r \in Requests, ActorAges(r) PROVE RowInv'
  BY <1>19 DEF ActorAges, IndInv, RowInv, IsTerminal, db, world
<1>20. ASSUME NEW r \in Requests, GrantLapses(r) PROVE RowInv'
  BY <1>20 DEF GrantLapses, IndInv, RowInv, IsTerminal, db, world
<1>21. CASE Tick
  <2>1. \A q \in Requests : /\ row'[q].state = row[q].state
                            /\ row'[q].outcome = row[q].outcome
    BY <1>21, TickKeeps DEF IndInv
  <2> QED BY <1>21, <2>1 DEF Tick, IndInv, RowInv, IsTerminal, world
<1>22. CASE UNCHANGED vars
  BY <1>22 DEF vars, IndInv, RowInv, IsTerminal, db, world
<1> QED BY <1>1, <1>2, <1>3, <1>4, <1>5, <1>6, <1>7, <1>8, <1>9, <1>10, <1>11,
       <1>12, <1>13, <1>14, <1>15, <1>16, <1>17, <1>18, <1>19, <1>20, <1>21,
       <1>22 DEF Next, Step

-----------------------------------------------------------------------------
(* The ledger *)

(* While no envelope is appended and rows at most move between the two     *)
(* live states, the ledger agrees with the rows as before.                 *)
LEMMA LedgerKept ==
    ASSUME IndInv, evidence' = evidence, consumed' = consumed,
           \A q \in Requests : row'[q] = row[q] \/ (IsLive(q) /\ IsLive(q)')
    PROVE  IntentInv' /\ LedgerMatchesRow'
<1>1. \A q \in Requests :
         /\ row'[q].state # "absent" => row[q].state # "absent"
         /\ IsTerminal(q)' <=> IsTerminal(q)
         /\ IsTerminal(q) => row'[q].outcome = row[q].outcome
  BY DEF IsLive, IsTerminal, Live, Terminal
<1>2. IntentInv'
  BY <1>1 DEF IndInv, IntentInv
<1>3. LedgerMatchesRow'
  BY <1>1 DEF IndInv, LedgerMatchesRow
<1> QED BY <1>2, <1>3

(* An outcome envelope appended in the transaction that makes a live row   *)
(* terminal is the row's only one, and follows its intent.                 *)
LEMMA LedgerOutcome ==
    ASSUME IndInv, consumed' = consumed,
           NEW r \in Requests, NEW o \in Outcomes, IsLive(r),
           evidence' = Append(evidence, OutcomeEvent(r, o)),
           row'[r].state \in Terminal, row'[r].outcome = o,
           \A q \in Requests \ {r} : row'[q] = row[q]
    PROVE  IntentInv' /\ LedgerMatchesRow'
<1> DEFINE n == Len(evidence) + 1
<1>1. /\ OutcomeEvent(r, o).kind = "outcome"
      /\ OutcomeEvent(r, o).req = r
      /\ OutcomeEvent(r, o).outcome = o
      /\ OutcomeEvent(r, o) \in Events
  BY EventTypes
<1>2. /\ DOMAIN evidence = 1..Len(evidence) /\ Len(evidence) \in Nat
      /\ DOMAIN evidence' = 1..n
      /\ \A i \in DOMAIN evidence : evidence'[i] = evidence[i]
      /\ evidence'[n] = OutcomeEvent(r, o)
  BY <1>1, LedgerAppend DEF IndInv, TypeOK
<1>3. row[r].state # "absent" /\ ~IsTerminal(r)
  BY DEF IsLive, IsTerminal, Live, Terminal
<1>4. \A i \in DOMAIN evidence : ~(evidence[i].kind = "outcome" /\ evidence[i].req = r)
  BY <1>3 DEF IndInv, LedgerMatchesRow
<1>5. IntentInv'
  <2> SUFFICES ASSUME NEW q \in Requests, row'[q].state # "absent"
               PROVE  /\ \E i \in DOMAIN evidence' : evidence'[i] = Intent(q)
                      /\ q \in consumed'
    BY DEF IntentInv
  <2>1. row[q].state # "absent"
    BY <1>3
  <2>2. PICK i \in DOMAIN evidence : evidence[i] = Intent(q)
    BY <2>1 DEF IndInv, IntentInv
  <2>3. i \in DOMAIN evidence' /\ evidence'[i] = Intent(q)
    BY <1>2, <2>2
  <2>4. q \in consumed'
    BY <2>1 DEF IndInv, IntentInv
  <2> QED BY <2>3, <2>4
<1>6. LedgerMatchesRow'
  <2> SUFFICES ASSUME NEW q \in Requests
      PROVE  /\ IsTerminal(q)' =>
                  \E i \in DOMAIN evidence' :
                      evidence'[i] = OutcomeEvent(q, row'[q].outcome)
             /\ \A i \in DOMAIN evidence' :
                  evidence'[i].kind = "outcome" /\ evidence'[i].req = q =>
                    /\ IsTerminal(q)'
                    /\ evidence'[i].outcome = row'[q].outcome
                    /\ \E j \in 1..(i - 1) : evidence'[j] = Intent(q)
                    /\ \A j \in DOMAIN evidence' :
                         evidence'[j].kind = "outcome" /\ evidence'[j].req = q => j = i
    BY DEF LedgerMatchesRow
  <2>1. CASE q = r
    <3>1. IsTerminal(q)' /\ evidence'[n] = OutcomeEvent(q, row'[q].outcome)
          /\ n \in DOMAIN evidence'
      BY <2>1, <1>2 DEF IsTerminal
    <3>2. \A i \in DOMAIN evidence' :
             evidence'[i].kind = "outcome" /\ evidence'[i].req = q => i = n
      BY <2>1, <1>2, <1>4
    <3>3. PICK j \in DOMAIN evidence : evidence[j] = Intent(q)
      BY <2>1, <1>3 DEF IndInv, IntentInv
    <3>4. j \in 1..(n - 1) /\ evidence'[j] = Intent(q)
      BY <1>2, <3>3
    <3>5. evidence'[n].outcome = row'[q].outcome
      BY <1>1, <1>2, <2>1
    <3> QED BY <3>1, <3>2, <3>4, <3>5
  <2>2. CASE q # r
    <3>1. row'[q] = row[q]
      BY <2>2
    <3>2. ~(evidence'[n].kind = "outcome" /\ evidence'[n].req = q)
      BY <2>2, <1>1, <1>2
    <3>3. /\ IsTerminal(q) =>
               \E i \in DOMAIN evidence : evidence[i] = OutcomeEvent(q, row[q].outcome)
          /\ \A i \in DOMAIN evidence :
               evidence[i].kind = "outcome" /\ evidence[i].req = q =>
                 /\ IsTerminal(q)
                 /\ evidence[i].outcome = row[q].outcome
                 /\ \E j \in 1..(i - 1) : evidence[j] = Intent(q)
                 /\ \A j \in DOMAIN evidence :
                      evidence[j].kind = "outcome" /\ evidence[j].req = q => j = i
      BY DEF IndInv, LedgerMatchesRow
    <3>4. IsTerminal(q)' <=> IsTerminal(q)
      BY <3>1 DEF IsTerminal
    <3>5. \A i \in DOMAIN evidence' :
             evidence'[i].kind = "outcome" /\ evidence'[i].req = q => i \in DOMAIN evidence
      BY <1>2, <3>2
    <3>6. ASSUME IsTerminal(q)'
          PROVE  \E i \in DOMAIN evidence' :
                     evidence'[i] = OutcomeEvent(q, row'[q].outcome)
      BY <3>6, <1>2, <3>1, <3>3, <3>4
    <3>7. ASSUME NEW i \in DOMAIN evidence',
                 evidence'[i].kind = "outcome", evidence'[i].req = q
          PROVE  /\ IsTerminal(q)'
                 /\ evidence'[i].outcome = row'[q].outcome
                 /\ \E j \in 1..(i - 1) : evidence'[j] = Intent(q)
                 /\ \A j \in DOMAIN evidence' :
                      evidence'[j].kind = "outcome" /\ evidence'[j].req = q => j = i
      <4>1. i \in DOMAIN evidence /\ evidence'[i] = evidence[i]
        BY <3>7, <3>5, <1>2
      <4>2. /\ IsTerminal(q) /\ evidence[i].outcome = row[q].outcome
            /\ \A j \in DOMAIN evidence :
                 evidence[j].kind = "outcome" /\ evidence[j].req = q => j = i
        BY <3>7, <4>1, <3>3
      <4>3. PICK j \in 1..(i - 1) : evidence[j] = Intent(q)
        BY <3>7, <4>1, <3>3
      <4>4. evidence'[j] = Intent(q)
        BY <4>1, <4>3, <1>2
      <4>5. \A m \in DOMAIN evidence' :
               evidence'[m].kind = "outcome" /\ evidence'[m].req = q => m = i
        BY <4>2, <3>5, <1>2
      <4> QED BY <4>1, <4>2, <4>4, <4>5, <3>1, <3>4
    <3> QED BY <3>6, <3>7
  <2> QED BY <2>1, <2>2
<1> QED BY <1>5, <1>6

(* The intent envelope of a new row joins a ledger that says nothing of    *)
(* the request's outcome.                                                  *)
LEMMA LedgerIntent ==
    ASSUME IndInv, NEW k \in Kernels, Prepare(k)
    PROVE  IntentInv' /\ LedgerMatchesRow'
<1> DEFINE n == Len(evidence) + 1
           r == job[k]
<1>1. /\ r \in Requests /\ row[r].state = "absent"
      /\ row' = [row EXCEPT ![r] = PreparedRow(k)]
      /\ evidence' = Append(evidence, Intent(r))
      /\ consumed' = consumed \cup {r}
  BY DEF Prepare, MayPrepare, RecordIntent, IndInv, OwnerInv
<1>2. /\ DOMAIN evidence = 1..Len(evidence) /\ Len(evidence) \in Nat
      /\ DOMAIN evidence' = 1..n
      /\ \A i \in DOMAIN evidence : evidence'[i] = evidence[i]
      /\ evidence'[n] = Intent(r)
  BY <1>1, IntentType, LedgerAppend DEF IndInv, TypeOK
<1>3. /\ \A q \in Requests \ {r} : row'[q] = row[q]
      /\ row'[r].state = "prepared"
  BY <1>1, PreparedRowFacts DEF IndInv, TypeOK
<1>4. Intent(r).kind # "outcome"
  BY <1>1, IntentType
<1>5. IntentInv'
  <2> SUFFICES ASSUME NEW q \in Requests, row'[q].state # "absent"
               PROVE  /\ \E i \in DOMAIN evidence' : evidence'[i] = Intent(q)
                      /\ q \in consumed'
    BY DEF IntentInv
  <2>1. CASE q = r
    BY <2>1, <1>1, <1>2
  <2>2. CASE q # r
    <3>1. row[q].state # "absent"
      BY <2>2, <1>3
    <3>2. PICK i \in DOMAIN evidence : evidence[i] = Intent(q)
      BY <3>1 DEF IndInv, IntentInv
    <3>3. i \in DOMAIN evidence' /\ evidence'[i] = Intent(q)
      BY <1>2, <3>2
    <3>4. q \in consumed'
      BY <3>1, <1>1 DEF IndInv, IntentInv
    <3> QED BY <3>3, <3>4
  <2> QED BY <2>1, <2>2
<1>6. \A q \in Requests : /\ IsTerminal(q)' <=> IsTerminal(q)
                          /\ IsTerminal(q) => row'[q] = row[q]
  BY <1>1, <1>3 DEF IsTerminal, Terminal
<1>7. \A i \in DOMAIN evidence' :
         evidence'[i].kind = "outcome" =>
             i \in DOMAIN evidence /\ evidence'[i] = evidence[i]
  BY <1>2, <1>4
<1>8. LedgerMatchesRow'
  <2> SUFFICES ASSUME NEW q \in Requests
      PROVE  /\ IsTerminal(q)' =>
                  \E i \in DOMAIN evidence' :
                      evidence'[i] = OutcomeEvent(q, row'[q].outcome)
             /\ \A i \in DOMAIN evidence' :
                  evidence'[i].kind = "outcome" /\ evidence'[i].req = q =>
                    /\ IsTerminal(q)'
                    /\ evidence'[i].outcome = row'[q].outcome
                    /\ \E j \in 1..(i - 1) : evidence'[j] = Intent(q)
                    /\ \A j \in DOMAIN evidence' :
                         evidence'[j].kind = "outcome" /\ evidence'[j].req = q => j = i
    BY DEF LedgerMatchesRow
  <2>1. ASSUME IsTerminal(q)'
        PROVE  \E i \in DOMAIN evidence' :
                   evidence'[i] = OutcomeEvent(q, row'[q].outcome)
    <3>1. PICK i \in DOMAIN evidence : evidence[i] = OutcomeEvent(q, row[q].outcome)
      BY <2>1, <1>6 DEF IndInv, LedgerMatchesRow
    <3> QED BY <3>1, <2>1, <1>2, <1>6
  <2>2. ASSUME NEW i \in DOMAIN evidence',
               evidence'[i].kind = "outcome", evidence'[i].req = q
        PROVE  /\ IsTerminal(q)'
               /\ evidence'[i].outcome = row'[q].outcome
               /\ \E j \in 1..(i - 1) : evidence'[j] = Intent(q)
               /\ \A j \in DOMAIN evidence' :
                    evidence'[j].kind = "outcome" /\ evidence'[j].req = q => j = i
    <3>1. i \in DOMAIN evidence /\ evidence'[i] = evidence[i]
      BY <2>2, <1>7
    <3>2. /\ IsTerminal(q) /\ evidence[i].outcome = row[q].outcome
          /\ \A j \in DOMAIN evidence :
               evidence[j].kind = "outcome" /\ evidence[j].req = q => j = i
          /\ \E j \in 1..(i - 1) : evidence[j] = Intent(q)
      BY <2>2, <3>1 DEF IndInv, LedgerMatchesRow
    <3>3. PICK j \in 1..(i - 1) : evidence[j] = Intent(q)
      BY <3>2
    <3>4. evidence'[j] = Intent(q)
      BY <3>1, <3>3, <1>2
    <3>5. \A m \in DOMAIN evidence' :
             evidence'[m].kind = "outcome" /\ evidence'[m].req = q => m = i
      BY <3>2, <1>7
    <3> QED BY <3>1, <3>2, <3>4, <3>5, <1>6
  <2> QED BY <2>1, <2>2
<1> QED BY <1>5, <1>8

(* Every action keeps the ledger in agreement with the rows. *)
LEMMA LedgerStep == IndInv /\ [Next]_vars => (IntentInv /\ LedgerMatchesRow)'
<1> SUFFICES ASSUME IndInv, [Next]_vars PROVE (IntentInv /\ LedgerMatchesRow)'
  OBVIOUS
<1>1. ASSUME NEW k \in Kernels, Prepare(k) PROVE (IntentInv /\ LedgerMatchesRow)'
  BY <1>1, LedgerIntent
<1>2. ASSUME NEW k \in Kernels, PrepareNotCreated(k) PROVE (IntentInv /\ LedgerMatchesRow)'
  BY <1>2, LedgerKept DEF PrepareNotCreated, db
<1>3. ASSUME NEW k \in Kernels, FirstRenewal(k) PROVE (IntentInv /\ LedgerMatchesRow)'
  BY <1>3, RenewalFrame, LedgerKept DEF FirstRenewal
<1>4. ASSUME NEW k \in Kernels, FirstRenewalFails(k) PROVE (IntentInv /\ LedgerMatchesRow)'
  BY <1>4, LedgerKept DEF FirstRenewalFails, db
<1>5. ASSUME NEW k \in Kernels, ExecutorStart(k) PROVE (IntentInv /\ LedgerMatchesRow)'
  BY <1>5, LedgerKept DEF ExecutorStart, db
<1>6. ASSUME NEW k \in Kernels, ExecutorSucceeds(k) PROVE (IntentInv /\ LedgerMatchesRow)'
  BY <1>6, LedgerKept DEF ExecutorSucceeds, db
<1>7. ASSUME NEW k \in Kernels, ExecutorFails(k) PROVE (IntentInv /\ LedgerMatchesRow)'
  BY <1>7, LedgerKept DEF ExecutorFails, db
<1>8. ASSUME NEW k \in Kernels, BuildOutcomeFails(k) PROVE (IntentInv /\ LedgerMatchesRow)'
  BY <1>8, LedgerKept DEF BuildOutcomeFails, db
<1>9. ASSUME NEW k \in Kernels, Complete(k) PROVE (IntentInv /\ LedgerMatchesRow)'
  <2>1. job[k] \in Requests /\ result[k] \in Outcomes /\ IsLive(job[k])
    BY <1>9 DEF Complete, CompleteMatches, IndInv, OwnerInv, ResultInv
  <2>2. CASE CommitCompletion(job[k], result[k])
    <3>1. /\ row'[job[k]].state \in Terminal /\ row'[job[k]].outcome = result[k]
          /\ \A q \in Requests \ {job[k]} : row'[q] = row[q]
      BY <2>1, <2>2, CommitKeeps DEF IndInv
    <3>2. /\ evidence' = Append(evidence, OutcomeEvent(job[k], result[k]))
          /\ consumed' = consumed
      BY <1>9, <2>2 DEF Complete, CommitCompletion
    <3> QED BY <2>1, <3>1, <3>2, LedgerOutcome
  <2>3. CASE UNCHANGED <<row, evidence>>
    BY <1>9, <2>3, LedgerKept DEF Complete
  <2> QED BY <1>9, <2>2, <2>3 DEF Complete
<1>10. ASSUME NEW k \in Kernels, CompleteRaises(k) PROVE (IntentInv /\ LedgerMatchesRow)'
  BY <1>10, LedgerKept DEF CompleteRaises, db
<1>11. ASSUME NEW k \in Kernels, Reconcile(k) PROVE (IntentInv /\ LedgerMatchesRow)'
  BY <1>11, LedgerKept DEF Reconcile, db
<1>12. ASSUME NEW k \in Kernels, Heartbeat(k) PROVE (IntentInv /\ LedgerMatchesRow)'
  BY <1>12, RenewalFrame, LedgerKept DEF Heartbeat
<1>13. ASSUME NEW k \in Kernels, Crash(k) PROVE (IntentInv /\ LedgerMatchesRow)'
  BY <1>13, LedgerKept DEF Crash, db
<1>14. ASSUME NEW k \in Kernels, NEW r \in Requests, DispatchNew(k, r) PROVE (IntentInv /\ LedgerMatchesRow)'
  BY <1>14, LedgerKept DEF DispatchNew, db
<1>15. ASSUME NEW k \in Kernels, NEW r \in Requests, ReplayTerminal(k, r) PROVE (IntentInv /\ LedgerMatchesRow)'
  BY <1>15, LedgerKept DEF ReplayTerminal, db
<1>16. ASSUME NEW k \in Kernels, NEW r \in Requests, Recover(k, r) PROVE (IntentInv /\ LedgerMatchesRow)'
  <2>1. IsLive(r) /\ RecoveryOutcome(k) \in Outcomes
    BY <1>16, OutcomeTypes DEF Recover, RecoverMatches
  <2>2. /\ row'[r].state \in Terminal /\ row'[r].outcome = RecoveryOutcome(k)
        /\ \A q \in Requests \ {r} : row'[q] = row[q]
    BY <1>16, RecoverKeeps DEF IndInv, Terminal
  <2>3. /\ evidence' = Append(evidence, OutcomeEvent(r, RecoveryOutcome(k)))
        /\ consumed' = consumed
    BY <1>16 DEF Recover
  <2> QED BY <2>1, <2>2, <2>3, LedgerOutcome
<1>17. ASSUME NEW k \in Kernels, NEW r \in Requests, LateRenewal(k, r) PROVE (IntentInv /\ LedgerMatchesRow)'
  BY <1>17, RenewalFrame, LedgerKept DEF LateRenewal
<1>18. ASSUME NEW r \in Requests, ResolveInDoubt(r) PROVE (IntentInv /\ LedgerMatchesRow)'
  <2>1. inDoubt[r] \in Outcomes /\ IsLive(r)
    BY <1>18 DEF ResolveInDoubt, IndInv, TypeOK, CommitInv
  <2>2. CASE CommitCompletion(r, inDoubt[r])
    <3>1. /\ row'[r].state \in Terminal /\ row'[r].outcome = inDoubt[r]
          /\ \A q \in Requests \ {r} : row'[q] = row[q]
      BY <2>1, <2>2, CommitKeeps DEF IndInv
    <3>2. /\ evidence' = Append(evidence, OutcomeEvent(r, inDoubt[r]))
          /\ consumed' = consumed
      BY <1>18, <2>2 DEF ResolveInDoubt, CommitCompletion
    <3> QED BY <2>1, <3>1, <3>2, LedgerOutcome
  <2>3. CASE UNCHANGED <<row, evidence>>
    BY <1>18, <2>3, LedgerKept DEF ResolveInDoubt
  <2> QED BY <1>18, <2>2, <2>3 DEF ResolveInDoubt
<1>19. ASSUME NEW r \in Requests, ActorAges(r) PROVE (IntentInv /\ LedgerMatchesRow)'
  BY <1>19, LedgerKept DEF ActorAges, db
<1>20. ASSUME NEW r \in Requests, GrantLapses(r) PROVE (IntentInv /\ LedgerMatchesRow)'
  BY <1>20, LedgerKept DEF GrantLapses, db
<1>21. CASE Tick
  <2>1. \A q \in Requests : row'[q] = row[q] \/ (IsLive(q) /\ IsLive(q)')
    BY <1>21, TickKeeps DEF IndInv, IsLive
  <2> QED BY <1>21, <2>1, LedgerKept DEF Tick
<1>22. CASE UNCHANGED vars
  BY <1>22, LedgerKept DEF vars, db
<1> QED BY <1>1, <1>2, <1>3, <1>4, <1>5, <1>6, <1>7, <1>8, <1>9, <1>10, <1>11,
       <1>12, <1>13, <1>14, <1>15, <1>16, <1>17, <1>18, <1>19, <1>20, <1>21,
       <1>22 DEF Next, Step

-----------------------------------------------------------------------------
(* Terminal rows, answers and kept effects *)

(* What TerminalIsFinal says of a step. *)
TerminalKept == \A q \in Requests : IsTerminal(q) => row'[q] = row[q]

(* No action changes a terminal row: its fences match live rows only. *)
LEMMA TerminalStep == IndInv /\ [Next]_vars => TerminalKept
<1> SUFFICES ASSUME IndInv, [Next]_vars PROVE TerminalKept
  OBVIOUS
<1>1. ASSUME NEW k \in Kernels, Prepare(k) PROVE TerminalKept
  <2>1. /\ job[k] \in Requests /\ row[job[k]].state = "absent"
        /\ row' = [row EXCEPT ![job[k]] = PreparedRow(k)]
    BY <1>1 DEF Prepare, MayPrepare, IndInv, OwnerInv
  <2> QED BY <2>1 DEF TerminalKept, IndInv, TypeOK, IsTerminal, Terminal
<1>2. ASSUME NEW k \in Kernels, PrepareNotCreated(k) PROVE TerminalKept
  BY <1>2 DEF PrepareNotCreated, db, TerminalKept
<1>3. ASSUME NEW k \in Kernels, FirstRenewal(k) PROVE TerminalKept
  BY <1>3, RenewalFrame DEF TerminalKept, IsLive, IsTerminal, Live, Terminal
<1>4. ASSUME NEW k \in Kernels, FirstRenewalFails(k) PROVE TerminalKept
  BY <1>4 DEF FirstRenewalFails, db, TerminalKept
<1>5. ASSUME NEW k \in Kernels, ExecutorStart(k) PROVE TerminalKept
  BY <1>5 DEF ExecutorStart, db, TerminalKept
<1>6. ASSUME NEW k \in Kernels, ExecutorSucceeds(k) PROVE TerminalKept
  BY <1>6 DEF ExecutorSucceeds, db, TerminalKept
<1>7. ASSUME NEW k \in Kernels, ExecutorFails(k) PROVE TerminalKept
  BY <1>7 DEF ExecutorFails, db, TerminalKept
<1>8. ASSUME NEW k \in Kernels, BuildOutcomeFails(k) PROVE TerminalKept
  BY <1>8 DEF BuildOutcomeFails, db, TerminalKept
<1>9. ASSUME NEW k \in Kernels, Complete(k) PROVE TerminalKept
  <2>1. job[k] \in Requests /\ result[k] \in Outcomes /\ IsLive(job[k])
    BY <1>9 DEF Complete, CompleteMatches, IndInv, OwnerInv, ResultInv
  <2>2. \A q \in Requests \ {job[k]} : row'[q] = row[q]
    <3>1. CASE CommitCompletion(job[k], result[k])
      BY <2>1, <3>1, CommitKeeps DEF IndInv
    <3>2. CASE UNCHANGED row
      BY <3>2
    <3> QED BY <1>9, <3>1, <3>2 DEF Complete
  <2> QED BY <2>1, <2>2 DEF TerminalKept, IsLive, IsTerminal, Live, Terminal
<1>10. ASSUME NEW k \in Kernels, CompleteRaises(k) PROVE TerminalKept
  BY <1>10 DEF CompleteRaises, db, TerminalKept
<1>11. ASSUME NEW k \in Kernels, Reconcile(k) PROVE TerminalKept
  BY <1>11 DEF Reconcile, db, TerminalKept
<1>12. ASSUME NEW k \in Kernels, Heartbeat(k) PROVE TerminalKept
  BY <1>12, RenewalFrame DEF TerminalKept, IsLive, IsTerminal, Live, Terminal
<1>13. ASSUME NEW k \in Kernels, Crash(k) PROVE TerminalKept
  BY <1>13 DEF Crash, db, TerminalKept
<1>14. ASSUME NEW k \in Kernels, NEW r \in Requests, DispatchNew(k, r) PROVE TerminalKept
  BY <1>14 DEF DispatchNew, db, TerminalKept
<1>15. ASSUME NEW k \in Kernels, NEW r \in Requests, ReplayTerminal(k, r) PROVE TerminalKept
  BY <1>15 DEF ReplayTerminal, db, TerminalKept
<1>16. ASSUME NEW k \in Kernels, NEW r \in Requests, Recover(k, r) PROVE TerminalKept
  <2>1. IsLive(r) /\ \A q \in Requests \ {r} : row'[q] = row[q]
    BY <1>16, RecoverKeeps DEF Recover, RecoverMatches, IndInv
  <2> QED BY <2>1 DEF TerminalKept, IsLive, IsTerminal, Live, Terminal
<1>17. ASSUME NEW k \in Kernels, NEW r \in Requests, LateRenewal(k, r) PROVE TerminalKept
  BY <1>17, RenewalFrame DEF TerminalKept, IsLive, IsTerminal, Live, Terminal
<1>18. ASSUME NEW r \in Requests, ResolveInDoubt(r) PROVE TerminalKept
  <2>1. inDoubt[r] \in Outcomes /\ IsLive(r)
    BY <1>18 DEF ResolveInDoubt, IndInv, TypeOK, CommitInv
  <2>2. \A q \in Requests \ {r} : row'[q] = row[q]
    <3>1. CASE CommitCompletion(r, inDoubt[r])
      BY <2>1, <3>1, CommitKeeps DEF IndInv
    <3>2. CASE UNCHANGED row
      BY <3>2
    <3> QED BY <1>18, <3>1, <3>2 DEF ResolveInDoubt
  <2> QED BY <2>1, <2>2 DEF TerminalKept, IsLive, IsTerminal, Live, Terminal
<1>19. ASSUME NEW r \in Requests, ActorAges(r) PROVE TerminalKept
  BY <1>19 DEF ActorAges, db, TerminalKept
<1>20. ASSUME NEW r \in Requests, GrantLapses(r) PROVE TerminalKept
  BY <1>20 DEF GrantLapses, db, TerminalKept
<1>21. CASE Tick
  <2>1. \A q \in Requests : ~IsLive(q) => row'[q] = row[q]
    BY <1>21, TickKeeps DEF IndInv
  <2> QED BY <2>1 DEF TerminalKept, IsLive, IsTerminal, Live, Terminal
<1>22. CASE UNCHANGED vars
  BY <1>22 DEF vars, db, TerminalKept
<1> QED BY <1>1, <1>2, <1>3, <1>4, <1>5, <1>6, <1>7, <1>8, <1>9, <1>10, <1>11,
       <1>12, <1>13, <1>14, <1>15, <1>16, <1>17, <1>18, <1>19, <1>20, <1>21,
       <1>22 DEF Next, Step

(* Every answer given in a step is the outcome of the row it leaves. *)
LEMMA ToldStep == IndInv /\ [Next]_vars => ToldIsDurable'
<1> SUFFICES ASSUME IndInv, [Next]_vars PROVE ToldIsDurable'
  OBVIOUS
<1>1. \A q \in Requests : IsTerminal(q) => IsTerminal(q)' /\ row'[q] = row[q]
  BY TerminalStep DEF TerminalKept, IsTerminal
<1>2. ASSUME NEW q \in Requests, NEW o \in told[q]
      PROVE  IsTerminal(q)' /\ row'[q].outcome = o
  BY <1>1, <1>2 DEF IndInv, ToldIsDurable
<1>3. ASSUME UNCHANGED told PROVE ToldIsDurable'
  BY <1>2, <1>3 DEF ToldIsDurable
<1>4. ASSUME NEW r \in Requests, NEW o \in Outcomes, Tell(r, o),
             IsTerminal(r)', row'[r].outcome = o
      PROVE  ToldIsDurable'
  <2>1. \A q \in Requests : told'[q] = IF q = r THEN told[r] \cup {o} ELSE told[q]
    BY <1>4 DEF Tell, IndInv, TypeOK
  <2> QED BY <1>2, <1>4, <2>1 DEF ToldIsDurable
<1>5. ASSUME NEW k \in Kernels, Prepare(k) PROVE ToldIsDurable'
  BY <1>5, <1>3 DEF Prepare
<1>6. ASSUME NEW k \in Kernels, PrepareNotCreated(k) PROVE ToldIsDurable'
  <2>1. PICK r \in Requests : r = job[k]
    BY <1>6 DEF PrepareNotCreated, IndInv, OwnerInv
  <2>2. CASE IsTerminal(r) /\ Tell(r, row[r].outcome)
    <3>1. row[r].outcome \in Outcomes
      BY <2>2 DEF IndInv, RowInv
    <3> QED BY <2>2, <3>1, <1>1, <1>4
  <2>3. CASE UNCHANGED told
    BY <2>3, <1>3
  <2> QED BY <1>6, <2>1, <2>2, <2>3 DEF PrepareNotCreated
<1>7. ASSUME NEW k \in Kernels, FirstRenewal(k) PROVE ToldIsDurable'
  BY <1>7, <1>3 DEF FirstRenewal
<1>8. ASSUME NEW k \in Kernels, FirstRenewalFails(k) PROVE ToldIsDurable'
  BY <1>8, <1>3 DEF FirstRenewalFails
<1>9. ASSUME NEW k \in Kernels, ExecutorStart(k) PROVE ToldIsDurable'
  BY <1>9, <1>3 DEF ExecutorStart
<1>10. ASSUME NEW k \in Kernels, ExecutorSucceeds(k) PROVE ToldIsDurable'
  BY <1>10, <1>3 DEF ExecutorSucceeds
<1>11. ASSUME NEW k \in Kernels, ExecutorFails(k) PROVE ToldIsDurable'
  BY <1>11, <1>3 DEF ExecutorFails
<1>12. ASSUME NEW k \in Kernels, BuildOutcomeFails(k) PROVE ToldIsDurable'
  BY <1>12, <1>3 DEF BuildOutcomeFails
<1>13. ASSUME NEW k \in Kernels, Complete(k) PROVE ToldIsDurable'
  <2>1. PICK r \in Requests : r = job[k] /\ result[k] \in Outcomes /\ IsLive(r)
    BY <1>13 DEF Complete, CompleteMatches, IndInv, OwnerInv, ResultInv
  <2>2. CASE CommitCompletion(r, result[k]) /\ Tell(r, result[k])
    <3>1. row'[r].outcome = result[k] /\ IsTerminal(r)'
      BY <2>1, <2>2, CommitKeeps DEF IndInv, IsTerminal
    <3> QED BY <2>1, <2>2, <3>1, <1>4
  <2>3. CASE UNCHANGED told
    BY <2>3, <1>3
  <2> QED BY <1>13, <2>1, <2>2, <2>3 DEF Complete
<1>14. ASSUME NEW k \in Kernels, CompleteRaises(k) PROVE ToldIsDurable'
  BY <1>14, <1>3 DEF CompleteRaises
<1>15. ASSUME NEW k \in Kernels, Reconcile(k) PROVE ToldIsDurable'
  <2>1. PICK r \in Requests : r = job[k] /\ result[k] \in Outcomes
    BY <1>15 DEF Reconcile, IndInv, OwnerInv, ResultInv
  <2>2. CASE IsTerminal(r) /\ row[r].outcome = result[k] /\ Tell(r, result[k])
    BY <2>1, <2>2, <1>1, <1>4
  <2>3. CASE UNCHANGED told
    BY <2>3, <1>3
  <2> QED BY <1>15, <2>1, <2>2, <2>3 DEF Reconcile
<1>16. ASSUME NEW k \in Kernels, Heartbeat(k) PROVE ToldIsDurable'
  BY <1>16, <1>3 DEF Heartbeat
<1>17. ASSUME NEW k \in Kernels, Crash(k) PROVE ToldIsDurable'
  BY <1>17, <1>3 DEF Crash
<1>18. ASSUME NEW k \in Kernels, NEW r \in Requests, DispatchNew(k, r) PROVE ToldIsDurable'
  BY <1>18, <1>3 DEF DispatchNew
<1>19. ASSUME NEW k \in Kernels, NEW r \in Requests, ReplayTerminal(k, r) PROVE ToldIsDurable'
  <2>1. IsTerminal(r) /\ Tell(r, row[r].outcome) /\ row[r].outcome \in Outcomes
    BY <1>19 DEF ReplayTerminal, IndInv, RowInv
  <2> QED BY <2>1, <1>1, <1>4
<1>20. ASSUME NEW k \in Kernels, NEW r \in Requests, Recover(k, r) PROVE ToldIsDurable'
  <2>1. /\ row'[r].outcome = RecoveryOutcome(k) /\ IsTerminal(r)'
        /\ RecoveryOutcome(k) \in Outcomes
    BY <1>20, RecoverKeeps, OutcomeTypes DEF IndInv, IsTerminal, Terminal
  <2>2. CASE Tell(r, RecoveryOutcome(k))
    BY <2>1, <2>2, <1>4
  <2>3. CASE UNCHANGED told
    BY <2>3, <1>3
  <2> QED BY <1>20, <2>2, <2>3 DEF Recover
<1>21. ASSUME NEW k \in Kernels, NEW r \in Requests, LateRenewal(k, r) PROVE ToldIsDurable'
  BY <1>21, <1>3 DEF LateRenewal
<1>22. ASSUME NEW r \in Requests, ResolveInDoubt(r) PROVE ToldIsDurable'
  BY <1>22, <1>3 DEF ResolveInDoubt
<1>23. ASSUME NEW r \in Requests, ActorAges(r) PROVE ToldIsDurable'
  BY <1>23, <1>3 DEF ActorAges
<1>24. ASSUME NEW r \in Requests, GrantLapses(r) PROVE ToldIsDurable'
  BY <1>24, <1>3 DEF GrantLapses
<1>25. CASE Tick
  BY <1>25, <1>3 DEF Tick
<1>26. CASE UNCHANGED vars
  BY <1>26, <1>3 DEF vars
<1> QED BY <1>5, <1>6, <1>7, <1>8, <1>9, <1>10, <1>11, <1>12, <1>13, <1>14,
       <1>15, <1>16, <1>17, <1>18, <1>19, <1>20, <1>21, <1>22, <1>23, <1>24,
       <1>25, <1>26 DEF Next, Step

-----------------------------------------------------------------------------
(* The invariants *)

(* The invariant holds initially and is kept by every step. *)
LEMMA IndInvInit == Init => IndInv
<1> SUFFICES ASSUME Init PROVE IndInv
  OBVIOUS
<1>1. TypeOK
  BY AbsentRowFacts DEF Init, TypeOK, PCs
<1>2. OwnerInv /\ ResultInv
  BY DEF Init, OwnerInv, OwnerPCs, ResultInv
<1>3. CommitInv /\ RowInv
  BY AbsentRowFacts DEF Init, CommitInv, RowInv, IsTerminal, Terminal
<1>4. IntentInv
  BY AbsentRowFacts DEF Init, IntentInv
<1>5. LedgerMatchesRow
  BY AbsentRowFacts DEF Init, LedgerMatchesRow, IsTerminal, Terminal
<1>6. ToldIsDurable
  BY DEF Init, ToldIsDurable
<1> QED BY <1>1, <1>2, <1>3, <1>4, <1>5, <1>6 DEF IndInv

(* The steps of the invariant's conjuncts together. *)
LEMMA IndInvStep == IndInv /\ [Next]_vars => IndInv'
  BY TypeOKStep, OwnerInvStep, ResultInvStep, CommitInvStep, RowInvStep,
     LedgerStep, ToldStep
  DEF IndInv

(* The inductive invariant holds in every reachable state of the durable   *)
(* effect path, whatever the kernels, requests and lease.                  *)
THEOREM Inductive == Spec => []IndInv
  BY IndInvInit, IndInvStep, PTL DEF Spec

(* Every variable of the durable effect path keeps its type. *)
THEOREM TypeCorrect == Spec => []TypeOK
<1>1. IndInv => TypeOK
  BY DEF IndInv
<1> QED BY <1>1, Inductive, PTL

(* The executor is invoked at most once for a request, whatever dispatches, *)
(* crashes, restarts and recoveries happen (_dispatch_durable, recover).    *)
THEOREM ExecutedAtMostOnce == Spec => []AtMostOnce
<1>1. IndInv => AtMostOnce
  BY DEF IndInv, RowInv, AtMostOnce
<1> QED BY <1>1, Inductive, PTL

(* No executor runs before its intent is in the ledger and its grant       *)
(* consumed (the prepare transaction).                                     *)
THEOREM IntentFirst == Spec => []IntentBeforeEffect
<1>1. IndInv => IntentBeforeEffect
  <2> SUFFICES ASSUME IndInv, NEW r \in Requests, applied[r] > 0
               PROVE  /\ \E i \in DOMAIN evidence : evidence[i] = Intent(r)
                      /\ r \in consumed
    BY DEF IntentBeforeEffect
  <2>1. row[r].state # "absent"
    BY DEF IndInv, RowInv
  <2> QED BY <2>1 DEF IndInv, IntentInv
<1> QED BY <1>1, Inductive, PTL

(* The ledger and the effect rows agree: one outcome envelope for each     *)
(* terminal row, with the row's outcome, after its intent, and none for    *)
(* any other (the fences of complete_effect and recover_effect).           *)
THEOREM LedgerAgrees == Spec => []LedgerMatchesRow
<1>1. IndInv => LedgerMatchesRow
  BY DEF IndInv
<1> QED BY <1>1, Inductive, PTL

(* Whoever answers a caller (completion, reconciliation, replay or         *)
(* recovery) answers with the outcome the store holds for good.            *)
THEOREM AnswersDurable == Spec => []ToldIsDurable
<1>1. IndInv => ToldIsDurable
  BY DEF IndInv
<1> QED BY <1>1, Inductive, PTL

(* No step changes a terminal row: completion and recovery exclude each    *)
(* other.                                                                  *)
THEOREM TerminalStaysFinal == Spec => TerminalIsFinal
<1>1. IndInv /\ [Next]_vars =>
         [\A r \in Requests : IsTerminal(r) => row'[r] = row[r]]_vars
  BY TerminalStep DEF TerminalKept
<1> QED BY <1>1, Inductive, PTL DEF Spec, TerminalIsFinal

(* No step reverts an effect whose row is completed: only the owner        *)
(* reverts, before it completes or after it read a row that is not         *)
(* terminal (_dispatch_durable's reconciliation).                          *)
THEOREM CompletedStaysInPlace == Spec => CompletedEffectKept
<1>1. IndInv /\ [Next]_vars =>
         [\A r \in Requests :
             row[r].state = "completed" /\ active[r] => active'[r]]_vars
  <2> SUFFICES ASSUME IndInv, [Next]_vars, NEW q \in Requests,
                      row[q].state = "completed", active[q]
               PROVE  active'[q]
    OBVIOUS
  <2>1. ASSUME UNCHANGED active PROVE active'[q]
    BY <2>1
  <2>2. ASSUME NEW k \in Kernels, ExecutorStart(k) PROVE active'[q]
    BY <2>2 DEF ExecutorStart, IndInv, TypeOK, OwnerInv
  <2>3. ASSUME NEW k \in Kernels, ExecutorFails(k) PROVE active'[q]
    <3>1. job[k] # q
      BY <2>3 DEF ExecutorFails, IndInv, CommitInv
    <3> QED BY <2>3, <3>1 DEF ExecutorFails, IndInv, TypeOK
  <2>4. ASSUME NEW k \in Kernels, BuildOutcomeFails(k) PROVE active'[q]
    <3>1. job[k] # q
      BY <2>4 DEF BuildOutcomeFails, IndInv, CommitInv
    <3> QED BY <2>4, <3>1 DEF BuildOutcomeFails, RevertIfActive, IndInv, TypeOK
  <2>5. ASSUME NEW k \in Kernels, Reconcile(k) PROVE active'[q]
    <3>1. UNCHANGED active \/ (~IsTerminal(job[k]) /\ RevertIfActive(k))
      BY <2>5 DEF Reconcile
    <3>2. ~IsTerminal(job[k]) => job[k] # q
      BY DEF IsTerminal, Terminal
    <3> QED BY <3>1, <3>2 DEF RevertIfActive, IndInv, TypeOK
  <2>6. \/ UNCHANGED active
        \/ \E k \in Kernels : \/ ExecutorStart(k) \/ ExecutorFails(k)
                              \/ BuildOutcomeFails(k) \/ Reconcile(k)
    BY DEF Next, Step, Prepare, PrepareNotCreated, FirstRenewal,
           FirstRenewalFails, ExecutorSucceeds, Complete, CompleteRaises,
           Heartbeat, Crash, DispatchNew, ReplayTerminal, Recover, LateRenewal,
           ResolveInDoubt, ActorAges, GrantLapses, Tick, vars, world
  <2> QED BY <2>1, <2>2, <2>3, <2>4, <2>5, <2>6
<1> QED BY <1>1, Inductive, PTL DEF Spec, CompletedEffectKept

-----------------------------------------------------------------------------
(* Refinement *)

(* The abstract status and answers of the implementation's state. *)
StatusBar == [r \in Requests |-> IF IsLive(r) THEN "intended" ELSE row[r].state]
ToldBar == [r \in Requests |-> {TerminalState(o) : o \in told[r]}]

(* The initial states are abstract initial states. *)
LEMMA InitRefines == Init => Once!Init
<1> SUFFICES ASSUME Init PROVE Once!Init
  OBVIOUS
<1>1. StatusBar = [r \in Requests |-> "absent"]
  BY AbsentRowFacts DEF Init, StatusBar, IsLive, Live
<1>2. ToldBar = [r \in Requests |-> {}]
  BY DEF Init, ToldBar
<1> QED BY <1>1, <1>2 DEF Init, Once!Init, StatusBar, ToldBar

(* Telling a caller an outcome tells it the resolution. *)
LEMMA TellRefines ==
    ASSUME TypeOK, NEW r \in Requests, NEW o \in Outcomes, Tell(r, o)
    PROVE  ToldBar' = [ToldBar EXCEPT ![r] = @ \cup {TerminalState(o)}]
<1>1. \A q \in Requests : told'[q] = IF q = r THEN told[r] \cup {o} ELSE told[q]
  BY DEF Tell, TypeOK
<1>2. {TerminalState(x) : x \in told[r] \cup {o}}
        = {TerminalState(x) : x \in told[r]} \cup {TerminalState(o)}
  OBVIOUS
<1> QED BY <1>1, <1>2 DEF ToldBar

(* Rows that stay as they are, or move between the live states, have the   *)
(* same abstract status.                                                   *)
LEMMA StatusKept ==
    ASSUME \A q \in Requests : row'[q] = row[q] \/ (IsLive(q) /\ IsLive(q)')
    PROVE  StatusBar' = StatusBar
  BY DEF StatusBar, IsLive

(* A live row that becomes terminal is an abstract resolution. *)
LEMMA StatusResolved ==
    ASSUME NEW r \in Requests, IsLive(r), row'[r].state \in Terminal,
           \A q \in Requests \ {r} : row'[q] = row[q]
    PROVE  /\ StatusBar[r] = "intended"
           /\ StatusBar' = [StatusBar EXCEPT ![r] = row'[r].state]
  BY DEF StatusBar, IsLive, Live, Terminal

(* An answer from a terminal row is an abstract report. *)
LEMMA ReportRefines ==
    ASSUME IndInv, NEW r \in Requests, IsTerminal(r), Tell(r, row[r].outcome),
           UNCHANGED <<row, applied>>
    PROVE  Once!Next
<1>1. row[r].outcome \in Outcomes
  BY DEF IndInv, RowInv
<1>2. TerminalState(row[r].outcome) = StatusBar[r] /\ row[r].state \in Terminal
  BY DEF IndInv, RowInv, StatusBar, IsLive, IsTerminal, Live, Terminal
<1>3. ToldBar' = [ToldBar EXCEPT ![r] = @ \cup {StatusBar[r]}]
  BY <1>1, <1>2, TellRefines DEF IndInv
<1>4. StatusBar' = StatusBar
  BY StatusKept
<1>5. StatusBar[r] \in {"completed", "indeterminate"}
  BY <1>2 DEF StatusBar, IsLive, Live, Terminal, IsTerminal
<1>6. Once!Report(r)
  BY <1>3, <1>4, <1>5 DEF Once!Report, Once!Resolutions, StatusBar, ToldBar
<1> QED BY <1>6 DEF Once!Next

(* A live row that becomes terminal, with or without an answer, is an      *)
(* abstract resolution.                                                    *)
LEMMA ResolveRefines ==
    ASSUME IndInv, NEW r \in Requests, NEW o \in Outcomes, IsLive(r),
           row'[r].state = TerminalState(o),
           \A q \in Requests \ {r} : row'[q] = row[q],
           o.status = "succeeded" => applied[r] = 1,
           UNCHANGED applied, Tell(r, o) \/ UNCHANGED told
    PROVE  Once!Next
<1> DEFINE res == TerminalState(o)
<1>1. /\ res \in Terminal
      /\ res = "completed" => o.status = "succeeded"
  BY TerminalStateType
<1>2. /\ StatusBar[r] = "intended"
      /\ StatusBar' = [StatusBar EXCEPT ![r] = res]
  BY <1>1, StatusResolved
<1>3. ToldBar' = [ToldBar EXCEPT ![r] = @ \cup {res}] \/ ToldBar' = ToldBar
  <2>1. CASE Tell(r, o)
    BY <2>1, TellRefines DEF IndInv
  <2>2. CASE UNCHANGED told
    BY <2>2 DEF ToldBar
  <2> QED BY <2>1, <2>2
<1>4. res \in Once!Resolutions
  BY <1>1 DEF Terminal, Once!Resolutions
<1>5. Once!Resolve(r, res)
  BY <1>1, <1>2, <1>3 DEF Once!Resolve, StatusBar, ToldBar
<1> QED BY <1>4, <1>5 DEF Once!Next

(* Every step is an abstract step or a stuttering step. *)
LEMMA StepRefines == IndInv /\ [Next]_vars => [Once!Next]_(Once!vars)
<1> SUFFICES ASSUME IndInv, [Next]_vars PROVE Once!Next \/ UNCHANGED Once!vars
  OBVIOUS
<1>s. ASSUME UNCHANGED <<applied, told>>,
             \A q \in Requests : row'[q] = row[q] \/ (IsLive(q) /\ IsLive(q)')
      PROVE  UNCHANGED Once!vars
  <2>1. StatusBar' = StatusBar /\ ToldBar' = ToldBar
    BY <1>s, StatusKept DEF ToldBar
  <2> QED BY <1>s, <2>1 DEF Once!vars, StatusBar, ToldBar
<1>1. ASSUME NEW k \in Kernels, Prepare(k) PROVE Once!Next \/ UNCHANGED Once!vars
  <2>1. PICK r \in Requests : r = job[k]
    BY <1>1 DEF Prepare, IndInv, OwnerInv
  <2>2. /\ row[r].state = "absent" /\ row' = [row EXCEPT ![r] = PreparedRow(k)]
        /\ UNCHANGED <<applied, told>>
    BY <1>1, <2>1 DEF Prepare, MayPrepare, world
  <2>3. StatusBar[r] = "absent" /\ StatusBar' = [StatusBar EXCEPT ![r] = "intended"]
    BY <2>2, PreparedRowFacts DEF StatusBar, IsLive, Live, IndInv, TypeOK
  <2>4. Once!Intend(r)
    BY <2>2, <2>3 DEF Once!Intend, StatusBar
  <2> QED BY <2>4 DEF Once!Next
<1>2. ASSUME NEW k \in Kernels, PrepareNotCreated(k) PROVE Once!Next \/ UNCHANGED Once!vars
  <2>1. PICK r \in Requests : r = job[k]
    BY <1>2 DEF PrepareNotCreated, IndInv, OwnerInv
  <2>2. UNCHANGED <<row, applied>>
    BY <1>2 DEF PrepareNotCreated, db, world
  <2>3. CASE IsTerminal(r) /\ Tell(r, row[r].outcome)
    BY <2>2, <2>3, ReportRefines
  <2>4. CASE UNCHANGED told
    BY <2>2, <2>4, <1>s
  <2> QED BY <1>2, <2>1, <2>3, <2>4 DEF PrepareNotCreated
<1>3. ASSUME NEW k \in Kernels, FirstRenewal(k) PROVE Once!Next \/ UNCHANGED Once!vars
  BY <1>3, RenewalFrame, <1>s DEF FirstRenewal, world
<1>4. ASSUME NEW k \in Kernels, FirstRenewalFails(k) PROVE Once!Next \/ UNCHANGED Once!vars
  BY <1>4, <1>s DEF FirstRenewalFails, db, world
<1>5. ASSUME NEW k \in Kernels, ExecutorStart(k) PROVE Once!Next \/ UNCHANGED Once!vars
  <2>1. PICK r \in Requests : r = job[k]
    BY <1>5 DEF ExecutorStart, IndInv, OwnerInv
  <2>2. /\ applied[r] = 0 /\ applied' = [applied EXCEPT ![r] = 1]
        /\ UNCHANGED <<row, told>>
    <3>1. applied[r] = 0
      BY <1>5, <2>1 DEF ExecutorStart, IndInv, OwnerInv
    <3>2. applied' = [applied EXCEPT ![r] = applied[r] + 1] /\ UNCHANGED <<row, told>>
      BY <1>5, <2>1 DEF ExecutorStart, db
    <3> QED BY <3>1, <3>2
  <2>3. StatusBar[r] # "absent" /\ StatusBar' = StatusBar
    BY <1>5, <2>1, <2>2
    DEF ExecutorStart, IndInv, OwnerInv, OwnerPCs, StatusBar, IsLive
  <2>4. Once!Apply(r)
    BY <2>2, <2>3 DEF Once!Apply, StatusBar
  <2> QED BY <2>4 DEF Once!Next
<1>6. ASSUME NEW k \in Kernels, ExecutorSucceeds(k) PROVE Once!Next \/ UNCHANGED Once!vars
  BY <1>6, <1>s DEF ExecutorSucceeds, db, world
<1>7. ASSUME NEW k \in Kernels, ExecutorFails(k) PROVE Once!Next \/ UNCHANGED Once!vars
  BY <1>7, <1>s DEF ExecutorFails, db, world
<1>8. ASSUME NEW k \in Kernels, BuildOutcomeFails(k) PROVE Once!Next \/ UNCHANGED Once!vars
  BY <1>8, <1>s DEF BuildOutcomeFails, db, world
<1>9. ASSUME NEW k \in Kernels, Complete(k) PROVE Once!Next \/ UNCHANGED Once!vars
  <2>1. PICK r \in Requests : r = job[k]
    BY <1>9 DEF Complete, IndInv, OwnerInv
  <2>2. /\ result[k] \in Outcomes /\ IsLive(r) /\ UNCHANGED applied
        /\ result[k].status = "succeeded" => applied[r] = 1
    BY <1>9, <2>1 DEF Complete, CompleteMatches, IndInv, ResultInv, world
  <2>3. CASE /\ CommitCompletion(r, result[k])
             /\ Tell(r, result[k]) \/ UNCHANGED told
    <3>1. /\ row'[r].state = TerminalState(result[k])
          /\ \A q \in Requests \ {r} : row'[q] = row[q]
      BY <2>2, <2>3, CommitKeeps DEF IndInv
    <3> QED BY <2>2, <2>3, <3>1, ResolveRefines
  <2>4. CASE UNCHANGED <<row, told>>
    BY <2>2, <2>4, <1>s
  <2> QED BY <1>9, <2>1, <2>3, <2>4 DEF Complete
<1>10. ASSUME NEW k \in Kernels, CompleteRaises(k) PROVE Once!Next \/ UNCHANGED Once!vars
  BY <1>10, <1>s DEF CompleteRaises, db, world
<1>11. ASSUME NEW k \in Kernels, Reconcile(k) PROVE Once!Next \/ UNCHANGED Once!vars
  <2>1. PICK r \in Requests : r = job[k]
    BY <1>11 DEF Reconcile, IndInv, OwnerInv
  <2>2. UNCHANGED <<row, applied>>
    BY <1>11 DEF Reconcile, db
  <2>3. CASE IsTerminal(r) /\ row[r].outcome = result[k] /\ Tell(r, result[k])
    BY <2>2, <2>3, ReportRefines
  <2>4. CASE UNCHANGED told
    BY <2>2, <2>4, <1>s
  <2> QED BY <1>11, <2>1, <2>3, <2>4 DEF Reconcile
<1>12. ASSUME NEW k \in Kernels, Heartbeat(k) PROVE Once!Next \/ UNCHANGED Once!vars
  BY <1>12, RenewalFrame, <1>s DEF Heartbeat, world
<1>13. ASSUME NEW k \in Kernels, Crash(k) PROVE Once!Next \/ UNCHANGED Once!vars
  BY <1>13, <1>s DEF Crash, db, world
<1>14. ASSUME NEW k \in Kernels, NEW r \in Requests, DispatchNew(k, r)
      PROVE  Once!Next \/ UNCHANGED Once!vars
  BY <1>14, <1>s DEF DispatchNew, db, world
<1>15. ASSUME NEW k \in Kernels, NEW r \in Requests, ReplayTerminal(k, r)
      PROVE  Once!Next \/ UNCHANGED Once!vars
  BY <1>15, ReportRefines DEF ReplayTerminal, db, world
<1>16. ASSUME NEW k \in Kernels, NEW r \in Requests, Recover(k, r)
      PROVE  Once!Next \/ UNCHANGED Once!vars
  <2>1. /\ IsLive(r) /\ UNCHANGED applied
        /\ Tell(r, RecoveryOutcome(k)) \/ UNCHANGED told
    BY <1>16 DEF Recover, RecoverMatches, world
  <2>2. /\ row'[r].state = TerminalState(RecoveryOutcome(k))
        /\ \A q \in Requests \ {r} : row'[q] = row[q]
    BY <1>16, RecoverKeeps, OutcomeTypes DEF IndInv
  <2>3. RecoveryOutcome(k) \in Outcomes /\ RecoveryOutcome(k).status # "succeeded"
    BY OutcomeTypes DEF RecoveryOutcome
  <2> QED BY <2>1, <2>2, <2>3, ResolveRefines
<1>17. ASSUME NEW k \in Kernels, NEW r \in Requests, LateRenewal(k, r)
      PROVE  Once!Next \/ UNCHANGED Once!vars
  BY <1>17, RenewalFrame, <1>s DEF LateRenewal, world
<1>18. ASSUME NEW r \in Requests, ResolveInDoubt(r) PROVE Once!Next \/ UNCHANGED Once!vars
  <2>1. /\ inDoubt[r] \in Outcomes /\ IsLive(r) /\ UNCHANGED <<applied, told>>
        /\ inDoubt[r].status = "succeeded" => applied[r] = 1
    BY <1>18 DEF ResolveInDoubt, IndInv, TypeOK, CommitInv, world
  <2>2. CASE CommitCompletion(r, inDoubt[r])
    <3>1. /\ row'[r].state = TerminalState(inDoubt[r])
          /\ \A q \in Requests \ {r} : row'[q] = row[q]
      BY <2>1, <2>2, CommitKeeps DEF IndInv
    <3> QED BY <2>1, <3>1, ResolveRefines
  <2>3. CASE UNCHANGED row
    BY <2>1, <2>3, <1>s
  <2> QED BY <1>18, <2>2, <2>3 DEF ResolveInDoubt
<1>19. ASSUME NEW r \in Requests, ActorAges(r) PROVE Once!Next \/ UNCHANGED Once!vars
  BY <1>19, <1>s DEF ActorAges, db, world
<1>20. ASSUME NEW r \in Requests, GrantLapses(r) PROVE Once!Next \/ UNCHANGED Once!vars
  BY <1>20, <1>s DEF GrantLapses, db, world
<1>21. CASE Tick
  <2>1. \A q \in Requests : row'[q] = row[q] \/ (IsLive(q) /\ IsLive(q)')
    BY <1>21, TickKeeps DEF IndInv, IsLive
  <2> QED BY <1>21, <2>1, <1>s DEF Tick, world
<1>22. CASE UNCHANGED vars
  BY <1>22, <1>s DEF vars
<1> QED BY <1>1, <1>2, <1>3, <1>4, <1>5, <1>6, <1>7, <1>8, <1>9, <1>10, <1>11,
       <1>12, <1>13, <1>14, <1>15, <1>16, <1>17, <1>18, <1>19, <1>20, <1>21,
       <1>22 DEF Next, Step

(* The durable effect path implements EffectOnce: callers of any number of *)
(* kernels that crash, stall and recover each other see an effect that is  *)
(* intended, performed at most once and resolved once.                     *)
THEOREM Refinement == Spec => ImplementsEffectOnce
<1>1. Init => Once!Init
  BY InitRefines
<1>2. IndInv /\ [Next]_vars => [Once!Next]_(Once!vars)
  BY StepRefines
<1> QED BY <1>1, <1>2, Inductive, PTL DEF Spec, ImplementsEffectOnce, Once!Spec

===============================================================================
