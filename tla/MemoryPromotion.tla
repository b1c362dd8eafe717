---------------------------- MODULE MemoryPromotion ----------------------------
(***************************************************************************)
(* Governed memory: PostgresMemoryPromotionAuthority and retrieve_memory   *)
(* (persistence/memory.py, store.py) over the SQL functions of migration   *)
(* 0005.  A promotion creates, revises, supersedes or deletes (as a        *)
(* tombstone) one revision of a memory; its evidence and its rows commit   *)
(* together.  A rebuild writes the rows of a memory anew from the ledger.  *)
(*                                                                         *)
(* A promotion is validated against the store's clock, waits for the       *)
(* memory's lock, the proposal's and the run's head row, and is checked    *)
(* again by the database's clock, all but its approvals; from there on its *)
(* transaction waits for nothing.  The wait for the head is taken with     *)
(* the one for the proposal, and the rest is one step.  A transaction that *)
(* raises or dies leaves nothing.                                          *)
(*                                                                         *)
(* A proposal is a record: its identifier, memory, change kind, expected   *)
(* revision (0 for none), source evidence, the tick its authority ends     *)
(* (the proposal's, its scope's or the actor's expiry), the tick its       *)
(* record ends (validity, expiry or retention) and the ticks in which its  *)
(* approvals are valid (all, if the policy authorises it without one).     *)
(* Different proposals have different binding digests.                     *)
(***************************************************************************)
EXTENDS Integers, Sequences, FiniteSetsExt

CONSTANTS Promoters,   \* processes with the privileged connection
          Proposals,   \* the proposals, with their decisions and approvals
          MaxTime,     \* the last tick
          MaxLosses,   \* times the rows of a memory are lost
          None

ASSUME ProposalAssumption ==
    /\ None \notin Proposals
    /\ \A p \in Proposals :
         /\ p.kind \in {"create", "revise", "supersede", "delete", "dispute"}
         /\ p.expected \in Nat
         /\ p.until \in Nat
         /\ p.ends \in Nat
         /\ p.approved \subseteq Nat
ASSUME BoundAssumption == MaxTime \in Nat /\ MaxLosses \in Nat

Memories == {p.memory : p \in Proposals}
Sources == {p.source : p \in Proposals}

VARIABLES
    ledger,  \* source evidence and memory.promoted events, in order of commit
    rows,    \* gah_memory_records with gah_memory_transitions
    now,     \* the clock
    pc,      \* pc[c]: where promoter c is
    job,     \* job[c]: its proposal, or the memory it rebuilds
    read,    \* read[c]: the events its rebuild read
    told,    \* the promotions returned to callers
    lost,    \* memories whose rows were lost and not rebuilt
    losses

memoryVars == <<ledger, rows, now, pc, job, read, told, lost, losses>>

-----------------------------------------------------------------------------
Revision(p) == p.expected + 1

PromotedOf(m) == {i \in DOMAIN ledger : ledger[i].kind = "memory.promoted"
                                        /\ ledger[i].proposal.memory = m}

RowsOf(m) == {r \in rows : r.proposal.memory = m}

(* The row that the promotion recorded as event i stands for. *)
Row(i) == [proposal |-> ledger[i].proposal, event |-> i]

LastRevision(m) == Max({Revision(r.proposal) : r \in RowsOf(m)} \cup {0})

(* A promoter holds its memory's lock, and its proposal's, from the step   *)
(* that takes it to the end of its transaction.                            *)
MemoryHeld(m) ==
    \E c \in Promoters :
        \/ pc[c] \in {"locked", "promoting"} /\ job[c].memory = m
        \/ pc[c] = "rebuilding" /\ job[c] = m

ProposalHeld(id) == \E c \in Promoters : pc[c] = "promoting" /\ job[c].id = id

-----------------------------------------------------------------------------
Init ==
    /\ ledger = <<>>
    /\ rows = {}
    /\ now = 0
    /\ pc = [c \in Promoters |-> "idle"]
    /\ job = [c \in Promoters |-> None]
    /\ read = [c \in Promoters |-> {}]
    /\ told = {}
    /\ lost = {}
    /\ losses = 0

Goto(c, label) == pc' = [pc EXCEPT ![c] = label]

Leave(c) ==
    /\ Goto(c, "idle")
    /\ job' = [job EXCEPT ![c] = None]
    /\ read' = [read EXCEPT ![c] = {}]

(* Other actors' evidence that proposals cite. *)
AppendSource(s) ==
    /\ \A i \in DOMAIN ledger : ledger[i].source # s \/ ledger[i].kind # "source"
    /\ ledger' = Append(ledger, [kind |-> "source", source |-> s, proposal |-> None,
                                 at |-> now, whole |-> TRUE])
    /\ UNCHANGED <<rows, now, pc, job, read, told, lost, losses>>

-----------------------------------------------------------------------------
(* promote_memory *)

(* What the kind of change demands of the predecessor, and the kind that   *)
(* is not implemented.                                                     *)
Acceptable(p) ==
    /\ p.kind # "dispute"
    /\ p.kind = "create" <=> p.expected = 0

(* The expiries of actor, scope, proposal and record, and the windows of   *)
(* the approvals.                                                          *)
InForce(p) == now < p.until /\ now < p.ends /\ now \in p.approved

Promote(c, p) ==
    /\ pc[c] = "idle"
    /\ Acceptable(p)
    /\ InForce(p)
    /\ Goto(c, "validated")
    /\ job' = [job EXCEPT ![c] = p]
    /\ UNCHANGED <<ledger, rows, now, read, told, lost, losses>>

LockMemory(c) ==
    /\ pc[c] = "validated"
    /\ ~MemoryHeld(job[c].memory)
    /\ Goto(c, "locked")
    /\ UNCHANGED <<ledger, rows, now, job, read, told, lost, losses>>

LockProposal(c) ==
    /\ pc[c] = "locked"
    /\ ~ProposalHeld(job[c].id)
    /\ Goto(c, "promoting")
    /\ UNCHANGED <<ledger, rows, now, job, read, told, lost, losses>>

(* Mutant: a stored proposal is not looked up. *)
StoredNever(p) == {}

Stored(p) == {r \in rows : r.proposal.id = p.id}

Replay(c) ==
    /\ pc[c] = "promoting"
    /\ \E r \in Stored(job[c]) :
          /\ r.proposal = job[c]
          /\ told' = told \cup {r}
    /\ Leave(c)
    /\ UNCHANGED <<ledger, rows, now, lost, losses>>

(* Mutant: what was valid when the call began will do. *)
StillCurrentOnce(p) == TRUE

(* The database compares the expiries with its own clock; of the approvals *)
(* it asks only that there be one where the policy wants it.               *)
StillCurrent(p) == now < p.until /\ now < p.ends

SourceRecorded(p) ==
    \E i \in DOMAIN ledger : ledger[i].kind = "source" /\ ledger[i].source = p.source

(* Mutant: a revision needs a predecessor, but not the latest. *)
FollowsAny(p) == p.kind = "create" \/ LastRevision(p.memory) > 0

(* A creation has no predecessor, any other change follows the last one. *)
Follows(p) == p.expected = LastRevision(p.memory)

Committable(p) ==
    /\ Stored(p) = {}
    /\ StillCurrent(p)
    /\ SourceRecorded(p)
    /\ Follows(p)

Commit(c) ==
    LET p == job[c]
        row == [proposal |-> p, event |-> Len(ledger) + 1]
    IN
    /\ pc[c] = "promoting"
    /\ Committable(p)
    /\ ledger' = Append(ledger, [kind |-> "memory.promoted", source |-> p.source,
                                 proposal |-> p, at |-> now, whole |-> lost = {}])
    /\ rows' = rows \cup {row}
    /\ told' = told \cup {row}
    /\ Leave(c)
    /\ UNCHANGED <<now, lost, losses>>

Refuse(c) ==
    /\ pc[c] = "promoting"
    /\ \A r \in Stored(job[c]) : r.proposal # job[c]
    /\ ~Committable(job[c])
    /\ Leave(c)
    /\ UNCHANGED <<ledger, rows, now, told, lost, losses>>

-----------------------------------------------------------------------------
(* rebuild_memory_projection.  Revisions that are not contiguous, no       *)
(* promotion at all, or a proposal identifier that another row has by now  *)
(* raise and leave the rows as they are.                                   *)

Contiguous(events) ==
    /\ events # {}
    /\ {Revision(ledger[i].proposal) : i \in events} = 1..Cardinality(events)

(* Mutant: the rebuild does not take the memory's lock. *)
RebuildReadUnlocked(c, m) ==
    /\ pc[c] = "idle"
    /\ Contiguous(PromotedOf(m))
    /\ Goto(c, "rebuilding")
    /\ job' = [job EXCEPT ![c] = m]
    /\ read' = [read EXCEPT ![c] = PromotedOf(m)]
    /\ UNCHANGED <<ledger, rows, now, told, lost, losses>>

RebuildRead(c, m) ==
    /\ pc[c] = "idle"
    /\ ~MemoryHeld(m)
    /\ Contiguous(PromotedOf(m))
    /\ Goto(c, "rebuilding")
    /\ job' = [job EXCEPT ![c] = m]
    /\ read' = [read EXCEPT ![c] = PromotedOf(m)]
    /\ UNCHANGED <<ledger, rows, now, told, lost, losses>>

Rebuilt(c) == (rows \ RowsOf(job[c])) \cup {Row(i) : i \in read[c]}

(* UNIQUE (tenant_id, proposal_id) of gah_memory_transitions. *)
UniqueProposals(rs) == \A r, s \in rs : r.proposal.id = s.proposal.id => r = s

RebuildWrite(c) ==
    /\ pc[c] = "rebuilding"
    /\ UniqueProposals(Rebuilt(c))
    /\ rows' = Rebuilt(c)
    /\ lost' = lost \ {job[c]}
    /\ Leave(c)
    /\ UNCHANGED <<ledger, now, told, losses>>

RebuildRefused(c) ==
    /\ pc[c] = "rebuilding"
    /\ ~UniqueProposals(Rebuilt(c))
    /\ Leave(c)
    /\ UNCHANGED <<ledger, rows, now, told, lost, losses>>

-----------------------------------------------------------------------------
(* retrieve_memory: the last revision, if it is active and in its window.  *)

Retrieved(m) ==
    {r \in RowsOf(m) : /\ Revision(r.proposal) = LastRevision(m)
                       /\ r.proposal.kind # "delete"
                       /\ now < r.proposal.ends}

-----------------------------------------------------------------------------
(* Failures and time *)

Abort(c) ==
    /\ pc[c] # "idle"
    /\ Leave(c)
    /\ UNCHANGED <<ledger, rows, now, told, lost, losses>>

LoseRows(m) ==
    /\ losses < MaxLosses
    /\ RowsOf(m) # {}
    /\ rows' = rows \ RowsOf(m)
    /\ lost' = lost \cup {m}
    /\ losses' = losses + 1
    /\ UNCHANGED <<ledger, now, pc, job, read, told>>

Tick ==
    /\ now < MaxTime
    /\ now' = now + 1
    /\ UNCHANGED <<ledger, rows, pc, job, read, told, lost, losses>>

-----------------------------------------------------------------------------
Next ==
    \/ \E c \in Promoters :
          \/ \E p \in Proposals : Promote(c, p)
          \/ LockMemory(c) \/ LockProposal(c)
          \/ Replay(c) \/ Commit(c) \/ Refuse(c)
          \/ \E m \in Memories : RebuildRead(c, m)
          \/ RebuildWrite(c) \/ RebuildRefused(c)
          \/ Abort(c)
    \/ \E s \in Sources : AppendSource(s)
    \/ \E m \in Memories : LoseRows(m)
    \/ Tick

Spec == Init /\ [][Next]_memoryVars

-----------------------------------------------------------------------------
(* Properties *)

(* Every variable has its type, and the revisions of a memory are stored   *)
(* without a gap and each once, however many promotions of one revision    *)
(* were validated at the same time.                                        *)
TypeOK ==
    /\ \A i \in DOMAIN ledger :
         ledger[i] \in [kind : {"source", "memory.promoted"}, source : Sources,
                        proposal : Proposals \cup {None}, at : 0..MaxTime, whole : BOOLEAN]
    /\ rows \subseteq [proposal : Proposals, event : DOMAIN ledger]
    /\ told \subseteq [proposal : Proposals, event : DOMAIN ledger]
    /\ now \in 0..MaxTime
    /\ pc \in [Promoters -> {"idle", "validated", "locked", "promoting", "rebuilding"}]
    /\ job \in [Promoters -> Proposals \cup Memories \cup {None}]
    /\ read \in [Promoters -> SUBSET DOMAIN ledger]
    /\ lost \subseteq Memories
    /\ losses \in 0..MaxLosses
    /\ \A m \in Memories :
         {Revision(r.proposal) : r \in RowsOf(m)} = 1..Cardinality(RowsOf(m))

(* Unless rows were lost and not rebuilt, the rows of a memory are what    *)
(* its promotions in the ledger stand for, and retrieval returns the       *)
(* revision promoted last, or nothing: a rebuild never undoes a promotion  *)
(* that commits while it runs.                                             *)
RecordsFollowLedger ==
    \A m \in Memories \ lost :
        /\ RowsOf(m) = {Row(i) : i \in PromotedOf(m)}
        /\ \A r \in Retrieved(m) : r.event = Max(PromotedOf(m))

(* A proposal identifier is promoted once, for one memory and one content, *)
(* and every caller that promotes it again is told the same event; only a  *)
(* promotion made while rows were missing is excepted.                     *)
OnePromotion ==
    LET whole == {i \in DOMAIN ledger : ledger[i].kind = "memory.promoted" /\ ledger[i].whole}
    IN  /\ \A i, j \in whole : ledger[i].proposal.id = ledger[j].proposal.id => i = j
        /\ \A r \in told : ledger[r.event].proposal = r.proposal
        /\ \A r, s \in told : r.proposal.id = s.proposal.id
                              /\ {r.event, s.event} \subseteq whole => r = s

(* Each promotion follows its source evidence in the ledger, and neither   *)
(* the actor, the proposal, its scope nor its record has expired when it   *)
(* is recorded, however long it waited for its locks after it was          *)
(* validated.  Its approvals may have: see ApprovalInForce.                *)
PromotedOnEvidence ==
    \A i \in DOMAIN ledger : ledger[i].kind = "memory.promoted" =>
        /\ ledger[i].at < ledger[i].proposal.until
        /\ ledger[i].at < ledger[i].proposal.ends
        /\ \E j \in 1..(i - 1) : ledger[j].kind = "source"
                                 /\ ledger[j].source = ledger[i].source

(* No promotion is recorded under an approval that has expired.  The code  *)
(* checks the approval before it waits for the locks and never again.      *)
ApprovalInForce ==
    \A i \in DOMAIN ledger : ledger[i].kind = "memory.promoted" =>
        ledger[i].at \in ledger[i].proposal.approved

===============================================================================
