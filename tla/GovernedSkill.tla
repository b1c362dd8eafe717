----------------------------- MODULE GovernedSkill -----------------------------
(***************************************************************************)
(* What the lifecycle authority promises of one skill, with no callers,    *)
(* locks, transactions, drafts or crashes: an operation takes effect at    *)
(* once, on the revisions it expects and at most once under its            *)
(* identifier; its result never changes, and whoever asks again is given   *)
(* that result.  The row that shows the active skill may be lost; then no  *)
(* skill is shown until an activation or a rebuild brings one back, and a  *)
(* rebuild brings back the skill the operations made active.               *)
(***************************************************************************)
EXTENDS Naturals, Sequences

CONSTANTS Commands, None

VARIABLES revisions,  \* digests of the installed revisions, in order
          stage,      \* the lifecycle state the last operation led to
          current,    \* the skill the operations made active
          shown,      \* the skill that is resolved: the current one, unless its row is lost
          results,    \* the operations that took effect, with their results
          given       \* given[m]: the results callers of m were given

vars == <<revisions, stage, current, shown, results, given>>

Nothing == [revision |-> 0, digest |-> None]

Init ==
    /\ revisions = <<>>
    /\ stage = "none"
    /\ current = Nothing
    /\ shown = Nothing
    /\ results = {}
    /\ given = [m \in Commands |-> {}]

(* Rebuilds have operation identifiers of their own. *)
SameJournal(m, n) == m.operation = "rebuild" <=> n.operation = "rebuild"

(* m is new and expects the revisions there are. *)
Fits(m) ==
    /\ \A e \in results : SameJournal(e.cmd, m) => e.cmd.id # m.id
    /\ m.expected = Len(revisions)

(* m takes effect, and its caller is given the result. *)
Finish(m, result) ==
    /\ results' = results \cup {[cmd |-> m, result |-> result]}
    /\ given' = [given EXCEPT ![m] = @ \cup {result}]

Result(revision, state, digest) ==
    [revision |-> revision, state |-> state, digest |-> digest]

Install(m) ==
    /\ m.operation = "install"
    /\ Fits(m)
    /\ m.target = Len(revisions) + 1
    /\ revisions' = Append(revisions, m.digest)
    /\ stage' = "installed"
    /\ Finish(m, Result(m.target, "installed", m.digest))
    /\ UNCHANGED <<current, shown>>

IsInstalled(m) == m.target \in DOMAIN revisions /\ revisions[m.target] = m.digest

Activate(m) ==
    /\ m.operation \in {"activate", "rollback"}
    /\ Fits(m)
    /\ IsInstalled(m)
    /\ m.operation = "rollback" => shown # Nothing
    /\ stage' = "active"
    /\ current' = [revision |-> m.target, digest |-> m.digest]
    /\ shown' = current'
    /\ Finish(m, Result(m.target, "active", m.digest))
    /\ UNCHANGED revisions

Deactivate(m) ==
    /\ m.operation = "deactivate"
    /\ Fits(m)
    /\ IsInstalled(m)
    /\ shown.revision = m.target
    /\ stage' = "inactive"
    /\ current' = Nothing
    /\ shown' = Nothing
    /\ Finish(m, Result(m.target, "inactive", m.digest))
    /\ UNCHANGED revisions

(* The result names the last revision if no skill is active. *)
Rebuild(m) ==
    /\ m.operation = "rebuild"
    /\ Fits(m)
    /\ revisions # <<>>
    /\ shown' = current
    /\ Finish(m, IF current # Nothing
                 THEN Result(current.revision, "active", current.digest)
                 ELSE Result(Len(revisions), stage, revisions[Len(revisions)]))
    /\ UNCHANGED <<revisions, stage, current>>

(* A caller is given the result that m had. *)
Repeat(m) ==
    /\ \E e \in results :
          e.cmd = m /\ given' = [given EXCEPT ![m] = @ \cup {e.result}]
    /\ UNCHANGED <<revisions, stage, current, shown, results>>

(* The row of the active skill is lost. *)
Lose ==
    /\ shown' = Nothing
    /\ UNCHANGED <<revisions, stage, current, results, given>>

Next ==
    \/ \E m \in Commands : Install(m) \/ Activate(m) \/ Deactivate(m) \/ Rebuild(m) \/ Repeat(m)
    \/ Lose

Spec == Init /\ [][Next]_vars

===============================================================================
