------------------------------ MODULE EffectOnce ------------------------------
(***************************************************************************)
(* What an effect path promises its callers, with no kernels, locks,       *)
(* leases, transactions or crashes: an effect is intended before it is     *)
(* performed, is performed at most once, is resolved at most once, is      *)
(* resolved "completed" only if it was performed, and every answer a       *)
(* caller gets is the recorded resolution.                                 *)
(***************************************************************************)
EXTENDS Naturals

CONSTANT Requests

VARIABLES status,   \* status[r]: the durable state of the effect of request r
          applied,  \* applied[r]: how often the executor was invoked for r
          told      \* told[r]: the resolutions callers have been told

vars == <<status, applied, told>>

Resolutions == {"completed", "indeterminate"}

Init ==
    /\ status = [r \in Requests |-> "absent"]
    /\ applied = [r \in Requests |-> 0]
    /\ told = [r \in Requests |-> {}]

(* The intent is recorded once. *)
Intend(r) ==
    /\ status[r] = "absent"
    /\ status' = [status EXCEPT ![r] = "intended"]
    /\ UNCHANGED <<applied, told>>

(* The executor runs.  The owner of the intent may be slow: its effect can *)
(* land after the effect was resolved "indeterminate", never before the    *)
(* intent and never a second time.                                         *)
Apply(r) ==
    /\ status[r] # "absent"
    /\ applied[r] = 0
    /\ applied' = [applied EXCEPT ![r] = 1]
    /\ UNCHANGED <<status, told>>

(* One resolution is recorded, and the caller that recorded it may or may *)
(* not get its answer.                                                     *)
Resolve(r, res) ==
    /\ status[r] = "intended"
    /\ res = "completed" => applied[r] = 1
    /\ status' = [status EXCEPT ![r] = res]
    /\ \/ told' = [told EXCEPT ![r] = @ \cup {res}]
       \/ told' = told
    /\ UNCHANGED applied

(* A caller is told the recorded resolution. *)
Report(r) ==
    /\ status[r] \in Resolutions
    /\ told' = [told EXCEPT ![r] = @ \cup {status[r]}]
    /\ UNCHANGED <<status, applied>>

Next ==
    \E r \in Requests :
        \/ Intend(r)
        \/ Apply(r)
        \/ \E res \in Resolutions : Resolve(r, res)
        \/ Report(r)

Spec == Init /\ [][Next]_vars

===============================================================================
