-------------------------- MODULE MCDurableLifecycle --------------------------
(* DurableLifecycle with two kernels that submit, approve, grant,          *)
(* dispatch, load and rebuild one request at the same time, and may submit *)
(* a second one, which the policy authorises and the store refuses.        *)
EXTENDS DurableLifecycle, TLC

NeedsApproval == [q \in Requests |-> "require_approval"]
FirstNeedsApproval ==
    [q \in Requests |-> IF q = "q1" THEN "require_approval" ELSE "authorize"]

Symmetry == Permutations(Kernels) \cup Permutations(Approvers)

===============================================================================
