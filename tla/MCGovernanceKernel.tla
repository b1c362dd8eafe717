-------------------------- MODULE MCGovernanceKernel --------------------------
(* GovernanceKernel with a request that needs an approval, a submission    *)
(* that reuses its key and operation with other content, which the policy  *)
(* authorises, and one that reuses its request id, which it denies.        *)
EXTENDS GovernanceKernel

Submit(id, key, op, effects) ==
    [id |-> id, key |-> key, op |-> op, tool |-> "tool", effects |-> effects]

NeedsApproval2 == Submit("q2", "key2", "op2", {"write"})

RacingSubmissions ==
    { NeedsApproval2, Submit("q3", "key2", "op2", {"read"}),
      Submit("q2", "key3", "op3", {"network"}) }

PolicyRules ==
    << [decision |-> "authorize", effects |-> {"read"}, tools |-> {}],
       [decision |-> "require_approval", effects |-> {"read", "write"}, tools |-> {"tool"}] >>

Approval(from, until) == [req |-> "q2", from |-> from, until |-> until]
TwoApprovals == { Approval(0, 2), Approval(1, 3) }

===============================================================================
