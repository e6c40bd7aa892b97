------------------------ MODULE MCMembershipProofs ------------------------
(* MembershipProofs for TLC: one audience that may be recurring or one-shot. *)
EXTENDS MembershipProofs, TLC

CONSTANTS p1, p2, sp1, sp2, aud

MCSessionOf == [p \in Persons |-> IF p = p1 THEN sp1 ELSE sp2]
MCPolicies == {[audience |-> aud, kind |-> "recurring", login |-> TRUE],
               [audience |-> aud, kind |-> "one_shot", login |-> FALSE]}
MCSymmetry == Permutations(Requests) \cup Permutations(Tokens)
=============================================================================
