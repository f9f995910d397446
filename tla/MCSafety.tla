------------------------------ MODULE MCSafety ------------------------------
(* Small instances of Safety for TLC. *)
EXTENDS Safety, TLC

CONSTANTS o1, o2, t1, t2, p1, p2, p3

MCOperators == {o1, o2}
MCOneOperator == {o1}
MCTargets == {t1, t2}
MCOneTarget == {t1}
MCTwoProposals == {p1, p2}
MCOneProposal == {p1}
MCThreeProposals == {p1, p2, p3}

Limits(threshold, perOperation, rolling) ==
    [threshold |-> threshold, perOperation |-> perOperation, rolling |-> rolling]

\* Grants: a deployment that asks for approval of every coin, and one of bulk
\* grants only.
MCGrantPolicies == {Limits(1, 2, 3), Limits(0, 2, 3)}
\* Windows: two ceilings, so that a restart may lower the limit in force.
MCWindowPolicies == {Limits(2, 2, 3), Limits(2, 2, 2)}
\* Expiry: the least that asks for approval.
MCExpiryPolicies == {Limits(0, 2, 2)}

\* Bounds: who loses or gains what.
MCChanges == {<<o1, "correct">>, <<o1, "bypass">>, <<o2, "approve">>}

MCForward == {1}
MCBothWays == {1, -1}
MCGrants == {"grant"}
MCAllOperations == {"grant", "freeze", "release"}

ProposalSymmetry == Permutations(MCThreeProposals)
PairSymmetry == Permutations(MCTwoProposals)
=============================================================================
