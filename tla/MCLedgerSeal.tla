---------------------------- MODULE MCLedgerSeal ----------------------------
(***************************************************************************)
(* One wallet beside the global target, two ledger transactions and two    *)
(* correlations: enough for one transaction to displace another, and for a *)
(* grant and its correction.                                               *)
(***************************************************************************)
EXTENDS LedgerSeal, TLC

CONSTANTS g, alice, bob, wallet, x1, x2, c1, c2, i1, i2

MCProposal == {g}
MCActor == {alice, bob}
MCTarget == {wallet, Global}
MCAmount == {0, 1}
MCTx == {x1, x2}
MCCorrelation == {c1, c2}
MCSystem == {IssuanceAdmin, RetirementCorrection, IssuanceDaily}
MCPeriod == {1}
MCInteraction == {i1, i2}
MCMovement ==
    {<<wallet, 1>>, <<wallet, -1>>, <<IssuanceAdmin, -1>>, <<RetirementCorrection, 1>>,
     <<IssuanceDaily, -1>>}

\* A grant that waits for its approval.  Before the upgrade it can also be
\* approved with whatever list it has.
MCInserted ==
    {[actor |-> alice, operation |-> "grant", amount |-> 1, requires |-> TRUE,
      status |-> "pending", approver |-> None]}

\* Identifiers are only compared with each other.
MCSymmetry == Permutations(MCTx) \cup Permutations(MCCorrelation) \cup Permutations(MCInteraction)
=============================================================================
