------------------------ MODULE MCAggregateIntegrity ------------------------
(***************************************************************************)
(* Two players, two identities, three accounts and one system key: both    *)
(* wallets and the system account fit, and a row can displace another one. *)
(***************************************************************************)
EXTENDS AggregateIntegrity, TLC

CONSTANTS p1, p2, d1, d2, a1, a2, a3, issuance

MCPlayerId == {p1, p2}
MCDiscordId == {d1, d2}
MCAccountId == {a1, a2, a3}
MCSystemKey == {issuance}

\* Ids and identities are only compared with each other.
MCSymmetry == Permutations(MCPlayerId) \cup Permutations(MCDiscordId)
                  \cup Permutations(MCAccountId)
=============================================================================
