---------------------------- MODULE ProposalSeal ----------------------------
(***************************************************************************)
(* The database's own protection of safety proposals: the tables, CHECKs   *)
(* and triggers of migrations 0004 and 0005.                               *)
(*                                                                         *)
(* A second operator approves a list of targets.  Since 0005 the list is   *)
(* sealed by a row of safety_proposal_scopes, and neither the proposal nor *)
(* its targets change afterwards unless the seal says the list is the one  *)
(* that was proposed.  One action is one SQL statement that commits, of    *)
(* the bot or of an operator with a SQL shell; a statement that a CHECK, a *)
(* key or a trigger aborts is not an action.  Deletions, replacements and  *)
(* updates of targets and scopes always abort, so they have no action.     *)
(*                                                                         *)
(* Statements name declared columns.  Every table has the implicit rowid   *)
(* too, and a REPLACE that names it is outside this module: the triggers   *)
(* compare proposal_id only, and with recursive_triggers off (the default) *)
(* such a statement deletes the seal of another proposal unseen.  Nothing  *)
(* here would hold of it.  With recursive_triggers on the delete triggers  *)
(* abort it.                                                               *)
(***************************************************************************)
EXTENDS Integers, FiniteSets

CONSTANTS
    Proposal,    \* safety_proposals.id
    Actor,       \* the operators
    Target,      \* safety_proposal_targets.target_id
    Global,      \* the target 0, which stands for everybody
    Amount,      \* the amounts a row may name
    MaxTargets,  \* the most targets a verified scope holds
    None         \* no such row, no approver

ASSUME ProposalAssumption ==
    /\ Global \in Target
    /\ IsFiniteSet(Target)
    /\ Amount \subseteq Nat
    /\ MaxTargets \in Nat \ {0}
    /\ None \notin Actor

VARIABLES
    proposals,  \* the rows of safety_proposals, None where there is none
    targets,    \* the targets each proposal has rows for
    scopes,     \* the rows of safety_proposal_scopes, None where there is none
    sealed      \* 0005 and everything after it has been applied

proposalVars == <<proposals, targets, scopes, sealed>>

Operations == {"freeze", "release", "grant"}

\* The CHECK constraints of safety_proposals.
Row ==
    {r \in [actor : Actor, operation : Operations, amount : Amount, requires : BOOLEAN,
            status : {"pending", "approved", "applied"}, approver : Actor \cup {None}] :
        /\ r.operation = "grant" <=> r.amount > 0
        /\ r.status = "pending" => r.approver = None
        /\ r.status # "pending" /\ r.requires => r.approver # None
        /\ r.approver # r.actor
        /\ r.operation = "grant" => r.status # "applied"}

Scope == [count : Nat, verified : BOOLEAN]

ProposalTypeOK ==
    /\ proposals \in [Proposal -> Row \cup {None}]
    /\ targets \in [Proposal -> SUBSET Target]
    /\ scopes \in [Proposal -> Scope \cup {None}]
    /\ sealed \in BOOLEAN

\* A database at revision 0004.
ProposalInit ==
    /\ proposals = [p \in Proposal |-> None]
    /\ targets = [p \in Proposal |-> {}]
    /\ scopes = [p \in Proposal |-> None]
    /\ sealed = FALSE

Stored == {p \in Proposal : proposals[p] # None}
Scoped == {p \in Proposal : scopes[p] # None}

\* trg_safety_proposal_require_scope: the seal vouches for the list.
VerifiedScope(p) ==
    /\ p \in Scoped
    /\ scopes[p].verified
    /\ scopes[p].count = Cardinality(targets[p])

\* What a status change leaves alone.
Identity(r) == <<r.actor, r.operation, r.amount, r.requires>>

InsertProposal(p, row) ==
    /\ p \notin Stored
    /\ sealed => row.status = "pending"
    /\ proposals' = [proposals EXCEPT ![p] = row]
    /\ UNCHANGED <<targets, scopes, sealed>>

\* Mutant: the seal of the list is not consulted.
UpdatableWhilePending(p) == proposals[p].status = "pending"

Updatable(p) ==
    /\ proposals[p].status = "pending"
    /\ sealed => VerifiedScope(p)

UpdateProposal(p, row) ==
    /\ p \in Stored
    /\ Updatable(p)
    /\ Identity(row) = Identity(proposals[p])
    /\ row.status # "pending"
    /\ proposals' = [proposals EXCEPT ![p] = row]
    /\ UNCHANGED <<targets, scopes, sealed>>

Unsealed(p) == p \in Stored \ Scoped

InsertTarget(p, t) ==
    /\ Unsealed(p)
    /\ t \notin targets[p]
    /\ targets' = [targets EXCEPT ![p] = @ \cup {t}]
    /\ UNCHANGED <<proposals, scopes, sealed>>

\* trg_safety_scope_validate for scope_verified = 1.
Certifiable(p) ==
    /\ Cardinality(targets[p]) \in 1..MaxTargets
    /\ proposals[p].status = "pending"
    /\ Cardinality(targets[p]) > 1 \/ proposals[p].operation = "grant" => Global \notin targets[p]

InsertScope(p, verified) ==
    /\ sealed
    /\ p \in Stored \ Scoped
    /\ verified => Certifiable(p)
    /\ scopes' = [scopes EXCEPT ![p] = [count |-> Cardinality(targets[p]), verified |-> verified]]
    /\ UNCHANGED <<proposals, targets, sealed>>

\* 0005 freezes the membership it finds and does not claim it was approved.
AsFound(p) == [count |-> Cardinality(targets[p]), verified |-> FALSE]

UpgradeProposals ==
    /\ ~sealed
    /\ sealed' = TRUE
    /\ scopes' = [p \in Proposal |-> IF p \in Stored THEN AsFound(p) ELSE None]
    /\ UNCHANGED <<proposals, targets>>

ProposalStatement(Inserted) ==
    \E p \in Proposal :
        \/ \E row \in Inserted : InsertProposal(p, row)
        \/ \E row \in Row : UpdateProposal(p, row)
        \/ \E t \in Target : InsertTarget(p, t)
        \/ \E verified \in BOOLEAN : InsertScope(p, verified)

-----------------------------------------------------------------------------
\* A proposal whose list the migration sealed, or that was sealed unverified,
\* never moves again under statements on declared columns: not its status, not
\* its approver, not its targets.
LegacyNeverActs ==
    [][\A p \in Scoped :
          /\ targets'[p] = targets[p] /\ scopes'[p] = scopes[p]
          /\ ~scopes[p].verified => proposals'[p] = proposals[p]]_proposalVars
=============================================================================
