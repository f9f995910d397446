------------------------------- MODULE Safety -------------------------------
(***************************************************************************)
(* The administrative safety domain: durable capabilities, restriction and *)
(* grant proposals with two-person approval, grant execution and grant     *)
(* corrections.  Every operation is one serialised write transaction, so   *)
(* each is one action; a request the code rejects changes no domain state  *)
(* and is no step.  Time is the injected wall clock, Day is DAY_MS.        *)
(***************************************************************************)
EXTENDS Integers, FiniteSets, Functions

CONSTANTS
    Operator,     \* Discord users that act as administrators
    Target,       \* Discord users that own wallets
    Global,       \* target 0, the whole economy
    ProposalId,   \* proposal identities, one per interaction
    Amount,       \* bound: the amounts operators ask for
    Policies,     \* the SafetyPolicy values a deployment may configure
    Day,          \* length of the rolling window and lifetime of a proposal
    MaxClock,     \* bound: the last instant
    ClockSteps,   \* how the wall clock moves; it may be set back
    MaxLag,       \* how far the clock may move while a request waits for the writer
    Changeable,   \* bound: the (operator, capability) pairs that change hands
    Operations,   \* bound: the operations operators propose
    NoPolicy, NoProposal, NoOperator

\* players.inspect guards only audited reads.
Capabilities == {"manage", "restrict", "approve", "propose", "correct", "bypass"}
BootstrapCapabilities == Capabilities \ {"correct", "bypass"}

ASSUME TargetAssumption == Global \notin Target /\ IsFiniteSet(Target)
ASSUME AmountAssumption == Amount \subseteq Nat \ {0}
ASSUME PolicyAssumption ==
    \A c \in Policies : /\ c.threshold \in Nat /\ {c.perOperation, c.rolling} \subseteq Nat \ {0}
                        /\ c.threshold <= c.perOperation /\ c.perOperation <= c.rolling
ASSUME TimeAssumption == Day \in Nat \ {0} /\ MaxClock \in Nat /\ MaxLag \in Nat
ASSUME ChangeAssumption == /\ Changeable \subseteq Operator \X Capabilities
                           /\ Operations \subseteq {"freeze", "release", "grant"}

VARIABLES
    clock,         \* what clock_ms returns
    policy,        \* the policy of the running process
    bootstrapped,  \* the safety_bootstrap row exists
    caps,          \* the capability rows
    frozen,        \* the restriction rows
    proposals,     \* the proposal rows with their targets and scope
    executions,    \* the grant_executions rows
    corrections,   \* the corrections rows
    joined,        \* players with a wallet
    wallet,        \* wallet projections
    issuance,      \* projection of the system account issuance.admin
    retirement     \* projection of the system account retirement.correction

ledgerVars == <<executions, corrections, wallet, issuance, retirement>>
vars == <<clock, policy, bootstrapped, caps, frozen, proposals, joined, ledgerVars>>

Proposal == [actor : Operator, operation : {"freeze", "release", "grant"},
             targets : (SUBSET Target) \cup {{Global}}, amount : Nat,
             created : Nat, expires : Nat, requires : BOOLEAN,
             status : {"pending", "approved", "applied"},
             approver : Operator \cup {NoOperator}]

ASSUME NoneAssumption == /\ NoPolicy \notin Policies
                         /\ NoOperator \notin Operator
                         /\ NoProposal \notin Proposal

Init ==
    /\ clock = 0
    /\ policy \in Policies \cup {NoPolicy}
    /\ bootstrapped = FALSE /\ caps = {} /\ frozen = {}
    /\ proposals = [p \in ProposalId |-> NoProposal]
    /\ executions = {} /\ corrections = {}
    /\ joined = {} /\ wallet = [t \in Target |-> 0]
    /\ issuance = 0 /\ retirement = 0

-----------------------------------------------------------------------------
(* What the repositories answer.                                           *)

Has(o, c) == <<o, c>> \in caps
Frozen(t) == t \in frozen \/ Global \in frozen

Exists(p) == proposals[p] # NoProposal

\* A proposal that can still be approved; mutant: any that has not taken
\* effect.
OpenUntilApplied(r) == r.status # "applied"
Open(r) == r.status = "pending"

\* The permanent business identity of an execution; mutant: it is forgotten
\* before the proposal expires.
ExecutedLately(p) == \E e \in executions : e.proposal = p /\ e.at = clock
Executed(p) == \E e \in executions : e.proposal = p

\* The permanent identity of a correction; mutant: only bypassing ones count.
CorrectedByBypass(p, t) ==
    \E c \in corrections : c.proposal = p /\ c.target = t /\ c.bypassed
Corrected(p, t) == \E c \in corrections : c.proposal = p /\ c.target = t
Total(r) == r.amount * Cardinality(r.targets)
Needed(operation) == IF operation = "grant" THEN "propose" ELSE "restrict"

\* The instant a request sampled before it waited for the writer.  When the
\* clock was set back meanwhile, it lies ahead of the present one.
Arrivals ==
    {t \in 0..MaxClock : /\ t - clock \in -MaxLag..MaxLag
                         /\ t > clock => \E step \in ClockSteps : step < 0}

\* proposed_amount_since with an inclusive cutoff; mutant: only pending ones.
ProposedPendingSince(o, since) ==
    SumFunction([p \in {p \in ProposalId : /\ Exists(p) /\ proposals[p].actor = o
                                           /\ proposals[p].operation = "grant"
                                           /\ proposals[p].created >= since
                                           /\ proposals[p].status = "pending"}
                 |-> Total(proposals[p])])
ProposedSince(o, since) ==
    SumFunction([p \in {p \in ProposalId : /\ Exists(p) /\ proposals[p].actor = o
                                           /\ proposals[p].operation = "grant"
                                           /\ proposals[p].created >= since}
                 |-> Total(proposals[p])])

\* grants.amount_since, exclusive; mutant: the window of proposal creation.
GrantedByCreation(o, since) ==
    SumFunction([e \in {e \in executions : proposals[e.proposal].actor = o
                                           /\ proposals[e.proposal].created > since}
                 |-> Total(proposals[e.proposal])])
GrantedSince(o, since) ==
    SumFunction([e \in {e \in executions : proposals[e.proposal].actor = o /\ e.at > since}
                 |-> Total(proposals[e.proposal])])

\* corrections.amount_since, exclusive.
CorrectedSince(o, since) ==
    SumFunction([c \in {c \in corrections : c.actor = o /\ c.at > since} |-> c.amount])

-----------------------------------------------------------------------------
(* Authority.                                                              *)

\* The bootstrap CLI on the stopped service: once in the life of the database.
Bootstrap(os) ==
    /\ ~bootstrapped
    /\ bootstrapped' = TRUE
    /\ caps' = caps \cup (os \X BootstrapCapabilities)
    /\ UNCHANGED <<clock, policy, frozen, proposals, joined, ledgerVars>>

ChangeCapability(o, target, c, enabled) ==
    /\ Has(o, "manage")
    /\ caps' = IF enabled THEN caps \cup {<<target, c>>} ELSE caps \ {<<target, c>>}
    /\ UNCHANGED <<clock, policy, bootstrapped, frozen, proposals, joined, ledgerVars>>

-----------------------------------------------------------------------------
(* Proposals.                                                              *)

\* The per-operation and rolling ceilings a grant proposal is held to.
WithinProposalLimits(total, spent) ==
    /\ total <= policy.perOperation
    /\ spent <= policy.rolling

\* add_proposal was done for r; _finish applies a restriction at once and
\* leaves a grant to its execution.
Finish(p, r, approver) ==
    /\ proposals' = [proposals EXCEPT ![p] =
            [r EXCEPT !.status = IF r.operation = "grant" THEN "approved" ELSE "applied",
                      !.approver = approver]]
    /\ frozen' = CASE r.operation = "freeze"  -> frozen \cup r.targets
                   [] r.operation = "release" -> frozen \ r.targets
                   [] OTHER -> frozen

\* Mutant: a bulk restriction of zero coins stays below the threshold.
NeedsApprovalByAmount(ts, total) == total > policy.threshold
NeedsApproval(ts, total) ==
    Cardinality(ts) > 1 \/ ts = {Global} \/ total > policy.threshold

Propose(o, p, operation, ts, amount) ==
    \E now \in Arrivals :
        LET total == amount * Cardinality(ts)
            requires == NeedsApproval(ts, total)
            r == [actor |-> o, operation |-> operation, targets |-> ts, amount |-> amount,
                  created |-> now, expires |-> now + Day, requires |-> requires,
                  status |-> "pending", approver |-> NoOperator]
        IN
        /\ Has(o, Needed(operation))
        /\ ~Exists(p)
        /\ policy # NoPolicy
        /\ operation = "grant" =>
              /\ WithinProposalLimits(total, total + ProposedSince(o, now - Day))
              /\ \A t \in ts : ~Frozen(t)
        /\ IF requires
           THEN proposals' = [proposals EXCEPT ![p] = r] /\ UNCHANGED frozen
           ELSE Finish(p, r, NoOperator)
        /\ UNCHANGED <<clock, policy, bootstrapped, caps, joined, ledgerVars>>

\* approve samples its instant when the request arrives.
Approve(o, p) ==
    \E now \in Arrivals :
        LET r == proposals[p] IN
        /\ Has(o, "approve")
        /\ Exists(p) /\ r.actor # o /\ Open(r)
        /\ now < r.expires
        /\ Has(r.actor, Needed(r.operation))
        /\ policy # NoPolicy
        /\ r.operation = "grant" =>
              /\ WithinProposalLimits(Total(r), ProposedSince(r.actor, now - Day))
              /\ \A t \in r.targets : ~Frozen(t)
        /\ Finish(p, r, o)
        /\ UNCHANGED <<clock, policy, bootstrapped, caps, joined, ledgerVars>>

-----------------------------------------------------------------------------
(* Money.                                                                  *)

Join(t) ==
    /\ t \notin joined /\ ~Frozen(t)
    /\ joined' = joined \cup {t}
    /\ UNCHANGED <<clock, policy, bootstrapped, caps, frozen, proposals, ledgerVars>>

\* The second operator behind an approval still holds the capability; mutant: an
\* approval outlives the authority it was given with.
ApprovalRecorded(o, r) == r.approver # NoOperator /\ r.approver # o
ApprovalStands(o, r) ==
    /\ r.approver # NoOperator /\ r.approver # o
    /\ Has(r.approver, "approve")

\* Mutant: the issuance account is debited for one target.
IssueDebitsOnce(p, r) ==
    /\ executions' = executions \cup {[proposal |-> p, at |-> clock]}
    /\ wallet' = [t \in Target |-> wallet[t] + IF t \in r.targets THEN r.amount ELSE 0]
    /\ issuance' = issuance - r.amount

\* issue: one ledger transaction debits the issuance account and credits every
\* target, or nothing happens.
Issue(p, r) ==
    /\ executions' = executions \cup {[proposal |-> p, at |-> clock]}
    /\ wallet' = [t \in Target |-> wallet[t] + IF t \in r.targets THEN r.amount ELSE 0]
    /\ issuance' = issuance - Total(r)

\* execute_grant samples the clock again inside the transaction.
ExecuteGrant(o, p) ==
    LET r == proposals[p] IN
    /\ Has(o, "propose")
    /\ Exists(p) /\ r.operation = "grant" /\ r.actor = o
    /\ ~Executed(p)
    /\ r.status = "approved"
    /\ r.created <= clock /\ clock < r.expires
    /\ policy # NoPolicy
    /\ Total(r) <= policy.perOperation
    /\ r.requires \/ NeedsApproval(r.targets, Total(r)) => ApprovalStands(o, r)
    /\ GrantedSince(o, clock - Day) + Total(r) <= policy.rolling
    /\ \A t \in r.targets : ~Frozen(t) /\ t \in joined
    /\ Issue(p, r)
    /\ UNCHANGED <<clock, policy, bootstrapped, caps, frozen, proposals, joined,
                   corrections, retirement>>

\* The bounds of one correction.
CorrectionLimit(r, amount) ==
    amount <= r.amount /\ amount <= policy.threshold /\ amount <= policy.perOperation

\* correct_grant, also sampled inside the transaction.
CorrectGrant(o, p, t, amount, bypass) ==
    LET r == proposals[p] IN
    /\ Has(o, "correct")
    /\ t \in joined
    /\ ~Corrected(p, t)
    /\ Executed(p) /\ t \in r.targets
    /\ policy # NoPolicy
    /\ CorrectionLimit(r, amount)
    /\ CorrectedSince(o, clock - Day) + amount <= policy.rolling
    /\ bypass => Has(o, "bypass")
    /\ Frozen(t) => bypass
    /\ amount <= wallet[t]
    /\ corrections' = corrections \cup
            {[proposal |-> p, target |-> t, actor |-> o, amount |-> amount, at |-> clock,
              bypassed |-> (bypass /\ Frozen(t))]}
    /\ wallet' = [wallet EXCEPT ![t] = @ - amount]
    /\ retirement' = retirement + amount
    /\ UNCHANGED <<clock, policy, bootstrapped, caps, frozen, proposals, joined,
                   executions, issuance>>

-----------------------------------------------------------------------------
(* The process and its clock.                                              *)

\* A restart loads the policy the deployment configures now, or none.
Restart ==
    /\ policy' \in (Policies \cup {NoPolicy}) \ {policy}
    /\ UNCHANGED <<clock, bootstrapped, caps, frozen, proposals, joined, ledgerVars>>

\* The clock port refuses negative instants.
Tick ==
    /\ \E d \in ClockSteps : clock' = clock + d /\ clock + d \in 0..MaxClock
    /\ UNCHANGED <<policy, bootstrapped, caps, frozen, proposals, joined, ledgerVars>>

\* The argument checks of propose: grants name users and an amount, restrictions
\* name users or Global alone and no amount.
GrantArguments == {"grant"} \X ((SUBSET Target) \ {{}}) \X Amount
RestrictionArguments ==
    {"freeze", "release"} \X (((SUBSET Target) \ {{}}) \cup {{Global}}) \X {0}

Next ==
    \/ \E os \in (SUBSET Operator) \ {{}} : Bootstrap(os)
    \/ \E o \in Operator, x \in Changeable, enabled \in BOOLEAN :
            ChangeCapability(o, x[1], x[2], enabled)
    \/ \E o \in Operator, p \in ProposalId, a \in GrantArguments \cup RestrictionArguments :
            a[1] \in Operations /\ Propose(o, p, a[1], a[2], a[3])
    \/ \E o \in Operator, p \in ProposalId : Approve(o, p) \/ ExecuteGrant(o, p)
    \/ \E t \in Target : Join(t)
    \/ \E o \in Operator, p \in ProposalId, t \in Target, a \in Amount, b \in BOOLEAN :
            CorrectGrant(o, p, t, a, b)
    \/ Restart
    \/ Tick

Spec == Init /\ [][Next]_vars

-----------------------------------------------------------------------------
(* Properties.                                                             *)

\* Every variable stays in its range; no projection of a wallet is negative.
TypeOK ==
    /\ clock \in 0..MaxClock
    /\ policy \in Policies \cup {NoPolicy}
    /\ bootstrapped \in BOOLEAN
    /\ caps \in SUBSET (Operator \X Capabilities)
    /\ frozen \in SUBSET (Target \cup {Global})
    /\ proposals \in [ProposalId -> Proposal \cup {NoProposal}]
    /\ executions \in SUBSET [proposal : ProposalId, at : 0..MaxClock]
    /\ corrections \in SUBSET [proposal : ProposalId, target : Target, actor : Operator,
                                amount : Nat, at : 0..MaxClock, bypassed : BOOLEAN]
    /\ joined \in SUBSET Target
    /\ wallet \in [Target -> Nat]
    /\ issuance \in Int /\ retirement \in Nat

\* Bulk and global proposals take two people, whatever the amounts and the order
\* of approvals: once settled, somebody other than the proposer approved them.
TwoPersonRule ==
    \A p \in ProposalId :
        LET r == proposals[p] IN
        /\ Exists(p) /\ r.status # "pending"
        /\ Cardinality(r.targets) > 1 \/ r.targets = {Global}
        => r.approver \in Operator \ {r.actor}

\* Coins are issued only on authority that stands when they are issued, by the
\* policy then in force: a revoked proposer, a revoked approver or a lowered
\* threshold stops an approved grant.
IssuedOnStandingAuthority ==
    [][\A p \in ProposalId :
        (\E e \in executions' \ executions : e.proposal = p) =>
            LET r == proposals[p] IN
            /\ <<r.actor, "propose">> \in caps
            /\ r.requires \/ Total(r) > policy.threshold =>
                  /\ r.approver \in Operator \ {r.actor}
                  /\ <<r.approver, "approve">> \in caps]_vars

\* A proposal is decided once: nothing about a settled one ever changes, of a
\* pending one only the decision, and restrictions only change by a decision.
SettledForGood ==
    [][/\ frozen' # frozen => proposals' # proposals
       /\ \A p \in ProposalId :
            Exists(p) =>
              /\ proposals[p].status # "pending" => proposals'[p] = proposals[p]
              /\ proposals'[p] = [proposals[p] EXCEPT !.status = proposals'[p].status,
                                                   !.approver = proposals'[p].approver]]_vars

\* A grant is executed at most once, however often and whenever it is retried.
GrantedOnce == \A e, f \in executions : e.proposal = f.proposal => e = f

\* The instants a window of one day can end at so that it contains instant t.
WindowEnds(t) == t..(t + Day)

\* No day-long window around a new execution exceeds the proposer's ceiling,
\* also when the policy was changed or the clock set back in between.
GrantWindow ==
    [][\A e \in executions' \ executions :
        \A end \in WindowEnds(e.at) \ {e.at + Day} :
            SumFunction([f \in {f \in executions' :
                                /\ proposals[f.proposal].actor = proposals[e.proposal].actor
                                /\ f.at \in (end - Day + 1)..end}
                         |-> Total(proposals[f.proposal])])
            <= policy.rolling]_vars

\* Proposed grants are reserved against the same ceiling, expired and executed
\* ones included, also when requests reach the writer out of order.
ProposalWindow ==
    [][\A p \in ProposalId :
        /\ proposals[p] = NoProposal /\ proposals'[p] # NoProposal
        /\ proposals'[p].operation = "grant"
        => \A end \in WindowEnds(proposals'[p].created) :
            SumFunction([q \in {q \in ProposalId :
                                /\ proposals'[q] # NoProposal
                                /\ proposals'[q].operation = "grant"
                                /\ proposals'[q].actor = proposals'[p].actor
                                /\ proposals'[q].created \in (end - Day)..end}
                         |-> Total(proposals'[q])])
            <= policy.rolling]_vars

\* What corrections take back from one credited wallet never exceeds the credit.
CorrectionsBounded ==
    \A p \in ProposalId, t \in Target :
        LET taken == {c \in corrections : c.proposal = p /\ c.target = t} IN
        taken # {} => /\ \E e \in executions : e.proposal = p
                      /\ SumFunction([c \in taken |-> c.amount]) <= proposals[p].amount

\* Every wallet is explained by the executions and corrections on record, and the
\* system accounts balance the wallets: no coin appears or disappears.
WalletsExplained ==
    /\ \A t \in Target :
        wallet[t] = SumFunction([e \in {e \in executions : t \in proposals[e.proposal].targets}
                                 |-> proposals[e.proposal].amount])
                    - SumFunction([c \in {c \in corrections : c.target = t} |-> c.amount])
    /\ SumFunction(wallet) + issuance + retirement = 0

\* The documented rule (docs/decisions.md): a proposal expires after a day, and
\* approving it rechecks that.
ApprovedInTime ==
    [][\A p \in ProposalId :
        Exists(p) /\ proposals'[p] # proposals[p] => clock < proposals[p].expires]_vars
=============================================================================
