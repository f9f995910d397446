----------------------------- MODULE LedgerSeal -----------------------------
(***************************************************************************)
(* The receipts of grants, corrections and daily claims, and the triggers  *)
(* of migrations 0006 to 0009 by which a receipt seals the ledger          *)
(* transaction it explains.                                                *)
(*                                                                         *)
(* A grant, correction or claim is written as ordinary ledger rows and     *)
(* then as a receipt.  The receipt's validate trigger compares it with     *)
(* those rows; from then on the ledger triggers refuse every statement on  *)
(* declared columns that would touch them: as the old row, as the new row, *)
(* or as a row that REPLACE would delete to make room.  Unsealed ledger    *)
(* rows obey only their keys.  A statement is an action, as in             *)
(* ProposalSeal.                                                           *)
(*                                                                         *)
(* As there, no statement names the implicit rowid.  A REPLACE that does   *)
(* is, with recursive_triggers on, a deletion the delete triggers judge    *)
(* and then an insertion.  With them off (the default) it deletes a sealed *)
(* posting, a grant's target or a receipt unseen: the insert triggers      *)
(* compare the declared columns of the new row only.  Of such statements   *)
(* the module says nothing.                                                *)
(*                                                                         *)
(* A wallet account is named by the Discord identity that owns it, and the *)
(* column group of a ledger row that a validate trigger compares (kind,    *)
(* reason, actor, time, domain reference, interaction) is one label.  The  *)
(* balance a validate trigger also reads can always be written into the    *)
(* receipt, so the comparison aborts nothing that a model without it does  *)
(* not.                                                                    *)
(***************************************************************************)
EXTENDS ProposalSeal

CONSTANTS
    Tx,                    \* economy_ledger_transactions.id
    Correlation,           \* correlation_id
    System,                \* the system accounts
    IssuanceAdmin, RetirementCorrection, IssuanceDaily,
    Period, Interaction,   \* claim_period and interaction_id of a claim
    Reward,                \* the fixed amount of a claim
    Movement,              \* the postings statements may name: <<account, amount>>
    Inserted               \* the proposal rows statements may insert

Wallet == Target \ {Global}
Account == Wallet \cup System

ASSUME LedgerAssumption ==
    /\ {IssuanceAdmin, RetirementCorrection, IssuanceDaily} \subseteq System
    /\ Cardinality({IssuanceAdmin, RetirementCorrection, IssuanceDaily}) = 3
    /\ IsFiniteSet(System)
    /\ System \cap Target = {}
    /\ Reward \in Nat \ {0}
    /\ Movement \subseteq Account \X (Int \ {0})
    /\ Inserted \subseteq Row
    /\ None \notin Tx
    /\ None \notin Row
    /\ None \notin Scope

VARIABLES
    ledger,        \* economy_ledger_transactions: [about, correlation] or None
    postings,      \* economy_ledger_postings: the amount, 0 where there is no row
    grantTargets,  \* economy_grant_targets: the gain, 0 where there is no row
    grants,        \* economy_grant_executions: the transaction, or None
    corrections,   \* economy_corrections by transaction, or None
    claims         \* economy_daily_claims by transaction, or None

ledgerVars == <<ledger, postings>>
receiptVars == <<grants, corrections, claims>>
vars == <<proposalVars, ledgerVars, grantTargets, receiptVars>>

GrantLabel(p) == [kind |-> "admin.grant", of |-> p]
CorrectionLabel(original, w) == [kind |-> "admin.correction", of |-> <<original, w>>]
ClaimLabel(w, period, i) == [kind |-> "daily.claim", of |-> <<w, period, i>>]

Label ==
    {GrantLabel(p) : p \in Proposal}
        \cup {CorrectionLabel(x, w) : x \in Tx, w \in Wallet}
        \cup {ClaimLabel(w, d, i) : w \in Wallet, d \in Period, i \in Interaction}

LedgerRow == [about : Label, correlation : Correlation]
CorrectionRow == [original : Tx, account : Wallet, amount : Nat \ {0}]
ClaimRow == [player : Wallet, period : Period, interaction : Interaction]

TypeOK ==
    /\ ProposalTypeOK
    /\ ledger \in [Tx -> LedgerRow \cup {None}]
    /\ postings \in [Tx -> [Account -> Int]]
    /\ grantTargets \in [Proposal -> [Wallet -> Nat]]
    /\ grants \in [Proposal -> Tx \cup {None}]
    /\ corrections \in [Tx -> CorrectionRow \cup {None}]
    /\ claims \in [Tx -> ClaimRow \cup {None}]

Init ==
    /\ ProposalInit
    /\ ledger = [x \in Tx |-> None]
    /\ postings = [x \in Tx |-> [a \in Account |-> 0]]
    /\ grantTargets = [p \in Proposal |-> [w \in Wallet |-> 0]]
    /\ grants = [p \in Proposal |-> None]
    /\ corrections = [x \in Tx |-> None]
    /\ claims = [x \in Tx |-> None]

Entries == {x \in Tx : ledger[x] # None}
Posted(x) == {a \in Account : postings[x][a] # 0}
Granted == {grants[p] : p \in Proposal} \ {None}
Corrected == {x \in Tx : corrections[x] # None}
Claimed == {x \in Tx : claims[x] # None}
Sealed == Granted \cup Corrected \cup Claimed

-----------------------------------------------------------------------------
\* Statements on the ledger, each in the form that says REPLACE: a statement
\* that does not can only abort where this one displaces a row.

\* The rows other than x that the keys of a new row at y displace.
Displaced(x, y, row) ==
    {z \in Entries \ {x} : z = y \/ ledger[z].correlation = row.correlation}

\* The guards of an UPDATE from x to y, and of an INSERT with x = None.  A row
\* that still has postings cannot be displaced (RESTRICT).
LedgerWritable(x, y, row) ==
    /\ ({x, y} \cup Displaced(x, y, row)) \cap Sealed = {}
    /\ \A z \in Displaced(x, y, row) : Posted(z) = {}

InsertLedger(y, row) ==
    /\ LedgerWritable(None, y, row)
    /\ ledger' = [z \in Tx |-> IF z = y THEN row
                               ELSE IF z \in Displaced(None, y, row) THEN None ELSE ledger[z]]
    /\ UNCHANGED <<proposalVars, postings, grantTargets, receiptVars>>

\* The key of a row with postings cannot change.
UpdateLedger(x, y, row) ==
    /\ x \in Entries
    /\ LedgerWritable(x, y, row)
    /\ x # y => Posted(x) = {}
    /\ ledger' = [z \in Tx |-> IF z = y THEN row
                               ELSE IF z \in {x} \cup Displaced(x, y, row) THEN None ELSE ledger[z]]
    /\ UNCHANGED <<proposalVars, postings, grantTargets, receiptVars>>

DeleteLedger(x) ==
    /\ x \in Entries \ Sealed
    /\ Posted(x) = {}
    /\ ledger' = [ledger EXCEPT ![x] = None]
    /\ UNCHANGED <<proposalVars, postings, grantTargets, receiptVars>>

\* Mutant: a posting may move into a sealed transaction, as before 0007.
Leavable(x, y) == x \notin Sealed

\* The guards of a posting that leaves x and enters y.
PostingWritable(x, y) == {x, y} \cap Sealed = {}

InsertPosting(y, b, n) ==
    /\ y \in Entries
    /\ PostingWritable(y, y)
    /\ postings' = [postings EXCEPT ![y][b] = n]
    /\ UNCHANGED <<proposalVars, ledger, grantTargets, receiptVars>>

UpdatePosting(x, a, y, b, n) ==
    /\ a \in Posted(x)
    /\ y \in Entries
    /\ PostingWritable(x, y)
    /\ postings' = [[postings EXCEPT ![x][a] = 0] EXCEPT ![y][b] = n]
    /\ UNCHANGED <<proposalVars, ledger, grantTargets, receiptVars>>

DeletePosting(x, a) ==
    /\ a \in Posted(x)
    /\ PostingWritable(x, x)
    /\ postings' = [postings EXCEPT ![x][a] = 0]
    /\ UNCHANGED <<proposalVars, ledger, grantTargets, receiptVars>>

-----------------------------------------------------------------------------
\* Receipts: they are inserted once, and never updated, deleted or replaced

InsertGrantTarget(p, w, gain) ==
    /\ sealed
    /\ p \in Stored
    /\ grants[p] = None
    /\ grantTargets[p][w] = 0
    /\ gain > 0
    /\ grantTargets' = [grantTargets EXCEPT ![p][w] = gain]
    /\ UNCHANGED <<proposalVars, ledgerVars, receiptVars>>

Beneficiaries(p) == {w \in Wallet : grantTargets[p][w] # 0}

\* trg_grant_execution_validate counts the targets of the approval, of the
\* receipt and of the ledger, and finds a posting for each.
GrantMatches(p, x) ==
    LET n == Cardinality(Beneficiaries(p))
        amount == proposals[p].amount
    IN  /\ proposals[p].operation = "grant"
        /\ proposals[p].status = "approved"
        /\ p \in Scoped
        /\ scopes[p].verified
        /\ ledger[x].about = GrantLabel(p)
        /\ scopes[p].count = n
        /\ scopes[p].count = Cardinality(targets[p])
        /\ Cardinality(Posted(x)) = n + 1
        /\ \A w \in Beneficiaries(p) :
              w \in targets[p] /\ grantTargets[p][w] = amount /\ postings[x][w] = amount
        /\ postings[x][IssuanceAdmin] = -(amount * n)

InsertGrant(p, x) ==
    /\ sealed
    /\ p \in Stored
    /\ x \in Entries
    /\ grants[p] = None
    /\ x \notin Granted
    /\ GrantMatches(p, x)
    /\ grants' = [grants EXCEPT ![p] = x]
    /\ UNCHANGED <<proposalVars, ledgerVars, grantTargets, corrections, claims>>

\* Mutant: further postings may come with the two.
HasPostings(x, w, n, contra) == postings[x][w] = n /\ postings[x][contra] = -n

\* The transaction moves n between a wallet and one system account, and
\* nothing else: two postings, of those accounts and amounts.
TwoPostings(x, w, n, contra) ==
    /\ Cardinality(Posted(x)) = 2
    /\ postings[x][w] = n
    /\ postings[x][contra] = -n

\* trg_correction_validate: the original is a sealed grant to that wallet.
CorrectionMatches(x, original, w, n) ==
    /\ \E p \in Proposal : grants[p] = original /\ n <= grantTargets[p][w]
    /\ ledger[x].about = CorrectionLabel(original, w)
    /\ TwoPostings(x, w, -n, RetirementCorrection)

\* uq_correction_original_target and trg_correction_replace.
Correctable(x, original, w) ==
    \A y \in Corrected : y # x /\ (corrections[y].original # original \/ corrections[y].account # w)

InsertCorrection(x, original, w, n) ==
    /\ sealed
    /\ x \in Entries
    /\ Correctable(x, original, w)
    /\ n > 0
    /\ CorrectionMatches(x, original, w, n)
    /\ corrections' = [corrections EXCEPT
                          ![x] = [original |-> original, account |-> w, amount |-> n]]
    /\ UNCHANGED <<proposalVars, ledgerVars, grantTargets, grants, claims>>

\* Mutant: one claim per interaction, as many as there are interactions a day.
ClaimableByInteraction(x, w, period, i) ==
    \A y \in Claimed : y # x /\ claims[y].interaction # i

\* uq_daily_player_period, uq_daily_interaction and trg_daily_replace.
Claimable(x, w, period, i) ==
    \A y \in Claimed :
        /\ y # x
        /\ claims[y].interaction # i
        /\ claims[y].player # w \/ claims[y].period # period

InsertClaim(x, w, period, i) ==
    /\ sealed
    /\ x \in Entries
    /\ Claimable(x, w, period, i)
    /\ ledger[x].about = ClaimLabel(w, period, i)
    /\ TwoPostings(x, w, Reward, IssuanceDaily)
    /\ claims' = [claims EXCEPT ![x] = [player |-> w, period |-> period, interaction |-> i]]
    /\ UNCHANGED <<proposalVars, ledgerVars, grantTargets, grants, corrections>>

\* alembic upgrade head from 0004, with nobody else writing: one step from 0005 to
\* 0009, for startup refuses the revisions between.  The receipt tables are new
\* and the ledger is left as it is.
Upgrade == UpgradeProposals /\ UNCHANGED <<ledgerVars, grantTargets, receiptVars>>

-----------------------------------------------------------------------------
LedgerStatement ==
    \/ \E y \in Tx, row \in LedgerRow :
          InsertLedger(y, row) \/ \E x \in Entries : UpdateLedger(x, y, row)
    \/ \E x \in Entries : DeleteLedger(x)

PostingStatement ==
    \/ \E y \in Entries, m \in Movement :
          \/ InsertPosting(y, m[1], m[2])
          \/ \E x \in Entries : \E a \in Posted(x) : UpdatePosting(x, a, y, m[1], m[2])
    \/ \E x \in Entries : \E a \in Posted(x) : DeletePosting(x, a)

ReceiptStatement ==
    \/ \E p \in Proposal, w \in Wallet, gain \in Amount : InsertGrantTarget(p, w, gain)
    \/ \E p \in Proposal, x \in Tx : InsertGrant(p, x)
    \/ \E x, original \in Tx, w \in Wallet, n \in Amount : InsertCorrection(x, original, w, n)
    \/ \E x \in Tx, w \in Wallet, d \in Period, i \in Interaction : InsertClaim(x, w, d, i)

Next ==
    \/ ProposalStatement(Inserted) /\ UNCHANGED <<ledgerVars, grantTargets, receiptVars>>
    \/ LedgerStatement
    \/ PostingStatement
    \/ ReceiptStatement
    \/ Upgrade

Spec == Init /\ [][Next]_vars

-----------------------------------------------------------------------------
\* Properties

\* The postings of a transfer of n to each of the wallets ws from one system
\* account, and of nothing else.
Transfer(ws, n, contra) ==
    [a \in Account |-> IF a \in ws THEN n
                       ELSE IF a = contra THEN -(n * Cardinality(ws)) ELSE 0]

\* Under statements on declared columns a grant's receipt, its approval and the
\* ledger tell one story: a verified list that a second operator approved, and a
\* transaction that pays exactly those wallets the approved amount and debits
\* issuance once.
GrantsExplained ==
    \A p \in Proposal : grants[p] # None =>
        /\ proposals[p].status = "approved"
        /\ proposals[p].requires => proposals[p].approver \notin {None, proposals[p].actor}
        /\ VerifiedScope(p)
        /\ ledger[grants[p]].about = GrantLabel(p)
        /\ postings[grants[p]] = Transfer(targets[p], proposals[p].amount, IssuanceAdmin)

\* Likewise a correction takes back, from a wallet the grant paid, no more than
\* it was paid, and a claim pays one wallet the reward.
ReceiptsExplained ==
    /\ GrantsExplained
    /\ \A x \in Corrected : \E p \in Proposal :
          LET c == corrections[x]
          IN  /\ grants[p] = c.original
              /\ c.account \in targets[p]
              /\ c.amount <= proposals[p].amount
              /\ ledger[x].about = CorrectionLabel(c.original, c.account)
              /\ postings[x] = Transfer({c.account}, -c.amount, RetirementCorrection)
    /\ \A x \in Claimed :
          LET c == claims[x]
          IN  /\ ledger[x].about = ClaimLabel(c.player, c.period, c.interaction)
              /\ postings[x] = Transfer({c.player}, Reward, IssuanceDaily)

\* One payment is booked once: a transaction has one receipt whatever table it
\* is in, a grant is taken back at most once from a wallet, and a player claims
\* once a period and an interaction pays once.
BookedOnce ==
    /\ Granted \cap Corrected = {} /\ Granted \cap Claimed = {} /\ Corrected \cap Claimed = {}
    /\ \A p, q \in Proposal : grants[p] = grants[q] /\ grants[p] # None => p = q
    /\ \A x, y \in Corrected : x # y =>
          <<corrections[x].original, corrections[x].account>>
              # <<corrections[y].original, corrections[y].account>>
    /\ \A x, y \in Claimed : x # y =>
          /\ claims[x].interaction # claims[y].interaction
          /\ <<claims[x].player, claims[x].period>> # <<claims[y].player, claims[y].period>>

\* No statement on declared columns that commits changes a receipt, or the ledger
\* row and the postings of a transaction that has one.
SealedForever ==
    [][/\ \A p \in Proposal : grants[p] # None =>
             grants'[p] = grants[p] /\ grantTargets'[p] = grantTargets[p]
       /\ \A x \in Tx :
             /\ x \in Corrected => corrections'[x] = corrections[x]
             /\ x \in Claimed => claims'[x] = claims[x]
             /\ x \in Sealed => ledger'[x] = ledger[x] /\ postings'[x] = postings[x]]_vars
=============================================================================
