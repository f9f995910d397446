-------------------------- MODULE LedgerSealProofs --------------------------
(* Theorems about LedgerSeal, for every value of its constants. *)
EXTENDS LedgerSeal, FiniteSetTheorems, TLAPS

-----------------------------------------------------------------------------
(* Types *)

LEMMA ProposalTypes ==
    ASSUME ProposalTypeOK, ProposalStatement(Inserted) \/ UpgradeProposals
    PROVE  ProposalTypeOK'
<1>1. \A p \in Proposal : Cardinality(targets[p]) \in Nat
  <2>1. \A p \in Proposal : targets[p] \subseteq Target
        BY DEF ProposalTypeOK
  <2>. QED BY <2>1, ProposalAssumption, FS_Subset, FS_CardinalityType
<1>2. ASSUME NEW p \in Proposal, NEW row \in Inserted, InsertProposal(p, row)
      PROVE  ProposalTypeOK'
      BY <1>2, LedgerAssumption DEF InsertProposal, ProposalTypeOK
<1>3. ASSUME NEW p \in Proposal, NEW row \in Row, UpdateProposal(p, row)
      PROVE  ProposalTypeOK'
      BY <1>3 DEF UpdateProposal, ProposalTypeOK
<1>4. ASSUME NEW p \in Proposal, NEW t \in Target, InsertTarget(p, t)
      PROVE  ProposalTypeOK'
      BY <1>4 DEF InsertTarget, ProposalTypeOK
<1>5. ASSUME NEW p \in Proposal, NEW verified \in BOOLEAN, InsertScope(p, verified)
      PROVE  ProposalTypeOK'
  <2>1. [count |-> Cardinality(targets[p]), verified |-> verified] \in Scope
        BY <1>1 DEF Scope
  <2>. QED BY <1>5, <2>1 DEF InsertScope, ProposalTypeOK
<1>6. CASE UpgradeProposals
  <2>1. \A p \in Proposal : AsFound(p) \in Scope
        BY <1>1 DEF AsFound, Scope
  <2>. QED BY <1>6, <2>1 DEF UpgradeProposals, ProposalTypeOK
<1>. QED BY <1>2, <1>3, <1>4, <1>5, <1>6 DEF ProposalStatement

LEMMA LedgerTypes ==
    ASSUME TypeOK, LedgerStatement
    PROVE  TypeOK'
<1>1. UNCHANGED <<proposalVars, postings, grantTargets, receiptVars>>
      BY DEF LedgerStatement, InsertLedger, UpdateLedger, DeleteLedger
<1>2. ASSUME NEW y \in Tx, NEW row \in LedgerRow, InsertLedger(y, row)
      PROVE  ledger' \in [Tx -> LedgerRow \cup {None}]
      BY <1>2 DEF InsertLedger, TypeOK
<1>3. ASSUME NEW y \in Tx, NEW row \in LedgerRow, NEW x \in Entries, UpdateLedger(x, y, row)
      PROVE  ledger' \in [Tx -> LedgerRow \cup {None}]
      BY <1>3 DEF UpdateLedger, TypeOK
<1>4. ASSUME NEW x \in Entries, DeleteLedger(x)
      PROVE  ledger' \in [Tx -> LedgerRow \cup {None}]
      BY <1>4 DEF DeleteLedger, TypeOK
<1>5. ledger' \in [Tx -> LedgerRow \cup {None}]
      BY <1>2, <1>3, <1>4 DEF LedgerStatement
<1>. QED BY <1>1, <1>5 DEF TypeOK, ProposalTypeOK, proposalVars, receiptVars

\* Writing one posting, wherever it is, leaves a table of postings.
LEMMA PostedTypes ==
    ASSUME NEW table \in [Tx -> [Account -> Int]], NEW y \in Tx, NEW b \in Account, NEW n \in Int
    PROVE  [table EXCEPT ![y][b] = n] \in [Tx -> [Account -> Int]]
<1>1. [table[y] EXCEPT ![b] = n] \in [Account -> Int]
      OBVIOUS
<1>. QED BY <1>1

LEMMA PostingTypes ==
    ASSUME TypeOK, PostingStatement
    PROVE  TypeOK'
<1>1. UNCHANGED <<proposalVars, ledger, grantTargets, receiptVars>>
      BY DEF PostingStatement, InsertPosting, UpdatePosting, DeletePosting
<1>2. \A m \in Movement : m[1] \in Account /\ m[2] \in Int
      BY LedgerAssumption
<1>. postings \in [Tx -> [Account -> Int]]
      BY DEF TypeOK
<1>3. ASSUME NEW y \in Tx, NEW b \in Account, NEW n \in Int, InsertPosting(y, b, n)
      PROVE  postings' \in [Tx -> [Account -> Int]]
      BY <1>3, PostedTypes DEF InsertPosting
<1>4. ASSUME NEW x \in Tx, NEW a \in Account, NEW y \in Tx, NEW b \in Account, NEW n \in Int,
             UpdatePosting(x, a, y, b, n)
      PROVE  postings' \in [Tx -> [Account -> Int]]
  <2>1. [postings EXCEPT ![x][a] = 0] \in [Tx -> [Account -> Int]]
        BY PostedTypes
  <2>. QED BY <1>4, <2>1, PostedTypes DEF UpdatePosting
<1>5. ASSUME NEW x \in Tx, NEW a \in Account, DeletePosting(x, a)
      PROVE  postings' \in [Tx -> [Account -> Int]]
      BY <1>5, PostedTypes DEF DeletePosting
<1>6. postings' \in [Tx -> [Account -> Int]]
      BY <1>2, <1>3, <1>4, <1>5 DEF PostingStatement, Entries, Posted
<1>. QED BY <1>1, <1>6 DEF TypeOK, ProposalTypeOK, proposalVars, receiptVars

LEMMA ReceiptTypes ==
    ASSUME TypeOK, ReceiptStatement
    PROVE  TypeOK'
<1>1. UNCHANGED <<proposalVars, ledgerVars>>
      BY DEF ReceiptStatement, InsertGrantTarget, InsertGrant, InsertCorrection, InsertClaim
<1>2. Amount \subseteq Nat
      BY ProposalAssumption
<1>3. ASSUME NEW p \in Proposal, NEW w \in Wallet, NEW gain \in Amount, InsertGrantTarget(p, w, gain)
      PROVE  TypeOK'
  <2>1. grantTargets' \in [Proposal -> [Wallet -> Nat]]
        BY <1>2, <1>3 DEF InsertGrantTarget, TypeOK
  <2>. QED BY <1>3, <2>1 DEF InsertGrantTarget, TypeOK, ProposalTypeOK, proposalVars, ledgerVars, receiptVars
<1>4. ASSUME NEW p \in Proposal, NEW x \in Tx, InsertGrant(p, x)
      PROVE  TypeOK'
      BY <1>4 DEF InsertGrant, TypeOK, ProposalTypeOK, proposalVars, ledgerVars
<1>5. ASSUME NEW x \in Tx, NEW original \in Tx, NEW w \in Wallet, NEW n \in Amount,
             InsertCorrection(x, original, w, n)
      PROVE  TypeOK'
  <2>1. [original |-> original, account |-> w, amount |-> n] \in CorrectionRow
        BY <1>2, <1>5 DEF InsertCorrection, CorrectionRow
  <2>. QED BY <1>5, <2>1 DEF InsertCorrection, TypeOK, ProposalTypeOK, proposalVars, ledgerVars
<1>6. ASSUME NEW x \in Tx, NEW w \in Wallet, NEW d \in Period, NEW i \in Interaction,
             InsertClaim(x, w, d, i)
      PROVE  TypeOK'
  <2>1. [player |-> w, period |-> d, interaction |-> i] \in ClaimRow
        BY DEF ClaimRow
  <2>. QED BY <1>6, <2>1 DEF InsertClaim, TypeOK, ProposalTypeOK, proposalVars, ledgerVars
<1>. QED BY <1>3, <1>4, <1>5, <1>6 DEF ReceiptStatement

LEMMA TypeStep ==
    ASSUME TypeOK, [Next]_vars
    PROVE  TypeOK'
<1>1. CASE ProposalStatement(Inserted) /\ UNCHANGED <<ledgerVars, grantTargets, receiptVars>>
      BY <1>1, ProposalTypes DEF TypeOK, ledgerVars, receiptVars
<1>2. CASE Upgrade
      BY <1>2, ProposalTypes DEF Upgrade, TypeOK, ledgerVars, receiptVars
<1>3. CASE UNCHANGED vars
      BY <1>3 DEF vars, TypeOK, ProposalTypeOK, proposalVars, ledgerVars, receiptVars
<1>. QED BY <1>1, <1>2, <1>3, LedgerTypes, PostingTypes, ReceiptTypes DEF Next

\* Every variable stays in its range.
THEOREM Types == Spec => []TypeOK
<1>1. Init => TypeOK
  <2>1. Init => ProposalTypeOK
        BY DEF Init, ProposalInit, ProposalTypeOK
  <2>2. Init => postings \in [Tx -> [Account -> Int]] /\ grantTargets \in [Proposal -> [Wallet -> Nat]]
        BY DEF Init
  <2>. QED BY <2>1, <2>2 DEF Init, TypeOK
<1>. QED BY <1>1, TypeStep, PTL DEF Spec
-----------------------------------------------------------------------------
(* The seal.  Every statement on the ledger names, by its guard, the rows it *)
(* touches, and every receipt is written where there was none.               *)

\* What a step leaves alone.
SealHolds ==
    /\ \A p \in Proposal : grants[p] # None =>
           grants'[p] = grants[p] /\ grantTargets'[p] = grantTargets[p]
    /\ \A x \in Tx :
           /\ x \in Corrected => corrections'[x] = corrections[x]
           /\ x \in Claimed => claims'[x] = claims[x]
           /\ x \in Sealed => ledger'[x] = ledger[x] /\ postings'[x] = postings[x]

LEMMA LedgerKeepsSeal ==
    ASSUME TypeOK, LedgerStatement
    PROVE  SealHolds
<1>1. UNCHANGED <<postings, grantTargets, receiptVars>>
      BY DEF LedgerStatement, InsertLedger, UpdateLedger, DeleteLedger
<1>2. ASSUME NEW z \in Sealed \cap Tx, NEW y \in Tx, NEW row \in LedgerRow, InsertLedger(y, row)
      PROVE  ledger'[z] = ledger[z]
      BY <1>2 DEF InsertLedger, LedgerWritable
<1>3. ASSUME NEW z \in Sealed \cap Tx, NEW y \in Tx, NEW row \in LedgerRow, NEW x \in Entries,
             UpdateLedger(x, y, row)
      PROVE  ledger'[z] = ledger[z]
      BY <1>3 DEF UpdateLedger, LedgerWritable
<1>4. ASSUME NEW z \in Sealed \cap Tx, NEW x \in Entries, DeleteLedger(x)
      PROVE  ledger'[z] = ledger[z]
      BY <1>4 DEF DeleteLedger, TypeOK
<1>5. \A z \in Sealed \cap Tx : ledger'[z] = ledger[z]
      BY <1>2, <1>3, <1>4 DEF LedgerStatement
<1>. QED BY <1>1, <1>5 DEF SealHolds, receiptVars

LEMMA PostingKeepsSeal ==
    ASSUME TypeOK, PostingStatement
    PROVE  SealHolds
<1>1. UNCHANGED <<ledger, grantTargets, receiptVars>>
      BY DEF PostingStatement, InsertPosting, UpdatePosting, DeletePosting
<1>2. ASSUME NEW z \in Sealed \cap Tx, NEW y \in Entries, NEW b, NEW n, InsertPosting(y, b, n)
      PROVE  postings'[z] = postings[z]
      BY <1>2 DEF InsertPosting, PostingWritable, TypeOK
<1>3. ASSUME NEW z \in Sealed \cap Tx, NEW x \in Entries, NEW a, NEW y \in Entries, NEW b, NEW n,
             UpdatePosting(x, a, y, b, n)
      PROVE  postings'[z] = postings[z]
      BY <1>3 DEF UpdatePosting, PostingWritable, TypeOK
<1>4. ASSUME NEW z \in Sealed \cap Tx, NEW x \in Entries, NEW a, DeletePosting(x, a)
      PROVE  postings'[z] = postings[z]
      BY <1>4 DEF DeletePosting, PostingWritable, TypeOK
<1>5. \A z \in Sealed \cap Tx : postings'[z] = postings[z]
      BY <1>2, <1>3, <1>4 DEF PostingStatement
<1>. QED BY <1>1, <1>5 DEF SealHolds, receiptVars

LEMMA ReceiptKeepsSeal ==
    ASSUME TypeOK, ReceiptStatement
    PROVE  SealHolds
<1>1. UNCHANGED <<ledger, postings>>
      BY DEF ReceiptStatement, InsertGrantTarget, InsertGrant, InsertCorrection, InsertClaim,
             ledgerVars
<1>2. ASSUME NEW p \in Proposal, NEW w \in Wallet, NEW gain \in Amount, InsertGrantTarget(p, w, gain)
      PROVE  SealHolds
      BY <1>1, <1>2 DEF InsertGrantTarget, SealHolds, TypeOK, receiptVars
<1>3. ASSUME NEW p \in Proposal, NEW x \in Tx, InsertGrant(p, x)
      PROVE  SealHolds
      BY <1>1, <1>3 DEF InsertGrant, SealHolds, TypeOK
<1>4. ASSUME NEW x \in Tx, NEW original \in Tx, NEW w \in Wallet, NEW n \in Amount,
             InsertCorrection(x, original, w, n)
      PROVE  SealHolds
  <2>1. x \notin Corrected
        BY <1>4 DEF InsertCorrection, Correctable
  <2>2. UNCHANGED <<grants, grantTargets, claims>>
        BY <1>4 DEF InsertCorrection
  <2>3. \A y \in Tx \ {x} : corrections'[y] = corrections[y]
        BY <1>4 DEF InsertCorrection, TypeOK
  <2>. QED BY <1>1, <2>1, <2>2, <2>3 DEF SealHolds
<1>5. ASSUME NEW x \in Tx, NEW w \in Wallet, NEW d \in Period, NEW i \in Interaction,
             InsertClaim(x, w, d, i)
      PROVE  SealHolds
  <2>1. x \notin Claimed
        BY <1>5 DEF InsertClaim, Claimable
  <2>2. UNCHANGED <<grants, grantTargets, corrections>>
        BY <1>5 DEF InsertClaim
  <2>3. \A y \in Tx \ {x} : claims'[y] = claims[y]
        BY <1>5 DEF InsertClaim, TypeOK
  <2>. QED BY <1>1, <2>1, <2>2, <2>3 DEF SealHolds
<1>. QED BY <1>2, <1>3, <1>4, <1>5 DEF ReceiptStatement

LEMMA SealStep ==
    ASSUME TypeOK, [Next]_vars
    PROVE  SealHolds
<1>1. CASE UNCHANGED <<ledgerVars, grantTargets, receiptVars>>
      BY <1>1 DEF SealHolds, ledgerVars, receiptVars
<1>. QED BY <1>1, LedgerKeepsSeal, PostingKeepsSeal, ReceiptKeepsSeal DEF Next, Upgrade, vars

\* No statement on declared columns that commits, on any table, changes a receipt
\* or the ledger row and the postings of a transaction that has one.
THEOREM Seals == Spec => SealedForever
<1>1. ASSUME TypeOK, [Next]_vars PROVE SealHolds
      BY <1>1, SealStep
<1>. QED BY <1>1, Types, PTL DEF Spec, SealedForever, SealHolds

-----------------------------------------------------------------------------
(* Proposals *)

\* A proposal whose list a migration or an unverified scope has sealed keeps
\* its list, its status and its approver through every later statement.
\* Scopes exist only since 0005, of stored proposals, and a verified one is not
\* empty.
ScopesSound ==
    /\ Scoped # {} => sealed
    /\ Scoped \subseteq Stored
    /\ \A p \in Scoped : scopes[p].verified => scopes[p].count > 0

\* What a step does to the proposals: a sealed list and its scope stay, and only
\* a pending proposal, with a verified scope once scopes exist, moves.
ProposalsHold ==
    \A p \in Proposal :
        /\ p \in Scoped => targets'[p] = targets[p] /\ scopes'[p] = scopes[p]
        /\ p \in Scoped /\ ~scopes[p].verified => proposals'[p] = proposals[p]
        /\ p \in Stored /\ proposals[p].status # "pending" => proposals'[p] = proposals[p]

LEMMA ProposalStep ==
    ASSUME TypeOK, ScopesSound, [Next]_vars
    PROVE  ScopesSound' /\ ProposalsHold
<1>. ProposalTypeOK
      BY DEF TypeOK
<1>1. CASE UNCHANGED proposalVars
      BY <1>1 DEF proposalVars, ScopesSound, ProposalsHold, Scoped, Stored
<1>2. ASSUME NEW p \in Proposal, NEW row \in Inserted, InsertProposal(p, row)
      PROVE  ScopesSound' /\ ProposalsHold
  <2>1. p \notin Stored /\ UNCHANGED <<targets, scopes, sealed>> /\ proposals'[p] # None
        BY <1>2, LedgerAssumption DEF InsertProposal, ProposalTypeOK
  <2>2. \A q \in Proposal \ {p} : proposals'[q] = proposals[q]
        BY <1>2 DEF InsertProposal, ProposalTypeOK
  <2>. QED BY <2>1, <2>2 DEF ScopesSound, ProposalsHold, Scoped, Stored
<1>3. ASSUME NEW p \in Proposal, NEW row \in Row, UpdateProposal(p, row)
      PROVE  ScopesSound' /\ ProposalsHold
  <2>1. /\ proposals[p].status = "pending" /\ proposals'[p] # None
        /\ UNCHANGED <<targets, scopes, sealed>>
        BY <1>3, LedgerAssumption DEF UpdateProposal, Updatable, ProposalTypeOK
  <2>2. p \in Scoped => scopes[p].verified
        BY <1>3 DEF UpdateProposal, Updatable, VerifiedScope, ScopesSound
  <2>3. \A q \in Proposal \ {p} : proposals'[q] = proposals[q]
        BY <1>3 DEF UpdateProposal, ProposalTypeOK
  <2>. QED BY <2>1, <2>2, <2>3 DEF ScopesSound, ProposalsHold, Scoped, Stored
<1>4. ASSUME NEW p \in Proposal, NEW t \in Target, InsertTarget(p, t)
      PROVE  ScopesSound' /\ ProposalsHold
  <2>1. p \notin Scoped /\ UNCHANGED <<proposals, scopes, sealed>>
        BY <1>4 DEF InsertTarget, Unsealed
  <2>2. \A q \in Proposal \ {p} : targets'[q] = targets[q]
        BY <1>4 DEF InsertTarget, ProposalTypeOK
  <2>. QED BY <2>1, <2>2 DEF ScopesSound, ProposalsHold, Scoped, Stored
<1>5. ASSUME NEW p \in Proposal, NEW verified \in BOOLEAN, InsertScope(p, verified)
      PROVE  ScopesSound' /\ ProposalsHold
  <2>1. p \in Stored \ Scoped /\ sealed /\ UNCHANGED <<proposals, targets, sealed>>
        BY <1>5 DEF InsertScope
  <2>2. \A q \in Proposal \ {p} : scopes'[q] = scopes[q]
        BY <1>5 DEF InsertScope, ProposalTypeOK
  <2>3. scopes'[p].verified => scopes'[p].count \in 1..MaxTargets
    <3>1. scopes'[p] = [count |-> Cardinality(targets[p]), verified |-> verified]
          BY <1>5 DEF InsertScope, ProposalTypeOK
    <3>2. scopes'[p].verified = verified /\ scopes'[p].count = Cardinality(targets[p])
          BY <3>1
    <3>. QED BY <1>5, <3>2 DEF InsertScope, Certifiable
  <2>. QED BY <2>1, <2>2, <2>3, ProposalAssumption DEF ScopesSound, ProposalsHold, Scoped, Stored
<1>6. CASE UpgradeProposals
  <2>1. Scoped = {} /\ sealed' /\ UNCHANGED <<proposals, targets>>
        BY <1>6 DEF UpgradeProposals, ScopesSound
  <2>2. /\ \A p \in Scoped' : ~scopes'[p].verified
        /\ Scoped' \subseteq Stored
        BY <1>6 DEF UpgradeProposals, AsFound, Scoped
  <2>. QED BY <2>1, <2>2 DEF ScopesSound, ProposalsHold, Stored
<1>7. UNCHANGED proposalVars \/ ProposalStatement(Inserted) \/ UpgradeProposals
  <2>1. LedgerStatement => UNCHANGED proposalVars
        BY DEF LedgerStatement, InsertLedger, UpdateLedger, DeleteLedger
  <2>2. PostingStatement => UNCHANGED proposalVars
        BY DEF PostingStatement, InsertPosting, UpdatePosting, DeletePosting
  <2>3. ReceiptStatement => UNCHANGED proposalVars
        BY DEF ReceiptStatement, InsertGrantTarget, InsertGrant, InsertCorrection, InsertClaim
  <2>. QED BY <2>1, <2>2, <2>3 DEF Next, Upgrade, vars
<1>. QED BY <1>1, <1>2, <1>3, <1>4, <1>5, <1>6, <1>7 DEF ProposalStatement

THEOREM Scopes == Spec => []ScopesSound
<1>1. Init => ScopesSound
      BY DEF Init, ProposalInit, ScopesSound, Scoped
<1>. QED BY <1>1, ProposalStep, Types, PTL DEF Spec

\* A proposal whose list a migration or an unverified scope has sealed keeps its
\* list, its status and its approver through every later statement on declared
\* columns.
THEOREM Legacy == Spec => LegacyNeverActs
<1>1. ASSUME TypeOK, ScopesSound, [Next]_vars
      PROVE  [\A p \in Scoped :
                  /\ targets'[p] = targets[p] /\ scopes'[p] = scopes[p]
                  /\ ~scopes[p].verified => proposals'[p] = proposals[p]]_proposalVars
      BY <1>1, ProposalStep DEF ProposalsHold, Scoped
<1>. QED BY <1>1, Types, Scopes, PTL DEF Spec, LegacyNeverActs

-----------------------------------------------------------------------------
(* Labels.  A receipt and its transaction carry the same label, and that is  *)
(* what keeps the three receipt tables apart.                                *)

LEMMA ReceiptFrame ==
    ASSUME [Next]_vars
    PROVE  \/ UNCHANGED receiptVars
           \/ \E p \in Proposal, x \in Tx : InsertGrant(p, x)
           \/ \E x, original \in Tx, w \in Wallet, n \in Amount : InsertCorrection(x, original, w, n)
           \/ \E x \in Tx, w \in Wallet, d \in Period, i \in Interaction : InsertClaim(x, w, d, i)
<1>1. LedgerStatement => UNCHANGED receiptVars
      BY DEF LedgerStatement, InsertLedger, UpdateLedger, DeleteLedger
<1>2. PostingStatement => UNCHANGED receiptVars
      BY DEF PostingStatement, InsertPosting, UpdatePosting, DeletePosting
<1>3. \A p \in Proposal, w \in Wallet, gain \in Amount :
        InsertGrantTarget(p, w, gain) => UNCHANGED receiptVars
      BY DEF InsertGrantTarget
<1>. QED BY <1>1, <1>2, <1>3 DEF Next, Upgrade, ReceiptStatement, vars

Labelled ==
    /\ \A p \in Proposal : grants[p] # None => ledger[grants[p]].about = GrantLabel(p)
    /\ \A x \in Corrected :
          ledger[x].about = CorrectionLabel(corrections[x].original, corrections[x].account)
    /\ \A x \in Claimed :
          ledger[x].about =
              ClaimLabel(claims[x].player, claims[x].period, claims[x].interaction)

\* The unique keys of the two receipt tables.
KeysHold ==
    /\ \A x, y \in Corrected : x # y =>
          <<corrections[x].original, corrections[x].account>>
              # <<corrections[y].original, corrections[y].account>>
    /\ \A x, y \in Claimed : x # y =>
          /\ claims[x].interaction # claims[y].interaction
          /\ <<claims[x].player, claims[x].period>> # <<claims[y].player, claims[y].period>>

LEMMA LabelStep ==
    ASSUME TypeOK, Labelled, KeysHold, [Next]_vars
    PROVE  Labelled' /\ KeysHold'
<1>1. SealHolds
      BY SealStep
<1>2. CASE UNCHANGED receiptVars
      BY <1>1, <1>2 DEF SealHolds, Labelled, KeysHold, receiptVars, TypeOK, Sealed, Granted,
                        Corrected, Claimed
<1>3. ASSUME NEW p \in Proposal, NEW x \in Tx, InsertGrant(p, x)
      PROVE  Labelled' /\ KeysHold'
  <2>1. UNCHANGED <<ledger, corrections, claims>> /\ ledger[x].about = GrantLabel(p)
        BY <1>3 DEF InsertGrant, GrantMatches, ledgerVars
  <2>2. grants'[p] = x /\ \A q \in Proposal \ {p} : grants'[q] = grants[q]
        BY <1>3 DEF InsertGrant, TypeOK
  <2>. QED BY <2>1, <2>2 DEF Labelled, KeysHold, Corrected, Claimed
<1>4. ASSUME NEW x \in Tx, NEW original \in Tx, NEW w \in Wallet, NEW n \in Amount,
             InsertCorrection(x, original, w, n)
      PROVE  Labelled' /\ KeysHold'
  <2>1. UNCHANGED <<ledger, grants, claims>> /\ ledger[x].about = CorrectionLabel(original, w)
        BY <1>4 DEF InsertCorrection, CorrectionMatches, ledgerVars
  <2>2. /\ corrections'[x].original = original /\ corrections'[x].account = w
        /\ \A y \in Tx \ {x} : corrections'[y] = corrections[y]
        BY <1>4 DEF InsertCorrection, TypeOK
  <2>3. \A y \in Corrected : y # x /\ (corrections[y].original # original \/ corrections[y].account # w)
        BY <1>4 DEF InsertCorrection, Correctable
  <2>. QED BY <2>1, <2>2, <2>3 DEF Labelled, KeysHold, Corrected, Claimed
<1>5. ASSUME NEW x \in Tx, NEW w \in Wallet, NEW d \in Period, NEW i \in Interaction,
             InsertClaim(x, w, d, i)
      PROVE  Labelled' /\ KeysHold'
  <2>1. UNCHANGED <<ledger, grants, corrections>> /\ ledger[x].about = ClaimLabel(w, d, i)
        BY <1>5 DEF InsertClaim, ledgerVars
  <2>2. /\ claims'[x].player = w /\ claims'[x].period = d /\ claims'[x].interaction = i
        /\ \A y \in Tx \ {x} : claims'[y] = claims[y]
        BY <1>5 DEF InsertClaim, TypeOK
  <2>3. \A y \in Claimed : /\ y # x
                           /\ claims[y].interaction # i
                           /\ claims[y].player # w \/ claims[y].period # d
        BY <1>5 DEF InsertClaim, Claimable
  <2>. QED BY <2>1, <2>2, <2>3 DEF Labelled, KeysHold, Corrected, Claimed
<1>. QED BY <1>2, <1>3, <1>4, <1>5, ReceiptFrame

LEMMA LabelsSeparate == Labelled /\ KeysHold => BookedOnce
<1>. SUFFICES ASSUME Labelled, KeysHold PROVE BookedOnce
     OBVIOUS
<1>1. \A x \in Granted : ledger[x].about.kind = "admin.grant"
  <2>1. \A p : GrantLabel(p).kind = "admin.grant"
        BY DEF GrantLabel
  <2>. QED BY <2>1 DEF Granted, Labelled
<1>2. \A x \in Corrected : ledger[x].about.kind = "admin.correction"
  <2>1. \A x, w : CorrectionLabel(x, w).kind = "admin.correction"
        BY DEF CorrectionLabel
  <2>. QED BY <2>1 DEF Labelled
<1>3. \A x \in Claimed : ledger[x].about.kind = "daily.claim"
  <2>1. \A w, d, i : ClaimLabel(w, d, i).kind = "daily.claim"
        BY DEF ClaimLabel
  <2>. QED BY <2>1 DEF Labelled
<1>4. \A p, q \in Proposal : grants[p] = grants[q] /\ grants[p] # None => p = q
  <2>1. \A p : GrantLabel(p).of = p
        BY DEF GrantLabel
  <2>. QED BY <2>1 DEF Labelled
<1>. QED BY <1>1, <1>2, <1>3, <1>4 DEF KeysHold, BookedOnce

\* One payment is booked once: no transaction has two receipts, in whichever
\* tables, no grant is taken back twice from a wallet, and no day or interaction
\* pays twice.
THEOREM Once == Spec => []BookedOnce
<1>1. Init => Labelled /\ KeysHold
      BY DEF Init, Labelled, KeysHold, Corrected, Claimed
<1>2. Spec => [](Labelled /\ KeysHold)
      BY <1>1, LabelStep, Types, PTL DEF Spec
<1>. QED BY <1>2, LabelsSeparate, PTL

-----------------------------------------------------------------------------
(* Counting.  The validate triggers compare numbers of rows; sets with that  *)
(* many elements and those members are the sets the receipt means.           *)

LEMMA AccountsFinite ==
    /\ IsFiniteSet(Account)
    /\ \A W \in SUBSET Wallet : IsFiniteSet(W)
    /\ \A x : IsFiniteSet(Posted(x))
<1>1. IsFiniteSet(Wallet)
      BY ProposalAssumption, FS_Difference DEF Wallet
<1>2. IsFiniteSet(Account)
      BY <1>1, LedgerAssumption, FS_Union DEF Account
<1>3. \A x : Posted(x) \in SUBSET Account
      BY DEF Posted
<1>. QED BY <1>1, <1>2, <1>3, FS_Subset

\* A transaction with that many postings, and with these, has no others.
LEMMA ExactPostings ==
    ASSUME TypeOK, NEW x \in Tx, NEW W \in SUBSET Wallet, NEW contra \in System,
           NEW n \in Int \ {0}, W # {},
           Cardinality(Posted(x)) = Cardinality(W) + 1,
           \A w \in W : postings[x][w] = n,
           postings[x][contra] = -(n * Cardinality(W))
    PROVE  postings[x] = Transfer(W, n, contra)
<1>1. contra \notin W /\ contra \in Account /\ W \subseteq Account
      BY LedgerAssumption DEF Wallet, Account
<1>2. IsFiniteSet(W) /\ Cardinality(W) \in Nat
      BY AccountsFinite, FS_CardinalityType
<1>3. Cardinality(W) # 0
      BY <1>2, FS_EmptySet
<1>4. -(n * Cardinality(W)) # 0
      BY <1>2, <1>3
<1>5. W \cup {contra} \subseteq Posted(x)
      BY <1>1, <1>4 DEF Posted
<1>6. Cardinality(W \cup {contra}) = Cardinality(W) + 1
      BY <1>1, <1>2, FS_AddElement
<1>7. W \cup {contra} = Posted(x)
      BY <1>5, <1>6, AccountsFinite, FS_Subset
<1>8. \A a \in Account \ (W \cup {contra}) : postings[x][a] = 0
      BY <1>7 DEF Posted
<1>9. postings[x] \in [Account -> Int]
      BY DEF TypeOK
<1>. QED BY <1>1, <1>8, <1>9 DEF Transfer

LEMMA TwoPostingsTransfer ==
    ASSUME TypeOK, NEW x \in Tx, NEW w \in Wallet, NEW contra \in System, NEW n \in Int \ {0},
           TwoPostings(x, w, n, contra)
    PROVE  postings[x] = Transfer({w}, n, contra)
<1>1. Cardinality({w}) = 1
      BY FS_Singleton
<1>2. Cardinality(Posted(x)) = Cardinality({w}) + 1 /\ postings[x][contra] = -(n * Cardinality({w}))
      BY <1>1 DEF TwoPostings
<1>. QED BY <1>2, ExactPostings DEF TwoPostings

\* What the receipt of a grant says when it is written.
LEMMA GrantMatchesTransfer ==
    ASSUME TypeOK, ScopesSound, NEW p \in Proposal, NEW x \in Tx, p \in Stored, GrantMatches(p, x)
    PROVE  /\ VerifiedScope(p)
           /\ Beneficiaries(p) = targets[p]
           /\ \A w \in Beneficiaries(p) : grantTargets[p][w] = proposals[p].amount
           /\ postings[x] = Transfer(targets[p], proposals[p].amount, IssuanceAdmin)
<1>. DEFINE B == Beneficiaries(p)
<1>1. /\ p \in Scoped /\ scopes[p].verified
      /\ scopes[p].count = Cardinality(targets[p]) /\ scopes[p].count = Cardinality(B)
      /\ Cardinality(Posted(x)) = Cardinality(B) + 1
      BY DEF GrantMatches
<1>2. VerifiedScope(p)
      BY <1>1 DEF VerifiedScope
<1>3. /\ B \subseteq targets[p]
      /\ \A w \in B : grantTargets[p][w] = proposals[p].amount /\ postings[x][w] = proposals[p].amount
      BY DEF GrantMatches
<1>4. IsFiniteSet(targets[p])
      BY ProposalAssumption, FS_Subset DEF TypeOK, ProposalTypeOK
<1>5. B = targets[p]
      BY <1>1, <1>3, <1>4, FS_Subset
<1>6. proposals[p].amount \in Int \ {0}
  <2>1. proposals[p] \in Row
        BY DEF TypeOK, ProposalTypeOK, Stored
  <2>2. proposals[p].amount \in Amount /\ proposals[p].amount > 0
        BY <2>1 DEF Row, GrantMatches
  <2>3. proposals[p].amount \in Nat
        BY <2>2, ProposalAssumption
  <2>. HIDE DEF B
  <2>. QED BY <2>2, <2>3
<1>7. B # {}
  <2>1. scopes[p].count > 0
        BY <1>1 DEF ScopesSound
  <2>. QED BY <1>1, <2>1, FS_EmptySet
<1>8. B \in SUBSET Wallet
      BY DEF Beneficiaries
<1>9. postings[x][IssuanceAdmin] = -(proposals[p].amount * Cardinality(B))
      BY DEF GrantMatches
<1>10. postings[x] = Transfer(B, proposals[p].amount, IssuanceAdmin)
  <2>. HIDE DEF B
  <2>. QED BY <1>1, <1>3, <1>6, <1>7, <1>8, <1>9, ExactPostings, LedgerAssumption
<1>. QED BY <1>2, <1>3, <1>5, <1>10

-----------------------------------------------------------------------------
(* Stories.  What a receipt says was true when it was written, and neither   *)
(* the ledger, nor the list, nor the approval has moved since.               *)

GrantStory(p) ==
    /\ p \in Stored /\ proposals[p].status = "approved"
    /\ VerifiedScope(p)
    /\ Beneficiaries(p) = targets[p]
    /\ \A w \in Beneficiaries(p) : grantTargets[p][w] = proposals[p].amount
    /\ postings[grants[p]] = Transfer(targets[p], proposals[p].amount, IssuanceAdmin)

CorrectionStory(x) ==
    /\ \E p \in Proposal :
          /\ grants[p] # None /\ grants[p] = corrections[x].original
          /\ corrections[x].account \in targets[p]
          /\ corrections[x].amount <= proposals[p].amount
    /\ postings[x] = Transfer({corrections[x].account}, -corrections[x].amount, RetirementCorrection)

ClaimStory(x) == postings[x] = Transfer({claims[x].player}, Reward, IssuanceDaily)

Explained ==
    /\ \A p \in Proposal : grants[p] # None => GrantStory(p)
    /\ \A x \in Corrected : CorrectionStory(x)
    /\ \A x \in Claimed : ClaimStory(x)

LEMMA StoriesKept ==
    ASSUME TypeOK, ScopesSound, Explained, [Next]_vars
    PROVE  /\ \A p \in Proposal : grants[p] # None => GrantStory(p)'
           /\ \A x \in Corrected : CorrectionStory(x)'
           /\ \A x \in Claimed : ClaimStory(x)'
<1>1. SealHolds /\ ProposalsHold
      BY SealStep, ProposalStep
<1>2. ASSUME NEW p \in Proposal, grants[p] # None
      PROVE  /\ GrantStory(p)'
             /\ grants'[p] = grants[p] /\ targets'[p] = targets[p] /\ proposals'[p] = proposals[p]
  <2>1. GrantStory(p)
        BY <1>2 DEF Explained
  <2>2. p \in Stored /\ proposals[p].status # "pending" /\ p \in Scoped
        BY <2>1 DEF GrantStory, VerifiedScope
  <2>3. targets'[p] = targets[p] /\ scopes'[p] = scopes[p] /\ proposals'[p] = proposals[p]
        BY <1>1, <2>2 DEF ProposalsHold
  <2>4. grants'[p] = grants[p] /\ grantTargets'[p] = grantTargets[p]
        BY <1>1, <1>2 DEF SealHolds
  <2>5. grants[p] \in Sealed \cap Tx
        BY <1>2 DEF Sealed, Granted, TypeOK
  <2>6. postings'[grants'[p]] = postings[grants[p]]
        BY <1>1, <2>4, <2>5 DEF SealHolds
  <2>7. VerifiedScope(p)'
        BY <2>1, <2>3 DEF GrantStory, VerifiedScope, Scoped
  <2>8. Beneficiaries(p)' = Beneficiaries(p)
        BY <2>4 DEF Beneficiaries
  <2>. QED BY <2>1, <2>2, <2>3, <2>4, <2>6, <2>7, <2>8 DEF GrantStory, Stored
<1>3. ASSUME NEW x \in Corrected PROVE CorrectionStory(x)'
  <2>1. PICK p \in Proposal : /\ grants[p] # None /\ grants[p] = corrections[x].original
                              /\ corrections[x].account \in targets[p]
                              /\ corrections[x].amount <= proposals[p].amount
        BY <1>3 DEF Explained, CorrectionStory
  <2>2. postings[x] = Transfer({corrections[x].account}, -corrections[x].amount, RetirementCorrection)
        BY <1>3 DEF Explained, CorrectionStory
  <2>3. x \in Tx /\ corrections'[x] = corrections[x] /\ postings'[x] = postings[x]
        BY <1>1, <1>3 DEF SealHolds, Sealed, Corrected
  <2>. QED BY <1>2, <2>1, <2>2, <2>3 DEF CorrectionStory
<1>4. ASSUME NEW x \in Claimed PROVE ClaimStory(x)'
  <2>1. x \in Tx /\ claims'[x] = claims[x] /\ postings'[x] = postings[x]
        BY <1>1, <1>4 DEF SealHolds, Sealed, Claimed
  <2>. QED BY <1>4, <2>1 DEF Explained, ClaimStory
<1>. QED BY <1>2, <1>3, <1>4

LEMMA StoryStep ==
    ASSUME TypeOK, ScopesSound, Explained, [Next]_vars
    PROVE  Explained'
<1>1. /\ \A p \in Proposal : grants[p] # None => GrantStory(p)'
      /\ \A x \in Corrected : CorrectionStory(x)'
      /\ \A x \in Claimed : ClaimStory(x)'
      BY StoriesKept
<1>2. CASE UNCHANGED receiptVars
      BY <1>1, <1>2 DEF Explained, receiptVars, Corrected, Claimed
<1>3. ASSUME NEW p \in Proposal, NEW x \in Tx, InsertGrant(p, x)
      PROVE  Explained'
  <2>1. UNCHANGED <<proposals, targets, scopes, postings, grantTargets, corrections, claims>>
        BY <1>3 DEF InsertGrant, proposalVars, ledgerVars
  <2>2. grants'[p] = x /\ \A q \in Proposal \ {p} : grants'[q] = grants[q]
        BY <1>3 DEF InsertGrant, TypeOK
  <2>3. p \in Stored /\ GrantMatches(p, x)
        BY <1>3 DEF InsertGrant
  <2>4. GrantStory(p)'
    <3>1. proposals[p].status = "approved"
          BY <2>3 DEF GrantMatches
    <3>2. /\ VerifiedScope(p)
          /\ Beneficiaries(p) = targets[p]
          /\ \A w \in Beneficiaries(p) : grantTargets[p][w] = proposals[p].amount
          /\ postings[x] = Transfer(targets[p], proposals[p].amount, IssuanceAdmin)
          BY <2>3, GrantMatchesTransfer
    <3>. QED BY <2>1, <2>2, <2>3, <3>1, <3>2 DEF GrantStory, VerifiedScope, Beneficiaries, Stored, Scoped
  <2>. QED BY <1>1, <2>1, <2>2, <2>4 DEF Explained, Corrected, Claimed
<1>4. ASSUME NEW x \in Tx, NEW original \in Tx, NEW w \in Wallet, NEW n \in Amount,
             InsertCorrection(x, original, w, n)
      PROVE  Explained'
  <2>1. UNCHANGED <<proposals, targets, postings, grants, claims>>
        BY <1>4 DEF InsertCorrection, proposalVars, ledgerVars
  <2>2. /\ corrections'[x] = [original |-> original, account |-> w, amount |-> n]
        /\ \A y \in Tx \ {x} : corrections'[y] = corrections[y]
        BY <1>4 DEF InsertCorrection, TypeOK
  <2>3. n \in Nat /\ n > 0
        BY <1>4, ProposalAssumption DEF InsertCorrection
  <2>4. PICK p \in Proposal : grants[p] = original /\ n <= grantTargets[p][w]
        BY <1>4 DEF InsertCorrection, CorrectionMatches
  <2>5. GrantStory(p) /\ grants[p] # None
        BY <2>4, LedgerAssumption DEF Explained
  <2>6. w \in Beneficiaries(p)
        BY <2>3, <2>4 DEF Beneficiaries, TypeOK
  <2>7. w \in targets[p] /\ n <= proposals[p].amount
        BY <2>4, <2>5, <2>6 DEF GrantStory
  <2>8. postings[x] = Transfer({w}, -n, RetirementCorrection)
    <3>1. -n \in Int \ {0} /\ RetirementCorrection \in System
          BY <2>3, LedgerAssumption
    <3>2. TwoPostings(x, w, -n, RetirementCorrection)
          BY <1>4 DEF InsertCorrection, CorrectionMatches
    <3>. QED BY <3>1, <3>2, TwoPostingsTransfer
  <2>9. CorrectionStory(x)'
        BY <2>1, <2>2, <2>4, <2>5, <2>7, <2>8 DEF CorrectionStory
  <2>10. \A y \in Tx : corrections'[y] # None => y = x \/ y \in Corrected
        BY <2>2 DEF Corrected
  <2>. QED BY <1>1, <2>1, <2>9, <2>10 DEF Explained, Corrected, Claimed
<1>5. ASSUME NEW x \in Tx, NEW w \in Wallet, NEW d \in Period, NEW i \in Interaction,
             InsertClaim(x, w, d, i)
      PROVE  Explained'
  <2>1. UNCHANGED <<postings, grants, corrections>>
        BY <1>5 DEF InsertClaim, ledgerVars
  <2>2. /\ claims'[x] = [player |-> w, period |-> d, interaction |-> i]
        /\ \A y \in Tx \ {x} : claims'[y] = claims[y]
        BY <1>5 DEF InsertClaim, TypeOK
  <2>3. postings[x] = Transfer({w}, Reward, IssuanceDaily)
    <3>1. Reward \in Int \ {0} /\ IssuanceDaily \in System
          BY LedgerAssumption
    <3>2. TwoPostings(x, w, Reward, IssuanceDaily)
          BY <1>5 DEF InsertClaim
    <3>. QED BY <3>1, <3>2, TwoPostingsTransfer
  <2>4. ClaimStory(x)'
        BY <2>1, <2>2, <2>3 DEF ClaimStory
  <2>5. \A y \in Tx : claims'[y] # None => y = x \/ y \in Claimed
        BY <2>2 DEF Claimed
  <2>. QED BY <1>1, <2>1, <2>4, <2>5 DEF Explained, Corrected, Claimed
<1>. QED BY <1>2, <1>3, <1>4, <1>5, ReceiptFrame

LEMMA StoriesExplain == TypeOK /\ Labelled /\ Explained => ReceiptsExplained
<1>. SUFFICES ASSUME TypeOK, Labelled, Explained PROVE ReceiptsExplained
     OBVIOUS
<1>1. GrantsExplained
  <2>1. SUFFICES ASSUME NEW p \in Proposal, grants[p] # None
                 PROVE  /\ proposals[p].status = "approved"
                        /\ proposals[p].requires => proposals[p].approver \notin {None, proposals[p].actor}
                        /\ VerifiedScope(p)
                        /\ ledger[grants[p]].about = GrantLabel(p)
                        /\ postings[grants[p]] = Transfer(targets[p], proposals[p].amount, IssuanceAdmin)
        BY DEF GrantsExplained
  <2>2. GrantStory(p) /\ ledger[grants[p]].about = GrantLabel(p)
        BY <2>1 DEF Explained, Labelled
  <2>3. proposals[p] \in Row
        BY <2>2 DEF GrantStory, Stored, TypeOK, ProposalTypeOK
  <2>4. proposals[p].requires => proposals[p].approver \notin {None, proposals[p].actor}
        BY <2>2, <2>3 DEF GrantStory, Row
  <2>. QED BY <2>2, <2>4 DEF GrantStory
<1>2. ASSUME NEW x \in Corrected
      PROVE  \E p \in Proposal :
                LET c == corrections[x]
                IN  /\ grants[p] = c.original
                    /\ c.account \in targets[p]
                    /\ c.amount <= proposals[p].amount
                    /\ ledger[x].about = CorrectionLabel(c.original, c.account)
                    /\ postings[x] = Transfer({c.account}, -c.amount, RetirementCorrection)
      BY <1>2 DEF Explained, CorrectionStory, Labelled
<1>3. ASSUME NEW x \in Claimed
      PROVE  LET c == claims[x]
             IN  /\ ledger[x].about = ClaimLabel(c.player, c.period, c.interaction)
                 /\ postings[x] = Transfer({c.player}, Reward, IssuanceDaily)
      BY <1>3 DEF Explained, ClaimStory, Labelled
<1>. QED BY <1>1, <1>2, <1>3 DEF ReceiptsExplained

\* Whatever statements on declared columns run, the receipt of a grant, a
\* correction or a claim tells what its approval and its ledger transaction say,
\* for good.
THEOREM Receipts == Spec => []ReceiptsExplained
<1>1. Init => Explained
      BY DEF Init, Explained, Corrected, Claimed
<1>2. Init => Labelled /\ KeysHold
      BY DEF Init, Labelled, KeysHold, Corrected, Claimed
<1>3. Spec => [](Labelled /\ KeysHold)
      BY <1>2, LabelStep, Types, PTL DEF Spec
<1>4. Spec => []Explained
      BY <1>1, StoryStep, Types, Scopes, PTL DEF Spec
<1>. QED BY <1>3, <1>4, StoriesExplain, Types, PTL
=============================================================================
