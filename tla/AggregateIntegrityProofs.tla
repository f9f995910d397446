---------------------- MODULE AggregateIntegrityProofs ----------------------
(* Theorems about AggregateIntegrity, for every value of its constants. *)
EXTENDS AggregateIntegrity, TLAPS

\* The only assumption on the operators' statements: a rowid is named, if at
\* all, on connections whose displaced rows fire the delete triggers.
RowidsFireTriggers == FALSE \notin RowidNamed

\* Rows that are displaced by their rowid are rows, and under the assumption
\* they go with their triggers.
LEMMA NamableRows ==
    ASSUME NEW rows, NEW policy \in Policies, NEW recursive \in BOOLEAN,
           NEW named \in Namable(rows, policy, recursive)
    PROVE  named \subseteq rows /\ (named # {} /\ RowidsFireTriggers => recursive)
BY DEF Namable, RowidsFireTriggers

LEMMA OrphanedRows ==
    ASSUME NEW fired \in SUBSET AccountId
    PROVE  Orphaned(fired) \subseteq ViolationRow
BY DEF Orphaned, ViolationRow, Players

\* Inserting never puts anything but rows into the tables.
LEMMA InsertTypes ==
    ASSUME TypeOK, Insert
    PROVE  TypeOK'
<1>1. PICK policy \in Policies, recursive \in BOOLEAN : InsertWith(policy, recursive)
      BY DEF Insert
<1>2. ASSUME NEW p \in PlayerId, NEW d \in DiscordId,
             NEW named \in Namable(Players, policy, recursive),
             InsertPlayer(p, d, named, policy, recursive)
      PROVE  TypeOK'
  <2>1. players' \in [PlayerId -> DiscordId \cup {None}]
        BY <1>2 DEF InsertPlayer, TypeOK
  <2>2. named \subseteq PlayerId
        BY NamableRows DEF Players
  <2>3. violations' \subseteq ViolationRow
        BY <1>2 DEF InsertPlayer, TypeOK, ViolationRow
  <2>. QED BY <1>2, <2>1, <2>3 DEF InsertPlayer, TypeOK
<1>3. ASSUME NEW a \in AccountId, NEW o \in PlayerId \cup SystemKey,
             NEW named \in Namable(Accounts, policy, recursive),
             InsertAccount(a, o, named, policy, recursive)
      PROVE  TypeOK'
  <2>1. accounts' \in [AccountId -> PlayerId \cup SystemKey \cup {None}]
        BY <1>3 DEF InsertAccount, TypeOK
  <2>2. named \subseteq AccountId
        BY NamableRows DEF Accounts
  <2>3. violations' \subseteq ViolationRow
        BY <1>3, <2>2, OrphanedRows DEF InsertAccount, TypeOK, ViolationRow, Accounts
  <2>. QED BY <1>3, <2>1, <2>3 DEF InsertAccount, TypeOK
<1>4. ASSUME NEW a \in AccountId, NEW named \in Namable(balances, policy, recursive),
             InsertBalance(a, named, policy, recursive)
      PROVE  TypeOK'
  <2>1. named \subseteq AccountId
        BY NamableRows DEF TypeOK
  <2>2. violations' \subseteq ViolationRow
        BY <1>4, <2>1 DEF InsertBalance, TypeOK, ViolationRow
  <2>. QED BY <1>4, <2>2 DEF InsertBalance, TypeOK
<1>5. ASSUME NEW v \in ViolationRow, NEW named \in Namable(violations, policy, recursive),
             InsertViolation(v, named, policy, recursive)
      PROVE  TypeOK'
      BY <1>5 DEF InsertViolation, TypeOK
<1>. QED BY <1>1, <1>2, <1>3, <1>4, <1>5 DEF InsertWith

LEMMA UpdateTypes ==
    ASSUME TypeOK, Update
    PROVE  TypeOK'
<1>1. PICK policy \in Policies, recursive \in BOOLEAN : UpdateWith(policy, recursive)
      BY DEF Update
<1>2. ASSUME NEW p \in PlayerId, NEW q \in PlayerId, NEW d \in DiscordId,
             NEW named \in Namable(Players, policy, recursive),
             UpdatePlayer(p, q, d, named, policy, recursive)
      PROVE  TypeOK'
      BY <1>2 DEF UpdatePlayer, TypeOK
<1>3. ASSUME NEW a \in AccountId, NEW b \in AccountId, NEW o \in PlayerId \cup SystemKey,
             NEW named \in Namable(Accounts, policy, recursive),
             UpdateAccount(a, b, o, named, policy, recursive)
      PROVE  TypeOK'
  <2>1. accounts' \in [AccountId -> PlayerId \cup SystemKey \cup {None}]
        BY <1>3 DEF UpdateAccount, TypeOK
  <2>2. named \subseteq AccountId
        BY NamableRows DEF Accounts
  <2>3. violations' \subseteq ViolationRow
        BY <1>3, <2>2, OrphanedRows DEF UpdateAccount, TypeOK, Accounts
  <2>. QED BY <1>3, <2>1, <2>3 DEF UpdateAccount, TypeOK
<1>4. ASSUME NEW a \in AccountId, NEW b \in AccountId,
             NEW named \in Namable(balances, policy, recursive),
             UpdateBalance(a, b, named, policy, recursive)
      PROVE  TypeOK'
  <2>1. named \subseteq AccountId
        BY NamableRows DEF TypeOK
  <2>2. violations' \subseteq ViolationRow
        BY <1>4, <2>1 DEF UpdateBalance, TypeOK, ViolationRow
  <2>. QED BY <1>4, <2>2 DEF UpdateBalance, TypeOK
<1>. QED BY <1>1, <1>2, <1>3, <1>4 DEF UpdateWith

LEMMA TypeStep ==
    ASSUME TypeOK, [Next]_vars
    PROVE  TypeOK'
<1>1. CASE Insert
      BY <1>1, InsertTypes
<1>2. CASE Delete
  <2>1. ASSUME NEW p \in PlayerId, DeletePlayer(p) PROVE TypeOK'
        BY <2>1 DEF DeletePlayer, TypeOK
  <2>2. ASSUME NEW a \in AccountId, DeleteAccount(a) PROVE TypeOK'
        BY <2>2 DEF DeleteAccount, TypeOK, ViolationRow, Players
  <2>3. ASSUME NEW a \in AccountId, DeleteBalance(a) PROVE TypeOK'
        BY <2>3 DEF DeleteBalance, TypeOK, ViolationRow
  <2>4. ASSUME NEW v \in ViolationRow, DeleteViolation(v) PROVE TypeOK'
        BY <2>4 DEF DeleteViolation, TypeOK
  <2>. QED BY <1>2, <2>1, <2>2, <2>3, <2>4 DEF Delete
<1>3. CASE Update
      BY <1>3, UpdateTypes
<1>5. CASE Upgrade
  <2>1. Missing \subseteq ViolationRow
        BY DEF Missing, ViolationRow, Players, Accounts
  <2>2. stamp' \in Revisions /\ installed' \in SUBSET Revisions
        BY <1>5 DEF Upgrade, TypeOK, Revisions, Head
  <2>. QED BY <1>5, <2>1, <2>2 DEF Upgrade, Reconciled, TypeOK
<1>6. CASE Downgrade
      BY <1>6 DEF Downgrade, TypeOK, Revisions
<1>7. ASSUME NEW r \in Revisions, Stamp(r) PROVE TypeOK'
      BY <1>7 DEF Stamp, TypeOK
<1>8. CASE Start
      BY <1>8 DEF Start, TypeOK
<1>9. CASE UNCHANGED vars
      BY <1>9 DEF vars, TypeOK
<1>. QED BY <1>1, <1>2, <1>3, <1>5, <1>6, <1>7, <1>8, <1>9 DEF Next

\* Every variable stays in its range.
THEOREM Types == Spec => []TypeOK
<1>1. Init => TypeOK
      BY DEF Init, TypeOK, Revisions
<1>. QED BY <1>1, TypeStep, PTL DEF Spec

-----------------------------------------------------------------------------
(* Alarms.  What a statement removes from the sentinel is no hole after it.  *)

LEMMA InsertKeepsAlarms ==
    ASSUME TypeOK, Insert, RowidsFireTriggers, NEW v \in violations \ violations'
    PROVE  v \notin Missing'
<1>1. PICK policy \in Policies, recursive \in BOOLEAN : InsertWith(policy, recursive)
      BY DEF Insert
<1>2. ASSUME NEW p \in PlayerId, NEW d \in DiscordId,
             NEW named \in Namable(Players, policy, recursive),
             InsertPlayer(p, d, named, policy, recursive)
      PROVE  v \notin Missing'
  <2>1. named \subseteq Players
        BY NamableRows
  <2>2. v # NoWallet(p)
        BY <1>2 DEF InsertPlayer
  <2>3. PICK q \in Players : v = NoWallet(q) /\ (q = p \/ players[q] = d \/ q \in named)
        BY <1>2, <2>1 DEF InsertPlayer
  <2>4. players'[q] = None
        BY <1>2, <2>2, <2>3 DEF InsertPlayer, Players
  <2>. QED BY <2>3, <2>4 DEF Missing, Players, NoWallet, NoBalance
<1>3. ASSUME NEW a \in AccountId, NEW o \in PlayerId \cup SystemKey,
             NEW named \in Namable(Accounts, policy, recursive),
             InsertAccount(a, o, named, policy, recursive)
      PROVE  v \notin Missing'
  <2>1. CASE v = NoWallet(o)
    <3>1. a \in AccountsOf(o)'
          BY <1>3 DEF InsertAccount, AccountsOf
    <3>. QED BY <2>1, <3>1 DEF Missing, NoWallet, NoBalance
  <2>2. CASE v # NoWallet(o)
    <3>1. PICK b \in AccountId : v = NoBalance(b) /\ b # a /\ accounts'[b] = None
          BY <1>3, <2>2, NamableRows DEF InsertAccount, Accounts
    <3>. QED BY <3>1 DEF Missing, Accounts, NoWallet, NoBalance
  <2>. QED BY <2>1, <2>2
<1>4. ASSUME NEW a \in AccountId, NEW named \in Namable(balances, policy, recursive),
             InsertBalance(a, named, policy, recursive)
      PROVE  v \notin Missing'
  <2>1. v = NoBalance(a) /\ a \in balances'
        BY <1>4 DEF InsertBalance
  <2>. QED BY <2>1 DEF Missing, NoWallet, NoBalance
<1>5. ASSUME NEW w \in ViolationRow, NEW named \in Namable(violations, policy, recursive),
             InsertViolation(w, named, policy, recursive)
      PROVE  v \notin Missing'
  <2>1. Missing' = Missing
        BY <1>5 DEF InsertViolation, Missing, Players, Accounts, AccountsOf
  <2>2. v \in named
        BY <1>5 DEF InsertViolation
  <2>3. recursive
        BY <2>2, NamableRows
  <2>4. v \in Clearable
        BY <1>5, <2>2, <2>3 DEF InsertViolation
  <2>. QED BY <2>1, <2>4 DEF Clearable
<1>. QED BY <1>1, <1>2, <1>3, <1>4, <1>5 DEF InsertWith

LEMMA DeleteKeepsAlarms ==
    ASSUME TypeOK, Delete, NEW v \in violations \ violations'
    PROVE  v \notin Missing'
<1>1. ASSUME NEW p \in PlayerId, DeletePlayer(p) PROVE v \notin Missing'
  <2>1. v = NoWallet(p) /\ players'[p] = None
        BY <1>1 DEF DeletePlayer, TypeOK
  <2>. QED BY <2>1 DEF Missing, Players, NoWallet, NoBalance
<1>2. ASSUME NEW a \in AccountId, DeleteAccount(a) PROVE v \notin Missing'
  <2>1. v = NoBalance(a) /\ accounts'[a] = None
        BY <1>2 DEF DeleteAccount, TypeOK
  <2>. QED BY <2>1 DEF Missing, Accounts, NoWallet, NoBalance
<1>3. ASSUME NEW a \in AccountId, DeleteBalance(a) PROVE v \notin Missing'
      BY <1>3 DEF DeleteBalance
<1>4. ASSUME NEW w \in ViolationRow, DeleteViolation(w) PROVE v \notin Missing'
      BY <1>4 DEF DeleteViolation, Clearable, Missing, Players, Accounts, AccountsOf
<1>. QED BY <1>1, <1>2, <1>3, <1>4 DEF Delete

\* Under 0002 an UPDATE moves no row, so what it displaces is gone after it.
LEMMA UpdateKeepsAlarms ==
    ASSUME TypeOK, Update, 2 \in installed, NEW v \in violations \ violations'
    PROVE  v \notin Missing'
<1>1. PICK policy \in Policies, recursive \in BOOLEAN : UpdateWith(policy, recursive)
      BY DEF Update
<1>2. ASSUME NEW p \in PlayerId, NEW q \in PlayerId, NEW d \in DiscordId,
             NEW named \in Namable(Players, policy, recursive),
             UpdatePlayer(p, q, d, named, policy, recursive)
      PROVE  v \notin Missing'
  <2>1. PICK r \in PlayerId : v = NoWallet(r) /\ r # q /\ players'[r] = None
        BY <1>2, NamableRows DEF UpdatePlayer, IdentityMutable, Players
  <2>. QED BY <2>1 DEF Missing, Players, NoWallet, NoBalance
<1>3. ASSUME NEW a \in AccountId, NEW b \in AccountId, NEW o \in PlayerId \cup SystemKey,
             NEW named \in Namable(Accounts, policy, recursive),
             UpdateAccount(a, b, o, named, policy, recursive)
      PROVE  v \notin Missing'
  <2>1. PICK c \in AccountId : v = NoBalance(c) /\ c # b /\ accounts'[c] = None
        BY <1>3, NamableRows DEF UpdateAccount, IdentityMutable, Accounts
  <2>. QED BY <2>1 DEF Missing, Accounts, NoWallet, NoBalance
<1>4. ASSUME NEW a \in AccountId, NEW b \in AccountId,
             NEW named \in Namable(balances, policy, recursive),
             UpdateBalance(a, b, named, policy, recursive)
      PROVE  v \notin Missing'
      BY <1>4 DEF UpdateBalance
<1>. QED BY <1>1, <1>2, <1>3, <1>4 DEF UpdateWith

\* Once identities are frozen, a hole that is on record stays on record for as
\* long as it is one, whatever statement runs that names no rowid unless its
\* connection fires delete triggers for the displaced row.
THEOREM Alarms ==
    ASSUME RowidsFireTriggers
    PROVE  Spec => AlarmsOutliveHoles
<1>1. ASSUME TypeOK, [Next]_vars, 2 \in installed, NEW v \in violations \ violations'
      PROVE  v \notin Missing'
  <2>1. CASE Insert
        BY <1>1, <2>1, InsertKeepsAlarms
  <2>2. CASE Delete
        BY <1>1, <2>2, DeleteKeepsAlarms
  <2>3. CASE Update
        BY <1>1, <2>3, UpdateKeepsAlarms
  <2>4. CASE Upgrade \/ Downgrade \/ (\E r \in Revisions : Stamp(r)) \/ Start
        BY <1>1, <2>4 DEF Upgrade, Reconciled, Downgrade, Stamp, Start
  <2>5. CASE UNCHANGED vars
        BY <1>1, <2>5 DEF vars
  <2>. QED BY <1>1, <2>1, <2>2, <2>3, <2>4, <2>5 DEF Next
<1>2. ASSUME TypeOK, [Next]_vars
      PROVE  2 \in installed => \A v \in violations \ violations' : v \notin Missing'
      BY <1>1, <1>2
<1>. QED BY <1>2, Types, PTL DEF Spec, AlarmsOutliveHoles

-----------------------------------------------------------------------------
(* Statements.  None installs a trigger, and each ends a verdict's validity. *)

LEMMA Statements ==
    ASSUME Insert \/ Delete \/ Update
    PROVE  installed' = installed /\ startup' = "none"
<1>. DEFINE Goal == installed' = installed /\ startup' = "none"
<1>1. CASE Insert
  <2>1. PICK policy \in Policies, recursive \in BOOLEAN : InsertWith(policy, recursive)
        BY <1>1 DEF Insert
  <2>2. ASSUME NEW p, NEW d, NEW named, InsertPlayer(p, d, named, policy, recursive)
        PROVE  Goal
        BY <2>2 DEF InsertPlayer
  <2>3. ASSUME NEW a, NEW o, NEW named, InsertAccount(a, o, named, policy, recursive)
        PROVE  Goal
        BY <2>3 DEF InsertAccount
  <2>4. ASSUME NEW a, NEW named, InsertBalance(a, named, policy, recursive)
        PROVE  Goal
        BY <2>4 DEF InsertBalance
  <2>5. ASSUME NEW v, NEW named, InsertViolation(v, named, policy, recursive)
        PROVE  Goal
        BY <2>5 DEF InsertViolation
  <2>. QED BY <2>1, <2>2, <2>3, <2>4, <2>5 DEF InsertWith
<1>2. CASE Delete
      BY <1>2 DEF Delete, DeletePlayer, DeleteAccount, DeleteBalance, DeleteViolation
<1>3. CASE Update
  <2>1. PICK policy \in Policies, recursive \in BOOLEAN : UpdateWith(policy, recursive)
        BY <1>3 DEF Update
  <2>2. ASSUME NEW p, NEW q, NEW d, NEW named, UpdatePlayer(p, q, d, named, policy, recursive)
        PROVE  Goal
        BY <2>2 DEF UpdatePlayer
  <2>3. ASSUME NEW a, NEW b, NEW o, NEW named, UpdateAccount(a, b, o, named, policy, recursive)
        PROVE  Goal
        BY <2>3 DEF UpdateAccount
  <2>4. ASSUME NEW a, NEW b, NEW named, UpdateBalance(a, b, named, policy, recursive)
        PROVE  Goal
        BY <2>4 DEF UpdateBalance
  <2>. QED BY <2>1, <2>2, <2>3, <2>4 DEF UpdateWith
<1>. QED BY <1>1, <1>2, <1>3

-----------------------------------------------------------------------------
(* Completeness.  With all triggers in place no statement opens a hole that  *)
(* it does not record, and AlarmsOutliveHoles keeps those on record.         *)

\* The holes a step opens are recorded by it.
OpenedRecorded == Missing' \ Missing \subseteq violations'

LEMMA InsertRecords ==
    ASSUME TypeOK, Insert, SchemaMatchesManifest, RowidsFireTriggers
    PROVE  OpenedRecorded
<1>1. PICK policy \in Policies, recursive \in BOOLEAN : InsertWith(policy, recursive)
      BY DEF Insert
<1>2. 3 \in installed
      BY DEF SchemaMatchesManifest, Revisions
<1>3. ASSUME NEW p \in PlayerId, NEW d \in DiscordId,
             NEW named \in Namable(Players, policy, recursive),
             InsertPlayer(p, d, named, policy, recursive)
      PROVE  OpenedRecorded
  <2>1. \A q \in PlayerId \ {p} : players'[q] \in {players[q], None}
        BY <1>3 DEF InsertPlayer
  <2>2. NoWallet(p) \in violations' /\ accounts' = accounts /\ balances' = balances
        BY <1>3 DEF InsertPlayer
  <2>. QED BY <2>1, <2>2 DEF OpenedRecorded, Missing, Players, Accounts, AccountsOf, NoWallet, NoBalance
<1>4. ASSUME NEW a \in AccountId, NEW o \in PlayerId \cup SystemKey,
             NEW named \in Namable(Accounts, policy, recursive),
             InsertAccount(a, o, named, policy, recursive)
      PROVE  OpenedRecorded
  <2>1. a \notin Accounts /\ AccountsOf(o) = {}
        BY <1>2, <1>4, KeysAssumption DEF InsertAccount, Admitted, Accounts, AccountsOf
  <2>2. /\ named \subseteq Accounts
        /\ \A b \in AccountId \ {a} : accounts'[b] = IF b \in named THEN None ELSE accounts[b]
        BY <1>2, <1>4, NamableRows DEF InsertAccount, Admitted
  <2>3. NoBalance(a) \in violations' /\ players' = players /\ balances' = balances
        BY <1>4 DEF InsertAccount, NoWallet, NoBalance
  <2>4. ASSUME NEW b \in named, accounts[b] \in Players
        PROVE  NoWallet(accounts[b]) \in violations'
    <3>1. recursive
          BY NamableRows
    <3>2. NoWallet(accounts[b]) \in Orphaned(named)
          BY <2>4 DEF Orphaned
    <3>3. accounts[b] # o
          BY <2>1, <2>2 DEF AccountsOf, Accounts
    <3>4. Orphaned(named) \subseteq violations' \cup {NoWallet(o)}
          BY <1>2, <1>4, <3>1 DEF InsertAccount, Admitted, Orphaned
    <3>. QED BY <3>2, <3>3, <3>4 DEF NoWallet
  <2>5. \A q \in Players : \A b \in AccountsOf(q) \ named : b \in AccountsOf(q)'
        BY <2>1, <2>2, KeysAssumption DEF AccountsOf, Accounts, Players
  <2>. QED BY <2>2, <2>3, <2>4, <2>5 DEF OpenedRecorded, Missing, Players, Accounts, AccountsOf,
                                         NoWallet, NoBalance
<1>5. ASSUME NEW a \in AccountId, NEW named \in Namable(balances, policy, recursive),
             InsertBalance(a, named, policy, recursive)
      PROVE  OpenedRecorded
  <2>1. ASSUME NEW b \in balances \ balances'
        PROVE  NoBalance(b) \in violations'
    <3>1. b \in named /\ b # a
          BY <1>5 DEF InsertBalance
    <3>2. recursive
          BY <3>1, NamableRows
    <3>. QED BY <1>5, <3>1, <3>2 DEF InsertBalance, NoBalance
  <2>2. players' = players /\ accounts' = accounts
        BY <1>5 DEF InsertBalance
  <2>. QED BY <2>1, <2>2 DEF OpenedRecorded, Missing, Players, Accounts, AccountsOf, NoWallet,
                             NoBalance
<1>6. ASSUME NEW v \in ViolationRow, NEW named \in Namable(violations, policy, recursive),
             InsertViolation(v, named, policy, recursive)
      PROVE  OpenedRecorded
      BY <1>6 DEF InsertViolation, OpenedRecorded, Missing, Players, Accounts, AccountsOf
<1>. QED BY <1>1, <1>3, <1>4, <1>5, <1>6 DEF InsertWith

\* With identities frozen an UPDATE only displaces rows.
LEMMA UpdateRecords ==
    ASSUME TypeOK, Update, SchemaMatchesManifest, RowidsFireTriggers
    PROVE  OpenedRecorded
<1>1. PICK policy \in Policies, recursive \in BOOLEAN : UpdateWith(policy, recursive)
      BY DEF Update
<1>2. ~IdentityMutable
      BY DEF SchemaMatchesManifest, Revisions, IdentityMutable
<1>3. ASSUME NEW p \in PlayerId, NEW q \in PlayerId, NEW d \in DiscordId,
             NEW named \in Namable(Players, policy, recursive),
             UpdatePlayer(p, q, d, named, policy, recursive)
      PROVE  OpenedRecorded
  <2>1. \A r \in PlayerId : players'[r] \in {players[r], None}
        BY <1>2, <1>3 DEF UpdatePlayer
  <2>2. accounts' = accounts /\ balances' = balances
        BY <1>3 DEF UpdatePlayer
  <2>. QED BY <2>1, <2>2 DEF OpenedRecorded, Missing, Players, Accounts, AccountsOf, NoWallet, NoBalance
<1>4. ASSUME NEW a \in AccountId, NEW b \in AccountId, NEW o \in PlayerId \cup SystemKey,
             NEW named \in Namable(Accounts, policy, recursive),
             UpdateAccount(a, b, o, named, policy, recursive)
      PROVE  OpenedRecorded
  <2>1. b = a /\ o = accounts[a]
        BY <1>2, <1>4 DEF UpdateAccount
  <2>2. /\ accounts'[a] = o /\ players' = players /\ balances' = balances
        /\ \A c \in AccountId : accounts'[c] \in {accounts[c], None}
        BY <1>4, <2>1 DEF UpdateAccount
  <2>3. ASSUME NEW c \in Accounts, accounts'[c] = None, accounts[c] # o, accounts[c] \in Players
        PROVE  NoWallet(accounts[c]) \in violations'
    <3>1. c \in named \ {a}
          BY <1>4, <2>1, <2>3 DEF UpdateAccount, Accounts
    <3>2. recursive
          BY <3>1, NamableRows
    <3>3. Orphaned(named \ {a}) \subseteq violations'
          BY <1>4, <3>2 DEF UpdateAccount, Orphaned
    <3>. QED BY <2>3, <3>1, <3>3 DEF Orphaned
  <2>. QED BY <2>1, <2>2, <2>3 DEF OpenedRecorded, Missing, Players, Accounts, AccountsOf, NoWallet,
                                   NoBalance
<1>5. ASSUME NEW a \in AccountId, NEW b \in AccountId,
             NEW named \in Namable(balances, policy, recursive),
             UpdateBalance(a, b, named, policy, recursive)
      PROVE  OpenedRecorded
  <2>1. ASSUME NEW c \in balances \ balances'
        PROVE  NoBalance(c) \in violations'
    <3>1. b = a /\ c \in named \ {a}
          BY <1>2, <1>5 DEF UpdateBalance
    <3>2. recursive
          BY <3>1, NamableRows
    <3>. QED BY <1>5, <3>1, <3>2 DEF UpdateBalance
  <2>2. players' = players /\ accounts' = accounts
        BY <1>5 DEF UpdateBalance
  <2>. QED BY <2>1, <2>2 DEF OpenedRecorded, Missing, Players, Accounts, AccountsOf, NoWallet,
                             NoBalance
<1>. QED BY <1>1, <1>3, <1>4, <1>5 DEF UpdateWith

LEMMA DeleteRecords ==
    ASSUME TypeOK, Delete
    PROVE  OpenedRecorded
<1>1. ASSUME NEW p \in PlayerId, DeletePlayer(p) PROVE OpenedRecorded
      BY <1>1 DEF DeletePlayer, TypeOK, OpenedRecorded, Missing, Players, Accounts, AccountsOf,
                  NoWallet, NoBalance
<1>2. ASSUME NEW a \in AccountId, DeleteAccount(a) PROVE OpenedRecorded
  <2>1. \A b \in AccountId \ {a} : accounts'[b] = accounts[b]
        BY <1>2 DEF DeleteAccount, TypeOK
  <2>2. accounts'[a] = None /\ players' = players /\ balances' = balances
        BY <1>2 DEF DeleteAccount, TypeOK
  <2>3. accounts[a] \in Players => NoWallet(accounts[a]) \in violations'
        BY <1>2 DEF DeleteAccount
  <2>4. \A q \in Players : q # accounts[a] => AccountsOf(q) \subseteq AccountsOf(q)'
        BY <2>1 DEF AccountsOf
  <2>. QED BY <2>1, <2>2, <2>3, <2>4 DEF OpenedRecorded, Missing, Players, Accounts, NoWallet, NoBalance
<1>3. ASSUME NEW a \in AccountId, DeleteBalance(a) PROVE OpenedRecorded
  <2>1. NoBalance(a) \in violations' /\ balances' = balances \ {a}
        BY <1>3 DEF DeleteBalance
  <2>2. players' = players /\ accounts' = accounts
        BY <1>3 DEF DeleteBalance
  <2>. QED BY <2>1, <2>2 DEF OpenedRecorded, Missing, Players, Accounts, AccountsOf, NoWallet, NoBalance
<1>4. ASSUME NEW v \in ViolationRow, DeleteViolation(v) PROVE OpenedRecorded
      BY <1>4 DEF DeleteViolation, OpenedRecorded, Missing, Players, Accounts, AccountsOf
<1>. QED BY <1>1, <1>2, <1>3, <1>4 DEF Delete

LEMMA StepRecords ==
    ASSUME TypeOK, [Next]_vars, SchemaMatchesManifest, RowidsFireTriggers
    PROVE  OpenedRecorded
<1>1. CASE Insert
      BY <1>1, InsertRecords
<1>2. CASE Delete
      BY <1>2, DeleteRecords
<1>3. CASE Update
      BY <1>3, UpdateRecords
<1>4. CASE UNCHANGED <<players, accounts, balances>>
      BY <1>4 DEF OpenedRecorded, Missing, Players, Accounts, AccountsOf
<1>5. CASE Upgrade \/ Downgrade \/ (\E r \in Revisions : Stamp(r)) \/ Start \/ UNCHANGED vars
      BY <1>4, <1>5 DEF Upgrade, Downgrade, Stamp, Start, vars
<1>. QED BY <1>1, <1>2, <1>3, <1>4, <1>5 DEF Next

\* A step that installs triggers records every hole there is.
LEMMA InstallRecords ==
    ASSUME TypeOK, [Next]_vars, installed' # installed, SchemaMatchesManifest'
    PROVE  Missing' \subseteq violations'
<1>1. CASE Upgrade
  <2>1. Missing' = Missing
        BY <1>1 DEF Upgrade, Missing, Players, Accounts, AccountsOf
  <2>. QED BY <1>1, <2>1 DEF Upgrade, Reconciled
<1>2. CASE Downgrade
  <2>1. stamp \in Revisions /\ stamp \notin installed'
        BY <1>2 DEF Downgrade, TypeOK
  <2>. QED BY <2>1 DEF SchemaMatchesManifest
<1>3. ASSUME Insert \/ Delete \/ Update
      PROVE  installed' = installed
      BY <1>3, Statements
<1>4. CASE (\E r \in Revisions : Stamp(r)) \/ Start \/ UNCHANGED vars
      BY <1>4 DEF Stamp, Start, vars
<1>. QED BY <1>1, <1>2, <1>3, <1>4 DEF Next

\* What the invariant rests on, step by step.
AlarmsHold == 2 \in installed => \A v \in violations \ violations' : v \notin Missing'

\* With the triggers of the release every hole has its row, whatever statements,
\* migrations, downgrades and stamped revisions came before, as long as each
\* rowid was named on a connection with recursive triggers.
THEOREM Complete ==
    ASSUME RowidsFireTriggers
    PROVE  Spec => []SentinelComplete
<1>1. Init => SentinelComplete
  <2>1. Init => installed # Revisions
        BY DEF Init, Revisions
  <2>. QED BY <2>1 DEF SentinelComplete, SchemaMatchesManifest
<1>2. ASSUME TypeOK, SentinelComplete, [Next]_vars, AlarmsHold
      PROVE  SentinelComplete'
  <2>1. CASE installed' = installed
    <3>. SUFFICES ASSUME SchemaMatchesManifest, SchemaMatchesManifest'
                  PROVE  Missing' \subseteq violations'
         BY <2>1 DEF SentinelComplete, SchemaMatchesManifest
    <3>1. Missing \subseteq violations
          BY <1>2 DEF SentinelComplete
    <3>2. Missing' \ Missing \subseteq violations'
          BY <1>2, StepRecords DEF OpenedRecorded
    <3>3. 2 \in installed
          BY DEF SchemaMatchesManifest, Revisions
    <3>. QED BY <1>2, <3>1, <3>2, <3>3 DEF AlarmsHold
  <2>2. CASE installed' # installed
        BY <1>2, <2>2, InstallRecords DEF SentinelComplete
  <2>. QED BY <2>1, <2>2
<1>3. Spec => [][AlarmsHold]_vars
      BY Alarms DEF AlarmsOutliveHoles, AlarmsHold
<1>4. ASSUME TypeOK, SentinelComplete, [Next]_vars, [AlarmsHold]_vars
      PROVE  SentinelComplete'
  <2>1. CASE AlarmsHold
        BY <1>2, <1>4, <2>1
  <2>2. CASE UNCHANGED vars
        BY <1>4, <2>2 DEF vars, SentinelComplete, SchemaMatchesManifest, Missing, Players,
                          Accounts, AccountsOf
  <2>. QED BY <1>4, <2>1, <2>2
<1>. QED BY <1>1, <1>3, <1>4, Types, PTL DEF Spec

\* A database that startup admits has no hole and no stale row: the bounded look
\* at the sentinel is worth the scan of the offline verification, under the same
\* condition on rowids.
THEOREM Bounded ==
    ASSUME RowidsFireTriggers
    PROVE  Spec => []BoundedScanSuffices
<1>1. Init => BoundedScanSuffices
      BY DEF Init, BoundedScanSuffices
<1>2. ASSUME SentinelComplete, BoundedScanSuffices, [Next]_vars
      PROVE  BoundedScanSuffices'
  <2>1. CASE Start
    <3>. SUFFICES ASSUME startup' = "ready" PROVE OfflineClean'
         BY DEF BoundedScanSuffices
    <3>1. Readiness("ready") /\ UNCHANGED <<players, accounts, balances, violations>>
          BY <2>1 DEF Start
    <3>2. SchemaMatchesManifest /\ violations = {}
          BY <3>1 DEF Readiness
    <3>3. Missing = {}
          BY <1>2, <3>2 DEF SentinelComplete
    <3>. QED BY <3>1, <3>2, <3>3 DEF OfflineClean, Missing, Players, Accounts, AccountsOf
  <2>2. CASE UNCHANGED vars
        BY <1>2, <2>2 DEF vars, BoundedScanSuffices, OfflineClean, Missing, Players, Accounts,
                          AccountsOf
  <2>3. ASSUME Next, ~Start PROVE startup' = "none"
    <3>1. CASE Insert \/ Delete \/ Update
          BY <3>1, Statements
    <3>2. CASE Upgrade \/ Downgrade \/ (\E r \in Revisions : Stamp(r))
          BY <3>2 DEF Upgrade, Downgrade, Stamp
    <3>. QED BY <2>3, <3>1, <3>2 DEF Next
  <2>. QED BY <1>2, <2>1, <2>2, <2>3 DEF BoundedScanSuffices
<1>. QED BY <1>1, <1>2, Complete, PTL DEF Spec
=============================================================================
