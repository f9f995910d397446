------------------------- MODULE AggregateIntegrity -------------------------
(***************************************************************************)
(* The aggregate-completeness sentinel of the SQLite schema.               *)
(*                                                                         *)
(* A player must own a wallet and an account must have a balance row.      *)
(* Startup does not scan for holes: it looks for one row in the table      *)
(* operations_integrity_violations, which the triggers of migrations 0001, *)
(* 0002 and 0003 maintain.  One action is one SQL statement of an          *)
(* operator, of a migration or of the bot, committed by itself or aborted  *)
(* as a whole; a statement that aborts leaves every table as it was and is *)
(* not an action.  A statement that hits a unique key either aborts or,    *)
(* when it says REPLACE, deletes the rows in its way, and PRAGMA           *)
(* recursive_triggers decides whether those deletions fire the delete      *)
(* triggers.                                                               *)
(*                                                                         *)
(* Beside its declared keys every table has the implicit rowid, which no   *)
(* trigger of 0002 and 0003 compares.  A REPLACE that names the rowid of   *)
(* some row deletes that row at every revision; with recursive_triggers    *)
(* off nothing records the deletion.  RowidNamed says on which connections *)
(* statements do this.                                                     *)
(*                                                                         *)
(* The owner column folds player_id, account_kind and system_key: the      *)
(* CHECK of economy_accounts makes an account a wallet exactly when it has *)
(* a player.                                                               *)
(***************************************************************************)
EXTENDS Integers

CONSTANTS
    PlayerId,   \* players.id
    DiscordId,  \* players.discord_user_id
    SystemKey,  \* economy_accounts.system_key
    AccountId,  \* economy_accounts.id
    RowidNamed, \* the settings of recursive_triggers with which statements name
                \* a rowid; the bot, whose default is FALSE, never does
    None        \* no such row

ASSUME KeysAssumption ==
    /\ None \notin DiscordId \cup PlayerId \cup SystemKey
    /\ PlayerId \cap SystemKey = {}
    /\ RowidNamed \subseteq BOOLEAN

VARIABLES
    players,     \* the player rows: id |-> Discord identity, or None
    accounts,    \* the account rows: id |-> owner, or None
    balances,    \* the accounts that have a balance row
    violations,  \* the rows of operations_integrity_violations
    installed,   \* the revisions whose triggers the schema really holds
    stamp,       \* the row of alembic_version
    startup      \* what the last readiness check said, "none" since a change

vars == <<players, accounts, balances, violations, installed, stamp, startup>>

Revisions == 1..3
Head == 3

Policies == {"abort", "replace"}
Verdicts == {"schema_behind", "schema_contract", "missing_balance_projection",
             "missing_player_wallet", "ready"}

NoWallet(p) == <<"player_without_wallet", p>>
NoBalance(a) == <<"account_without_balance", a>>
ViolationRow == {NoWallet(p) : p \in PlayerId} \cup {NoBalance(a) : a \in AccountId}

Players == {p \in PlayerId : players[p] # None}
Accounts == {a \in AccountId : accounts[a] # None}
AccountsOf(o) == {a \in AccountId : accounts[a] = o}

\* The rows for which the WHEN clause of protect_active_delete is true: the
\* holes the tables have now.
Missing ==
    {NoWallet(p) : p \in {q \in Players : AccountsOf(q) = {}}}
        \cup {NoBalance(a) : a \in Accounts \ balances}

TypeOK ==
    /\ players \in [PlayerId -> DiscordId \cup {None}]
    /\ accounts \in [AccountId -> PlayerId \cup SystemKey \cup {None}]
    /\ balances \subseteq AccountId
    /\ violations \subseteq ViolationRow
    /\ installed \in SUBSET Revisions
    /\ stamp \in Revisions
    /\ startup \in Verdicts \cup {"none"}

\* A database that upgrade() of 0001 has just created.
Init ==
    /\ players = [p \in PlayerId |-> None]
    /\ accounts = [a \in AccountId |-> None]
    /\ balances = {}
    /\ violations = {}
    /\ installed = {1}
    /\ stamp = 1
    /\ startup = "none"

-----------------------------------------------------------------------------
\* Statements on the aggregate tables

\* The rows a declared key puts in the way of an insertion.  The BEFORE INSERT
\* triggers of 0003 refuse the statement; without them REPLACE deletes the
\* rows, and any other statement fails on the key.
\* Mutant: 0003 leaves REPLACE alone.
AdmittedByKey(keyed, policy) ==
    keyed # {} => policy = "replace"

Admitted(keyed, policy) ==
    keyed # {} => policy = "replace" /\ 3 \notin installed

\* The row that a statement displaces by its rowid, if it displaces one.
Namable(rows, policy, recursive) ==
    {{}} \cup IF policy = "replace" /\ recursive \in RowidNamed THEN {{r} : r \in rows} ELSE {}

\* A trigger's INSERT OR IGNORE obeys the REPLACE of the statement that fires
\* it: a row already there would be deleted, and with recursive_triggers on
\* protect_active_delete refuses that.
Recordable(rows, policy, recursive) ==
    policy = "replace" /\ recursive => rows \cap violations = {}

InsertPlayer(p, d, named, policy, recursive) ==
    LET keyed == {q \in Players : q = p \/ players[q] = d}
        displaced == keyed \cup named
        dropped == IF recursive THEN {NoWallet(q) : q \in displaced} ELSE {}
    IN  /\ Admitted(keyed, policy)
        /\ \A q \in displaced : AccountsOf(q) = {}
        /\ Recordable({NoWallet(p)} \ dropped, policy, recursive)
        /\ players' = [q \in PlayerId |->
                          IF q = p THEN d
                          ELSE IF q \in displaced THEN None ELSE players[q]]
        /\ violations' = (violations \ dropped) \cup {NoWallet(p)}
        /\ startup' = "none"
        /\ UNCHANGED <<accounts, balances, installed, stamp>>

\* What the delete trigger of the accounts records of those displaced.
Orphaned(fired) == {NoWallet(accounts[b]) : b \in {c \in fired : accounts[c] \in Players}}

InsertAccount(a, o, named, policy, recursive) ==
    LET keyed == {b \in Accounts : b = a \/ accounts[b] = o}
        displaced == keyed \cup named
        fired == IF recursive THEN displaced ELSE {}
        dropped == {NoBalance(b) : b \in fired}
    IN  /\ o \in Players \cup SystemKey
        /\ Admitted(keyed, policy)
        /\ displaced \cap balances = {}
        /\ Recordable(Orphaned(fired) \cup ({NoBalance(a)} \ dropped), policy, recursive)
        /\ accounts' = [b \in AccountId |->
                           IF b = a THEN o
                           ELSE IF b \in displaced THEN None ELSE accounts[b]]
        /\ violations' = (((violations \ dropped) \cup Orphaned(fired)) \cup {NoBalance(a)})
                             \ {NoWallet(o)}
        /\ startup' = "none"
        /\ UNCHANGED <<players, balances, installed, stamp>>

InsertBalance(a, named, policy, recursive) ==
    LET keyed == {a} \cap balances
        displaced == keyed \cup named
        dropped == IF recursive THEN {NoBalance(b) : b \in displaced} ELSE {}
    IN  /\ a \in Accounts
        /\ Admitted(keyed, policy)
        /\ Recordable(dropped, policy, recursive)
        /\ balances' = (balances \ displaced) \cup {a}
        /\ violations' = (violations \cup dropped) \ {NoBalance(a)}
        /\ startup' = "none"
        /\ UNCHANGED <<players, accounts, installed, stamp>>

DeletePlayer(p) ==
    /\ p \in Players
    /\ AccountsOf(p) = {}
    /\ players' = [players EXCEPT ![p] = None]
    /\ violations' = violations \ {NoWallet(p)}
    /\ startup' = "none"
    /\ UNCHANGED <<accounts, balances, installed, stamp>>

DeleteAccount(a) ==
    /\ a \in Accounts \ balances
    /\ accounts' = [accounts EXCEPT ![a] = None]
    /\ violations' = (violations \ {NoBalance(a)})
                         \cup (IF accounts[a] \in Players THEN {NoWallet(accounts[a])} ELSE {})
    /\ startup' = "none"
    /\ UNCHANGED <<players, balances, installed, stamp>>

DeleteBalance(a) ==
    /\ a \in balances
    /\ balances' = balances \ {a}
    /\ violations' = violations \cup {NoBalance(a)}
    /\ startup' = "none"
    /\ UNCHANGED <<players, accounts, installed, stamp>>

\* No trigger maintains the sentinel on UPDATE, only the delete triggers of the
\* rows that UPDATE OR REPLACE displaces.  The triggers of 0002 abort a
\* statement that changes an identity; before 0002 the row moves, unless a
\* foreign key still points at it.
IdentityMutable == 2 \notin installed

UpdatePlayer(p, q, d, named, policy, recursive) ==
    LET keyed == {r \in Players \ {p} : r = q \/ players[r] = d}
        displaced == keyed \cup (named \ {p})
        dropped == IF recursive THEN {NoWallet(r) : r \in displaced} ELSE {}
    IN  /\ p \in Players
        /\ q # p \/ d # players[p] => IdentityMutable
        /\ keyed # {} => policy = "replace"
        /\ \A r \in displaced : AccountsOf(r) = {}
        /\ q # p => AccountsOf(p) = {}
        /\ players' = [r \in PlayerId |->
                          IF r = q THEN d
                          ELSE IF r \in displaced \cup {p} THEN None ELSE players[r]]
        /\ violations' = violations \ dropped
        /\ startup' = "none"
        /\ UNCHANGED <<accounts, balances, installed, stamp>>

UpdateAccount(a, b, o, named, policy, recursive) ==
    LET keyed == {c \in Accounts \ {a} : c = b \/ accounts[c] = o}
        displaced == keyed \cup (named \ {a})
        fired == IF recursive THEN displaced ELSE {}
    IN  /\ a \in Accounts
        /\ o \in Players \cup SystemKey
        /\ b # a \/ o # accounts[a] => IdentityMutable
        /\ keyed # {} => policy = "replace"
        /\ displaced \cap balances = {}
        /\ b # a => a \notin balances
        \* balances carry the account kind in their foreign key
        /\ a \in balances => (o \in PlayerId <=> accounts[a] \in PlayerId)
        /\ Recordable(Orphaned(fired), policy, recursive)
        /\ accounts' = [c \in AccountId |->
                           IF c = b THEN o
                           ELSE IF c \in displaced \cup {a} THEN None ELSE accounts[c]]
        /\ violations' = (violations \ {NoBalance(c) : c \in fired}) \cup Orphaned(fired)
        /\ startup' = "none"
        /\ UNCHANGED <<players, balances, installed, stamp>>

UpdateBalance(a, b, named, policy, recursive) ==
    LET keyed == {b} \cap (balances \ {a})
        displaced == keyed \cup (named \ {a})
        opened == IF recursive THEN {NoBalance(c) : c \in displaced} ELSE {}
    IN  /\ a \in balances
        /\ b \in Accounts
        /\ b # a => IdentityMutable
        /\ keyed # {} => policy = "replace"
        /\ Recordable(opened, policy, recursive)
        /\ balances' = (balances \ (displaced \cup {a})) \cup {b}
        /\ violations' = violations \cup opened
        /\ startup' = "none"
        /\ UNCHANGED <<players, accounts, installed, stamp>>

-----------------------------------------------------------------------------
\* Statements on the sentinel itself: UPDATE always aborts (protect_update)

\* The rows protect_active_delete lets go; mutant: it forgets the balances.
UnprotectedBalances ==
    violations \ {v \in Missing : v[1] = "player_without_wallet"}

Clearable == violations \ Missing

InsertViolation(v, named, policy, recursive) ==
    LET displaced == ({v} \cap violations) \cup named
    IN  /\ displaced # {} => policy = "replace"
        /\ recursive => displaced \subseteq Clearable
        /\ violations' = (violations \ displaced) \cup {v}
        /\ startup' = "none"
        /\ UNCHANGED <<players, accounts, balances, installed, stamp>>

DeleteViolation(v) ==
    /\ v \in Clearable
    /\ violations' = violations \ {v}
    /\ startup' = "none"
    /\ UNCHANGED <<players, accounts, balances, installed, stamp>>

-----------------------------------------------------------------------------
\* Migrations, run with the bot stopped, each of them one step: a crash half way
\* through one leaves a schema that the release manifest refuses

\* Mutant: 0003 trusts the sentinel that 0002 left.
ReconciledOnce(revision) ==
    IF revision = 2 THEN violations \cup Missing ELSE violations

\* Both 0002 and 0003 record the holes they find before creating triggers.
Reconciled(revision) == violations \cup Missing

\* CREATE TRIGGER fails when the trigger exists, and rolls everything back.
Upgrade ==
    /\ stamp < Head
    /\ stamp + 1 \notin installed
    /\ violations' = Reconciled(stamp + 1)
    /\ installed' = installed \cup {stamp + 1}
    /\ stamp' = stamp + 1
    /\ startup' = "none"
    /\ UNCHANGED <<players, accounts, balances>>

\* DROP TRIGGER fails when the trigger is missing.
Downgrade ==
    /\ stamp > 1
    /\ stamp \in installed
    /\ installed' = installed \ {stamp}
    /\ stamp' = stamp - 1
    /\ startup' = "none"
    /\ UNCHANGED <<players, accounts, balances, violations>>

\* UPDATE alembic_version: an operator stamps a revision and migrates nothing.
Stamp(r) ==
    /\ stamp' = r
    /\ startup' = "none"
    /\ UNCHANGED <<players, accounts, balances, violations, installed>>

-----------------------------------------------------------------------------
\* check_schema_readiness: the revision, the schema against the release
\* manifest, then one row of the sentinel, whichever LIMIT 1 returns.  A revision
\* that is missing, unknown or ahead is refused like one behind: here all are
\* "schema_behind".  The look for incomplete transport requests in between, which
\* can only refuse more, is left out.

\* Mutant: the revision row is believed.
SchemaAsStamped == stamp = Head

SchemaMatchesManifest == installed = Revisions

Readiness(verdict) ==
    \/ stamp # Head /\ verdict = "schema_behind"
    \/ stamp = Head /\ ~SchemaMatchesManifest /\ verdict = "schema_contract"
    \/ /\ stamp = Head /\ SchemaMatchesManifest
       /\ \/ violations = {} /\ verdict = "ready"
          \/ \E v \in violations :
                verdict = IF v[1] = "account_without_balance"
                          THEN "missing_balance_projection" ELSE "missing_player_wallet"

Start ==
    /\ \E verdict \in Verdicts : Readiness(verdict) /\ startup' = verdict
    /\ UNCHANGED <<players, accounts, balances, violations, installed, stamp>>

\* The offline verification counts the sentinel rows and then the holes
\* themselves, with a join over every player and account.
OfflineClean == violations = {} /\ Missing = {}

-----------------------------------------------------------------------------
InsertWith(policy, recursive) ==
    \/ \E p \in PlayerId, d \in DiscordId :
          \E named \in Namable(Players, policy, recursive) :
             InsertPlayer(p, d, named, policy, recursive)
    \/ \E a \in AccountId, o \in PlayerId \cup SystemKey :
          \E named \in Namable(Accounts, policy, recursive) :
             InsertAccount(a, o, named, policy, recursive)
    \/ \E a \in AccountId :
          \E named \in Namable(balances, policy, recursive) :
             InsertBalance(a, named, policy, recursive)
    \/ \E v \in ViolationRow :
          \E named \in Namable(violations, policy, recursive) :
             InsertViolation(v, named, policy, recursive)

Delete ==
    \/ \E p \in PlayerId : DeletePlayer(p)
    \/ \E a \in AccountId : DeleteAccount(a) \/ DeleteBalance(a)
    \/ \E v \in ViolationRow : DeleteViolation(v)

UpdateWith(policy, recursive) ==
    \/ \E p, q \in PlayerId, d \in DiscordId :
          \E named \in Namable(Players, policy, recursive) :
             UpdatePlayer(p, q, d, named, policy, recursive)
    \/ \E a, b \in AccountId, o \in PlayerId \cup SystemKey :
          \E named \in Namable(Accounts, policy, recursive) :
             UpdateAccount(a, b, o, named, policy, recursive)
    \/ \E a, b \in AccountId :
          \E named \in Namable(balances, policy, recursive) :
             UpdateBalance(a, b, named, policy, recursive)

Insert == \E policy \in Policies, recursive \in BOOLEAN : InsertWith(policy, recursive)

Update == \E policy \in Policies, recursive \in BOOLEAN : UpdateWith(policy, recursive)

Next ==
    \/ Insert
    \/ Delete
    \/ Update
    \/ Upgrade
    \/ Downgrade
    \/ \E r \in Revisions : Stamp(r)
    \/ Start

Spec == Init /\ [][Next]_vars

-----------------------------------------------------------------------------
\* Properties

\* With the triggers of all three revisions in place every hole has its row,
\* whatever statements, partial upgrades and stamped revisions led there, as
\* long as rowids are named with recursive triggers only.
SentinelComplete == SchemaMatchesManifest => Missing \subseteq violations

\* The bounded look at the sentinel that startup takes in place of the scan
\* never admits a database the offline verification would refuse, under the
\* same condition on rowids.
BoundedScanSuffices == startup = "ready" => OfflineClean

\* Once identities are frozen (0002), a recorded hole keeps its row until the
\* wallet or the balance exists or its aggregate is gone: no statement but one
\* that names the row's rowid without recursive triggers clears an alarm that
\* is still true.  Before 0002 an account may take over the id of a displaced
\* one and leave its alarm behind.
AlarmsOutliveHoles ==
    [][2 \in installed => \A v \in violations \ violations' : v \notin Missing']_vars
=============================================================================
