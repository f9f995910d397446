--------------------------- MODULE HistoryPaging ----------------------------
(***************************************************************************)
(* /history: one player reads the ledger of his wallet in pages, while     *)
(* grants, corrections and daily rewards commit between two pages.         *)
(*                                                                         *)
(* A page is one read snapshot of at most PageSize rows, newest first by   *)
(* commit time and transaction id, and the cursor of the next page is the  *)
(* last row it showed.  Nothing holds the ledger still between pages: a    *)
(* row that commits later may carry an earlier time, because the clock can *)
(* be set back, and ids are random, so a new row may sort anywhere.        *)
(***************************************************************************)
EXTENDS Integers, FiniteSets

CONSTANTS
    Id,          \* transaction ids, compared like the stored UUID text
    PageSize,    \* the rows of a full page
    Amount,      \* the amounts a transaction may post to the wallet
    ClockSteps,  \* how far the clock moves between two commits, either way
    MaxClock,    \* bound: the instants of a run
    None

ASSUME HistoryAssumption ==
    /\ Id \subseteq Nat
    /\ PageSize \in Nat \ {0}
    /\ Amount \subseteq Int \ {0}
    /\ ClockSteps \subseteq Int
    /\ MaxClock \in Nat
    /\ None \notin [at : 0..MaxClock, id : Id]

VARIABLES
    joined,   \* the player row and its wallet exist
    wallet,   \* the balance row of the wallet
    ledger,   \* the transactions with a posting to the wallet
    clock,    \* what the next commit is stamped with
    regular,  \* history: every transaction so far sorts after the earlier ones
    status,   \* the status of the last page, "none" before the first
    page,     \* the entries of the last page
    before,   \* its next_cursor, which the player can paste, or None
    shown,    \* the entries of the earlier pages of this reading
    present   \* history: the transactions there were when this reading began

ledgerVars == <<joined, wallet, ledger, clock, regular>>
readerVars == <<status, page, before, shown, present>>
vars == <<ledgerVars, readerVars>>

\* A ledger row with its posting and the balance its receipt recorded.
Entry == [id : Id, at : 0..MaxClock, amount : Amount, after : Nat]

TypeOK ==
    /\ joined \in BOOLEAN
    /\ wallet \in Nat
    /\ ledger \subseteq Entry
    /\ clock \in 0..MaxClock
    /\ regular \in BOOLEAN
    /\ status \in {"none", "unjoined", "available"}
    /\ page \subseteq Entry
    /\ before \in [at : 0..MaxClock, id : Id] \cup {None}
    /\ shown \subseteq Entry
    /\ present \subseteq Id

Init ==
    /\ joined = FALSE
    /\ wallet = 0
    /\ ledger = {}
    /\ clock = 0
    /\ regular = TRUE
    /\ status = "none"
    /\ page = {}
    /\ before = None
    /\ shown = {}
    /\ present = {}

\* The order of committed_at_ms and id, which the history lists backwards.
Older(r, s) == r.at < s.at \/ (r.at = s.at /\ r.id < s.id)

Ids(entries) == {e.id : e \in entries}

-----------------------------------------------------------------------------
\* The writers, serialized by the writer lock

Join ==
    /\ ~joined
    /\ joined' = TRUE
    /\ UNCHANGED <<wallet, ledger, clock, regular, readerVars>>

\* A grant, a correction or a daily claim: the receipt keeps the balance the
\* wallet has after it.
Commit(id, amount) ==
    LET row == [id |-> id, at |-> clock, amount |-> amount, after |-> wallet + amount]
    IN  /\ joined
        /\ id \notin Ids(ledger)
        /\ wallet + amount >= 0
        /\ wallet' = wallet + amount
        /\ ledger' = ledger \cup {row}
        /\ regular' = (regular /\ \A r \in ledger : Older(r, row))
        /\ UNCHANGED <<joined, clock, readerVars>>

Tick(step) ==
    /\ clock + step \in 0..MaxClock
    /\ clock' = clock + step
    /\ UNCHANGED <<joined, wallet, ledger, regular, readerVars>>

-----------------------------------------------------------------------------
\* The reader

\* Mutant: the rows of the cursor's own instant are skipped.
EarlierOnly(cursor) == {r \in ledger : cursor # None => r.at < cursor.at}

\* Mutant: the cursor's own row comes again.
UpToCursor(cursor) == {r \in ledger : cursor # None => ~Older(cursor, r)}

\* The WHERE clause of the keyset query.
Below(cursor) == {r \in ledger : cursor # None => Older(r, cursor)}

\* ORDER BY committed_at_ms DESC, id DESC LIMIT n
Newest(entries, n) == {r \in entries : Cardinality({s \in entries : Older(r, s)}) < n}

\* Mutant: the cursor is the row fetched to see whether there are more.
LastFetched(fetched) ==
    IF Cardinality(fetched) <= PageSize THEN None
    ELSE LET r == CHOOSE r \in fetched : \A s \in fetched \ {r} : Older(r, s)
         IN  [at |-> r.at, id |-> r.id]

\* The last visible entry, when one more row than a page holds was fetched.
NextCursor(fetched) ==
    LET visible == Newest(fetched, PageSize)
        last == CHOOSE r \in visible : \A s \in visible \ {r} : Older(r, s)
    IN  IF Cardinality(fetched) > PageSize THEN [at |-> last.at, id |-> last.id] ELSE None

\* Mutant: an entry shows the balance of the moment it is read.
WithPresentBalance(r) == [r EXCEPT !.after = wallet]

\* The balance an entry shows is the recorded one.
AsShown(r) == r

Read(cursor) ==
    LET fetched == Newest(Below(cursor), PageSize + 1)
    IN  /\ status' = "available"
        /\ page' = {AsShown(r) : r \in Newest(fetched, PageSize)}
        /\ before' = NextCursor(fetched)

\* /history without a cursor begins a reading.
Open ==
    /\ shown' = {}
    /\ present' = Ids(ledger)
    /\ \/ joined /\ Read(None)
       \/ ~joined /\ status' = "unjoined" /\ page' = {} /\ before' = None
    /\ UNCHANGED ledgerVars

\* /history with the cursor that the last page named.
Follow ==
    /\ before # None
    /\ shown' = shown \cup page
    /\ Read(before)
    /\ UNCHANGED <<ledgerVars, present>>

-----------------------------------------------------------------------------
Write ==
    \/ Join
    \/ \E id \in Id, amount \in Amount : Commit(id, amount)
    \/ \E step \in ClockSteps : Tick(step)

Next == Write \/ Open \/ Follow

Spec == Init /\ [][Next]_vars

-----------------------------------------------------------------------------
\* Properties

\* A reading that reached its last page has shown every transaction there was
\* when it began, whatever committed meanwhile and wherever that sorts.
NothingLost ==
    status = "available" /\ before = None => present \subseteq Ids(shown \cup page)

\* Every entry of a page is older than everything the reading showed before,
\* so none comes twice.
PagesDescend == \A r \in page, s \in shown : Older(r, s)

\* The statement adds up: while the clock has kept the order of the commits,
\* the balance of each entry is the balance of the next older transaction moved
\* by its own amount, on whatever pages the two were read and however many
\* commits came between.
StatementAddsUp ==
    regular => \A e \in shown \cup page :
        LET earlier == {r \in ledger : Older(r, e)}
        IN  \/ earlier = {} /\ e.after = e.amount
            \/ \E r \in earlier :
                  /\ \A s \in earlier \ {r} : Older(s, r)
                  /\ e.after = r.after + e.amount
=============================================================================
