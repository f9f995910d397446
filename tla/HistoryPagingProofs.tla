------------------------- MODULE HistoryPagingProofs -------------------------
(* Theorems about HistoryPaging, for every value of its constants. *)
EXTENDS HistoryPaging, FiniteSetTheorems, TLAPS

-----------------------------------------------------------------------------
(* The order of the rows, and the rows a LIMIT leaves.                       *)

Keys == [at : 0..MaxClock, id : Id]

\* Rows and cursors are compared by an instant and an id.
Comparable(r) == r.at \in Int /\ r.id \in Int

\* No two rows have one id.
Distinct(entries) == \A r, s \in entries : r.id = s.id => r = s

LEMMA Order ==
    ASSUME NEW r, NEW s, NEW t, Comparable(r), Comparable(s), Comparable(t)
    PROVE  /\ ~Older(r, r)
           /\ ~(Older(r, s) /\ Older(s, r))
           /\ Older(r, s) /\ Older(s, t) => Older(r, t)
           /\ Older(r, s) /\ ~Older(t, s) => Older(r, t)
           /\ ~Older(s, r) /\ Older(s, t) => Older(r, t)
           /\ r.id # s.id => Older(r, s) \/ Older(s, r)
      BY DEF Older, Comparable

LEMMA EntriesCompare == \A r \in Entry \cup Keys : Comparable(r)
<1>1. \A i \in Id : i \in Int
      BY HistoryAssumption
<1>2. \A t \in 0..MaxClock : t \in Int
      BY HistoryAssumption
<1>. QED BY <1>1, <1>2 DEF Entry, Keys, Comparable

\* Of subsets of a finite set one is minimal.
LEMMA MinimalSet ==
    ASSUME NEW E, IsFiniteSet(E), NEW T, T \subseteq SUBSET E, T # {}
    PROVE  \E x \in T : \A y \in T : y \subseteq x => y = x
<1>1. IsWellFoundedOn(StrictSubsetOrdering(E), SUBSET E)
      BY FS_StrictSubsetOrderingWellFounded, FS_FiniteSubsetsOfFinite
<1>2. PICK x \in T : \A y \in T : <<y, x>> \notin StrictSubsetOrdering(E)
      BY <1>1, WFMin
<1>. QED BY <1>2 DEF StrictSubsetOrdering

\* Of finitely many rows one is the newest, and one is the oldest.
LEMMA Extremes ==
    ASSUME NEW E \in SUBSET Entry, IsFiniteSet(E), Distinct(E), E # {}
    PROVE  /\ \E r \in E : \A s \in E \ {r} : Older(r, s)
           /\ \E r \in E : \A s \in E \ {r} : Older(s, r)
<1>1. \A r \in E : Comparable(r)
      BY EntriesCompare
<1>2. ASSUME NEW r \in E, NEW s \in E, r # s PROVE Older(r, s) \/ Older(s, r)
      BY <1>1, <1>2, Order DEF Distinct
<1>3. \E r \in E : \A s \in E \ {r} : Older(r, s)
  <2>. DEFINE below(r) == {u \in E : Older(u, r)}
  <2>. DEFINE T == {below(r) : r \in E}
  <2>1. T \subseteq SUBSET E /\ T # {}
        OBVIOUS
  <2>2. \E x \in T : \A y \in T : y \subseteq x => y = x
    <3>. HIDE DEF T
    <3>. QED BY <2>1, MinimalSet
  <2>3. PICK x \in T : \A y \in T : y \subseteq x => y = x
        BY <2>2
  <2>4. PICK r \in E : x = below(r)
        BY <2>3
  <2>5. ASSUME NEW s \in E \ {r}, ~Older(r, s) PROVE FALSE
    <3>1. Older(s, r)
          BY <1>2, <2>5
    <3>2. below(s) \subseteq below(r)
          BY <1>1, <3>1, Order
    <3>3. s \in below(r) /\ s \notin below(s)
          BY <1>1, <3>1, Order
    <3>. QED BY <2>3, <2>4, <2>5, <3>2, <3>3
  <2>. QED BY <2>5
<1>4. \E r \in E : \A s \in E \ {r} : Older(s, r)
  <2>. DEFINE above(r) == {u \in E : Older(r, u)}
  <2>. DEFINE T == {above(r) : r \in E}
  <2>1. T \subseteq SUBSET E /\ T # {}
        OBVIOUS
  <2>2. \E x \in T : \A y \in T : y \subseteq x => y = x
    <3>. HIDE DEF T
    <3>. QED BY <2>1, MinimalSet
  <2>3. PICK x \in T : \A y \in T : y \subseteq x => y = x
        BY <2>2
  <2>4. PICK r \in E : x = above(r)
        BY <2>3
  <2>5. ASSUME NEW s \in E \ {r}, ~Older(s, r) PROVE FALSE
    <3>1. Older(r, s)
          BY <1>2, <2>5
    <3>2. above(s) \subseteq above(r)
          BY <1>1, <3>1, Order
    <3>3. s \in above(r) /\ s \notin above(s)
          BY <1>1, <3>1, Order
    <3>. QED BY <2>3, <2>4, <2>5, <3>2, <3>3
  <2>. QED BY <2>5
<1>. QED BY <1>3, <1>4

\* A part of a finite set with fewer than n members has fewer than n.
LEMMA FewerThan ==
    ASSUME NEW Y, IsFiniteSet(Y), NEW X, X \subseteq Y, NEW n \in Nat, Cardinality(Y) < n
    PROVE  Cardinality(X) < n
<1>1. Cardinality(X) \in Nat /\ Cardinality(Y) \in Nat /\ Cardinality(X) <= Cardinality(Y)
      BY FS_Subset, FS_CardinalityType
<1>. QED BY <1>1

\* A LIMIT that is not reached left nothing out.
LEMMA NewestAll ==
    ASSUME NEW E \in SUBSET Entry, IsFiniteSet(E), Distinct(E), NEW n \in Nat,
           Cardinality(Newest(E, n)) < n
    PROVE  Newest(E, n) = E
<1>. DEFINE D == E \ Newest(E, n)
<1>1. SUFFICES ASSUME D # {} PROVE FALSE
      BY DEF Newest
<1>2. D \in SUBSET Entry /\ IsFiniteSet(D) /\ Distinct(D)
      BY FS_Difference DEF Distinct
<1>3. PICK r \in D : \A s \in D \ {r} : Older(s, r)
      BY <1>1, <1>2, Extremes
<1>. DEFINE newer == {s \in E : Older(r, s)}
<1>4. newer \subseteq Newest(E, n)
  <2>1. ASSUME NEW s \in newer, s \in D PROVE FALSE
        BY <1>3, <2>1, EntriesCompare, Order
  <2>. QED BY <2>1
<1>5. IsFiniteSet(Newest(E, n))
      BY FS_Subset DEF Newest
<1>6. Cardinality(newer) < n
      BY <1>4, <1>5, FewerThan
<1>7. r \in Newest(E, n)
      BY <1>6 DEF Newest
<1>. QED BY <1>7

\* A read snapshot of the rows B: what its page and its cursor are.
LEMMA PageOf ==
    ASSUME NEW B \in SUBSET Entry, IsFiniteSet(B), Distinct(B),
           NEW fetched, fetched = Newest(B, PageSize + 1),
           NEW visible, visible = Newest(fetched, PageSize)
    PROVE  /\ visible \subseteq B
           /\ NextCursor(fetched) = None => visible = B
           /\ NextCursor(fetched) # None =>
                 /\ NextCursor(fetched) \in Keys
                 /\ \A r \in visible : ~Older(r, NextCursor(fetched))
                 /\ \A r \in B \ visible : Older(r, NextCursor(fetched))
                 /\ \E r \in visible : NextCursor(fetched) = [at |-> r.at, id |-> r.id]
<1>. DEFINE newerB(r) == {s \in B : Older(r, s)}
            newer(r) == {s \in fetched : Older(r, s)}
<1>1. /\ visible \subseteq fetched
      /\ fetched \subseteq B
      /\ PageSize \in Nat
      /\ PageSize # 0
      BY HistoryAssumption DEF Newest
<1>2. /\ IsFiniteSet(fetched)
      /\ Distinct(fetched)
      /\ Cardinality(fetched) \in Nat
      /\ IsFiniteSet(visible)
      /\ Distinct(visible)
      BY <1>1, FS_Subset, FS_CardinalityType DEF Distinct
<1>3. \A r \in B : Comparable(r)
      BY EntriesCompare
<1>4. \A r : IsFiniteSet(newerB(r)) /\ IsFiniteSet(newer(r))
      BY <1>2, FS_Subset
<1>5. CASE Cardinality(fetched) <= PageSize
  <2>1. NextCursor(fetched) = None
        BY <1>1, <1>2, <1>5 DEF NextCursor
  <2>2. fetched = B
        BY <1>1, <1>2, <1>5, NewestAll
  <2>3. ASSUME NEW r \in B PROVE r \in visible
    <3>1. newer(r) \subseteq fetched \ {r}
          BY <1>3, Order
    <3>2. /\ IsFiniteSet(fetched \ {r})
          /\ Cardinality(fetched \ {r}) = Cardinality(fetched) - 1
          BY <1>2, <2>2, FS_RemoveElement
    <3>3. Cardinality(fetched \ {r}) < PageSize
          BY <1>1, <1>2, <1>5, <3>2
    <3>4. Cardinality(newer(r)) < PageSize
      <4>. HIDE DEF newer
      <4>. QED BY <1>1, <3>1, <3>2, <3>3, FewerThan
    <3>. QED BY <2>2, <3>4 DEF Newest
  <2>. QED BY <1>1, <2>1, <2>3
<1>6. CASE Cardinality(fetched) > PageSize
  <2>. DEFINE last == CHOOSE r \in visible : \A s \in visible \ {r} : Older(r, s)
  <2>1. NextCursor(fetched) = [at |-> last.at, id |-> last.id]
        BY <1>6 DEF NextCursor
  <2>2. fetched # {}
        BY <1>1, <1>6, FS_EmptySet
  <2>3. PICK top \in fetched : \A s \in fetched \ {top} : Older(s, top)
        BY <1>1, <1>2, <2>2, Extremes
  <2>4. newer(top) = {}
        BY <1>1, <1>3, <2>3, Order
  <2>5. Cardinality(newer(top)) = 0
    <3>. HIDE DEF newer
    <3>. QED BY <2>4, FS_EmptySet
  <2>6. visible # {}
    <3>1. Cardinality({s \in fetched : Older(top, s)}) < PageSize
          BY <1>1, <2>5
    <3>2. top \in Newest(fetched, PageSize)
          BY <2>3, <3>1 DEF Newest
    <3>. QED BY <3>2
  <2>7. \E r \in visible : \A s \in visible \ {r} : Older(r, s)
        BY <1>1, <1>2, <2>6, Extremes
  <2>8. last \in visible /\ \A s \in visible \ {last} : Older(last, s)
        BY <2>7
  <2>. HIDE DEF last
  <2>9. last \in fetched /\ last \in B /\ last \in Entry
        BY <1>1, <2>8
  <2>10. NextCursor(fetched) \in Keys
         BY <2>1, <2>9 DEF Keys, Entry
  <2>11. NextCursor(fetched) # None
         BY <2>10, HistoryAssumption DEF Keys
  <2>12. \A r : Older(r, NextCursor(fetched)) <=> Older(r, last)
         BY <2>1 DEF Older
  <2>13. ASSUME NEW r \in visible PROVE ~Older(r, last)
         BY <1>1, <1>3, <2>8, <2>9, Order
  <2>14. ASSUME NEW r \in B \ visible PROVE Older(r, last)
    <3>1. SUFFICES ASSUME ~Older(r, last) PROVE FALSE
          OBVIOUS
    <3>2. r.id # last.id
          BY <2>8, <2>9, <2>14 DEF Distinct
    <3>3. Older(last, r)
          BY <1>3, <2>9, <3>1, <3>2, Order
    <3>4. newer(r) \subseteq newer(last) /\ newerB(r) \subseteq newerB(last)
          BY <1>1, <1>3, <2>9, <3>3, Order
    <3>5. Cardinality(newerB(last)) < PageSize + 1
          BY <2>9 DEF Newest
    <3>6. Cardinality(newerB(r)) < PageSize + 1
      <4>1. PageSize + 1 \in Nat
            BY <1>1
      <4>. HIDE DEF newerB
      <4>. QED BY <4>1, <1>4, <3>4, <3>5, FewerThan
    <3>7. r \in fetched
          BY <3>6 DEF Newest
    <3>8. Cardinality(newer(last)) < PageSize
          BY <2>8 DEF Newest
    <3>9. Cardinality(newer(r)) < PageSize
      <4>. HIDE DEF newer
      <4>. QED BY <1>1, <1>4, <3>4, <3>8, FewerThan
    <3>. QED BY <2>14, <3>7, <3>9 DEF Newest
  <2>. QED BY <1>1, <2>1, <2>8, <2>10, <2>11, <2>12, <2>13, <2>14
<1>7. Cardinality(fetched) <= PageSize \/ Cardinality(fetched) > PageSize
      BY <1>1, <1>2
<1>. QED BY <1>5, <1>6, <1>7

-----------------------------------------------------------------------------
(* The ledger: its rows, and the balance every row recorded.                 *)

LedgerOK ==
    /\ TypeOK
    /\ IsFiniteSet(ledger)
    /\ Distinct(ledger)

\* Entry e continues the balance of the newest of the rows before it.
Continues(e, rows) ==
    LET earlier == {r \in rows : Older(r, e)}
    IN  \/ earlier = {} /\ e.after = e.amount
        \/ \E r \in earlier :
              /\ \A s \in earlier \ {r} : Older(s, r)
              /\ e.after = r.after + e.amount

BalanceRecorded ==
    \/ ledger = {} /\ wallet = 0
    \/ \E r \in ledger : (\A s \in ledger \ {r} : Older(s, r)) /\ r.after = wallet

Chain == regular => BalanceRecorded /\ \A e \in ledger : Continues(e, ledger)

\* What the reader has seen is in the ledger.
SeenOK ==
    /\ page \subseteq ledger
    /\ shown \subseteq ledger
    /\ present \subseteq Ids(ledger)

\* The cursor lies below what was shown, and with it nothing that was there
\* when the reading began is missing.
ReadingOK ==
    /\ before # None => status = "available"
    /\ before # None => \A r \in shown \cup page : ~Older(r, before)
    /\ status = "available" =>
          \A r \in ledger : r.id \in present =>
              r \in shown \cup page \/ (before # None /\ Older(r, before))

IInv == LedgerOK /\ Chain /\ SeenOK /\ ReadingOK /\ PagesDescend

LEMMA Start == Init => IInv
<1>. SUFFICES ASSUME Init PROVE IInv
     OBVIOUS
<1>1. LedgerOK
  <2>1. TypeOK
    <3>1. clock \in 0..MaxClock /\ wallet \in Nat
          BY HistoryAssumption DEF Init
    <3>2. status \in {"none", "unjoined", "available"}
          BY DEF Init
    <3>. QED BY <3>1, <3>2 DEF Init, TypeOK
  <2>2. ledger = {} /\ IsFiniteSet({})
        BY FS_EmptySet DEF Init
  <2>. QED BY <2>1, <2>2 DEF LedgerOK, Distinct
<1>2. Chain /\ SeenOK /\ ReadingOK /\ PagesDescend
      BY DEF Init, Chain, BalanceRecorded, SeenOK, ReadingOK, PagesDescend, Ids
<1>. QED BY <1>1, <1>2 DEF IInv

\* A row that is newer than every other leaves their chain alone and continues it.
LEMMA ChainGrows ==
    ASSUME NEW L \in SUBSET Entry, NEW row \in Entry, NEW w \in Nat,
           row.after = w + row.amount,
           \A r \in L : Older(r, row),
           \A e \in L : Continues(e, L),
           \/ L = {} /\ w = 0
           \/ \E r \in L : (\A s \in L \ {r} : Older(s, r)) /\ r.after = w
    PROVE  \A e \in L \cup {row} : Continues(e, L \cup {row})
<1>1. /\ \A r \in L : Comparable(r)
      /\ Comparable(row)
      /\ row.amount \in Int
      BY EntriesCompare, HistoryAssumption DEF Entry
<1>2. ASSUME NEW e \in L PROVE Continues(e, L \cup {row})
  <2>1. {r \in L \cup {row} : Older(r, e)} = {r \in L : Older(r, e)}
        BY <1>1, Order
  <2>. QED BY <2>1 DEF Continues
<1>3. Continues(row, L \cup {row})
  <2>1. {r \in L \cup {row} : Older(r, row)} = L
        BY <1>1, Order
  <2>2. CASE L = {} /\ w = 0
        BY <1>1, <2>1, <2>2 DEF Continues
  <2>3. CASE \E r \in L : (\A s \in L \ {r} : Older(s, r)) /\ r.after = w
        BY <2>1, <2>3 DEF Continues
  <2>. QED BY <2>2, <2>3
<1>. QED BY <1>2, <1>3

LEMMA CommitStep ==
    ASSUME IInv, NEW id \in Id, NEW amount \in Amount, Commit(id, amount)
    PROVE  IInv'
<1>. DEFINE row == [id |-> id, at |-> clock, amount |-> amount, after |-> wallet + amount]
<1>1. /\ id \notin Ids(ledger)
      /\ wallet' = wallet + amount
      /\ ledger' = ledger \cup {row}
      /\ regular' = (regular /\ \A r \in ledger : Older(r, row))
      /\ UNCHANGED <<joined, clock, status, page, before, shown, present>>
      BY DEF Commit, readerVars
<1>2. row \in Entry /\ wallet' \in Nat
  <2>1. wallet \in Nat /\ clock \in 0..MaxClock /\ amount \in Int /\ wallet + amount >= 0
        BY HistoryAssumption DEF Commit, IInv, LedgerOK, TypeOK
  <2>. QED BY <1>1, <2>1 DEF Entry
<1>3. row.id = id /\ row.amount = amount /\ row.after = wallet + amount
      OBVIOUS
<1>. HIDE DEF row
<1>4. LedgerOK'
  <2>1. TypeOK'
    <3>1. regular' \in BOOLEAN
          BY <1>1
    <3>. QED BY <1>1, <1>2, <3>1 DEF IInv, LedgerOK, TypeOK
  <2>2. IsFiniteSet(ledger')
        BY <1>1, FS_AddElement DEF IInv, LedgerOK
  <2>3. Distinct(ledger')
        BY <1>1, <1>3 DEF IInv, LedgerOK, Distinct, Ids
  <2>. QED BY <2>1, <2>2, <2>3 DEF LedgerOK
<1>5. Chain'
  <2>. SUFFICES ASSUME regular' PROVE (BalanceRecorded /\ \A e \in ledger : Continues(e, ledger))'
       BY DEF Chain
  <2>1. regular /\ \A r \in ledger : Older(r, row)
        BY <1>1
  <2>2. BalanceRecorded'
        BY <1>1, <1>3, <2>1 DEF BalanceRecorded
  <2>3. \A e \in ledger \cup {row} : Continues(e, ledger \cup {row})
        BY <1>2, <1>3, <2>1, ChainGrows DEF IInv, LedgerOK, TypeOK, Chain, BalanceRecorded
  <2>. QED BY <1>1, <2>2, <2>3 DEF Continues
<1>6. SeenOK'
      BY <1>1 DEF IInv, SeenOK, Ids
<1>7. ReadingOK'
  <2>1. row.id \notin present
        BY <1>1, <1>3 DEF IInv, SeenOK
  <2>. QED BY <1>1, <2>1 DEF IInv, ReadingOK, Older
<1>8. PagesDescend'
      BY <1>1 DEF IInv, PagesDescend, Older
<1>. QED BY <1>4, <1>5, <1>6, <1>7, <1>8 DEF IInv

LEMMA QuietStep ==
    ASSUME IInv, Join \/ (\E step \in ClockSteps : Tick(step)) \/ UNCHANGED vars
    PROVE  IInv'
<1>1. UNCHANGED <<wallet, ledger, regular, readerVars>>
      BY DEF Join, Tick, vars, ledgerVars
<1>2. LedgerOK'
  <2>1. joined' \in BOOLEAN /\ clock' \in 0..MaxClock
        BY DEF IInv, LedgerOK, TypeOK, Join, Tick, vars, ledgerVars
  <2>. QED BY <1>1, <2>1 DEF IInv, LedgerOK, TypeOK, Distinct, readerVars
<1>3. Chain'
      BY <1>1 DEF IInv, Chain, BalanceRecorded, Continues, Older
<1>4. SeenOK' /\ ReadingOK' /\ PagesDescend'
      BY <1>1 DEF IInv, SeenOK, ReadingOK, PagesDescend, readerVars, Ids, Older
<1>. QED BY <1>2, <1>3, <1>4 DEF IInv

\* A page and the reader's invariants after it, for either command.
LEMMA ReadStep ==
    ASSUME IInv, NEW cursor \in Keys \cup {None}, Read(cursor)
    PROVE  /\ page' \subseteq Below(cursor)
           /\ Below(cursor) \subseteq ledger
           /\ status' = "available"
           /\ before' \in Keys \cup {None}
           /\ before' = None => page' = Below(cursor)
           /\ before' # None =>
                 /\ \A r \in page' : ~Older(r, before')
                 /\ \A r \in Below(cursor) \ page' : Older(r, before')
                 /\ \E r \in page' : before' = [at |-> r.at, id |-> r.id]
<1>. DEFINE B == Below(cursor)
            fetched == Newest(B, PageSize + 1)
            visible == Newest(fetched, PageSize)
<1>1. /\ B \subseteq ledger
      /\ B \in SUBSET Entry
      /\ IsFiniteSet(B)
      /\ Distinct(B)
      BY FS_Subset DEF IInv, LedgerOK, TypeOK, Distinct, Below
<1>2. /\ page' = visible
      /\ before' = NextCursor(fetched)
      /\ status' = "available"
      BY DEF Read, AsShown
<1>. HIDE DEF B
<1>3. /\ visible \subseteq B
      /\ NextCursor(fetched) = None => visible = B
      /\ NextCursor(fetched) # None =>
            /\ NextCursor(fetched) \in Keys
            /\ \A r \in visible : ~Older(r, NextCursor(fetched))
            /\ \A r \in B \ visible : Older(r, NextCursor(fetched))
            /\ \E r \in visible : NextCursor(fetched) = [at |-> r.at, id |-> r.id]
      BY <1>1, PageOf
<1>. HIDE DEF fetched, visible
<1>. QED BY <1>1, <1>2, <1>3 DEF B

LEMMA OpenStep == ASSUME IInv, Open PROVE IInv'
<1>1. /\ UNCHANGED <<joined, wallet, ledger, clock, regular>>
      /\ shown' = {}
      /\ present' = Ids(ledger)
      BY DEF Open, ledgerVars
<1>2. Chain'
      BY <1>1 DEF IInv, Chain, BalanceRecorded, Continues, Older
<1>3. PagesDescend'
      BY <1>1 DEF PagesDescend
<1>4. CASE Read(None)
  <2>1. Below(None) = ledger
        BY DEF Below
  <2>2. /\ page' \subseteq ledger
        /\ status' = "available"
        /\ before' \in Keys \cup {None}
        /\ before' = None => page' = ledger
        /\ before' # None =>
              /\ \A r \in page' : ~Older(r, before')
              /\ \A r \in ledger \ page' : Older(r, before')
        BY <1>4, <2>1, ReadStep
  <2>3. LedgerOK'
        BY <1>1, <2>2 DEF IInv, LedgerOK, TypeOK, Distinct, Keys, Ids, Entry
  <2>4. SeenOK'
        BY <1>1, <2>2 DEF SeenOK, Ids
  <2>5. ReadingOK'
        BY <1>1, <2>2 DEF ReadingOK, Older
  <2>. QED BY <1>2, <1>3, <2>3, <2>4, <2>5 DEF IInv
<1>5. CASE status' = "unjoined" /\ page' = {} /\ before' = None
  <2>1. LedgerOK'
        BY <1>1, <1>5 DEF IInv, LedgerOK, TypeOK, Distinct, Ids, Entry
  <2>2. SeenOK' /\ ReadingOK'
        BY <1>1, <1>5 DEF SeenOK, ReadingOK, Ids
  <2>. QED BY <1>2, <1>3, <2>1, <2>2 DEF IInv
<1>. QED BY <1>4, <1>5 DEF Open

LEMMA FollowStep == ASSUME IInv, Follow PROVE IInv'
<1>1. /\ UNCHANGED <<joined, wallet, ledger, clock, regular, present>>
      /\ shown' = shown \cup page
      /\ before # None
      /\ Read(before)
      BY DEF Follow, ledgerVars
<1>2. before \in Keys
      BY <1>1 DEF IInv, LedgerOK, TypeOK, Keys
<1>. DEFINE B == Below(before)
<1>3. /\ page' \subseteq B
      /\ B \subseteq ledger
      /\ status' = "available"
      /\ before' \in Keys \cup {None}
      /\ before' = None => page' = B
      /\ before' # None =>
            /\ \A r \in page' : ~Older(r, before')
            /\ \A r \in B \ page' : Older(r, before')
            /\ \E r \in page' : before' = [at |-> r.at, id |-> r.id]
      BY <1>1, <1>2, ReadStep
<1>4. \A r : r \in B <=> r \in ledger /\ Older(r, before)
      BY <1>1 DEF Below
<1>. HIDE DEF B
<1>5. /\ \A r \in ledger : Comparable(r)
      /\ Comparable(before)
      BY <1>2, EntriesCompare DEF IInv, LedgerOK, TypeOK
<1>6. Chain'
      BY <1>1 DEF IInv, Chain, BalanceRecorded, Continues, Older
<1>7. LedgerOK'
      BY <1>1, <1>3 DEF IInv, LedgerOK, TypeOK, Distinct, Keys
<1>8. SeenOK'
      BY <1>1, <1>3 DEF IInv, SeenOK, Ids
<1>9. PagesDescend'
  <2>1. ASSUME NEW r \in page', NEW s \in shown' PROVE Older(r, s)
    <3>1. r \in ledger /\ Older(r, before)
          BY <1>3, <1>4, <2>1
    <3>2. s \in ledger /\ ~Older(s, before)
          BY <1>1, <2>1 DEF IInv, SeenOK, ReadingOK
    <3>. QED BY <1>5, <3>1, <3>2, Order
  <2>. QED BY <2>1 DEF PagesDescend, Older
<1>10. ReadingOK'
  <2>1. ASSUME before' # None, NEW r \in shown' PROVE ~Older(r, before')
    <3>1. r \in ledger /\ ~Older(r, before)
          BY <1>1, <2>1 DEF IInv, SeenOK, ReadingOK
    <3>2. PICK last \in page' : before' = [at |-> last.at, id |-> last.id]
          BY <1>3, <2>1
    <3>3. last \in ledger /\ Older(last, before)
          BY <1>3, <1>4, <3>2
    <3>4. Older(last, r)
          BY <1>5, <3>1, <3>3, Order
    <3>5. ~Older(r, last)
          BY <1>5, <3>1, <3>3, <3>4, Order
    <3>. QED BY <3>2, <3>5 DEF Older
  <2>2. ASSUME NEW r \in ledger, r.id \in present
        PROVE  r \in shown' \cup page' \/ (before' # None /\ Older(r, before'))
    <3>1. r \in shown \cup page \/ Older(r, before)
          BY <1>1, <2>2 DEF IInv, ReadingOK
    <3>. QED BY <1>1, <1>3, <1>4, <2>2, <3>1
  <2>3. before' # None => \A r \in shown' \cup page' : ~Older(r, before')
        BY <1>3, <2>1
  <2>. QED BY <1>1, <1>3, <2>2, <2>3 DEF ReadingOK, Older
<1>. QED BY <1>6, <1>7, <1>8, <1>9, <1>10 DEF IInv

LEMMA Inductive == ASSUME IInv, [Next]_vars PROVE IInv'
<1>1. CASE \E id \in Id, amount \in Amount : Commit(id, amount)
      BY <1>1, CommitStep
<1>2. CASE Join \/ (\E step \in ClockSteps : Tick(step)) \/ UNCHANGED vars
      BY <1>2, QuietStep
<1>3. CASE Open
      BY <1>3, OpenStep
<1>4. CASE Follow
      BY <1>4, FollowStep
<1>. QED BY <1>1, <1>2, <1>3, <1>4 DEF Next, Write

LEMMA Invariance == Spec => []IInv
<1>1. Init => IInv
      BY Start
<1>2. IInv /\ [Next]_vars => IInv'
      BY Inductive
<1>. QED BY <1>1, <1>2, PTL DEF Spec

-----------------------------------------------------------------------------
\* Every variable stays in its range (models.py, history.py).
THEOREM Types == Spec => []TypeOK
<1>1. IInv => TypeOK
      BY DEF IInv, LedgerOK
<1>. QED BY <1>1, Invariance, PTL

\* A reading that came to its end has shown every transaction there was when
\* it began, for any page size and whatever commits between two pages.
THEOREM Nothing == Spec => []NothingLost
<1>1. ASSUME IInv, status = "available", before = None, NEW id \in present
      PROVE  id \in Ids(shown \cup page)
  <2>1. PICK r \in ledger : r.id = id
        BY <1>1 DEF IInv, SeenOK, Ids
  <2>2. r \in shown \cup page
        BY <1>1, <2>1 DEF IInv, ReadingOK
  <2>. QED BY <2>1, <2>2 DEF Ids
<1>2. IInv => NothingLost
      BY <1>1 DEF NothingLost
<1>. QED BY <1>2, Invariance, PTL

\* No page repeats an entry or shows one out of order.
THEOREM Descend == Spec => []PagesDescend
<1>1. IInv => PagesDescend
      BY DEF IInv
<1>. QED BY <1>1, Invariance, PTL

\* While the clock keeps the order of the commits, the recorded balances of the
\* entries shown form one chain.
THEOREM AddsUp == Spec => []StatementAddsUp
<1>1. ASSUME IInv, regular, NEW e \in shown \cup page PROVE Continues(e, ledger)
      BY <1>1 DEF IInv, Chain, SeenOK
<1>2. IInv => StatementAddsUp
      BY <1>1 DEF StatementAddsUp, Continues
<1>. QED BY <1>2, Invariance, PTL
=============================================================================
