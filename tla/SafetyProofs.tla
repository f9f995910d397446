---------------------------- MODULE SafetyProofs ----------------------------
(* Theorems about Safety, for every value of its constants. *)
EXTENDS Safety, FiniteSetTheorems, TLAPS

-----------------------------------------------------------------------------
(* Sums.  SumFunction is a fold over the domain, and a fold a recursive       *)
(* function on its parts.  An induction over parts of a finite set is made by *)
(* choosing a least part for which the claim fails.                           *)

\* Of subsets of a finite set one is minimal.
LEMMA MinimalSet ==
    ASSUME NEW E, IsFiniteSet(E), NEW T, T \subseteq SUBSET E, T # {}
    PROVE  \E x \in T : \A y \in T : y \subseteq x => y = x
<1>1. IsWellFoundedOn(StrictSubsetOrdering(E), SUBSET E)
      BY FS_StrictSubsetOrderingWellFounded, FS_FiniteSubsetsOfFinite
<1>2. PICK x \in T : \A y \in T : <<y, x>> \notin StrictSubsetOrdering(E)
      BY <1>1, WFMin
<1>. QED BY <1>2 DEF StrictSubsetOrdering

\* An element of s, the one a fold takes first.
First(s) == CHOOSE x \in s : TRUE

\* g holds the partial sums of f over the parts of S.
Computes(g, f, S) ==
    g = [s \in SUBSET S |-> IF s = {} THEN 0 ELSE f[First(s)] + g[s \ {First(s)}]]

LEMMA SumIsFold ==
    ASSUME NEW f
    PROVE  SumFunction(f) = (CHOOSE g : Computes(g, f, DOMAIN f))[DOMAIN f]
BY DEF SumFunction, SumFunctionOnSet, FoldFunctionOnSet, MapThenFoldSet, Computes, First

LEMMA FirstIn == \A s : s # {} => First(s) \in s
BY DEF First

LEMMA Agreement ==
    ASSUME NEW S, IsFiniteSet(S), NEW A, NEW B, S \subseteq A, S \subseteq B, 
           NEW f, NEW e, \A x \in S : f[x] = e[x],
           NEW g, NEW h, Computes(g, f, A), Computes(h, e, B)
    PROVE  \A s \in SUBSET S : g[s] = h[s]
<1>. DEFINE T == {s \in SUBSET S : g[s] # h[s]}
<1>1. SUFFICES ASSUME T # {} PROVE FALSE
      OBVIOUS
<1>2. T \subseteq SUBSET S
      OBVIOUS
<1>3. \E s \in T : \A u \in T : u \subseteq s => u = s
  <2>. HIDE DEF T
  <2>. QED BY <1>1, <1>2, MinimalSet
<1>4. PICK s \in T : \A u \in T : u \subseteq s => u = s
      BY <1>3
<1>5. s \in SUBSET A /\ s \in SUBSET B
      OBVIOUS
<1>6. /\ g[s] = IF s = {} THEN 0 ELSE f[First(s)] + g[s \ {First(s)}]
      /\ h[s] = IF s = {} THEN 0 ELSE e[First(s)] + h[s \ {First(s)}]
      BY <1>5 DEF Computes
<1>7. s # {} /\ First(s) \in s
      BY <1>6, FirstIn
<1>8. s \ {First(s)} \notin T
      BY <1>4, <1>7
<1>9. g[s \ {First(s)}] = h[s \ {First(s)}]
      BY <1>8
<1>. QED BY <1>6, <1>7, <1>9

\* A fold over a finite set is well defined.
LEMMA Computable ==
    ASSUME NEW f, NEW S, IsFiniteSet(S)
    PROVE  \E g : Computes(g, f, S)
<1>. DEFINE T == {s \in SUBSET S : ~ \E g : Computes(g, f, s)}
<1>1. SUFFICES ASSUME T # {} PROVE FALSE
      OBVIOUS
<1>2. T \subseteq SUBSET S
      OBVIOUS
<1>3. \E s \in T : \A u \in T : u \subseteq s => u = s
  <2>. HIDE DEF T
  <2>. QED BY <1>1, <1>2, MinimalSet
<1>4. PICK s \in T : \A u \in T : u \subseteq s => u = s
      BY <1>3
<1>. DEFINE part(x) == CHOOSE g : Computes(g, f, s \ {x})
<1>5. ASSUME NEW x \in s PROVE Computes(part(x), f, s \ {x})
  <2>1. s \ {x} \in SUBSET S /\ s \ {x} \notin T
        BY <1>4, <1>5
  <2>. QED BY <2>1
<1>. DEFINE G == [u \in SUBSET s |-> IF u = {} THEN 0 ELSE f[First(u)] + part(First(u))[u \ {First(u)}]]
<1>. HIDE DEF part
<1>6. ASSUME NEW u \in SUBSET s, u # {}
      PROVE  G[u \ {First(u)}] = part(First(u))[u \ {First(u)}]
  <2>. DEFINE x == First(u)
              v == u \ {x}
  <2>1. x \in s /\ v \in SUBSET (s \ {x})
        BY <1>6, FirstIn
  <2>2. part(x)[v] = IF v = {} THEN 0 ELSE f[First(v)] + part(x)[v \ {First(v)}]
        BY <1>5, <2>1 DEF Computes
  <2>3. G[v] = IF v = {} THEN 0 ELSE f[First(v)] + part(First(v))[v \ {First(v)}]
        OBVIOUS
  <2>4. CASE v # {}
    <3>. DEFINE y == First(v)
                w == v \ {y}
    <3>1. /\ y \in s
          /\ w \subseteq s \ {x}
          /\ w \subseteq s \ {y}
          BY <2>1, <2>4, FirstIn
    <3>2. IsFiniteSet(w)
          BY FS_Subset
    <3>3. Computes(part(x), f, s \ {x}) /\ Computes(part(y), f, s \ {y})
          BY <1>5, <2>1, <3>1
    <3>. HIDE DEF w, y
    <3>4. part(x)[w] = part(y)[w]
          BY <3>1, <3>2, <3>3, Agreement
    <3>. QED BY <2>2, <2>3, <2>4, <3>4 DEF w, y
  <2>. QED BY <2>2, <2>3, <2>4
<1>7. Computes(G, f, s)
      BY <1>6 DEF Computes
<1>. QED BY <1>4, <1>7

\* What is known of the partial sums of an integer function, whichever element
\* is taken first.
LEMMA PartialSums ==
    ASSUME NEW S, IsFiniteSet(S), NEW f, \A x \in S : f[x] \in Int,
           NEW g, Computes(g, f, S)
    PROVE  /\ g[{}] = 0
           /\ \A s \in SUBSET S : /\ g[s] \in Int
                                  /\ \A x \in s : g[s] = f[x] + g[s \ {x}]
<1>. DEFINE T == {s \in SUBSET S : ~ (g[s] \in Int /\ \A x \in s : g[s] = f[x] + g[s \ {x}])}
<1>1. g[{}] = 0
      BY DEF Computes
<1>2. SUFFICES ASSUME T # {} PROVE FALSE
      BY <1>1
<1>3. T \subseteq SUBSET S
      OBVIOUS
<1>4. \E s \in T : \A u \in T : u \subseteq s => u = s
  <2>. HIDE DEF T
  <2>. QED BY <1>2, <1>3, MinimalSet
<1>5. PICK s \in T : \A u \in T : u \subseteq s => u = s
      BY <1>4
<1>6. s # {}
      BY <1>1, <1>5
<1>. DEFINE y == First(s)
<1>7. y \in s /\ f[y] \in Int
      BY <1>5, <1>6, FirstIn
<1>8. g[s] = f[y] + g[s \ {y}]
      BY <1>5, <1>6 DEF Computes
<1>. HIDE DEF y
<1>9. \A u \in SUBSET s : u # s => u \in SUBSET S /\ u \notin T
      BY <1>5
<1>10. \A x \in s : g[s \ {x}] \in Int /\ \A z \in s \ {x} : g[s \ {x}] = f[z] + g[(s \ {x}) \ {z}]
       BY <1>9
<1>11. ASSUME NEW x \in s PROVE g[s] = f[x] + g[s \ {x}]
  <2>1. CASE x = y
        BY <2>1, <1>8
  <2>2. CASE x # y
    <3>. DEFINE r == g[(s \ {x}) \ {y}]
    <3>1. (s \ {y}) \ {x} = (s \ {x}) \ {y}
          OBVIOUS
    <3>2. g[s \ {y}] = f[x] + r
      <4>1. x \in s \ {y}
            BY <2>2
      <4>2. g[s \ {y}] = f[x] + g[(s \ {y}) \ {x}]
            BY <4>1, <1>7, <1>10
      <4>. QED BY <3>1, <4>2
    <3>3. g[s \ {x}] = f[y] + r
          BY <2>2, <1>7, <1>10
    <3>4. f[x] \in Int /\ r \in Int
      <4>1. (s \ {x}) \ {y} \notin T /\ (s \ {x}) \ {y} \in SUBSET S
            BY <1>7, <1>9
      <4>. QED BY <4>1, <1>5
    <3>. HIDE DEF r
    <3>. QED BY <1>7, <1>8, <3>2, <3>3, <3>4
  <2>. QED BY <2>1, <2>2
<1>12. g[s] \in Int
       BY <1>7, <1>8, <1>10
<1>. QED BY <1>5, <1>11, <1>12

\* The partial sums are the sums of the parts.
LEMMA SumsOfParts ==
    ASSUME NEW S, IsFiniteSet(S), NEW f
    PROVE  \E g : /\ Computes(g, f, S)
                  /\ \A s \in SUBSET S : SumFunction(Restrict(f, s)) = g[s]
<1>1. PICK g : Computes(g, f, S)
      BY Computable
<1>2. ASSUME NEW s \in SUBSET S PROVE SumFunction(Restrict(f, s)) = g[s]
  <2>1. IsFiniteSet(s) /\ DOMAIN Restrict(f, s) = s
        BY FS_Subset DEF Restrict
  <2>. DEFINE h == CHOOSE h : Computes(h, Restrict(f, s), s)
  <2>2. Computes(h, Restrict(f, s), s)
        BY <2>1, Computable
  <2>3. SumFunction(Restrict(f, s)) = h[s]
        BY <2>1, SumIsFold
  <2>. HIDE DEF h
  <2>4. \A x \in s : f[x] = Restrict(f, s)[x]
        BY DEF Restrict
  <2>5. g[s] = h[s]
        BY <1>1, <2>1, <2>2, <2>4, Agreement
  <2>. QED BY <2>3, <2>5
<1>. QED BY <1>1, <1>2

LEMMA SumEmpty == ASSUME NEW f, DOMAIN f = {} PROVE SumFunction(f) = 0
<1>1. PICK g : Computes(g, f, {})
      BY Computable, FS_EmptySet
<1>2. Computes(CHOOSE h : Computes(h, f, {}), f, {})
      BY <1>1
<1>. DEFINE h == CHOOSE h : Computes(h, f, {})
<1>3. SumFunction(f) = h[{}]
      BY SumIsFold
<1>. HIDE DEF h
<1>4. Computes(h, f, {})
      BY <1>2 DEF h
<1>. QED BY <1>3, <1>4 DEF Computes

\* A sum is an integer, and one element may be taken out of it.
LEMMA SumSplit ==
    ASSUME NEW S, IsFiniteSet(S), NEW f \in [S -> Int]
    PROVE  /\ SumFunction(f) \in Int
           /\ \A x \in S : SumFunction(f) = f[x] + SumFunction(Restrict(f, S \ {x}))
<1>1. PICK g : /\ Computes(g, f, S)
               /\ \A s \in SUBSET S : SumFunction(Restrict(f, s)) = g[s]
      BY SumsOfParts
<1>2. Restrict(f, S) = f
      BY DEF Restrict
<1>3. SumFunction(f) = g[S]
      BY <1>1, <1>2
<1>4. /\ g[S] \in Int
      /\ \A x \in S : g[S] = f[x] + g[S \ {x}]
      BY <1>1, PartialSums
<1>. QED BY <1>1, <1>3, <1>4

\* Nothing but zeros adds up to zero.
LEMMA SumZero ==
    ASSUME NEW S, IsFiniteSet(S), NEW f \in [S -> Int], \A x \in S : f[x] = 0
    PROVE  SumFunction(f) = 0
<1>. DEFINE T == {s \in SUBSET S : SumFunction(Restrict(f, s)) # 0}
<1>1. T = {}
  <2>1. SUFFICES ASSUME T # {} PROVE FALSE
        OBVIOUS
  <2>2. T \subseteq SUBSET S
        OBVIOUS
  <2>3. \E s \in T : \A u \in T : u \subseteq s => u = s
    <3>. HIDE DEF T
    <3>. QED BY <2>1, <2>2, MinimalSet
  <2>4. PICK s \in T : \A u \in T : u \subseteq s => u = s
        BY <2>3
  <2>5. s # {}
    <3>1. DOMAIN Restrict(f, s) = s
          BY DEF Restrict
    <3>. QED BY <2>4, <3>1, SumEmpty
  <2>6. PICK x \in s : TRUE
        BY <2>5
  <2>7. s \ {x} \notin T /\ s \ {x} \in SUBSET S
        BY <2>4
  <2>8. IsFiniteSet(s) /\ Restrict(f, s) \in [s -> Int]
        BY FS_Subset DEF Restrict
  <2>9. Restrict(Restrict(f, s), s \ {x}) = Restrict(f, s \ {x}) /\ Restrict(f, s)[x] = 0
        BY DEF Restrict
  <2>10. SumFunction(Restrict(f, s)) = 0 + 0
         BY <2>7, <2>8, <2>9, SumSplit
  <2>. QED BY <2>4, <2>10
<1>2. f = Restrict(f, S)
      BY DEF Restrict
<1>. QED BY <1>1, <1>2

\* One element more.
LEMMA SumAdd ==
    ASSUME NEW S, IsFiniteSet(S), NEW y, y \notin S, NEW f \in [S \cup {y} -> Int]
    PROVE  SumFunction(f) = f[y] + SumFunction(Restrict(f, S))
<1>1. IsFiniteSet(S \cup {y}) /\ (S \cup {y}) \ {y} = S
      BY FS_AddElement
<1>. QED BY <1>1, SumSplit

\* Of naturals a part has no greater sum.
LEMMA SumMonotone ==
    ASSUME NEW S, IsFiniteSet(S), NEW f \in [S -> Nat], NEW s \in SUBSET S
    PROVE  /\ SumFunction(Restrict(f, s)) \in Nat
           /\ SumFunction(Restrict(f, s)) <= SumFunction(f)
<1>1. f \in [S -> Int] /\ \A u \in SUBSET S : IsFiniteSet(u) /\ Restrict(f, u) \in [u -> Int]
      BY FS_Subset DEF Restrict
<1>2. ASSUME NEW u \in SUBSET S, NEW x \in u
      PROVE  SumFunction(Restrict(f, u)) = f[x] + SumFunction(Restrict(f, u \ {x}))
  <2>1. SumFunction(Restrict(f, u)) = Restrict(f, u)[x] + SumFunction(Restrict(Restrict(f, u), u \ {x}))
        BY <1>1, SumSplit
  <2>2. Restrict(Restrict(f, u), u \ {x}) = Restrict(f, u \ {x}) /\ Restrict(f, u)[x] = f[x]
        BY DEF Restrict
  <2>. QED BY <2>1, <2>2
<1>3. \A u \in SUBSET S : SumFunction(Restrict(f, u)) \in Int
      BY <1>1, SumSplit
<1>4. \A u \in SUBSET S : SumFunction(Restrict(f, u)) \in Nat
  <2>. DEFINE T == {u \in SUBSET S : SumFunction(Restrict(f, u)) \notin Nat}
  <2>1. SUFFICES ASSUME T # {} PROVE FALSE
        OBVIOUS
  <2>2. T \subseteq SUBSET S
        OBVIOUS
  <2>3. \E u \in T : \A v \in T : v \subseteq u => v = u
    <3>. HIDE DEF T
    <3>. QED BY <2>1, <2>2, MinimalSet
  <2>4. PICK u \in T : \A v \in T : v \subseteq u => v = u
        BY <2>3
  <2>5. CASE u = {}
    <3>1. DOMAIN Restrict(f, u) = {}
          BY <2>5 DEF Restrict
    <3>. QED BY <2>4, <3>1, SumEmpty
  <2>6. ASSUME NEW x \in u PROVE FALSE
    <3>1. u \ {x} \in SUBSET S /\ u \ {x} \notin T
          BY <2>4, <2>6
    <3>2. SumFunction(Restrict(f, u \ {x})) \in Nat /\ f[x] \in Nat
          BY <3>1
    <3>3. SumFunction(Restrict(f, u)) \in Nat
          BY <1>2, <3>2
    <3>. QED BY <3>3
  <2>. QED BY <2>5, <2>6
<1>5. SumFunction(Restrict(f, s)) <= SumFunction(Restrict(f, S))
  <2>. DEFINE T == {u \in SUBSET S : s \subseteq u /\ ~(SumFunction(Restrict(f, s)) <= SumFunction(Restrict(f, u)))}
  <2>1. SUFFICES ASSUME T # {} PROVE FALSE
        OBVIOUS
  <2>2. T \subseteq SUBSET S
        OBVIOUS
  <2>3. \E u \in T : \A v \in T : v \subseteq u => v = u
    <3>. HIDE DEF T
    <3>. QED BY <2>1, <2>2, MinimalSet
  <2>4. PICK u \in T : \A v \in T : v \subseteq u => v = u
        BY <2>3
  <2>5. CASE u = s
        BY <2>4, <2>5, <1>3
  <2>6. ASSUME NEW x \in u \ s PROVE FALSE
    <3>1. u \ {x} \in SUBSET S /\ u \ {x} \notin T /\ s \subseteq u \ {x}
          BY <2>4, <2>6
    <3>2. SumFunction(Restrict(f, s)) <= SumFunction(Restrict(f, u \ {x}))
          BY <3>1
    <3>3. SumFunction(Restrict(f, u)) = f[x] + SumFunction(Restrict(f, u \ {x})) /\ f[x] \in Nat
          BY <1>2
    <3>4. SumFunction(Restrict(f, s)) <= SumFunction(Restrict(f, u))
          BY <1>3, <3>1, <3>2, <3>3
    <3>. QED BY <3>4
  <2>. QED BY <2>5, <2>6
<1>6. Restrict(f, S) = f
      BY DEF Restrict
<1>. QED BY <1>4, <1>5, <1>6

\* Adding a constant to the elements of a part adds it as often as there are any.
LEMMA SumRaised ==
    ASSUME NEW S, IsFiniteSet(S), NEW f \in [S -> Int], NEW a \in Int, NEW s \in SUBSET S
    PROVE  SumFunction([x \in S |-> f[x] + IF x \in s THEN a ELSE 0])
           = SumFunction(f) + a * Cardinality(s)
<1>. DEFINE up(u) == [x \in S |-> f[x] + IF x \in u THEN a ELSE 0]
            T == {u \in SUBSET S : SumFunction(up(u)) # SumFunction(f) + a * Cardinality(u)}
<1>1. SUFFICES ASSUME T # {} PROVE FALSE
      OBVIOUS
<1>2. T \subseteq SUBSET S
      OBVIOUS
<1>3. \E u \in T : \A v \in T : v \subseteq u => v = u
  <2>. HIDE DEF T
  <2>. QED BY <1>1, <1>2, MinimalSet
<1>4. PICK u \in T : \A v \in T : v \subseteq u => v = u
      BY <1>3
<1>5. SumFunction(f) \in Int
      BY SumSplit
<1>6. CASE u = {}
  <2>1. up(u) = f
        BY <1>6
  <2>2. Cardinality(u) = 0
        BY <1>6, FS_EmptySet
  <2>. HIDE DEF up
  <2>3. SumFunction(up(u)) = SumFunction(f) + a * Cardinality(u)
        BY <1>5, <2>1, <2>2
  <2>. QED BY <1>4, <2>3
<1>7. ASSUME NEW x \in u PROVE FALSE
  <2>. DEFINE v == u \ {x}
  <2>1. v \in SUBSET S /\ v \notin T
        BY <1>4, <1>7
  <2>2. IsFiniteSet(u) /\ Cardinality(u) \in Nat /\ Cardinality(v) = Cardinality(u) - 1
        BY FS_Subset, FS_RemoveElement, FS_CardinalityType
  <2>3. up(u) \in [S -> Int] /\ up(v) \in [S -> Int]
        OBVIOUS
  <2>4. Restrict(up(u), S \ {x}) = Restrict(up(v), S \ {x})
        BY DEF Restrict
  <2>5. up(u)[x] = f[x] + a /\ up(v)[x] = f[x] /\ x \in S /\ f[x] \in Int
        OBVIOUS
  <2>6. SumFunction(up(v)) = SumFunction(f) + a * Cardinality(v)
        BY <2>1
  <2>. HIDE DEF up, v
  <2>. DEFINE rest == SumFunction(Restrict(up(v), S \ {x}))
  <2>7. SumFunction(up(u)) = f[x] + a + rest
        BY <2>3, <2>4, <2>5, SumSplit
  <2>8. SumFunction(up(v)) = f[x] + rest
        BY <2>3, <2>5, SumSplit
  <2>9. rest \in Int
    <3>1. Restrict(up(v), S \ {x}) \in [S \ {x} -> Int] /\ IsFiniteSet(S \ {x})
          BY <2>3, FS_RemoveElement DEF Restrict
    <3>. QED BY <3>1, SumSplit
  <2>. HIDE DEF rest
  <2>10. a * Cardinality(u) = a * Cardinality(v) + a /\ a * Cardinality(v) \in Int
    <3>1. \A n \in Int : a * (n + 1) = a * n + a /\ a * n \in Int
          OBVIOUS
    <3>2. Cardinality(v) \in Int /\ Cardinality(u) = Cardinality(v) + 1
          BY <2>2
    <3>. QED BY <3>1, <3>2
  <2>11. SumFunction(up(u)) = SumFunction(f) + a * Cardinality(u)
         BY <1>5, <2>5, <2>6, <2>7, <2>8, <2>9, <2>10
  <2>. QED BY <1>4, <2>11 DEF up
<1>. QED BY <1>6, <1>7

-----------------------------------------------------------------------------
(* Types *)

LEMMA TotalType ==
    ASSUME NEW r \in Proposal
    PROVE  Total(r) \in Nat
<1>1. IsFiniteSet(r.targets)
  <2>1. r.targets \in SUBSET Target \/ r.targets = {Global}
        BY DEF Proposal
  <2>. QED BY <2>1, TargetAssumption, FS_Subset, FS_Singleton
<1>2. Cardinality(r.targets) \in Nat /\ r.amount \in Nat
      BY <1>1, FS_CardinalityType DEF Proposal
<1>. QED BY <1>2 DEF Total

\* A settled proposal is a proposal, and restricts or releases what it names.
LEMMA FinishTypes ==
    ASSUME TypeOK, NEW p \in ProposalId, NEW r \in Proposal,
           NEW approver \in Operator \cup {NoOperator}, Finish(p, r, approver)
    PROVE  /\ proposals' \in [ProposalId -> Proposal \cup {NoProposal}]
           /\ frozen' \in SUBSET (Target \cup {Global})
<1>1. [r EXCEPT !.status = IF r.operation = "grant" THEN "approved" ELSE "applied",
                !.approver = approver] \in Proposal
      BY DEF Proposal
<1>2. r.targets \subseteq Target \cup {Global}
      BY DEF Proposal
<1>. QED BY <1>1, <1>2 DEF Finish, TypeOK

\* The row a request writes is a proposal.
LEMMA ProposedType ==
    ASSUME TypeOK, NEW o \in Operator, NEW a \in GrantArguments \cup RestrictionArguments,
           NEW now \in Arrivals
    PROVE  [actor |-> o, operation |-> a[1], targets |-> a[2], amount |-> a[3],
            created |-> now, expires |-> now + Day,
            requires |-> NeedsApproval(a[2], a[3] * Cardinality(a[2])),
            status |-> "pending", approver |-> NoOperator] \in Proposal
<1>1. /\ a[1] \in {"freeze", "release", "grant"}
      /\ a[2] \in (SUBSET Target) \cup {{Global}}
      /\ a[3] \in Nat
  <2>1. CASE a \in GrantArguments
        BY <2>1, AmountAssumption DEF GrantArguments
  <2>2. CASE a \in RestrictionArguments
        BY <2>2 DEF RestrictionArguments
  <2>. QED BY <2>1, <2>2
<1>2. now \in Nat /\ now + Day \in Nat
      BY TimeAssumption DEF Arrivals, TypeOK
<1>. QED BY <1>1, <1>2 DEF Proposal, NeedsApproval

LEMMA ProposeTypes ==
    ASSUME TypeOK, NEW o \in Operator, NEW p \in ProposalId,
           NEW a \in GrantArguments \cup RestrictionArguments,
           Propose(o, p, a[1], a[2], a[3])
    PROVE  TypeOK'
<1>. DEFINE Row(now) ==
              [actor |-> o, operation |-> a[1], targets |-> a[2], amount |-> a[3],
               created |-> now, expires |-> now + Day,
               requires |-> NeedsApproval(a[2], a[3] * Cardinality(a[2])),
               status |-> "pending", approver |-> NoOperator]
<1>2. PICK now \in Arrivals :
        IF NeedsApproval(a[2], a[3] * Cardinality(a[2]))
        THEN proposals' = [proposals EXCEPT ![p] = Row(now)] /\ UNCHANGED frozen
        ELSE Finish(p, Row(now), NoOperator)
      BY DEF Propose
<1>4. Row(now) \in Proposal
      BY ProposedType
<1>5. /\ proposals' \in [ProposalId -> Proposal \cup {NoProposal}]
      /\ frozen' \in SUBSET (Target \cup {Global})
  <2>. HIDE DEF Row
  <2>1. CASE NeedsApproval(a[2], a[3] * Cardinality(a[2]))
        BY <1>2, <1>4, <2>1 DEF TypeOK
  <2>2. CASE ~NeedsApproval(a[2], a[3] * Cardinality(a[2]))
        BY <1>2, <1>4, <2>2, FinishTypes
  <2>. QED BY <2>1, <2>2
<1>6. UNCHANGED <<clock, policy, bootstrapped, caps, joined, ledgerVars>>
      BY DEF Propose
<1>. QED BY <1>5, <1>6 DEF TypeOK, ledgerVars

LEMMA TypeStep ==
    ASSUME TypeOK, [Next]_vars
    PROVE  TypeOK'
<1>1. ASSUME NEW os \in SUBSET Operator, Bootstrap(os) PROVE TypeOK'
      BY <1>1 DEF Bootstrap, TypeOK, ledgerVars, BootstrapCapabilities
<1>2. ASSUME NEW o \in Operator, NEW x \in Changeable, NEW enabled \in BOOLEAN,
             ChangeCapability(o, x[1], x[2], enabled)
      PROVE  TypeOK'
  <2>1. <<x[1], x[2]>> \in Operator \X Capabilities
        BY ChangeAssumption
  <2>. QED BY <1>2, <2>1 DEF ChangeCapability, TypeOK, ledgerVars
<1>3. ASSUME NEW o \in Operator, NEW p \in ProposalId,
             NEW a \in GrantArguments \cup RestrictionArguments,
             Propose(o, p, a[1], a[2], a[3])
      PROVE  TypeOK'
      BY <1>3, ProposeTypes
<1>4. ASSUME NEW o \in Operator, NEW p \in ProposalId, Approve(o, p)
      PROVE  TypeOK'
  <2>1. proposals[p] \in Proposal /\ Finish(p, proposals[p], o)
        BY <1>4 DEF Approve, Exists, TypeOK
  <2>2. UNCHANGED <<clock, policy, bootstrapped, caps, joined, ledgerVars>>
        BY <1>4 DEF Approve
  <2>. QED BY <2>1, <2>2, FinishTypes DEF TypeOK, ledgerVars
<1>5. ASSUME NEW o \in Operator, NEW p \in ProposalId, ExecuteGrant(o, p)
      PROVE  TypeOK'
  <2>1. proposals[p] \in Proposal /\ Issue(p, proposals[p])
        BY <1>5 DEF ExecuteGrant, Exists, TypeOK
  <2>2. Total(proposals[p]) \in Nat /\ proposals[p].amount \in Nat
        BY <2>1, TotalType DEF Proposal
  <2>3. UNCHANGED <<clock, policy, bootstrapped, caps, frozen, proposals, joined,
                    corrections, retirement>>
        BY <1>5 DEF ExecuteGrant
  <2>4. executions' \in SUBSET [proposal : ProposalId, at : 0..MaxClock]
        BY <2>1 DEF Issue, TypeOK
  <2>5. wallet' \in [Target -> Nat] /\ issuance' \in Int
        BY <2>1, <2>2 DEF Issue, TypeOK
  <2>. QED BY <2>3, <2>4, <2>5 DEF TypeOK
<1>6. ASSUME NEW t \in Target, Join(t) PROVE TypeOK'
      BY <1>6 DEF Join, TypeOK, ledgerVars
<1>7. ASSUME NEW o \in Operator, NEW p \in ProposalId, NEW t \in Target, NEW amount \in Amount,
             NEW b \in BOOLEAN, CorrectGrant(o, p, t, amount, b)
      PROVE  TypeOK'
  <2>1. UNCHANGED <<clock, policy, bootstrapped, caps, frozen, proposals, joined,
                    executions, issuance>>
        BY <1>7 DEF CorrectGrant
  <2>2. amount \in Nat /\ amount <= wallet[t]
        BY <1>7, AmountAssumption DEF CorrectGrant
  <2>3. wallet' \in [Target -> Nat] /\ retirement' \in Nat
        BY <1>7, <2>2 DEF CorrectGrant, TypeOK
  <2>4. (b /\ Frozen(t)) \in BOOLEAN
        BY DEF Frozen
  <2>. DEFINE Records == [proposal : ProposalId, target : Target, actor : Operator,
                          amount : Nat, at : 0..MaxClock, bypassed : BOOLEAN]
              Record(flag) == [proposal |-> p, target |-> t, actor |-> o, amount |-> amount,
                               at |-> clock, bypassed |-> flag]
  <2>5. corrections' \subseteq Records
    <3>1. \A flag \in BOOLEAN : Record(flag) \in Records
          BY <2>2 DEF TypeOK
    <3>2. corrections' = corrections \cup {Record(b /\ Frozen(t))}
          BY <1>7 DEF CorrectGrant
    <3>3. corrections \subseteq Records
          BY DEF TypeOK
    <3>. HIDE DEF Records, Record
    <3>. QED BY <2>4, <3>1, <3>2, <3>3
  <2>. QED BY <2>1, <2>3, <2>5 DEF TypeOK
<1>8. CASE Restart
      BY <1>8 DEF Restart, TypeOK, ledgerVars
<1>9. CASE Tick
      BY <1>9 DEF Tick, TypeOK, ledgerVars
<1>10. CASE UNCHANGED vars
      BY <1>10 DEF vars, TypeOK, ledgerVars
<1>. QED BY <1>1, <1>2, <1>3, <1>4, <1>5, <1>6, <1>7, <1>8, <1>9, <1>10 DEF Next

\* Every variable stays in its range; no wallet is ever negative.
THEOREM Types == Spec => []TypeOK
<1>1. Init => TypeOK
  <2>1. Init => wallet \in [Target -> Nat] /\ clock \in 0..MaxClock
        BY TimeAssumption DEF Init
  <2>2. Init => proposals \in [ProposalId -> Proposal \cup {NoProposal}]
        BY DEF Init
  <2>3. Init => policy \in Policies \cup {NoPolicy} /\ bootstrapped \in BOOLEAN
        BY DEF Init
  <2>4. Init => caps = {} /\ frozen = {} /\ executions = {} /\ corrections = {} /\ joined = {}
        BY DEF Init
  <2>5. Init => issuance \in Int /\ retirement \in Nat
        BY DEF Init
  <2>. QED BY <2>1, <2>2, <2>3, <2>4, <2>5 DEF TypeOK
<1>. QED BY <1>1, TypeStep, PTL DEF Spec

-----------------------------------------------------------------------------
(* Decisions.  Only Propose and Approve touch proposals and restrictions.    *)

LEMMA DecisionFrame ==
    ASSUME [Next]_vars
    PROVE  \/ UNCHANGED <<proposals, frozen>>
           \/ \E o \in Operator, p \in ProposalId, a \in GrantArguments \cup RestrictionArguments :
                 Propose(o, p, a[1], a[2], a[3])
           \/ \E o \in Operator, p \in ProposalId : Approve(o, p)
<1>1. \A os : Bootstrap(os) => UNCHANGED <<proposals, frozen>>
      BY DEF Bootstrap
<1>2. \A o, target, c, enabled :
        ChangeCapability(o, target, c, enabled) => UNCHANGED <<proposals, frozen>>
      BY DEF ChangeCapability
<1>3. \A o, p : ExecuteGrant(o, p) => UNCHANGED <<proposals, frozen>>
      BY DEF ExecuteGrant
<1>4. \A o, p, t, amount, b : CorrectGrant(o, p, t, amount, b) => UNCHANGED <<proposals, frozen>>
      BY DEF CorrectGrant
<1>5. (\E t \in Target : Join(t)) \/ Restart \/ Tick \/ UNCHANGED vars
        => UNCHANGED <<proposals, frozen>>
      BY DEF Join, Restart, Tick, vars
<1>. QED BY <1>1, <1>2, <1>3, <1>4, <1>5 DEF Next

\* What a stored proposal says of the approvals it needs and has.
Recorded(r) ==
    /\ Cardinality(r.targets) > 1 \/ r.targets = {Global} => r.requires
    /\ r.requires /\ r.status # "pending" => r.approver \in Operator \ {r.actor}

\* A decision changes one proposal, a pending one or one that was not there, and
\* of a pending one the status and the approver only.
Decides(p) ==
    /\ \A q \in ProposalId \ {p} : proposals'[q] = proposals[q]
    /\ proposals'[p] \in Proposal
    /\ Exists(p) =>
         /\ proposals[p].status = "pending" /\ proposals'[p].status # "pending"
         /\ proposals'[p] = [proposals[p] EXCEPT !.status = proposals'[p].status,
                                                 !.approver = proposals'[p].approver]

LEMMA FinishDecides ==
    ASSUME TypeOK, NEW p \in ProposalId, NEW r \in Proposal,
           NEW approver \in Operator \cup {NoOperator}, Finish(p, r, approver)
    PROVE  /\ \A q \in ProposalId \ {p} : proposals'[q] = proposals[q]
           /\ proposals'[p] \in Proposal
           /\ proposals'[p].status # "pending" /\ proposals'[p].approver = approver
           /\ proposals'[p] = [r EXCEPT !.status = proposals'[p].status,
                                        !.approver = proposals'[p].approver]
<1>. DEFINE settled == IF r.operation = "grant" THEN "approved" ELSE "applied"
<1>1. proposals' = [proposals EXCEPT ![p] = [r EXCEPT !.status = settled, !.approver = approver]]
      BY DEF Finish
<1>2. proposals'[p] = [r EXCEPT !.status = settled, !.approver = approver]
      BY <1>1 DEF TypeOK
<1>3. /\ proposals'[p] \in Proposal
      /\ proposals'[p].status = settled /\ proposals'[p].approver = approver
      BY <1>2 DEF Proposal
<1>4. \A q \in ProposalId \ {p} : proposals'[q] = proposals[q]
      BY <1>1 DEF TypeOK
<1>. QED BY <1>2, <1>3, <1>4

LEMMA ProposeDecides ==
    ASSUME TypeOK, NEW o \in Operator, NEW p \in ProposalId,
           NEW a \in GrantArguments \cup RestrictionArguments,
           Propose(o, p, a[1], a[2], a[3])
    PROVE  ~Exists(p) /\ Decides(p) /\ Recorded(proposals'[p])
<1>. DEFINE requires == NeedsApproval(a[2], a[3] * Cardinality(a[2]))
            Row(now) ==
              [actor |-> o, operation |-> a[1], targets |-> a[2], amount |-> a[3],
               created |-> now, expires |-> now + Day, requires |-> requires,
               status |-> "pending", approver |-> NoOperator]
<1>1. ~Exists(p)
      BY DEF Propose
<1>2. PICK now \in Arrivals :
        IF requires
        THEN proposals' = [proposals EXCEPT ![p] = Row(now)] /\ UNCHANGED frozen
        ELSE Finish(p, Row(now), NoOperator)
      BY DEF Propose
<1>3. Row(now) \in Proposal
      BY ProposedType
<1>4. Cardinality(a[2]) > 1 \/ a[2] = {Global} => requires
      BY DEF NeedsApproval
<1>5. CASE requires
  <2>1. /\ proposals'[p] = Row(now)
        /\ \A q \in ProposalId \ {p} : proposals'[q] = proposals[q]
        BY <1>2, <1>5 DEF TypeOK
  <2>. QED BY <1>1, <1>3, <1>5, <2>1 DEF Decides, Recorded
<1>6. CASE ~requires
  <2>1. /\ \A q \in ProposalId \ {p} : proposals'[q] = proposals[q]
        /\ proposals'[p] \in Proposal
        /\ proposals'[p] = [Row(now) EXCEPT !.status = proposals'[p].status,
                                            !.approver = proposals'[p].approver]
        BY <1>2, <1>3, <1>6, FinishDecides
  <2>2. proposals'[p].targets = a[2] /\ proposals'[p].requires = requires
        BY <2>1
  <2>. QED BY <1>1, <1>4, <1>6, <2>1, <2>2 DEF Decides, Recorded
<1>. QED BY <1>5, <1>6

LEMMA ApproveDecides ==
    ASSUME TypeOK, NEW o \in Operator, NEW p \in ProposalId, Recorded(proposals[p]), Approve(o, p)
    PROVE  Exists(p) /\ Decides(p) /\ Recorded(proposals'[p])
<1>1. /\ Exists(p) /\ proposals[p] \in Proposal
      /\ proposals[p].actor # o /\ proposals[p].status = "pending"
      /\ Finish(p, proposals[p], o)
      BY DEF Approve, Exists, Open, TypeOK
<1>2. /\ \A q \in ProposalId \ {p} : proposals'[q] = proposals[q]
      /\ proposals'[p] \in Proposal
      /\ proposals'[p].status # "pending" /\ proposals'[p].approver = o
      /\ proposals'[p] = [proposals[p] EXCEPT !.status = proposals'[p].status,
                                              !.approver = proposals'[p].approver]
      BY <1>1, FinishDecides
<1>3. /\ proposals'[p].targets = proposals[p].targets
      /\ proposals'[p].requires = proposals[p].requires
      /\ proposals'[p].actor = proposals[p].actor
      BY <1>1, <1>2 DEF Proposal
<1>. QED BY <1>1, <1>2, <1>3 DEF Decides, Recorded

ApprovalsRecorded == \A p \in ProposalId : Exists(p) => Recorded(proposals[p])

LEMMA DecisionStep ==
    ASSUME TypeOK, ApprovalsRecorded, [Next]_vars
    PROVE  /\ ApprovalsRecorded'
           /\ UNCHANGED <<proposals, frozen>> \/ \E p \in ProposalId : Decides(p)
<1>1. CASE UNCHANGED <<proposals, frozen>>
      BY <1>1 DEF ApprovalsRecorded, Exists, Recorded
<1>2. ASSUME NEW p \in ProposalId, Decides(p), Recorded(proposals'[p])
      PROVE  ApprovalsRecorded'
      BY <1>2 DEF Decides, ApprovalsRecorded, Exists, Recorded
<1>3. ASSUME NEW o \in Operator, NEW p \in ProposalId,
             NEW a \in GrantArguments \cup RestrictionArguments,
             Propose(o, p, a[1], a[2], a[3])
      PROVE  Decides(p) /\ Recorded(proposals'[p])
      BY <1>3, ProposeDecides
<1>4. ASSUME NEW o \in Operator, NEW p \in ProposalId, Approve(o, p)
      PROVE  Decides(p) /\ Recorded(proposals'[p])
  <2>1. Exists(p)
        BY <1>4 DEF Approve
  <2>. QED BY <1>4, <2>1, ApproveDecides DEF ApprovalsRecorded
<1>. QED BY <1>1, <1>2, <1>3, <1>4, DecisionFrame

LEMMA Approvals == Spec => []ApprovalsRecorded
<1>1. Init => ApprovalsRecorded
      BY DEF Init, ApprovalsRecorded, Exists
<1>. QED BY <1>1, DecisionStep, Types, PTL DEF Spec

\* Whatever the amounts, the policies and the order of approvals: a settled bulk
\* or global proposal was approved by somebody other than its proposer.
THEOREM TwoPersons == Spec => []TwoPersonRule
<1>1. ApprovalsRecorded => TwoPersonRule
      BY DEF ApprovalsRecorded, Recorded, TwoPersonRule
<1>. QED BY <1>1, Approvals, PTL

\* A settled proposal never changes again, of a pending one only its decision is
\* new, and a restriction changes only together with a decision.
THEOREM Settled == Spec => SettledForGood
<1>1. ASSUME TypeOK, ApprovalsRecorded, [Next]_vars
      PROVE  [/\ frozen' # frozen => proposals' # proposals
              /\ \A p \in ProposalId :
                   Exists(p) =>
                     /\ proposals[p].status # "pending" => proposals'[p] = proposals[p]
                     /\ proposals'[p] = [proposals[p] EXCEPT !.status = proposals'[p].status,
                                                          !.approver = proposals'[p].approver]]_vars
  <2>1. ASSUME NEW p \in ProposalId, Exists(p), proposals'[p] = proposals[p]
        PROVE  proposals'[p] = [proposals[p] EXCEPT !.status = proposals'[p].status,
                                                 !.approver = proposals'[p].approver]
    <3>1. proposals[p] \in Proposal
          BY <1>1, <2>1 DEF TypeOK, Exists
    <3>. QED BY <2>1, <3>1 DEF Proposal
  <2>2. CASE UNCHANGED <<proposals, frozen>>
        BY <2>1, <2>2
  <2>3. ASSUME NEW p \in ProposalId, Decides(p)
        PROVE  /\ proposals' # proposals
               /\ \A q \in ProposalId :
                    Exists(q) =>
                      /\ proposals[q].status # "pending" => proposals'[q] = proposals[q]
                      /\ proposals'[q] = [proposals[q] EXCEPT !.status = proposals'[q].status,
                                                           !.approver = proposals'[q].approver]
    <3>1. proposals'[p] # proposals[p]
          BY <2>3, NoneAssumption DEF Decides, Exists
    <3>. QED BY <2>1, <2>3, <3>1 DEF Decides
  <2>. QED BY <1>1, <2>2, <2>3, DecisionStep
<1>. QED BY <1>1, Approvals, Types, PTL DEF Spec, SettledForGood

-----------------------------------------------------------------------------
(* Executions *)

LEMMA ExecutionFrame ==
    ASSUME [Next]_vars
    PROVE  UNCHANGED executions \/ \E o \in Operator, p \in ProposalId : ExecuteGrant(o, p)
<1>1. \A os : Bootstrap(os) => UNCHANGED executions
      BY DEF Bootstrap, ledgerVars
<1>2. \A o, target, c, enabled : ChangeCapability(o, target, c, enabled) => UNCHANGED executions
      BY DEF ChangeCapability, ledgerVars
<1>3. \A o, p, operation, ts, amount : Propose(o, p, operation, ts, amount) => UNCHANGED executions
      BY DEF Propose, ledgerVars
<1>4. \A o, p : Approve(o, p) => UNCHANGED executions
      BY DEF Approve, ledgerVars
<1>5. \A o, p, t, amount, b : CorrectGrant(o, p, t, amount, b) => UNCHANGED executions
      BY DEF CorrectGrant
<1>6. (\E t \in Target : Join(t)) \/ Restart \/ Tick \/ UNCHANGED vars => UNCHANGED executions
      BY DEF Join, Restart, Tick, vars, ledgerVars
<1>. QED BY <1>1, <1>2, <1>3, <1>4, <1>5, <1>6 DEF Next

\* An approved grant is executed once, however often it is retried.
THEOREM Once == Spec => []GrantedOnce
<1>1. Init => GrantedOnce
      BY DEF Init, GrantedOnce
<1>2. ASSUME GrantedOnce, [Next]_vars PROVE GrantedOnce'
  <2>1. ASSUME NEW o \in Operator, NEW p \in ProposalId, ExecuteGrant(o, p)
        PROVE  GrantedOnce'
    <3>1. /\ executions' = executions \cup {[proposal |-> p, at |-> clock]}
          /\ \A e \in executions : e.proposal # p
          BY <2>1 DEF ExecuteGrant, Issue, Executed
    <3>. QED BY <1>2, <3>1 DEF GrantedOnce
  <2>2. CASE UNCHANGED executions
        BY <1>2, <2>2 DEF GrantedOnce
  <2>. QED BY <1>2, <2>1, <2>2, ExecutionFrame
<1>. QED BY <1>1, <1>2, PTL DEF Spec

\* Coins are issued only on authority that stands when they are issued and by
\* the policy then in force, whatever was revoked or lowered since the approval.
THEOREM Authority == Spec => IssuedOnStandingAuthority
<1>1. ASSUME TypeOK, [Next]_vars,
             NEW p \in ProposalId, NEW e \in executions' \ executions, e.proposal = p
      PROVE  /\ <<proposals[p].actor, "propose">> \in caps
             /\ proposals[p].requires \/ Total(proposals[p]) > policy.threshold =>
                  /\ proposals[p].approver \in Operator \ {proposals[p].actor}
                  /\ <<proposals[p].approver, "approve">> \in caps
  <2>1. PICK o \in Operator, q \in ProposalId : ExecuteGrant(o, q)
        BY <1>1, ExecutionFrame
  <2>2. q = p
        BY <1>1, <2>1 DEF ExecuteGrant, Issue
  <2>3. /\ Has(o, "propose") /\ proposals[p].actor = o /\ Exists(p)
        /\ proposals[p].requires \/ NeedsApproval(proposals[p].targets, Total(proposals[p]))
             => ApprovalStands(o, proposals[p])
        BY <2>1, <2>2 DEF ExecuteGrant
  <2>4. proposals[p].approver \in Operator \cup {NoOperator}
        BY <1>1, <2>3 DEF Exists, TypeOK, Proposal
  <2>. QED BY <2>3, <2>4 DEF Has, NeedsApproval, ApprovalStands
<1>2. ASSUME TypeOK, [Next]_vars
      PROVE  \A p \in ProposalId :
                (\E e \in executions' \ executions : e.proposal = p) =>
                    /\ <<proposals[p].actor, "propose">> \in caps
                    /\ proposals[p].requires \/ Total(proposals[p]) > policy.threshold =>
                          /\ proposals[p].approver \in Operator \ {proposals[p].actor}
                          /\ <<proposals[p].approver, "approve">> \in caps
      BY <1>1, <1>2
<1>. QED BY <1>2, Types, PTL DEF Spec, IssuedOnStandingAuthority

-----------------------------------------------------------------------------
(* Money: what executions and corrections on record say of the wallets.      *)

\* The executions that credited t, with what each gave it; and the corrections.
Credits(t) == [e \in {e \in executions : t \in proposals[e.proposal].targets}
               |-> proposals[e.proposal].amount]
Debits(t) == [c \in {c \in corrections : c.target = t} |-> c.amount]

\* What was executed is an approved grant on record.
ExecutedApproved ==
    \A e \in executions :
        /\ Exists(e.proposal)
        /\ proposals[e.proposal].status = "approved"
        /\ proposals[e.proposal].targets \subseteq Target

\* A correction is of an execution, within its credit, and the only one of that credit.
CorrectionsFounded ==
    /\ \A c \in corrections :
          /\ \E e \in executions : e.proposal = c.proposal
          /\ c.amount <= proposals[c.proposal].amount
    /\ \A c, d \in corrections : c.proposal = d.proposal /\ c.target = d.target => c = d

MoneyInv ==
    /\ IsFiniteSet(executions) /\ IsFiniteSet(corrections)
    /\ ExecutedApproved
    /\ CorrectionsFounded
    /\ \A t \in Target : wallet[t] = SumFunction(Credits(t)) - SumFunction(Debits(t))
    /\ SumFunction(wallet) + issuance + retirement = 0

LEMMA MoneyInit == Init => MoneyInv
<1>. SUFFICES ASSUME Init PROVE MoneyInv
     OBVIOUS
<1>1. executions = {} /\ corrections = {} /\ IsFiniteSet({})
      BY FS_EmptySet DEF Init
<1>2. ASSUME NEW t \in Target PROVE wallet[t] = SumFunction(Credits(t)) - SumFunction(Debits(t))
  <2>1. DOMAIN Credits(t) = {} /\ DOMAIN Debits(t) = {}
        BY <1>1 DEF Credits, Debits
  <2>2. SumFunction(Credits(t)) = 0 /\ SumFunction(Debits(t)) = 0
        BY <2>1, SumEmpty
  <2>3. wallet[t] = 0
        BY DEF Init
  <2>. QED BY <2>2, <2>3
<1>3. SumFunction(wallet) = 0
  <2>1. wallet \in [Target -> Int] /\ \A t \in Target : wallet[t] = 0
        BY DEF Init
  <2>. QED BY <2>1, SumZero, TargetAssumption
<1>4. issuance = 0 /\ retirement = 0
      BY DEF Init
<1>5. ExecutedApproved /\ CorrectionsFounded
      BY <1>1 DEF ExecutedApproved, CorrectionsFounded
<1>. QED BY <1>1, <1>2, <1>3, <1>4, <1>5 DEF MoneyInv

LEMMA MoneySums ==
    ASSUME TypeOK, MoneyInv, NEW t \in Target
    PROVE  /\ SumFunction(Credits(t)) \in Int
           /\ SumFunction(Debits(t)) \in Int
<1>. DEFINE C == {e \in executions : t \in proposals[e.proposal].targets}
            D == {c \in corrections : c.target = t}
<1>1. IsFiniteSet(C) /\ IsFiniteSet(D)
      BY FS_Subset DEF MoneyInv
<1>2. \A e \in executions : proposals[e.proposal] \in Proposal
      BY DEF MoneyInv, ExecutedApproved, TypeOK, Exists
<1>3. Credits(t) \in [C -> Int]
      BY <1>2 DEF Credits, Proposal
<1>4. Debits(t) \in [D -> Int]
      BY DEF Debits, TypeOK
<1>. HIDE DEF C, D
<1>. QED BY <1>1, <1>3, <1>4, SumSplit

\* Decisions leave the executed proposals alone.
LEMMA ExecutedUntouched ==
    ASSUME TypeOK, ApprovalsRecorded, MoneyInv, [Next]_vars
    PROVE  \A e \in executions : proposals'[e.proposal] = proposals[e.proposal]
<1>1. ASSUME NEW e \in executions, NEW p \in ProposalId, Decides(p)
      PROVE  proposals'[e.proposal] = proposals[e.proposal]
  <2>1. e.proposal \in ProposalId
        BY DEF TypeOK
  <2>2. e.proposal # p
        BY <1>1 DEF Decides, MoneyInv, ExecutedApproved
  <2>. QED BY <1>1, <2>1, <2>2 DEF Decides
<1>. QED BY <1>1, DecisionStep

LEMMA MoneyFrame ==
    ASSUME TypeOK, ApprovalsRecorded, MoneyInv, [Next]_vars, UNCHANGED ledgerVars
    PROVE  MoneyInv'
<1>1. /\ UNCHANGED <<executions, corrections, wallet, issuance, retirement>>
      /\ executions \in SUBSET [proposal : ProposalId, at : 0..MaxClock]
      BY DEF ledgerVars, TypeOK
<1>2. \A e \in executions : proposals'[e.proposal] = proposals[e.proposal]
      BY ExecutedUntouched
<1>3. \A c \in corrections : proposals'[c.proposal] = proposals[c.proposal]
      BY <1>2 DEF MoneyInv, CorrectionsFounded
<1>4. ExecutedApproved' /\ CorrectionsFounded'
      BY <1>1, <1>2, <1>3 DEF MoneyInv, ExecutedApproved, CorrectionsFounded, Exists
<1>5. \A t \in Target : Credits(t)' = Credits(t) /\ Debits(t)' = Debits(t)
      BY <1>1, <1>2 DEF Credits, Debits
<1>. QED BY <1>1, <1>4, <1>5 DEF MoneyInv

\* One record more adds its amount.
LEMMA RecordAdds ==
    ASSUME NEW S, IsFiniteSet(S), NEW y, y \notin S, NEW f, NEW g \in [S \cup {y} -> Int],
           f = Restrict(g, S)
    PROVE  /\ SumFunction(g) = SumFunction(f) + g[y]
           /\ SumFunction(f) \in Int
<1>1. f \in [S -> Int]
      BY DEF Restrict
<1>2. SumFunction(f) \in Int /\ g[y] \in Int
      BY <1>1, SumSplit
<1>3. SumFunction(g) = g[y] + SumFunction(f)
      BY SumAdd
<1>. QED BY <1>2, <1>3

LEMMA CreditStep ==
    ASSUME TypeOK, MoneyInv, NEW o \in Operator, NEW p \in ProposalId, ExecuteGrant(o, p)
    PROVE  MoneyInv'
<1>. DEFINE r == proposals[p]
            n == [proposal |-> p, at |-> clock]
<1>1. /\ r \in Proposal /\ Exists(p) /\ r.status = "approved"
      /\ \A e \in executions : e.proposal # p
      /\ r.targets \subseteq Target
      BY DEF ExecuteGrant, Executed, Exists, TypeOK
<1>2. /\ executions' = executions \cup {n}
      /\ wallet' = [t \in Target |-> wallet[t] + IF t \in r.targets THEN r.amount ELSE 0]
      /\ issuance' = issuance - Total(r)
      /\ UNCHANGED <<proposals, corrections, retirement>>
      BY DEF ExecuteGrant, Issue
<1>3. n.proposal = p /\ n \notin executions /\ r.amount \in Nat
      BY <1>1 DEF Proposal
<1>. HIDE DEF n
<1>4. IsFiniteSet(executions') /\ IsFiniteSet(corrections')
      BY <1>2, FS_AddElement DEF MoneyInv
<1>5. ExecutedApproved'
      BY <1>1, <1>2, <1>3 DEF MoneyInv, ExecutedApproved, Exists
<1>6. CorrectionsFounded'
      BY <1>2 DEF MoneyInv, CorrectionsFounded
<1>7. ASSUME NEW t \in Target
      PROVE  wallet'[t] = SumFunction(Credits(t)') - SumFunction(Debits(t)')
  <2>. DEFINE S == {e \in executions : t \in proposals[e.proposal].targets}
  <2>1. Debits(t)' = Debits(t)
        BY <1>2 DEF Debits
  <2>2. IsFiniteSet(S) /\ n \notin S
        BY <1>3, FS_Subset DEF MoneyInv
  <2>3. CASE t \in r.targets
    <3>1. Credits(t)' = [e \in S \cup {n} |-> proposals[e.proposal].amount]
          BY <1>2, <1>3, <2>3 DEF Credits
    <3>2. \A e \in S \cup {n} : proposals[e.proposal].amount \in Int
          BY <1>1, <1>3 DEF MoneyInv, ExecutedApproved, TypeOK, Exists, Proposal
    <3>3. Credits(t) = Restrict(Credits(t)', S)
          BY <3>1 DEF Credits, Restrict
    <3>4. Credits(t)' \in [S \cup {n} -> Int] /\ Credits(t)'[n] = r.amount
          BY <1>3, <3>1, <3>2
    <3>. HIDE DEF S
    <3>5. /\ SumFunction(Credits(t)') = SumFunction(Credits(t)) + r.amount
          /\ SumFunction(Credits(t)) \in Int
          BY <2>2, <3>3, <3>4, RecordAdds
    <3>6. wallet'[t] = wallet[t] + r.amount
          BY <1>2, <2>3
    <3>7. SumFunction(Debits(t)) \in Int
          BY MoneySums
    <3>. QED BY <1>3, <2>1, <3>5, <3>6, <3>7 DEF MoneyInv
  <2>4. CASE t \notin r.targets
    <3>1. Credits(t)' = Credits(t)
          BY <1>2, <1>3, <2>4 DEF Credits
    <3>2. wallet'[t] = wallet[t]
          BY <1>2, <2>4 DEF TypeOK
    <3>. QED BY <2>1, <3>1, <3>2 DEF MoneyInv
  <2>. QED BY <2>3, <2>4
<1>8. SumFunction(wallet') + issuance' + retirement' = 0
  <2>1. wallet \in [Target -> Int] /\ IsFiniteSet(Target)
        BY TargetAssumption DEF TypeOK
  <2>2. SumFunction(wallet') = SumFunction(wallet) + Total(r)
        BY <1>1, <1>2, <1>3, <2>1, SumRaised DEF Total
  <2>3. SumFunction(wallet) \in Int /\ Total(r) \in Int /\ issuance \in Int /\ retirement \in Int
        BY <1>1, <2>1, SumSplit, TotalType DEF TypeOK
  <2>. QED BY <1>2, <2>2, <2>3 DEF MoneyInv
<1>. QED BY <1>4, <1>5, <1>6, <1>7, <1>8 DEF MoneyInv

LEMMA DebitStep ==
    ASSUME TypeOK, MoneyInv, NEW o \in Operator, NEW p \in ProposalId, NEW t \in Target,
           NEW amount \in Amount, NEW b \in BOOLEAN, CorrectGrant(o, p, t, amount, b)
    PROVE  MoneyInv'
<1>1. PICK n : /\ corrections' = corrections \cup {n}
               /\ n.proposal = p /\ n.target = t /\ n.amount = amount
  <2>. DEFINE Record(flag) == [proposal |-> p, target |-> t, actor |-> o, amount |-> amount,
                               at |-> clock, bypassed |-> flag]
  <2>1. corrections' = corrections \cup {Record(b /\ Frozen(t))}
        BY DEF CorrectGrant
  <2>2. \A flag : /\ Record(flag).proposal = p /\ Record(flag).target = t
                  /\ Record(flag).amount = amount
        OBVIOUS
  <2>. HIDE DEF Record
  <2>. QED BY <2>1, <2>2
<1>2. /\ wallet' = [wallet EXCEPT ![t] = @ - amount]
      /\ retirement' = retirement + amount
      /\ UNCHANGED <<proposals, executions, issuance>>
      /\ \E e \in executions : e.proposal = p
      /\ amount <= proposals[p].amount
      BY DEF CorrectGrant, CorrectionLimit, Executed
<1>3. \A c \in corrections : ~(c.proposal = p /\ c.target = t)
      BY DEF CorrectGrant, Corrected
<1>4. n \notin corrections /\ amount \in Int
      BY <1>1, <1>3, AmountAssumption
<1>5. IsFiniteSet(executions') /\ IsFiniteSet(corrections')
      BY <1>1, <1>2, FS_AddElement DEF MoneyInv
<1>6. ExecutedApproved'
      BY <1>2 DEF MoneyInv, ExecutedApproved, Exists
<1>7. CorrectionsFounded'
      BY <1>1, <1>2, <1>3 DEF MoneyInv, CorrectionsFounded
<1>8. ASSUME NEW u \in Target
      PROVE  wallet'[u] = SumFunction(Credits(u)') - SumFunction(Debits(u)')
  <2>. DEFINE S == {c \in corrections : c.target = u}
  <2>1. Credits(u)' = Credits(u)
        BY <1>2 DEF Credits
  <2>2. CASE u = t
    <3>1. IsFiniteSet(S) /\ n \notin S
          BY <1>4, FS_Subset DEF MoneyInv
    <3>2. Debits(u)' = [c \in S \cup {n} |-> c.amount]
          BY <1>1, <2>2 DEF Debits
    <3>3. \A c \in S \cup {n} : c.amount \in Int
          BY <1>1, <1>4 DEF TypeOK
    <3>4. Debits(u) = Restrict(Debits(u)', S)
          BY <3>2 DEF Debits, Restrict
    <3>5. Debits(u)' \in [S \cup {n} -> Int] /\ Debits(u)'[n] = amount
          BY <1>1, <3>2, <3>3
    <3>. HIDE DEF S
    <3>6. /\ SumFunction(Debits(u)') = SumFunction(Debits(u)) + amount
          /\ SumFunction(Debits(u)) \in Int
          BY <3>1, <3>4, <3>5, RecordAdds
    <3>7. wallet'[u] = wallet[u] - amount
          BY <1>2, <2>2 DEF TypeOK
    <3>8. SumFunction(Credits(u)) \in Int
          BY MoneySums
    <3>9. wallet[u] = SumFunction(Credits(u)) - SumFunction(Debits(u))
          BY DEF MoneyInv
    <3>. QED BY <1>4, <2>1, <3>6, <3>7, <3>8, <3>9
  <2>3. CASE u # t
    <3>1. Debits(u)' = Debits(u)
          BY <1>1, <2>3 DEF Debits
    <3>2. wallet'[u] = wallet[u]
          BY <1>2, <2>3 DEF TypeOK
    <3>. QED BY <2>1, <3>1, <3>2 DEF MoneyInv
  <2>. QED BY <2>2, <2>3
<1>9. SumFunction(wallet') + issuance' + retirement' = 0
  <2>1. wallet \in [Target -> Int] /\ IsFiniteSet(Target)
        BY TargetAssumption DEF TypeOK
  <2>2. wallet' = [x \in Target |-> wallet[x] + IF x \in {t} THEN -amount ELSE 0]
    <3>1. \A x \in Target : wallet'[x] = wallet[x] + IF x \in {t} THEN -amount ELSE 0
      <4>1. \A x \in Target : wallet[x] \in Int
            BY <2>1
      <4>2. wallet'[t] = wallet[t] - amount /\ \A x \in Target \ {t} : wallet'[x] = wallet[x]
            BY <1>2, <2>1
      <4>. QED BY <1>4, <4>1, <4>2
    <3>2. wallet' = [x \in Target |-> wallet'[x]]
          BY <1>2, <2>1
    <3>. QED BY <3>1, <3>2
  <2>3. Cardinality({t}) = 1 /\ {t} \in SUBSET Target /\ -amount \in Int
    <3>1. Cardinality({t}) = 1
          BY FS_Singleton
    <3>. QED BY <1>4, <3>1
  <2>4. SumFunction(wallet') = SumFunction(wallet) + (-amount) * Cardinality({t})
        BY <2>1, <2>2, <2>3, SumRaised
  <2>5. SumFunction(wallet) \in Int /\ issuance \in Int /\ retirement \in Int
        BY <2>1, SumSplit DEF TypeOK
  <2>. QED BY <1>2, <1>4, <2>3, <2>4, <2>5 DEF MoneyInv
<1>. QED BY <1>5, <1>6, <1>7, <1>8, <1>9 DEF MoneyInv

LEMMA MoneyStep ==
    ASSUME TypeOK, ApprovalsRecorded, MoneyInv, [Next]_vars
    PROVE  MoneyInv'
<1>1. \A os : Bootstrap(os) => UNCHANGED ledgerVars
      BY DEF Bootstrap
<1>2. \A o, target, c, enabled : ChangeCapability(o, target, c, enabled) => UNCHANGED ledgerVars
      BY DEF ChangeCapability
<1>3. \A o, p, operation, ts, amount : Propose(o, p, operation, ts, amount) => UNCHANGED ledgerVars
      BY DEF Propose
<1>4. \A o, p : Approve(o, p) => UNCHANGED ledgerVars
      BY DEF Approve
<1>5. (\E t \in Target : Join(t)) \/ Restart \/ Tick \/ UNCHANGED vars => UNCHANGED ledgerVars
      BY DEF Join, Restart, Tick, vars
<1>6. ASSUME NEW o \in Operator, NEW p \in ProposalId, ExecuteGrant(o, p)
      PROVE  MoneyInv'
      BY <1>6, CreditStep
<1>7. ASSUME NEW o \in Operator, NEW p \in ProposalId, NEW t \in Target, NEW amount \in Amount,
             NEW b \in BOOLEAN, CorrectGrant(o, p, t, amount, b)
      PROVE  MoneyInv'
      BY <1>7, DebitStep
<1>8. CASE UNCHANGED ledgerVars
      BY <1>8, MoneyFrame
<1>. QED BY <1>1, <1>2, <1>3, <1>4, <1>5, <1>6, <1>7, <1>8 DEF Next

LEMMA Money == Spec => []MoneyInv
BY MoneyInit, MoneyStep, Types, Approvals, PTL DEF Spec

\* Every wallet is what executions credited to it less what corrections took from
\* it, and the two system accounts balance all wallets together, for any number of
\* targets, grants of several targets and corrections.
THEOREM Explained == Spec => []WalletsExplained
<1>1. MoneyInv => WalletsExplained
      BY DEF MoneyInv, Credits, Debits, WalletsExplained
<1>. QED BY <1>1, Money, PTL

LEMMA SumSingleton ==
    ASSUME NEW y, NEW f \in [{y} -> Int]
    PROVE  SumFunction(f) = f[y]
<1>1. f \in [{} \cup {y} -> Int] /\ IsFiniteSet({}) /\ y \notin {}
      BY FS_EmptySet
<1>2. SumFunction(f) = f[y] + SumFunction(Restrict(f, {}))
      BY <1>1, SumAdd
<1>3. SumFunction(Restrict(f, {})) = 0
  <2>1. DOMAIN Restrict(f, {}) = {}
        BY DEF Restrict
  <2>. QED BY <2>1, SumEmpty
<1>. QED BY <1>2, <1>3

\* What corrections take from one credited wallet is within the credit, whoever
\* corrects, with or without a bypass, and however the policy is changed.
THEOREM Bounded == Spec => []CorrectionsBounded
<1>1. ASSUME TypeOK, MoneyInv PROVE CorrectionsBounded
  <2>1. ASSUME NEW p \in ProposalId, NEW t \in Target,
               {c \in corrections : c.proposal = p /\ c.target = t} # {}
        PROVE  /\ \E e \in executions : e.proposal = p
               /\ SumFunction([c \in {c \in corrections : c.proposal = p /\ c.target = t}
                               |-> c.amount]) <= proposals[p].amount
    <3>1. PICK c \in corrections : c.proposal = p /\ c.target = t
          BY <2>1
    <3>2. {d \in corrections : d.proposal = p /\ d.target = t} = {c}
          BY <1>1, <3>1 DEF MoneyInv, CorrectionsFounded
    <3>3. c.amount \in Int
          BY <1>1, <3>1 DEF TypeOK
    <3>. DEFINE f == [d \in {c} |-> d.amount]
    <3>4. f \in [{c} -> Int] /\ f[c] = c.amount
          BY <3>3
    <3>. HIDE DEF f
    <3>5. SumFunction(f) = c.amount
          BY <3>4, SumSingleton
    <3>6. (\E e \in executions : e.proposal = p) /\ c.amount <= proposals[p].amount
          BY <1>1, <3>1 DEF MoneyInv, CorrectionsFounded
    <3>. QED BY <3>2, <3>5, <3>6 DEF f
  <2>. QED BY <2>1 DEF CorrectionsBounded
<1>. QED BY <1>1, Money, Types, PTL

-----------------------------------------------------------------------------
(* The rolling windows.  What a guard adds up in the past of an instant, the *)
(* new record included, bounds every window of a day around it.              *)

LEMMA WindowBound ==
    ASSUME NEW G, IsFiniteSet(G), NEW n, n \notin G, NEW f \in [G \cup {n} -> Nat],
           NEW W \in SUBSET (G \cup {n})
    PROVE  SumFunction(Restrict(f, W)) <= SumFunction(Restrict(f, G)) + f[n]
<1>1. IsFiniteSet(G \cup {n})
      BY FS_AddElement
<1>2. /\ SumFunction(Restrict(f, W)) <= SumFunction(f)
      BY <1>1, SumMonotone
<1>3. f \in [G \cup {n} -> Int]
      OBVIOUS
<1>4. SumFunction(f) = SumFunction(Restrict(f, G)) + f[n]
      BY <1>3, RecordAdds
<1>. QED BY <1>2, <1>4

LEMMA ExecutionWindow ==
    ASSUME TypeOK, MoneyInv, NEW o \in Operator, NEW p \in ProposalId, ExecuteGrant(o, p),
           NEW end \in clock..(clock + Day - 1), NEW limit \in Int, policy.rolling <= limit
    PROVE  SumFunction([f \in {f \in executions' :
                                /\ proposals[f.proposal].actor = o
                                /\ f.at \in (end - Day + 1)..end}
                         |-> Total(proposals[f.proposal])])
           <= limit
<1>. DEFINE n == [proposal |-> p, at |-> clock]
            G == {e \in executions : proposals[e.proposal].actor = o /\ e.at > clock - Day}
            W == {f \in executions' : /\ proposals[f.proposal].actor = o
                                      /\ f.at \in (end - Day + 1)..end}
            big == [f \in G \cup {n} |-> Total(proposals[f.proposal])]
<1>1. /\ executions' = executions \cup {n}
      /\ \A e \in executions : e.proposal # p
      /\ proposals[p].actor = o /\ Exists(p)
      /\ GrantedSince(o, clock - Day) + Total(proposals[p]) <= policy.rolling
      BY DEF ExecuteGrant, Executed, Issue
<1>2. n.proposal = p /\ n.at = clock /\ n \notin G
      BY <1>1
<1>3. IsFiniteSet(G)
      BY FS_Subset DEF MoneyInv
<1>4. big \in [G \cup {n} -> Nat]
  <2>1. \A f \in G \cup {n} : proposals[f.proposal] \in Proposal
        BY <1>1, <1>2 DEF MoneyInv, ExecutedApproved, TypeOK, Exists
  <2>2. \A f \in G \cup {n} : Total(proposals[f.proposal]) \in Nat
        BY <2>1, TotalType
  <2>. QED BY <2>2
<1>5. W \in SUBSET (G \cup {n})
  <2>1. clock \in Int /\ Day \in Int /\ end \in Int /\ end >= clock
        BY TimeAssumption DEF TypeOK
  <2>2. \A f \in executions : f.at \in Int
        BY TimeAssumption DEF TypeOK
  <2>3. ASSUME NEW f \in executions, f.at \in (end - Day + 1)..end PROVE f.at > clock - Day
        BY <2>1, <2>2, <2>3
  <2>. HIDE DEF n
  <2>. QED BY <1>1, <2>3
<1>6. big[n] = Total(proposals[p])
      BY <1>2
<1>7. Restrict(big, G) = [e \in G |-> Total(proposals[e.proposal])]
      BY DEF Restrict
<1>8. Restrict(big, W) = [f \in W |-> Total(proposals[f.proposal])]
      BY <1>5 DEF Restrict
<1>9. SumFunction(Restrict(big, G)) = GrantedSince(o, clock - Day)
      BY <1>7 DEF GrantedSince
<1>10. SumFunction([f \in W |-> Total(proposals[f.proposal])])
         <= GrantedSince(o, clock - Day) + Total(proposals[p])
  <2>. HIDE DEF n, G, W, big
  <2>1. SumFunction(Restrict(big, W)) <= SumFunction(Restrict(big, G)) + big[n]
        BY <1>2, <1>3, <1>4, <1>5, WindowBound
  <2>. QED BY <2>1, <1>6, <1>8, <1>9
<1>11. /\ GrantedSince(o, clock - Day) \in Int /\ Total(proposals[p]) \in Int
       /\ SumFunction([f \in W |-> Total(proposals[f.proposal])]) \in Int
  <2>1. Restrict(big, G) \in [G -> Int] /\ Restrict(big, W) \in [W -> Int] /\ big[n] \in Int
        BY <1>4, <1>5 DEF Restrict
  <2>. HIDE DEF n, G, W, big
  <2>2. IsFiniteSet(W)
    <3>1. IsFiniteSet(G \cup {n})
          BY <1>3, FS_AddElement
    <3>. QED BY <1>5, <3>1, FS_Subset
  <2>3. SumFunction(Restrict(big, G)) \in Int /\ SumFunction(Restrict(big, W)) \in Int
        BY <1>3, <2>1, <2>2, SumSplit
  <2>. QED BY <1>6, <1>8, <1>9, <2>1, <2>3
<1>12. policy.rolling \in Int
  <2>1. policy \in Policies
        BY DEF ExecuteGrant, TypeOK
  <2>. QED BY <2>1, PolicyAssumption
<1>. HIDE DEF n, G, big, W
<1>13. SumFunction([f \in W |-> Total(proposals[f.proposal])]) <= limit
       BY <1>1, <1>10, <1>11, <1>12
<1>. QED BY <1>13 DEF W

\* Whatever the clock and the policies did before: a grant that is executed fits,
\* with every execution on record, into each day-long window around it.
THEOREM GrantCeiling == Spec => GrantWindow
<1>1. ASSUME TypeOK, MoneyInv, [Next]_vars,
             NEW e \in executions' \ executions, NEW end \in WindowEnds(e.at) \ {e.at + Day}
      PROVE  SumFunction([f \in {f \in executions' :
                                /\ proposals[f.proposal].actor = proposals[e.proposal].actor
                                /\ f.at \in (end - Day + 1)..end}
                         |-> Total(proposals[f.proposal])])
             <= policy.rolling
  <2>1. PICK o \in Operator, p \in ProposalId : ExecuteGrant(o, p)
        BY <1>1, ExecutionFrame
  <2>2. e.proposal = p /\ e.at = clock /\ proposals[p].actor = o
        BY <2>1 DEF ExecuteGrant, Issue
  <2>3. end \in clock..(clock + Day - 1)
        BY <1>1, <2>2, TimeAssumption DEF WindowEnds, TypeOK
  <2>4. policy.rolling \in Int /\ policy.rolling <= policy.rolling
    <3>1. policy \in Policies
          BY <1>1, <2>1 DEF ExecuteGrant, TypeOK
    <3>. QED BY <3>1, PolicyAssumption
  <2>. QED BY <1>1, <2>1, <2>2, <2>3, <2>4, ExecutionWindow
<1>2. ASSUME TypeOK, MoneyInv, [Next]_vars
      PROVE  \A e \in executions' \ executions :
                \A end \in WindowEnds(e.at) \ {e.at + Day} :
                    SumFunction([f \in {f \in executions' :
                                /\ proposals[f.proposal].actor = proposals[e.proposal].actor
                                /\ f.at \in (end - Day + 1)..end}
                         |-> Total(proposals[f.proposal])])
                    <= policy.rolling
      BY <1>1, <1>2
<1>. QED BY <1>2, Types, Money, PTL DEF Spec, GrantWindow

\* Each write adds at most one proposal.
ProposalsFinite == IsFiniteSet({p \in ProposalId : Exists(p)})

LEMMA FiniteProposals == Spec => []ProposalsFinite
<1>1. Init => ProposalsFinite
  <2>. SUFFICES ASSUME Init PROVE ProposalsFinite
       OBVIOUS
  <2>1. {p \in ProposalId : Exists(p)} = {}
        BY DEF Init, Exists
  <2>. QED BY <2>1, FS_EmptySet DEF ProposalsFinite
<1>2. ASSUME TypeOK, ApprovalsRecorded, ProposalsFinite, [Next]_vars PROVE ProposalsFinite'
  <2>1. CASE UNCHANGED proposals
        BY <1>2, <2>1 DEF ProposalsFinite, Exists
  <2>2. ASSUME NEW p \in ProposalId, Decides(p) PROVE ProposalsFinite'
    <3>. DEFINE known == {q \in ProposalId : Exists(q)}
    <3>1. {q \in ProposalId : Exists(q)}' \subseteq known \cup {p}
          BY <2>2 DEF Decides, Exists
    <3>2. IsFiniteSet(known)
          BY <1>2 DEF ProposalsFinite
    <3>. HIDE DEF known
    <3>3. IsFiniteSet(known \cup {p})
          BY <3>2, FS_AddElement
    <3>4. IsFiniteSet({q \in ProposalId : Exists(q)}')
          BY <3>1, <3>3, FS_Subset
    <3>. QED BY <3>4 DEF ProposalsFinite
  <2>. QED BY <1>2, <2>1, <2>2, DecisionStep
<1>. QED BY <1>1, <1>2, Types, Approvals, PTL DEF Spec

\* What a request for a grant wrote, and what it was checked against.
LEMMA ProposeWrites ==
    ASSUME TypeOK, NEW o \in Operator, NEW p \in ProposalId,
           NEW a \in GrantArguments \cup RestrictionArguments,
           Propose(o, p, a[1], a[2], a[3])
    PROVE  \E now \in Arrivals :
             /\ proposals'[p].actor = o /\ proposals'[p].operation = a[1]
             /\ proposals'[p].created = now
             /\ Total(proposals'[p]) = a[3] * Cardinality(a[2])
             /\ a[1] = "grant" =>
                  a[3] * Cardinality(a[2]) + ProposedSince(o, now - Day) <= policy.rolling
<1>. DEFINE requires == NeedsApproval(a[2], a[3] * Cardinality(a[2]))
            Row(now) ==
              [actor |-> o, operation |-> a[1], targets |-> a[2], amount |-> a[3],
               created |-> now, expires |-> now + Day, requires |-> requires,
               status |-> "pending", approver |-> NoOperator]
<1>1. PICK now \in Arrivals :
        /\ IF requires
           THEN proposals' = [proposals EXCEPT ![p] = Row(now)] /\ UNCHANGED frozen
           ELSE Finish(p, Row(now), NoOperator)
        /\ a[1] = "grant" =>
             a[3] * Cardinality(a[2]) + ProposedSince(o, now - Day) <= policy.rolling
      BY DEF Propose, WithinProposalLimits
<1>2. Row(now) \in Proposal
      BY ProposedType
<1>3. /\ proposals'[p].actor = o /\ proposals'[p].operation = a[1]
      /\ proposals'[p].created = now
      /\ proposals'[p].amount = a[3] /\ proposals'[p].targets = a[2]
  <2>1. CASE requires
    <3>1. proposals'[p] = Row(now)
          BY <1>1, <2>1 DEF TypeOK
    <3>. QED BY <3>1
  <2>2. CASE ~requires
    <3>1. proposals'[p] = [Row(now) EXCEPT !.status = proposals'[p].status,
                                           !.approver = proposals'[p].approver]
          BY <1>1, <1>2, <2>2, FinishDecides
    <3>2. PICK s, x : proposals'[p] = [Row(now) EXCEPT !.status = s, !.approver = x]
          BY <3>1
    <3>. QED BY <3>2
  <2>. QED BY <2>1, <2>2
<1>. QED BY <1>1, <1>3 DEF Total

LEMMA ReservationWindow ==
    ASSUME TypeOK, ProposalsFinite, NEW o \in Operator, NEW p \in ProposalId,
           NEW a \in GrantArguments \cup RestrictionArguments,
           Propose(o, p, a[1], a[2], a[3]), a[1] = "grant",
           NEW end \in WindowEnds(proposals'[p].created),
           NEW limit \in Int, policy.rolling <= limit
    PROVE  SumFunction([q \in {q \in ProposalId :
                                /\ proposals'[q] # NoProposal
                                /\ proposals'[q].operation = "grant"
                                /\ proposals'[q].actor = o
                                /\ proposals'[q].created \in (end - Day)..end}
                         |-> Total(proposals'[q])])
           <= limit
<1>1. PICK now \in Arrivals :
             /\ proposals'[p].created = now
             /\ Total(proposals'[p]) = a[3] * Cardinality(a[2])
             /\ a[3] * Cardinality(a[2]) + ProposedSince(o, now - Day) <= policy.rolling
      BY ProposeWrites
<1>. DEFINE G == {q \in ProposalId : /\ Exists(q) /\ proposals[q].actor = o
                                     /\ proposals[q].operation = "grant"
                                     /\ proposals[q].created >= now - Day}
            W == {q \in ProposalId : /\ proposals'[q] # NoProposal
                                     /\ proposals'[q].operation = "grant"
                                     /\ proposals'[q].actor = o
                                     /\ proposals'[q].created \in (end - Day)..end}
            big == [q \in G \cup {p} |-> Total(proposals'[q])]
<1>2. /\ ~Exists(p) /\ proposals'[p] \in Proposal
      /\ \A q \in ProposalId \ {p} : proposals'[q] = proposals[q]
      BY ProposeDecides DEF Decides
<1>3. p \notin G /\ IsFiniteSet(G)
  <2>1. G \subseteq {q \in ProposalId : Exists(q)}
        OBVIOUS
  <2>2. p \notin G
        BY <1>2
  <2>. HIDE DEF G
  <2>. QED BY <2>1, <2>2, FS_Subset DEF ProposalsFinite
<1>4. big \in [G \cup {p} -> Nat]
  <2>1. \A q \in G \cup {p} : proposals'[q] \in Proposal
        BY <1>2 DEF TypeOK, Exists
  <2>2. \A q \in G \cup {p} : Total(proposals'[q]) \in Nat
        BY <2>1, TotalType
  <2>. QED BY <2>2
<1>5. W \in SUBSET (G \cup {p})
  <2>1. now \in Int /\ Day \in Int /\ end \in Int /\ end >= now
        BY <1>1, TimeAssumption DEF WindowEnds, Arrivals, TypeOK
  <2>2. ASSUME NEW q \in W, q # p PROVE q \in G
    <3>1. /\ proposals[q] = proposals'[q] /\ Exists(q)
          /\ proposals[q].operation = "grant" /\ proposals[q].actor = o
          /\ proposals[q].created \in (end - Day)..end
          BY <1>2, <2>2 DEF Exists
    <3>2. proposals[q].created >= now - Day
          BY <2>1, <3>1
    <3>. QED BY <3>1, <3>2
  <2>. HIDE DEF G
  <2>. QED BY <2>2
<1>6. Restrict(big, G) = [q \in G |-> Total(proposals[q])]
      BY <1>2, <1>3 DEF Restrict
<1>7. Restrict(big, W) = [q \in W |-> Total(proposals'[q])]
      BY <1>5 DEF Restrict
<1>8. big[p] = a[3] * Cardinality(a[2])
      BY <1>1
<1>9. SumFunction(Restrict(big, G)) = ProposedSince(o, now - Day)
      BY <1>6 DEF ProposedSince
<1>10. SumFunction([q \in W |-> Total(proposals'[q])])
         <= ProposedSince(o, now - Day) + a[3] * Cardinality(a[2])
  <2>. HIDE DEF G, W, big
  <2>1. SumFunction(Restrict(big, W)) <= SumFunction(Restrict(big, G)) + big[p]
        BY <1>3, <1>4, <1>5, WindowBound
  <2>. QED BY <2>1, <1>7, <1>8, <1>9
<1>11. /\ ProposedSince(o, now - Day) \in Int /\ a[3] * Cardinality(a[2]) \in Int
       /\ SumFunction([q \in W |-> Total(proposals'[q])]) \in Int
  <2>1. Restrict(big, G) \in [G -> Int] /\ Restrict(big, W) \in [W -> Int] /\ big[p] \in Int
        BY <1>4, <1>5 DEF Restrict
  <2>. HIDE DEF G, W, big
  <2>2. IsFiniteSet(W)
    <3>1. IsFiniteSet(G \cup {p})
          BY <1>3, FS_AddElement
    <3>. QED BY <1>5, <3>1, FS_Subset
  <2>3. SumFunction(Restrict(big, G)) \in Int /\ SumFunction(Restrict(big, W)) \in Int
        BY <1>3, <2>1, <2>2, SumSplit
  <2>. QED BY <1>7, <1>8, <1>9, <2>1, <2>3
<1>12. policy.rolling \in Int
  <2>1. policy \in Policies
        BY DEF Propose, TypeOK
  <2>. QED BY <2>1, PolicyAssumption
<1>. HIDE DEF G, big, W
<1>13. SumFunction([q \in W |-> Total(proposals'[q])]) <= limit
       BY <1>1, <1>10, <1>11, <1>12
<1>. QED BY <1>13 DEF W

\* Whatever the order in which requests reach the writer: a grant that is proposed
\* fits, with every grant proposed on record, into each window of a day around it.
THEOREM ProposalCeiling == Spec => ProposalWindow
<1>1. ASSUME TypeOK, ApprovalsRecorded, ProposalsFinite, [Next]_vars, NEW p \in ProposalId,
             proposals[p] = NoProposal, proposals'[p] # NoProposal,
             proposals'[p].operation = "grant", NEW end \in WindowEnds(proposals'[p].created)
      PROVE  SumFunction([q \in {q \in ProposalId :
                                /\ proposals'[q] # NoProposal
                                /\ proposals'[q].operation = "grant"
                                /\ proposals'[q].actor = proposals'[p].actor
                                /\ proposals'[q].created \in (end - Day)..end}
                         |-> Total(proposals'[q])])
             <= policy.rolling
  <2>1. ASSUME NEW o \in Operator, NEW q \in ProposalId, Approve(o, q) PROVE FALSE
    <3>1. Exists(q) /\ Decides(q)
      <4>1. Exists(q)
            BY <2>1 DEF Approve
      <4>. QED BY <1>1, <2>1, <4>1, ApproveDecides DEF ApprovalsRecorded
    <3>. QED BY <1>1, <3>1 DEF Decides, Exists
  <2>2. PICK o \in Operator, q \in ProposalId, a \in GrantArguments \cup RestrictionArguments :
            Propose(o, q, a[1], a[2], a[3])
        BY <1>1, <2>1, DecisionFrame
  <2>3. q = p
        BY <1>1, <2>2, ProposeDecides DEF Decides
  <2>4. proposals'[p].actor = o /\ a[1] = "grant"
        BY <1>1, <2>2, <2>3, ProposeWrites
  <2>5. policy.rolling \in Int /\ policy.rolling <= policy.rolling
    <3>1. policy \in Policies
          BY <1>1, <2>2 DEF Propose, TypeOK
    <3>. QED BY <3>1, PolicyAssumption
  <2>. QED BY <1>1, <2>2, <2>3, <2>4, <2>5, ReservationWindow
<1>2. ASSUME TypeOK, ApprovalsRecorded, ProposalsFinite, [Next]_vars
      PROVE  \A p \in ProposalId :
                /\ proposals[p] = NoProposal /\ proposals'[p] # NoProposal
                /\ proposals'[p].operation = "grant"
                => \A end \in WindowEnds(proposals'[p].created) :
                     SumFunction([q \in {q \in ProposalId :
                                /\ proposals'[q] # NoProposal
                                /\ proposals'[q].operation = "grant"
                                /\ proposals'[q].actor = proposals'[p].actor
                                /\ proposals'[q].created \in (end - Day)..end}
                         |-> Total(proposals'[q])])
                     <= policy.rolling
      BY <1>1, <1>2
<1>. QED BY <1>2, Types, Approvals, FiniteProposals, PTL DEF Spec, ProposalWindow

\* What an operator issued, or proposed to issue, in the day that ends at an instant.
GrantedInWindow(o, end) ==
    SumFunction([e \in {e \in executions : /\ proposals[e.proposal].actor = o
                                           /\ e.at \in (end - Day + 1)..end}
                 |-> Total(proposals[e.proposal])])
ProposedInWindow(o, end) ==
    SumFunction([p \in {p \in ProposalId : /\ proposals[p] # NoProposal
                                           /\ proposals[p].operation = "grant"
                                           /\ proposals[p].actor = o
                                           /\ proposals[p].created \in (end - Day)..end}
                 |-> Total(proposals[p])])

\* In every reachable state and every window of a day, past or not, an operator has
\* issued no more coins than the highest rolling ceiling that is ever configured:
\* no order of restarts, policies and movements of the clock adds two ceilings up.
THEOREM IssuedInADay ==
    ASSUME NEW limit \in Nat, \A c \in Policies : c.rolling <= limit
    PROVE  Spec => [](\A o \in Operator, end \in Int : GrantedInWindow(o, end) <= limit)
<1>. DEFINE Bound == \A o \in Operator, end \in Int : GrantedInWindow(o, end) <= limit
<1>1. Init => Bound
  <2>. SUFFICES ASSUME Init, NEW o \in Operator, NEW end \in Int
                PROVE  GrantedInWindow(o, end) <= limit
       OBVIOUS
  <2>1. executions = {}
        BY DEF Init
  <2>2. GrantedInWindow(o, end) = 0
        BY <2>1, SumEmpty DEF GrantedInWindow
  <2>. QED BY <2>2
<1>2. ASSUME TypeOK, ApprovalsRecorded, MoneyInv, Bound, [Next]_vars PROVE Bound'
  <2>. SUFFICES ASSUME NEW o \in Operator, NEW end \in Int
                PROVE  GrantedInWindow(o, end)' <= limit
       OBVIOUS
  <2>1. \A e \in executions : proposals'[e.proposal] = proposals[e.proposal]
        BY <1>2, ExecutedUntouched
  <2>2. CASE UNCHANGED executions
    <3>1. GrantedInWindow(o, end)' = GrantedInWindow(o, end)
          BY <2>1, <2>2 DEF GrantedInWindow
    <3>. QED BY <1>2, <3>1
  <2>3. ASSUME NEW x \in Operator, NEW p \in ProposalId, ExecuteGrant(x, p)
        PROVE  GrantedInWindow(o, end)' <= limit
    <3>. DEFINE n == [proposal |-> p, at |-> clock]
    <3>1. /\ executions' = executions \cup {n} /\ UNCHANGED proposals
          /\ proposals[p].actor = x /\ policy \in Policies
          BY <1>2, <2>3 DEF ExecuteGrant, Issue, TypeOK
    <3>2. n.proposal = p /\ n.at = clock /\ clock \in Int /\ Day \in Int
          BY <1>2, TimeAssumption DEF TypeOK
    <3>. HIDE DEF n
    <3>3. CASE x = o /\ clock \in (end - Day + 1)..end
      <4>1. end \in clock..(clock + Day - 1)
            BY <3>2, <3>3
      <4>2. policy.rolling <= limit
            BY <3>1
      <4>3. SumFunction([f \in {f \in executions' :
                                /\ proposals[f.proposal].actor = o
                                /\ f.at \in (end - Day + 1)..end}
                         |-> Total(proposals[f.proposal])]) <= limit
            BY <1>2, <2>3, <3>3, <4>1, <4>2, ExecutionWindow
      <4>. QED BY <3>1, <4>3 DEF GrantedInWindow, Total
    <3>4. CASE ~(x = o /\ clock \in (end - Day + 1)..end)
      <4>1. {e \in executions' : proposals[e.proposal].actor = o /\ e.at \in (end - Day + 1)..end}
            = {e \in executions : proposals[e.proposal].actor = o /\ e.at \in (end - Day + 1)..end}
            BY <3>1, <3>2, <3>4
      <4>2. GrantedInWindow(o, end)' = GrantedInWindow(o, end)
            BY <3>1, <4>1 DEF GrantedInWindow, Total
      <4>. QED BY <1>2, <4>2
    <3>. QED BY <3>3, <3>4
  <2>. QED BY <1>2, <2>2, <2>3, ExecutionFrame
<1>. QED BY <1>1, <1>2, Types, Approvals, Money, PTL DEF Spec

\* The same of what is proposed: no order in which requests reach the writer, no
\* late request and no approval fills a window of a day beyond that ceiling.
THEOREM ProposedInADay ==
    ASSUME NEW limit \in Nat, \A c \in Policies : c.rolling <= limit
    PROVE  Spec => [](\A o \in Operator, end \in Int : ProposedInWindow(o, end) <= limit)
<1>. DEFINE Bound == \A o \in Operator, end \in Int : ProposedInWindow(o, end) <= limit
<1>1. Init => Bound
  <2>. SUFFICES ASSUME Init, NEW o \in Operator, NEW end \in Int
                PROVE  ProposedInWindow(o, end) <= limit
       OBVIOUS
  <2>1. \A p \in ProposalId : proposals[p] = NoProposal
        BY DEF Init
  <2>2. ProposedInWindow(o, end) = 0
        BY <2>1, SumEmpty DEF ProposedInWindow
  <2>. QED BY <2>2
<1>2. ASSUME TypeOK, ApprovalsRecorded, ProposalsFinite, Bound, [Next]_vars PROVE Bound'
  <2>. SUFFICES ASSUME NEW o \in Operator, NEW end \in Int
                PROVE  ProposedInWindow(o, end)' <= limit
       OBVIOUS
  <2>. DEFINE Counted(r) == /\ r # NoProposal /\ r.operation = "grant" /\ r.actor = o
                            /\ r.created \in (end - Day)..end
  <2>1. ASSUME \A q \in ProposalId : /\ Counted(proposals'[q]) <=> Counted(proposals[q])
                                     /\ Counted(proposals[q]) =>
                                          Total(proposals'[q]) = Total(proposals[q])
        PROVE  ProposedInWindow(o, end)' <= limit
    <3>1. {q \in ProposalId : Counted(proposals'[q])} = {q \in ProposalId : Counted(proposals[q])}
          BY <2>1
    <3>2. [q \in {q \in ProposalId : Counted(proposals'[q])} |-> Total(proposals'[q])]
          = [q \in {q \in ProposalId : Counted(proposals[q])} |-> Total(proposals[q])]
          BY <2>1, <3>1
    <3>3. ProposedInWindow(o, end)' = ProposedInWindow(o, end)
          BY <3>2 DEF ProposedInWindow, Total
    <3>. QED BY <1>2, <3>3
  <2>2. CASE UNCHANGED proposals
        BY <2>1, <2>2
  <2>3. ASSUME NEW x \in Operator, NEW p \in ProposalId, Approve(x, p)
        PROVE  ProposedInWindow(o, end)' <= limit
    <3>1. Exists(p) /\ Decides(p)
      <4>1. Exists(p)
            BY <2>3 DEF Approve
      <4>. QED BY <1>2, <2>3, <4>1, ApproveDecides DEF ApprovalsRecorded
    <3>2. proposals[p] \in Proposal /\ proposals'[p] \in Proposal
          BY <1>2, <3>1 DEF Decides, Exists, TypeOK
    <3>3. /\ proposals'[p].operation = proposals[p].operation
          /\ proposals'[p].actor = proposals[p].actor
          /\ proposals'[p].created = proposals[p].created
          /\ proposals'[p].amount = proposals[p].amount
          /\ proposals'[p].targets = proposals[p].targets
      <4>1. PICK s, a : proposals'[p] = [proposals[p] EXCEPT !.status = s, !.approver = a]
            BY <3>1 DEF Decides
      <4>. QED BY <3>2, <4>1 DEF Proposal
    <3>4. Total(proposals'[p]) = Total(proposals[p])
          BY <3>3 DEF Total
    <3>5. Counted(proposals'[p]) <=> Counted(proposals[p])
          BY <3>2, <3>3, NoneAssumption
    <3>6. \A q \in ProposalId \ {p} : proposals'[q] = proposals[q]
          BY <3>1 DEF Decides
    <3>. HIDE DEF Counted
    <3>. QED BY <2>1, <3>4, <3>5, <3>6
  <2>4. ASSUME NEW x \in Operator, NEW p \in ProposalId,
               NEW a \in GrantArguments \cup RestrictionArguments,
               Propose(x, p, a[1], a[2], a[3])
        PROVE  ProposedInWindow(o, end)' <= limit
    <3>1. ~Exists(p) /\ \A q \in ProposalId \ {p} : proposals'[q] = proposals[q]
          BY <1>2, <2>4, ProposeDecides DEF Decides
    <3>2. CASE ~Counted(proposals'[p])
      <4>1. ~Counted(proposals[p])
            BY <3>1 DEF Exists
      <4>. HIDE DEF Counted
      <4>. QED BY <2>1, <3>1, <3>2, <4>1
    <3>3. CASE Counted(proposals'[p])
      <4>1. PICK now \in Arrivals : /\ proposals'[p].actor = x /\ proposals'[p].operation = a[1]
                                    /\ proposals'[p].created = now
            BY <1>2, <2>4, ProposeWrites
      <4>2. x = o /\ a[1] = "grant" /\ now \in (end - Day)..end
            BY <3>3, <4>1
      <4>3. end \in WindowEnds(proposals'[p].created)
            BY <1>2, <4>1, <4>2, TimeAssumption DEF WindowEnds, Arrivals, TypeOK
      <4>4. policy.rolling <= limit
        <5>1. policy \in Policies
              BY <1>2, <2>4 DEF Propose, TypeOK
        <5>. QED BY <5>1
      <4>5. SumFunction([q \in {q \in ProposalId :
                                /\ proposals'[q] # NoProposal
                                /\ proposals'[q].operation = "grant"
                                /\ proposals'[q].actor = o
                                /\ proposals'[q].created \in (end - Day)..end}
                         |-> Total(proposals'[q])]) <= limit
            BY <1>2, <2>4, <4>2, <4>3, <4>4, ReservationWindow
      <4>. QED BY <4>5 DEF ProposedInWindow, Total
    <3>. QED BY <3>2, <3>3
  <2>. QED BY <1>2, <2>2, <2>3, <2>4, DecisionFrame
<1>. QED BY <1>1, <1>2, Types, Approvals, FiniteProposals, PTL DEF Spec

\* What an operator took back in the day that ends at an instant.
CorrectedInWindow(o, end) ==
    SumFunction([c \in {c \in corrections : c.actor = o /\ c.at \in (end - Day + 1)..end}
                 |-> c.amount])

LEMMA CorrectionFrame ==
    ASSUME [Next]_vars
    PROVE  \/ UNCHANGED corrections
           \/ \E o \in Operator, p \in ProposalId, t \in Target, amount \in Amount, b \in BOOLEAN :
                 CorrectGrant(o, p, t, amount, b)
<1>1. \A os : Bootstrap(os) => UNCHANGED corrections
      BY DEF Bootstrap, ledgerVars
<1>2. \A o, target, c, enabled : ChangeCapability(o, target, c, enabled) => UNCHANGED corrections
      BY DEF ChangeCapability, ledgerVars
<1>3. \A o, p, operation, ts, amount : Propose(o, p, operation, ts, amount) => UNCHANGED corrections
      BY DEF Propose, ledgerVars
<1>4. \A o, p : Approve(o, p) \/ ExecuteGrant(o, p) => UNCHANGED corrections
      BY DEF Approve, ExecuteGrant, ledgerVars
<1>5. (\E t \in Target : Join(t)) \/ Restart \/ Tick \/ UNCHANGED vars => UNCHANGED corrections
      BY DEF Join, Restart, Tick, vars, ledgerVars
<1>. QED BY <1>1, <1>2, <1>3, <1>4, <1>5 DEF Next

LEMMA CorrectionWindow ==
    ASSUME TypeOK, MoneyInv, NEW o \in Operator, NEW p \in ProposalId, NEW t \in Target,
           NEW amount \in Amount, NEW b \in BOOLEAN, CorrectGrant(o, p, t, amount, b),
           NEW end \in clock..(clock + Day - 1), NEW limit \in Int, policy.rolling <= limit
    PROVE  CorrectedInWindow(o, end)' <= limit
<1>1. PICK n : /\ corrections' = corrections \cup {n}
               /\ n.proposal = p /\ n.target = t /\ n.actor = o
               /\ n.amount = amount /\ n.at = clock
  <2>. DEFINE Record(flag) == [proposal |-> p, target |-> t, actor |-> o, amount |-> amount,
                               at |-> clock, bypassed |-> flag]
  <2>1. corrections' = corrections \cup {Record(b /\ Frozen(t))}
        BY DEF CorrectGrant
  <2>2. \A flag : /\ Record(flag).proposal = p /\ Record(flag).target = t
                  /\ Record(flag).actor = o /\ Record(flag).amount = amount
                  /\ Record(flag).at = clock
        OBVIOUS
  <2>. HIDE DEF Record
  <2>. QED BY <2>1, <2>2
<1>. DEFINE G == {c \in corrections : c.actor = o /\ c.at > clock - Day}
            W == {c \in corrections' : c.actor = o /\ c.at \in (end - Day + 1)..end}
            big == [c \in G \cup {n} |-> c.amount]
<1>2. n \notin G /\ amount \in Nat
      BY <1>1, AmountAssumption DEF CorrectGrant, Corrected
<1>3. IsFiniteSet(G)
      BY FS_Subset DEF MoneyInv
<1>4. big \in [G \cup {n} -> Nat]
      BY <1>1, <1>2 DEF TypeOK
<1>5. W \in SUBSET (G \cup {n})
  <2>1. clock \in Int /\ Day \in Int /\ end \in Int /\ end >= clock
        BY TimeAssumption DEF TypeOK
  <2>2. \A c \in corrections : c.at \in Int
        BY TimeAssumption DEF TypeOK
  <2>3. ASSUME NEW c \in corrections, c.at \in (end - Day + 1)..end PROVE c.at > clock - Day
        BY <2>1, <2>2, <2>3
  <2>. QED BY <1>1, <2>3
<1>6. big[n] = amount
      BY <1>1
<1>7. Restrict(big, G) = [c \in G |-> c.amount] /\ Restrict(big, W) = [c \in W |-> c.amount]
      BY <1>5 DEF Restrict
<1>8. SumFunction(Restrict(big, G)) = CorrectedSince(o, clock - Day)
      BY <1>7 DEF CorrectedSince
<1>9. /\ CorrectedSince(o, clock - Day) \in Int
      /\ SumFunction([c \in W |-> c.amount]) \in Int
  <2>1. Restrict(big, G) \in [G -> Int] /\ Restrict(big, W) \in [W -> Int]
        BY <1>4, <1>5 DEF Restrict
  <2>. HIDE DEF G, W, big
  <2>2. IsFiniteSet(W)
    <3>1. IsFiniteSet(G \cup {n})
          BY <1>3, FS_AddElement
    <3>. QED BY <1>5, <3>1, FS_Subset
  <2>. QED BY <1>3, <1>7, <1>8, <2>1, <2>2, SumSplit
<1>10. SumFunction([c \in W |-> c.amount]) <= CorrectedSince(o, clock - Day) + amount
  <2>. HIDE DEF G, W, big
  <2>1. SumFunction(Restrict(big, W)) <= SumFunction(Restrict(big, G)) + big[n]
        BY <1>2, <1>3, <1>4, <1>5, WindowBound
  <2>. QED BY <2>1, <1>6, <1>7, <1>8
<1>11. /\ policy.rolling \in Int
       /\ CorrectedSince(o, clock - Day) + amount <= policy.rolling
  <2>1. policy \in Policies
        BY DEF CorrectGrant, TypeOK
  <2>. QED BY <2>1, PolicyAssumption DEF CorrectGrant
<1>. HIDE DEF G, big, W
<1>12. SumFunction([c \in W |-> c.amount]) <= limit
       BY <1>2, <1>9, <1>10, <1>11
<1>. QED BY <1>12 DEF W, CorrectedInWindow

\* And of what is taken back by corrections, with or without a bypass.
THEOREM CorrectedInADay ==
    ASSUME NEW limit \in Nat, \A c \in Policies : c.rolling <= limit
    PROVE  Spec => [](\A o \in Operator, end \in Int : CorrectedInWindow(o, end) <= limit)
<1>. DEFINE Bound == \A o \in Operator, end \in Int : CorrectedInWindow(o, end) <= limit
<1>1. Init => Bound
  <2>. SUFFICES ASSUME Init, NEW o \in Operator, NEW end \in Int
                PROVE  CorrectedInWindow(o, end) <= limit
       OBVIOUS
  <2>1. corrections = {}
        BY DEF Init
  <2>2. CorrectedInWindow(o, end) = 0
        BY <2>1, SumEmpty DEF CorrectedInWindow
  <2>. QED BY <2>2
<1>2. ASSUME TypeOK, MoneyInv, Bound, [Next]_vars PROVE Bound'
  <2>. SUFFICES ASSUME NEW o \in Operator, NEW end \in Int
                PROVE  CorrectedInWindow(o, end)' <= limit
       OBVIOUS
  <2>1. CASE UNCHANGED corrections
    <3>1. CorrectedInWindow(o, end)' = CorrectedInWindow(o, end)
          BY <2>1 DEF CorrectedInWindow
    <3>. QED BY <1>2, <3>1
  <2>2. ASSUME NEW x \in Operator, NEW p \in ProposalId, NEW t \in Target,
               NEW amount \in Amount, NEW b \in BOOLEAN, CorrectGrant(x, p, t, amount, b)
        PROVE  CorrectedInWindow(o, end)' <= limit
    <3>. DEFINE Mine == {c \in corrections : c.actor = o /\ c.at \in (end - Day + 1)..end}
    <3>1. clock \in Int /\ Day \in Int /\ policy \in Policies
          BY <1>2, <2>2, TimeAssumption DEF CorrectGrant, TypeOK
    <3>2. CASE x = o /\ clock \in (end - Day + 1)..end
      <4>1. end \in clock..(clock + Day - 1) /\ policy.rolling <= limit
            BY <3>1, <3>2
      <4>. QED BY <1>2, <2>2, <3>2, <4>1, CorrectionWindow
    <3>3. CASE ~(x = o /\ clock \in (end - Day + 1)..end)
      <4>. DEFINE Record(flag) == [proposal |-> p, target |-> t, actor |-> x, amount |-> amount,
                                   at |-> clock, bypassed |-> flag]
      <4>1. corrections' = corrections \cup {Record(b /\ Frozen(t))}
            BY <2>2 DEF CorrectGrant
      <4>2. \A flag : Record(flag).actor = x /\ Record(flag).at = clock
            OBVIOUS
      <4>. HIDE DEF Record
      <4>3. {c \in corrections' : c.actor = o /\ c.at \in (end - Day + 1)..end} = Mine
            BY <3>3, <4>1, <4>2
      <4>4. CorrectedInWindow(o, end)' = CorrectedInWindow(o, end)
            BY <4>3 DEF CorrectedInWindow
      <4>. QED BY <1>2, <4>4
    <3>. QED BY <3>2, <3>3
  <2>. QED BY <1>2, <2>1, <2>2, CorrectionFrame
<1>. QED BY <1>1, <1>2, Types, Money, PTL DEF Spec
=============================================================================
