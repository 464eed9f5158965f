--------------------------- MODULE ExpensesProofs ---------------------------
(***************************************************************************)
(* TLAPS proofs about expense reports and the batches that pay them, for   *)
(* any reports, entries, transactions, approvers and requests: a command   *)
(* has one outcome, a report is where its chain of approvals is, a card    *)
(* payment is claimed once, totals agree with the entries, and a report is *)
(* paid once, as it was approved.                                          *)
(***************************************************************************)
EXTENDS Reimbursement, FiniteSetTheorems, TLAPS
----------------------------------------------------------------------------
(* Sums.  MapThenSumSet recurs over the subsets of a set, each time with   *)
(* an element it chooses; a minimal counterexample stands for induction.   *)

Chosen(s) == CHOOSE x \in s : TRUE

\* The table that the fold of community module Folds recurs over.
IsSumTable(g, f, S) ==
    g = [s \in SUBSET S |-> IF s = {} THEN 0 ELSE f[Chosen(s)] + g[s \ {Chosen(s)}]]

SumTable(f, S) == CHOOSE g : IsSumTable(g, f, S)

Sum(f, S) == SumTable(f, S)[S]

LEMMA ChosenIn == ASSUME NEW s, s # {} PROVE Chosen(s) \in s
BY DEF Chosen

\* Every set of subsets of a finite set has a minimal one.
LEMMA MinimalSet ==
    ASSUME NEW S, IsFiniteSet(S), NEW B \in SUBSET SUBSET S, B # {}
    PROVE  \E s \in B : \A u \in SUBSET s : u # s => u \notin B
<1>1. PICK s \in B : \A u \in B : ~(<<u, s>> \in StrictSubsetOrdering(S))
  <2>1. B \subseteq FiniteSubsetsOf(S)
    BY FS_FiniteSubsetsOfFinite
  <2>2. IsWellFoundedOn(StrictSubsetOrdering(S), FiniteSubsetsOf(S))
    BY FS_StrictSubsetOrderingWellFounded
  <2> QED
    BY <2>1, <2>2, WFMin
<1>2. SUFFICES ASSUME NEW u \in SUBSET s, u # s PROVE u \notin B
  OBVIOUS
<1>3. u \in SUBSET S /\ s \in SUBSET S
  OBVIOUS
<1>4. <<u, s>> \in StrictSubsetOrdering(S)
  BY <1>2, <1>3 DEF StrictSubsetOrdering
<1> QED
  BY <1>1, <1>4

\* Tables of sets that overlap, of functions that agree there, agree.
LEMMA TablesAgree ==
    ASSUME NEW S, IsFiniteSet(S), NEW T, NEW R \in SUBSET (S \cap T),
           NEW f, NEW e, \A x \in R : f[x] = e[x],
           NEW g, IsSumTable(g, f, S), NEW h, IsSumTable(h, e, T)
    PROVE  g[R] = h[R]
<1> DEFINE B == {s \in SUBSET R : g[s] # h[s]}
<1>1. SUFFICES ASSUME B # {} PROVE FALSE
  OBVIOUS
<1>2. PICK s \in B : \A u \in SUBSET s : u # s => u \notin B
  <2>1. B \in SUBSET SUBSET S
    OBVIOUS
  <2> HIDE DEF B
  <2> QED
    BY <1>1, <2>1, MinimalSet
<1>3. /\ g[s] = IF s = {} THEN 0 ELSE f[Chosen(s)] + g[s \ {Chosen(s)}]
      /\ h[s] = IF s = {} THEN 0 ELSE e[Chosen(s)] + h[s \ {Chosen(s)}]
  <2>1. s \in SUBSET S /\ s \in SUBSET T
    OBVIOUS
  <2> QED
    BY <2>1 DEF IsSumTable
<1>4. s # {}
  BY <1>3
<1>5. Chosen(s) \in s
  BY <1>4, ChosenIn
<1>6. g[s \ {Chosen(s)}] = h[s \ {Chosen(s)}]
  <2> DEFINE u == s \ {Chosen(s)}
  <2>1. u \in SUBSET s /\ u # s /\ u \in SUBSET R
    BY <1>5
  <2> QED
    BY <1>2, <2>1
<1>7. f[Chosen(s)] = e[Chosen(s)]
  BY <1>5
<1> QED
  BY <1>3, <1>6, <1>7

LEMMA TableExists ==
    ASSUME NEW S, IsFiniteSet(S), NEW f
    PROVE  IsSumTable(SumTable(f, S), f, S)
<1> DEFINE B == {s \in SUBSET S : ~ \E g : IsSumTable(g, f, s)}
<1>1. SUFFICES ASSUME B # {} PROVE FALSE
  <2>1. B = {} => \E g : IsSumTable(g, f, S)
    OBVIOUS
  <2> QED
    BY <1>1, <2>1 DEF SumTable
<1>2. PICK s \in B : \A u \in SUBSET s : u # s => u \notin B
  <2>1. B \in SUBSET SUBSET S
    OBVIOUS
  <2> HIDE DEF B
  <2> QED
    BY <1>1, <2>1, MinimalSet
<1>3. s \in SUBSET S /\ \A u \in SUBSET s : u # s => u \in SUBSET S /\ \E g : IsSumTable(g, f, u)
  BY <1>2
<1> HIDE DEF B
<1>4. \A u \in SUBSET s : u # s => IsSumTable(SumTable(f, u), f, u)
  BY <1>3 DEF SumTable
<1> DEFINE table == [u \in SUBSET s |-> IF u = {} THEN 0
                                        ELSE f[Chosen(u)] + Sum(f, u \ {Chosen(u)})]
<1>5. ASSUME NEW u \in SUBSET s, u # {} PROVE table[u \ {Chosen(u)}] = Sum(f, u \ {Chosen(u)})
  <2> DEFINE v == u \ {Chosen(u)}
             w == v \ {Chosen(v)}
  <2>1. Chosen(u) \in u /\ v \in SUBSET s /\ v # s
    BY <1>5, ChosenIn
  <2>2. Sum(f, v) = IF v = {} THEN 0 ELSE f[Chosen(v)] + SumTable(f, v)[w]
    <3>1. IsSumTable(SumTable(f, v), f, v)
      BY <1>4, <2>1
    <3>2. v \in SUBSET v
      OBVIOUS
    <3> HIDE DEF v
    <3> QED
      BY <3>1, <3>2 DEF IsSumTable, Sum
  <2>3. ASSUME v # {} PROVE SumTable(f, v)[w] = Sum(f, w)
    <3>1. /\ w \in SUBSET s /\ w # s
          /\ w \in SUBSET (v \cap w)
      BY <2>1, <2>3, ChosenIn
    <3>2. IsSumTable(SumTable(f, v), f, v) /\ IsSumTable(SumTable(f, w), f, w)
      BY <1>4, <2>1, <3>1
    <3>3. IsFiniteSet(v)
      <4>1. v \in SUBSET S
        BY <1>3, <2>1
      <4> QED
        BY <4>1, FS_Subset
    <3> HIDE DEF v, w
    <3> QED
      BY <3>1, <3>2, <3>3, TablesAgree DEF Sum
  <2>4. table[v] = IF v = {} THEN 0 ELSE f[Chosen(v)] + Sum(f, w)
    BY <2>1
  <2> HIDE DEF table, v, w
  <2>5. table[v] = Sum(f, v)
    BY <2>2, <2>3, <2>4
  <2> QED
    BY <2>5 DEF v
<1>6. IsSumTable(table, f, s)
  <2>1. table = [u \in SUBSET s |-> IF u = {} THEN 0
                                    ELSE f[Chosen(u)] + table[u \ {Chosen(u)}]]
    BY <1>5
  <2> HIDE DEF table
  <2> QED
    BY <2>1 DEF IsSumTable
<1> QED
  BY <1>2, <1>6 DEF B

LEMMA SumEmpty == ASSUME NEW f PROVE Sum(f, {}) = 0
<1>1. IsSumTable(SumTable(f, {}), f, {})
  BY TableExists, FS_EmptySet
<1> QED
  BY <1>1 DEF Sum, IsSumTable

LEMMA SumUnfold ==
    ASSUME NEW S, IsFiniteSet(S), S # {}, NEW f
    PROVE  Sum(f, S) = f[Chosen(S)] + Sum(f, S \ {Chosen(S)})
<1> DEFINE u == S \ {Chosen(S)}
<1>1. IsSumTable(SumTable(f, S), f, S)
  BY TableExists
<1>2. IsFiniteSet(u) /\ IsSumTable(SumTable(f, u), f, u)
  BY TableExists, FS_RemoveElement
<1>3. SumTable(f, S)[S] = f[Chosen(S)] + SumTable(f, S)[u]
  BY <1>1 DEF IsSumTable
<1>4. SumTable(f, S)[u] = SumTable(f, u)[u]
  <2>1. u \in SUBSET (S \cap u)
    OBVIOUS
  <2> HIDE DEF u
  <2> QED
    BY <1>1, <1>2, <2>1, TablesAgree
<1> QED
  BY <1>3, <1>4 DEF Sum

LEMMA SumSame ==
    ASSUME NEW S, IsFiniteSet(S), NEW f, NEW e, \A x \in S : f[x] = e[x]
    PROVE  Sum(f, S) = Sum(e, S)
<1>1. IsSumTable(SumTable(f, S), f, S) /\ IsSumTable(SumTable(e, S), e, S)
  BY TableExists
<1>2. S \in SUBSET (S \cap S)
  OBVIOUS
<1> QED
  BY <1>1, <1>2, TablesAgree DEF Sum

LEMMA SumInt ==
    ASSUME NEW S, IsFiniteSet(S), NEW f, \A x \in S : f[x] \in Int
    PROVE  Sum(f, S) \in Int
<1> DEFINE B == {s \in SUBSET S : Sum(f, s) \notin Int}
<1>1. SUFFICES ASSUME B # {} PROVE FALSE
  OBVIOUS
<1>2. PICK s \in B : \A u \in SUBSET s : u # s => u \notin B
  <2>1. B \in SUBSET SUBSET S
    OBVIOUS
  <2> HIDE DEF B
  <2> QED
    BY <1>1, <2>1, MinimalSet
<1>3. s # {} /\ IsFiniteSet(s)
  <2>1. Sum(f, {}) = 0
    BY SumEmpty
  <2>2. s \in SUBSET S /\ Sum(f, s) # Sum(f, {})
    BY <2>1
  <2>3. IsFiniteSet(s)
    BY <2>2, FS_Subset
  <2> QED
    BY <2>2, <2>3
<1>4. Chosen(s) \in s /\ Sum(f, s) = f[Chosen(s)] + Sum(f, s \ {Chosen(s)})
  BY <1>3, ChosenIn, SumUnfold
<1>5. Sum(f, s \ {Chosen(s)}) \in Int
  <2> DEFINE u == s \ {Chosen(s)}
  <2>1. u \in SUBSET s /\ u # s /\ u \in SUBSET S
    BY <1>4
  <2> QED
    BY <1>2, <2>1
<1>6. f[Chosen(s)] \in Int
  BY <1>4
<1> QED
  BY <1>4, <1>5, <1>6

LEMMA SumNat ==
    ASSUME NEW S, IsFiniteSet(S), NEW f, \A x \in S : f[x] \in Nat
    PROVE  Sum(f, S) \in Nat
<1> DEFINE B == {s \in SUBSET S : Sum(f, s) \notin Nat}
<1>1. SUFFICES ASSUME B # {} PROVE FALSE
  OBVIOUS
<1>2. PICK s \in B : \A u \in SUBSET s : u # s => u \notin B
  <2>1. B \in SUBSET SUBSET S
    OBVIOUS
  <2> HIDE DEF B
  <2> QED
    BY <1>1, <2>1, MinimalSet
<1>3. s # {} /\ IsFiniteSet(s)
  <2>1. Sum(f, {}) = 0
    BY SumEmpty
  <2>2. s \in SUBSET S /\ Sum(f, s) # Sum(f, {})
    BY <2>1
  <2>3. IsFiniteSet(s)
    BY <2>2, FS_Subset
  <2> QED
    BY <2>2, <2>3
<1>4. Chosen(s) \in s /\ Sum(f, s) = f[Chosen(s)] + Sum(f, s \ {Chosen(s)})
  BY <1>3, ChosenIn, SumUnfold
<1>5. Sum(f, s \ {Chosen(s)}) \in Nat
  <2> DEFINE u == s \ {Chosen(s)}
  <2>1. u \in SUBSET s /\ u # s /\ u \in SUBSET S
    BY <1>4
  <2> QED
    BY <1>2, <2>1
<1>6. f[Chosen(s)] \in Nat
  BY <1>4
<1> QED
  BY <1>4, <1>5, <1>6

\* The order of the choices does not matter.
LEMMA SumRemove ==
    ASSUME NEW S, IsFiniteSet(S), NEW f, \A x \in S : f[x] \in Int, NEW k \in S
    PROVE  Sum(f, S) = f[k] + Sum(f, S \ {k})
<1> DEFINE B == {s \in SUBSET S : \E j \in s : Sum(f, s) # f[j] + Sum(f, s \ {j})}
<1>1. SUFFICES ASSUME B # {} PROVE FALSE
  OBVIOUS
<1>2. PICK s \in B : \A u \in SUBSET s : u # s => u \notin B
  <2>1. B \in SUBSET SUBSET S
    OBVIOUS
  <2> HIDE DEF B
  <2> QED
    BY <1>1, <2>1, MinimalSet
<1>3. PICK j \in s : Sum(f, s) # f[j] + Sum(f, s \ {j})
  BY <1>2
<1>4. IsFiniteSet(s) /\ s \in SUBSET S
  BY <1>2, FS_Subset
<1> DEFINE c == Chosen(s)
           v == s \ {c}
           u == s \ {j}
           w == s \ {c, j}
<1>5. c \in s /\ Sum(f, s) = f[c] + Sum(f, v)
  BY <1>3, <1>4, ChosenIn, SumUnfold
<1> HIDE DEF c
<1>6. c # j
  BY <1>3, <1>5
<1>7. Sum(f, v) = f[j] + Sum(f, w)
  <2>1. v \in SUBSET s /\ v # s /\ v \in SUBSET S /\ j \in v /\ w = v \ {j}
    BY <1>4, <1>5, <1>6
  <2>2. v \notin B
    BY <1>2, <2>1
  <2> QED
    BY <2>1, <2>2
<1>8. Sum(f, u) = f[c] + Sum(f, w)
  <2>1. u \in SUBSET s /\ u # s /\ u \in SUBSET S /\ c \in u /\ w = u \ {c}
    BY <1>4, <1>5, <1>6
  <2>2. u \notin B
    BY <1>2, <2>1
  <2> QED
    BY <2>1, <2>2
<1>9. f[c] \in Int /\ f[j] \in Int /\ Sum(f, w) \in Int
  <2>1. IsFiniteSet(w) /\ w \in SUBSET S
    BY <1>4, FS_Subset
  <2>2. Sum(f, w) \in Int
    BY <2>1, SumInt
  <2> QED
    BY <1>4, <1>5, <2>2
<1> HIDE DEF u, v, w
<1>10. Sum(f, s) = f[j] + Sum(f, u)
  BY <1>5, <1>7, <1>8, <1>9
<1> QED
  BY <1>3, <1>10 DEF u

----------------------------------------------------------------------------
(* The amounts of a sequence of entries or notes.                          *)

AmountsIn(l, S) == MapThenSumSet(LAMBDA k : l[k].amount, S)

\* The table of the fold over the amounts in l.
IsAmountTable(g, l, S) ==
    g = [s \in SUBSET S |-> IF s = {} THEN 0 ELSE l[Chosen(s)].amount + g[s \ {Chosen(s)}]]

AmountTable(l, S) == CHOOSE g : IsAmountTable(g, l, S)

LEMMA AmountsUnfold == ASSUME NEW S, NEW l PROVE AmountsIn(l, S) = AmountTable(l, S)[S]
BY DEF AmountsIn, MapThenSumSet, MapThenFoldSet, AmountTable, IsAmountTable, Chosen

LEMMA AmountsAreSum ==
    ASSUME NEW S, IsFiniteSet(S), NEW l
    PROVE  AmountsIn(l, S) = Sum([k \in S |-> l[k].amount], S)
<1> DEFINE f == [k \in S |-> l[k].amount]
<1>1. \A g : IsAmountTable(g, l, S) <=> IsSumTable(g, f, S)
  <2>1. ASSUME NEW s \in SUBSET S, s # {} PROVE f[Chosen(s)] = l[Chosen(s)].amount
    BY <2>1, ChosenIn
  <2> HIDE DEF f
  <2>2. ASSUME NEW g PROVE [s \in SUBSET S |-> IF s = {} THEN 0
                                 ELSE l[Chosen(s)].amount + g[s \ {Chosen(s)}]]
                         = [s \in SUBSET S |-> IF s = {} THEN 0
                                 ELSE f[Chosen(s)] + g[s \ {Chosen(s)}]]
    BY <2>1
  <2> QED
    BY <2>2 DEF IsSumTable, IsAmountTable
<1> HIDE DEF f
<1>2. IsSumTable(SumTable(f, S), f, S)
  BY TableExists
<1>3. IsSumTable(AmountTable(l, S), f, S)
  BY <1>1, <1>2 DEF AmountTable
<1>4. S \in SUBSET (S \cap S)
  OBVIOUS
<1>5. AmountTable(l, S)[S] = SumTable(f, S)[S]
  BY <1>2, <1>3, <1>4, TablesAgree
<1> QED
  BY <1>5, AmountsUnfold DEF Sum, f

LEMMA AmountsEmpty == ASSUME NEW l PROVE AmountsIn(l, {}) = 0
BY AmountsAreSum, SumEmpty, FS_EmptySet

LEMMA AmountsSame ==
    ASSUME NEW S, IsFiniteSet(S), NEW l, NEW m, \A k \in S : l[k].amount = m[k].amount
    PROVE  AmountsIn(l, S) = AmountsIn(m, S)
<1>1. [k \in S |-> l[k].amount] = [k \in S |-> m[k].amount]
  OBVIOUS
<1> QED
  BY <1>1, AmountsAreSum

LEMMA AmountsInt ==
    ASSUME NEW S, IsFiniteSet(S), NEW l, \A k \in S : l[k].amount \in Int
    PROVE  AmountsIn(l, S) \in Int
<1> DEFINE f == [k \in S |-> l[k].amount]
<1>1. \A x \in S : f[x] \in Int
  OBVIOUS
<1> HIDE DEF f
<1>2. Sum(f, S) \in Int
  BY <1>1, SumInt
<1> QED
  BY <1>2, AmountsAreSum DEF f

LEMMA AmountsNat ==
    ASSUME NEW S, IsFiniteSet(S), NEW l, \A k \in S : l[k].amount \in Nat
    PROVE  AmountsIn(l, S) \in Nat
<1> DEFINE f == [k \in S |-> l[k].amount]
<1>1. \A x \in S : f[x] \in Nat
  OBVIOUS
<1> HIDE DEF f
<1>2. Sum(f, S) \in Nat
  BY <1>1, SumNat
<1> QED
  BY <1>2, AmountsAreSum DEF f

LEMMA AmountsRemove ==
    ASSUME NEW S, IsFiniteSet(S), NEW l, \A k \in S : l[k].amount \in Int, NEW k \in S
    PROVE  AmountsIn(l, S) = l[k].amount + AmountsIn(l, S \ {k})
<1> DEFINE f == [i \in S |-> l[i].amount]
           e == [i \in S \ {k} |-> l[i].amount]
<1>1. /\ \A x \in S : f[x] \in Int
      /\ f[k] = l[k].amount
      /\ \A x \in S \ {k} : f[x] = e[x]
  OBVIOUS
<1>2. IsFiniteSet(S \ {k})
  BY FS_RemoveElement
<1>3. AmountsIn(l, S) = Sum(f, S) /\ AmountsIn(l, S \ {k}) = Sum(e, S \ {k})
  BY <1>2, AmountsAreSum
<1> HIDE DEF f, e
<1>4. Sum(f, S) = f[k] + Sum(f, S \ {k})
  BY <1>1, SumRemove
<1>5. Sum(f, S \ {k}) = Sum(e, S \ {k})
  BY <1>1, <1>2, SumSame
<1> QED
  BY <1>1, <1>3, <1>4, <1>5

LEMMA AmountsSplit ==
    ASSUME NEW T, IsFiniteSet(T), NEW l, \A k \in T : l[k].amount \in Int, NEW S \in SUBSET T
    PROVE  AmountsIn(l, T) = AmountsIn(l, S) + AmountsIn(l, T \ S)
<1> DEFINE R == T \ S
           B == {s \in SUBSET R : AmountsIn(l, S \cup s) # AmountsIn(l, S) + AmountsIn(l, s)}
<1>0. IsFiniteSet(R) /\ IsFiniteSet(S) /\ S \cup R = T
  BY FS_Subset
<1>1. SUFFICES ASSUME B # {} PROVE FALSE
  <2>1. R \in SUBSET R
    OBVIOUS
  <2> QED
    BY <1>0, <2>1
<1>2. PICK s \in B : \A u \in SUBSET s : u # s => u \notin B
  <2>1. B \in SUBSET SUBSET R
    OBVIOUS
  <2> HIDE DEF B, R
  <2> QED
    BY <1>0, <1>1, <2>1, MinimalSet
<1>3. s \in SUBSET R /\ AmountsIn(l, S \cup s) # AmountsIn(l, S) + AmountsIn(l, s)
  BY <1>2
<1>4. AmountsIn(l, S) \in Int
  BY <1>0, AmountsInt
<1>5. s # {}
  <2>1. ASSUME s = {} PROVE FALSE
    <3>1. AmountsIn(l, s) = 0
      BY <2>1, AmountsEmpty
    <3>2. S \cup s = S
      BY <2>1
    <3>3. AmountsIn(l, S \cup s) = AmountsIn(l, S)
      BY <3>2
    <3>4. AmountsIn(l, S) + AmountsIn(l, s) = AmountsIn(l, S)
      BY <1>4, <3>1
    <3> QED
      BY <1>3, <3>3, <3>4
  <2> QED
    BY <2>1
<1>6. PICK k : k \in s
  BY <1>5
<1> DEFINE u == s \ {k}
<1>7. u \in SUBSET s /\ u # s /\ u \in SUBSET R
  BY <1>3, <1>6
<1>8. AmountsIn(l, S \cup u) = AmountsIn(l, S) + AmountsIn(l, u)
  BY <1>2, <1>7
<1>9. k \in T /\ k \notin S
  BY <1>3, <1>6
<1>10. /\ IsFiniteSet(S \cup s) /\ IsFiniteSet(s) /\ IsFiniteSet(u)
       /\ S \cup s \in SUBSET T /\ s \in SUBSET T /\ u \in SUBSET T
  BY <1>0, <1>3, <1>7, FS_Subset
<1>11. (S \cup s) \ {k} = S \cup u
  BY <1>9
<1>12. AmountsIn(l, S \cup s) = l[k].amount + AmountsIn(l, S \cup u)
  <2> DEFINE v == S \cup s
  <2>1. k \in v /\ IsFiniteSet(v) /\ \A x \in v : l[x].amount \in Int
    BY <1>6, <1>10
  <2> HIDE DEF v
  <2>2. AmountsIn(l, v) = l[k].amount + AmountsIn(l, v \ {k})
    BY <2>1, AmountsRemove
  <2> QED
    BY <1>11, <2>2 DEF v
<1>13. AmountsIn(l, s) = l[k].amount + AmountsIn(l, u)
  BY <1>6, <1>10, AmountsRemove
<1>14. AmountsIn(l, u) \in Int /\ l[k].amount \in Int
  BY <1>9, <1>10, AmountsInt
<1> QED
  BY <1>3, <1>4, <1>8, <1>12, <1>13, <1>14

LEMMA AmountsZero ==
    ASSUME NEW T, IsFiniteSet(T), NEW l, \A k \in T : l[k].amount = 0
    PROVE  AmountsIn(l, T) = 0
<1> DEFINE B == {s \in SUBSET T : AmountsIn(l, s) # 0}
<1>1. SUFFICES ASSUME B # {} PROVE FALSE
  OBVIOUS
<1>2. PICK s \in B : \A u \in SUBSET s : u # s => u \notin B
  <2>1. B \in SUBSET SUBSET T
    OBVIOUS
  <2> HIDE DEF B
  <2> QED
    BY <1>1, <2>1, MinimalSet
<1>3. s \in SUBSET T /\ AmountsIn(l, s) # 0
  BY <1>2
<1>4. s # {}
  BY <1>3, AmountsEmpty
<1>5. PICK k : k \in s
  BY <1>4
<1>6. AmountsIn(l, s \ {k}) = 0
  <2>1. s \ {k} \in SUBSET s /\ s \ {k} # s /\ s \ {k} \in SUBSET T
    BY <1>3, <1>5
  <2> QED
    BY <1>2, <2>1
<1>7. IsFiniteSet(s) /\ \A x \in s : l[x].amount \in Int
  BY <1>3, FS_Subset
<1>8. AmountsIn(l, s) = l[k].amount + AmountsIn(l, s \ {k})
  BY <1>5, <1>7, AmountsRemove
<1>9. l[k].amount = 0
  BY <1>3, <1>5
<1> QED
  BY <1>3, <1>6, <1>8, <1>9

\* What is zero adds nothing.
LEMMA AmountsWithout ==
    ASSUME NEW T, IsFiniteSet(T), NEW l, \A k \in T : l[k].amount \in Int,
           NEW S \in SUBSET T, \A k \in T \ S : l[k].amount = 0
    PROVE  AmountsIn(l, T) = AmountsIn(l, S)
<1>1. IsFiniteSet(T \ S) /\ IsFiniteSet(S)
  BY FS_Subset
<1>2. AmountsIn(l, T \ S) = 0
  BY <1>1, AmountsZero
<1>3. AmountsIn(l, S) \in Int
  BY <1>1, AmountsInt
<1> QED
  BY <1>2, <1>3, AmountsSplit

\* A positive amount adds something.
LEMMA AmountsPositive ==
    ASSUME NEW T, IsFiniteSet(T), NEW l, \A k \in T : l[k].amount \in Nat,
           NEW i \in T, l[i].amount >= 1
    PROVE  AmountsIn(l, T) >= 1
<1>1. IsFiniteSet(T \ {i})
  BY FS_RemoveElement
<1>2. AmountsIn(l, T \ {i}) \in Nat
  BY <1>1, AmountsNat
<1>3. AmountsIn(l, T) = l[i].amount + AmountsIn(l, T \ {i})
  BY AmountsRemove
<1> QED
  BY <1>2, <1>3

\* Of positive amounts, only all of them add up to the whole.
LEMMA AmountsWhole ==
    ASSUME NEW T, IsFiniteSet(T), NEW l, \A k \in T : l[k].amount \in Nat \ {0},
           NEW S \in SUBSET T, AmountsIn(l, S) = AmountsIn(l, T)
    PROVE  S = T
<1>1. SUFFICES ASSUME NEW i \in T \ S PROVE FALSE
  OBVIOUS
<1>2. IsFiniteSet(T \ S) /\ IsFiniteSet(S)
  BY FS_Subset
<1>3. AmountsIn(l, T \ S) >= 1 /\ AmountsIn(l, T \ S) \in Int
  BY <1>2, AmountsPositive, AmountsInt
<1>4. AmountsIn(l, S) \in Int
  BY <1>2, AmountsInt
<1>5. AmountsIn(l, T) = AmountsIn(l, S) + AmountsIn(l, T \ S)
  BY AmountsSplit
<1> QED
  BY <1>3, <1>4, <1>5

----------------------------------------------------------------------------
(* The rows, and the requests in flight.                                   *)

Tables == Report \cup Item \cup Txn \cup Batch \cup Step

Content == {"add", "edit", "replace", "from_txn"}

Payable == {"approved", "marked_for_reimbursement"}
Payables == Payable \cup {"reimbursed"}

\* The rows of every table: an entry belongs to a report that exists, a report
\* has an amount, which is stamped before anybody sees it.
ReportOK(r) ==
    /\ row[r] \in ReportRow
    /\ row[r].state = "absent" => row[r] = NoneReport
    /\ row[r].state # "absent" => row[r].total >= 1
    /\ row[r].state \notin {"absent", "draft"} \/ row[r].batch # NoBatch => row[r].eur >= 1

ItemOK(i) ==
    /\ row[i] \in ItemRow
    /\ row[i].state = "absent" => row[i] = NoneItem
    /\ row[i].state = "present" => /\ row[i].amount >= 1
                                   /\ row[i].report \in Report
                                   /\ row[row[i].report].state # "absent"

StepOK(x) ==
    /\ row[x] \in StepRow
    /\ row[x].state = "absent" <=> row[x].gen = 0
    /\ row[x].state = "absent" => row[x] = NoneStep
    /\ row[x].state # "absent" => row[x[1]].state # "absent"

Rows ==
    /\ row = [x \in Tables |-> row[x]]
    /\ \A r \in Report : ReportOK(r)
    /\ \A i \in Item : ItemOK(i)
    /\ \A t \in Txn : row[t] \in TxnRow
    /\ \A x \in Step : StepOK(x)
    /\ \A b \in Batch : row[b] \in BatchRow

\* What a request knows of a report, and what each operation does to it.
ReportGuard(op, old) ==
    /\ (op = "create") <=> (old.state = "absent")
    /\ op \in Content \cup {"submit"} => old.state \in Editable
    /\ op = "delete" => old.state = "draft"
    /\ op = "withdraw" => old.state = "submitted"
    /\ op = "decide" => old.state \in InApproval
    /\ op = "mark" => old.state = "approved"
    /\ op \in {"reimburse", "batch"} => old.state \in Payable
    /\ op = "batch" => old.batch = NoBatch
    /\ op # "create" => ~old.binned

ReportState(op, old, new) ==
    /\ op \in {"create", "withdraw"} => new.state = "draft"
    /\ op = "submit" => new.state = "submitted"
    /\ op = "decide" => new.state \in {"partially_approved", "approved", "rejected", "returned"}
    /\ op = "mark" => new.state = "marked_for_reimbursement"
    /\ op \in {"reimburse", "pay"} => new.state = "reimbursed"
    /\ op \in Content \cup {"delete", "batch", "cancel"} => new.state = old.state

ReportColumns(op, old, new) ==
    /\ new.binned = (op = "delete" \/ old.binned)
    /\ IF op \in Content \cup {"create"} THEN new.total >= 1 ELSE new.total = old.total
    /\ new.eur = IF op = "submit" THEN old.total ELSE old.eur
    /\ new.version = IF op \in Decisions THEN old.version + 1 ELSE old.version
    /\ op # "create" => new.key = old.key

ReportPart(q, r) ==
    /\ q.op \in Content \cup Decisions
                \cup {"create", "delete", "submit", "withdraw", "batch", "pay", "cancel"}
    /\ q.seen[r] \in ReportRow /\ q.new[r] \in ReportRow
    /\ q.seen[r].state = "absent" => q.seen[r] = NoneReport
    /\ q.seen[r].state # "absent" => q.seen[r].total >= 1
    /\ ReportGuard(q.op, q.seen[r])
    /\ ReportState(q.op, q.seen[r], q.new[r])
    /\ ReportColumns(q.op, q.seen[r], q.new[r])
    /\ q.op = "batch" => q.new[r].batch \in Batch \cap DOMAIN q.new
    /\ q.op \in {"pay", "cancel"} => q.seen[r].batch \in Batch \cap DOMAIN q.new
    /\ q.op = "cancel" => q.new[r].batch = NoBatch
    /\ q.op \notin {"batch", "cancel"} => q.new[r].batch = q.seen[r].batch
    /\ q.op \in Decisions \cup {"from_txn"} => r \in q.locks

ItemPart(q, i) ==
    /\ q.seen[i] \in ItemRow /\ q.new[i] \in ItemRow
    /\ "absent" \in {q.seen[i].state, q.new[i].state} => q.seen[i].state # q.new[i].state
    /\ q.seen[i].state = "present" => q.seen[i].report \in Report /\ q.seen[i].amount >= 1
    /\ q.new[i].state = "present" => q.new[i].report \in Report /\ q.new[i].amount >= 1
    /\ q.seen[i].state = "absent" => q.seen[i] = NoneItem
    /\ q.new[i].state = "absent" => q.op = "replace" /\ q.new[i] = NoneItem
    /\ q.seen[i].state = q.new[i].state => q.seen[i].report = q.new[i].report
    /\ q.op \in Content \cup {"create", "match", "unmatch"}
    /\ q.op \in {"add", "replace", "from_txn", "create"} /\ q.seen[i].state = q.new[i].state =>
          q.new[i] = q.seen[i]
    /\ q.op = "edit" => q.new[i].ref = q.seen[i].ref
    /\ q.op \in {"match", "unmatch", "edit"} => q.seen[i].state = q.new[i].state
    /\ q.op = "create" => q.seen[i].state = "absent"
    /\ q.op \in {"match", "unmatch"} =>
          /\ q.new[i].amount = q.seen[i].amount
          /\ q.seen[i].report \in q.locks
    /\ q.op \in Content \cup {"create"} =>
          \A r \in DOMAIN q.new \cap Report :
             r \in {q.seen[i].report, q.new[i].report} /\ {q.seen[i].report, q.new[i].report} \subseteq {r, NoReport}
    /\ q.op \in Content \cup {"create"} => DOMAIN q.new \cap Report # {}
    /\ q.op = "unmatch" => q.new[i].ref = NoTxn
    /\ q.new[i].ref # q.seen[i].ref /\ q.new[i].ref # NoTxn =>
          q.new[i].ref \in DOMAIN q.new /\ q.new[q.new[i].ref] = Assigned(i)

TxnPart(q, t) ==
    /\ t \in q.locks
    /\ q.seen[t] \in TxnRow /\ q.new[t] \in TxnRow
    /\ q.op \in {"from_txn", "create", "match"} =>
          q.seen[t].state = "available" /\ q.new[t].state = "assigned"
    /\ q.op = "unmatch" =>
          /\ q.seen[t].item \in DOMAIN q.new \cap Item
          /\ q.new[t].state = "available"
    /\ q.op = "remove" => q.seen[t].state = "available"
    /\ q.op \in {"from_txn", "create", "match", "unmatch", "remove"}

StepPart(q, x) ==
    /\ q.seen[x] \in StepRow /\ q.new[x] \in StepRow
    /\ q.seen[x].state = "absent" <=> q.seen[x].gen = 0
    /\ q.new[x].state = "absent" <=> q.new[x].gen = 0
    /\ q.seen[x].state = "absent" => q.seen[x] = NoneStep
    /\ q.new[x].state = "absent" => q.new[x] = NoneStep
    /\ q.op \in {"submit", "withdraw", "decide", "reassign"}
    /\ q.op \in {"decide", "reassign"} => q.seen[x].gen # 0
    /\ q.op = "submit" => /\ q.new[x].state \in {"pending", "absent"}
                          /\ q.new[x].gen # 0 => q.new[x].gen # q.seen[x].gen
    /\ q.op = "withdraw" => q.new[x].gen = 0
    /\ q.op \in {"decide", "reassign"} => q.new[x].gen = q.seen[x].gen
    /\ q.op = "reassign" => q.new[x].state = q.seen[x].state
    /\ q.op # "reassign" => x[1] \in DOMAIN q.new /\ \A r \in DOMAIN q.new \cap Report : r = x[1]
    /\ q.op = "decide" => x[1] \in q.locks /\ q.seen[x].state = "pending" /\ q.new[x].who = q.seen[x].who

BatchPart(q, b) ==
    /\ q.seen[b] \in BatchRow /\ q.new[b] \in BatchRow
    /\ q.op \in {"batch", "pay", "cancel", "export"}
    /\ (q.op = "batch") <=> (q.seen[b].state = "absent")
    /\ q.op = "batch" => q.new[b].state = "open"
    /\ q.op \in {"pay", "cancel"} => q.seen[b].state = "open"
    /\ q.op = "pay" => q.new[b].state = "paid"
    /\ q.op = "cancel" => q.new[b].state = "cancelled"
    /\ q.op = "export" => q.new[b].state = q.seen[b].state
    /\ q.op # "batch" => b \in q.locks
    /\ q.op # "export" => \A e \in Batch \cap DOMAIN q.new : e = b

Part(q, x) ==
    /\ x \in Report => ReportPart(q, x)
    /\ x \in Item => ItemPart(q, x)
    /\ x \in Txn => TxnPart(q, x)
    /\ x \in Step => StepPart(q, x)
    /\ x \in Batch => BatchPart(q, x)

Shape(q) ==
    /\ DOMAIN q.seen = DOMAIN q.new /\ DOMAIN q.new \subseteq Tables
    /\ q.locks \subseteq Tables \cup {Membership}
    /\ \A x \in DOMAIN q.new : Part(q, x)

\* What a request knows is still so for the rows it holds, and for those it is
\* about to insert; a report stays where it is, and an entry where it was or gone.
Current(q) ==
    \A x \in DOMAIN q.new :
        /\ x \in q.locks => row[x] = q.seen[x]
        /\ x \notin Step /\ q.seen[x].state = "absent" => row[x].state = "absent"
        /\ x \in Report /\ q.seen[x].state # "absent" => row[x].state # "absent"
        /\ x \in Report /\ q.seen[x].eur # 0 => row[x].eur # 0
        /\ x \in Item /\ q.seen[x].state = "present" /\ row[x].state = "present" =>
              row[x].report = q.seen[x].report

Apart(p, q) ==
    /\ p.locks \cap q.locks = {}
    /\ \A x \in DOMAIN p.new \cap DOMAIN q.new : x \notin Step => p.seen[x].state # "absent"

Requests ==
    /\ req = [s \in Slot |-> req[s]]
    /\ \A s \in Slot : Busy(s) => Shape(req[s]) /\ Current(req[s])
    /\ \A s, t \in Slot : Busy(s) /\ Busy(t) /\ s # t => Apart(req[s], req[t])

Paid ==
    /\ payouts = [r \in Report |-> payouts[r]]
    /\ \A r \in Report : payouts[r] \in Seq([batch : Batch, eur : Nat \ {0}])

Versions ==
    /\ decided \in [Report -> Nat]
    /\ OneDecisionPerVersion

RowsSound == Rows /\ Requests /\ Paid /\ Versions /\ work \in Workloads

----------------------------------------------------------------------------
Keyed(q) ==
    \A r \in DOMAIN q.new \cap Report :
        q.seen[r].state = "absent" =>
            /\ Membership \in q.locks
            /\ q.new[r].key # NoKey => \A e \in Report : row[e].key # q.new[r].key

KeysReserved == \A s \in Slot : Busy(s) => Keyed(req[s])

----------------------------------------------------------------------------
First(r) == <<r, 1>>

\* What the state of a report says of the states f of its steps S.
Fits(state, f, S) ==
    /\ state = "absent" => S = {}
    /\ state \notin {"absent", "draft", "reimbursed"} => S # {}
    /\ state = "submitted" => \A x \in S : f[x] = "pending"
    /\ state = "partially_approved" => /\ \A x \in S : f[x] \in {"pending", "approved"}
                                       /\ \E x \in S : f[x] = "pending"
                                       /\ \E x \in S : f[x] = "approved"
    /\ state = "rejected" => \E x \in S : f[x] = "rejected"
    /\ state = "returned" => \A x \in S : f[x] # "pending"
    /\ state \in Payable => \A x \in S : f[x] = "approved"

StepState == [x \in Step |-> row[x].state]

Chained(r) ==
    /\ Fits(row[r].state, StepState, StepsOf(r))
    /\ StepsOf(r) # {} => First(r) \in StepsOf(r)
    /\ \A x, y \in StepsOf(r) : row[x].gen = row[y].gen
    /\ row[r].state = "draft" /\ ~Recalled(r) => StepsOf(r) = {}
    /\ row[r].state = "reimbursed" /\ ~Recalled(r) =>
          StepsOf(r) # {} /\ \A x \in StepsOf(r) : row[x].state = "approved"
    /\ row[r].batch # NoBatch /\ ~Recalled(r) => row[r].state \in Payables

\* As long as a step q has found is there, all of its chain is.
SameChain(q, x, y) ==
    q.seen[x].gen # 0 /\ row[x].gen = q.seen[x].gen => row[y].gen = q.seen[y].gen

\* Once a submission or a withdrawal has read the chain, it knows every place of it.
WholeChain(q, r) ==
    \A x, y \in Step : x \in DOMAIN q.new /\ y[1] = r => y \in DOMAIN q.new /\ SameChain(q, x, y)

\* A submission leaves one chain, of a number no step of the report has.
SubmitChain(q, r) ==
    /\ First(r) \in DOMAIN q.new /\ q.new[First(r)].gen # 0
    /\ \A x \in DOMAIN q.new \cap Step : q.new[x].gen \in {0, q.new[First(r)].gen}
    /\ \A y \in Step : y[1] = r => row[y].gen # q.new[First(r)].gen

After(q) == [x \in Step |-> IF x \in DOMAIN q.new THEN q.new[x].state ELSE row[x].state]

DecideChain(q, r) ==
    /\ \A x \in DOMAIN q.new \cap Step :
          row[x].gen = q.seen[x].gen /\ row[x].state = q.seen[x].state
    /\ Fits(q.new[r].state, After(q), StepsOf(r))

ChainRequest(q) ==
    \A r \in DOMAIN q.new \cap Report :
        /\ q.op \in {"submit", "withdraw"} => WholeChain(q, r)
        /\ q.op = "submit" /\ DOMAIN q.new \cap Step # {} => SubmitChain(q, r)
        /\ q.op \in Decisions => DecideChain(q, r)
        /\ q.op \in {"batch", "pay"} /\ ~Recalled(r) => row[r].state \in Payables
        /\ q.op = "pay" /\ ~Recalled(r) /\ q.seen[r].state = "reimbursed" => row[r].state = "reimbursed"

GensApart(p, q) ==
    q.op = "submit" =>
        \A x \in DOMAIN q.new \cap Step, y \in DOMAIN p.new \cap Step :
            q.new[x].gen # 0 /\ y[1] = x[1] => q.new[x].gen \notin {p.seen[y].gen, p.new[y].gen}

Chains ==
    /\ \A r \in Report : Chained(r)
    /\ \A s \in Slot : Busy(s) => ChainRequest(req[s])
    /\ \A s, t \in Slot : Busy(s) /\ Busy(t) /\ s # t => GensApart(req[s], req[t])

----------------------------------------------------------------------------
Mixed(r) == ~Unraced({"add", "edit", "replace"}, r)

\* The entries q knows of r add up to the total it knows, and those it leaves to
\* the total it leaves.
ContentRequest(q) ==
    \A r \in DOMAIN q.new \cap Report :
        /\ q.op \in Content \cup {"create"} =>
              q.new[r].total = AmountsIn(q.new, DOMAIN q.new \cap Item)
        /\ q.op \in Content /\ ~Mixed(r) =>
              q.seen[r].total = AmountsIn(q.seen, DOMAIN q.new \cap Item)

UnmatchRequest(q) ==
    q.op = "unmatch" => \A i \in DOMAIN q.new \cap Item :
          row[i].state = "present" => row[i].ref = q.seen[i].ref

Totals == \A r \in Report : ~Mixed(r) => row[r].total = AmountsIn(row, ItemsOf(r))

Entries ==
    /\ OneEntryPerTransaction /\ Totals
    /\ \A s \in Slot : Busy(s) =>
          ContentRequest(req[s]) /\ UnmatchRequest(req[s])

----------------------------------------------------------------------------
Doubled(r) == ~Unraced({"batch"}, r)

Batched(r) ==
    /\ row[r].batch # NoBatch => row[row[r].batch].state # "absent"
    /\ row[r].batch # NoBatch /\ Unraced({"delete", "submit", "withdraw"}, r) =>
          row[row[r].batch].state \in {"open", "paid"} /\ ~row[r].binned
    /\ row[r].binned /\ Unraced({"delete", "submit", "withdraw"}, r) => row[r].state \in {"draft", "submitted"}
    /\ ~Doubled(r) /\ payouts[r] # <<>> =>
          Len(payouts[r]) = 1 /\ row[r].batch = payouts[r][1].batch /\ row[row[r].batch].state = "paid"
    /\ payouts[r] # <<>> /\ ~Recalled(r) => row[r].state = "reimbursed"
    /\ Unraced({"add", "edit", "replace", "submit", "withdraw"}, r) =>
        /\ row[r].state \notin Editable \cup {"absent"} => row[r].eur = row[r].total
        /\ \A k \in DOMAIN payouts[r] : payouts[r][k].eur = row[r].total

BatchRequest(q) ==
    /\ \A r \in DOMAIN q.new \cap Report :
         /\ q.op \in {"pay", "cancel"} /\ ~Doubled(r) => row[r].batch = q.seen[r].batch
         /\ q.op = "pay" /\ ~Recalled(r) => q.seen[r].eur = row[r].eur
         /\ q.op \in {"batch", "pay"} => q.seen[r].eur >= 1
    /\ q.op = "cancel" => \A b \in DOMAIN q.new \cap Batch, r \in Report :
          row[r].batch = b /\ Unraced({"delete", "submit", "withdraw"}, r) => r \in DOMAIN q.new

BatchesInv ==
    /\ \A r \in Report : Batched(r)
    /\ \A s \in Slot : Busy(s) => BatchRequest(req[s])

RequestOK(q) ==
    /\ Shape(q) /\ Current(q) /\ Keyed(q) /\ ChainRequest(q)
    /\ ContentRequest(q) /\ UnmatchRequest(q) /\ BatchRequest(q)

IInv == RowsSound /\ KeysReserved /\ Chains /\ Entries /\ BatchesInv
----------------------------------------------------------------------------
(* Helpers.                                                                *)

LEMMA TableNames ==
    /\ \A x \in Report : x \notin Item /\ x \notin Txn /\ x \notin Batch /\ x \notin Step
    /\ \A x \in Item : x \notin Report /\ x \notin Txn /\ x \notin Batch /\ x \notin Step
    /\ \A x \in Txn : x \notin Report /\ x \notin Item /\ x \notin Batch /\ x \notin Step
    /\ \A x \in Batch : x \notin Report /\ x \notin Item /\ x \notin Txn /\ x \notin Step
    /\ \A x \in Step : x \notin Report /\ x \notin Item /\ x \notin Txn /\ x \notin Batch
    /\ Membership \notin Tables
BY TablesAssumption DEF Tables

\* A set of rows, by their ids.
IsRows(f) == f = [x \in DOMAIN f |-> f[x]]

LEMMA RequestIs ==
    ASSUME NEW op, NEW locks, NEW new, IsRows(new)
    PROVE  LET q == Request(op, locks, new) IN
           /\ q.op = op /\ q.locks = locks /\ q.new = new
           /\ DOMAIN q.seen = DOMAIN new
           /\ \A x \in DOMAIN new : q.seen[x] = row[x]
BY DEF Request, IsRows

LEMMA OnlyIs ==
    ASSUME NEW x, NEW r
    PROVE  /\ DOMAIN Only(x, r) = {x} /\ Only(x, r)[x] = r
           /\ IsRows(Only(x, r))
BY DEF Only, IsRows

LEMMA OverDomain ==
    ASSUME NEW f, NEW g
    PROVE  DOMAIN Over(f, g) = DOMAIN f \cup DOMAIN g /\ IsRows(Over(f, g))
BY DEF Over, IsRows

LEMMA OverFirst ==
    ASSUME NEW f, NEW g, NEW x \in DOMAIN f
    PROVE  Over(f, g)[x] = f[x]
BY DEF Over

LEMMA OverSecond ==
    ASSUME NEW f, NEW g, NEW x \in DOMAIN g, x \notin DOMAIN f
    PROVE  Over(f, g)[x] = g[x]
BY DEF Over

\* Rows a request may write that no other request is about to insert.
Reserved(q) == \A x \in DOMAIN q.new : x \notin Step /\ row[x].state = "absent" => Fresh(x)

SeenNow(q) == \A x \in DOMAIN q.new : q.seen[x] = row[x]

\* The generation of a new chain is nobody's.
GenNew(q) ==
    q.op = "submit" =>
        \A x \in DOMAIN q.new \cap Step : q.new[x].gen # 0 =>
            \A t \in Slot : Busy(t) => \A y \in Step \cap DOMAIN req[t].new :
                q.new[x].gen \notin {req[t].seen[y].gen, req[t].new[y].gen}

LEMMA SeenIsCurrent ==
    ASSUME NEW q, SeenNow(q)
    PROVE  Current(q)
BY DEF SeenNow, Current

LEMMA NamesOf ==
    ASSUME IInv
    PROVE  /\ \A r \in Report : ReportOK(r) /\ row[r] \in ReportRow
           /\ \A i \in Item : ItemOK(i) /\ row[i] \in ItemRow
           /\ \A t \in Txn : row[t] \in TxnRow
           /\ \A x \in Step : StepOK(x) /\ row[x] \in StepRow
           /\ \A b \in Batch : row[b] \in BatchRow
BY DEF IInv, RowsSound, Rows, ReportOK, ItemOK, StepOK

\* A load changes no row.
LEMMA RequestRests ==
    ASSUME NEW q, RequestOK(q), row' = row, raced' = raced, payouts' = payouts
    PROVE  RequestOK(q)'
<1>1. Shape(q)'
  BY DEF RequestOK, Shape, Part, ReportPart, ReportGuard, ReportState, ReportColumns,
         ItemPart, TxnPart, StepPart, BatchPart
<1>2. Current(q)' /\ Keyed(q)'
  BY DEF RequestOK, Current, Keyed
<1>3. ChainRequest(q)'
  <2>1. ASSUME NEW r PROVE StepsOf(r)' = StepsOf(r) /\ Recalled(r)' = Recalled(r)
    BY DEF StepsOf, Recalled, Unraced
  <2>2. After(q)' = After(q)
    BY DEF After
  <2>3. ASSUME NEW r PROVE WholeChain(q, r)' = WholeChain(q, r)
    BY DEF WholeChain, SameChain
  <2>4. ASSUME NEW r PROVE SubmitChain(q, r)' = SubmitChain(q, r)
    BY <2>1 DEF SubmitChain
  <2>5. ASSUME NEW r PROVE DecideChain(q, r)' = DecideChain(q, r)
    BY <2>1, <2>2 DEF DecideChain
  <2> QED
    BY <2>1, <2>3, <2>4, <2>5 DEF RequestOK, ChainRequest
<1>4. ContentRequest(q)'
  <2>1. ContentRequest(q)
    BY DEF RequestOK
  <2>2. ASSUME NEW r PROVE Mixed(r)' = Mixed(r)
    BY DEF Mixed, Unraced
  <2> QED
    BY <2>1, <2>2 DEF ContentRequest
<1>5. UnmatchRequest(q)' /\ BatchRequest(q)'
  BY DEF RequestOK, UnmatchRequest, BatchRequest, Doubled, Unraced, Recalled
<1> QED
  BY <1>1, <1>2, <1>3, <1>4, <1>5 DEF RequestOK

\* The steps a request reads and leaves are of other chains than those that other
\* requests make.
LEMMA NewGens ==
    ASSUME IInv, NEW q, Shape(q), GenNew(q), \A x \in DOMAIN q.new \cap Step : q.seen[x] = row[x],
           NEW t \in Slot, Busy(t)
    PROVE  GensApart(q, req[t]) /\ GensApart(req[t], q)
<1> DEFINE p == req[t]
<1>1. Shape(p) /\ ChainRequest(p)
  BY DEF IInv, RowsSound, Requests, Chains
<1>5. GensApart(p, q)
  BY DEF GensApart, GenNew
<1>6. GensApart(q, p)
  <2> SUFFICES ASSUME p.op = "submit", NEW x \in DOMAIN p.new \cap Step, NEW y \in DOMAIN q.new \cap Step,
                      p.new[x].gen # 0, y[1] = x[1]
               PROVE  p.new[x].gen \notin {q.seen[y].gen, q.new[y].gen}
    BY DEF GensApart
  <2>1. StepPart(p, x) /\ StepPart(q, y) /\ x[1] \in Report
    BY <1>1 DEF Shape, Part, Step
  <2>2. x[1] \in DOMAIN p.new
    BY <2>1 DEF StepPart
  <2>3. \A z \in Step : z[1] = x[1] => row[z].gen # p.new[x].gen
    <3>1. SubmitChain(p, x[1])
      BY <1>1, <2>1, <2>2 DEF ChainRequest
    <3>2. p.new[x].gen = p.new[First(x[1])].gen
      BY <3>1 DEF SubmitChain
    <3> QED
      BY <3>1, <3>2 DEF SubmitChain
  <2>4. q.seen[y].gen # p.new[x].gen
    BY <2>3
  <2>5. q.new[y].gen # p.new[x].gen
    <3>1. CASE q.op = "submit"
      <4>1. q.new[y].gen # 0 => q.new[y].gen # p.new[x].gen
        BY <3>1 DEF GenNew
      <4> QED
        BY <4>1
    <3>2. CASE q.op # "submit"
      BY <2>1, <2>4, <3>2 DEF StepPart
    <3> QED
      BY <3>1, <3>2
  <2> QED
    BY <2>4, <2>5
<1> QED
  BY <1>5, <1>6

LEMMA NewApart ==
    ASSUME IInv, NEW s \in Slot, NEW q, Begin(s, q), RequestOK(q), SeenNow(q), Reserved(q), GenNew(q),
           NEW t \in Slot, Busy(t)
    PROVE  /\ Apart(q, req[t]) /\ Apart(req[t], q)
           /\ GensApart(q, req[t]) /\ GensApart(req[t], q)
<1> DEFINE p == req[t]
<1>1. Shape(p) /\ Current(p) /\ Shape(q)
  BY DEF IInv, RowsSound, Requests, RequestOK
<1>2. p.locks \cap q.locks = {}
  BY DEF Begin, Free
<1>3. ASSUME NEW x \in DOMAIN p.new \cap DOMAIN q.new, x \notin Step
      PROVE  p.seen[x].state # "absent" /\ q.seen[x].state # "absent"
  <2>1. q.seen[x].state # "absent"
    BY <1>3 DEF SeenNow, Reserved, Fresh
  <2>2. row[x].state # "absent"
    BY <2>1 DEF SeenNow
  <2> QED
    BY <1>1, <1>3, <2>1, <2>2 DEF Current
<1>4. Apart(q, p) /\ Apart(p, q)
  BY <1>2, <1>3 DEF Apart
<1>5. \A x \in DOMAIN q.new \cap Step : q.seen[x] = row[x]
  BY DEF SeenNow
<1> QED
  BY <1>1, <1>4, <1>5, NewGens

\* A request takes the place of what its slot had; no row changes.
Enters(s, q) ==
    /\ req' = [req EXCEPT ![s] = q]
    /\ UNCHANGED <<row, payouts, decided, raced, work>>

LEMMA EnterStep ==
    ASSUME IInv, NEW s \in Slot, NEW q, RequestOK(q), Enters(s, q),
           \A t \in Slot \ {s} : Busy(t) =>
              /\ Apart(q, req[t]) /\ Apart(req[t], q)
              /\ GensApart(q, req[t]) /\ GensApart(req[t], q)
    PROVE  IInv'
<1>1. /\ req' = [req EXCEPT ![s] = q]
      /\ row' = row /\ payouts' = payouts /\ decided' = decided /\ raced' = raced /\ work' = work
  BY DEF Enters
<1>2. req = [t \in Slot |-> req[t]]
  BY DEF IInv, RowsSound, Requests
<1>3. req'[s] = q /\ \A t \in Slot \ {s} : req'[t] = req[t]
  BY <1>1, <1>2
<1>4. \A t \in Slot : Busy(t) => RequestOK(req[t])
  BY DEF IInv, RowsSound, Requests, KeysReserved, Chains, Entries, BatchesInv, RequestOK
<1>5. ASSUME NEW t \in Slot, Busy(t)' PROVE RequestOK(req[t])'
  <2>1. PICK p : p = req'[t]
    OBVIOUS
  <2>2. RequestOK(p)
    <3>1. CASE t = s
      BY <1>3, <2>1, <3>1
    <3>2. CASE t # s
      BY <1>3, <1>4, <1>5, <2>1, <3>2 DEF Busy
    <3> QED
      BY <3>1, <3>2
  <2>3. RequestOK(p)'
    BY <1>1, <2>2, RequestRests
  <2> QED
    BY <2>1, <2>3
<1>6. ASSUME NEW t \in Slot \ {s}, Busy(t)
      PROVE  /\ Apart(q, req[t]) /\ Apart(req[t], q)
             /\ GensApart(q, req[t]) /\ GensApart(req[t], q)
  BY <1>6
<1>7. ASSUME NEW t \in Slot, NEW u \in Slot, Busy(t)', Busy(u)', t # u
      PROVE  Apart(req[t], req[u])' /\ GensApart(req[t], req[u])'
  <2>1. Apart(req'[t], req'[u]) /\ GensApart(req'[t], req'[u])
    <3>1. CASE t = s
      BY <1>3, <1>6, <1>7, <3>1 DEF Busy
    <3>2. CASE u = s
      BY <1>3, <1>6, <1>7, <3>2 DEF Busy
    <3>3. CASE t # s /\ u # s
      BY <1>3, <1>7, <3>3 DEF Busy, IInv, RowsSound, Requests, Chains
    <3> QED
      BY <3>1, <3>2, <3>3
  <2> QED
    BY <2>1 DEF Apart, GensApart
<1>8. RowsSound'
  <2>1. Rows' /\ Paid' /\ Versions' /\ work' \in Workloads
    BY <1>1 DEF IInv, RowsSound, Rows, ReportOK, ItemOK, StepOK, Paid, Versions, OneDecisionPerVersion
  <2>2. (req = [t \in Slot |-> req[t]])'
    BY <1>1, <1>2
  <2>3. Requests'
    BY <1>5, <1>7, <2>2 DEF Requests, RequestOK
  <2> QED
    BY <2>1, <2>3 DEF RowsSound
<1>9. KeysReserved'
  BY <1>5 DEF KeysReserved, RequestOK
<1>10. Chains'
  <2>1. \A r \in Report : Chained(r)'
    <3>1. ASSUME NEW r PROVE StepsOf(r)' = StepsOf(r) /\ Recalled(r)' = Recalled(r)
      BY <1>1 DEF StepsOf, Recalled, Unraced
    <3>2. StepState' = StepState
      BY <1>1 DEF StepState
    <3> QED
      BY <1>1, <3>1, <3>2 DEF IInv, Chains, Chained
  <2> QED
    BY <1>5, <1>7, <2>1 DEF Chains, RequestOK
<1>11. Entries'
  <2>1. OneEntryPerTransaction'
    BY <1>1 DEF IInv, Entries, OneEntryPerTransaction, Assigned
  <2>2. ASSUME NEW r PROVE ItemsOf(r)' = ItemsOf(r) /\ Mixed(r)' = Mixed(r)
    BY <1>1 DEF ItemsOf, Mixed, Unraced
  <2>3. Totals'
    BY <1>1, <2>2 DEF IInv, Entries, Totals
  <2> QED
    BY <1>5, <2>1, <2>3 DEF Entries, RequestOK
<1>12. BatchesInv'
  <2>1. \A r \in Report : Batched(r)'
    <3> SUFFICES ASSUME NEW r \in Report PROVE Batched(r)'
      OBVIOUS
    <3>1. Batched(r)
      BY DEF IInv, BatchesInv
    <3>2. Doubled(r)' = Doubled(r) /\ Recalled(r)' = Recalled(r)
      BY <1>1 DEF Unraced, Doubled, Recalled
    <3>3. /\ Unraced({"delete", "submit", "withdraw"}, r)' = Unraced({"delete", "submit", "withdraw"}, r)
          /\ Unraced({"add", "edit", "replace", "submit", "withdraw"}, r)'
             = Unraced({"add", "edit", "replace", "submit", "withdraw"}, r)
      BY <1>1 DEF Unraced
    <3> QED
      BY <1>1, <3>1, <3>2, <3>3 DEF Batched
  <2> QED
    BY <1>5, <2>1 DEF BatchesInv, RequestOK
<1> QED
  BY <1>8, <1>9, <1>10, <1>11, <1>12 DEF IInv

LEMMA BeginStep ==
    ASSUME IInv, NEW s \in Slot, NEW q, Begin(s, q), RequestOK(q), SeenNow(q), Reserved(q), GenNew(q)
    PROVE  IInv'
<1>1. \A t \in Slot : Busy(t) =>
          /\ Apart(q, req[t]) /\ Apart(req[t], q)
          /\ GensApart(q, req[t]) /\ GensApart(req[t], q)
  BY NewApart
<1> QED
  BY <1>1, EnterStep DEF Begin, Enters

----------------------------------------------------------------------------
(* Requests on entries.                                                    *)

\* What an operation has no part in.
LEMMA Aside ==
    ASSUME NEW q, Shape(q)
    PROVE  /\ q.op \notin Decisions \cup {"submit", "withdraw", "batch", "pay"} => ChainRequest(q)
           /\ q.op # "create" => Keyed(q)
           /\ q.op \notin Content \cup {"create"} => ContentRequest(q)
           /\ q.op # "unmatch" => UnmatchRequest(q)
           /\ q.op \notin {"batch", "pay", "cancel"} => BatchRequest(q)
           /\ q.op # "submit" => GenNew(q)
<1>1. ASSUME q.op # "create" PROVE Keyed(q)
  <2>1. ASSUME NEW r \in DOMAIN q.new \cap Report PROVE q.seen[r].state # "absent"
    BY <1>1 DEF Shape, Part, ReportPart, ReportGuard
  <2> QED
    BY <2>1 DEF Keyed
<1>2. ASSUME q.op \notin Decisions \cup {"submit", "withdraw", "batch", "pay"} PROVE ChainRequest(q)
  BY <1>2 DEF ChainRequest
<1> QED
  BY <1>1, <1>2 DEF ContentRequest, UnmatchRequest, BatchRequest, GenNew

LEMMA ItemNames ==
    ASSUME IInv, NEW r \in Report
    PROVE  /\ NoneItem \in ItemRow /\ NoneItem.state = "absent" /\ NoneItem.amount = 0
           /\ NoneItem.report = NoReport /\ NoReport \notin Report
           /\ ItemsOf(r) \subseteq Item
           /\ \A i \in ItemsOf(r) : /\ row[i] \in ItemRow /\ row[i].state = "present"
                                    /\ row[i].report = r /\ row[i].amount >= 1
<1>1. NoneItem \in ItemRow
  BY DEF NoneItem, ItemRow
<1> QED
  BY <1>1, NamesOf, ExpensesAssumption DEF NoneItem, ItemsOf, ItemOK

IsWithItems(new, r, base, changed, D) ==
    /\ IsRows(new) /\ DOMAIN new = {r} \cup D
    /\ new[r] = [base EXCEPT !.total = AmountsIn(new, D)]
    /\ \A i \in DOMAIN changed : new[i] = changed[i]
    /\ \A i \in ItemsOf(r) : i \notin DOMAIN changed => new[i] = row[i]

LEMMA WithItemsIs ==
    ASSUME IInv, NEW r \in Report, NEW base, NEW changed,
           IsRows(changed), DOMAIN changed \subseteq Item
    PROVE  IsWithItems(WithItems(r, base, changed), r, base, changed, DOMAIN changed \cup ItemsOf(r))
<1> DEFINE items == Over(changed, [i \in ItemsOf(r) |-> row[i]])
           D == DOMAIN changed \cup ItemsOf(r)
           total == AmountsIn(items, D)
           new == WithItems(r, base, changed)
<1>1. /\ DOMAIN items = D
      /\ \A i \in DOMAIN changed : items[i] = changed[i]
      /\ \A i \in ItemsOf(r) : i \notin DOMAIN changed => items[i] = row[i]
  <2> DEFINE g == [i \in ItemsOf(r) |-> row[i]]
  <2>1. DOMAIN g = ItemsOf(r) /\ \A i \in ItemsOf(r) : g[i] = row[i]
    OBVIOUS
  <2> HIDE DEF g
  <2>2. items = Over(changed, g)
    BY DEF g
  <2> HIDE DEF items
  <2>3. DOMAIN items = D
    BY <2>1, <2>2, OverDomain
  <2>4. \A i \in DOMAIN changed : items[i] = changed[i]
    BY <2>2, OverFirst
  <2>5. ASSUME NEW i \in ItemsOf(r), i \notin DOMAIN changed PROVE items[i] = row[i]
    BY <2>1, <2>2, <2>5, OverSecond
  <2> QED
    BY <2>3, <2>4, <2>5
<1>2. new = Over(Only(r, [base EXCEPT !.total = total]), items)
  <2>1. AmountsIn(items, D) = AmountsIn(items, DOMAIN items)
    BY <1>1
  <2> QED
    BY <2>1 DEF WithItems, AmountsIn
<1> HIDE DEF items, total, new
<1>3. D \subseteq Item /\ r \notin D
  BY TableNames, ItemNames
<1>4. /\ IsRows(new)
      /\ DOMAIN new = {r} \cup D
      /\ new[r] = [base EXCEPT !.total = total]
      /\ \A i \in D : new[i] = items[i]
  <2> DEFINE b == [base EXCEPT !.total = total]
             h == Only(r, b)
  <2>1. DOMAIN h = {r} /\ h[r] = b
    BY OnlyIs
  <2>2. new = Over(h, items)
    BY <1>2
  <2> HIDE DEF h, b
  <2>3. IsRows(new) /\ DOMAIN new = {r} \cup D
    BY ZenonT(60), <1>1, <2>1, <2>2, OverDomain
  <2>4. new[r] = b
    BY <2>1, <2>2, OverFirst
  <2>5. \A i \in D : new[i] = items[i]
    BY <1>1, <1>3, <2>1, <2>2, OverSecond
  <2> QED
    BY <2>3, <2>4, <2>5 DEF b
<1>5. AmountsIn(new, D) = total
  <2>1. IsFiniteSet(D)
    BY <1>3, FS_Subset, ExpensesAssumption
  <2>2. \A i \in D : new[i].amount = items[i].amount
    BY <1>4
  <2> HIDE DEF D
  <2> QED
    BY <2>1, <2>2, AmountsSame DEF total
<1>6. IsWithItems(new, r, base, changed, D)
  BY <1>1, <1>4, <1>5 DEF IsWithItems
<1> QED
  BY <1>6 DEF new

\* The tables of a request.
InTables(q, r, D, T) ==
    /\ DOMAIN q.new = {r} \cup D \cup T /\ DOMAIN q.seen = DOMAIN q.new
    /\ r \in Report /\ D \subseteq Item /\ T \subseteq Txn

LEMMA TablesOf ==
    ASSUME NEW q, NEW r, NEW D, NEW T, InTables(q, r, D, T)
    PROVE  /\ DOMAIN q.new \cap Report = {r} /\ DOMAIN q.new \cap Item = D
           /\ DOMAIN q.new \cap Txn = T /\ DOMAIN q.new \cap Step = {}
           /\ DOMAIN q.new \cap Batch = {} /\ DOMAIN q.new \subseteq Tables
           /\ DOMAIN q.seen = DOMAIN q.new
BY TableNames DEF InTables, Tables

LEMMA TotalPositive ==
    ASSUME NEW q, NEW r, NEW D, NEW T, InTables(q, r, D, T),
           \A i \in D : ItemPart(q, i), \E i \in D : q.new[i].state = "present"
    PROVE  AmountsIn(q.new, D) \in Nat /\ AmountsIn(q.new, D) >= 1
<1>1. IsFiniteSet(D)
  BY FS_Subset, ExpensesAssumption DEF InTables
<1>2. ASSUME NEW i \in D
      PROVE  q.new[i].amount \in Nat /\ (q.new[i].state = "present" => q.new[i].amount >= 1)
  BY DEF ItemPart, ItemRow
<1>3. PICK i \in D : q.new[i].amount >= 1
  BY <1>2
<1>4. \A k \in D : q.new[k].amount \in Nat
  BY <1>2
<1> QED
  BY <1>1, <1>3, <1>4, AmountsPositive, AmountsNat

LEMMA ContentLoad ==
    ASSUME IInv, NEW s \in Slot, NEW q, Begin(s, q), NEW r, NEW D, NEW T, InTables(q, r, D, T),
           SeenNow(q), q.op \in Content, OwnerEditable(r), q.locks \subseteq Tables \cup {Membership},
           q.new[r] = [row[r] EXCEPT !.total = AmountsIn(q.new, D)],
           q.op = "from_txn" => r \in q.locks,
           ItemsOf(r) \subseteq D, \A i \in D : ItemPart(q, i), \A t \in T : TxnPart(q, t),
           \E i \in D : q.new[i].state = "present",
           \A i \in D : row[i].state = "absent" => Fresh(i)
    PROVE  IInv'
<1>1. /\ DOMAIN q.new \cap Report = {r} /\ DOMAIN q.new \cap Item = D
      /\ DOMAIN q.new \cap Txn = T /\ DOMAIN q.new \cap Step = {}
      /\ DOMAIN q.new \cap Batch = {} /\ DOMAIN q.new \subseteq Tables
      /\ DOMAIN q.seen = DOMAIN q.new /\ r \in Report
  <2>1. r \in Report
    BY DEF InTables
  <2> QED
    BY <2>1, TablesOf
<1>2. /\ row[r] \in ReportRow /\ row[r].state \in Editable /\ ~row[r].binned
      /\ row[r].total >= 1 /\ q.seen[r] = row[r]
  BY <1>1, NamesOf DEF ReportOK, OwnerEditable, Editable, SeenNow
<1>3. AmountsIn(q.new, D) \in Nat /\ AmountsIn(q.new, D) >= 1
  BY TotalPositive
<1> DEFINE n == AmountsIn(q.new, D)
<1>4. ReportPart(q, r)
  <2>1. n \in Nat /\ n >= 1 /\ q.new[r] = [row[r] EXCEPT !.total = n]
    BY <1>3
  <2> HIDE DEF n
  <2>2. q.new[r] \in ReportRow
    BY <1>2, <2>1 DEF ReportRow
  <2>3. /\ q.new[r].state = row[r].state /\ q.new[r].binned = row[r].binned
        /\ q.new[r].total = n /\ q.new[r].eur = row[r].eur /\ q.new[r].version = row[r].version
        /\ q.new[r].batch = row[r].batch /\ q.new[r].key = row[r].key
    BY <1>2, <2>1 DEF ReportRow
  <2>4. ReportGuard(q.op, q.seen[r])
    BY <1>2 DEF ReportGuard, Content, Editable
  <2>5. ReportState(q.op, q.seen[r], q.new[r])
    BY <1>2, <2>3 DEF ReportState, Content
  <2>6. ReportColumns(q.op, q.seen[r], q.new[r])
    BY <1>2, <2>1, <2>3 DEF ReportColumns, Content, Decisions, ReportRow
  <2> QED
    BY <1>2, <2>2, <2>3, <2>4, <2>5, <2>6 DEF ReportPart, Content, Decisions, Editable
<1>5. Shape(q)
  BY <1>1, <1>4, TableNames DEF Shape, Part
<1>6. ContentRequest(q)
  <2>1. q.new[r].total = AmountsIn(q.new, D)
    BY <1>2 DEF ReportRow
  <2>2. ASSUME ~Mixed(r) PROVE q.seen[r].total = AmountsIn(q.seen, D)
    <3>1. row[r].total = AmountsIn(row, ItemsOf(r))
      BY <1>1, <2>2 DEF IInv, Entries, Totals
    <3>2. IsFiniteSet(D) /\ D \subseteq Item
      BY FS_Subset, ExpensesAssumption DEF InTables
    <3>3. ASSUME NEW i \in D PROVE q.seen[i] = row[i]
      BY <1>1 DEF SeenNow
    <3>4. ASSUME NEW i \in D, i \notin ItemsOf(r) PROVE row[i].amount = 0
      <4>1. q.seen[i].report \in {r, NoReport}
        BY <1>1 DEF ItemPart
      <4>2. ItemOK(i) /\ NoReport \notin Report
        BY <3>2, NamesOf, ExpensesAssumption
      <4>3. row[i].state = "absent"
        BY <3>2, <3>3, <3>4, <4>1, <4>2 DEF ItemOK, ItemRow, ItemsOf
      <4> QED
        BY <4>2, <4>3 DEF ItemOK, NoneItem
    <3>5. \A i \in D : row[i].amount \in Int
      BY <3>2, NamesOf DEF ItemRow
    <3>6. AmountsIn(row, D) = AmountsIn(row, ItemsOf(r))
      BY <3>2, <3>4, <3>5, AmountsWithout
    <3>7. AmountsIn(q.seen, D) = AmountsIn(row, D)
      BY <3>2, <3>3, AmountsSame
    <3> QED
      BY <1>2, <3>1, <3>6, <3>7
  <2> QED
    BY <1>1, <2>1, <2>2 DEF ContentRequest
<1>7. Reserved(q)
  <2>1. \A x \in DOMAIN q.new : x = r \/ x \in D \/ x \in T
    BY DEF InTables
  <2>2. \A t \in T : row[t].state # "absent"
    BY NamesOf DEF InTables, TxnRow
  <2> QED
    BY <1>2, <2>1, <2>2 DEF Reserved, Editable
<1>8. RequestOK(q) /\ GenNew(q)
  BY <1>5, <1>6, Aside, SeenIsCurrent DEF RequestOK, Content, Decisions
<1> QED
  BY <1>7, <1>8, BeginStep

LEMMA EntryIs ==
    ASSUME NEW r \in Report, NEW amount \in Amount, NEW t \in Txn \cup {NoTxn}
    PROVE  /\ Entry(r, amount, t) \in ItemRow
           /\ Entry(r, amount, t).state = "present" /\ Entry(r, amount, t).report = r
           /\ Entry(r, amount, t).amount >= 1 /\ Entry(r, amount, t).ref = t
BY ExpensesAssumption DEF Entry, ItemRow

\* A request on report r that leaves `base` and, of its entries D, the `changed`.
EntriesRequest(q, r, base, changed, D) ==
    /\ InTables(q, r, D, {}) /\ SeenNow(q)
    /\ DOMAIN q.new \cap Report = {r}
    /\ ItemsOf(r) \subseteq D
    /\ q.new[r] = [base EXCEPT !.total = AmountsIn(q.new, D)]
    /\ \A i \in DOMAIN changed : q.new[i] = changed[i]
    /\ \A i \in ItemsOf(r) : i \notin DOMAIN changed => q.new[i] = row[i]

LEMMA EntriesLoad ==
    ASSUME IInv, NEW r \in Report, NEW base, NEW changed, NEW op, NEW locks,
           IsRows(changed), DOMAIN changed \subseteq Item
    PROVE  LET q == Request(op, locks, WithItems(r, base, changed)) IN
           /\ q.op = op /\ q.locks = locks
           /\ EntriesRequest(q, r, base, changed, DOMAIN changed \cup ItemsOf(r))
<1> DEFINE new == WithItems(r, base, changed)
           q == Request(op, locks, new)
           D == DOMAIN changed \cup ItemsOf(r)
<1>1. IsWithItems(new, r, base, changed, D)
  BY WithItemsIs
<1>2. D \subseteq Item /\ ItemsOf(r) \subseteq D
  BY ItemNames
<1> HIDE DEF new, D
<1>3. /\ q.op = op /\ q.locks = locks /\ q.new = new
      /\ DOMAIN q.seen = DOMAIN new /\ \A x \in DOMAIN new : q.seen[x] = row[x]
  BY <1>1, RequestIs DEF IsWithItems
<1> HIDE DEF q
<1>4. InTables(q, r, D, {}) /\ SeenNow(q)
  BY <1>1, <1>2, <1>3 DEF InTables, SeenNow, IsWithItems
<1>5. DOMAIN q.new \cap Report = {r}
  BY <1>4, TablesOf
<1>6. EntriesRequest(q, r, base, changed, D)
  BY <1>1, <1>2, <1>3, <1>4, <1>5 DEF EntriesRequest, IsWithItems
<1> QED
  BY <1>3, <1>6 DEF q, D, new

\* An entry that is loaded for the total only.
LEMMA ItemUnchanged ==
    ASSUME IInv, NEW q, NEW r \in Report, NEW i \in ItemsOf(r),
           q.op \in Content, q.seen[i] = row[i], q.new[i] = row[i],
           DOMAIN q.new \cap Report = {r}
    PROVE  ItemPart(q, i)
<1>1. row[i] \in ItemRow /\ row[i].state = "present" /\ row[i].report = r /\ row[i].amount >= 1
  BY ItemNames
<1> QED
  BY <1>1 DEF ItemPart, Content

\* An entry that is inserted.
LEMMA ItemInserted ==
    ASSUME IInv, NEW q, NEW r \in Report, NEW i \in Item, NEW amount \in Amount, NEW t \in Txn \cup {NoTxn},
           q.op \in {"add", "replace", "from_txn", "create"}, q.seen[i] = row[i], Fresh(i),
           q.new[i] = Entry(r, amount, t), DOMAIN q.new \cap Report = {r},
           t # NoTxn => t \in DOMAIN q.new /\ q.new[t] = Assigned(i)
    PROVE  ItemPart(q, i) /\ q.new[i].state = "present"
<1>1. q.seen[i] = NoneItem
  BY NamesOf DEF Fresh, ItemOK
<1>2. NoneItem.ref = NoTxn
  BY DEF NoneItem
<1>3. /\ q.new[i] \in ItemRow /\ q.new[i].state = "present" /\ q.new[i].report = r
      /\ q.new[i].amount >= 1 /\ q.new[i].ref = t
  BY EntryIs
<1> QED
  BY <1>1, <1>2, <1>3, ItemNames DEF ItemPart, Content

LEMMA AddStep ==
    ASSUME IInv, NEW s \in Slot, NEW r \in Report, NEW i \in Item, NEW amount \in Amount,
           LoadAdd(s, r, i, amount)
    PROVE  IInv'
<1> DEFINE changed == Only(i, Entry(r, amount, NoTxn))
           q == Request("add", {}, WithItems(r, row[r], changed))
           D == DOMAIN changed \cup ItemsOf(r)
<1>1. Begin(s, q) /\ OwnerEditable(r) /\ Fresh(i)
  BY DEF LoadAdd
<1>2. DOMAIN changed = {i} /\ changed[i] = Entry(r, amount, NoTxn) /\ IsRows(changed)
  BY OnlyIs
<1> HIDE DEF changed
<1>3. q.op = "add" /\ q.locks = {} /\ EntriesRequest(q, r, row[r], changed, D)
  BY <1>2, EntriesLoad
<1>4. i \in D /\ \A j \in D : j = i \/ j \in ItemsOf(r)
  BY <1>2
<1> HIDE DEF q, D
<1>5. \A j \in D : q.seen[j] = row[j]
  BY <1>3 DEF EntriesRequest, SeenNow, InTables
<1>6. ItemPart(q, i) /\ q.new[i].state = "present"
  BY <1>1, <1>2, <1>3, <1>4, <1>5, ItemInserted DEF EntriesRequest
<1>7. ASSUME NEW j \in D PROVE ItemPart(q, j) /\ (row[j].state = "absent" => Fresh(j))
  BY <1>1, <1>2, <1>3, <1>4, <1>5, <1>6, ItemUnchanged, ItemNames DEF EntriesRequest, Content
<1> QED
  BY <1>1, <1>3, <1>4, <1>6, <1>7, ContentLoad DEF EntriesRequest, Content

LEMMA EditStep ==
    ASSUME IInv, NEW s \in Slot, NEW r \in Report, NEW i \in Item, NEW amount \in Amount,
           LoadEdit(s, r, i, amount)
    PROVE  IInv'
<1> DEFINE changed == Only(i, [row[i] EXCEPT !.amount = amount])
           q == Request("edit", {}, WithItems(r, row[r], changed))
           D == DOMAIN changed \cup ItemsOf(r)
<1>1. Begin(s, q) /\ OwnerEditable(r) /\ i \in ItemsOf(r)
  BY DEF LoadEdit
<1>2. DOMAIN changed = {i} /\ changed[i] = [row[i] EXCEPT !.amount = amount] /\ IsRows(changed)
  BY OnlyIs
<1> HIDE DEF changed
<1>3. q.op = "edit" /\ q.locks = {} /\ EntriesRequest(q, r, row[r], changed, D)
  BY <1>2, EntriesLoad
<1>4. i \in D /\ \A j \in D : j \in ItemsOf(r)
  BY <1>1, <1>2
<1> HIDE DEF q, D
<1>5. \A j \in D : q.seen[j] = row[j]
  BY <1>3 DEF EntriesRequest, SeenNow, InTables
<1>6. ItemPart(q, i) /\ q.new[i].state = "present"
  <2>1. row[i] \in ItemRow /\ row[i].state = "present" /\ row[i].report = r /\ row[i].amount >= 1
    BY <1>1, ItemNames
  <2>2. q.seen[i] = row[i] /\ q.new[i] = [row[i] EXCEPT !.amount = amount]
    BY <1>2, <1>3, <1>4, <1>5 DEF EntriesRequest
  <2>3. amount \in Nat /\ amount >= 1
    BY ExpensesAssumption
  <2>4. /\ q.new[i] \in ItemRow /\ q.new[i].state = "present" /\ q.new[i].report = r
        /\ q.new[i].amount = amount /\ q.new[i].ref = row[i].ref
    BY <2>1, <2>2, <2>3 DEF ItemRow
  <2>5. DOMAIN q.new \cap Report = {r}
    BY <1>3 DEF EntriesRequest
  <2> QED
    BY <1>3, <2>1, <2>2, <2>3, <2>4, <2>5 DEF ItemPart, Content
<1>7. ASSUME NEW j \in D PROVE ItemPart(q, j) /\ (row[j].state = "absent" => Fresh(j))
  BY <1>2, <1>3, <1>4, <1>5, <1>6, ItemUnchanged, ItemNames DEF EntriesRequest, Content
<1> QED
  BY <1>1, <1>3, <1>4, <1>6, <1>7, ContentLoad DEF EntriesRequest, Content

LEMMA ReplaceStep ==
    ASSUME IInv, NEW s \in Slot, NEW r \in Report, NEW i \in Item, NEW amount \in Amount,
           LoadReplace(s, r, i, amount)
    PROVE  IInv'
<1> DEFINE old == [j \in ItemsOf(r) |-> NoneItem]
           only == Only(i, Entry(r, amount, NoTxn))
           changed == Over(only, old)
           q == Request("replace", {}, WithItems(r, row[r], changed))
           D == DOMAIN changed \cup ItemsOf(r)
<1>1. Begin(s, q) /\ OwnerEditable(r) /\ Fresh(i)
  BY DEF LoadReplace
<1>2. DOMAIN only = {i} /\ only[i] = Entry(r, amount, NoTxn)
  BY OnlyIs
<1>3. DOMAIN old = ItemsOf(r) /\ \A j \in ItemsOf(r) : old[j] = NoneItem
  OBVIOUS
<1>4. i \notin ItemsOf(r) /\ ItemsOf(r) \subseteq Item
  BY <1>1, ItemNames DEF Fresh
<1> HIDE DEF only, old
<1>5. DOMAIN changed = {i} \cup ItemsOf(r) /\ IsRows(changed)
  BY <1>2, <1>3, OverDomain
<1>6. changed[i] = Entry(r, amount, NoTxn)
  BY <1>2, OverFirst
<1>7. \A j \in ItemsOf(r) : changed[j] = NoneItem
  BY <1>2, <1>3, <1>4, OverSecond
<1> HIDE DEF changed
<1>8. q.op = "replace" /\ q.locks = {} /\ EntriesRequest(q, r, row[r], changed, D)
  BY <1>4, <1>5, EntriesLoad
<1>9. i \in D /\ \A j \in D : j = i \/ j \in ItemsOf(r)
  BY <1>5
<1> HIDE DEF q, D
<1>10. \A j \in D : q.seen[j] = row[j]
  BY <1>8 DEF EntriesRequest, SeenNow, InTables
<1>11. ItemPart(q, i) /\ q.new[i].state = "present"
  BY <1>1, <1>5, <1>6, <1>8, <1>9, <1>10, ItemInserted DEF EntriesRequest
<1>12. ASSUME NEW j \in ItemsOf(r) PROVE ItemPart(q, j)
  <2>1. row[j] \in ItemRow /\ row[j].state = "present" /\ row[j].report = r /\ row[j].amount >= 1
    BY ItemNames
  <2>2. q.seen[j] = row[j] /\ q.new[j] = NoneItem /\ NoneItem.ref = NoTxn
    BY <1>5, <1>7, <1>8, <1>10 DEF EntriesRequest, NoneItem
  <2>3. DOMAIN q.new \cap Report = {r}
    BY <1>8 DEF EntriesRequest
  <2> QED
    BY <1>8, <2>1, <2>2, <2>3, ItemNames DEF ItemPart, Content
<1>13. ASSUME NEW j \in D PROVE ItemPart(q, j) /\ (row[j].state = "absent" => Fresh(j))
  BY <1>1, <1>9, <1>11, <1>12, ItemNames
<1> QED
  BY <1>1, <1>8, <1>9, <1>11, <1>13, ContentLoad DEF EntriesRequest, Content
\* A request on report r that also assigns the transactions of u.
InboxRequest(q, r, base, changed, D, u) ==
    /\ InTables(q, r, D, DOMAIN u) /\ SeenNow(q)
    /\ DOMAIN q.new \cap Report = {r}
    /\ ItemsOf(r) \subseteq D
    /\ q.new[r] = [base EXCEPT !.total = AmountsIn(q.new, D)]
    /\ \A i \in DOMAIN changed : q.new[i] = changed[i]
    /\ \A i \in ItemsOf(r) : i \notin DOMAIN changed => q.new[i] = row[i]
    /\ \A t \in DOMAIN u : q.new[t] = u[t]

LEMMA InboxLoad ==
    ASSUME IInv, NEW r \in Report, NEW base, NEW changed, NEW op, NEW locks, NEW u,
           IsRows(changed), DOMAIN changed \subseteq Item, IsRows(u), DOMAIN u \subseteq Txn
    PROVE  LET q == Request(op, locks, Over(WithItems(r, base, changed), u)) IN
           /\ q.op = op /\ q.locks = locks
           /\ InboxRequest(q, r, base, changed, DOMAIN changed \cup ItemsOf(r), u)
<1> DEFINE w == WithItems(r, base, changed)
           new == Over(w, u)
           q == Request(op, locks, new)
           D == DOMAIN changed \cup ItemsOf(r)
<1>1. IsWithItems(w, r, base, changed, D)
  BY WithItemsIs
<1>2. D \subseteq Item /\ ItemsOf(r) \subseteq D /\ DOMAIN changed \subseteq D
  BY ItemNames
<1> HIDE DEF w, D
<1>3. IsRows(new) /\ DOMAIN new = DOMAIN w \cup DOMAIN u
  BY OverDomain
<1>4. DOMAIN w = {r} \cup D
  BY <1>1 DEF IsWithItems
<1>5. ASSUME NEW x \in DOMAIN w PROVE new[x] = w[x]
  BY OverFirst
<1>6. ASSUME NEW t \in DOMAIN u PROVE new[t] = u[t]
  <2>1. t \notin DOMAIN w
    BY <1>2, <1>4, TableNames
  <2> QED
    BY <2>1, OverSecond
<1> HIDE DEF new
<1>7. /\ q.op = op /\ q.locks = locks /\ q.new = new
      /\ DOMAIN q.seen = DOMAIN new /\ \A x \in DOMAIN new : q.seen[x] = row[x]
  BY <1>3, RequestIs
<1> HIDE DEF q
<1>8. InTables(q, r, D, DOMAIN u) /\ SeenNow(q)
  BY <1>2, <1>3, <1>4, <1>7 DEF InTables, SeenNow
<1>9. DOMAIN q.new \cap Report = {r}
  BY <1>8, TablesOf
<1>10. AmountsIn(new, D) = AmountsIn(w, D)
  <2>1. IsFiniteSet(D)
    BY <1>2, FS_Subset, ExpensesAssumption
  <2>2. \A i \in D : new[i].amount = w[i].amount
    BY <1>4, <1>5
  <2> QED
    BY <2>1, <2>2, AmountsSame
<1>11. q.new[r] = [base EXCEPT !.total = AmountsIn(q.new, D)]
  BY <1>1, <1>4, <1>5, <1>7, <1>10 DEF IsWithItems
<1>12. /\ \A i \in DOMAIN changed : q.new[i] = changed[i]
       /\ \A i \in ItemsOf(r) : i \notin DOMAIN changed => q.new[i] = row[i]
  BY <1>1, <1>2, <1>4, <1>5, <1>7 DEF IsWithItems
<1>13. InboxRequest(q, r, base, changed, D, u)
  BY <1>2, <1>6, <1>7, <1>8, <1>9, <1>11, <1>12 DEF InboxRequest
<1> QED
  BY <1>7, <1>13 DEF q, D, new, w

LEMMA AssignedIs ==
    ASSUME NEW i \in Item
    PROVE  /\ Assigned(i) \in TxnRow
           /\ Assigned(i).state = "assigned" /\ Assigned(i).item = i
BY DEF Assigned, TxnRow

LEMMA FromTxnStep ==
    ASSUME IInv, NEW s \in Slot, NEW r \in Report, NEW i \in Item, NEW t \in Txn,
           LoadFromTxn(s, r, i, t)
    PROVE  IInv'
<1> DEFINE changed == Only(i, Entry(r, TxnAmount, t))
           u == Only(t, Assigned(i))
           q == Request("from_txn", InboxLocks(r, t), Over(WithItems(r, row[r], changed), u))
           D == DOMAIN changed \cup ItemsOf(r)
<1>1. Begin(s, q) /\ OwnerEditable(r) /\ Fresh(i) /\ row[t].state = "available"
  BY DEF LoadFromTxn
<1>2. /\ DOMAIN changed = {i} /\ changed[i] = Entry(r, TxnAmount, t) /\ IsRows(changed)
      /\ DOMAIN u = {t} /\ u[t] = Assigned(i) /\ IsRows(u)
  BY OnlyIs
<1> HIDE DEF changed, u
<1>3. q.op = "from_txn" /\ q.locks = {r, t} /\ InboxRequest(q, r, row[r], changed, D, u)
  BY <1>2, InboxLoad DEF InboxLocks
<1>4. i \in D /\ \A j \in D : j = i \/ j \in ItemsOf(r)
  BY <1>2
<1> HIDE DEF q, D
<1>5. /\ \A j \in D : q.seen[j] = row[j]
      /\ t \in DOMAIN q.new /\ q.seen[t] = row[t] /\ q.new[t] = Assigned(i)
  BY <1>2, <1>3 DEF InboxRequest, SeenNow, InTables
<1>6. ItemPart(q, i) /\ q.new[i].state = "present"
  BY <1>1, <1>2, <1>3, <1>4, <1>5, ItemInserted, ExpensesAssumption DEF InboxRequest
<1>7. ASSUME NEW j \in D PROVE ItemPart(q, j) /\ (row[j].state = "absent" => Fresh(j))
  BY <1>1, <1>2, <1>3, <1>4, <1>5, <1>6, ItemUnchanged, ItemNames DEF InboxRequest, Content
<1>8. \A v \in DOMAIN u : TxnPart(q, v)
  BY <1>1, <1>2, <1>3, <1>5, AssignedIs, NamesOf DEF TxnPart
<1>9. q.locks \subseteq Tables \cup {Membership} /\ r \in q.locks
  BY <1>3 DEF Tables
<1> QED
  BY <1>1, <1>3, <1>4, <1>6, <1>7, <1>8, <1>9, ContentLoad DEF InboxRequest, Content

LEMMA NewReportTyped ==
    /\ NewReport \in ReportRow /\ NewReport.state = "draft" /\ ~NewReport.binned
    /\ NewReport.total = 0 /\ NewReport.eur = 0 /\ NewReport.version = 1
    /\ NewReport.batch = NoBatch /\ NewReport.key = NoKey
<1>1. 1 \in 1 .. MaxVersion /\ "draft" \in States
  BY ExpensesAssumption DEF States, Editable
<1> QED
  BY <1>1 DEF NewReport, ReportRow

LEMMA NewReportIs ==
    ASSUME NEW key \in Key \cup {NoKey}, NEW n \in Nat
    PROVE  LET new == [[NewReport EXCEPT !.key = key] EXCEPT !.total = n] IN
           /\ new \in ReportRow /\ new.state = "draft" /\ ~new.binned /\ new.total = n
           /\ new.eur = 0 /\ new.version = 1 /\ new.batch = NoBatch /\ new.key = key
BY NewReportTyped DEF ReportRow

LEMMA NoneReportIs ==
    /\ NoneReport \in ReportRow /\ NoneReport.state = "absent" /\ ~NoneReport.binned
    /\ NoneReport.total = 0 /\ NoneReport.eur = 0 /\ NoneReport.version = 1
    /\ NoneReport.batch = NoBatch /\ NoneReport.key = NoKey
<1>1. NoneReport = [NewReport EXCEPT !.state = "absent"]
  BY DEF NoneReport
<1> QED
  BY <1>1, NewReportTyped DEF ReportRow

LEMMA CreateStep ==
    ASSUME IInv, NEW s \in Slot, NEW r \in Report, NEW key \in Key \cup {NoKey}, NEW i \in Item,
           NEW amount \in Amount, NEW t \in Txn \cup {NoTxn}, LoadCreate(s, r, key, i, amount, t)
    PROVE  IInv'
<1> DEFINE changed == Only(i, Entry(r, amount, t))
           u == [v \in {t} \ {NoTxn} |-> Assigned(i)]
           base == [NewReport EXCEPT !.key = key]
           locks == ActorLocks \cup (IF t = NoTxn THEN {} ELSE {t})
           q == Request("create", locks, Over(WithItems(r, base, changed), u))
           D == DOMAIN changed \cup ItemsOf(r)
<1>1. /\ Begin(s, q) /\ Fresh(r) /\ Fresh(i)
      /\ key # NoKey => \A e \in Report : row[e].key # key
      /\ t # NoTxn => row[t].state = "available"
  BY DEF LoadCreate
<1>2. /\ DOMAIN changed = {i} /\ changed[i] = Entry(r, amount, t) /\ IsRows(changed)
      /\ DOMAIN u = {t} \ {NoTxn} /\ (\A v \in DOMAIN u : u[v] = Assigned(i)) /\ IsRows(u)
      /\ DOMAIN u \subseteq Txn
  BY OnlyIs DEF IsRows
<1>3. locks \subseteq Tables \cup {Membership} /\ Membership \in locks /\ DOMAIN u \subseteq locks
  BY <1>2 DEF Tables, ActorLocks
<1> DEFINE n == AmountsIn(q.new, D)
<1> HIDE DEF changed, u, locks, base
<1>4. q.op = "create" /\ q.locks = locks /\ InboxRequest(q, r, base, changed, D, u)
  BY <1>2, InboxLoad
<1>5. i \in D /\ \A j \in D : j = i
  <2>1. ItemsOf(r) = {}
    BY <1>1, NamesOf DEF Fresh, ItemsOf, ItemOK
  <2> QED
    BY <1>2, <2>1
<1> HIDE DEF q, D
<1>6. /\ \A j \in D : q.seen[j] = row[j]
      /\ \A v \in DOMAIN u : v \in DOMAIN q.new /\ q.seen[v] = row[v] /\ q.new[v] = Assigned(i)
      /\ q.seen[r] = row[r] /\ r \in DOMAIN q.new
  BY <1>2, <1>4 DEF InboxRequest, SeenNow, InTables
<1>7. ItemPart(q, i) /\ q.new[i].state = "present"
  <2>1. t # NoTxn => t \in DOMAIN u
    BY <1>2
  <2> QED
    BY <1>1, <1>2, <1>4, <1>5, <1>6, <2>1, ItemInserted DEF InboxRequest
<1>8. ASSUME NEW j \in D PROVE ItemPart(q, j) /\ (row[j].state = "absent" => Fresh(j))
  BY <1>1, <1>5, <1>7
<1>9. \A v \in DOMAIN u : TxnPart(q, v) /\ row[v].state # "absent"
  BY <1>1, <1>2, <1>3, <1>4, <1>6, AssignedIs, NamesOf DEF TxnPart, TxnRow
<1>10. /\ DOMAIN q.new \cap Report = {r} /\ DOMAIN q.new \cap Item = D
       /\ DOMAIN q.new \cap Txn = DOMAIN u /\ DOMAIN q.new \cap Step = {}
       /\ DOMAIN q.new \cap Batch = {} /\ DOMAIN q.new \subseteq Tables
       /\ DOMAIN q.seen = DOMAIN q.new
  BY <1>4, TablesOf DEF InboxRequest
<1>11. n \in Nat /\ n >= 1
  BY <1>4, <1>5, <1>7, <1>8, TotalPositive DEF InboxRequest
<1>12. q.new[r] = [base EXCEPT !.total = n]
  BY <1>4 DEF InboxRequest
<1> HIDE DEF n
<1>13. /\ q.new[r] \in ReportRow /\ q.new[r].state = "draft" /\ ~q.new[r].binned /\ q.new[r].total = n
       /\ q.new[r].eur = 0 /\ q.new[r].version = 1 /\ q.new[r].batch = NoBatch /\ q.new[r].key = key
  <2> DEFINE new == [[NewReport EXCEPT !.key = key] EXCEPT !.total = n]
  <2>0. n \in Nat
    BY <1>11
  <2>1. /\ new \in ReportRow /\ new.state = "draft" /\ ~new.binned /\ new.total = n
        /\ new.eur = 0 /\ new.version = 1 /\ new.batch = NoBatch /\ new.key = key
    BY <2>0, NewReportIs, ZenonT(60)
  <2>2. q.new[r] = new
    BY <1>12 DEF base
  <2> QED
    BY <2>1, <2>2
<1>14. q.seen[r] = NoneReport
  BY <1>1, <1>6, NamesOf DEF Fresh, ReportOK
<1>15. ReportPart(q, r)
  <2>1. ReportGuard(q.op, q.seen[r])
    BY <1>4, <1>14, NoneReportIs DEF ReportGuard, Content
  <2>2. ReportState(q.op, q.seen[r], q.new[r])
    BY <1>4, <1>13 DEF ReportState, Content
  <2>3. ReportColumns(q.op, q.seen[r], q.new[r])
    <3>1. q.new[r].binned = FALSE /\ NoneReport.binned = FALSE
      BY <1>13, NoneReportIs DEF ReportRow
    <3> QED
      BY <1>4, <1>11, <1>13, <1>14, <3>1, NoneReportIs DEF ReportColumns, Content, Decisions
  <2> QED
    BY <1>4, <1>13, <1>14, <2>1, <2>2, <2>3, NoneReportIs DEF ReportPart, Content, Decisions
<1>16. Shape(q)
  BY <1>3, <1>4, <1>8, <1>9, <1>10, <1>15, TableNames DEF Shape, Part
<1>17. Keyed(q)
  BY <1>1, <1>3, <1>4, <1>10, <1>13 DEF Keyed
<1>18. ContentRequest(q)
  BY <1>4, <1>10, <1>13 DEF ContentRequest, Content, n
<1>19. Reserved(q)
  <2>1. \A x \in DOMAIN q.new : x = r \/ x \in D \/ x \in DOMAIN u
    BY <1>4 DEF InboxRequest, InTables
  <2> QED
    BY <1>1, <1>8, <1>9, <2>1 DEF Reserved
<1>20. RequestOK(q) /\ GenNew(q) /\ SeenNow(q)
  BY <1>4, <1>16, <1>17, <1>18, Aside, SeenIsCurrent DEF RequestOK, Decisions, InboxRequest
<1> QED
  BY <1>1, <1>19, <1>20, BeginStep DEF q, locks, base, changed, u
LEMMA OneRow ==
    ASSUME NEW op, NEW locks, NEW x, NEW a
    PROVE  LET q == Request(op, locks, Only(x, a)) IN
           /\ q.op = op /\ q.locks = locks /\ DOMAIN q.new = {x} /\ DOMAIN q.seen = {x}
           /\ q.new[x] = a /\ q.seen[x] = row[x]
<1> DEFINE new == Only(x, a)
           q == Request(op, locks, new)
<1>1. DOMAIN new = {x} /\ new[x] = a /\ IsRows(new)
  BY OnlyIs
<1> HIDE DEF new
<1>2. /\ q.op = op /\ q.locks = locks /\ q.new = new
      /\ DOMAIN q.seen = DOMAIN new /\ \A y \in DOMAIN new : q.seen[y] = row[y]
  BY <1>1, RequestIs
<1> QED
  BY <1>1, <1>2 DEF new

\* A request that writes one row and those of g.
RowAnd(q, op, locks, x, a, g) ==
    /\ q.op = op /\ q.locks = locks
    /\ DOMAIN q.new = {x} \cup DOMAIN g /\ DOMAIN q.seen = DOMAIN q.new
    /\ q.new[x] = a
    /\ \A y \in DOMAIN g : y # x => q.new[y] = g[y]
    /\ \A y \in DOMAIN q.new : q.seen[y] = row[y]

LEMMA RowAndIs ==
    ASSUME NEW op, NEW locks, NEW x, NEW a, NEW g
    PROVE  RowAnd(Request(op, locks, Over(Only(x, a), g)), op, locks, x, a, g)
<1> DEFINE h == Only(x, a)
           new == Over(h, g)
           q == Request(op, locks, new)
<1>1. DOMAIN h = {x} /\ h[x] = a
  BY OnlyIs
<1> HIDE DEF h
<1>2. DOMAIN new = {x} \cup DOMAIN g /\ IsRows(new)
  BY <1>1, OverDomain
<1>3. new[x] = a
  BY <1>1, OverFirst
<1>4. ASSUME NEW y \in DOMAIN g, y # x PROVE new[y] = g[y]
  BY <1>1, <1>4, OverSecond
<1> HIDE DEF new
<1>5. /\ q.op = op /\ q.locks = locks /\ q.new = new
      /\ DOMAIN q.seen = DOMAIN new /\ \A y \in DOMAIN new : q.seen[y] = row[y]
  BY <1>2, RequestIs
<1> HIDE DEF q
<1>6. RowAnd(q, op, locks, x, a, g)
  BY <1>2, <1>3, <1>4, <1>5 DEF RowAnd
<1> QED
  BY <1>6 DEF q, new, h

LEMMA MatchStep ==
    ASSUME IInv, NEW s \in Slot, NEW r \in Report, NEW i \in Item, NEW t \in Txn,
           LoadMatch(s, r, i, t)
    PROVE  IInv'
<1> DEFINE a == [row[i] EXCEPT !.ref = t]
           g == Only(t, Assigned(i))
           q == Request("match", InboxLocks(r, t), Over(Only(i, a), g))
<1>1. Begin(s, q) /\ i \in ItemsOf(r) /\ row[t].state = "available"
  BY DEF LoadMatch
<1>2. DOMAIN g = {t} /\ g[t] = Assigned(i) /\ i # t
  BY OnlyIs, TableNames
<1>3. row[i] \in ItemRow /\ row[i].state = "present" /\ row[i].report = r /\ row[i].amount >= 1
  BY <1>1, ItemNames
<1>4. /\ a \in ItemRow /\ a.state = "present" /\ a.report = r /\ a.amount = row[i].amount /\ a.ref = t
  BY <1>3 DEF ItemRow
<1> HIDE DEF a, g
<1>5. RowAnd(q, "match", {r, t}, i, a, g)
  BY RowAndIs DEF InboxLocks
<1> HIDE DEF q
<1>6. /\ q.op = "match" /\ q.locks = {r, t} /\ DOMAIN q.new = {i, t} /\ DOMAIN q.seen = {i, t}
      /\ q.new[i] = a /\ q.new[t] = Assigned(i) /\ q.seen[i] = row[i] /\ q.seen[t] = row[t]
  BY <1>2, <1>5 DEF RowAnd
<1>7. ItemPart(q, i)
  BY <1>3, <1>4, <1>6 DEF ItemPart, Content
<1>8. TxnPart(q, t)
  BY <1>1, <1>6, AssignedIs, NamesOf DEF TxnPart
<1>9. Shape(q)
  BY <1>6, <1>7, <1>8, TableNames DEF Shape, Part, Tables
<1>10. SeenNow(q) /\ Reserved(q)
  <2>1. row[t].state # "absent" /\ row[i].state # "absent"
    BY <1>1, <1>3
  <2> QED
    BY <1>6, <2>1 DEF SeenNow, Reserved
<1>11. RequestOK(q) /\ GenNew(q)
  BY <1>6, <1>9, <1>10, Aside, SeenIsCurrent DEF RequestOK, Content, Decisions
<1> QED
  BY <1>1, <1>10, <1>11, BeginStep DEF q

LEMMA UnmatchStep ==
    ASSUME IInv, NEW s \in Slot, NEW r \in Report, NEW i \in Item, LoadUnmatch(s, r, i)
    PROVE  IInv'
<1> DEFINE a == [row[i] EXCEPT !.ref = NoTxn]
           freed == [state |-> "available", item |-> NoItem]
           alone == Request("unmatch", {r}, Only(i, a))
           both(t) == Request("unmatch", InboxLocks(r, t), Over(Only(i, a), Only(t, freed)))
<1>1. /\ i \in ItemsOf(r)
      /\ Begin(s, alone) \/ \E t \in Txn : row[t].item = i /\ Begin(s, both(t))
  BY DEF LoadUnmatch
<1>2. row[i] \in ItemRow /\ row[i].state = "present" /\ row[i].report = r /\ row[i].amount >= 1
  BY <1>1, ItemNames
<1>3. /\ a \in ItemRow /\ a.state = "present" /\ a.report = r /\ a.amount = row[i].amount /\ a.ref = NoTxn
  BY <1>2 DEF ItemRow
<1>4. freed \in TxnRow /\ freed.state = "available"
  BY DEF TxnRow
<1> HIDE DEF a, freed
<1>5. CASE Begin(s, alone)
  <2> DEFINE q == alone
  <2>1. /\ q.op = "unmatch" /\ q.locks = {r} /\ DOMAIN q.new = {i} /\ DOMAIN q.seen = {i}
        /\ q.new[i] = a /\ q.seen[i] = row[i]
    BY OneRow
  <2> HIDE DEF q, alone
  <2>2. ItemPart(q, i)
    BY <1>2, <1>3, <2>1 DEF ItemPart, Content
  <2>3. Shape(q)
    BY <2>1, <2>2, TableNames DEF Shape, Part, Tables
  <2>4. SeenNow(q) /\ Reserved(q)
    BY <1>2, <2>1 DEF SeenNow, Reserved
  <2>5. UnmatchRequest(q)
    BY <2>1 DEF UnmatchRequest
  <2>6. RequestOK(q) /\ GenNew(q)
    BY <2>1, <2>3, <2>4, <2>5, Aside, SeenIsCurrent DEF RequestOK, Content, Decisions
  <2> QED
    BY <1>5, <2>4, <2>6, BeginStep DEF q
<1>6. CASE \E t \in Txn : row[t].item = i /\ Begin(s, both(t))
  <2> PICK t \in Txn : row[t].item = i /\ Begin(s, both(t))
    BY <1>6
  <2> DEFINE q == both(t)
             g == Only(t, freed)
  <2>1. DOMAIN g = {t} /\ g[t] = freed /\ i # t
    BY OnlyIs, TableNames
  <2>2. q = Request("unmatch", {r, t}, Over(Only(i, a), g))
    BY DEF InboxLocks
  <2>3. Begin(s, q)
    OBVIOUS
  <2> HIDE DEF q, g
  <2>4. RowAnd(q, "unmatch", {r, t}, i, a, g)
    BY <2>2, RowAndIs
  <2>5. /\ q.op = "unmatch" /\ q.locks = {r, t} /\ DOMAIN q.new = {i, t} /\ DOMAIN q.seen = {i, t}
        /\ q.new[i] = a /\ q.new[t] = freed /\ q.seen[i] = row[i] /\ q.seen[t] = row[t]
    BY <2>1, <2>4 DEF RowAnd
  <2>6. ItemPart(q, i)
    BY <1>2, <1>3, <2>5 DEF ItemPart, Content
  <2>7. TxnPart(q, t)
    BY <1>4, <2>5, NamesOf DEF TxnPart
  <2>8. Shape(q)
    BY <2>5, <2>6, <2>7, TableNames DEF Shape, Part, Tables
  <2>9. SeenNow(q) /\ Reserved(q)
    <3>1. row[t].state # "absent"
      BY NamesOf DEF TxnRow
    <3> QED
      BY <1>2, <2>5, <3>1 DEF SeenNow, Reserved
  <2>10. UnmatchRequest(q)
    BY <2>5 DEF UnmatchRequest
  <2>11. RequestOK(q) /\ GenNew(q)
    BY <2>5, <2>8, <2>9, <2>10, Aside, SeenIsCurrent DEF RequestOK, Content, Decisions
  <2> QED
    BY <2>3, <2>9, <2>11, BeginStep
<1> QED
  BY <1>1, <1>5, <1>6

LEMMA RemoveStep ==
    ASSUME IInv, NEW s \in Slot, NEW t \in Txn, LoadRemove(s, t)
    PROVE  IInv'
<1> DEFINE a == [row[t] EXCEPT !.state = "binned"]
           q == Request("remove", ActorLocks \cup {t}, Only(t, a))
<1>1. Begin(s, q) /\ row[t].state = "available" /\ row[t] \in TxnRow
  BY NamesOf DEF LoadRemove
<1>2. a \in TxnRow
  BY <1>1 DEF TxnRow
<1> HIDE DEF a
<1>3. /\ q.op = "remove" /\ q.locks = {Membership, t} /\ DOMAIN q.new = {t} /\ DOMAIN q.seen = {t}
      /\ q.new[t] = a /\ q.seen[t] = row[t]
  BY OneRow DEF ActorLocks
<1> HIDE DEF q
<1>4. TxnPart(q, t)
  BY <1>1, <1>2, <1>3 DEF TxnPart
<1>5. Shape(q)
  BY <1>3, <1>4, TableNames DEF Shape, Part, Tables
<1>6. SeenNow(q) /\ Reserved(q)
  BY <1>1, <1>3 DEF SeenNow, Reserved
<1>7. RequestOK(q) /\ GenNew(q)
  BY <1>3, <1>5, <1>6, Aside, SeenIsCurrent DEF RequestOK, Content, Decisions
<1> QED
  BY <1>1, <1>6, <1>7, BeginStep DEF q

LEMMA DeleteStep ==
    ASSUME IInv, NEW s \in Slot, NEW r \in Report, LoadDelete(s, r)
    PROVE  IInv'
<1> DEFINE a == [row[r] EXCEPT !.binned = TRUE]
           q == Request("delete", {}, Only(r, a))
<1>1. /\ Begin(s, q) /\ row[r].state = "draft" /\ ~row[r].binned
      /\ row[r] \in ReportRow /\ row[r].total >= 1
  BY NamesOf DEF LoadDelete, ReportOK
<1>2. /\ a \in ReportRow /\ a.state = "draft" /\ a.binned = TRUE /\ a.total = row[r].total /\ a.eur = row[r].eur
      /\ a.version = row[r].version /\ a.batch = row[r].batch /\ a.key = row[r].key
  BY <1>1 DEF ReportRow
<1> HIDE DEF a
<1>3. /\ q.op = "delete" /\ q.locks = {} /\ DOMAIN q.new = {r} /\ DOMAIN q.seen = {r}
      /\ q.new[r] = a /\ q.seen[r] = row[r]
  BY OneRow
<1> HIDE DEF q
<1>4. ReportPart(q, r)
  BY <1>1, <1>2, <1>3 DEF ReportPart, ReportGuard, ReportState, ReportColumns, Content, Decisions
<1>5. Shape(q)
  BY <1>3, <1>4, TableNames DEF Shape, Part, Tables
<1>6. SeenNow(q) /\ Reserved(q)
  BY <1>1, <1>3 DEF SeenNow, Reserved
<1>7. RequestOK(q) /\ GenNew(q)
  BY <1>3, <1>5, <1>6, Aside, SeenIsCurrent DEF RequestOK, Content, Decisions
<1> QED
  BY <1>1, <1>6, <1>7, BeginStep DEF q
----------------------------------------------------------------------------
(* Requests on chains.                                                     *)

LEMMA ChainLoad ==
    ASSUME IInv, NEW s \in Slot, NEW q, Begin(s, q), NEW r \in Report, NEW a, NEW g, NEW op, NEW locks,
           RowAnd(q, op, locks, r, a, g), DOMAIN g \subseteq Step,
           op \in Decisions, locks \subseteq Tables \cup {Membership},
           row[r].state # "absent", ReportPart(q, r), \A x \in DOMAIN g : StepPart(q, x),
           ChainRequest(q), GenNew(q)
    PROVE  IInv'
<1>1. /\ q.op = op /\ q.locks = locks
      /\ DOMAIN q.new = {r} \cup DOMAIN g /\ DOMAIN q.seen = DOMAIN q.new
      /\ \A x \in DOMAIN q.new : q.seen[x] = row[x]
  BY DEF RowAnd
<1>2. Shape(q)
  BY <1>1, TableNames DEF Shape, Part, Tables
<1>3. SeenNow(q) /\ Reserved(q)
  BY <1>1, TableNames DEF SeenNow, Reserved
<1>4. RequestOK(q)
  BY <1>1, <1>2, <1>3, Aside, SeenIsCurrent DEF RequestOK, Content, Decisions
<1> QED
  BY <1>3, <1>4, BeginStep

LEMMA StepNames ==
    ASSUME IInv, NEW r \in Report
    PROVE  /\ StepsOf(r) \subseteq Step /\ First(r) \in Step /\ First(r)[1] = r /\ First(r)[2] = 1
           /\ \A x \in Step : x[1] \in Report /\ x[2] \in Places
           /\ \A x \in StepsOf(r) : row[x] \in StepRow /\ row[x].gen # 0 /\ x[1] = r
           /\ \A x \in Step : x[1] = r /\ row[x].gen # 0 => x \in StepsOf(r)
           /\ Chained(r)
<1>1. StepsOf(r) \subseteq Step /\ First(r) \in Step /\ First(r)[1] = r /\ First(r)[2] = 1
  BY ExpensesAssumption DEF StepsOf, First, Step, Places
<1>2. \A x \in Step : x[1] \in Report /\ x[2] \in Places
  BY DEF Step
<1>3. \A x \in StepsOf(r) : row[x] \in StepRow /\ row[x].gen # 0 /\ x[1] = r
  BY <1>1, NamesOf DEF StepsOf, StepOK
<1>4. \A x \in Step : x[1] = r /\ row[x].gen # 0 => x \in StepsOf(r)
  BY NamesOf DEF StepsOf, StepOK
<1> QED
  BY <1>1, <1>2, <1>3, <1>4 DEF IInv, Chains

\* The steps that a submission or a withdrawal of r puts in place of the chain.
NewSteps(op, r, steps) ==
    /\ DOMAIN steps = {x \in Step : x[1] = r}
    /\ \A x \in DOMAIN steps :
          /\ steps[x] \in StepRow
          /\ \/ steps[x] = NoneStep
             \/ /\ op = "submit" /\ steps[x].state = "pending"
                /\ steps[x].gen # 0 /\ steps[x].gen = steps[First(r)].gen
    /\ op = "submit" => steps[First(r)].gen # 0 /\ FreshGen(r, steps[First(r)].gen)

LEMMA NoneStepIs == NoneStep \in StepRow /\ NoneStep.state = "absent" /\ NoneStep.gen = 0
BY ExpensesAssumption DEF NoneStep, StepRow

LEMMA ChainIs ==
    ASSUME NEW r \in Report, NEW policy \in Policies, NEW gen \in 1 .. MaxGen, FreshGen(r, gen)
    PROVE  NewSteps("submit", r, Chain(r, policy, gen))
<1> DEFINE g == Chain(r, policy, gen)
           made(n) == [state |-> "pending", who |-> policy[n], gen |-> gen]
<1>1. /\ 1 \in DOMAIN policy /\ DOMAIN policy \subseteq Places
      /\ \A n \in DOMAIN policy : policy[n] \in Approver \cup {Open}
  BY WorkloadsAssumption
<1>2. gen \in 0 .. MaxGen /\ gen # 0
  BY ExpensesAssumption
<1>3. ASSUME NEW n \in DOMAIN policy
      PROVE  made(n) \in StepRow /\ made(n).state = "pending" /\ made(n).gen = gen
  BY <1>1, <1>2 DEF StepRow
<1>4. /\ DOMAIN g = {r} \X Places
      /\ \A x \in DOMAIN g : g[x] = IF x[2] \in DOMAIN policy THEN made(x[2]) ELSE NoneStep
  BY DEF Chain
<1>5. {r} \X Places = {x \in Step : x[1] = r}
  BY DEF Step
<1> HIDE DEF g, made
<1>6. g[First(r)].gen = gen
  <2>1. First(r) \in DOMAIN g /\ First(r)[2] = 1
    BY <1>1, <1>4 DEF First
  <2>2. g[First(r)] = made(1)
    BY <1>1, <1>4, <2>1
  <2> QED
    BY <1>1, <1>3, <2>2
<1>7. ASSUME NEW x \in DOMAIN g
      PROVE  g[x] \in StepRow /\ (g[x] = NoneStep \/ (g[x].state = "pending" /\ g[x].gen = gen))
  BY <1>3, <1>4, NoneStepIs
<1>8. NewSteps("submit", r, g)
  BY <1>2, <1>4, <1>5, <1>6, <1>7 DEF NewSteps
<1> QED
  BY <1>8 DEF g

LEMMA SubmitStep ==
    ASSUME IInv, NEW s \in Slot, NEW r \in Report, LoadSubmit(s, r)
    PROVE  IInv'
<1> DEFINE a == [row[r] EXCEPT !.state = "submitted", !.eur = Stamp(r)]
           q == Request("submit", {}, Only(r, a))
<1>1. /\ Begin(s, q) /\ row[r].state \in Editable /\ row[r].binned = FALSE
      /\ row[r] \in ReportRow /\ row[r].total >= 1
  BY NamesOf DEF LoadSubmit, ReportOK, OwnerEditable, Editable, ReportRow
<1>2. /\ a \in ReportRow /\ a.state = "submitted" /\ a.eur = row[r].total /\ a.total = row[r].total
      /\ a.version = row[r].version /\ a.batch = row[r].batch /\ a.key = row[r].key
      /\ a.binned = FALSE
  BY <1>1 DEF ReportRow, States, InApproval, Stamp
<1> HIDE DEF a
<1>3. /\ q.op = "submit" /\ q.locks = {} /\ DOMAIN q.new = {r} /\ DOMAIN q.seen = {r}
      /\ q.new[r] = a /\ q.seen[r] = row[r]
  BY OneRow
<1> HIDE DEF q
<1>4. ReportPart(q, r)
  BY <1>1, <1>2, <1>3 DEF ReportPart, ReportGuard, ReportState, ReportColumns, Content, Decisions,
                          Editable, InApproval
<1>5. Shape(q)
  BY <1>3, <1>4, TableNames DEF Shape, Part, Tables
<1>6. SeenNow(q) /\ Reserved(q)
  BY <1>1, <1>3 DEF SeenNow, Reserved, Editable
<1>7. DOMAIN q.new \cap Step = {}
  BY <1>3, TableNames
<1>8. ChainRequest(q) /\ GenNew(q)
  BY <1>3, <1>7 DEF ChainRequest, WholeChain, GenNew, Decisions
<1>9. RequestOK(q)
  BY <1>3, <1>5, <1>6, <1>8, Aside, SeenIsCurrent DEF RequestOK, Content, Decisions
<1> QED
  BY <1>1, <1>6, <1>8, <1>9, BeginStep DEF q

LEMMA WithdrawStep ==
    ASSUME IInv, NEW s \in Slot, NEW r \in Report, LoadWithdraw(s, r)
    PROVE  IInv'
<1> DEFINE a == [row[r] EXCEPT !.state = "draft"]
           q == Request("withdraw", {}, Only(r, a))
<1>1. /\ Begin(s, q) /\ row[r].state = "submitted" /\ row[r].binned = FALSE
      /\ row[r] \in ReportRow /\ row[r].total >= 1
  BY NamesOf DEF LoadWithdraw, ReportOK, ReportRow
<1>2. /\ a \in ReportRow /\ a.state = "draft" /\ a.eur = row[r].eur /\ a.total = row[r].total
      /\ a.version = row[r].version /\ a.batch = row[r].batch /\ a.key = row[r].key
      /\ a.binned = FALSE
  BY <1>1 DEF ReportRow, States, Editable
<1> HIDE DEF a
<1>3. /\ q.op = "withdraw" /\ q.locks = {} /\ DOMAIN q.new = {r} /\ DOMAIN q.seen = {r}
      /\ q.new[r] = a /\ q.seen[r] = row[r]
  BY OneRow
<1> HIDE DEF q
<1>4. ReportPart(q, r)
  BY <1>1, <1>2, <1>3 DEF ReportPart, ReportGuard, ReportState, ReportColumns, Content, Decisions
<1>5. Shape(q)
  BY <1>3, <1>4, TableNames DEF Shape, Part, Tables
<1>6. SeenNow(q) /\ Reserved(q)
  BY <1>1, <1>3 DEF SeenNow, Reserved
<1>7. DOMAIN q.new \cap Step = {}
  BY <1>3, TableNames
<1>8. ChainRequest(q) /\ GenNew(q)
  BY <1>3, <1>7 DEF ChainRequest, WholeChain, GenNew, Decisions
<1>9. RequestOK(q)
  BY <1>3, <1>5, <1>6, <1>8, Aside, SeenIsCurrent DEF RequestOK, Content, Decisions
<1> QED
  BY <1>1, <1>6, <1>8, <1>9, BeginStep DEF q

\* The request of p, once it knows the chain.
Reading(p, q, r, steps) ==
    /\ q.op = p.op /\ q.locks = p.locks
    /\ DOMAIN q.new = {r} \cup DOMAIN steps /\ DOMAIN q.seen = DOMAIN q.new
    /\ q.new[r] = p.new[r] /\ q.seen[r] = p.seen[r]
    /\ \A x \in DOMAIN steps : q.new[x] = steps[x] /\ q.seen[x] = row[x]

LEMMA WithStepsIs ==
    ASSUME NEW r \in Report, NEW steps, DOMAIN steps \subseteq Step,
           NEW p, DOMAIN p.new = {r}, DOMAIN p.seen = {r}
    PROVE  Reading(p, WithSteps(p, steps), r, steps)
<1> DEFINE old == [x \in DOMAIN steps |-> row[x]]
           new == Over(p.new, steps)
           seen == Over(p.seen, old)
           q == WithSteps(p, steps)
<1>1. q.op = p.op /\ q.locks = p.locks /\ q.new = new /\ q.seen = seen
  BY DEF WithSteps
<1>2. DOMAIN old = DOMAIN steps /\ \A x \in DOMAIN steps : old[x] = row[x]
  OBVIOUS
<1> HIDE DEF old, q
<1>3. DOMAIN new = {r} \cup DOMAIN steps /\ DOMAIN seen = {r} \cup DOMAIN steps
  <2>1. /\ DOMAIN Over(p.new, steps) = DOMAIN p.new \cup DOMAIN steps
        /\ DOMAIN Over(p.seen, old) = DOMAIN p.seen \cup DOMAIN old
    BY OverDomain
  <2> QED
    BY <1>2, <2>1
<1>4. new[r] = p.new[r] /\ seen[r] = p.seen[r]
  BY OverFirst
<1>5. ASSUME NEW x \in DOMAIN steps PROVE new[x] = steps[x] /\ seen[x] = row[x]
  <2>1. x \notin DOMAIN p.new /\ x \notin DOMAIN p.seen
    BY TableNames
  <2> QED
    BY <1>2, <2>1, OverSecond
<1> HIDE DEF new, seen
<1>6. Reading(p, q, r, steps)
  BY <1>1, <1>3, <1>4, <1>5 DEF Reading
<1> QED
  BY <1>6 DEF q

LEMMA ReadStep ==
    ASSUME IInv, NEW s \in Slot, NEW op \in {"submit", "withdraw"}, NEW r \in Report, NEW steps,
           ReadChain(s, op, r, steps), NewSteps(op, r, steps)
    PROVE  IInv'
<1> DEFINE p == req[s]
           q == WithSteps(p, steps)
<1>1. /\ Busy(s) /\ p.op = op /\ DOMAIN p.new = {r} /\ req' = [req EXCEPT ![s] = q]
      /\ UNCHANGED <<row, payouts, decided, raced, work>>
  BY DEF ReadChain
<1>2. Shape(p) /\ Current(p) /\ RequestOK(p)
  BY <1>1 DEF IInv, RowsSound, Requests, KeysReserved, Chains, Entries, BatchesInv, RequestOK
<1>3. /\ DOMAIN steps = {x \in Step : x[1] = r} /\ DOMAIN steps \subseteq Step
      /\ DOMAIN p.seen = {r}
  BY <1>1, <1>2 DEF NewSteps, Shape
<1>4. Reading(p, q, r, steps)
  BY <1>1, <1>3, WithStepsIs
<1> HIDE DEF q
<1>5. /\ DOMAIN q.new \cap Step = DOMAIN steps /\ DOMAIN q.new \cap Report = {r}
      /\ \A x \in DOMAIN q.new : x = r \/ x \in DOMAIN steps
      /\ q.op = op /\ q.locks = p.locks
  BY <1>1, <1>3, <1>4, TableNames DEF Reading
<1>6. ReportPart(q, r)
  <2>1. ReportPart(p, r)
    BY <1>1, <1>2 DEF Shape, Part
  <2>2. ReportPart(p, r) => ReportPart(q, r)
    BY <1>1, <1>4 DEF ReportPart, Reading, Content, Decisions
  <2> QED
    BY <2>1, <2>2
<1>7. ASSUME NEW x \in DOMAIN steps PROVE StepPart(q, x)
  <2>1. q.new[x] = steps[x] /\ q.seen[x] = row[x] /\ x \in Step /\ x[1] = r
    BY <1>3, <1>4 DEF Reading
  <2>2. StepOK(x) /\ row[x] \in StepRow
    BY <2>1, NamesOf
  <2>3. ASSUME op = "submit", steps[x].gen # 0 PROVE steps[x].gen # row[x].gen
    <3>1. steps[x].gen = steps[First(r)].gen /\ FreshGen(r, steps[First(r)].gen)
      BY <2>3, NoneStepIs DEF NewSteps
    <3>2. row[x].gen # 0 => x \in StepsOf(r)
      BY <2>1, StepNames
    <3> QED
      BY <2>3, <3>1, <3>2 DEF FreshGen
  <2>4. \/ steps[x] = NoneStep
        \/ op = "submit" /\ steps[x] \in StepRow /\ steps[x].state = "pending" /\ steps[x].gen # 0
    BY DEF NewSteps
  <2>5. r \in DOMAIN q.new
    BY <1>4 DEF Reading
  <2> QED
    BY <1>5, <2>1, <2>2, <2>3, <2>4, <2>5, NoneStepIs DEF StepPart, StepOK
<1>8. Shape(q)
  <2>1. DOMAIN q.seen = DOMAIN q.new
    BY <1>4 DEF Reading
  <2>2. DOMAIN q.new \subseteq Tables
    BY <1>3, <1>5 DEF Tables
  <2>3. q.locks \subseteq Tables \cup {Membership}
    BY <1>2, <1>5 DEF Shape
  <2>4. ASSUME NEW x \in DOMAIN q.new PROVE Part(q, x)
    BY <1>3, <1>5, <1>6, <1>7, TableNames DEF Part
  <2> QED
    BY <2>1, <2>2, <2>3, <2>4 DEF Shape
<1>9. \A x \in DOMAIN q.new \cap Step : q.seen[x] = row[x]
  BY <1>4, <1>5 DEF Reading
<1>10. Current(q)
  <2>1. SUFFICES ASSUME NEW x \in DOMAIN q.new
        PROVE  /\ x \in q.locks => row[x] = q.seen[x]
               /\ x \notin Step /\ q.seen[x].state = "absent" => row[x].state = "absent"
               /\ x \in Report /\ q.seen[x].state # "absent" => row[x].state # "absent"
               /\ x \in Report /\ q.seen[x].eur # 0 => row[x].eur # 0
               /\ x \in Item /\ q.seen[x].state = "present" /\ row[x].state = "present" =>
                     row[x].report = q.seen[x].report
    BY DEF Current
  <2>2. CASE x = r
    <3>1. q.seen[r] = p.seen[r] /\ r \in DOMAIN p.new
      BY <1>1, <1>4 DEF Reading
    <3> QED
      BY <1>2, <1>5, <2>2, <3>1 DEF Current
  <2>3. CASE x \in DOMAIN steps
    BY <1>3, <1>5, <1>9, <2>3, TableNames
  <2> QED
    BY <1>5, <2>2, <2>3
<1>11. WholeChain(q, r)
  BY <1>3, <1>5, <1>9 DEF WholeChain, SameChain
<1>12. ASSUME op = "submit" PROVE SubmitChain(q, r)
  <2>1. First(r) \in DOMAIN steps
    BY <1>3, StepNames
  <2>2. /\ steps[First(r)].gen # 0 /\ FreshGen(r, steps[First(r)].gen)
        /\ \A x \in DOMAIN steps : steps[x].gen \in {0, steps[First(r)].gen}
    BY <1>12, NoneStepIs DEF NewSteps
  <2>3. \A x \in DOMAIN steps : x \in DOMAIN q.new /\ q.new[x] = steps[x]
    BY <1>4 DEF Reading
  <2>4. ASSUME NEW y \in Step, y[1] = r PROVE row[y].gen # steps[First(r)].gen
    BY <2>2, <2>4, StepNames DEF FreshGen
  <2> QED
    BY <1>5, <2>1, <2>2, <2>3, <2>4 DEF SubmitChain
<1>13. ChainRequest(q)
  BY <1>5, <1>11, <1>12 DEF ChainRequest, Decisions
<1>14. RequestOK(q)
  BY <1>5, <1>8, <1>10, <1>13, Aside DEF RequestOK, Content
<1>15. GenNew(q)
  <2>1. SUFFICES ASSUME op = "submit", NEW x \in DOMAIN steps, q.new[x].gen # 0,
                        NEW t \in Slot, Busy(t), NEW y \in Step \cap DOMAIN req[t].new
                 PROVE  q.new[x].gen \notin {req[t].seen[y].gen, req[t].new[y].gen}
    BY <1>5 DEF GenNew
  <2>2. q.new[x] = steps[x]
    BY <1>4 DEF Reading
  <2>3. steps[x].gen = steps[First(r)].gen /\ FreshGen(r, steps[First(r)].gen)
    BY <2>1, <2>2, NoneStepIs DEF NewSteps
  <2> QED
    BY <2>1, <2>2, <2>3 DEF FreshGen
<1>16. ASSUME NEW t \in Slot \ {s}, Busy(t)
       PROVE  /\ Apart(q, req[t]) /\ Apart(req[t], q)
              /\ GensApart(q, req[t]) /\ GensApart(req[t], q)
  <2>1. Apart(p, req[t]) /\ Apart(req[t], p)
    BY <1>1, <1>16 DEF IInv, RowsSound, Requests
  <2>2. \A x \in DOMAIN q.new : x \notin Step => x \in DOMAIN p.new /\ q.seen[x] = p.seen[x]
    BY <1>1, <1>3, <1>4, <1>5 DEF Reading
  <2>3. Apart(q, req[t]) /\ Apart(req[t], q)
    BY <1>5, <2>1, <2>2 DEF Apart
  <2>4. GensApart(q, req[t]) /\ GensApart(req[t], q)
    BY <1>8, <1>9, <1>15, <1>16, NewGens
  <2> QED
    BY <2>3, <2>4
<1> QED
  BY <1>1, <1>14, <1>16, EnterStep DEF Enters

LEMMA ReadForSubmitStep ==
    ASSUME IInv, NEW s \in Slot, NEW r \in Report, NEW policy \in Policies, NEW gen \in 1 .. MaxGen,
           ReadForSubmit(s, r, policy, gen)
    PROVE  IInv'
<1>1. NewSteps("submit", r, Chain(r, policy, gen))
  BY ChainIs DEF ReadForSubmit
<1> QED
  BY <1>1, ReadStep DEF ReadForSubmit

LEMMA ReadForWithdrawStep ==
    ASSUME IInv, NEW s \in Slot, NEW r \in Report, ReadForWithdraw(s, r)
    PROVE  IInv'
<1>1. {r} \X Places = {x \in Step : x[1] = r}
  BY DEF Step
<1>2. NewSteps("withdraw", r, NoChain(r))
  BY <1>1, NoneStepIs DEF NewSteps, NoChain
<1> QED
  BY <1>2, ReadStep DEF ReadForWithdraw

\* What a decision leaves behind of the pending steps of r.
Settled(steps, r) ==
    \A x \in DOMAIN steps :
        /\ x \in Pending(r) /\ steps[x] \in StepRow /\ steps[x].state # "absent"
        /\ steps[x].gen = row[x].gen /\ steps[x].who = row[x].who

Left(steps) == [x \in Step |-> IF x \in DOMAIN steps THEN steps[x].state ELSE row[x].state]

LEMMA DecisionStep ==
    ASSUME IInv, NEW s \in Slot, NEW op \in Decisions, NEW r \in Report, NEW state, NEW steps,
           Decision(s, op, r, state, steps), Settled(steps, r), op # "decide" => DOMAIN steps = {},
           op = "decide" => /\ row[r].state \in InApproval
                            /\ state \in {"partially_approved", "approved", "rejected", "returned"},
           op = "mark" => row[r].state = "approved" /\ state = "marked_for_reimbursement",
           op = "reimburse" => row[r].state \in Payable /\ state = "reimbursed",
           Fits(state, Left(steps), StepsOf(r))
    PROVE  IInv'
<1> DEFINE a == [row[r] EXCEPT !.state = state, !.version = @ + 1]
           q == Request(op, {r}, Over(Only(r, a), steps))
<1>1. Begin(s, q) /\ row[r].version < work.versions
  BY DEF Decision, DecideLocks
<1>2. /\ row[r] \in ReportRow /\ row[r].binned = FALSE /\ row[r].total >= 1 /\ row[r].state # "absent"
      /\ state \in States
  BY NamesOf DEF Decision, ReportOK, ReportRow, Decisions, InApproval, Payable, States, Editable
<1>3. row[r].version + 1 \in 1 .. MaxVersion
  BY <1>1, <1>2, WorkloadsAssumption, ExpensesAssumption DEF ReportRow, IInv, RowsSound
<1>4. /\ a \in ReportRow /\ a.state = state /\ a.eur = row[r].eur /\ a.total = row[r].total
      /\ a.version = row[r].version + 1 /\ a.batch = row[r].batch /\ a.key = row[r].key
      /\ a.binned = FALSE
  BY <1>2, <1>3 DEF ReportRow
<1> HIDE DEF a
<1>5. RowAnd(q, op, {r}, r, a, steps)
  BY RowAndIs
<1> HIDE DEF q
<1>6. DOMAIN steps \subseteq StepsOf(r) /\ DOMAIN steps \subseteq Step
  BY StepNames DEF Settled, Pending
<1>7. /\ q.op = op /\ q.locks = {r} /\ DOMAIN q.new = {r} \cup DOMAIN steps
      /\ q.new[r] = a /\ q.seen[r] = row[r]
      /\ \A x \in DOMAIN steps : q.new[x] = steps[x] /\ q.seen[x] = row[x]
  BY <1>5, <1>6, TableNames DEF RowAnd
<1>8. DOMAIN q.new \cap Step = DOMAIN steps /\ DOMAIN q.new \cap Report = {r}
  BY <1>6, <1>7, TableNames
<1>9. ReportPart(q, r)
  BY <1>2, <1>4, <1>7 DEF ReportPart, ReportGuard, ReportState, ReportColumns, Content, Decisions,
                          InApproval, Payable
<1>10. ASSUME NEW x \in DOMAIN steps PROVE StepPart(q, x)
  <2>1. /\ x[1] = r /\ row[x] \in StepRow /\ row[x].gen # 0 /\ row[x].state = "pending"
        /\ steps[x] \in StepRow /\ steps[x].state # "absent"
        /\ steps[x].gen = row[x].gen /\ steps[x].who = row[x].who
    BY <1>6, StepNames DEF Settled, Pending
  <2>2. op = "decide"
    OBVIOUS
  <2> QED
    BY <1>7, <1>8, <2>1, <2>2 DEF StepPart
<1>11. DecideChain(q, r)
  <2>1. After(q) = Left(steps)
    BY <1>6, <1>7, TableNames DEF After, Left
  <2> QED
    BY <1>4, <1>7, <1>8, <2>1 DEF DecideChain
<1>12. ChainRequest(q)
  BY <1>7, <1>8, <1>11 DEF ChainRequest, Decisions
<1>13. GenNew(q)
  BY <1>7 DEF GenNew, Decisions
<1>14. {r} \subseteq Tables \cup {Membership}
  BY DEF Tables
<1> QED
  BY <1>1, <1>2, <1>5, <1>6, <1>9, <1>10, <1>12, <1>13, <1>14, ChainLoad

\* A decided step, and the steps skipped because of it.
LEMMA SettledStep ==
    ASSUME IInv, NEW r \in Report, NEW x \in Pending(r), NEW state \in {"approved", "rejected", "skipped"}
    PROVE  LET y == [row[x] EXCEPT !.state = state] IN
           /\ y \in StepRow /\ y.state = state /\ y.gen = row[x].gen /\ y.who = row[x].who
<1>1. row[x] \in StepRow
  BY StepNames DEF Pending
<1> QED
  BY <1>1 DEF StepRow

LEMMA ApproveStep ==
    ASSUME IInv, NEW s \in Slot, NEW r \in Report, NEW x \in Pending(r), row[r].state \in InApproval,
           Decision(s, "decide", r, ChainState(StepStates(r, x, "approved")),
                    Only(x, [row[x] EXCEPT !.state = "approved"]))
    PROVE  IInv'
<1> DEFINE b == [row[x] EXCEPT !.state = "approved"]
           g == Only(x, b)
           others == {row[y].state : y \in StepsOf(r) \ {x}}
           state == ChainState(StepStates(r, x, "approved"))
<1>1. b \in StepRow /\ b.state = "approved" /\ b.gen = row[x].gen /\ b.who = row[x].who
  BY SettledStep
<1> HIDE DEF b
<1>2. DOMAIN g = {x} /\ g[x] = b
  BY OnlyIs
<1>3. \A y \in StepsOf(r) : row[y].state \in {"pending", "approved"}
  BY ZenonT(60), StepNames DEF Chained, Fits, InApproval, StepState
<1>4. state = IF "pending" \in others THEN "partially_approved" ELSE "approved"
  <2> DEFINE states == StepStates(r, x, "approved")
  <2>1. states = {"approved"} \cup others
    BY DEF StepStates
  <2>2. \A e \in others : e \in {"pending", "approved"}
    BY <1>3
  <2> HIDE DEF states, others
  <2>3. "rejected" \notin states /\ "approved" \in states /\ ("pending" \in states <=> "pending" \in others)
    BY <2>1, <2>2
  <2>4. ASSUME "pending" \in others PROVE ChainState(states) = "partially_approved"
    BY <2>3, <2>4 DEF ChainState
  <2>5. ASSUME "pending" \notin others PROVE ChainState(states) = "approved"
    BY <2>3, <2>5 DEF ChainState
  <2> QED
    BY <2>4, <2>5 DEF states
<1> HIDE DEF g
<1>5. Settled(g, r)
  BY <1>1, <1>2 DEF Settled
<1>6. x \in StepsOf(r) /\ x \in Step
  BY StepNames DEF Pending
<1>7. \A y \in StepsOf(r) : Left(g)[y] = IF y = x THEN "approved" ELSE row[y].state
  BY <1>1, <1>2, StepNames DEF Left
<1>8. Fits(state, Left(g), StepsOf(r))
  <2>1. CASE "pending" \in others
    BY <1>3, <1>4, <1>6, <1>7, <2>1 DEF Fits, Payable
  <2>2. CASE "pending" \notin others
    BY <1>3, <1>4, <1>6, <1>7, <2>2 DEF Fits, Payable
  <2> QED
    BY <2>1, <2>2
<1>9. state \in {"partially_approved", "approved"}
  BY <1>4
<1>10. Decision(s, "decide", r, state, g)
  BY DEF g, b
<1> HIDE DEF state
<1> QED
  BY <1>5, <1>8, <1>9, <1>10, DecisionStep DEF Decisions

LEMMA RejectStep ==
    ASSUME IInv, NEW s \in Slot, NEW r \in Report, NEW x \in Pending(r), row[r].state \in InApproval,
           Decision(s, "decide", r, "rejected",
                    Over(Only(x, [row[x] EXCEPT !.state = "rejected"]),
                         [y \in Pending(r) |-> [row[y] EXCEPT !.state = "skipped"]]))
    PROVE  IInv'
<1> DEFINE b == [row[x] EXCEPT !.state = "rejected"]
           h == Only(x, b)
           skipped == [y \in Pending(r) |-> [row[y] EXCEPT !.state = "skipped"]]
           g == Over(h, skipped)
<1>1. b \in StepRow /\ b.state = "rejected" /\ b.gen = row[x].gen /\ b.who = row[x].who
  BY SettledStep
<1>2. /\ DOMAIN skipped = Pending(r)
      /\ \A y \in Pending(r) : skipped[y] = [row[y] EXCEPT !.state = "skipped"]
  OBVIOUS
<1>3. Decision(s, "decide", r, "rejected", g)
  OBVIOUS
<1> HIDE DEF b, skipped
<1>4. DOMAIN h = {x} /\ h[x] = b
  BY OnlyIs
<1> HIDE DEF h
<1>5. DOMAIN g = Pending(r)
  <2>1. DOMAIN skipped = Pending(r) /\ DOMAIN h = {x}
    BY <1>2, <1>4
  <2>2. DOMAIN g = DOMAIN h \cup DOMAIN skipped
    BY OverDomain
  <2> QED
    BY <2>1, <2>2
<1>6. g[x] = b
  BY <1>4, OverFirst
<1>7. ASSUME NEW y \in Pending(r), y # x PROVE g[y] = [row[y] EXCEPT !.state = "skipped"]
  BY <1>2, <1>4, <1>7, OverSecond
<1> HIDE DEF g
<1>8. Settled(g, r)
  <2> SUFFICES ASSUME NEW y \in Pending(r)
               PROVE  /\ g[y] \in StepRow /\ g[y].state # "absent"
                      /\ g[y].gen = row[y].gen /\ g[y].who = row[y].who
    BY <1>5 DEF Settled
  <2>1. CASE y = x
    BY <1>1, <1>6, <2>1
  <2>2. CASE y # x
    <3>1. PICK z : z = [row[y] EXCEPT !.state = "skipped"]
      OBVIOUS
    <3>2. z \in StepRow /\ z.state = "skipped" /\ z.gen = row[y].gen /\ z.who = row[y].who
      BY <3>1, SettledStep
    <3> QED
      BY <1>7, <2>2, <3>1, <3>2
  <2> QED
    BY <2>1, <2>2
<1>9. Fits("rejected", Left(g), StepsOf(r))
  <2>1. x \in StepsOf(r) /\ x \in Step
    BY StepNames DEF Pending
  <2>2. Left(g)[x] = "rejected"
    BY <1>1, <1>5, <1>6, <2>1 DEF Left
  <2> QED
    BY <2>1, <2>2 DEF Fits, Payable
<1> QED
  BY <1>3, <1>8, <1>9, DecisionStep DEF Decisions

LEMMA ReturnStep ==
    ASSUME IInv, NEW s \in Slot, NEW r \in Report, NEW x \in Pending(r), row[r].state \in InApproval,
           Decision(s, "decide", r, "returned", [y \in Pending(r) |-> [row[y] EXCEPT !.state = "skipped"]])
    PROVE  IInv'
<1> DEFINE g == [y \in Pending(r) |-> [row[y] EXCEPT !.state = "skipped"]]
<1>1. /\ DOMAIN g = Pending(r)
      /\ \A y \in Pending(r) : g[y] = [row[y] EXCEPT !.state = "skipped"]
  OBVIOUS
<1>2. Decision(s, "decide", r, "returned", g)
  OBVIOUS
<1> HIDE DEF g
<1>3. ASSUME NEW y \in Pending(r)
      PROVE  /\ g[y] \in StepRow /\ g[y].state = "skipped"
             /\ g[y].gen = row[y].gen /\ g[y].who = row[y].who
  <2>1. PICK z : z = [row[y] EXCEPT !.state = "skipped"]
    OBVIOUS
  <2>2. z \in StepRow /\ z.state = "skipped" /\ z.gen = row[y].gen /\ z.who = row[y].who
    BY <2>1, SettledStep
  <2> QED
    BY <1>1, <2>1, <2>2
<1>4. Settled(g, r)
  BY <1>1, <1>3 DEF Settled
<1>5. Fits("returned", Left(g), StepsOf(r))
  <2>1. \A y \in StepsOf(r) : Left(g)[y] # "pending"
    BY <1>1, <1>3, StepNames DEF Left, Pending
  <2>2. x \in StepsOf(r)
    BY DEF Pending
  <2> QED
    BY <2>1, <2>2 DEF Fits, Payable
<1> QED
  BY <1>2, <1>4, <1>5, DecisionStep DEF Decisions

LEMMA DecideStep ==
    ASSUME IInv, NEW s \in Slot, NEW r \in Report, NEW a \in Approver,
           NEW verdict \in {"approve", "reject", "return"}, LoadDecide(s, r, a, verdict)
    PROVE  IInv'
<1> PICK x \in Pending(r) :
      /\ row[r].state \in InApproval
      /\ verdict = "approve" =>
           Decision(s, "decide", r, ChainState(StepStates(r, x, "approved")),
                    Only(x, [row[x] EXCEPT !.state = "approved"]))
      /\ verdict = "reject" =>
           Decision(s, "decide", r, "rejected",
                    Over(Only(x, [row[x] EXCEPT !.state = "rejected"]),
                         [y \in Pending(r) |-> [row[y] EXCEPT !.state = "skipped"]]))
      /\ verdict = "return" =>
           Decision(s, "decide", r, "returned", [y \in Pending(r) |-> [row[y] EXCEPT !.state = "skipped"]])
  BY Zenon DEF LoadDecide
<1> QED
  BY ApproveStep, RejectStep, ReturnStep

LEMMA ProgressStep ==
    ASSUME IInv, NEW s \in Slot, NEW r \in Report, LoadProgress(s, r)
    PROVE  IInv'
<1>1. DOMAIN Nothing = {}
  BY DEF Nothing
<1>2. Settled(Nothing, r)
  BY <1>1 DEF Settled
<1>3. Left(Nothing) = StepState
  BY <1>1 DEF Left, StepState
<1>4. Fits(row[r].state, StepState, StepsOf(r))
  BY StepNames DEF Chained
<1>5. CASE row[r].state = "approved" /\ Decision(s, "mark", r, "marked_for_reimbursement", Nothing)
  <2>1. Fits("marked_for_reimbursement", StepState, StepsOf(r))
    BY <1>4, <1>5 DEF Fits, Payable
  <2> QED
    BY <1>1, <1>2, <1>3, <1>5, <2>1, DecisionStep DEF Decisions
<1>6. CASE /\ row[r].state \in {"approved", "marked_for_reimbursement"}
           /\ Decision(s, "reimburse", r, "reimbursed", Nothing)
  <2>1. Fits("reimbursed", StepState, StepsOf(r))
    BY DEF Fits, Payable
  <2> QED
    BY <1>1, <1>2, <1>3, <1>6, <2>1, DecisionStep DEF Decisions, Payable
<1> QED
  BY <1>5, <1>6 DEF LoadProgress

LEMMA ReassignStep ==
    ASSUME IInv, NEW s \in Slot, NEW r \in Report, NEW x \in Step, NEW a \in Approver, LoadReassign(s, r, x, a)
    PROVE  IInv'
<1> DEFINE b == [row[x] EXCEPT !.who = a]
           q == Request("reassign", {}, Only(x, b))
<1>1. Begin(s, q) /\ x \in StepsOf(r)
  BY DEF LoadReassign, Pending
<1>2. row[x] \in StepRow /\ row[x].gen # 0 /\ row[x].state # "absent"
  BY <1>1, StepNames DEF StepsOf
<1>3. b \in StepRow /\ b.gen = row[x].gen /\ b.state = row[x].state
  BY <1>2 DEF StepRow
<1> HIDE DEF b
<1>4. /\ q.op = "reassign" /\ q.locks = {} /\ DOMAIN q.new = {x} /\ DOMAIN q.seen = {x}
      /\ q.new[x] = b /\ q.seen[x] = row[x]
  BY OneRow
<1> HIDE DEF q
<1>5. StepPart(q, x)
  BY <1>2, <1>3, <1>4 DEF StepPart
<1>6. Shape(q)
  BY <1>4, <1>5, TableNames DEF Shape, Part, Tables
<1>7. SeenNow(q) /\ Reserved(q)
  BY <1>4 DEF SeenNow, Reserved
<1>8. RequestOK(q) /\ GenNew(q)
  BY <1>4, <1>6, <1>7, Aside, SeenIsCurrent DEF RequestOK, Content, Decisions
<1> QED
  BY <1>1, <1>7, <1>8, BeginStep DEF q
----------------------------------------------------------------------------
(* Requests on batches.                                                    *)

LEMMA BatchLoad ==
    ASSUME IInv, NEW s \in Slot, NEW q, Begin(s, q), NEW b \in Batch, NEW a, NEW g, NEW op, NEW locks,
           RowAnd(q, op, locks, b, a, g), DOMAIN g \subseteq Report, op \in {"batch", "pay", "cancel"},
           locks \subseteq {b}, row[b].state = "absent" => Fresh(b),
           BatchPart(q, b), \A r \in DOMAIN g : ReportPart(q, r) /\ row[r].state # "absent",
           ChainRequest(q), BatchRequest(q)
    PROVE  IInv'
<1>1. /\ q.op = op /\ q.locks = locks
      /\ DOMAIN q.new = {b} \cup DOMAIN g /\ DOMAIN q.seen = DOMAIN q.new
      /\ \A x \in DOMAIN q.new : q.seen[x] = row[x]
  BY DEF RowAnd
<1>2. Shape(q)
  BY <1>1, TableNames DEF Shape, Part, Tables
<1>3. SeenNow(q) /\ Reserved(q)
  BY <1>1, TableNames DEF SeenNow, Reserved
<1>4. RequestOK(q) /\ GenNew(q)
  BY <1>1, <1>2, <1>3, Aside, SeenIsCurrent DEF RequestOK, Content, Decisions
<1> QED
  BY <1>3, <1>4, BeginStep

\* A batch request on the reports of R.
IsOn(q, b, R, op, locks, a) ==
    /\ q.op = op /\ q.locks = locks
    /\ DOMAIN q.new = {b} \cup R /\ DOMAIN q.new \cap Report = R /\ DOMAIN q.new \cap Batch = {b}
    /\ q.new[b] = a /\ q.seen[b] = row[b]
    /\ \A r \in R : q.seen[r] = row[r]

LEMMA OnReports ==
    ASSUME NEW b \in Batch, NEW R \in SUBSET Report, NEW g, DOMAIN g = R, NEW q, NEW op, NEW locks, NEW a,
           RowAnd(q, op, locks, b, a, g)
    PROVE  IsOn(q, b, R, op, locks, a) /\ \A r \in R : q.new[r] = g[r]
BY TableNames DEF RowAnd, IsOn

LEMMA BatchStep ==
    ASSUME IInv, NEW s \in Slot, NEW b \in Batch, NEW R \in SUBSET Report, NEW who \in Approver,
           LoadBatch(s, b, R, who)
    PROVE  IInv'
<1> DEFINE a == [NoneBatch EXCEPT !.state = "open", !.creator = who]
           g == [r \in R |-> [row[r] EXCEPT !.batch = b]]
           q == Request("batch", {}, Over(Only(b, a), g))
<1>1. /\ Begin(s, q) /\ Fresh(b) /\ row[b].state = "absent"
      /\ \A r \in R : /\ row[r].state \in Payable
                      /\ row[r].batch = NoBatch
  BY DEF LoadBatch, Payable, Fresh
<1>2. a \in BatchRow /\ a.state = "open"
  <2>1. NoneBatch \in BatchRow
    BY ReimbursementAssumption DEF NoneBatch, BatchRow
  <2> QED
    BY <2>1 DEF BatchRow
<1>3. DOMAIN g = R /\ \A r \in R : g[r] = [row[r] EXCEPT !.batch = b]
  OBVIOUS
<1> HIDE DEF a, g
<1>4. RowAnd(q, "batch", {}, b, a, g)
  BY RowAndIs
<1> HIDE DEF q
<1>5. IsOn(q, b, R, "batch", {}, a) /\ \A r \in R : q.new[r] = g[r]
  BY <1>3, <1>4, OnReports
<1>6. BatchPart(q, b)
  BY <1>1, <1>2, <1>5, NamesOf DEF BatchPart, IsOn
<1>7. ASSUME NEW r \in R PROVE ReportPart(q, r) /\ row[r].state # "absent" /\ row[r].eur >= 1
  <2>1. /\ row[r] \in ReportRow /\ row[r].binned = FALSE /\ row[r].total >= 1
        /\ row[r].state \in Payable /\ row[r].batch = NoBatch /\ row[r].eur >= 1
    BY <1>1, NamesOf DEF LoadBatch, ReportOK, ReportRow, Payable
  <2>2. PICK c : c = [row[r] EXCEPT !.batch = b]
    OBVIOUS
  <2>3. /\ c \in ReportRow /\ c.state = row[r].state /\ c.eur = row[r].eur /\ c.total = row[r].total
        /\ c.version = row[r].version /\ c.batch = b /\ c.key = row[r].key
        /\ c.binned = FALSE
    BY <2>1, <2>2 DEF ReportRow
  <2>4. q.new[r] = c /\ q.seen[r] = row[r] /\ q.op = "batch" /\ b \in DOMAIN q.new
    BY <1>3, <1>5, <2>2 DEF IsOn
  <2>5. ReportPart(q, r)
    BY <2>1, <2>3, <2>4 DEF ReportPart, ReportGuard, ReportState, ReportColumns, Content, Decisions, Payable
  <2> QED
    BY <2>1, <2>5 DEF Payable
<1>8. ChainRequest(q)
  BY <1>1, <1>5 DEF ChainRequest, IsOn, Decisions, Payables
<1>9. BatchRequest(q)
  BY <1>5, <1>7 DEF BatchRequest, IsOn
<1> QED
  BY <1>1, <1>3, <1>4, <1>6, <1>7, <1>8, <1>9, BatchLoad

\* The reports of a batch.
LEMMA BatchReports ==
    ASSUME IInv, NEW b \in Batch, NEW r \in ReportsIn(b)
    PROVE  /\ r \in Report /\ row[r] \in ReportRow /\ row[r].binned = FALSE /\ row[r].total >= 1
           /\ row[r].state # "absent" /\ row[r].batch = b /\ row[r].eur >= 1
           /\ ~Recalled(r) => row[r].state \in Payables
<1>1. r \in Report /\ row[r].batch = b /\ b # NoBatch
  BY ExpensesAssumption DEF ReportsIn
<1>2. row[r] \in ReportRow /\ ReportOK(r) /\ row[r].binned = FALSE
  BY <1>1, NamesOf DEF ReportsIn, ReportRow
<1>3. row[r].state # "absent"
  BY <1>1, <1>2 DEF ReportOK, NoneReport, NewReport
<1> QED
  BY <1>1, <1>2, <1>3 DEF ReportOK, IInv, Chains, Chained

LEMMA PayStep ==
    ASSUME IInv, NEW s \in Slot, NEW b \in Batch, NEW who, LoadPay(s, b, who)
    PROVE  IInv'
<1> DEFINE R == ReportsIn(b)
           a == [row[b] EXCEPT !.state = "paid"]
           g == [r \in ReportsIn(b) |-> [row[r] EXCEPT !.state = "reimbursed"]]
           q == Request("pay", {b}, Over(Only(b, a), g))
<1>1. Begin(s, q) /\ row[b].state = "open" /\ row[b] \in BatchRow
  BY NamesOf DEF LoadPay, BatchLocks
<1>2. a \in BatchRow /\ a.state = "paid"
  BY <1>1 DEF BatchRow
<1>3. DOMAIN g = R /\ \A r \in R : g[r] = [row[r] EXCEPT !.state = "reimbursed"]
  OBVIOUS
<1> HIDE DEF a, g
<1>4. RowAnd(q, "pay", {b}, b, a, g)
  BY RowAndIs
<1> HIDE DEF q
<1>5. IsOn(q, b, R, "pay", {b}, a) /\ \A r \in R : q.new[r] = g[r]
  <2>1. R \in SUBSET Report
    BY DEF ReportsIn
  <2> HIDE DEF R
  <2> QED
    BY <1>3, <1>4, <2>1, OnReports
<1>6. BatchPart(q, b)
  BY <1>1, <1>2, <1>5 DEF BatchPart, IsOn
<1>7. ASSUME NEW r \in R PROVE ReportPart(q, r)
  <2>1. /\ row[r] \in ReportRow /\ row[r].binned = FALSE /\ row[r].total >= 1
        /\ row[r].state # "absent" /\ row[r].batch = b
    BY BatchReports
  <2>2. PICK c : c = [row[r] EXCEPT !.state = "reimbursed"]
    OBVIOUS
  <2>3. /\ c \in ReportRow /\ c.state = "reimbursed" /\ c.eur = row[r].eur /\ c.total = row[r].total
        /\ c.version = row[r].version /\ c.batch = b /\ c.key = row[r].key
        /\ c.binned = FALSE
    BY <2>1, <2>2 DEF ReportRow, States
  <2>4. q.new[r] = c /\ q.seen[r] = row[r] /\ q.op = "pay" /\ b \in DOMAIN q.new
    BY <1>3, <1>5, <2>2 DEF IsOn
  <2> QED
    BY <2>1, <2>3, <2>4 DEF ReportPart, ReportGuard, ReportState, ReportColumns, Content, Decisions
<1>8. ChainRequest(q)
  BY <1>5, BatchReports DEF ChainRequest, IsOn, Decisions
<1>9. BatchRequest(q)
  BY <1>5, BatchReports DEF BatchRequest, IsOn
<1> QED
  BY <1>1, <1>3, <1>4, <1>6, <1>7, <1>8, <1>9, BatchReports, BatchLoad

LEMMA CancelStep ==
    ASSUME IInv, NEW s \in Slot, NEW b \in Batch, LoadCancel(s, b)
    PROVE  IInv'
<1> DEFINE R == ReportsIn(b)
           a == [row[b] EXCEPT !.state = "cancelled"]
           g == [r \in ReportsIn(b) |-> [row[r] EXCEPT !.batch = NoBatch]]
           q == Request("cancel", {b}, Over(Only(b, a), g))
<1>1. Begin(s, q) /\ row[b].state = "open" /\ row[b] \in BatchRow
  BY NamesOf DEF LoadCancel, BatchLocks, Unlinked
<1>2. a \in BatchRow /\ a.state = "cancelled"
  BY <1>1 DEF BatchRow
<1>3. DOMAIN g = R /\ \A r \in R : g[r] = [row[r] EXCEPT !.batch = NoBatch]
  OBVIOUS
<1> HIDE DEF a, g
<1>4. RowAnd(q, "cancel", {b}, b, a, g)
  BY RowAndIs
<1> HIDE DEF q
<1>5. IsOn(q, b, R, "cancel", {b}, a) /\ \A r \in R : q.new[r] = g[r]
  <2>1. R \in SUBSET Report
    BY DEF ReportsIn
  <2> HIDE DEF R
  <2> QED
    BY <1>3, <1>4, <2>1, OnReports
<1>6. BatchPart(q, b)
  BY <1>1, <1>2, <1>5 DEF BatchPart, IsOn
<1>7. ASSUME NEW r \in R PROVE ReportPart(q, r)
  <2>1. /\ row[r] \in ReportRow /\ row[r].binned = FALSE /\ row[r].total >= 1
        /\ row[r].state # "absent" /\ row[r].batch = b
    BY BatchReports
  <2>2. PICK c : c = [row[r] EXCEPT !.batch = NoBatch]
    OBVIOUS
  <2>3. /\ c \in ReportRow /\ c.state = row[r].state /\ c.eur = row[r].eur /\ c.total = row[r].total
        /\ c.version = row[r].version /\ c.batch = NoBatch /\ c.key = row[r].key
        /\ c.binned = FALSE
    BY <2>1, <2>2 DEF ReportRow
  <2>4. q.new[r] = c /\ q.seen[r] = row[r] /\ q.op = "cancel" /\ b \in DOMAIN q.new
    BY <1>3, <1>5, <2>2 DEF IsOn
  <2> QED
    BY <2>1, <2>3, <2>4 DEF ReportPart, ReportGuard, ReportState, ReportColumns, Content, Decisions
<1>8. ChainRequest(q)
  BY <1>5 DEF ChainRequest, IsOn, Decisions
<1>9. BatchRequest(q)
  <2>1. ASSUME NEW r \in Report, row[r].batch = b, Unraced({"delete", "submit", "withdraw"}, r) PROVE r \in R
    <3>1. Batched(r) /\ b # NoBatch
      BY ExpensesAssumption DEF IInv, BatchesInv
    <3> QED
      BY <2>1, <3>1 DEF Batched, ReportsIn
  <2>2. \A r \in R : row[r].batch = q.seen[r].batch
    BY <1>5 DEF IsOn
  <2> QED
    BY <1>5, <2>1, <2>2 DEF BatchRequest, IsOn
<1> QED
  BY <1>1, <1>3, <1>4, <1>6, <1>7, <1>8, <1>9, BatchReports, BatchLoad

LEMMA ExportStep ==
    ASSUME IInv, NEW s \in Slot, NEW b \in Batch, NEW confirmed, LoadExport(s, b, confirmed)
    PROVE  IInv'
<1> DEFINE a == [row[b] EXCEPT !.exports = @ + 1]
           q == Request("export", {b}, Only(b, a))
<1>1. Begin(s, q) /\ row[b].state \in {"open", "paid"} /\ row[b].exports < MaxExports /\ row[b] \in BatchRow
  BY NamesOf DEF LoadExport, BatchLocks
<1>2. a \in BatchRow /\ a.state = row[b].state
  BY <1>1, ReimbursementAssumption DEF BatchRow
<1> HIDE DEF a
<1>3. /\ q.op = "export" /\ q.locks = {b} /\ DOMAIN q.new = {b} /\ DOMAIN q.seen = {b}
      /\ q.new[b] = a /\ q.seen[b] = row[b]
  BY OneRow
<1> HIDE DEF q
<1>4. BatchPart(q, b)
  BY <1>1, <1>2, <1>3 DEF BatchPart
<1>5. Shape(q)
  BY <1>3, <1>4, TableNames DEF Shape, Part, Tables
<1>6. SeenNow(q) /\ Reserved(q)
  BY <1>1, <1>3 DEF SeenNow, Reserved
<1>7. RequestOK(q) /\ GenNew(q)
  BY <1>3, <1>5, <1>6, Aside, SeenIsCurrent DEF RequestOK, Content, Decisions
<1> QED
  BY <1>1, <1>6, <1>7, BeginStep DEF q
----------------------------------------------------------------------------
(* Commit writes the columns a request changed.                            *)

\* A row, and a column of it, as they are after a commit.
Column(current, seen, new) == IF new = seen THEN current ELSE new

Merge(a, old, new) == [c \in DOMAIN a |-> IF new[c] = old[c] THEN a[c] ELSE new[c]]

LEMMA MergeReport ==
    ASSUME NEW a \in ReportRow, NEW old \in ReportRow, NEW new \in ReportRow
    PROVE  /\ Merge(a, old, new) \in ReportRow
           /\ Merge(a, old, new).state = Column(a.state, old.state, new.state)
           /\ Merge(a, old, new).binned = Column(a.binned, old.binned, new.binned)
           /\ Merge(a, old, new).total = Column(a.total, old.total, new.total)
           /\ Merge(a, old, new).eur = Column(a.eur, old.eur, new.eur)
           /\ Merge(a, old, new).version = Column(a.version, old.version, new.version)
           /\ Merge(a, old, new).batch = Column(a.batch, old.batch, new.batch)
           /\ Merge(a, old, new).key = Column(a.key, old.key, new.key)
<1> DEFINE f == Merge(a, old, new)
<1>1. f = [c \in DOMAIN a |-> IF new[c] = old[c] THEN a[c] ELSE new[c]]
  BY DEF Merge
<1>2. DOMAIN a = {"state", "binned", "total", "eur", "version", "batch", "key"}
  BY DEF ReportRow
<1> HIDE DEF f
<1>3. /\ f.state = Column(a.state, old.state, new.state)
      /\ f.binned = Column(a.binned, old.binned, new.binned)
      /\ f.total = Column(a.total, old.total, new.total)
      /\ f.eur = Column(a.eur, old.eur, new.eur)
      /\ f.version = Column(a.version, old.version, new.version)
      /\ f.batch = Column(a.batch, old.batch, new.batch)
      /\ f.key = Column(a.key, old.key, new.key)
  BY <1>1, <1>2 DEF Column
<1>4. f = [state |-> f.state, binned |-> f.binned, total |-> f.total, eur |-> f.eur,
           version |-> f.version, batch |-> f.batch, key |-> f.key]
  BY <1>1, <1>2
<1>5. /\ f.state \in States \cup {"absent"} /\ f.binned \in BOOLEAN /\ f.total \in Nat
      /\ f.eur \in Nat /\ f.version \in 1 .. MaxVersion
      /\ f.batch \in Batch \cup {NoBatch} /\ f.key \in Key \cup {NoKey}
  BY <1>3 DEF Column, ReportRow
<1>6. f \in ReportRow
  BY <1>4, <1>5 DEF ReportRow
<1> QED
  BY <1>3, <1>6 DEF f

LEMMA MergeItem ==
    ASSUME NEW a \in ItemRow, NEW old \in ItemRow, NEW new \in ItemRow
    PROVE  /\ Merge(a, old, new) \in ItemRow
           /\ Merge(a, old, new).state = Column(a.state, old.state, new.state)
           /\ Merge(a, old, new).report = Column(a.report, old.report, new.report)
           /\ Merge(a, old, new).amount = Column(a.amount, old.amount, new.amount)
           /\ Merge(a, old, new).ref = Column(a.ref, old.ref, new.ref)
BY DEF Merge, Column, ItemRow

LEMMA MergeStep ==
    ASSUME NEW a \in StepRow, NEW old \in StepRow, NEW new \in StepRow
    PROVE  /\ Merge(a, old, new) \in StepRow
           /\ Merge(a, old, new).state = Column(a.state, old.state, new.state)
           /\ Merge(a, old, new).who = Column(a.who, old.who, new.who)
           /\ Merge(a, old, new).gen = Column(a.gen, old.gen, new.gen)
BY DEF Merge, Column, StepRow

\* The columns of a table.
LEMMA Columns ==
    ASSUME NEW T, T \in {ReportRow, ItemRow, TxnRow, StepRow, BatchRow}, NEW a \in T, NEW b \in T
    PROVE  DOMAIN a = DOMAIN b /\ a = [c \in DOMAIN a |-> a[c]]
<1>1. CASE T = ReportRow
  BY <1>1 DEF ReportRow
<1>2. CASE T = ItemRow
  BY <1>2 DEF ItemRow
<1>3. CASE T = TxnRow
  BY <1>3 DEF TxnRow
<1>4. CASE T = StepRow
  BY <1>4 DEF StepRow
<1>5. CASE T = BatchRow
  BY <1>5 DEF BatchRow
<1> QED
  BY <1>1, <1>2, <1>3, <1>4, <1>5

\* A row that is current is replaced, and one that is not changed is kept.
LEMMA MergeCurrent ==
    ASSUME NEW T, T \in {ReportRow, ItemRow, TxnRow, StepRow, BatchRow}, NEW old \in T, NEW new \in T
    PROVE  Merge(old, old, new) = new
<1>1. DOMAIN new = DOMAIN old /\ new = [c \in DOMAIN new |-> new[c]]
  BY Columns
<1> QED
  BY <1>1 DEF Merge

LEMMA MergeKept ==
    ASSUME NEW T, T \in {ReportRow, ItemRow, TxnRow, StepRow, BatchRow}, NEW a \in T, NEW old
    PROVE  Merge(a, old, old) = a
<1>1. a = [c \in DOMAIN a |-> a[c]]
  BY Columns
<1> QED
  BY <1>1 DEF Merge

LEMMA FlushIs ==
    ASSUME NEW q, NEW x
    PROVE  /\ Missed(q, x) => Flush(q, x) = row[x]
           /\ ~Missed(q, x) => Flush(q, x) = IF Whole(q, x) THEN q.new[x]
                                             ELSE Merge(row[x], q.seen[x], q.new[x])
           /\ x \notin Step => ~Missed(q, x)
BY DEF Flush, Merge, Missed

----------------------------------------------------------------------------
(* What a commit of request q does to the rows.                            *)

Deleted(q) == {x \in Written(q) \cap Item : q.new[x].state = "absent"}
Cleared(q) == {t \in Txn : row[t].item \in Deleted(q)}

\* Another request p, beside which q commits.
Beside(p, q) ==
    /\ RequestOK(p)
    /\ (Written(q) \cup Cleared(q)) \cap p.locks = {}
    /\ Apart(q, p) /\ Apart(p, q) /\ GensApart(p, q)

Committed(q) ==
    /\ RequestOK(q) /\ ChainRead(q)
    /\ ~Conflict(q) /\ ~KeyClash(q)
    /\ row' = [x \in Tables |-> row'[x]]
    /\ \A x \in DOMAIN q.new : row'[x] = Flush(q, x)
    /\ \A x \in Tables \ DOMAIN q.new :
          row'[x] = IF x \in Cleared(q) THEN [row[x] EXCEPT !.item = NoItem] ELSE row[x]

History(q) ==
    /\ payouts' = [r \in Report |-> payouts'[r]]
    /\ \A r \in Report :
          payouts'[r] = IF q.op = "pay" /\ r \in DOMAIN q.new
                        THEN Append(payouts[r], [batch |-> q.seen[r].batch, eur |-> q.seen[r].eur])
                        ELSE payouts[r]
    /\ decided' = [r \in Report |-> decided[r] + IF q.op \in Decisions /\ r \in DOMAIN q.new
                                                 THEN 1 ELSE 0]
    /\ raced \subseteq raced'
    /\ \A x \in DOMAIN q.new : row[x] # q.seen[x] => <<q.op, Of(q, x)>> \in raced'
    /\ work' = work

LEMMA CommitIs ==
    ASSUME IInv, NEW s \in Slot, Commit(s)
    PROVE  /\ Committed(req[s]) /\ History(req[s])
           /\ req' = [req EXCEPT ![s] = NoRequest]
           /\ \A t \in Slot \ {s} : Busy(t) => Beside(req[t], req[s])
<1> DEFINE q == req[s]
           deleted == {x \in Written(q) \cap Item : q.new[x].state = "absent"}
           cleared == {t \in Txn : row[t].item \in deleted}
<1>1. /\ Busy(s) /\ ChainRead(q)
      /\ \A t \in Slot \ {s} : Busy(t) => (Written(q) \cup cleared) \cap req[t].locks = {}
      /\ ~Conflict(q) /\ ~KeyClash(q)
      /\ row' = [x \in DOMAIN row |->
                   IF x \in DOMAIN q.new THEN Flush(q, x)
                   ELSE IF x \in cleared THEN [row[x] EXCEPT !.item = NoItem] ELSE row[x]]
      /\ payouts' = [r \in Report |->
                       IF q.op = "pay" /\ r \in DOMAIN q.new
                       THEN Append(payouts[r], [batch |-> q.seen[r].batch, eur |-> q.seen[r].eur])
                       ELSE payouts[r]]
      /\ decided' = [r \in Report |-> decided[r] + IF q.op \in Decisions /\ r \in DOMAIN q.new
                                                   THEN 1 ELSE 0]
      /\ raced' = raced \cup {<<q.op, Of(q, x)>> :
                                x \in {y \in DOMAIN q.new \ q.locks : row[y] # q.seen[y]}}
      /\ req' = [req EXCEPT ![s] = NoRequest]
      /\ work' = work
  BY DEF Commit
<1>2. cleared = Cleared(q)
  BY DEF Cleared, Deleted
<1> HIDE DEF cleared, deleted
<1>3. \A t \in Slot : Busy(t) => RequestOK(req[t])
  BY DEF IInv, RowsSound, Requests, KeysReserved, Chains, Entries, BatchesInv, RequestOK
<1>4. DOMAIN row = Tables
  BY DEF IInv, RowsSound, Rows
<1>5. DOMAIN q.new \subseteq Tables /\ Current(q)
  BY <1>1, <1>3 DEF RequestOK, Shape
<1>6. Committed(q)
  BY <1>1, <1>2, <1>3, <1>4, <1>5 DEF Committed
<1>7. History(q)
  <2>1. \A x \in DOMAIN q.new : row[x] # q.seen[x] => <<q.op, Of(q, x)>> \in raced'
    BY <1>1, <1>5 DEF Current
  <2>2. payouts' = [r \in Report |-> payouts'[r]]
    BY <1>1
  <2> QED
    BY <1>1, <2>1, <2>2 DEF History
<1>8. \A t \in Slot \ {s} : Busy(t) => Beside(req[t], q)
  BY <1>1, <1>2, <1>3 DEF Beside, IInv, RowsSound, Requests, Chains
<1> QED
  BY <1>1, <1>6, <1>7, <1>8

\* The request, one row at a time.
LEMMA PartsOf ==
    ASSUME NEW q, RequestOK(q)
    PROVE  /\ DOMAIN q.new \subseteq Tables
           /\ \A r \in DOMAIN q.new \cap Report : ReportPart(q, r)
           /\ \A i \in DOMAIN q.new \cap Item : ItemPart(q, i)
           /\ \A t \in DOMAIN q.new \cap Txn : TxnPart(q, t)
           /\ \A x \in DOMAIN q.new \cap Step : StepPart(q, x)
           /\ \A b \in DOMAIN q.new \cap Batch : BatchPart(q, b)
           /\ \A x \in DOMAIN q.new : x \in q.locks => row[x] = q.seen[x]
BY DEF RequestOK, Shape, Part, Current

\* A row the request leaves as it loaded it.
LEMMA KeptRow ==
    ASSUME IInv, NEW q, Committed(q), NEW x \in DOMAIN q.new, x \notin Written(q)
    PROVE  row'[x] = row[x]
<1>1. RequestOK(q) /\ row'[x] = Flush(q, x) /\ q.new[x] = q.seen[x]
  BY DEF Committed, Written
<1>2. x \in Tables
  BY <1>1, PartsOf
<1>3. Merge(row[x], q.seen[x], q.seen[x]) = row[x]
  <2>1. PICK T \in {ReportRow, ItemRow, TxnRow, StepRow, BatchRow} : row[x] \in T
    BY <1>2, NamesOf DEF Tables
  <2> QED
    BY <2>1, MergeKept
<1>4. ~Missed(q, x) /\ ~Whole(q, x) => row'[x] = row[x]
  BY <1>1, <1>3, FlushIs
<1>5. CASE x \in Step
  <2>1. StepPart(q, x) /\ StepOK(x)
    BY <1>1, <1>5, PartsOf, NamesOf
  <2>2. CASE Missed(q, x)
    BY <1>1, <2>2, FlushIs
  <2>3. CASE ~Missed(q, x) /\ q.op \in {"submit", "withdraw"}
    <3>1. q.new[x].gen = 0 /\ q.new[x].state = "absent" /\ q.new[x] = NoneStep
      BY <1>1, <2>1, <2>3 DEF StepPart
    <3>2. row[x] = NoneStep
      BY <1>1, <1>5, <2>1, <2>3, <3>1 DEF Missed, StepOK
    <3>3. row'[x] = q.new[x]
      BY <1>1, <2>3, <3>1, FlushIs DEF Whole
    <3> QED
      BY <3>1, <3>2, <3>3
  <2>4. CASE ~Missed(q, x) /\ q.op \in {"decide", "reassign"}
    <3>1. ~Whole(q, x)
      BY <1>1, <2>1, <2>4 DEF Whole, StepPart
    <3> QED
      BY <1>4, <2>4, <3>1
  <2> QED
    BY <2>1, <2>2, <2>3, <2>4 DEF StepPart
<1>6. CASE x \notin Step
  <2>1. ~Whole(q, x)
    <3>1. CASE x \in Report
      BY <1>1, <3>1, PartsOf, TableNames, NoneReportIs DEF ReportPart, ReportGuard, ReportState, Whole
    <3>2. CASE x \in Item
      BY <1>1, <3>2, PartsOf, TableNames DEF ItemPart, Whole
    <3>3. CASE x \in Txn
      BY <1>1, <3>3, PartsOf, TableNames DEF TxnPart, TxnRow, Whole
    <3>4. CASE x \in Batch
      BY <1>1, <3>4, PartsOf, TableNames DEF BatchPart, Whole
    <3> QED
      BY <1>2, <1>6, <3>1, <3>2, <3>3, <3>4 DEF Tables
  <2> QED
    BY <1>4, <1>6, <2>1, FlushIs
<1> QED
  BY <1>5, <1>6

\* A row that no other request could change.
LEMMA LockedRow ==
    ASSUME IInv, NEW q, Committed(q), NEW x \in DOMAIN q.new, x \notin Step, x \in q.locks
    PROVE  row'[x] = q.new[x] /\ row[x] = q.seen[x]
<1>1. RequestOK(q) /\ row'[x] = Flush(q, x)
  BY DEF Committed
<1>2. row[x] = q.seen[x]
  BY <1>1, PartsOf
<1>3. Flush(q, x) = IF Whole(q, x) THEN q.new[x] ELSE Merge(q.seen[x], q.seen[x], q.new[x])
  BY <1>2, FlushIs
<1>4. PICK T \in {ReportRow, ItemRow, TxnRow, StepRow, BatchRow} : q.seen[x] \in T /\ q.new[x] \in T
  <2>1. x \in Tables
    BY <1>1, PartsOf
  <2> QED
    BY <1>1, <2>1, PartsOf DEF Tables, ReportPart, ItemPart, TxnPart, StepPart, BatchPart
<1>5. Merge(q.seen[x], q.seen[x], q.new[x]) = q.new[x]
  BY <1>4, MergeCurrent
<1> QED
  BY <1>1, <1>2, <1>3, <1>5

LEMMA OtherRow ==
    ASSUME IInv, NEW q, Committed(q), NEW x \in Tables, x \notin DOMAIN q.new, x \notin Txn
    PROVE  row'[x] = row[x]
BY DEF Committed, Cleared

LEMMA TxnAfter ==
    ASSUME IInv, NEW q, Committed(q), NEW t \in Txn
    PROVE  /\ row'[t] \in TxnRow
           /\ t \in DOMAIN q.new => row'[t] = q.new[t] /\ row[t] = q.seen[t]
           /\ t \notin DOMAIN q.new => row'[t] = row[t] \/ row[t].item \in Deleted(q)
<1>1. RequestOK(q)
  BY DEF Committed
<1>2. CASE t \in DOMAIN q.new
  BY <1>1, <1>2, PartsOf, TableNames, LockedRow DEF TxnPart
<1>3. CASE t \notin DOMAIN q.new
  <2>1. row'[t] = IF t \in Cleared(q) THEN [row[t] EXCEPT !.item = NoItem] ELSE row[t]
    BY <1>3 DEF Committed, Tables
  <2>2. row[t] \in TxnRow
    BY NamesOf
  <2>3. [row[t] EXCEPT !.item = NoItem] \in TxnRow
    BY <2>2 DEF TxnRow
  <2> QED
    BY <1>3, <2>1, <2>2, <2>3 DEF Cleared
<1> QED
  BY <1>2, <1>3

LEMMA BatchAfter ==
    ASSUME IInv, NEW q, Committed(q), NEW b \in Batch
    PROVE  /\ row'[b] \in BatchRow
           /\ b \in DOMAIN q.new => row'[b] = q.new[b] /\ row[b].state = q.seen[b].state
           /\ b \notin DOMAIN q.new => row'[b] = row[b]
<1>1. RequestOK(q)
  BY DEF Committed
<1>2. CASE b \in DOMAIN q.new
  <2>1. BatchPart(q, b) /\ b \notin Step
    BY <1>1, <1>2, PartsOf, TableNames
  <2>2. CASE b \in q.locks
    BY <1>2, <2>1, <2>2, LockedRow DEF BatchPart
  <2>3. CASE b \notin q.locks
    <3>1. q.seen[b].state = "absent"
      BY <2>1, <2>3 DEF BatchPart
    <3>2. row[b].state = "absent"
      BY <1>1, <1>2, <2>1, <3>1 DEF RequestOK, Current
    <3>3. Whole(q, b) /\ row'[b] = Flush(q, b)
      BY <1>2, <3>1 DEF Whole, Committed
    <3> QED
      BY <1>2, <2>1, <3>1, <3>2, <3>3, FlushIs DEF BatchPart
  <2> QED
    BY <2>2, <2>3
<1>3. CASE b \notin DOMAIN q.new
  BY <1>3, OtherRow, NamesOf, TableNames DEF Tables
<1> QED
  BY <1>2, <1>3

Rests(q, i) == i \notin Written(q) /\ row'[i] = row[i]

Inserts(q, i) ==
    /\ i \in DOMAIN q.new /\ q.seen[i].state = "absent" /\ q.new[i].state = "present"
    /\ q.op \in {"add", "replace", "from_txn", "create"}
    /\ row[i].state = "absent" /\ row'[i] = q.new[i]

Deletes(q, i) ==
    /\ i \in Deleted(q) /\ q.op = "replace" /\ q.seen[i].state = "present"
    /\ row'[i] = NoneItem

Updates(q, i) ==
    /\ i \in DOMAIN q.new /\ q.op \in {"edit", "match", "unmatch"}
    /\ q.seen[i].state = "present" /\ q.new[i].state = "present"
    /\ row[i].state = "present" /\ row'[i].state = "present" /\ row'[i] \in ItemRow
    /\ row'[i].report = row[i].report
    /\ row'[i].amount = Column(row[i].amount, q.seen[i].amount, q.new[i].amount)
    /\ row'[i].ref = Column(row[i].ref, q.seen[i].ref, q.new[i].ref)

LEMMA ItemAfter ==
    ASSUME IInv, NEW q, Committed(q), NEW i \in Item
    PROVE  Rests(q, i) \/ Inserts(q, i) \/ Deletes(q, i) \/ Updates(q, i)
<1>1. RequestOK(q)
  BY DEF Committed
<1>2. CASE i \notin Written(q)
  BY <1>2, KeptRow, OtherRow, TableNames DEF Tables, Rests
<1>3. CASE i \in Written(q)
  <2>1. i \in DOMAIN q.new /\ q.new[i] # q.seen[i] /\ ItemPart(q, i)
    BY <1>1, <1>3, PartsOf DEF Written
  <2>2. row'[i] = Flush(q, i) /\ i \notin Step
    BY <2>1, TableNames DEF Committed
  <2>3. q.seen[i].state \in {"absent", "present"} /\ q.new[i].state \in {"absent", "present"}
    BY <2>1 DEF ItemPart, ItemRow
  <2>4. ~Whole(q, i) => row[i].state = "present"
    <3>1. ~Conflict(q) /\ row[i].state \in {"absent", "present"}
      BY NamesOf DEF Committed, ItemRow
    <3> QED
      BY <1>3, <3>1 DEF Conflict
  <2>5. CASE q.seen[i].state = "absent"
    <3>1. q.new[i].state = "present" /\ row[i].state = "absent"
      BY <1>1, <2>1, <2>2, <2>3, <2>5 DEF ItemPart, RequestOK, Current
    <3>2. row'[i] = q.new[i]
      BY <2>2, <2>5, FlushIs DEF Whole
    <3> QED
      BY <2>1, <2>5, <3>1, <3>2 DEF Inserts, ItemPart, Content
  <2>6. CASE q.seen[i].state = "present" /\ q.new[i].state = "absent"
    <3>1. row'[i] = q.new[i]
      BY <2>2, <2>6, FlushIs DEF Whole
    <3> QED
      BY <1>3, <2>1, <2>6, <3>1 DEF Deletes, Deleted, ItemPart
  <2>7. CASE q.seen[i].state = "present" /\ q.new[i].state = "present"
    <3>0. ~Whole(q, i)
      BY <2>2, <2>7 DEF Whole
    <3>1. row'[i] = Merge(row[i], q.seen[i], q.new[i]) /\ row[i].state = "present"
      BY <2>2, <2>4, <3>0, FlushIs
    <3>2. row[i] \in ItemRow /\ q.seen[i] \in ItemRow /\ q.new[i] \in ItemRow
      BY <2>1, NamesOf DEF ItemPart
    <3>3. /\ row'[i] \in ItemRow
          /\ row'[i].state = Column(row[i].state, q.seen[i].state, q.new[i].state)
          /\ row'[i].report = Column(row[i].report, q.seen[i].report, q.new[i].report)
          /\ row'[i].amount = Column(row[i].amount, q.seen[i].amount, q.new[i].amount)
          /\ row'[i].ref = Column(row[i].ref, q.seen[i].ref, q.new[i].ref)
      BY <3>1, <3>2, MergeItem
    <3>4. row'[i].state = "present" /\ row'[i].report = row[i].report
      BY <2>1, <2>7, <3>1, <3>3 DEF Column, ItemPart
    <3>5. q.op \in {"edit", "match", "unmatch"}
      BY <2>1, <2>7 DEF ItemPart, Content
    <3> QED
      BY <2>1, <2>7, <3>1, <3>3, <3>4, <3>5 DEF Updates
  <2> QED
    BY <2>3, <2>5, <2>6, <2>7
<1> QED
  BY <1>2, <1>3

\* What a commit makes of a step of a chain.
StepRests(x) == row'[x].state = row[x].state /\ row'[x].gen = row[x].gen

Rebuilds(q, x) ==
    /\ x \in DOMAIN q.new /\ q.op \in {"submit", "withdraw"} /\ x[1] \in DOMAIN q.new
    /\ row'[x] = q.new[x]
    /\ q.new[x].gen = 0 => row[x].gen = q.seen[x].gen
    /\ q.new[x].gen # 0 => row[x].gen \in {0, q.seen[x].gen}

Misses(q, x) ==
    /\ x \in DOMAIN q.new /\ q.op \in {"submit", "withdraw"}
    /\ q.new[x].gen = 0 /\ row[x].gen # q.seen[x].gen /\ row'[x] = row[x]

Decides(q, x) ==
    /\ x \in DOMAIN q.new /\ q.op = "decide" /\ x[1] \in DOMAIN q.new
    /\ row'[x].gen = row[x].gen /\ row'[x].state = q.new[x].state

LEMMA StepAfter ==
    ASSUME IInv, NEW q, Committed(q), NEW x \in Step
    PROVE  /\ row'[x] \in StepRow /\ (row'[x].state = "absent" <=> row'[x].gen = 0)
           /\ row'[x].state = "absent" => row'[x] = NoneStep
           /\ StepRests(x) \/ Rebuilds(q, x) \/ Decides(q, x)
           /\ x \notin DOMAIN q.new \/ q.op = "reassign" => StepRests(x)
           /\ x \in DOMAIN q.new /\ q.op \in {"submit", "withdraw"} => Rebuilds(q, x) \/ Misses(q, x)
<1>1. RequestOK(q)
  BY DEF Committed
<1>2. row[x] \in StepRow /\ StepOK(x)
  BY NamesOf
<1>3. CASE x \notin DOMAIN q.new
  <2>1. row'[x] = row[x]
    BY <1>3, OtherRow, TableNames DEF Tables
  <2> QED
    BY <1>2, <1>3, <2>1 DEF StepRests, StepOK
<1>4. ASSUME x \in DOMAIN q.new
      PROVE  StepPart(q, x) /\ row'[x] = Flush(q, x) /\ q.op \in {"submit", "withdraw", "decide", "reassign"}
  BY <1>1, <1>4, PartsOf DEF StepPart, Committed
<1>5. CASE x \in DOMAIN q.new /\ q.op \in {"submit", "withdraw"}
  <2>1. CASE Missed(q, x)
    <3>1. row'[x] = row[x] /\ q.new[x].gen = 0 /\ row[x].gen # q.seen[x].gen
      BY <1>4, <1>5, <2>1, FlushIs DEF Missed, StepPart
    <3> QED
      BY <1>2, <1>5, <3>1 DEF StepRests, StepOK, Misses
  <2>2. CASE ~Missed(q, x)
    <3>1. Whole(q, x)
      BY <1>4, <1>5 DEF Whole, StepPart
    <3>2. row'[x] = q.new[x]
      BY <1>4, <1>5, <2>2, <3>1, FlushIs
    <3>3. q.new[x].gen = 0 => row[x].gen = q.seen[x].gen
      BY <1>4, <1>5, <2>2 DEF Missed, StepPart
    <3>4. ASSUME q.new[x].gen # 0 PROVE row[x].gen \in {0, q.seen[x].gen}
      <4>1. x \in Written(q) /\ q.new[x].state # "absent"
        BY <1>4, <1>5, <3>4 DEF Written, StepPart
      <4> QED
        BY <1>2, <4>1 DEF Committed, Conflict, StepOK
    <3>5. x[1] \in DOMAIN q.new
      BY <1>4, <1>5 DEF StepPart
    <3>6. Rebuilds(q, x)
      BY <1>5, <3>2, <3>3, <3>4, <3>5 DEF Rebuilds
    <3> QED
      BY <1>4, <1>5, <3>2, <3>6 DEF StepPart
  <2> QED
    BY <2>1, <2>2
<1>6. CASE x \in DOMAIN q.new /\ x \notin Written(q) /\ q.op \in {"decide", "reassign"}
  <2>1. row'[x] = row[x]
    BY <1>6, KeptRow
  <2> QED
    BY <1>2, <1>6, <2>1 DEF StepRests, StepOK
<1>7. CASE x \in Written(q) /\ q.op \in {"decide", "reassign"}
  <2>1. x \in DOMAIN q.new /\ StepPart(q, x) /\ row'[x] = Flush(q, x)
    BY <1>4, <1>7 DEF Written
  <2>2. /\ q.new[x].gen = q.seen[x].gen /\ q.seen[x].gen # 0
        /\ q.new[x].state # "absent" /\ q.seen[x].state # "absent"
        /\ q.seen[x] \in StepRow /\ q.new[x] \in StepRow
    BY <1>7, <2>1 DEF StepPart
  <2>3. ~Whole(q, x) /\ ~Missed(q, x)
    BY <2>2 DEF Whole, Missed
  <2>4. row[x].gen = q.seen[x].gen
    BY <1>7, <2>2, <2>3 DEF Committed, Conflict
  <2>5. row'[x] = Merge(row[x], q.seen[x], q.new[x])
    BY <2>1, <2>3, FlushIs
  <2>6. /\ row'[x] \in StepRow
        /\ row'[x].state = Column(row[x].state, q.seen[x].state, q.new[x].state)
        /\ row'[x].gen = Column(row[x].gen, q.seen[x].gen, q.new[x].gen)
    BY <1>2, <2>2, <2>5, MergeStep
  <2>7. row'[x].gen = row[x].gen /\ row[x].gen # 0 /\ row[x].state # "absent"
    BY <1>2, <2>2, <2>4, <2>6 DEF Column, StepOK
  <2>8. CASE q.op = "reassign"
    <3>1. row'[x].state = row[x].state
      BY <2>1, <2>6, <2>8 DEF Column, StepPart
    <3> QED
      BY <2>1, <2>6, <2>7, <2>8, <3>1 DEF StepRests
  <2>9. CASE q.op = "decide"
    <3>1. x[1] \in DOMAIN q.new /\ x[1] \in Report
      BY <2>1, <2>9 DEF StepPart, Step
    <3>2. DecideChain(q, x[1])
      BY <1>1, <2>9, <3>1 DEF RequestOK, ChainRequest, Decisions
    <3>3. row'[x].state = q.new[x].state
      BY <2>1, <2>6, <3>2 DEF DecideChain, Column
    <3> QED
      BY <2>1, <2>2, <2>6, <2>7, <2>9, <3>1, <3>3 DEF Decides
  <2> QED
    BY <1>7, <2>8, <2>9
<1> QED
  BY <1>3, <1>4, <1>5, <1>6, <1>7

\* What a commit makes of a report it knows.
ReportTyped(q, r) ==
    /\ row'[r] \in ReportRow
    /\ q.op = "create" => q.seen[r] = NoneReport /\ row[r] = NoneReport /\ row'[r] = q.new[r]
    /\ q.op # "create" => q.seen[r].state # "absent" /\ row[r].state # "absent"

ReportData(q, r) ==
    /\ row'[r].binned = IF q.op = "delete" THEN TRUE ELSE row[r].binned
    /\ q.op # "create" =>
         /\ row'[r].total = IF q.op \in Content THEN Column(row[r].total, q.seen[r].total, q.new[r].total)
                            ELSE row[r].total
         /\ row'[r].key = row[r].key
    /\ row'[r].eur = IF q.op = "submit" THEN Column(row[r].eur, q.seen[r].eur, q.seen[r].total) ELSE row[r].eur
    /\ row'[r].version = IF q.op \in Decisions THEN row[r].version + 1 ELSE row[r].version
    /\ q.op \notin {"batch", "cancel"} => row'[r].batch = row[r].batch
    /\ q.op = "batch" => row'[r].batch = q.new[r].batch /\ q.new[r].batch \in Batch \cap DOMAIN q.new
    /\ q.op = "cancel" => row'[r].batch = NoBatch

ReportStatus(q, r) ==
    /\ q.op \in Content \cup {"delete", "batch", "cancel"} => row'[r].state = row[r].state
    /\ q.op \in {"create", "withdraw"} => row'[r].state = "draft"
    /\ q.op = "submit" => row'[r].state = "submitted"
    /\ q.op \in Decisions => row'[r].state = q.new[r].state /\ row[r] = q.seen[r]
    /\ q.op = "pay" => \/ row'[r].state = "reimbursed"
                       \/ q.seen[r].state = "reimbursed" /\ row'[r].state = row[r].state

LEMMA ReportAfter ==
    ASSUME IInv, NEW q, Committed(q), NEW r \in DOMAIN q.new \cap Report
    PROVE  ReportTyped(q, r) /\ ReportData(q, r) /\ ReportStatus(q, r)
<1>1. RequestOK(q) /\ row'[r] = Flush(q, r) /\ r \notin Step
  BY TableNames DEF Committed
<1>2. ReportPart(q, r)
  BY <1>1, PartsOf
<1>3. /\ q.seen[r] \in ReportRow /\ q.new[r] \in ReportRow /\ row[r] \in ReportRow
      /\ ReportGuard(q.op, q.seen[r]) /\ ReportState(q.op, q.seen[r], q.new[r])
      /\ ReportColumns(q.op, q.seen[r], q.new[r])
  BY <1>2, NamesOf DEF ReportPart
<1>4. CASE q.op = "create"
  <2>1. q.seen[r].state = "absent" /\ q.seen[r] = NoneReport /\ row[r] = NoneReport
    BY <1>1, <1>2, <1>3, <1>4, NamesOf DEF ReportGuard, ReportPart, RequestOK, Current, ReportOK
  <2>2. row'[r] = q.new[r]
    BY <1>1, <2>1, FlushIs DEF Whole
  <2>3. q.new[r].binned = FALSE
    BY <1>3, <1>4, <2>1, NoneReportIs DEF ReportColumns, ReportRow
  <2>4. NoneReport.binned = FALSE
    BY NoneReportIs DEF ReportRow
  <2> QED
    BY ZenonT(60), <1>2, <1>3, <1>4, <2>1, <2>2, <2>3, <2>4
       DEF ReportTyped, ReportData, ReportStatus, ReportPart, ReportState, ReportColumns, Content, Decisions
<1>5. CASE q.op # "create"
  <2>1. q.seen[r].state # "absent" /\ row[r].state # "absent" /\ q.seen[r].binned \in BOOLEAN
    BY <1>1, <1>3, <1>5 DEF ReportGuard, RequestOK, Current, ReportRow
  <2>2. q.new[r].state # "absent"
    BY <1>2, <1>3, <1>5, <2>1 DEF ReportPart, ReportState, Decisions
  <2>3. row'[r] = Merge(row[r], q.seen[r], q.new[r])
    BY <1>1, <2>1, <2>2, FlushIs DEF Whole
  <2>4. /\ row'[r] \in ReportRow
        /\ row'[r].state = Column(row[r].state, q.seen[r].state, q.new[r].state)
        /\ row'[r].binned = Column(row[r].binned, q.seen[r].binned, q.new[r].binned)
        /\ row'[r].total = Column(row[r].total, q.seen[r].total, q.new[r].total)
        /\ row'[r].eur = Column(row[r].eur, q.seen[r].eur, q.new[r].eur)
        /\ row'[r].version = Column(row[r].version, q.seen[r].version, q.new[r].version)
        /\ row'[r].batch = Column(row[r].batch, q.seen[r].batch, q.new[r].batch)
        /\ row'[r].key = Column(row[r].key, q.seen[r].key, q.new[r].key)
    BY <1>3, <2>3, MergeReport
  <2>5. q.op \in Decisions => row[r] = q.seen[r]
    BY <1>1, <1>2, PartsOf DEF ReportPart
  <2>6. ReportTyped(q, r)
    BY <1>5, <2>1, <2>4 DEF ReportTyped
  <2>7. row'[r].binned = IF q.op = "delete" THEN TRUE ELSE row[r].binned
    BY <1>3, <1>5, <2>1, <2>4 DEF ReportGuard, ReportColumns, Column, ReportRow
  <2>8. row'[r].version = IF q.op \in Decisions THEN row[r].version + 1 ELSE row[r].version
    BY <1>3, <2>4, <2>5 DEF ReportColumns, Column, ReportRow
  <2>9. ReportData(q, r)
    <3>1. q.op = "batch" => q.new[r].batch # q.seen[r].batch
      BY <1>2, <1>3, ExpensesAssumption DEF ReportPart, ReportGuard
    <3>2. q.op = "cancel" => q.new[r].batch # q.seen[r].batch /\ q.new[r].batch = NoBatch
      BY <1>2, ExpensesAssumption DEF ReportPart
    <3> QED
      BY <1>2, <1>3, <1>5, <2>4, <2>7, <2>8, <3>1, <3>2 DEF ReportData, ReportColumns, ReportPart, Column
  <2>10. ReportStatus(q, r)
    BY <1>3, <1>5, <2>4, <2>5
       DEF ReportStatus, ReportGuard, ReportState, Column, Content, Decisions, Editable, InApproval, Payable
  <2> QED
    BY <2>6, <2>9, <2>10
<1> QED
  BY <1>4, <1>5
----------------------------------------------------------------------------
(* Commit keeps the rows well formed.                                      *)

LEMMA OperationOf ==
    ASSUME NEW q, RequestOK(q), NEW r \in DOMAIN q.new \cap Report
    PROVE  /\ q.op \in {"add", "edit", "replace", "from_txn", "decide", "mark", "reimburse",
                        "create", "delete", "submit", "withdraw", "batch", "pay", "cancel"}
           /\ ReportPart(q, r) /\ q.seen[r] \in ReportRow /\ q.new[r] \in ReportRow
           /\ ReportGuard(q.op, q.seen[r]) /\ ReportState(q.op, q.seen[r], q.new[r])
           /\ ReportColumns(q.op, q.seen[r], q.new[r])
BY PartsOf DEF ReportPart, Content, Decisions

LEMMA ReportStays ==
    ASSUME IInv, NEW q, Committed(q), NEW r \in Report
    PROVE  /\ row'[r] \in ReportRow
           /\ row[r].state # "absent" \/ r \in DOMAIN q.new => row'[r].state # "absent"
           /\ row[r].eur # 0 => row'[r].eur # 0
           /\ r \notin DOMAIN q.new => row'[r] = row[r]
<1>1. CASE r \in DOMAIN q.new
  <2>1. RequestOK(q) /\ ReportTyped(q, r) /\ ReportData(q, r) /\ ReportStatus(q, r)
    BY <1>1, ReportAfter DEF Committed
  <2>2. row'[r].state # "absent"
    <3>1. q.op \in Decisions => q.new[r].state # "absent"
      BY <1>1, <2>1, OperationOf DEF ReportState, Decisions
    <3> QED
      BY <1>1, <2>1, <3>1, OperationOf DEF ReportTyped, ReportStatus, Content, Decisions
  <2>3. q.seen[r].total >= 1 \/ q.op = "create"
    BY <1>1, <2>1, OperationOf DEF ReportTyped, ReportPart
  <2>4. row[r].eur # 0 => row'[r].eur # 0
    BY <2>1, <2>3 DEF ReportData, Column
  <2> QED
    BY <1>1, <2>1, <2>2, <2>4 DEF ReportTyped
<1>2. CASE r \notin DOMAIN q.new
  BY <1>2, OtherRow, TableNames, NamesOf DEF Tables
<1> QED
  BY <1>1, <1>2

LEMMA ReportKept ==
    ASSUME IInv, NEW q, Committed(q), NEW r \in Report
    PROVE  ReportOK(r)'
<1>0. ReportOK(r) /\ row[r] \in ReportRow
  BY NamesOf
<1>1. CASE r \notin DOMAIN q.new
  BY <1>0, <1>1, ReportStays DEF ReportOK
<1>2. CASE r \in DOMAIN q.new
  <2>1. /\ RequestOK(q) /\ ReportTyped(q, r) /\ ReportData(q, r) /\ ReportStatus(q, r)
        /\ ReportGuard(q.op, q.seen[r]) /\ ReportColumns(q.op, q.seen[r], q.new[r])
        /\ q.op \in {"add", "edit", "replace", "from_txn", "decide", "mark", "reimburse",
                     "create", "delete", "submit", "withdraw", "batch", "pay", "cancel"}
    BY <1>2, ReportAfter, OperationOf DEF Committed
  <2>2. row'[r] \in ReportRow /\ row'[r].state # "absent"
    BY <1>2, ReportStays
  <2>3. /\ q.seen[r] \in ReportRow /\ q.new[r] \in ReportRow
        /\ q.seen[r].total >= 1 \/ q.op = "create"
    BY <1>2, <2>1, OperationOf DEF ReportTyped, ReportPart
  <2>4. row'[r].total >= 1
    <3>1. CASE q.op = "create"
      BY <2>1, <3>1 DEF ReportTyped, ReportColumns
    <3>2. CASE q.op # "create"
      BY <1>0, <2>1, <2>3, <3>2 DEF ReportTyped, ReportData, ReportColumns, ReportOK, Column, ReportRow
    <3> QED
      BY <3>1, <3>2
  <2>5. q.seen[r].eur # 0 => row[r].eur # 0
    BY <1>2, <2>1 DEF RequestOK, Current
  <2>6. row'[r].state # "draft" \/ row'[r].batch # NoBatch => row'[r].eur # 0
    <3>1. CASE q.op = "create"
      BY <2>1, <3>1, NoneReportIs DEF ReportTyped, ReportData, ReportStatus
    <3>2. CASE q.op \in Content \cup {"delete", "cancel", "withdraw"}
      BY <1>0, <2>1, <3>2 DEF ReportTyped, ReportData, ReportStatus, ReportOK, Content, Decisions
    <3>3. CASE q.op \in {"batch", "pay"}
      <4>1. q.seen[r].eur >= 1
        BY <1>2, <2>1, <3>3 DEF RequestOK, BatchRequest
      <4> QED
        BY <2>1, <2>3, <2>5, <3>3, <4>1 DEF ReportData, ReportRow
    <3>4. CASE q.op = "submit"
      BY <2>1, <2>3, <2>5, <3>4 DEF ReportData, Column, ReportRow
    <3>5. CASE q.op \in Decisions
      <4>1. row[r] = q.seen[r] /\ q.seen[r].state \notin {"absent", "draft"}
        BY <2>1, <3>5 DEF ReportStatus, ReportGuard, Decisions, InApproval, Payable
      <4> QED
        BY <1>0, <2>1, <3>5, <4>1 DEF ReportData, ReportOK, Decisions
    <3> QED
      BY <2>1, <3>1, <3>2, <3>3, <3>4, <3>5 DEF Content, Decisions
  <2>7. row'[r].eur # 0 => row'[r].eur >= 1
    BY <2>2 DEF ReportRow
  <2> QED
    BY <2>2, <2>4, <2>6, <2>7 DEF ReportOK
<1> QED
  BY <1>1, <1>2

LEMMA ItemKept ==
    ASSUME IInv, NEW q, Committed(q), NEW i \in Item
    PROVE  ItemOK(i)'
<1>0. ItemOK(i) /\ RequestOK(q) /\ NoneItem \in ItemRow /\ NoneItem.state = "absent"
  <2>1. NoneItem \in ItemRow
    BY DEF NoneItem, ItemRow
  <2> QED
    BY <2>1, NamesOf DEF Committed, NoneItem
<1>1. CASE Rests(q, i)
  BY <1>0, <1>1, ReportStays DEF ItemOK, Rests
<1>2. CASE Inserts(q, i)
  <2>1. ItemPart(q, i) /\ row'[i] = q.new[i] /\ q.new[i].state = "present"
    BY <1>0, <1>2, PartsOf DEF Inserts
  <2>2. q.new[i].report \in DOMAIN q.new \cap Report
    <3>1. DOMAIN q.new \cap Report # {} /\ q.new[i].report \in Report
      BY <1>2, <2>1 DEF ItemPart, Inserts, Content
    <3>2. \A r \in DOMAIN q.new \cap Report : q.new[i].report \in {r, NoReport}
      BY <1>2, <2>1 DEF ItemPart, Inserts, Content
    <3> QED
      BY <3>1, <3>2, ExpensesAssumption
  <2>3. row'[q.new[i].report].state # "absent"
    BY <2>2, ReportStays
  <2> QED
    BY <2>1, <2>2, <2>3 DEF ItemOK, ItemPart
<1>3. CASE Deletes(q, i)
  BY <1>0, <1>3 DEF Deletes, ItemOK
<1>4. CASE Updates(q, i)
  <2>1. /\ ItemPart(q, i) /\ row'[i] \in ItemRow /\ row'[i].state = "present"
        /\ row'[i].report = row[i].report /\ row[i].state = "present"
        /\ row'[i].amount = Column(row[i].amount, q.seen[i].amount, q.new[i].amount)
        /\ q.new[i].amount >= 1
    BY <1>0, <1>4, PartsOf DEF Updates, ItemPart
  <2>2. row'[i].amount >= 1 /\ row'[i].report \in Report /\ row'[row[i].report].state # "absent"
    BY <1>0, <2>1, ReportStays DEF Column, ItemOK
  <2> QED
    BY <2>1, <2>2 DEF ItemOK
<1> QED
  BY <1>1, <1>2, <1>3, <1>4, ItemAfter

LEMMA StepKept ==
    ASSUME IInv, NEW q, Committed(q), NEW x \in Step
    PROVE  StepOK(x)'
<1>1. /\ row'[x] \in StepRow /\ (row'[x].state = "absent" <=> row'[x].gen = 0)
      /\ row'[x].state = "absent" => row'[x] = NoneStep
  BY StepAfter
<1>2. x[1] \in Report /\ StepOK(x)
  BY NamesOf DEF Step
<1>3. row'[x].state # "absent" => row'[x[1]].state # "absent"
  <2>1. CASE StepRests(x)
    BY <1>2, <2>1, ReportStays DEF StepRests, StepOK
  <2>2. CASE Rebuilds(q, x) \/ Decides(q, x)
    BY <1>2, <2>2, ReportStays DEF Rebuilds, Decides
  <2> QED
    BY <2>1, <2>2, StepAfter
<1> QED
  BY <1>1, <1>3 DEF StepOK

LEMMA RowsKept ==
    ASSUME IInv, NEW q, Committed(q)
    PROVE  Rows'
<1>1. (row = [x \in Tables |-> row[x]])'
  BY DEF Committed, Tables
<1> QED
  BY <1>1, ReportKept, ItemKept, StepKept, TxnAfter, BatchAfter DEF Rows

LEMMA PaidKept ==
    ASSUME IInv, NEW q, Committed(q), History(q)
    PROVE  Paid'
<1> DEFINE P == [batch : Batch, eur : Nat \ {0}]
<1>1. ASSUME NEW r \in Report PROVE payouts'[r] \in Seq(P)
  <2>1. payouts[r] \in Seq(P)
    BY DEF IInv, RowsSound, Paid
  <2>2. CASE q.op = "pay" /\ r \in DOMAIN q.new
    <3>1. RequestOK(q) /\ ReportPart(q, r) /\ q.seen[r].eur >= 1
      BY <2>2, PartsOf DEF Committed, RequestOK, BatchRequest
    <3>2. q.seen[r].batch \in Batch /\ q.seen[r].eur \in Nat \ {0}
      BY <2>2, <3>1 DEF ReportPart, ReportRow
    <3> DEFINE e == [batch |-> q.seen[r].batch, eur |-> q.seen[r].eur]
    <3>3. e \in P
      BY <3>2
    <3>4. payouts'[r] = Append(payouts[r], e)
      BY <2>2 DEF History
    <3> HIDE DEF e, P
    <3> QED
      BY <2>1, <3>3, <3>4
  <2>3. CASE ~(q.op = "pay" /\ r \in DOMAIN q.new)
    BY <2>1, <2>3 DEF History
  <2> QED
    BY <2>2, <2>3
<1> QED
  BY <1>1 DEF Paid, History

LEMMA VersionsKept ==
    ASSUME IInv, NEW q, Committed(q), History(q)
    PROVE  Versions'
<1>1. decided \in [Report -> Nat] /\ \A r \in Report : row[r].version = 1 + decided[r]
  BY DEF IInv, RowsSound, Versions, OneDecisionPerVersion
<1>2. decided' = [r \in Report |-> decided[r] + IF q.op \in Decisions /\ r \in DOMAIN q.new THEN 1 ELSE 0]
  BY DEF History
<1>3. ASSUME NEW r \in Report PROVE decided'[r] \in Nat /\ row'[r].version = 1 + decided'[r]
  <2>1. CASE r \in DOMAIN q.new
    <3>1. ReportData(q, r)
      BY <2>1, ReportAfter
    <3> QED
      BY <1>1, <1>2, <2>1, <3>1 DEF ReportData
  <2>2. CASE r \notin DOMAIN q.new
    BY <1>1, <1>2, <2>2, ReportStays
  <2> QED
    BY <2>1, <2>2
<1>4. decided' \in [Report -> Nat]
  BY <1>2, <1>3
<1> QED
  BY <1>3, <1>4 DEF Versions, OneDecisionPerVersion

\* Rows of another request.
LEMMA HeldRow ==
    ASSUME IInv, NEW q, Committed(q), NEW p, Beside(p, q), NEW x \in Tables, x \in p.locks
    PROVE  row'[x] = row[x] /\ x \notin Written(q)
<1>1. x \notin Written(q) /\ x \notin Cleared(q)
  BY DEF Beside
<1>2. CASE x \in DOMAIN q.new
  BY <1>1, <1>2, KeptRow
<1>3. CASE x \notin DOMAIN q.new
  BY <1>1, <1>3 DEF Committed
<1> QED
  BY <1>1, <1>2, <1>3

LEMMA ReservedRow ==
    ASSUME IInv, NEW q, Committed(q), NEW p, Beside(p, q), NEW x \in DOMAIN p.new, x \notin Step,
           p.seen[x].state = "absent"
    PROVE  row'[x] = row[x] /\ x \notin DOMAIN q.new
<1>1. RequestOK(p) /\ x \in Tables
  BY PartsOf DEF Beside
<1>2. x \notin DOMAIN q.new
  BY DEF Beside, Apart
<1>3. x \notin Txn
  BY <1>1, PartsOf, TableNames DEF TxnPart, TxnRow
<1> QED
  BY <1>1, <1>2, <1>3, OtherRow

LEMMA CurrentKept ==
    ASSUME IInv, NEW q, Committed(q), NEW p, Beside(p, q)
    PROVE  Current(p)'
<1>1. RequestOK(p) /\ Current(p) /\ DOMAIN p.new \subseteq Tables
  BY PartsOf DEF Beside, RequestOK
<1>2. ASSUME NEW x \in DOMAIN p.new, x \in p.locks PROVE row'[x] = p.seen[x]
  BY <1>1, <1>2, HeldRow DEF Current
<1>3. ASSUME NEW x \in DOMAIN p.new, x \notin Step, p.seen[x].state = "absent" PROVE row'[x].state = "absent"
  BY <1>1, <1>3, ReservedRow DEF Current
<1>4. ASSUME NEW x \in DOMAIN p.new, x \in Report
      PROVE  /\ p.seen[x].state # "absent" => row'[x].state # "absent"
             /\ p.seen[x].eur # 0 => row'[x].eur # 0
  BY <1>1, <1>4, ReportStays DEF Current
<1>5. ASSUME NEW x \in DOMAIN p.new, x \in Item, p.seen[x].state = "present", row'[x].state = "present"
      PROVE  row'[x].report = p.seen[x].report
  <2>1. row[x].state = "present" => row[x].report = p.seen[x].report
    BY <1>1, <1>5 DEF Current
  <2>2. CASE Rests(q, x) \/ Updates(q, x)
    BY <1>5, <2>1, <2>2 DEF Rests, Updates
  <2>3. CASE Inserts(q, x)
    BY <1>5, <2>3, TableNames DEF Inserts, Beside, Apart
  <2>4. CASE Deletes(q, x)
    BY <1>5, <2>4 DEF Deletes, NoneItem
  <2> QED
    BY <1>5, <2>2, <2>3, <2>4, ItemAfter
<1> QED
  BY <1>2, <1>3, <1>4, <1>5 DEF Current

LEMMA KeyedKept ==
    ASSUME IInv, NEW q, Committed(q), NEW p, Beside(p, q)
    PROVE  Keyed(p)'
<1>1. Keyed(p) /\ Keyed(q) /\ p.locks \cap q.locks = {}
  BY DEF Beside, RequestOK, Committed, Apart
<1>2. ASSUME NEW r \in DOMAIN p.new \cap Report, p.seen[r].state = "absent", NEW e \in Report
      PROVE  row'[e].key = row[e].key
  <2>1. CASE e \in DOMAIN q.new
    <3>1. ReportTyped(q, e) /\ ReportData(q, e)
      BY <2>1, ReportAfter
    <3>2. q.op # "create"
      BY <1>1, <1>2, <2>1, <3>1, NoneReportIs DEF ReportTyped, Keyed
    <3> QED
      BY <3>1, <3>2 DEF ReportData
  <2>2. CASE e \notin DOMAIN q.new
    BY <2>2, ReportStays
  <2> QED
    BY <2>1, <2>2
<1> QED
  BY <1>1, <1>2 DEF Keyed
----------------------------------------------------------------------------
(* Commit keeps every report where its chain is.                           *)

LEMMA OldRaced ==
    ASSUME NEW q, History(q), NEW ops, NEW r, Unraced(ops, r)'
    PROVE  Unraced(ops, r)
BY DEF History, Unraced

LEMMA OldRecalled ==
    ASSUME NEW q, History(q), NEW r, ~Recalled(r)'
    PROVE  ~Recalled(r)
BY OldRaced DEF Recalled

LEMMA NowRaced ==
    ASSUME NEW q, History(q), NEW ops, NEW r \in DOMAIN q.new \cap Report, q.op \in ops, Unraced(ops, r)'
    PROVE  row[r] = q.seen[r]
<1>1. Of(q, r) = r
  BY TableNames DEF Of
<1> QED
  BY <1>1 DEF History, Unraced

LEMMA FitsSame ==
    ASSUME NEW state, NEW f, NEW g, NEW S, \A x \in S : f[x] = g[x], Fits(state, f, S)
    PROVE  Fits(state, g, S)
BY DEF Fits

LEMMA StepsAre ==
    ASSUME IInv, NEW r \in Report
    PROVE  \A x : x \in StepsOf(r) <=> x \in Step /\ x[1] = r /\ row[x].gen # 0
BY NamesOf DEF StepsOf, StepOK

LEMMA StepsBecome ==
    ASSUME IInv, NEW q, Committed(q), NEW r \in Report
    PROVE  \A x : x \in StepsOf(r)' <=> x \in Step /\ x[1] = r /\ row'[x].gen # 0
BY StepAfter DEF StepsOf

LEMMA StepStateIs ==
    /\ \A x \in Step : StepState[x] = row[x].state
    /\ \A x \in Step : StepState'[x] = row'[x].state
BY DEF StepState

\* The chain of a report is left, deleted, or replaced by a new one.
GensStay(r) == \A x \in Step : x[1] = r => row'[x].gen = row[x].gen
GensEnd(r) == \A x \in Step : x[1] = r => row'[x].gen = 0
GensStart(q, r) ==
    /\ First(r) \in DOMAIN q.new \cap Step /\ q.new[First(r)].gen # 0
    /\ row'[First(r)].gen = q.new[First(r)].gen
    /\ \A x \in Step : x[1] = r => row'[x].gen \in {0, q.new[First(r)].gen}

\* The chain a withdrawal read is gone, so that it deletes nothing.
GensLost(q, r) ==
    /\ \A x \in Step : x[1] = r => StepRests(x)
    /\ \E x \in Step : x[1] = r /\ Misses(q, x)

\* The steps of r, when a submission or a withdrawal of it commits.
LEMMA ChainKnown ==
    ASSUME IInv, NEW q, Committed(q), NEW r \in DOMAIN q.new \cap Report, q.op \in {"submit", "withdraw"},
           NEW x \in Step, x[1] = r
    PROVE  /\ x \in DOMAIN q.new /\ StepPart(q, x)
           /\ Rebuilds(q, x) \/ Misses(q, x)
           /\ \A y \in Step : y[1] = r => SameChain(q, x, y)
           /\ q.op = "submit" => SubmitChain(q, r)
<1>1. RequestOK(q) /\ ChainRequest(q) /\ DOMAIN q.new \cap Step # {}
  BY DEF Committed, ChainRead, RequestOK
<1>2. WholeChain(q, r)
  BY <1>1 DEF ChainRequest
<1>3. x \in DOMAIN q.new
  BY <1>1, <1>2 DEF WholeChain
<1>4. StepPart(q, x)
  BY <1>1, <1>3, PartsOf
<1>5. \A y \in Step : y[1] = r => SameChain(q, x, y)
  BY <1>2, <1>3 DEF WholeChain
<1>6. q.op = "submit" => SubmitChain(q, r)
  BY <1>1 DEF ChainRequest
<1> QED
  BY <1>3, <1>4, <1>5, <1>6, StepAfter

\* A withdrawal deletes the chain it read, or leaves the one that is there now.
LEMMA WithdrawnSteps ==
    ASSUME IInv, NEW q, Committed(q), NEW r \in DOMAIN q.new \cap Report, q.op = "withdraw"
    PROVE  GensEnd(r) \/ GensLost(q, r)
<1>1. ASSUME NEW x \in Step, x[1] = r
      PROVE  /\ Rebuilds(q, x) => row'[x].gen = 0 /\ row[x].gen = q.seen[x].gen
             /\ Rebuilds(q, x) \/ Misses(q, x)
  <2>1. StepPart(q, x) /\ (Rebuilds(q, x) \/ Misses(q, x))
    BY <1>1, ChainKnown
  <2> QED
    BY <2>1 DEF StepPart, Rebuilds
<1>2. CASE \A x \in Step : x[1] = r => Rebuilds(q, x)
  BY <1>1, <1>2 DEF GensEnd
<1>3. CASE ~ \A x \in Step : x[1] = r => Rebuilds(q, x)
  <2>1. PICK z \in Step : z[1] = r /\ Misses(q, z)
    BY <1>1, <1>3
  <2>2. ASSUME NEW x \in Step, x[1] = r PROVE StepRests(x)
    <3>1. CASE Rebuilds(q, x)
      <4>1. row[x].gen = q.seen[x].gen /\ row'[x].gen = 0
        BY <1>1, <2>2, <3>1
      <4>2. SameChain(q, x, z)
        BY <2>1, <2>2, ChainKnown
      <4>3. row[x].gen = 0
        BY <2>1, <4>1, <4>2 DEF SameChain, Misses
      <4>4. row[x].state = "absent" /\ row'[x].state = "absent"
        BY <4>1, <4>3, NamesOf, StepAfter DEF StepOK
      <4> QED
        BY <4>1, <4>3, <4>4 DEF StepRests
    <3>2. CASE Misses(q, x)
      BY <3>2 DEF Misses, StepRests
    <3> QED
      BY <1>1, <2>2, <3>1, <3>2
  <2> QED
    BY <2>1, <2>2 DEF GensLost
<1> QED
  BY <1>2, <1>3

\* A submission leaves the steps it builds, and no other.
LEMMA SubmittedSteps ==
    ASSUME IInv, NEW q, Committed(q), NEW r \in DOMAIN q.new \cap Report, q.op = "submit"
    PROVE  /\ GensStart(q, r)
           /\ \A x \in Step : x[1] = r /\ row'[x].gen # 0 => row'[x].state = "pending"
<1> DEFINE e == First(r)
<1>1. e \in Step /\ e[1] = r /\ Chained(r)
  BY StepNames
<1>2. SubmitChain(q, r) /\ (Rebuilds(q, e) \/ Misses(q, e))
  BY <1>1, ChainKnown
<1>3. /\ e \in DOMAIN q.new /\ q.new[e].gen # 0
      /\ \A x \in DOMAIN q.new \cap Step : q.new[x].gen \in {0, q.new[e].gen}
  BY <1>2 DEF SubmitChain
<1>4. row'[e] = q.new[e] /\ row[e].gen \in {0, q.seen[e].gen}
  BY <1>2, <1>3 DEF Rebuilds, Misses
<1> HIDE DEF e
<1>5. ASSUME NEW x \in Step, x[1] = r, row'[x].gen # 0
      PROVE  row'[x].gen = q.new[e].gen /\ row'[x].state = "pending"
  <2>1. x \in DOMAIN q.new /\ StepPart(q, x) /\ (Rebuilds(q, x) \/ Misses(q, x))
    BY <1>5, ChainKnown
  <2>2. CASE Rebuilds(q, x)
    <3>1. row'[x] = q.new[x]
      BY <2>2 DEF Rebuilds
    <3>2. q.new[x].gen = q.new[e].gen
      BY <1>3, <1>5, <2>1, <3>1
    <3>3. q.new[x].state = "pending"
      BY <1>5, <2>1, <3>1 DEF StepPart
    <3> QED
      BY <3>1, <3>2, <3>3
  <2>3. CASE Misses(q, x)
    <3>1. row[x].gen # 0 /\ row[x].gen # q.seen[x].gen
      BY <1>5, <2>3 DEF Misses
    <3>2. x \in StepsOf(r)
      BY <1>5, <3>1, StepsAre
    <3>3. e \in StepsOf(r)
      BY <1>1, <3>2 DEF Chained, e
    <3>4. row[e].gen # 0
      BY <3>3, StepsAre
    <3>5. row[e].gen = q.seen[e].gen
      BY <1>4, <3>4
    <3>6. SameChain(q, e, x)
      BY <1>1, <1>5, ChainKnown
    <3>7. row[x].gen = q.seen[x].gen
      BY <3>4, <3>5, <3>6 DEF SameChain
    <3> QED
      BY <3>1, <3>7
  <2> QED
    BY <2>1, <2>2, <2>3
<1>6. GensStart(q, r)
  BY <1>1, <1>3, <1>4, <1>5 DEF GensStart, e
<1> QED
  BY <1>5, <1>6

\* Such a withdrawal is one from a read no longer current.
LEMMA LostRaced ==
    ASSUME IInv, NEW q, Committed(q), History(q), NEW r, q.op = "withdraw", GensLost(q, r)
    PROVE  Recalled(r)'
<1>1. PICK x \in Step : x[1] = r /\ Misses(q, x)
  BY DEF GensLost
<1>2. x \in DOMAIN q.new /\ row[x] # q.seen[x]
  BY <1>1 DEF Misses
<1>3. Of(q, x) = r
  BY <1>1, TableNames DEF Of
<1>4. <<"withdraw", r>> \in raced'
  BY <1>2, <1>3 DEF History
<1> QED
  BY <1>4 DEF Recalled, Unraced

\* The steps of a report that no chain operation touches.
LEMMA ChainRests ==
    ASSUME IInv, NEW q, Committed(q), NEW r \in Report,
           r \notin DOMAIN q.new \/ q.op \notin {"submit", "withdraw", "decide"}
    PROVE  /\ \A x \in Step : x[1] = r => StepRests(x)
           /\ StepsOf(r)' = StepsOf(r)
<1>1. ASSUME NEW x \in Step, x[1] = r PROVE StepRests(x)
  BY <1>1, StepAfter DEF Rebuilds, Decides
<1>2. \A x : x \in StepsOf(r)' <=> x \in StepsOf(r)
  BY <1>1, StepsAre, StepsBecome DEF StepRests
<1> QED
  BY <1>1, <1>2

\* The state of a report when an operation that changes it commits.
StatusBefore(q, r) ==
    /\ q.op = "create" => row[r].state = "absent"
    /\ q.op = "submit" /\ ~Recalled(r)' => row[r] = q.seen[r] /\ row[r].state \in Editable
    /\ q.op = "withdraw" /\ ~Recalled(r)' => row[r] = q.seen[r] /\ row[r].state = "submitted"
    /\ q.op = "decide" => row[r].state \in InApproval
    /\ q.op = "mark" => row[r].state = "approved"
    /\ q.op = "reimburse" => row[r].state \in Payable
    /\ q.op \in {"batch", "pay"} /\ ~Recalled(r) => row[r].state \in Payables
    /\ q.op = "pay" /\ ~Recalled(r) => row'[r].state = "reimbursed"

LEMMA StatusIs ==
    ASSUME IInv, NEW q, Committed(q), History(q), NEW r \in DOMAIN q.new \cap Report
    PROVE  StatusBefore(q, r)
<1>1. /\ RequestOK(q) /\ ChainRequest(q)
      /\ ReportTyped(q, r) /\ ReportStatus(q, r) /\ ReportGuard(q.op, q.seen[r])
  BY ReportAfter, OperationOf DEF Committed, RequestOK
<1>2. ASSUME q.op \in {"submit", "withdraw"}, ~Recalled(r)' PROVE row[r] = q.seen[r]
  BY <1>2, NowRaced DEF Recalled
<1>3. /\ q.op = "submit" /\ ~Recalled(r)' => row[r] = q.seen[r] /\ row[r].state \in Editable
      /\ q.op = "withdraw" /\ ~Recalled(r)' => row[r] = q.seen[r] /\ row[r].state = "submitted"
  BY <1>1, <1>2 DEF ReportGuard
<1>4. q.op \in Decisions => /\ q.op = "decide" => row[r].state \in InApproval
                            /\ q.op = "mark" => row[r].state = "approved"
                            /\ q.op = "reimburse" => row[r].state \in Payable
  BY <1>1 DEF ReportStatus, ReportGuard, Decisions
<1>5. ASSUME q.op \in {"batch", "pay"}, ~Recalled(r)
      PROVE  row[r].state \in Payables /\ (q.op = "pay" => row'[r].state = "reimbursed")
  BY <1>1, <1>5 DEF ChainRequest, ReportStatus
<1>6. q.op = "create" => row[r].state = "absent"
  BY <1>1, NoneReportIs DEF ReportTyped
<1> QED
  BY <1>3, <1>4, <1>5, <1>6 DEF StatusBefore, Decisions

LEMMA ChainedIs ==
    ASSUME NEW r, Fits(row'[r].state, StepState', StepsOf(r)'),
           StepsOf(r)' # {} => First(r) \in StepsOf(r)',
           \A x, y \in StepsOf(r)' : row'[x].gen = row'[y].gen,
           row'[r].state = "draft" /\ ~Recalled(r)' => StepsOf(r)' = {},
           row'[r].state = "reimbursed" /\ ~Recalled(r)' =>
              StepsOf(r)' # {} /\ \A x \in StepsOf(r)' : row'[x].state = "approved",
           row'[r].batch # NoBatch /\ ~Recalled(r)' => row'[r].state \in Payables
    PROVE  Chained(r)'
BY DEF Chained

LEMMA ChainedKept ==
    ASSUME IInv, NEW q, Committed(q), History(q), NEW r \in Report
    PROVE  Chained(r)'
<1>1. /\ Chained(r) /\ StepsOf(r) \subseteq Step /\ First(r) \in Step /\ First(r)[1] = r
      /\ ~Recalled(r)' => ~Recalled(r)
  BY StepNames, OldRecalled
<1>2. ASSUME r \notin DOMAIN q.new \/ q.op \notin {"submit", "withdraw", "decide"}
      PROVE  /\ StepsOf(r)' = StepsOf(r)
             /\ \A x \in StepsOf(r) : /\ row'[x].state = row[x].state /\ row'[x].gen = row[x].gen
                                      /\ StepState[x] = row[x].state /\ StepState'[x] = row[x].state
             /\ \A state : Fits(state, StepState, StepsOf(r)) => Fits(state, StepState', StepsOf(r))
  <2>1. StepsOf(r)' = StepsOf(r)
    BY <1>2, ChainRests
  <2>2. \A x \in StepsOf(r) : /\ row'[x].state = row[x].state /\ row'[x].gen = row[x].gen
                              /\ StepState[x] = row[x].state /\ StepState'[x] = row[x].state
    BY <1>1, <1>2, ChainRests, StepNames, StepStateIs DEF StepRests
  <2>3. ASSUME NEW state, Fits(state, StepState, StepsOf(r)) PROVE Fits(state, StepState', StepsOf(r))
    <3>1. PICK f, g : f = StepState /\ g = StepState'
      OBVIOUS
    <3>2. \A x \in StepsOf(r) : f[x] = g[x]
      BY <2>2, <3>1
    <3> QED
      BY <2>3, <3>1, <3>2, FitsSame
  <2> QED
    BY <2>1, <2>2, <2>3
<1>3. CASE r \notin DOMAIN q.new
  <2>1. row'[r] = row[r]
    BY <1>3, ReportStays
  <2> QED
    BY <1>1, <1>2, <1>3, <2>1, ChainedIs DEF Chained
<1>4. ASSUME r \in DOMAIN q.new
      PROVE  /\ RequestOK(q) /\ ChainRequest(q) /\ r \in DOMAIN q.new \cap Report
             /\ ReportTyped(q, r) /\ ReportData(q, r) /\ ReportStatus(q, r) /\ StatusBefore(q, r)
             /\ q.op \in {"add", "edit", "replace", "from_txn", "decide", "mark", "reimburse",
                          "create", "delete", "submit", "withdraw", "batch", "pay", "cancel"}
  BY <1>4, ReportAfter, StatusIs, OperationOf DEF Committed, RequestOK
<1>5. CASE r \in DOMAIN q.new /\ q.op \in Content \cup {"delete", "cancel", "batch"}
  <2>1. /\ row'[r].state = row[r].state
        /\ q.op # "batch" => row'[r].batch \in {row[r].batch, NoBatch}
        /\ q.op = "batch" /\ ~Recalled(r) => row[r].state \in Payables
    BY <1>4, <1>5 DEF ReportStatus, ReportData, StatusBefore, Content
  <2> QED
    BY <1>1, <1>2, <1>5, <2>1, ChainedIs DEF Chained, Content
<1>6. CASE r \in DOMAIN q.new /\ q.op = "create"
  <2>1. row'[r].state = "draft" /\ row'[r].batch = NoBatch /\ row[r].state = "absent"
    BY <1>4, <1>6, NoneReportIs DEF ReportTyped, ReportStatus, ReportData, StatusBefore
  <2>2. StepsOf(r) = {}
    BY <1>1, <2>1 DEF Chained, Fits
  <2>3. StepsOf(r)' = {} /\ Fits("draft", StepState', {})
    BY <1>2, <1>6, <2>2 DEF Fits, Payable
  <2> QED
    BY <1>1, <2>1, <2>3, ChainedIs
<1>7. CASE r \in DOMAIN q.new /\ q.op = "pay"
  <2>1. /\ row'[r].batch = row[r].batch
        /\ row'[r].state \in {row[r].state, "reimbursed"}
        /\ ~Recalled(r) => row[r].state \in Payables
    BY <1>4, <1>7 DEF ReportStatus, ReportData, StatusBefore
  <2>2. Fits("reimbursed", StepState', StepsOf(r))
    BY DEF Fits, Payable
  <2>3. ~Recalled(r) => StepsOf(r) # {} /\ \A x \in StepsOf(r) : StepState[x] = "approved"
    BY <1>1, <1>2, <1>7, <2>1 DEF Chained, Fits, Payables, Payable
  <2>4. Fits(row'[r].state, StepState', StepsOf(r))
    BY <1>1, <1>2, <1>7, <2>1, <2>2 DEF Chained
  <2> QED
    BY <1>1, <1>2, <1>7, <2>1, <2>3, <2>4, ChainedIs DEF Chained, Payables
<1>8. CASE r \in DOMAIN q.new /\ q.op \in {"mark", "reimburse"}
  <2>1. /\ row'[r].batch = row[r].batch /\ row'[r].state \in {"marked_for_reimbursement", "reimbursed"}
        /\ row[r].state \in Payable
    <3>1. q.new[r].state \in {"marked_for_reimbursement", "reimbursed"}
      BY <1>4, <1>8, OperationOf DEF ReportState
    <3> QED
      BY <1>4, <1>8, <3>1 DEF ReportStatus, ReportData, StatusBefore, Decisions, Payable
  <2>2. StepsOf(r) # {} /\ \A x \in StepsOf(r) : StepState[x] = "approved"
    BY <1>1, <2>1 DEF Chained, Fits, Payable
  <2>3. Fits(row'[r].state, StepState', StepsOf(r))
    BY <1>2, <1>8, <2>1, <2>2 DEF Fits, Payable
  <2> QED
    BY <1>1, <1>2, <1>8, <2>1, <2>2, <2>3, ChainedIs DEF Chained, Payables, Payable
<1>9. CASE r \in DOMAIN q.new /\ q.op = "decide"
  <2>1. /\ row'[r].batch = row[r].batch /\ row'[r].state = q.new[r].state
        /\ row[r].state \in InApproval /\ DecideChain(q, r)
        /\ row'[r].state \in {"partially_approved", "approved", "rejected", "returned"}
    BY <1>4, <1>9, OperationOf DEF ReportStatus, ReportData, StatusBefore, Decisions, ChainRequest, ReportState
  <2>2. ~Recalled(r) => row[r].batch = NoBatch
    BY <1>1, <2>1 DEF Chained, InApproval, Payables, Payable
  <2>3. \A x \in Step : row'[x].gen = row[x].gen /\ StepState'[x] = After(q)[x]
    <3>1. ASSUME NEW x \in Step PROVE row'[x].gen = row[x].gen /\ row'[x].state = After(q)[x]
      <4>1. CASE x \in DOMAIN q.new
        <5>1. /\ x[1] \in DOMAIN q.new \cap Report
              /\ \A e \in DOMAIN q.new \cap Report : e = x[1]
          BY <1>4, <1>9, <4>1, PartsOf DEF StepPart, Step
        <5>2. row[x].state = q.seen[x].state
          BY <1>4, <1>9, <2>1, <4>1, <5>1 DEF DecideChain
        <5>3. row'[x].gen = row[x].gen
          BY <1>9, <4>1, StepAfter DEF StepRests, Rebuilds, Decides
        <5>4. row'[x].state = q.new[x].state
          <6>1. CASE x \notin Written(q)
            BY <4>1, <5>2, <6>1, KeptRow DEF Written
          <6>2. CASE x \in Written(q)
            <7>1. StepPart(q, x) /\ row'[x] = Flush(q, x) /\ row[x] \in StepRow
              BY <1>4, <4>1, PartsOf, NamesOf DEF Committed
            <7>2. ~Whole(q, x) /\ ~Missed(q, x) /\ q.seen[x] \in StepRow /\ q.new[x] \in StepRow
              BY <1>9, <7>1 DEF Whole, Missed, StepPart
            <7>3. row'[x].state = Column(row[x].state, q.seen[x].state, q.new[x].state)
              BY <7>1, <7>2, FlushIs, MergeStep
            <7> QED
              BY <5>2, <7>3 DEF Column
          <6> QED
            BY <6>1, <6>2
        <5> QED
          BY <4>1, <5>3, <5>4 DEF After
      <4>2. CASE x \notin DOMAIN q.new
        BY <4>2, StepAfter DEF StepRests, After
      <4> QED
        BY <4>1, <4>2
    <3> QED
      BY <3>1, StepStateIs
  <2>4. StepsOf(r)' = StepsOf(r)
    <3>1. \A x : x \in StepsOf(r)' <=> x \in StepsOf(r)
      BY <2>3, StepsAre, StepsBecome
    <3> QED
      BY <3>1
  <2>5. Fits(row'[r].state, StepState', StepsOf(r))
    <3>1. PICK f, g : f = After(q) /\ g = StepState'
      OBVIOUS
    <3>2. \A x \in StepsOf(r) : f[x] = g[x]
      BY <1>1, <2>3, <3>1
    <3>3. Fits(row'[r].state, f, StepsOf(r))
      BY <2>1, <3>1 DEF DecideChain
    <3> QED
      BY <3>1, <3>2, <3>3, FitsSame
  <2> QED
    BY <1>1, <2>1, <2>2, <2>3, <2>4, <2>5, ChainedIs DEF Chained
<1>10. CASE r \in DOMAIN q.new /\ q.op = "withdraw"
  <2>1. row'[r].state = "draft" /\ row'[r].batch = row[r].batch
    BY <1>4, <1>10 DEF ReportStatus, ReportData
  <2>2. ~Recalled(r)' => row[r].batch = NoBatch
    BY <1>1, <1>4, <1>10 DEF StatusBefore, Chained, Payables, Payable
  <2>3. Fits("draft", StepState', StepsOf(r)')
    BY DEF Fits, Payable
  <2>4. CASE GensEnd(r)
    <3>1. StepsOf(r)' = {}
      BY <2>4, StepsBecome DEF GensEnd
    <3> QED
      BY <2>1, <2>2, <2>3, <3>1, ChainedIs
  <2>5. CASE GensLost(q, r)
    <3>1. Recalled(r)'
      BY <1>10, <2>5, LostRaced
    <3>2. \A x \in Step : x[1] = r => row'[x].gen = row[x].gen
      BY <2>5 DEF GensLost, StepRests
    <3>3. \A x : x \in StepsOf(r)' <=> x \in StepsOf(r)
      BY <3>2, StepsAre, StepsBecome
    <3>4. \A x, y \in StepsOf(r)' : row'[x].gen = row'[y].gen
      BY <1>1, <3>2, <3>3, StepsAre DEF Chained
    <3>5. StepsOf(r)' # {} => First(r) \in StepsOf(r)'
      BY <1>1, <3>3 DEF Chained
    <3> QED
      BY <2>1, <2>3, <3>1, <3>4, <3>5, ChainedIs
  <2> QED
    BY <1>4, <1>10, <2>4, <2>5, WithdrawnSteps
<1>11. CASE r \in DOMAIN q.new /\ q.op = "submit"
  <2>1. row'[r].state = "submitted" /\ row'[r].batch = row[r].batch
    BY <1>4, <1>11 DEF ReportStatus, ReportData
  <2>2. ~Recalled(r)' => row[r].batch = NoBatch
    BY <1>1, <1>4, <1>11 DEF StatusBefore, Chained, Payables, Payable, Editable
  <2>3. /\ GensStart(q, r)
        /\ \A x \in Step : x[1] = r /\ row'[x].gen # 0 => row'[x].state = "pending"
    BY <1>4, <1>11, SubmittedSteps
  <2>4. First(r) \in StepsOf(r)'
    BY <1>1, <2>3, StepsBecome DEF GensStart
  <2>5. \A x \in StepsOf(r)' : row'[x].gen = q.new[First(r)].gen /\ StepState'[x] = "pending"
    BY <2>3, StepsBecome, StepStateIs DEF GensStart
  <2>6. Fits("submitted", StepState', StepsOf(r)')
    BY <2>4, <2>5 DEF Fits, Payable
  <2> QED
    BY <2>1, <2>2, <2>4, <2>5, <2>6, ChainedIs
<1> QED
  BY <1>3, <1>4, <1>5, <1>6, <1>7, <1>8, <1>9, <1>10, <1>11 DEF Content

LEMMA GensAfter ==
    ASSUME IInv, NEW q, Committed(q), NEW r \in Report
    PROVE  \/ GensStay(r)
           \/ GensEnd(r) /\ q.op = "withdraw"
           \/ GensStart(q, r) /\ q.op = "submit"
<1>1. CASE r \notin DOMAIN q.new \/ q.op \notin {"submit", "withdraw"}
  <2>1. ASSUME NEW x \in Step, x[1] = r PROVE row'[x].gen = row[x].gen
    BY <1>1, <2>1, StepAfter DEF StepRests, Rebuilds, Decides
  <2> QED
    BY <2>1 DEF GensStay
<1>2. CASE r \in DOMAIN q.new /\ q.op = "withdraw"
  BY <1>2, WithdrawnSteps DEF GensLost, StepRests, GensStay
<1>3. CASE r \in DOMAIN q.new /\ q.op = "submit"
  BY <1>3, SubmittedSteps
<1> QED
  BY <1>1, <1>2, <1>3

LEMMA SameChainKept ==
    ASSUME IInv, NEW q, Committed(q), History(q), NEW p, Beside(p, q), NEW r \in Report,
           NEW x \in DOMAIN p.new \cap Step, x[1] = r, NEW y \in Step, y[1] = r, SameChain(p, x, y)
    PROVE  SameChain(p, x, y)'
<1>1. CASE GensStay(r)
  BY <1>1 DEF GensStay, SameChain
<1>2. CASE GensEnd(r)
  BY <1>2 DEF GensEnd, SameChain
<1>3. CASE GensStart(q, r) /\ q.op = "submit"
  <2>1. q.new[First(r)].gen # p.seen[x].gen
    <3>1. First(r)[1] = x[1]
      BY StepNames
    <3> QED
      BY <1>3, <3>1 DEF Beside, GensApart, GensStart
  <2> QED
    BY <1>3, <2>1 DEF GensStart, SameChain
<1> QED
  BY <1>1, <1>2, <1>3, GensAfter

LEMMA PayableStays ==
    ASSUME IInv, NEW q, Committed(q), History(q), NEW r \in Report, row[r].state \in Payables, ~Recalled(r)'
    PROVE  /\ row'[r].state \in Payables
           /\ row[r].state = "reimbursed" => row'[r].state = "reimbursed"
<1>1. ~Recalled(r)
  BY OldRecalled
<1>2. CASE r \in DOMAIN q.new
  <2>1. /\ ReportStatus(q, r) /\ StatusBefore(q, r) /\ ReportState(q.op, q.seen[r], q.new[r])
        /\ q.op \in {"add", "edit", "replace", "from_txn", "decide", "mark", "reimburse",
                     "create", "delete", "submit", "withdraw", "batch", "pay", "cancel"}
    BY <1>2, ReportAfter, StatusIs, OperationOf DEF Committed
  <2>2. CASE q.op \in Content \cup {"delete", "batch", "cancel"}
    BY <2>1, <2>2 DEF ReportStatus
  <2>3. CASE q.op \in {"create", "submit", "withdraw", "decide"}
    BY <1>1, <2>1, <2>3 DEF StatusBefore, Payables, Payable, Editable, InApproval
  <2>4. CASE q.op \in {"mark", "reimburse", "pay"}
    BY <1>1, <2>1, <2>4 DEF ReportStatus, ReportState, StatusBefore, Payables, Payable, Decisions
  <2> QED
    BY <2>1, <2>2, <2>3, <2>4 DEF Content
<1>3. CASE r \notin DOMAIN q.new
  BY <1>3, ReportStays
<1> QED
  BY <1>2, <1>3

LEMMA SubmitChainKept ==
    ASSUME IInv, NEW q, Committed(q), History(q), NEW p, Beside(p, q),
           NEW r \in DOMAIN p.new \cap Report, p.op = "submit", SubmitChain(p, r)
    PROVE  SubmitChain(p, r)'
<1> DEFINE gen == p.new[First(r)].gen
<1>1. First(r) \in DOMAIN p.new \cap Step /\ First(r)[1] = r /\ gen # 0
  BY StepNames DEF SubmitChain
<1>2. \A y \in Step : y[1] = r => row[y].gen # gen
  BY DEF SubmitChain
<1>3. GensStart(q, r) /\ q.op = "submit" => q.new[First(r)].gen # gen
  BY <1>1 DEF Beside, GensApart, GensStart
<1>4. \A y \in Step : y[1] = r => row'[y].gen # gen
  BY <1>1, <1>2, <1>3, GensAfter DEF GensStay, GensEnd, GensStart
<1> QED
  BY <1>4 DEF SubmitChain

LEMMA DecideChainKept ==
    ASSUME IInv, NEW q, Committed(q), History(q), NEW p, Beside(p, q),
           NEW r \in DOMAIN p.new \cap Report, p.op \in Decisions, DecideChain(p, r)
    PROVE  DecideChain(p, r)'
<1>1. RequestOK(p) /\ RequestOK(q)
  BY DEF Beside, Committed
<1>2. r \in p.locks /\ r \in Tables
  BY <1>1, OperationOf DEF ReportPart, Tables
<1>3. r \notin Written(q)
  BY <1>2, HeldRow
<1>4. r \notin DOMAIN q.new \/ q.op \notin {"submit", "withdraw", "decide"}
  <2> SUFFICES ASSUME r \in DOMAIN q.new, q.op \in {"submit", "withdraw", "decide"} PROVE FALSE
    OBVIOUS
  <2>1. /\ ReportGuard(q.op, q.seen[r]) /\ ReportState(q.op, q.seen[r], q.new[r])
        /\ ReportColumns(q.op, q.seen[r], q.new[r]) /\ q.seen[r] \in ReportRow
    BY <1>1, OperationOf
  <2>2. q.new[r] = q.seen[r]
    BY <1>3 DEF Written
  <2>3. CASE q.op \in {"submit", "withdraw"}
    BY <2>1, <2>2, <2>3 DEF ReportGuard, ReportState, Editable
  <2>4. CASE q.op = "decide"
    <3>1. q.seen[r].version \in Int /\ q.seen[r].version = q.seen[r].version + 1
      BY <2>1, <2>2, <2>4 DEF ReportColumns, Decisions, ReportRow
    <3> QED
      BY <3>1
  <2> QED
    BY <2>3, <2>4
<1>5. StepsOf(r)' = StepsOf(r) /\ \A x \in Step : x[1] = r => StepRests(x)
  BY <1>4, ChainRests
<1>6. \A x \in DOMAIN p.new \cap Step : row'[x].gen = p.seen[x].gen /\ row'[x].state = p.seen[x].state
  <2>1. ASSUME NEW x \in DOMAIN p.new \cap Step PROVE x[1] = r
    <3>1. StepPart(p, x) /\ p.op # "reassign"
      BY <1>1, PartsOf DEF Decisions
    <3> QED
      BY <3>1 DEF StepPart
  <2> QED
    BY <1>5, <2>1 DEF StepRests, DecideChain
<1>7. Fits(p.new[r].state, After(p)', StepsOf(r))
  <2>1. PICK f, g : f = After(p) /\ g = After(p)'
    OBVIOUS
  <2>2. \A x \in StepsOf(r) : f[x] = g[x]
    BY <1>5, <2>1, StepNames DEF After, StepRests
  <2>3. Fits(p.new[r].state, f, StepsOf(r))
    BY <2>1 DEF DecideChain
  <2> QED
    BY <2>1, <2>2, <2>3, FitsSame
<1> QED
  BY <1>5, <1>6, <1>7 DEF DecideChain

LEMMA ChainRequestKept ==
    ASSUME IInv, NEW q, Committed(q), History(q), NEW p, Beside(p, q)
    PROVE  ChainRequest(p)'
<1>1. RequestOK(p) /\ ChainRequest(p)
  BY DEF Beside, RequestOK
<1> SUFFICES ASSUME NEW r \in DOMAIN p.new \cap Report
             PROVE  /\ p.op \in {"submit", "withdraw"} => WholeChain(p, r)'
                    /\ p.op = "submit" /\ DOMAIN p.new \cap Step # {} => SubmitChain(p, r)'
                    /\ p.op \in Decisions => DecideChain(p, r)'
                    /\ p.op \in {"batch", "pay"} /\ ~Recalled(r)' => row'[r].state \in Payables
                    /\ p.op = "pay" /\ ~Recalled(r)' /\ p.seen[r].state = "reimbursed" =>
                          row'[r].state = "reimbursed"
  BY DEF ChainRequest
<1>2. ASSUME p.op \in {"submit", "withdraw"} PROVE WholeChain(p, r)'
  <2>1. WholeChain(p, r)
    BY <1>1, <1>2 DEF ChainRequest
  <2>2. ASSUME NEW x \in Step, NEW y \in Step, x \in DOMAIN p.new, y[1] = r
        PROVE  y \in DOMAIN p.new /\ SameChain(p, x, y)'
    <3>1. y \in DOMAIN p.new /\ SameChain(p, x, y)
      BY <2>1, <2>2 DEF WholeChain
    <3>2. StepPart(p, x)
      BY <1>1, <2>2, PartsOf
    <3>3. x[1] = r
      BY <1>2, <3>2 DEF StepPart
    <3> QED
      BY <2>2, <3>1, <3>3, SameChainKept
  <2> QED
    BY <2>2 DEF WholeChain
<1>3. p.op = "submit" /\ DOMAIN p.new \cap Step # {} => SubmitChain(p, r)'
  BY <1>1, SubmitChainKept DEF ChainRequest
<1>4. p.op \in Decisions => DecideChain(p, r)'
  BY <1>1, DecideChainKept DEF ChainRequest
<1>5. ~Recalled(r)' => ~Recalled(r)
  BY OldRecalled
<1>6. /\ p.op \in {"batch", "pay"} /\ ~Recalled(r)' => row'[r].state \in Payables
      /\ p.op = "pay" /\ ~Recalled(r)' /\ p.seen[r].state = "reimbursed" => row'[r].state = "reimbursed"
  <2>1. /\ p.op \in {"batch", "pay"} /\ ~Recalled(r) => row[r].state \in Payables
        /\ p.op = "pay" /\ ~Recalled(r) /\ p.seen[r].state = "reimbursed" => row[r].state = "reimbursed"
    BY <1>1 DEF ChainRequest
  <2> QED
    BY <1>5, <2>1, PayableStays
<1> QED
  BY <1>2, <1>3, <1>4, <1>6
----------------------------------------------------------------------------
(* Commit keeps entries, transactions and totals consistent.               *)

LEMMA DeletedItem ==
    ASSUME IInv, NEW q, Committed(q), NEW i \in Deleted(q)
    PROVE  row'[i] = NoneItem
<1>1. i \in DOMAIN q.new /\ i \in Item /\ q.new[i].state = "absent" /\ ItemPart(q, i)
  BY PartsOf DEF Deleted, Written, Committed
<1>2. i \notin Step
  BY <1>1, TableNames
<1>3. row'[i] = q.new[i]
  BY <1>1, <1>2, FlushIs DEF Committed, Whole
<1> QED
  BY <1>1, <1>3 DEF ItemPart

LEMMA ClaimAfter ==
    ASSUME IInv, NEW q, Committed(q), NEW i \in Item, NEW t \in Txn,
           row'[i].state = "present", row'[i].ref = t
    PROVE  row'[t] = Assigned(i)
<1>1. RequestOK(q) /\ t # NoTxn /\ NoneItem.ref = NoTxn /\ NoneItem.state = "absent"
  BY ExpensesAssumption DEF Committed, NoneItem
<1>2. i \notin Deleted(q)
  BY <1>1, DeletedItem
<1>3. ASSUME row[i].state = "present", row[i].ref = t,
             q.op = "unmatch" => i \notin DOMAIN q.new
      PROVE  row'[t] = Assigned(i)
  <2>1. row[t] = Assigned(i) /\ row[t].state = "assigned" /\ row[t].item = i
    BY <1>3 DEF IInv, Entries, OneEntryPerTransaction, Assigned
  <2>2. CASE t \in DOMAIN q.new
    BY <1>1, <1>3, <2>1, <2>2, TxnAfter, PartsOf DEF TxnPart
  <2>3. CASE t \notin DOMAIN q.new
    BY <1>2, <2>1, <2>3, TxnAfter
  <2> QED
    BY <2>2, <2>3
<1>4. ASSUME i \in DOMAIN q.new, q.new[i].ref = t, q.seen[i].ref # t PROVE row'[t] = Assigned(i)
  <2>1. t \in DOMAIN q.new /\ q.new[t] = Assigned(i)
    BY <1>1, <1>4, PartsOf DEF ItemPart
  <2> QED
    BY <2>1, TxnAfter
<1>5. CASE Rests(q, i)
  <2>1. ASSUME q.op = "unmatch", i \in DOMAIN q.new PROVE FALSE
    <3>1. q.new[i].ref = NoTxn /\ q.new[i] = q.seen[i]
      BY <1>1, <1>5, <2>1, PartsOf DEF ItemPart, Rests, Written
    <3>2. row[i].ref = q.seen[i].ref
      BY <1>1, <1>5, <2>1 DEF RequestOK, UnmatchRequest, Rests
    <3> QED
      BY <1>1, <1>5, <3>1, <3>2 DEF Rests
  <2> QED
    BY <1>3, <1>5, <2>1 DEF Rests
<1>6. CASE Inserts(q, i)
  <2>1. q.seen[i] = NoneItem
    BY <1>1, <1>6, PartsOf DEF Inserts, ItemPart
  <2> QED
    BY <1>1, <1>4, <1>6, <2>1 DEF Inserts
<1>7. CASE Updates(q, i)
  <2>1. row'[i].ref = Column(row[i].ref, q.seen[i].ref, q.new[i].ref) /\ i \in DOMAIN q.new /\ ItemPart(q, i)
    BY <1>1, <1>7, PartsOf DEF Updates
  <2>2. CASE q.new[i].ref # q.seen[i].ref
    BY <1>4, <2>1, <2>2 DEF Column
  <2>3. CASE q.new[i].ref = q.seen[i].ref
    <3>1. row[i].ref = t
      BY <2>1, <2>3 DEF Column
    <3>2. q.op # "unmatch"
      BY <1>1, <1>7, <2>1, <2>3, <3>1 DEF ItemPart, RequestOK, UnmatchRequest, Updates
    <3> QED
      BY <1>3, <1>7, <3>1, <3>2 DEF Updates
  <2> QED
    BY <2>2, <2>3
<1> QED
  BY <1>1, <1>5, <1>6, <1>7, ItemAfter DEF Deletes

LEMMA ItemsAre ==
    ASSUME NEW r
    PROVE  /\ \A i : i \in ItemsOf(r) <=> i \in Item /\ row[i].state = "present" /\ row[i].report = r
           /\ \A i : i \in ItemsOf(r)' <=> i \in Item /\ row'[i].state = "present" /\ row'[i].report = r
BY DEF ItemsOf

\* The entries of a content request belong to its report.
LEMMA ContentItems ==
    ASSUME NEW q, RequestOK(q), q.op \in Content \cup {"create"}, NEW i \in DOMAIN q.new \cap Item
    PROVE  \E r \in DOMAIN q.new \cap Report :
             /\ \A e \in DOMAIN q.new \cap Report : e = r
             /\ q.seen[i].state = "present" => q.seen[i].report = r
             /\ q.new[i].state = "present" => q.new[i].report = r
<1>1. ItemPart(q, i)
  BY PartsOf
<1>2. PICK r \in DOMAIN q.new \cap Report : TRUE
  BY <1>1 DEF ItemPart
<1>3. \A e \in DOMAIN q.new \cap Report :
         e \in {q.seen[i].report, q.new[i].report} /\ {q.seen[i].report, q.new[i].report} \subseteq {e, NoReport}
  BY <1>1 DEF ItemPart
<1>4. /\ q.seen[i].state = "present" => q.seen[i].report \in Report
      /\ q.new[i].state = "present" => q.new[i].report \in Report
  BY <1>1 DEF ItemPart
<1>5. NoReport \notin Report
  BY ExpensesAssumption
<1>6. \A e \in DOMAIN q.new \cap Report : e = r
  BY <1>3, <1>5
<1>7. /\ q.seen[i].state = "present" => q.seen[i].report = r
      /\ q.new[i].state = "present" => q.new[i].report = r
  BY <1>3, <1>4, <1>5
<1> QED
  BY <1>2, <1>6, <1>7

\* The entries of r are left as they are.
LEMMA ItemsRest ==
    ASSUME IInv, NEW q, Committed(q), NEW r \in Report,
           r \notin DOMAIN q.new \/ q.op \notin Content \cup {"create"}
    PROVE  /\ ItemsOf(r)' = ItemsOf(r)
           /\ \A i \in ItemsOf(r) : row'[i].amount = row[i].amount
<1>1. RequestOK(q) /\ NoneItem.state = "absent"
  BY DEF Committed, NoneItem
<1>2. ASSUME NEW i \in Item
      PROVE  /\ i \in ItemsOf(r)' <=> i \in ItemsOf(r)
             /\ i \in ItemsOf(r) => row'[i].amount = row[i].amount
  <2>1. CASE Rests(q, i)
    BY <2>1, ItemsAre DEF Rests
  <2>2. ASSUME q.op \in Content \cup {"create"}, i \in DOMAIN q.new
        PROVE  /\ q.seen[i].state = "present" => q.seen[i].report # r
               /\ q.new[i].state = "present" => q.new[i].report # r
    BY <1>1, <2>2, ContentItems
  <2>3. i \in DOMAIN q.new /\ row[i].state = "present" /\ q.seen[i].state = "present" =>
           row[i].report = q.seen[i].report
    BY <1>1 DEF RequestOK, Current
  <2>4. CASE Inserts(q, i)
    BY <2>2, <2>4, ItemsAre DEF Inserts, Content
  <2>5. CASE Deletes(q, i)
    <3>1. i \in DOMAIN q.new /\ q.op = "replace" /\ q.seen[i].state = "present" /\ row'[i].state = "absent"
      BY <1>1, <2>5 DEF Deletes, Deleted, Written
    <3>2. row[i].state = "present" => row[i].report # r
      BY <2>2, <2>3, <3>1 DEF Content
    <3> QED
      BY <3>1, <3>2, ItemsAre
  <2>6. CASE Updates(q, i) /\ q.op = "edit"
    BY <2>2, <2>3, <2>6, ItemsAre DEF Updates, Content
  <2>7. CASE Updates(q, i) /\ q.op # "edit"
    <3>1. q.new[i].amount = q.seen[i].amount
      BY <1>1, <2>7, PartsOf DEF Updates, ItemPart
    <3> QED
      BY <2>7, <3>1, ItemsAre DEF Updates, Column
  <2> QED
    BY <2>1, <2>4, <2>5, <2>6, <2>7, ItemAfter
<1> QED
  BY <1>2, ItemsAre

\* The entries of a report, as finite tables.
LEMMA ItemTables ==
    ASSUME IInv, NEW q, Committed(q)
    PROVE  /\ \A S \in SUBSET Item : IsFiniteSet(S)
           /\ \A i \in Item : /\ row[i].amount \in Nat /\ row'[i].amount \in Nat
                              /\ row[i].state = "absent" => row[i].amount = 0
                              /\ row[i].state = "present" => row[i].amount \in Nat \ {0}
           /\ \A i \in DOMAIN q.new \cap Item :
                 /\ q.seen[i].amount \in Nat /\ q.new[i].amount \in Nat
                 /\ q.seen[i].state = "absent" => q.seen[i].amount = 0
                 /\ q.new[i].state = "absent" => q.new[i].amount = 0
<1>1. \A S \in SUBSET Item : IsFiniteSet(S)
  BY FS_Subset, ExpensesAssumption
<1>2. NoneItem.amount = 0
  BY DEF NoneItem
<1>3. \A i \in DOMAIN q.new \cap Item :
         /\ q.seen[i].amount \in Nat /\ q.new[i].amount \in Nat
         /\ q.seen[i].state = "absent" => q.seen[i].amount = 0
         /\ q.new[i].state = "absent" => q.new[i].amount = 0
  BY <1>2, PartsOf DEF Committed, ItemPart, ItemRow
<1>4. ASSUME NEW i \in Item
      PROVE  /\ row[i].amount \in Nat /\ row'[i].amount \in Nat
             /\ row[i].state = "absent" => row[i].amount = 0
             /\ row[i].state = "present" => row[i].amount \in Nat \ {0}
  <2>1. ItemOK(i) /\ ItemOK(i)' /\ row[i] \in ItemRow /\ row'[i] \in ItemRow
    BY NamesOf, ItemKept DEF ItemOK
  <2> QED
    BY <1>2, <2>1 DEF ItemOK, ItemRow
<1> QED
  BY <1>1, <1>3, <1>4

\* from_txn and create only insert entries.
LEMMA TotalGrows ==
    ASSUME IInv, NEW q, Committed(q), NEW r \in DOMAIN q.new \cap Report,
           q.op \in {"from_txn", "create"}, ~Mixed(r)
    PROVE  row'[r].total = AmountsIn(row', ItemsOf(r)')
<1> DEFINE D == DOMAIN q.new \cap Item
           I == {i \in D : q.seen[i].state = "absent"}
           K == D \ I
           M == ItemsOf(r)
<1>1. /\ RequestOK(q) /\ ReportTyped(q, r) /\ ReportData(q, r)
      /\ q.new[r].total = AmountsIn(q.new, D)
      /\ q.op = "from_txn" => q.seen[r].total = AmountsIn(q.seen, D)
      /\ row[r].total = AmountsIn(row, M)
  BY ReportAfter DEF Committed, RequestOK, ContentRequest, Content, IInv, Entries, Totals
<1>2. /\ M \subseteq Item /\ I \subseteq D /\ D \subseteq Item
      /\ IsFiniteSet(D) /\ IsFiniteSet(I) /\ IsFiniteSet(K) /\ IsFiniteSet(M) /\ IsFiniteSet(M \cup I)
  <2>1. M \subseteq Item /\ I \subseteq D /\ D \subseteq Item /\ K \subseteq Item /\ M \cup I \subseteq Item
    BY ItemNames
  <2> HIDE DEF D, I, K, M
  <2> QED
    BY <2>1, ItemTables
<1>3. ASSUME NEW i \in I PROVE Inserts(q, i) /\ q.new[i].report = r
  <2>1. ItemPart(q, i) /\ i \in Item /\ i \in DOMAIN q.new /\ q.seen[i].state = "absent"
    BY <1>1, PartsOf
  <2>2. i \in Written(q)
    BY <2>1 DEF ItemPart, Written
  <2>3. Inserts(q, i)
    BY <2>1, <2>2, ItemAfter DEF Rests, Deletes, Updates
  <2> QED
    BY <1>1, <2>1, <2>3, ContentItems DEF Inserts, Content
<1>4. ASSUME NEW i \in Item, i \notin I PROVE Rests(q, i)
  <2>1. ~Inserts(q, i)
    BY <1>4 DEF Inserts
  <2> QED
    BY <2>1, ItemAfter DEF Deletes, Updates
<1>5. ItemsOf(r)' = M \cup I
  <2>1. ASSUME NEW i PROVE i \in ItemsOf(r)' <=> i \in M \/ i \in I
    <3>1. CASE i \in I
      BY <1>2, <1>3, <3>1, ItemsAre DEF Inserts
    <3>2. CASE i \notin I
      BY <1>2, <1>4, <3>2, ItemsAre DEF Rests
    <3> QED
      BY <3>1, <3>2
  <2> QED
    BY <2>1
<1>6. M \cap I = {}
  BY <1>3, ItemsAre DEF Inserts
<1>7. \A i \in K : q.new[i] = q.seen[i]
  BY <1>2, <1>4 DEF Rests, Written
<1>8. q.op = "create" => K = {}
  BY <1>1, PartsOf DEF ItemPart
<1>9. AmountsIn(q.new, D) = AmountsIn(q.new, I) + AmountsIn(q.seen, K)
  <2>1. \A i \in D : q.new[i].amount \in Int
    BY ItemTables
  <2>2. \A i \in K : q.new[i].amount = q.seen[i].amount
    BY <1>7
  <2>3. I \in SUBSET D /\ K = D \ I
    OBVIOUS
  <2> HIDE DEF D, I, K
  <2>4. AmountsIn(q.new, D) = AmountsIn(q.new, I) + AmountsIn(q.new, K)
    BY <1>2, <2>1, <2>3, AmountsSplit
  <2>5. AmountsIn(q.new, K) = AmountsIn(q.seen, K)
    BY <1>2, <2>2, AmountsSame
  <2> QED
    BY <2>4, <2>5
<1>10. q.op = "from_txn" => AmountsIn(q.seen, D) = AmountsIn(q.seen, K)
  <2>1. \A i \in D : q.seen[i].amount \in Int
    BY ItemTables
  <2>2. \A i \in D \ K : q.seen[i].amount = 0
    BY ItemTables
  <2>3. K \in SUBSET D
    OBVIOUS
  <2> HIDE DEF D, I, K
  <2> QED
    BY <1>2, <2>1, <2>2, <2>3, AmountsWithout
<1>11. AmountsIn(q.seen, K) = row[r].total
  <2>1. CASE q.op = "from_txn"
    <3>1. row[r] = q.seen[r]
      BY <1>1, <2>1, OperationOf, PartsOf DEF ReportPart
    <3> QED
      BY <1>1, <1>10, <2>1, <3>1
  <2>2. CASE q.op = "create"
    BY <1>1, <1>8, <2>2, NoneReportIs, AmountsEmpty DEF ReportTyped
  <2> QED
    BY <2>1, <2>2
<1>12. row'[r].total = q.new[r].total
  <2>1. CASE q.op = "from_txn"
    <3>1. row[r] = q.seen[r]
      BY <1>1, <2>1, OperationOf, PartsOf DEF ReportPart
    <3> QED
      BY <1>1, <2>1, <3>1 DEF ReportData, Content, Column
  <2>2. CASE q.op = "create"
    BY <1>1, <2>2 DEF ReportTyped
  <2> QED
    BY <2>1, <2>2
<1>13. AmountsIn(row', M \cup I) = AmountsIn(row, M) + AmountsIn(q.new, I)
  <2>1. /\ \A i \in M \cup I : row'[i].amount \in Int
        /\ \A i \in M : row'[i].amount = row[i].amount
        /\ \A i \in I : row'[i].amount = q.new[i].amount
    BY <1>2, <1>3, <1>4, <1>6, ItemTables DEF Inserts, Rests
  <2>2. M \in SUBSET (M \cup I) /\ (M \cup I) \ M = I
    BY <1>6
  <2> DEFINE T == M \cup I
             now == row'
  <2>3. IsFiniteSet(T) /\ M \in SUBSET T /\ T \ M = I /\ \A i \in T : now[i].amount \in Int
    BY <1>2, <2>1, <2>2
  <2>4. (\A i \in M : now[i].amount = row[i].amount) /\ \A i \in I : now[i].amount = q.new[i].amount
    BY <2>1
  <2> HIDE DEF D, I, M, T, now
  <2>5. AmountsIn(now, T) = AmountsIn(now, M) + AmountsIn(now, I)
    BY <2>3, AmountsSplit
  <2>6. AmountsIn(now, M) = AmountsIn(row, M) /\ AmountsIn(now, I) = AmountsIn(q.new, I)
    BY <1>2, <2>4, AmountsSame
  <2> QED
    BY <2>5, <2>6 DEF T, now
<1>14. AmountsIn(row, M) \in Int /\ AmountsIn(q.new, I) \in Int
  <2>1. (\A i \in M : row[i].amount \in Int) /\ \A i \in I : q.new[i].amount \in Int
    BY <1>2, ItemTables
  <2> HIDE DEF D, I, M
  <2> QED
    BY <1>2, <2>1, AmountsInt
<1>15. row'[r].total = AmountsIn(row', M \cup I)
  BY <1>1, <1>9, <1>11, <1>12, <1>13, <1>14
<1> HIDE DEF D, I, K, M
<1> QED
  BY <1>5, <1>15
\* add, edit and replace write the entries they loaded: when those are still the
\* rows, the total they compute is that of every entry of the report.
CurrentContent(q, r) ==
    /\ r \in DOMAIN q.new \cap Report /\ q.op \in {"add", "edit", "replace"}
    /\ row[r] = q.seen[r]
    /\ \A i \in DOMAIN q.new \cap Item : row[i] = q.seen[i]

LEMMA ContentIsCurrent ==
    ASSUME IInv, NEW q, Committed(q), History(q), NEW r \in DOMAIN q.new \cap Report,
           q.op \in {"add", "edit", "replace"}, ~Mixed(r)'
    PROVE  CurrentContent(q, r)
<1>1. RequestOK(q) /\ Unraced({"add", "edit", "replace"}, r)'
  BY DEF Committed, Mixed
<1>2. row[r] = q.seen[r]
  BY <1>1, NowRaced
<1>3. ASSUME NEW i \in DOMAIN q.new \cap Item PROVE row[i] = q.seen[i]
  <2>1. ItemPart(q, i) /\ q.seen[i].state \in {"absent", "present"} /\ q.seen[i].report = q.seen[i].report
    BY <1>1, PartsOf DEF ItemPart, ItemRow
  <2>2. CASE q.seen[i].state = "absent"
    <3>1. row[i].state = "absent" /\ q.seen[i] = NoneItem
      BY <1>1, <1>3, <2>1, <2>2, TableNames DEF RequestOK, Current, ItemPart
    <3> QED
      BY <3>1, NamesOf DEF ItemOK
  <2>3. CASE q.seen[i].state = "present"
    <3>1. q.seen[i].report = r
      BY <1>1, <2>3, ContentItems DEF Content
    <3>2. Of(q, i) = r
      BY <3>1 DEF Of
    <3> QED
      BY <1>1, <3>2 DEF History, Unraced
  <2> QED
    BY <2>1, <2>2, <2>3
<1> QED
  BY <1>2, <1>3 DEF CurrentContent

LEMMA CurrentItem ==
    ASSUME IInv, NEW q, Committed(q), NEW i \in DOMAIN q.new \cap Item, row[i] = q.seen[i]
    PROVE  row'[i] = q.new[i]
<1>1. ItemPart(q, i) /\ row'[i] = Flush(q, i) /\ i \notin Step
  BY PartsOf, TableNames DEF Committed
<1>2. Flush(q, i) = IF Whole(q, i) THEN q.new[i] ELSE Merge(q.seen[i], q.seen[i], q.new[i])
  BY <1>1, FlushIs
<1>3. Merge(q.seen[i], q.seen[i], q.new[i]) = q.new[i]
  BY <1>1, MergeCurrent DEF ItemPart
<1> QED
  BY <1>1, <1>2, <1>3

LEMMA TotalRebuilt ==
    ASSUME IInv, NEW q, Committed(q), History(q), NEW r \in DOMAIN q.new \cap Report,
           q.op \in {"add", "edit", "replace"}, ~Mixed(r)'
    PROVE  row'[r].total = AmountsIn(row', ItemsOf(r)')
<1> DEFINE D == DOMAIN q.new \cap Item
           M == ItemsOf(r)
           K == {i \in D : row[i].state = "present"}
           N == {i \in D : q.new[i].state = "present"}
<1>0. ~Mixed(r)
  BY OldRaced DEF Mixed
<1>1. /\ RequestOK(q) /\ ReportData(q, r) /\ CurrentContent(q, r)
      /\ q.new[r].total = AmountsIn(q.new, D)
      /\ q.seen[r].total = AmountsIn(q.seen, D)
      /\ row[r].total = AmountsIn(row, M)
  BY <1>0, ReportAfter, ContentIsCurrent DEF Committed, RequestOK, ContentRequest, Content, IInv, Entries, Totals
<1>2. row'[r].total = q.new[r].total /\ row[r].total = q.seen[r].total
  BY <1>1 DEF ReportData, CurrentContent, Content, Column
<1>3. /\ M \subseteq Item /\ D \subseteq Item /\ K \subseteq D /\ N \subseteq D
      /\ IsFiniteSet(D) /\ IsFiniteSet(K) /\ IsFiniteSet(M) /\ IsFiniteSet(N)
  <2>1. M \subseteq Item /\ D \subseteq Item /\ K \subseteq D /\ N \subseteq D
    BY ItemNames
  <2> HIDE DEF D, K, M, N
  <2>2. K \subseteq Item /\ N \subseteq Item
    BY <2>1
  <2> QED
    BY <2>1, <2>2, ItemTables
<1>4. ASSUME NEW i \in D
      PROVE  /\ row[i] = q.seen[i] /\ row'[i] = q.new[i]
             /\ row[i].state = "present" => row[i].report = r
             /\ q.new[i].state = "present" => q.new[i].report = r
  <2>1. row[i] = q.seen[i]
    BY <1>1 DEF CurrentContent
  <2> QED
    BY <1>1, <2>1, CurrentItem, ContentItems DEF Content
<1>5. K \subseteq M
  BY <1>4, ItemsAre
<1>6. K = M
  <2>1. /\ \A i \in D : row[i].amount \in Int /\ row[i].amount = q.seen[i].amount
        /\ \A i \in D \ K : row[i].amount = 0
        /\ \A i \in M : row[i].amount \in Nat \ {0}
    <3>1. \A i \in D \ K : row[i].state = "absent"
      BY NamesOf DEF ItemRow
    <3>2. \A i \in M : row[i].state = "present" /\ i \in Item
      BY ItemsAre
    <3> QED
      BY <1>4, <3>1, <3>2, ItemTables
  <2> HIDE DEF D, K, M, N
  <2>2. AmountsIn(row, D) = AmountsIn(q.seen, D)
    BY <1>3, <2>1, AmountsSame
  <2>3. AmountsIn(row, D) = AmountsIn(row, K)
    BY <1>3, <2>1, AmountsWithout
  <2>4. AmountsIn(row, K) = AmountsIn(row, M)
    BY <1>1, <1>2, <2>2, <2>3
  <2> QED
    BY <1>3, <1>5, <2>1, <2>4, AmountsWhole
<1>7. ItemsOf(r)' = N
  <2>1. ASSUME NEW i \in Item PROVE i \in ItemsOf(r)' <=> i \in N
    <3>1. CASE i \in D
      BY <1>4, <3>1, ItemsAre
    <3>2. CASE i \notin D
      <4>1. row'[i] = row[i]
        BY <3>2, OtherRow, TableNames DEF Tables
      <4>2. i \notin M
        BY <1>6, <3>2
      <4> QED
        BY <3>2, <4>1, <4>2, ItemsAre
    <3> QED
      BY <3>1, <3>2
  <2> QED
    BY <2>1, ItemsAre
<1>8. AmountsIn(row', N) = AmountsIn(q.new, D)
  <2>1. /\ \A i \in D : q.new[i].amount \in Int
        /\ \A i \in D \ N : q.new[i].amount = 0
        /\ \A i \in N : row'[i].amount = q.new[i].amount
    <3>1. \A i \in D \ N : q.new[i].state = "absent"
      BY <1>1, PartsOf DEF ItemPart, ItemRow
    <3> QED
      BY <1>4, <3>1, ItemTables
  <2> DEFINE now == row'
  <2>2. \A i \in N : now[i].amount = q.new[i].amount
    BY <2>1
  <2> HIDE DEF D, K, M, N, now
  <2>3. AmountsIn(q.new, D) = AmountsIn(q.new, N)
    BY <1>3, <2>1, AmountsWithout
  <2>4. AmountsIn(now, N) = AmountsIn(q.new, N)
    BY <1>3, <2>2, AmountsSame
  <2> QED
    BY <2>3, <2>4 DEF now
<1> HIDE DEF D, K, M, N
<1> QED
  BY <1>1, <1>2, <1>7, <1>8

LEMMA TotalKept ==
    ASSUME IInv, NEW q, Committed(q), History(q), NEW r \in Report, ~Mixed(r)'
    PROVE  row'[r].total = AmountsIn(row', ItemsOf(r)')
<1>0. ~Mixed(r)
  BY OldRaced DEF Mixed
<1>1. CASE r \in DOMAIN q.new /\ q.op \in {"add", "edit", "replace"}
  BY <1>1, TotalRebuilt
<1>2. CASE r \in DOMAIN q.new /\ q.op \in {"from_txn", "create"}
  BY <1>0, <1>2, TotalGrows
<1>3. CASE r \notin DOMAIN q.new \/ q.op \notin Content \cup {"create"}
  <2>1. row[r].total = AmountsIn(row, ItemsOf(r))
    BY <1>0 DEF IInv, Entries, Totals
  <2>2. row'[r].total = row[r].total
    BY ZenonT(60), <1>3, ReportStays, ReportAfter DEF ReportData
  <2>3. ItemsOf(r)' = ItemsOf(r) /\ \A i \in ItemsOf(r) : row'[i].amount = row[i].amount
    BY <1>3, ItemsRest
  <2>4. IsFiniteSet(ItemsOf(r))
    BY ItemNames, ItemTables
  <2> DEFINE M == ItemsOf(r)
             now == row'
  <2>5. IsFiniteSet(M) /\ \A i \in M : now[i].amount = row[i].amount
    BY <2>3, <2>4
  <2> HIDE DEF M, now
  <2>6. AmountsIn(now, M) = AmountsIn(row, M)
    BY <2>5, AmountsSame
  <2> QED
    BY <2>1, <2>2, <2>3, <2>6 DEF M, now
<1> QED
  BY <1>1, <1>2, <1>3 DEF Content

LEMMA ClaimsKept ==
    ASSUME IInv, NEW q, Committed(q), History(q)
    PROVE  OneEntryPerTransaction' /\ Totals'
<1>1. OneEntryPerTransaction'
  BY ClaimAfter DEF OneEntryPerTransaction, Assigned
<1>2. Totals'
  BY TotalKept DEF Totals
<1> QED
  BY <1>1, <1>2

LEMMA ContentKept ==
    ASSUME IInv, NEW q, Committed(q), History(q), NEW p, Beside(p, q)
    PROVE  ContentRequest(p)'
<1>1. ContentRequest(p)
  BY DEF Beside, RequestOK
<1>2. \A r : Mixed(r) => Mixed(r)'
  BY OldRaced DEF Mixed
<1> QED
  BY <1>1, <1>2 DEF ContentRequest

LEMMA UnmatchKept ==
    ASSUME IInv, NEW q, Committed(q), NEW p, Beside(p, q)
    PROVE  UnmatchRequest(p)'
<1>1. RequestOK(p) /\ RequestOK(q) /\ Apart(p, q) /\ Apart(q, p)
  BY DEF Beside, Committed
<1> SUFFICES ASSUME p.op = "unmatch", NEW i \in DOMAIN p.new \cap Item, row'[i].state = "present"
             PROVE  row'[i].ref = p.seen[i].ref
  BY DEF UnmatchRequest
<1>2. row[i].state = "present" => row[i].ref = p.seen[i].ref
  BY <1>1 DEF RequestOK, UnmatchRequest
<1>3. CASE Rests(q, i)
  BY <1>2, <1>3 DEF Rests
<1>4. ~Inserts(q, i)
  BY <1>1, TableNames DEF Inserts, Apart
<1>5. ~Deletes(q, i)
  BY DEF Deletes, NoneItem
<1>6. CASE Updates(q, i) /\ q.op = "edit"
  BY <1>1, <1>2, <1>6, PartsOf DEF Updates, Column, ItemPart
<1>7. CASE Updates(q, i) /\ q.op # "edit"
  <2>1. ItemPart(p, i) /\ ItemPart(q, i)
    BY <1>1, <1>7, PartsOf DEF Updates
  <2>2. p.seen[i].report \in p.locks /\ q.seen[i].report \in q.locks
    BY <1>7, <2>1 DEF ItemPart, Updates
  <2>3. p.seen[i].state = "present"
    BY <2>1 DEF ItemPart, ItemRow
  <2>4. row[i].report = p.seen[i].report /\ row[i].report = q.seen[i].report
    BY <1>1, <1>7, <2>3 DEF RequestOK, Current, Updates
  <2> QED
    BY <1>1, <2>2, <2>4 DEF Apart
<1> QED
  BY <1>3, <1>4, <1>5, <1>6, <1>7, ItemAfter
----------------------------------------------------------------------------
(* Commit keeps batches and payments consistent.                           *)

\* A batch is opened, paid or cancelled by the request that knows it.
Moves(q, b) ==
    \/ row'[b].state = row[b].state
    \/ /\ b \in DOMAIN q.new
       /\ \/ q.op = "batch" /\ row[b].state = "absent" /\ row'[b].state = "open"
          \/ q.op = "pay" /\ row[b].state = "open" /\ row'[b].state = "paid"
          \/ q.op = "cancel" /\ row[b].state = "open" /\ row'[b].state = "cancelled"

LEMMA BatchMoves ==
    ASSUME IInv, NEW q, Committed(q), NEW b \in Batch
    PROVE  Moves(q, b)
<1>1. CASE b \in DOMAIN q.new
  <2>1. BatchPart(q, b) /\ row'[b] = q.new[b] /\ row[b].state = q.seen[b].state
    BY <1>1, BatchAfter, PartsOf DEF Committed
  <2> QED
    BY <1>1, <2>1 DEF BatchPart, Moves
<1>2. CASE b \notin DOMAIN q.new
  BY <1>2, BatchAfter DEF Moves
<1> QED
  BY <1>1, <1>2

\* The report of a payment or a cancellation is in its batch, which is open.
LEMMA InOpenBatch ==
    ASSUME IInv, NEW q, Committed(q), NEW r \in DOMAIN q.new \cap Report,
           q.op \in {"pay", "cancel"}, ~Doubled(r)
    PROVE  /\ row[r].batch = q.seen[r].batch /\ row[r].batch \in Batch \cap DOMAIN q.new
           /\ row[row[r].batch].state = "open"
<1>1. RequestOK(q) /\ ReportPart(q, r)
  BY OperationOf DEF Committed
<1>2. row[r].batch = q.seen[r].batch /\ row[r].batch \in Batch \cap DOMAIN q.new
  BY <1>1 DEF RequestOK, BatchRequest, ReportPart
<1>3. PICK b \in Batch \cap DOMAIN q.new : b = row[r].batch
  BY <1>2
<1>4. BatchPart(q, b) /\ row[b].state = q.seen[b].state
  BY <1>1, BatchAfter, PartsOf
<1>5. row[b].state = "open"
  BY <1>4 DEF BatchPart
<1> QED
  BY <1>2, <1>3, <1>5

\* The batch of a report changes when it joins one, or when its own is cancelled.
LEMMA BatchOf ==
    ASSUME IInv, NEW q, Committed(q), History(q), NEW r \in Report
    PROVE  \/ row'[r].batch = row[r].batch
                /\ (r \notin DOMAIN q.new \/ q.op \notin {"batch", "cancel"})
           \/ /\ r \in DOMAIN q.new /\ q.op = "batch" /\ row'[r].batch \in Batch \cap DOMAIN q.new
              /\ ~Doubled(r)' => row[r].batch = NoBatch
           \/ r \in DOMAIN q.new /\ q.op = "cancel" /\ row'[r].batch = NoBatch
<1>1. CASE r \notin DOMAIN q.new
  BY <1>1, ReportStays
<1>2. CASE r \in DOMAIN q.new
  <2>1. ReportData(q, r) /\ ReportGuard(q.op, q.seen[r])
    BY <1>2, ReportAfter, OperationOf DEF Committed
  <2>2. ASSUME q.op = "batch", ~Doubled(r)' PROVE row[r].batch = NoBatch
    <3>1. row[r] = q.seen[r]
      BY <1>2, <2>2, NowRaced DEF Doubled
    <3> QED
      BY <2>1, <2>2, <3>1 DEF ReportGuard
  <2> QED
    BY <1>2, <2>1, <2>2 DEF ReportData
<1> QED
  BY <1>1, <1>2

LEMMA RacesOf ==
    ASSUME NEW q, History(q), NEW r
    PROVE  /\ ~Recalled(r)' => ~Recalled(r)
           /\ ~Doubled(r)' => ~Doubled(r)
           /\ Unraced({"delete", "submit", "withdraw"}, r)' => Unraced({"delete", "submit", "withdraw"}, r) /\ ~Recalled(r)'
           /\ Unraced({"add", "edit", "replace", "submit", "withdraw"}, r)' =>
                 Unraced({"add", "edit", "replace", "submit", "withdraw"}, r) /\ ~Recalled(r)'
BY DEF Recalled, Doubled, Unraced, History

LEMMA BatchStays ==
    ASSUME IInv, NEW q, Committed(q), History(q), NEW r \in Report, row'[r].batch # NoBatch
    PROVE  /\ row'[row'[r].batch].state # "absent"
           /\ Unraced({"delete", "submit", "withdraw"}, r)' =>
                 row'[row'[r].batch].state \in {"open", "paid"} /\ ~row'[r].binned
<1>1. /\ Batched(r) /\ Chained(r) /\ row'[r] \in ReportRow /\ RequestOK(q)
      /\ Unraced({"delete", "submit", "withdraw"}, r)' => Unraced({"delete", "submit", "withdraw"}, r) /\ ~Recalled(r)
  BY RacesOf, ReportStays DEF IInv, BatchesInv, Chains, Committed
<1>2. PICK b : b = row'[r].batch
  OBVIOUS
<1>3. b \in Batch /\ Moves(q, b)
  BY <1>1, <1>2, BatchMoves DEF ReportRow
<1>4. CASE row[r].batch = b /\ (r \notin DOMAIN q.new \/ q.op \notin {"batch", "cancel"})
  <2>1. row[b].state # "absent"
    BY <1>1, <1>2, <1>4 DEF Batched
  <2>2. row'[b].state # "absent"
    BY <1>3, <2>1 DEF Moves
  <2>3. ASSUME Unraced({"delete", "submit", "withdraw"}, r)'
        PROVE  row'[b].state \in {"open", "paid"} /\ ~row'[r].binned
    <3>1. row[b].state \in {"open", "paid"} /\ ~row[r].binned /\ row[r].state \in Payables
      BY <1>1, <1>2, <1>4, <2>3 DEF Batched, Chained
    <3>2. ~(q.op = "cancel" /\ b \in DOMAIN q.new)
      BY <1>1, <1>3, <1>4, <2>3 DEF RequestOK, BatchRequest
    <3>3. row'[b].state \in {"open", "paid"}
      BY <1>3, <3>1, <3>2 DEF Moves
    <3>4. ~(r \in DOMAIN q.new /\ q.op = "delete")
      <4> SUFFICES ASSUME r \in DOMAIN q.new, q.op = "delete" PROVE FALSE
        OBVIOUS
      <4>1. row[r] = q.seen[r] /\ ReportGuard(q.op, q.seen[r])
        BY <1>1, <2>3, NowRaced, OperationOf
      <4> QED
        BY <3>1, <4>1 DEF ReportGuard, Payables, Payable
    <3>5. row'[r].binned = row[r].binned
      <4>1. CASE r \in DOMAIN q.new
        BY <3>4, <4>1, ReportAfter DEF ReportData
      <4>2. CASE r \notin DOMAIN q.new
        BY <4>2, ReportStays
      <4> QED
        BY <4>1, <4>2
    <3> QED
      BY <3>1, <3>3, <3>5
  <2> QED
    BY <1>2, <2>2, <2>3
<1>5. CASE r \in DOMAIN q.new /\ q.op = "batch" /\ b \in DOMAIN q.new
  <2>1. row'[b].state = "open"
    BY <1>1, <1>3, <1>5, BatchAfter, PartsOf DEF BatchPart
  <2>2. row'[r].binned = row[r].binned
    BY <1>5, ReportAfter DEF ReportData
  <2>3. ASSUME Unraced({"delete", "submit", "withdraw"}, r)' PROVE ~row[r].binned
    <3>1. row[r].state \in Payables
      BY <1>1, <1>5, <2>3, StatusIs DEF StatusBefore
    <3> QED
      BY <1>1, <2>3, <3>1 DEF Batched, Payables, Payable
  <2> QED
    BY <1>2, <2>1, <2>2, <2>3
<1> QED
  BY <1>2, <1>4, <1>5, BatchOf

LEMMA BinStays ==
    ASSUME IInv, NEW q, Committed(q), History(q), NEW r \in Report,
           row'[r].binned, Unraced({"delete", "submit", "withdraw"}, r)'
    PROVE  row'[r].state \in {"draft", "submitted"}
<1>1. Batched(r) /\ RequestOK(q) /\ Unraced({"delete", "submit", "withdraw"}, r) /\ ~Recalled(r)
  BY RacesOf DEF IInv, BatchesInv, Committed
<1>2. CASE r \notin DOMAIN q.new
  BY <1>1, <1>2, ReportStays DEF Batched
<1>3. CASE r \in DOMAIN q.new
  <2>1. /\ ReportTyped(q, r) /\ ReportData(q, r) /\ ReportStatus(q, r) /\ StatusBefore(q, r)
        /\ ReportGuard(q.op, q.seen[r])
        /\ q.op \in {"add", "edit", "replace", "from_txn", "decide", "mark", "reimburse",
                     "create", "delete", "submit", "withdraw", "batch", "pay", "cancel"}
    BY <1>1, <1>3, ReportAfter, StatusIs, OperationOf
  <2>2. CASE q.op = "delete"
    <3>1. row[r] = q.seen[r]
      BY <1>3, <2>2, NowRaced
    <3> QED
      BY <2>1, <2>2, <3>1 DEF ReportGuard, ReportStatus
  <2>3. CASE q.op # "delete"
    <3>1. row[r].binned
      BY <2>1, <2>3 DEF ReportData
    <3>2. row[r].state \in {"draft", "submitted"}
      BY <1>1, <3>1 DEF Batched
    <3>3. q.op \notin Decisions
      BY <2>1, <2>3, <3>1 DEF ReportStatus, ReportGuard, Decisions
    <3>4. q.op \notin {"batch", "pay"}
      BY <1>1, <2>1, <3>2 DEF StatusBefore, Payables, Payable
    <3> QED
      BY <2>1, <2>3, <3>2, <3>3, <3>4 DEF ReportStatus, Content, Decisions
  <2> QED
    BY <2>2, <2>3
<1> QED
  BY <1>2, <1>3

\* The payment a commit appends.
PaysReport(q, r) == q.op = "pay" /\ r \in DOMAIN q.new

PaymentOf(q, r) == [batch |-> q.seen[r].batch, eur |-> q.seen[r].eur]

LEMMA AppendIs ==
    ASSUME NEW T, NEW u \in Seq(T), NEW e
    PROVE  /\ u = <<>> => Len(Append(u, e)) = 1 /\ Append(u, e)[1] = e
           /\ \A k \in DOMAIN Append(u, e) :
                 \/ k \in DOMAIN u /\ Append(u, e)[k] = u[k] /\ u # <<>>
                 \/ Append(u, e)[k] = e
<1>1. /\ Len(u) \in Nat /\ DOMAIN u = 1 .. Len(u) /\ (u = <<>> <=> Len(u) = 0)
  BY SMT
<1>2. /\ Len(Append(u, e)) = Len(u) + 1 /\ DOMAIN Append(u, e) = 1 .. Len(u) + 1
      /\ \A k \in 1 .. Len(u) : Append(u, e)[k] = u[k]
      /\ Append(u, e)[Len(u) + 1] = e
  BY SMT
<1>3. u = <<>> => Len(Append(u, e)) = 1 /\ Append(u, e)[1] = e
  BY <1>1, <1>2
<1>4. ASSUME NEW k \in DOMAIN Append(u, e)
      PROVE  \/ k \in DOMAIN u /\ Append(u, e)[k] = u[k] /\ u # <<>>
             \/ Append(u, e)[k] = e
  BY <1>1, <1>2, <1>4
<1> QED
  BY <1>3, <1>4

LEMMA FirstIn ==
    ASSUME NEW T, NEW u \in Seq(T), Len(u) = 1
    PROVE  u[1] \in T
OBVIOUS

LEMMA PaymentsAre ==
    ASSUME IInv, NEW q, History(q), NEW r \in Report
    PROVE  /\ payouts[r] \in Seq([batch : Batch, eur : Nat \ {0}])
           /\ PaysReport(q, r) => payouts'[r] = Append(payouts[r], PaymentOf(q, r))
           /\ ~PaysReport(q, r) => payouts'[r] = payouts[r]
           /\ PaymentOf(q, r).batch = q.seen[r].batch /\ PaymentOf(q, r).eur = q.seen[r].eur
BY DEF IInv, RowsSound, Paid, History, PaysReport, PaymentOf

LEMMA PaymentStays ==
    ASSUME IInv, NEW q, Committed(q), History(q), NEW r \in Report, ~Doubled(r)', payouts'[r] # <<>>
    PROVE  /\ Len(payouts'[r]) = 1 /\ row'[r].batch = payouts'[r][1].batch
           /\ row'[row'[r].batch].state = "paid"
<1>1. Batched(r) /\ RequestOK(q) /\ ~Doubled(r)
  BY RacesOf DEF IInv, BatchesInv, Committed
<1>2. CASE PaysReport(q, r)
  <2>1. r \in DOMAIN q.new /\ q.op = "pay"
    BY <1>2 DEF PaysReport
  <2>2. PICK b : b = row[r].batch
    OBVIOUS
  <2>3. b = q.seen[r].batch /\ b \in Batch \cap DOMAIN q.new /\ row[b].state = "open"
    BY <1>1, <2>1, <2>2, InOpenBatch
  <2>4. payouts[r] = <<>>
    BY <1>1, <2>2, <2>3 DEF Batched
  <2>5. Len(payouts'[r]) = 1 /\ payouts'[r][1].batch = b
    <3>1. PICK e : e = PaymentOf(q, r)
      OBVIOUS
    <3>2. PICK u \in Seq([batch : Batch, eur : Nat \ {0}]) : u = payouts[r]
      BY PaymentsAre
    <3>3. Len(Append(u, e)) = 1 /\ Append(u, e)[1] = e
      BY <2>4, <3>2, AppendIs
    <3>4. payouts'[r] = Append(u, e) /\ e.batch = b
      BY <1>2, <2>3, <3>1, <3>2, PaymentsAre
    <3> QED
      BY <3>3, <3>4
  <2>6. row'[r].batch = b
    BY <2>1, <2>2, ReportAfter DEF ReportData
  <2>7. row'[b].state = "paid"
    BY <1>1, <2>1, <2>3, BatchAfter, PartsOf DEF BatchPart
  <2> QED
    BY <2>5, <2>6, <2>7
<1>3. CASE ~PaysReport(q, r)
  <2>1. payouts'[r] = payouts[r] /\ payouts[r] # <<>>
    BY <1>3, PaymentsAre
  <2>2. PICK b : b = row[r].batch
    OBVIOUS
  <2>3. Len(payouts[r]) = 1 /\ b = payouts[r][1].batch /\ row[b].state = "paid"
    BY <1>1, <2>1, <2>2 DEF Batched
  <2>4. b \in Batch
    <3>1. PICK u \in Seq([batch : Batch, eur : Nat \ {0}]) : u = payouts[r]
      BY PaymentsAre
    <3>2. u[1] \in [batch : Batch, eur : Nat \ {0}]
      BY <2>3, <3>1, FirstIn
    <3> QED
      BY <2>3, <3>1, <3>2
  <2>5. row'[b].state = "paid"
    BY <2>3, <2>4, BatchMoves DEF Moves
  <2>6. ~(r \in DOMAIN q.new /\ q.op = "cancel")
    BY <1>1, <2>2, <2>3, InOpenBatch
  <2>7. row'[r].batch = b
    BY <2>2, <2>4, <2>6, BatchOf, ExpensesAssumption
  <2> QED
    BY <2>1, <2>3, <2>5, <2>7
<1> QED
  BY <1>2, <1>3

LEMMA ReimbursedStays ==
    ASSUME IInv, NEW q, Committed(q), History(q), NEW r \in Report, ~Recalled(r)', payouts'[r] # <<>>
    PROVE  row'[r].state = "reimbursed"
<1>1. Batched(r) /\ ~Recalled(r)
  BY RacesOf DEF IInv, BatchesInv
<1>2. CASE PaysReport(q, r)
  BY <1>1, <1>2, StatusIs DEF PaysReport, StatusBefore
<1>3. CASE ~PaysReport(q, r)
  <2>1. row[r].state = "reimbursed"
    BY <1>1, <1>3, PaymentsAre DEF Batched
  <2> QED
    BY <2>1, PayableStays DEF Payables
<1> QED
  BY <1>2, <1>3

LEMMA AmountStays ==
    ASSUME IInv, NEW q, Committed(q), History(q), NEW r \in Report,
           Unraced({"add", "edit", "replace", "submit", "withdraw"}, r)'
    PROVE  /\ row'[r].state \notin Editable \cup {"absent"} => row'[r].eur = row'[r].total
           /\ \A k \in DOMAIN payouts'[r] : payouts'[r][k].eur = row'[r].total
<1>1. /\ Batched(r) /\ RequestOK(q) /\ ~Recalled(r)
      /\ Unraced({"add", "edit", "replace", "submit", "withdraw"}, r)
  BY RacesOf DEF IInv, BatchesInv, Committed
<1>2. /\ row[r].state \notin Editable \cup {"absent"} => row[r].eur = row[r].total
      /\ \A k \in DOMAIN payouts[r] : payouts[r][k].eur = row[r].total
      /\ payouts[r] # <<>> => row[r].state = "reimbursed"
  BY <1>1 DEF Batched
<1>3. CASE r \notin DOMAIN q.new
  BY <1>2, <1>3, ReportStays, PaymentsAre DEF PaysReport
<1>4. CASE r \in DOMAIN q.new
  <2>1. /\ ReportTyped(q, r) /\ ReportData(q, r) /\ ReportStatus(q, r) /\ StatusBefore(q, r)
        /\ ReportGuard(q.op, q.seen[r])
        /\ q.op \in {"add", "edit", "replace", "from_txn", "decide", "mark", "reimburse",
                     "create", "delete", "submit", "withdraw", "batch", "pay", "cancel"}
    BY <1>1, <1>4, ReportAfter, StatusIs, OperationOf
  <2>2. CASE q.op \in Content
    <3>1. row[r] = q.seen[r]
      <4>1. CASE q.op = "from_txn"
        BY <1>1, <1>4, <4>1, OperationOf, PartsOf DEF ReportPart
      <4>2. CASE q.op # "from_txn"
        BY <1>4, <2>2, <4>2, NowRaced DEF Content
      <4> QED
        BY <4>1, <4>2
    <3>2. row[r].state \in Editable /\ row'[r].state = row[r].state
      BY <2>1, <2>2, <3>1 DEF ReportGuard, ReportStatus
    <3>3. payouts[r] = <<>> /\ payouts'[r] = payouts[r]
      BY <1>2, <2>2, <3>2, PaymentsAre DEF Editable, PaysReport, Content
    <3> QED
      BY <3>2, <3>3
  <2>3. CASE q.op = "create"
    <3>1. row[r].state = "absent" /\ row'[r].state = "draft"
      BY <2>1, <2>3 DEF StatusBefore, ReportStatus
    <3>2. payouts[r] = <<>> /\ payouts'[r] = payouts[r]
      BY <1>2, <2>3, <3>1, PaymentsAre DEF PaysReport
    <3> QED
      BY <3>1, <3>2 DEF Editable
  <2>4. CASE q.op = "submit"
    <3>1. row[r] = q.seen[r]
      BY <1>4, <2>4, NowRaced
    <3>2. row'[r].eur = row[r].total /\ row'[r].total = row[r].total
      BY <2>1, <2>4, <3>1 DEF ReportData, Column, Content
    <3>3. payouts'[r] = payouts[r]
      BY <2>4, PaymentsAre DEF PaysReport
    <3> QED
      BY <1>2, <3>2, <3>3
  <2>5. CASE q.op \in {"withdraw", "delete", "batch", "cancel", "decide", "mark", "reimburse"}
    <3>1. row'[r].eur = row[r].eur /\ row'[r].total = row[r].total
      BY <2>1, <2>5 DEF ReportData, Content
    <3>2. payouts'[r] = payouts[r]
      BY <2>5, PaymentsAre DEF PaysReport
    <3>3. CASE q.op = "withdraw"
      BY <1>2, <2>1, <3>1, <3>2, <3>3 DEF ReportStatus, Editable
    <3>4. CASE q.op \in {"delete", "batch", "cancel"}
      BY <1>2, <2>1, <3>1, <3>2, <3>4 DEF ReportStatus
    <3>5. CASE q.op \in {"decide", "mark", "reimburse"}
      BY <1>2, <2>1, <3>1, <3>2, <3>5 DEF StatusBefore, Editable, InApproval, Payable
    <3> QED
      BY <2>5, <3>3, <3>4, <3>5
  <2>6. CASE q.op = "pay"
    <3>1. row'[r].eur = row[r].eur /\ row'[r].total = row[r].total
      BY <2>1, <2>6 DEF ReportData, Content
    <3>2. row[r].eur = row[r].total
      BY <1>1, <1>2, <2>1, <2>6 DEF StatusBefore, Payables, Payable, Editable
    <3>3. q.seen[r].eur = row[r].eur
      BY <1>1, <1>4, <2>6 DEF RequestOK, BatchRequest
    <3>4. payouts'[r] = Append(payouts[r], PaymentOf(q, r)) /\ PaymentOf(q, r).eur = row[r].total
      BY <1>4, <2>6, <3>2, <3>3, PaymentsAre DEF PaysReport
    <3>5. ASSUME NEW k \in DOMAIN payouts'[r] PROVE payouts'[r][k].eur = row[r].total
      BY <1>2, <3>4, <3>5, PaymentsAre, AppendIs
    <3> QED
      BY <3>1, <3>2, <3>5
  <2> QED
    BY <2>1, <2>2, <2>3, <2>4, <2>5, <2>6 DEF Content
<1> QED
  BY <1>3, <1>4

LEMMA BatchedKept ==
    ASSUME IInv, NEW q, Committed(q), History(q), NEW r \in Report
    PROVE  Batched(r)'
BY BatchStays, BinStays, PaymentStays, ReimbursedStays, AmountStays DEF Batched

LEMMA BatchRequestKept ==
    ASSUME IInv, NEW q, Committed(q), History(q), NEW p, Beside(p, q)
    PROVE  BatchRequest(p)'
<1>1. RequestOK(p) /\ RequestOK(q) /\ BatchRequest(p) /\ Apart(p, q) /\ Apart(q, p)
  BY DEF Beside, RequestOK, Committed
<1>2. ASSUME NEW r \in DOMAIN p.new \cap Report, p.op \in {"pay", "cancel"}, ~Doubled(r)'
      PROVE  row'[r].batch = p.seen[r].batch
  <2>1. ~Doubled(r)
    BY <1>2, RacesOf
  <2>2. row[r].batch = p.seen[r].batch /\ row[r].batch \in Batch \cap DOMAIN p.new
    BY <1>1, <1>2, <2>1, OperationOf DEF BatchRequest, ReportPart
  <2>3. ASSUME r \in DOMAIN q.new, q.op = "cancel" PROVE FALSE
    <3>1. PICK b \in Batch : b = row[r].batch /\ b \in DOMAIN p.new /\ b \in DOMAIN q.new
      BY <1>2, <2>1, <2>2, <2>3, InOpenBatch
    <3>2. b \in p.locks /\ b \in q.locks
      BY <1>1, <1>2, <2>3, <3>1, PartsOf DEF BatchPart
    <3> QED
      BY <1>1, <3>2 DEF Apart
  <2> QED
    BY <1>2, <2>2, <2>3, BatchOf, ExpensesAssumption
<1>3. ASSUME NEW r \in DOMAIN p.new \cap Report, p.op = "pay", ~Recalled(r)'
      PROVE  p.seen[r].eur = row'[r].eur
  <2>1. ~Recalled(r)
    BY <1>3, RacesOf
  <2>2. p.seen[r].eur = row[r].eur /\ row[r].state \in Payables
    BY <1>1, <1>3, <2>1 DEF RequestOK, BatchRequest, ChainRequest
  <2>3. ~(r \in DOMAIN q.new /\ q.op = "submit")
    BY <1>3, <2>2, StatusIs DEF StatusBefore, Payables, Payable, Editable
  <2>4. row'[r].eur = row[r].eur
    <3>1. CASE r \in DOMAIN q.new
      BY <2>3, <3>1, ReportAfter DEF ReportData
    <3>2. CASE r \notin DOMAIN q.new
      BY <3>2, ReportStays
    <3> QED
      BY <3>1, <3>2
  <2> QED
    BY <2>2, <2>4
<1>4. ASSUME p.op = "cancel", NEW b \in DOMAIN p.new \cap Batch, NEW r \in Report,
             row'[r].batch = b, Unraced({"delete", "submit", "withdraw"}, r)'
      PROVE  r \in DOMAIN p.new
  <2>1. Unraced({"delete", "submit", "withdraw"}, r)
    BY <1>4, RacesOf
  <2>2. ASSUME b \in DOMAIN q.new, q.op = "batch" PROVE FALSE
    <3>1. q.seen[b].state = "absent"
      BY <1>1, <2>2, PartsOf DEF BatchPart
    <3> QED
      BY <1>1, <1>4, <2>2, <3>1, TableNames DEF Apart
  <2>3. row[r].batch = b
    BY <1>4, <2>2, BatchOf, ExpensesAssumption
  <2> QED
    BY <1>1, <1>4, <2>1, <2>3 DEF BatchRequest
<1> QED
  BY <1>1, <1>2, <1>3, <1>4 DEF BatchRequest
----------------------------------------------------------------------------
(* Every step keeps the inductive invariant.                               *)

LEMMA BesideKept ==
    ASSUME IInv, NEW q, Committed(q), History(q), NEW p, Beside(p, q)
    PROVE  RequestOK(p)'
<1>1. Shape(p)'
  BY DEF Beside, RequestOK, Shape, Part, ReportPart, ReportGuard, ReportState, ReportColumns,
         ItemPart, TxnPart, StepPart, BatchPart
<1>2. Current(p)' /\ Keyed(p)'
  BY CurrentKept, KeyedKept
<1>3. ChainRequest(p)'
  BY ChainRequestKept
<1>4. ContentRequest(p)' /\ UnmatchRequest(p)' /\ BatchRequest(p)'
  BY ContentKept, UnmatchKept, BatchRequestKept
<1> QED
  BY <1>1, <1>2, <1>3, <1>4 DEF RequestOK

LEMMA CommitStep ==
    ASSUME IInv, NEW s \in Slot, Commit(s)
    PROVE  IInv'
<1>1. PICK q : q = req[s]
  OBVIOUS
<1>2. /\ Committed(q) /\ History(q) /\ req' = [req EXCEPT ![s] = NoRequest]
      /\ \A t \in Slot \ {s} : Busy(t) => Beside(req[t], q)
  BY <1>1, CommitIs
<1>3. req = [t \in Slot |-> req[t]]
  BY DEF IInv, RowsSound, Requests
<1>4. ~Busy(s)' /\ \A t \in Slot \ {s} : req'[t] = req[t] /\ (Busy(t)' <=> Busy(t))
  BY <1>2, <1>3 DEF Busy
<1>5. ASSUME NEW t \in Slot, Busy(t)' PROVE RequestOK(req[t])'
  <2>1. PICK p : p = req'[t]
    OBVIOUS
  <2>2. Beside(p, q)
    BY <1>2, <1>4, <1>5, <2>1
  <2>3. RequestOK(p)'
    BY <1>2, <2>2, BesideKept
  <2> QED
    BY <2>1, <2>3
<1>6. ASSUME NEW t \in Slot, NEW u \in Slot, Busy(t)', Busy(u)', t # u
      PROVE  Apart(req[t], req[u])' /\ GensApart(req[t], req[u])'
  <2>1. Apart(req'[t], req'[u]) /\ GensApart(req'[t], req'[u])
    BY <1>4, <1>6 DEF IInv, RowsSound, Requests, Chains
  <2> QED
    BY <2>1 DEF Apart, GensApart
<1>7. RowsSound'
  <2>1. Rows' /\ Paid' /\ Versions' /\ work' \in Workloads
    BY <1>2, RowsKept, PaidKept, VersionsKept DEF History, IInv, RowsSound
  <2>2. (req = [t \in Slot |-> req[t]])'
    BY <1>2, <1>3
  <2>3. Requests'
    BY <1>5, <1>6, <2>2 DEF Requests, RequestOK
  <2> QED
    BY <2>1, <2>3 DEF RowsSound
<1>8. KeysReserved'
  BY <1>5 DEF KeysReserved, RequestOK
<1>9. Chains'
  BY <1>2, <1>5, <1>6, ChainedKept DEF Chains, RequestOK
<1>10. Entries'
  BY <1>2, <1>5, ClaimsKept DEF Entries, RequestOK
<1>11. BatchesInv'
  BY <1>2, <1>5, BatchedKept DEF BatchesInv, RequestOK
<1> QED
  BY <1>7, <1>8, <1>9, <1>10, <1>11 DEF IInv

\* A step that ends requests and changes nothing else.
LEMMA IdleStep ==
    ASSUME IInv, UNCHANGED <<row, payouts, decided, raced, work>>, req' = [t \in Slot |-> req'[t]],
           \A t \in Slot : req'[t] \in {req[t], NoRequest}
    PROVE  IInv'
<1>1. \A t \in Slot : Busy(t)' => Busy(t) /\ req'[t] = req[t]
  BY DEF Busy
<1>2. \A t \in Slot : Busy(t) => RequestOK(req[t])
  BY DEF IInv, RowsSound, Requests, KeysReserved, Chains, Entries, BatchesInv, RequestOK
<1>3. ASSUME NEW t \in Slot, Busy(t)' PROVE RequestOK(req[t])'
  <2>1. PICK p : p = req'[t]
    OBVIOUS
  <2>2. RequestOK(p)
    BY <1>1, <1>2, <1>3, <2>1
  <2>3. RequestOK(p)'
    BY <2>2, RequestRests
  <2> QED
    BY <2>1, <2>3
<1>4. ASSUME NEW t \in Slot, NEW u \in Slot, Busy(t)', Busy(u)', t # u
      PROVE  Apart(req[t], req[u])' /\ GensApart(req[t], req[u])'
  <2>1. Apart(req'[t], req'[u]) /\ GensApart(req'[t], req'[u])
    BY <1>1, <1>4 DEF IInv, RowsSound, Requests, Chains
  <2> QED
    BY <2>1 DEF Apart, GensApart
<1>5. RowsSound'
  <2>1. Rows' /\ Paid' /\ Versions' /\ work' \in Workloads
    BY DEF IInv, RowsSound, Rows, ReportOK, ItemOK, StepOK, Paid, Versions, OneDecisionPerVersion
  <2>2. Requests'
    BY <1>3, <1>4 DEF Requests, RequestOK
  <2> QED
    BY <2>1, <2>2 DEF RowsSound
<1>6. KeysReserved'
  BY <1>3 DEF KeysReserved, RequestOK
<1>7. Chains'
  <2>1. \A r \in Report : Chained(r)'
    <3>1. ASSUME NEW r PROVE StepsOf(r)' = StepsOf(r) /\ Recalled(r)' = Recalled(r)
      BY DEF StepsOf, Recalled, Unraced
    <3>2. StepState' = StepState
      BY DEF StepState
    <3> QED
      BY <3>1, <3>2 DEF IInv, Chains, Chained
  <2> QED
    BY <1>3, <1>4, <2>1 DEF Chains, RequestOK
<1>8. Entries'
  <2>1. OneEntryPerTransaction'
    BY DEF IInv, Entries, OneEntryPerTransaction, Assigned
  <2>2. ASSUME NEW r PROVE ItemsOf(r)' = ItemsOf(r) /\ Mixed(r)' = Mixed(r)
    BY DEF ItemsOf, Mixed, Unraced
  <2>3. Totals'
    BY <2>2 DEF IInv, Entries, Totals
  <2> QED
    BY <1>3, <2>1, <2>3 DEF Entries, RequestOK
<1>9. BatchesInv'
  <2>1. \A r \in Report : Batched(r)'
    <3> SUFFICES ASSUME NEW r \in Report PROVE Batched(r)'
      OBVIOUS
    <3>1. Batched(r)
      BY DEF IInv, BatchesInv
    <3>2. Doubled(r)' = Doubled(r) /\ Recalled(r)' = Recalled(r)
      BY DEF Unraced, Doubled, Recalled
    <3>3. /\ Unraced({"delete", "submit", "withdraw"}, r)' = Unraced({"delete", "submit", "withdraw"}, r)
          /\ Unraced({"add", "edit", "replace", "submit", "withdraw"}, r)'
             = Unraced({"add", "edit", "replace", "submit", "withdraw"}, r)
      BY DEF Unraced
    <3> QED
      BY <3>1, <3>2, <3>3 DEF Batched
  <2> QED
    BY <1>3, <2>1 DEF BatchesInv, RequestOK
<1> QED
  BY <1>5, <1>6, <1>7, <1>8, <1>9 DEF IInv

LEMMA RollbackStep ==
    ASSUME IInv, NEW s \in Slot, Rollback(s)
    PROVE  IInv'
<1>1. req = [t \in Slot |-> req[t]]
  BY DEF IInv, RowsSound, Requests
<1>2. /\ UNCHANGED <<row, payouts, decided, raced, work>>
      /\ req' = [t \in Slot |-> req'[t]] /\ \A t \in Slot : req'[t] \in {req[t], NoRequest}
  BY <1>1 DEF Rollback
<1> QED
  BY <1>2, IdleStep

LEMMA ClaimingStep ==
    ASSUME IInv, NEW s \in Slot, Claiming(s)
    PROVE  IInv'
<1>1. PICK r \in Report :
        \/ \E i \in Item :
             \/ \E amount \in Amount :
                  \/ LoadAdd(s, r, i, amount) \/ LoadEdit(s, r, i, amount) \/ LoadReplace(s, r, i, amount)
                  \/ \E key \in Key \cup {NoKey}, t \in Txn \cup {NoTxn} :
                       LoadCreate(s, r, key, i, amount, t)
             \/ \E t \in Txn : LoadFromTxn(s, r, i, t) \/ LoadMatch(s, r, i, t)
             \/ LoadUnmatch(s, r, i)
        \/ LoadDelete(s, r)
  BY DEF Claiming
<1>2. ASSUME NEW i \in Item, NEW amount \in Amount,
             LoadAdd(s, r, i, amount) \/ LoadEdit(s, r, i, amount) \/ LoadReplace(s, r, i, amount)
      PROVE  IInv'
  BY <1>2, AddStep, EditStep, ReplaceStep
<1>3. ASSUME NEW i \in Item, NEW amount \in Amount, NEW key \in Key \cup {NoKey}, NEW t \in Txn \cup {NoTxn},
             LoadCreate(s, r, key, i, amount, t)
      PROVE  IInv'
  BY <1>3, CreateStep
<1>4. ASSUME NEW i \in Item, NEW t \in Txn, LoadFromTxn(s, r, i, t) \/ LoadMatch(s, r, i, t)
      PROVE  IInv'
  BY <1>4, FromTxnStep, MatchStep
<1>5. ASSUME NEW i \in Item, LoadUnmatch(s, r, i) PROVE IInv'
  BY <1>5, UnmatchStep
<1>6. ASSUME LoadDelete(s, r) PROVE IInv'
  BY <1>6, DeleteStep
<1> QED
  BY <1>1, <1>2, <1>3, <1>4, <1>5, <1>6

LEMMA DecidingStep ==
    ASSUME IInv, NEW s \in Slot, Deciding(s)
    PROVE  IInv'
<1>1. work.policies \subseteq Policies
  BY WorkloadsAssumption DEF IInv, RowsSound
<1>2. PICK r \in Report :
        \/ LoadSubmit(s, r) \/ LoadWithdraw(s, r)
        \/ \E policy \in Policies, gen \in 1 .. MaxGen : ReadForSubmit(s, r, policy, gen)
        \/ ReadForWithdraw(s, r)
        \/ \E a \in Approver, verdict \in {"approve", "reject", "return"} : LoadDecide(s, r, a, verdict)
        \/ LoadProgress(s, r)
        \/ \E x \in Step, a \in Approver : LoadReassign(s, r, x, a)
  BY <1>1 DEF Deciding
<1>3. ASSUME NEW policy \in Policies, NEW gen \in 1 .. MaxGen, ReadForSubmit(s, r, policy, gen)
      PROVE  IInv'
  BY <1>3, ReadForSubmitStep
<1>4. ASSUME LoadSubmit(s, r) \/ LoadWithdraw(s, r) \/ ReadForWithdraw(s, r) \/ LoadProgress(s, r)
      PROVE  IInv'
  BY <1>4, SubmitStep, WithdrawStep, ReadForWithdrawStep, ProgressStep
<1>5. ASSUME NEW a \in Approver, NEW verdict \in {"approve", "reject", "return"}, LoadDecide(s, r, a, verdict)
      PROVE  IInv'
  BY <1>5, DecideStep
<1>6. ASSUME NEW x \in Step, NEW a \in Approver, LoadReassign(s, r, x, a) PROVE IInv'
  BY <1>6, ReassignStep
<1> QED
  BY <1>2, <1>3, <1>4, <1>5, <1>6

LEMMA PayingStep ==
    ASSUME IInv, NEW s \in Slot, Paying(s)
    PROVE  IInv'
<1>1. PICK b \in Batch :
        \/ \E R \in SUBSET Report, who \in Approver : LoadBatch(s, b, R, who)
        \/ \E who \in Approver : LoadPay(s, b, who)
        \/ LoadCancel(s, b)
        \/ \E confirmed \in BOOLEAN : LoadExport(s, b, confirmed)
  <2>1. SUBSET (Report \cap work.rows) \subseteq SUBSET Report
    OBVIOUS
  <2> QED
    BY <2>1 DEF Paying
<1>2. ASSUME NEW R \in SUBSET Report, NEW who \in Approver, LoadBatch(s, b, R, who) PROVE IInv'
  BY <1>2, BatchStep
<1>3. ASSUME NEW who \in Approver, LoadPay(s, b, who) PROVE IInv'
  BY <1>3, PayStep
<1>4. ASSUME LoadCancel(s, b) PROVE IInv'
  BY <1>4, CancelStep
<1>5. ASSUME NEW confirmed \in BOOLEAN, LoadExport(s, b, confirmed) PROVE IInv'
  BY <1>5, ExportStep
<1> QED
  BY <1>1, <1>2, <1>3, <1>4, <1>5

LEMMA NextStep ==
    ASSUME IInv, [Next]_vars
    PROVE  IInv'
<1>1. ASSUME NEW s \in Slot, Claiming(s) \/ Deciding(s) \/ Paying(s) PROVE IInv'
  BY <1>1, ClaimingStep, DecidingStep, PayingStep
<1>2. ASSUME NEW s \in Slot, NEW t \in Txn, LoadRemove(s, t) PROVE IInv'
  BY <1>2, RemoveStep
<1>3. ASSUME NEW s \in Slot, Commit(s) \/ Rollback(s) PROVE IInv'
  BY <1>3, CommitStep, RollbackStep
<1>4. CASE UNCHANGED vars
  <2>1. req = [t \in Slot |-> req[t]]
    BY DEF IInv, RowsSound, Requests
  <2>2. /\ UNCHANGED <<row, payouts, decided, raced, work>>
        /\ req' = [t \in Slot |-> req'[t]] /\ \A t \in Slot : req'[t] \in {req[t], NoRequest}
    BY <1>4, <2>1 DEF vars
  <2> QED
    BY <2>2, IdleStep
<1> QED
  BY <1>1, <1>2, <1>3, <1>4 DEF Next
----------------------------------------------------------------------------
(* The initial states.                                                     *)

Started == DOMAIN work.entry

Holder(i) == CHOOSE r \in Started : work.entry[r] = i

InitReport ==
    IF work.state = "approved"
    THEN [NewReport EXCEPT !.state = "approved", !.version = 2, !.total = 1, !.eur = 1]
    ELSE [NewReport EXCEPT !.total = 1]

InitStep(x) ==
    IF work.state = "approved" /\ x[1] \in Started /\ x[2] = 1
    THEN [state |-> "approved", who |-> Open, gen |-> 1] ELSE NoneStep

LEMMA InitRows ==
    ASSUME Init
    PROVE  /\ row = [x \in Tables |-> row[x]]
           /\ \A t \in Txn : row[t] = [state |-> "available", item |-> NoItem]
           /\ \A b \in Batch : row[b] = NoneBatch
           /\ \A i \in Item : row[i] = IF \E r \in Started : work.entry[r] = i
                                       THEN Entry(Holder(i), 1, NoTxn) ELSE NoneItem
           /\ \A x \in Step : row[x] = InitStep(x)
           /\ \A r \in Report : row[r] = IF r \in Started THEN InitReport ELSE NoneReport
<1>1. row = [x \in Tables |->
            CASE x \in Txn   -> [state |-> "available", item |-> NoItem]
              [] x \in Batch -> NoneBatch
              [] x \in Item  -> IF \E r \in Started : work.entry[r] = x
                                THEN Entry(Holder(x), 1, NoTxn) ELSE NoneItem
              [] x \in Step  -> InitStep(x)
              [] OTHER -> IF x \notin Started THEN NoneReport ELSE InitReport]
  BY DEF Init, Tables, Started, Holder, InitStep, InitReport
<1>2. \A x \in Tables : row[x] =
            CASE x \in Txn   -> [state |-> "available", item |-> NoItem]
              [] x \in Batch -> NoneBatch
              [] x \in Item  -> IF \E r \in Started : work.entry[r] = x
                                THEN Entry(Holder(x), 1, NoTxn) ELSE NoneItem
              [] x \in Step  -> InitStep(x)
              [] OTHER -> IF x \notin Started THEN NoneReport ELSE InitReport
  BY <1>1
<1>3. row = [x \in Tables |-> row[x]]
  BY <1>1
<1>4. ASSUME NEW t \in Txn PROVE row[t] = [state |-> "available", item |-> NoItem]
  BY <1>2, TableNames DEF Tables
<1>5. ASSUME NEW b \in Batch PROVE row[b] = NoneBatch
  BY <1>2, TableNames DEF Tables
<1>6. ASSUME NEW i \in Item PROVE row[i] = IF \E r \in Started : work.entry[r] = i
                                           THEN Entry(Holder(i), 1, NoTxn) ELSE NoneItem
  BY <1>2, TableNames DEF Tables
<1>7. ASSUME NEW x \in Step PROVE row[x] = InitStep(x)
  BY <1>2, TableNames DEF Tables
<1>8. ASSUME NEW r \in Report PROVE row[r] = IF r \in Started THEN InitReport ELSE NoneReport
  BY <1>2, TableNames DEF Tables
<1> QED
  BY <1>3, <1>4, <1>5, <1>6, <1>7, <1>8

LEMMA InitReportIs ==
    /\ InitReport \in ReportRow /\ InitReport.total = 1 /\ InitReport.batch = NoBatch
    /\ InitReport.binned = FALSE /\ InitReport.version \in {1, 2} /\ InitReport.key = NoKey
    /\ InitReport.state = IF work.state = "approved" THEN "approved" ELSE "draft"
    /\ work.state = "approved" => InitReport.eur = 1
<1>1. /\ NewReport \in ReportRow /\ NewReport.state = "draft" /\ ~NewReport.binned
      /\ NewReport.total = 0 /\ NewReport.eur = 0 /\ NewReport.version = 1
      /\ NewReport.batch = NoBatch /\ NewReport.key = NoKey
  BY NewReportTyped
<1>2. 2 \in 1 .. MaxVersion
  BY ExpensesAssumption
<1>3. CASE work.state = "approved"
  <2>1. InitReport = [NewReport EXCEPT !.state = "approved", !.version = 2, !.total = 1, !.eur = 1]
    BY <1>3 DEF InitReport
  <2> QED
    BY <1>1, <1>2, <1>3, <2>1 DEF ReportRow, States
<1>4. CASE work.state # "approved"
  <2>1. InitReport = [NewReport EXCEPT !.total = 1]
    BY <1>4 DEF InitReport
  <2> QED
    BY <1>1, <1>4, <2>1 DEF ReportRow, States
<1> QED
  BY <1>3, <1>4

\* The reports that exist at the start, and the entry of each.
LEMMA InitEntries ==
    ASSUME Init
    PROVE  /\ work \in Workloads /\ work.state \in {"draft", "approved"} /\ Started \subseteq Report
           /\ \A r \in Started : work.entry[r] \in Item
           /\ \A i \in Item : (\E r \in Started : work.entry[r] = i) =>
                 Holder(i) \in Started /\ work.entry[Holder(i)] = i
           /\ \A r \in Started : Holder(work.entry[r]) = r
<1>1. /\ work \in Workloads /\ work.state \in {"draft", "approved"} /\ Started \subseteq Report
      /\ \A r \in Started : work.entry[r] \in Item
      /\ \A r, e \in Started : work.entry[r] = work.entry[e] => r = e
  BY WorkloadsAssumption DEF Init, Started
<1>2. ASSUME NEW i, \E r \in Started : work.entry[r] = i
      PROVE  Holder(i) \in Started /\ work.entry[Holder(i)] = i
  BY <1>2 DEF Holder
<1>3. ASSUME NEW r \in Started PROVE Holder(work.entry[r]) = r
  BY <1>1, <1>2
<1> QED
  BY <1>1, <1>2, <1>3

LEMMA InitItems ==
    ASSUME Init, NEW r \in Report
    PROVE  /\ r \in Started => ItemsOf(r) = {work.entry[r]} /\ row[work.entry[r]].amount = 1
           /\ r \notin Started => ItemsOf(r) = {}
           /\ \A i \in Item : row[i].ref = NoTxn /\ ItemOK(i)
<1>0. /\ NoneItem \in ItemRow /\ NoneItem.state = "absent" /\ NoneItem.ref = NoTxn
      /\ \A e \in Report : /\ Entry(e, 1, NoTxn) \in ItemRow /\ Entry(e, 1, NoTxn).state = "present"
                           /\ Entry(e, 1, NoTxn).report = e /\ Entry(e, 1, NoTxn).amount = 1
                           /\ Entry(e, 1, NoTxn).ref = NoTxn
  BY DEF NoneItem, ItemRow, Entry
<1>1. ASSUME NEW i \in Item
      PROVE  \/ /\ Holder(i) \in Started /\ work.entry[Holder(i)] = i
                /\ row[i] = Entry(Holder(i), 1, NoTxn)
             \/ row[i] = NoneItem /\ \A e \in Started : work.entry[e] # i
  BY InitRows, InitEntries
<1>2. \A e \in Started : row[e].state # "absent"
  BY InitRows, InitEntries, InitReportIs
<1>3. ASSUME NEW i \in Item PROVE row[i].ref = NoTxn /\ ItemOK(i)
  BY <1>0, <1>1, <1>2, InitEntries DEF ItemOK
<1>4. ASSUME NEW i \in Item PROVE i \in ItemsOf(r) <=> r \in Started /\ i = work.entry[r]
  BY <1>0, <1>1, InitEntries, ItemsAre
<1>5. r \in Started => row[work.entry[r]].amount = 1
  BY <1>0, <1>1, InitEntries
<1>6. r \in Started => ItemsOf(r) = {work.entry[r]}
  BY <1>4, ItemsAre, InitEntries
<1>7. r \notin Started => ItemsOf(r) = {}
  BY <1>4, ItemsAre
<1> QED
  BY <1>3, <1>5, <1>6, <1>7

LEMMA InitSteps ==
    ASSUME Init, NEW r \in Report
    PROVE  /\ \A x \in Step : StepOK(x)
           /\ r \in Started /\ work.state = "approved" =>
                 /\ First(r) \in StepsOf(r) /\ row[First(r)].state = "approved"
                 /\ \A x \in StepsOf(r) : x = First(r)
           /\ r \notin Started \/ work.state # "approved" => StepsOf(r) = {}
<1>0. /\ NoneStep \in StepRow /\ NoneStep.state = "absent" /\ NoneStep.gen = 0
      /\ [state |-> "approved", who |-> Open, gen |-> 1] \in StepRow
  BY ExpensesAssumption DEF NoneStep, StepRow
<1>1. ASSUME NEW x \in Step
      PROVE  /\ x[1] \in Report /\ x = <<x[1], x[2]>>
             /\ row[x] \in StepRow /\ (row[x].state = "absent" <=> row[x].gen = 0)
             /\ row[x].state # "absent" <=> work.state = "approved" /\ x[1] \in Started /\ x[2] = 1
             /\ row[x].state # "absent" => row[x].state = "approved"
             /\ row[x].state = "absent" => row[x] = NoneStep
  BY <1>0, InitRows DEF Step, InitStep
<1>2. \A e \in Started : row[e].state # "absent"
  BY InitRows, InitEntries, InitReportIs
<1>3. \A x \in Step : StepOK(x)
  BY <1>1, <1>2 DEF StepOK
<1>4. First(r) \in Step /\ First(r)[1] = r /\ First(r)[2] = 1
  BY ExpensesAssumption DEF First, Step, Places
<1>5. \A x : x \in StepsOf(r) <=> x \in Step /\ x[1] = r /\ row[x].state # "absent"
  BY DEF StepsOf
<1>6. ASSUME r \in Started, work.state = "approved"
      PROVE  /\ First(r) \in StepsOf(r) /\ row[First(r)].state = "approved"
             /\ \A x \in StepsOf(r) : x = First(r)
  <2>1. \A x \in StepsOf(r) : x = First(r)
    BY <1>1, <1>5 DEF First
  <2> QED
    BY <1>1, <1>4, <1>5, <1>6, <2>1
<1>7. ASSUME r \notin Started \/ work.state # "approved" PROVE StepsOf(r) = {}
  BY <1>1, <1>5, <1>7
<1> QED
  BY <1>3, <1>6, <1>7

LEMMA InitInvariant ==
    ASSUME Init
    PROVE  IInv
<1>1. /\ payouts = [r \in Report |-> <<>>]
      /\ decided = [r \in Report |-> row[r].version - 1]
      /\ req = [s \in Slot |-> NoRequest] /\ raced = {} /\ work \in Workloads
  BY DEF Init
<1>2. \A s \in Slot : ~Busy(s)
  BY <1>1 DEF Busy
<1>3. ASSUME NEW r \in Report
      PROVE  /\ ReportOK(r) /\ row[r].batch = NoBatch /\ row[r].binned = FALSE
             /\ row[r].version \in Nat \ {0}
             /\ row[r].total = IF r \in Started THEN 1 ELSE 0
             /\ row[r].state = IF r \in Started THEN IF work.state = "approved" THEN "approved" ELSE "draft"
                               ELSE "absent"
             /\ row[r].state = "approved" => row[r].eur = row[r].total
  <2>1. CASE r \in Started
    <3>1. row[r] = InitReport
      BY <2>1, InitRows
    <3> QED
      BY <2>1, <3>1, InitReportIs DEF ReportOK
  <2>2. CASE r \notin Started
    <3>1. row[r] = NoneReport
      BY <2>2, InitRows
    <3> QED
      BY <2>2, <3>1, NoneReportIs DEF ReportOK
  <2> QED
    BY <2>1, <2>2
<1>4. RowsSound
  <2>1. Rows
    <3>1. (\A i \in Item : ItemOK(i)) /\ \A x \in Step : StepOK(x)
      <4>1. ASSUME NEW i \in Item PROVE ItemOK(i)
        <5>1. CASE \E r \in Started : work.entry[r] = i
          BY <5>1, InitItems, InitEntries
        <5>2. CASE ~ \E r \in Started : work.entry[r] = i
          <6>1. row[i] = NoneItem
            BY <5>2, InitRows
          <6> QED
            BY <6>1 DEF ItemOK, NoneItem, ItemRow
        <5> QED
          BY <5>1, <5>2
      <4>2. ASSUME NEW x \in Step PROVE StepOK(x)
        <5>1. x[1] \in Report
          BY DEF Step
        <5> QED
          BY <5>1, InitSteps
      <4> QED
        BY <4>1, <4>2
    <3>2. (\A t \in Txn : row[t] \in TxnRow) /\ \A b \in Batch : row[b] \in BatchRow
      BY InitRows, ReimbursementAssumption DEF TxnRow, BatchRow, NoneBatch
    <3> QED
      BY <1>3, <3>1, <3>2, InitRows DEF Rows
  <2>2. Requests
    BY <1>1, <1>2 DEF Requests
  <2>3. Paid
    BY <1>1 DEF Paid
  <2>4. Versions
    <3>1. ASSUME NEW r \in Report PROVE decided[r] \in Nat /\ row[r].version = 1 + decided[r]
      <4>1. row[r].version \in Nat \ {0}
        BY <1>3
      <4>2. decided[r] = row[r].version - 1
        BY <1>1
      <4> QED
        BY <4>1, <4>2
    <3> QED
      BY <1>1, <3>1 DEF Versions, OneDecisionPerVersion
  <2> QED
    BY <1>1, <2>1, <2>2, <2>3, <2>4 DEF RowsSound
<1>5. KeysReserved
  BY <1>2 DEF KeysReserved
<1>6. Chains
  <2>1. ASSUME NEW r \in Report PROVE Chained(r)
    <3>1. CASE r \in Started /\ work.state = "approved"
      <4>1. /\ row[r].state = "approved" /\ row[r].batch = NoBatch
            /\ First(r) \in StepsOf(r) /\ row[First(r)].state = "approved"
            /\ \A x \in StepsOf(r) : x = First(r) /\ x \in Step
        BY <1>3, <3>1, InitSteps DEF StepsOf
      <4>2. \A x \in StepsOf(r) : StepState[x] = "approved"
        BY <4>1 DEF StepState
      <4>3. Fits(row[r].state, StepState, StepsOf(r))
        BY <4>1, <4>2 DEF Fits
      <4> QED
        BY <4>1, <4>3 DEF Chained
    <3>2. CASE r \notin Started \/ work.state # "approved"
      <4>1. StepsOf(r) = {} /\ row[r].state \in {"absent", "draft"} /\ row[r].batch = NoBatch
        BY <1>3, <3>2, InitSteps
      <4>2. Fits(row[r].state, StepState, StepsOf(r))
        BY <4>1 DEF Fits, Payable
      <4> QED
        BY <4>1, <4>2 DEF Chained
    <3> QED
      BY <3>1, <3>2
  <2> QED
    BY <1>2, <2>1 DEF Chains
<1>7. Entries
  <2>1. OneEntryPerTransaction
    <3>1. ASSUME NEW i \in Item, row[i].state = "present" PROVE row[i].ref = NoTxn
      <4>1. CASE \E r \in Started : work.entry[r] = i
        BY <4>1, InitItems, InitEntries
      <4>2. CASE ~ \E r \in Started : work.entry[r] = i
        <5>1. row[i] = NoneItem
          BY <4>2, InitRows
        <5> QED
          BY <5>1 DEF NoneItem
      <4> QED
        BY <4>1, <4>2
    <3> QED
      BY <3>1, ExpensesAssumption DEF OneEntryPerTransaction
  <2>2. ASSUME NEW r \in Report PROVE row[r].total = AmountsIn(row, ItemsOf(r))
    <3>1. CASE r \in Started
      <4>1. PICK i : i = work.entry[r]
        OBVIOUS
      <4>2. ItemsOf(r) = {i} /\ row[i].amount = 1
        BY <3>1, <4>1, InitItems
      <4>3. PICK S : S = {i} /\ IsFiniteSet(S)
        BY FS_Singleton
      <4>4. AmountsIn(row, S) = row[i].amount + AmountsIn(row, S \ {i})
        BY <4>2, <4>3, AmountsRemove
      <4>5. S \ {i} = {} /\ AmountsIn(row, {}) = 0
        BY <4>3, AmountsEmpty
      <4>6. AmountsIn(row, S) = 1
        BY <4>2, <4>4, <4>5
      <4> QED
        BY <1>3, <3>1, <4>2, <4>3, <4>6
    <3>2. CASE r \notin Started
      <4>1. ItemsOf(r) = {} /\ AmountsIn(row, {}) = 0
        BY <3>2, InitItems, AmountsEmpty
      <4> QED
        BY <1>3, <3>2, <4>1
    <3> QED
      BY <3>1, <3>2
  <2> QED
    BY <1>2, <2>1, <2>2 DEF Entries, Totals
<1>8. BatchesInv
  <2>1. ASSUME NEW r \in Report PROVE Batched(r)
    <3>1. payouts[r] = <<>> /\ DOMAIN payouts[r] = {}
      BY <1>1
    <3>2. /\ row[r].batch = NoBatch /\ row[r].binned = FALSE
          /\ row[r].state \in {"approved", "draft", "absent"}
          /\ row[r].state = "approved" => row[r].eur = row[r].total
      BY <1>3
    <3> QED
      BY <3>1, <3>2 DEF Batched, Editable
  <2> QED
    BY <1>2, <2>1 DEF BatchesInv
<1> QED
  BY <1>4, <1>5, <1>6, <1>7, <1>8 DEF IInv
----------------------------------------------------------------------------
(* What the inductive invariant implies.                                   *)

LEMMA RowsTyped ==
    ASSUME IInv
    PROVE  TypeOK
<1>1. DOMAIN row = Tables
  BY DEF IInv, RowsSound, Rows
<1>2. ASSUME NEW s \in Slot, Busy(s)
      PROVE  /\ req[s].locks \subseteq DOMAIN row \cup {Membership}
             /\ DOMAIN req[s].new \subseteq DOMAIN row
  BY <1>1, <1>2 DEF IInv, RowsSound, Requests, Shape
<1>3. \A r \in Report : payouts[r] \in Seq([batch : Batch, eur : Nat \ {0}])
  BY DEF IInv, RowsSound, Paid
<1> QED
  BY <1>2, <1>3, NamesOf DEF TypeOK

LEMMA PaymentsSound ==
    ASSUME IInv
    PROVE  PaidOnce /\ NoneStranded /\ PaidAsApproved
<1>1. ASSUME NEW r \in Report
      PROVE  /\ Batched(r) /\ (payouts[r] = <<>> => Len(payouts[r]) = 0 /\ DOMAIN payouts[r] = {})
             /\ DOMAIN payouts[r] = 1 .. Len(payouts[r])
             /\ Doubled(r) <=> ~Unraced({"batch"}, r)
  BY DEF IInv, RowsSound, Paid, BatchesInv, Doubled
<1>2. PaidOnce
  <2>1. ASSUME NEW r \in Report, Unraced({"batch"}, r) PROVE Len(payouts[r]) <= 1
    <3>1. payouts[r] # <<>> => Len(payouts[r]) = 1
      BY <1>1, <2>1 DEF Batched
    <3>2. PICK n : n = Len(payouts[r])
      OBVIOUS
    <3>3. n \in {0, 1}
      BY <1>1, <3>1, <3>2
    <3>4. n <= 1
      BY <3>3
    <3> QED
      BY <3>2, <3>4, Zenon
  <2> QED
    BY <2>1 DEF PaidOnce
<1>3. NoneStranded
  <2>1. ASSUME NEW r \in Report, Unraced({"batch"}, r), NEW k \in DOMAIN payouts[r]
        PROVE  row[r].batch = payouts[r][k].batch /\ row[row[r].batch].state = "paid"
    <3>1. payouts[r] # <<>>
      BY <1>1, <2>1
    <3>2. /\ Len(payouts[r]) = 1 /\ row[r].batch = payouts[r][1].batch
          /\ row[row[r].batch].state = "paid"
      BY <1>1, <2>1, <3>1 DEF Batched
    <3>3. k = 1
      BY <1>1, <2>1, <3>2
    <3> QED
      BY <3>2, <3>3
  <2>2. ASSUME NEW r \in Report, row[r].batch # NoBatch, Unraced({"delete", "submit", "withdraw"}, r)
        PROVE  row[row[r].batch].state \in {"open", "paid"}
    BY <1>1, <2>2 DEF Batched
  <2> QED
    BY <2>1, <2>2 DEF NoneStranded
<1>4. PaidAsApproved
  BY <1>1 DEF PaidAsApproved, Batched
<1> QED
  BY <1>2, <1>3, <1>4

LEMMA TotalsSound ==
    ASSUME IInv
    PROVE  EntriesSound
<1>1. TotalMatchesItems
  BY DEF IInv, Entries, Totals, Mixed, AmountsIn, TotalMatchesItems
<1> QED
  BY <1>1 DEF IInv, Entries, EntriesSound

LEMMA KeysSound ==
    ASSUME IInv
    PROVE  RetryFindsOutcome
BY DEF IInv, KeysReserved, Keyed, RetryFindsOutcome, KeyClash, Written

LEMMA StatusSound ==
    ASSUME IInv
    PROVE  DecisionsSound
<1>1. ASSUME NEW r \in Report
      PROVE  LET state == row[r].state
                 steps == {row[x].state : x \in StepsOf(r)}
             IN
             /\ state \in InApproval \cup {"rejected"} => steps # {} /\ ChainState(steps) = state
             /\ state \in {"approved", "marked_for_reimbursement", "reimbursed"} /\ ~Recalled(r)
                  => steps = {"approved"}
             /\ state = "draft" /\ ~Recalled(r) => steps = {}
             /\ state = "returned" => "pending" \notin steps
             /\ \A x, y \in StepsOf(r) : row[x].gen = row[y].gen
  <2> DEFINE state == row[r].state
             S == StepsOf(r)
             steps == {row[x].state : x \in S}
  <2>1. Chained(r) /\ \A x \in S : StepState[x] = row[x].state
    BY StepNames, StepStateIs
  <2>2. Fits(state, StepState, S)
    BY <2>1 DEF Chained
  <2>3. /\ steps = {} <=> S = {}
        /\ \A w : w \in steps <=> \E x \in S : row[x].state = w
    OBVIOUS
  <2>4. ASSUME state \in InApproval \cup {"rejected"} PROVE steps # {} /\ ChainState(steps) = state
    <3>1. steps # {}
      BY <2>2, <2>3, <2>4 DEF Fits, InApproval
    <3>2. CASE state = "submitted"
      <4>1. "rejected" \notin steps /\ "pending" \in steps /\ "approved" \notin steps
        BY <2>1, <2>2, <2>3, <3>2 DEF Fits
      <4> HIDE DEF steps
      <4> QED
        BY <3>1, <3>2, <4>1 DEF ChainState
    <3>3. CASE state = "partially_approved"
      <4>1. "rejected" \notin steps /\ "pending" \in steps /\ "approved" \in steps
        BY <2>1, <2>2, <2>3, <3>3 DEF Fits
      <4> HIDE DEF steps
      <4> QED
        BY <3>1, <3>3, <4>1 DEF ChainState
    <3>4. CASE state = "rejected"
      <4>1. "rejected" \in steps
        BY <2>1, <2>2, <2>3, <3>4 DEF Fits
      <4> HIDE DEF steps
      <4> QED
        BY <3>1, <3>4, <4>1 DEF ChainState
    <3> QED
      BY <2>4, <3>2, <3>3, <3>4 DEF InApproval
  <2>5. ASSUME state \in {"approved", "marked_for_reimbursement", "reimbursed"}, ~Recalled(r)
        PROVE  steps = {"approved"}
    <3>1. S # {} /\ \A x \in S : row[x].state = "approved"
      BY <2>1, <2>2, <2>5 DEF Chained, Fits, Payable
    <3> QED
      BY <3>1
  <2>6. state = "draft" /\ ~Recalled(r) => steps = {}
    BY <2>1, <2>3 DEF Chained
  <2>7. state = "returned" => "pending" \notin steps
    BY <2>1, <2>2, <2>3 DEF Fits
  <2>8. \A x, y \in S : row[x].gen = row[y].gen
    BY <2>1 DEF Chained
  <2> HIDE DEF state, steps, S
  <2> QED
    BY <2>4, <2>5, <2>6, <2>7, <2>8 DEF state, steps, S
<1>2. StatusFollowsChain
  BY <1>1 DEF StatusFollowsChain
<1> QED
  BY <1>2 DEF IInv, RowsSound, Versions, DecisionsSound

----------------------------------------------------------------------------
(* What a step may not do.                                                 *)

\* Only commits change rows.
LEMMA OnlyCommits ==
    ASSUME [Next]_vars
    PROVE  row' = row \/ \E s \in Slot : Commit(s)
<1>1. ASSUME NEW s \in Slot, NEW q, Begin(s, q) PROVE row' = row
  BY <1>1 DEF Begin
<1>2. ASSUME NEW s \in Slot, Claiming(s) PROVE row' = row
  <2>1. ASSUME NEW r, NEW i, NEW amount,
               LoadAdd(s, r, i, amount) \/ LoadEdit(s, r, i, amount) \/ LoadReplace(s, r, i, amount)
        PROVE  row' = row
    BY <1>1, <2>1 DEF LoadAdd, LoadEdit, LoadReplace
  <2>2. ASSUME NEW r, NEW key, NEW i, NEW amount, NEW t, LoadCreate(s, r, key, i, amount, t)
        PROVE  row' = row
    BY <1>1, <2>2 DEF LoadCreate
  <2>3. ASSUME NEW r, NEW i, NEW t, LoadFromTxn(s, r, i, t) \/ LoadMatch(s, r, i, t) PROVE row' = row
    BY <1>1, <2>3 DEF LoadFromTxn, LoadMatch
  <2>4. ASSUME NEW r, NEW i, LoadUnmatch(s, r, i) PROVE row' = row
    BY <1>1, <2>4 DEF LoadUnmatch
  <2>5. ASSUME NEW r, LoadDelete(s, r) PROVE row' = row
    BY <1>1, <2>5 DEF LoadDelete
  <2> QED
    BY <1>2, <2>1, <2>2, <2>3, <2>4, <2>5 DEF Claiming
<1>3. ASSUME NEW s \in Slot, Deciding(s) PROVE row' = row
  <2>1. ASSUME NEW op, NEW r, NEW state, NEW steps, Decision(s, op, r, state, steps) PROVE row' = row
    BY <1>1, <2>1 DEF Decision
  <2>2. ASSUME NEW r, NEW a, NEW verdict \in {"approve", "reject", "return"}, LoadDecide(s, r, a, verdict)
        PROVE  row' = row
    BY <2>1, <2>2 DEF LoadDecide
  <2>3. ASSUME NEW r, LoadProgress(s, r) PROVE row' = row
    BY <2>1, <2>3 DEF LoadProgress
  <2> QED
    BY <1>1, <1>3, <2>2, <2>3 DEF Deciding, LoadSubmit, LoadWithdraw, LoadReassign,
                                  ReadForSubmit, ReadForWithdraw, ReadChain
<1>4. ASSUME NEW s \in Slot, Paying(s) PROVE row' = row
  <2>1. ASSUME NEW b, NEW R, NEW who, LoadBatch(s, b, R, who) PROVE row' = row
    BY <1>1, <2>1 DEF LoadBatch
  <2>2. ASSUME NEW b, NEW who, LoadPay(s, b, who) PROVE row' = row
    BY <1>1, <2>2 DEF LoadPay
  <2>3. ASSUME NEW b, LoadCancel(s, b) PROVE row' = row
    BY <1>1, <2>3 DEF LoadCancel
  <2>4. ASSUME NEW b, NEW confirmed, LoadExport(s, b, confirmed) PROVE row' = row
    BY <1>1, <2>4 DEF LoadExport
  <2> QED
    BY <1>4, <2>1, <2>2, <2>3, <2>4 DEF Paying
<1>5. ASSUME NEW s \in Slot, NEW t, LoadRemove(s, t) PROVE row' = row
  BY <1>1, <1>5 DEF LoadRemove
<1>6. ASSUME NEW s \in Slot, Rollback(s) PROVE row' = row
  BY <1>6 DEF Rollback
<1> QED
  BY <1>2, <1>3, <1>4, <1>5, <1>6 DEF Next, vars

LEMMA DecidedStays ==
    ASSUME IInv, [Next]_vars, NEW r \in Report, row[r].state \in {"rejected", "reimbursed"},
           ~Recalled(r)'
    PROVE  row'[r].state = row[r].state
<1>1. CASE row' = row
  BY <1>1
<1>2. ASSUME NEW s \in Slot, Commit(s) PROVE row'[r].state = row[r].state
  <2>1. PICK q : q = req[s]
    OBVIOUS
  <2>2. Committed(q) /\ History(q) /\ ~Recalled(r)'
    BY <1>2, <2>1, CommitIs
  <2>3. CASE row[r].state = "reimbursed"
    BY <2>2, <2>3, PayableStays DEF Payables
  <2>4. CASE row[r].state = "rejected" /\ r \notin DOMAIN q.new
    BY <2>2, <2>4, ReportStays
  <2>5. CASE row[r].state = "rejected" /\ r \in DOMAIN q.new
    <3>1. /\ ReportStatus(q, r) /\ StatusBefore(q, r) /\ ~Recalled(r)
          /\ q.op \in {"add", "edit", "replace", "from_txn", "decide", "mark", "reimburse",
                       "create", "delete", "submit", "withdraw", "batch", "pay", "cancel"}
      BY <2>2, <2>5, ReportAfter, StatusIs, OperationOf, RacesOf DEF Committed
    <3> QED
      BY <2>2, <2>5, <3>1
         DEF ReportStatus, StatusBefore, Content, Editable, InApproval, Payable, Payables
  <2> QED
    BY <2>3, <2>4, <2>5
<1> QED
  BY <1>1, <1>2, OnlyCommits

----------------------------------------------------------------------------
(* The theorems.                                                           *)

\* The inductive invariant holds of every behaviour: rows are well formed, what a
\* request holds is current, and no two requests hold the same row.
THEOREM InvariantHolds == Spec => []IInv
<1>1. Init => IInv
  BY InitInvariant
<1>2. IInv /\ [Next]_vars => IInv'
  BY NextStep
<1> QED
  BY <1>1, <1>2, PTL DEF Spec

\* No bank transaction is claimed by two entries, however requests overlap, and the
\* total of a report is the sum of its entries (`available`, compute_totals), unless
\* an operation that loads the report without a lock overlapped another one.
THEOREM EntriesCorrect == Spec => []EntriesSound
<1>1. IInv => EntriesSound
  BY TotalsSound
<1> QED
  BY <1>1, InvariantHolds, PTL

\* A retried create_report is answered with the report of its first attempt and
\* never fails on the unique key (lock_actor, expense_commands.lookup).
THEOREM RetriesCorrect == Spec => []RetryFindsOutcome
<1>1. IInv => RetryFindsOutcome
  BY KeysSound
<1> QED
  BY <1>1, InvariantHolds, PTL

\* A report is where its chain of approvals is (chain_state), and every version of
\* it is decided once (decide), unless a submission or a withdrawal overlapped.
THEOREM DecisionsCorrect == Spec => []DecisionsSound
<1>1. IInv => DecisionsSound
  BY StatusSound
<1> QED
  BY <1>1, InvariantHolds, PTL

\* A report is paid once, what was approved, by the batch it stays in
\* (create_batch, pay_batch, cancel_batch), except where BatchesSound names an
\* overlap of unlocked loads, and rows are well formed.
THEOREM BatchesCorrect == Spec => []BatchesSound
<1>1. IInv => BatchesSound
  BY RowsTyped, PaymentsSound DEF BatchesSound
<1> QED
  BY <1>1, InvariantHolds, PTL

\* A rejected or reimbursed report stays so (expense_state.TERMINAL), unless a
\* submission or a withdrawal overlapped another change of it.
THEOREM DecidedCorrect == Spec => DecidedStaysDecided
<1>1. IInv /\ [Next]_vars =>
        [\A r \in Report :
           row[r].state \in {"rejected", "reimbursed"} /\ ~Recalled(r)'
           => row'[r].state = row[r].state]_vars
  BY DecidedStays
<1> QED
  BY <1>1, InvariantHolds, PTL DEF Spec, DecidedStaysDecided
=============================================================================
