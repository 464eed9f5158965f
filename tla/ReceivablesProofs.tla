-------------------------- MODULE ReceivablesProofs --------------------------
(***************************************************************************)
(* TLAPS proofs about issued invoices and their cash, for any requests,    *)
(* rows, keys, amounts and periods: the legal series has no gap and no     *)
(* duplicate, an issued invoice is immutable, the ledger and the figures   *)
(* cached on an invoice agree, and a bank line has one target.             *)
(***************************************************************************)
EXTENDS Receivables, FiniteSetTheorems, TLAPS

----------------------------------------------------------------------------
(* Sums.  MapThenSumSet recurs over the subsets of a set, each time with   *)
(* an element it chooses; a minimal counterexample stands for induction.   *)

Chosen(s) == CHOOSE x \in s : TRUE

\* The table that the fold of community module Folds recurs over.
IsSumTable(g, f, S) ==
    g = [s \in SUBSET S |-> IF s = {} THEN 0 ELSE f[Chosen(s)] + g[s \ {Chosen(s)}]]

SumTable(f, S) == CHOOSE g : IsSumTable(g, f, S)

Sum(f, S) == SumTable(f, S)[S]

LEMMA ChosenIn == ASSUME NEW s, s # {} PROVE Chosen(s) \in s
BY DEF Chosen

\* Every set of subsets of a finite set has a minimal one.
LEMMA MinimalSet ==
    ASSUME NEW S, IsFiniteSet(S), NEW B \in SUBSET SUBSET S, B # {}
    PROVE  \E s \in B : \A u \in SUBSET s : u # s => u \notin B
<1>1. PICK s \in B : \A u \in B : ~(<<u, s>> \in StrictSubsetOrdering(S))
  <2>1. B \subseteq FiniteSubsetsOf(S)
    BY FS_FiniteSubsetsOfFinite
  <2>2. IsWellFoundedOn(StrictSubsetOrdering(S), FiniteSubsetsOf(S))
    BY FS_StrictSubsetOrderingWellFounded
  <2> QED
    BY <2>1, <2>2, WFMin
<1>2. SUFFICES ASSUME NEW u \in SUBSET s, u # s PROVE u \notin B
  OBVIOUS
<1>3. u \in SUBSET S /\ s \in SUBSET S
  OBVIOUS
<1>4. <<u, s>> \in StrictSubsetOrdering(S)
  BY <1>2, <1>3 DEF StrictSubsetOrdering
<1> QED
  BY <1>1, <1>4

\* Tables of sets that overlap, of functions that agree there, agree.
LEMMA TablesAgree ==
    ASSUME NEW S, IsFiniteSet(S), NEW T, NEW R \in SUBSET (S \cap T),
           NEW f, NEW e, \A x \in R : f[x] = e[x],
           NEW g, IsSumTable(g, f, S), NEW h, IsSumTable(h, e, T)
    PROVE  g[R] = h[R]
<1> DEFINE B == {s \in SUBSET R : g[s] # h[s]}
<1>1. SUFFICES ASSUME B # {} PROVE FALSE
  OBVIOUS
<1>2. PICK s \in B : \A u \in SUBSET s : u # s => u \notin B
  <2>1. B \in SUBSET SUBSET S
    OBVIOUS
  <2> HIDE DEF B
  <2> QED
    BY <1>1, <2>1, MinimalSet
<1>3. /\ g[s] = IF s = {} THEN 0 ELSE f[Chosen(s)] + g[s \ {Chosen(s)}]
      /\ h[s] = IF s = {} THEN 0 ELSE e[Chosen(s)] + h[s \ {Chosen(s)}]
  <2>1. s \in SUBSET S /\ s \in SUBSET T
    OBVIOUS
  <2> QED
    BY <2>1 DEF IsSumTable
<1>4. s # {}
  BY <1>3
<1>5. Chosen(s) \in s
  BY <1>4, ChosenIn
<1>6. g[s \ {Chosen(s)}] = h[s \ {Chosen(s)}]
  <2> DEFINE u == s \ {Chosen(s)}
  <2>1. u \in SUBSET s /\ u # s /\ u \in SUBSET R
    BY <1>5
  <2> QED
    BY <1>2, <2>1
<1>7. f[Chosen(s)] = e[Chosen(s)]
  BY <1>5
<1> QED
  BY <1>3, <1>6, <1>7

LEMMA TableExists ==
    ASSUME NEW S, IsFiniteSet(S), NEW f
    PROVE  IsSumTable(SumTable(f, S), f, S)
<1> DEFINE B == {s \in SUBSET S : ~ \E g : IsSumTable(g, f, s)}
<1>1. SUFFICES ASSUME B # {} PROVE FALSE
  <2>1. B = {} => \E g : IsSumTable(g, f, S)
    OBVIOUS
  <2> QED
    BY <1>1, <2>1 DEF SumTable
<1>2. PICK s \in B : \A u \in SUBSET s : u # s => u \notin B
  <2>1. B \in SUBSET SUBSET S
    OBVIOUS
  <2> HIDE DEF B
  <2> QED
    BY <1>1, <2>1, MinimalSet
<1>3. s \in SUBSET S /\ \A u \in SUBSET s : u # s => u \in SUBSET S /\ \E g : IsSumTable(g, f, u)
  BY <1>2
<1> HIDE DEF B
<1>4. \A u \in SUBSET s : u # s => IsSumTable(SumTable(f, u), f, u)
  BY <1>3 DEF SumTable
<1> DEFINE table == [u \in SUBSET s |-> IF u = {} THEN 0
                                        ELSE f[Chosen(u)] + Sum(f, u \ {Chosen(u)})]
<1>5. ASSUME NEW u \in SUBSET s, u # {} PROVE table[u \ {Chosen(u)}] = Sum(f, u \ {Chosen(u)})
  <2> DEFINE v == u \ {Chosen(u)}
             w == v \ {Chosen(v)}
  <2>1. Chosen(u) \in u /\ v \in SUBSET s /\ v # s
    BY <1>5, ChosenIn
  <2>2. Sum(f, v) = IF v = {} THEN 0 ELSE f[Chosen(v)] + SumTable(f, v)[w]
    <3>1. IsSumTable(SumTable(f, v), f, v)
      BY <1>4, <2>1
    <3>2. v \in SUBSET v
      OBVIOUS
    <3> HIDE DEF v
    <3> QED
      BY <3>1, <3>2 DEF IsSumTable, Sum
  <2>3. ASSUME v # {} PROVE SumTable(f, v)[w] = Sum(f, w)
    <3>1. /\ w \in SUBSET s /\ w # s
          /\ w \in SUBSET (v \cap w)
      BY <2>1, <2>3, ChosenIn
    <3>2. IsSumTable(SumTable(f, v), f, v) /\ IsSumTable(SumTable(f, w), f, w)
      BY <1>4, <2>1, <3>1
    <3>3. IsFiniteSet(v)
      <4>1. v \in SUBSET S
        BY <1>3, <2>1
      <4> QED
        BY <4>1, FS_Subset
    <3> HIDE DEF v, w
    <3> QED
      BY <3>1, <3>2, <3>3, TablesAgree DEF Sum
  <2>4. table[v] = IF v = {} THEN 0 ELSE f[Chosen(v)] + Sum(f, w)
    BY <2>1
  <2> HIDE DEF table, v, w
  <2>5. table[v] = Sum(f, v)
    BY <2>2, <2>3, <2>4
  <2> QED
    BY <2>5 DEF v
<1>6. IsSumTable(table, f, s)
  <2>1. table = [u \in SUBSET s |-> IF u = {} THEN 0
                                    ELSE f[Chosen(u)] + table[u \ {Chosen(u)}]]
    BY <1>5
  <2> HIDE DEF table
  <2> QED
    BY <2>1 DEF IsSumTable
<1> QED
  BY <1>2, <1>6 DEF B

LEMMA SumEmpty == ASSUME NEW f PROVE Sum(f, {}) = 0
<1>1. IsSumTable(SumTable(f, {}), f, {})
  BY TableExists, FS_EmptySet
<1> QED
  BY <1>1 DEF Sum, IsSumTable

LEMMA SumUnfold ==
    ASSUME NEW S, IsFiniteSet(S), S # {}, NEW f
    PROVE  Sum(f, S) = f[Chosen(S)] + Sum(f, S \ {Chosen(S)})
<1> DEFINE u == S \ {Chosen(S)}
<1>1. IsSumTable(SumTable(f, S), f, S)
  BY TableExists
<1>2. IsFiniteSet(u) /\ IsSumTable(SumTable(f, u), f, u)
  BY TableExists, FS_RemoveElement
<1>3. SumTable(f, S)[S] = f[Chosen(S)] + SumTable(f, S)[u]
  BY <1>1 DEF IsSumTable
<1>4. SumTable(f, S)[u] = SumTable(f, u)[u]
  <2>1. u \in SUBSET (S \cap u)
    OBVIOUS
  <2> HIDE DEF u
  <2> QED
    BY <1>1, <1>2, <2>1, TablesAgree
<1> QED
  BY <1>3, <1>4 DEF Sum

LEMMA SumSame ==
    ASSUME NEW S, IsFiniteSet(S), NEW f, NEW e, \A x \in S : f[x] = e[x]
    PROVE  Sum(f, S) = Sum(e, S)
<1>1. IsSumTable(SumTable(f, S), f, S) /\ IsSumTable(SumTable(e, S), e, S)
  BY TableExists
<1>2. S \in SUBSET (S \cap S)
  OBVIOUS
<1> QED
  BY <1>1, <1>2, TablesAgree DEF Sum

LEMMA SumInt ==
    ASSUME NEW S, IsFiniteSet(S), NEW f, \A x \in S : f[x] \in Int
    PROVE  Sum(f, S) \in Int
<1> DEFINE B == {s \in SUBSET S : Sum(f, s) \notin Int}
<1>1. SUFFICES ASSUME B # {} PROVE FALSE
  OBVIOUS
<1>2. PICK s \in B : \A u \in SUBSET s : u # s => u \notin B
  <2>1. B \in SUBSET SUBSET S
    OBVIOUS
  <2> HIDE DEF B
  <2> QED
    BY <1>1, <2>1, MinimalSet
<1>3. s # {} /\ IsFiniteSet(s)
  <2>1. Sum(f, {}) = 0
    BY SumEmpty
  <2>2. s \in SUBSET S /\ Sum(f, s) # Sum(f, {})
    BY <2>1
  <2>3. IsFiniteSet(s)
    BY <2>2, FS_Subset
  <2> QED
    BY <2>2, <2>3
<1>4. Chosen(s) \in s /\ Sum(f, s) = f[Chosen(s)] + Sum(f, s \ {Chosen(s)})
  BY <1>3, ChosenIn, SumUnfold
<1>5. Sum(f, s \ {Chosen(s)}) \in Int
  <2> DEFINE u == s \ {Chosen(s)}
  <2>1. u \in SUBSET s /\ u # s /\ u \in SUBSET S
    BY <1>4
  <2> QED
    BY <1>2, <2>1
<1>6. f[Chosen(s)] \in Int
  BY <1>4
<1> QED
  BY <1>4, <1>5, <1>6

LEMMA SumNat ==
    ASSUME NEW S, IsFiniteSet(S), NEW f, \A x \in S : f[x] \in Nat
    PROVE  Sum(f, S) \in Nat
<1> DEFINE B == {s \in SUBSET S : Sum(f, s) \notin Nat}
<1>1. SUFFICES ASSUME B # {} PROVE FALSE
  OBVIOUS
<1>2. PICK s \in B : \A u \in SUBSET s : u # s => u \notin B
  <2>1. B \in SUBSET SUBSET S
    OBVIOUS
  <2> HIDE DEF B
  <2> QED
    BY <1>1, <2>1, MinimalSet
<1>3. s # {} /\ IsFiniteSet(s)
  <2>1. Sum(f, {}) = 0
    BY SumEmpty
  <2>2. s \in SUBSET S /\ Sum(f, s) # Sum(f, {})
    BY <2>1
  <2>3. IsFiniteSet(s)
    BY <2>2, FS_Subset
  <2> QED
    BY <2>2, <2>3
<1>4. Chosen(s) \in s /\ Sum(f, s) = f[Chosen(s)] + Sum(f, s \ {Chosen(s)})
  BY <1>3, ChosenIn, SumUnfold
<1>5. Sum(f, s \ {Chosen(s)}) \in Nat
  <2> DEFINE u == s \ {Chosen(s)}
  <2>1. u \in SUBSET s /\ u # s /\ u \in SUBSET S
    BY <1>4
  <2> QED
    BY <1>2, <2>1
<1>6. f[Chosen(s)] \in Nat
  BY <1>4
<1> QED
  BY <1>4, <1>5, <1>6

\* The order of the choices does not matter.
LEMMA SumRemove ==
    ASSUME NEW S, IsFiniteSet(S), NEW f, \A x \in S : f[x] \in Int, NEW k \in S
    PROVE  Sum(f, S) = f[k] + Sum(f, S \ {k})
<1> DEFINE B == {s \in SUBSET S : \E j \in s : Sum(f, s) # f[j] + Sum(f, s \ {j})}
<1>1. SUFFICES ASSUME B # {} PROVE FALSE
  OBVIOUS
<1>2. PICK s \in B : \A u \in SUBSET s : u # s => u \notin B
  <2>1. B \in SUBSET SUBSET S
    OBVIOUS
  <2> HIDE DEF B
  <2> QED
    BY <1>1, <2>1, MinimalSet
<1>3. PICK j \in s : Sum(f, s) # f[j] + Sum(f, s \ {j})
  BY <1>2
<1>4. IsFiniteSet(s) /\ s \in SUBSET S
  BY <1>2, FS_Subset
<1> DEFINE c == Chosen(s)
           v == s \ {c}
           u == s \ {j}
           w == s \ {c, j}
<1>5. c \in s /\ Sum(f, s) = f[c] + Sum(f, v)
  BY <1>3, <1>4, ChosenIn, SumUnfold
<1> HIDE DEF c
<1>6. c # j
  BY <1>3, <1>5
<1>7. Sum(f, v) = f[j] + Sum(f, w)
  <2>1. v \in SUBSET s /\ v # s /\ v \in SUBSET S /\ j \in v /\ w = v \ {j}
    BY <1>4, <1>5, <1>6
  <2>2. v \notin B
    BY <1>2, <2>1
  <2> QED
    BY <2>1, <2>2
<1>8. Sum(f, u) = f[c] + Sum(f, w)
  <2>1. u \in SUBSET s /\ u # s /\ u \in SUBSET S /\ c \in u /\ w = u \ {c}
    BY <1>4, <1>5, <1>6
  <2>2. u \notin B
    BY <1>2, <2>1
  <2> QED
    BY <2>1, <2>2
<1>9. f[c] \in Int /\ f[j] \in Int /\ Sum(f, w) \in Int
  <2>1. IsFiniteSet(w) /\ w \in SUBSET S
    BY <1>4, FS_Subset
  <2>2. Sum(f, w) \in Int
    BY <2>1, SumInt
  <2> QED
    BY <1>4, <1>5, <2>2
<1> HIDE DEF u, v, w
<1>10. Sum(f, s) = f[j] + Sum(f, u)
  BY <1>5, <1>7, <1>8, <1>9
<1> QED
  BY <1>3, <1>10 DEF u

----------------------------------------------------------------------------
(* The amounts of a sequence of entries or notes.                          *)

AmountsIn(l, S) == MapThenSumSet(LAMBDA k : l[k].amount, S)

\* The table of the fold over the amounts in l.
IsAmountTable(g, l, S) ==
    g = [s \in SUBSET S |-> IF s = {} THEN 0 ELSE l[Chosen(s)].amount + g[s \ {Chosen(s)}]]

AmountTable(l, S) == CHOOSE g : IsAmountTable(g, l, S)

LEMMA AmountsUnfold == ASSUME NEW S, NEW l PROVE AmountsIn(l, S) = AmountTable(l, S)[S]
BY DEF AmountsIn, MapThenSumSet, MapThenFoldSet, AmountTable, IsAmountTable, Chosen

LEMMA AmountsAreSum ==
    ASSUME NEW S, IsFiniteSet(S), NEW l
    PROVE  AmountsIn(l, S) = Sum([k \in S |-> l[k].amount], S)
<1> DEFINE f == [k \in S |-> l[k].amount]
<1>1. \A g : IsAmountTable(g, l, S) <=> IsSumTable(g, f, S)
  <2>1. ASSUME NEW s \in SUBSET S, s # {} PROVE f[Chosen(s)] = l[Chosen(s)].amount
    BY <2>1, ChosenIn
  <2> HIDE DEF f
  <2>2. ASSUME NEW g PROVE [s \in SUBSET S |-> IF s = {} THEN 0
                                 ELSE l[Chosen(s)].amount + g[s \ {Chosen(s)}]]
                         = [s \in SUBSET S |-> IF s = {} THEN 0
                                 ELSE f[Chosen(s)] + g[s \ {Chosen(s)}]]
    BY <2>1
  <2> QED
    BY <2>2 DEF IsSumTable, IsAmountTable
<1> HIDE DEF f
<1>2. IsSumTable(SumTable(f, S), f, S)
  BY TableExists
<1>3. IsSumTable(AmountTable(l, S), f, S)
  BY <1>1, <1>2 DEF AmountTable
<1>4. S \in SUBSET (S \cap S)
  OBVIOUS
<1>5. AmountTable(l, S)[S] = SumTable(f, S)[S]
  BY <1>2, <1>3, <1>4, TablesAgree
<1> QED
  BY <1>5, AmountsUnfold DEF Sum, f

LEMMA AmountsEmpty == ASSUME NEW l PROVE AmountsIn(l, {}) = 0
BY AmountsAreSum, SumEmpty, FS_EmptySet

LEMMA AmountsSame ==
    ASSUME NEW S, IsFiniteSet(S), NEW l, NEW m, \A k \in S : l[k].amount = m[k].amount
    PROVE  AmountsIn(l, S) = AmountsIn(m, S)
<1>1. [k \in S |-> l[k].amount] = [k \in S |-> m[k].amount]
  OBVIOUS
<1> QED
  BY <1>1, AmountsAreSum

LEMMA AmountsInt ==
    ASSUME NEW S, IsFiniteSet(S), NEW l, \A k \in S : l[k].amount \in Int
    PROVE  AmountsIn(l, S) \in Int
<1> DEFINE f == [k \in S |-> l[k].amount]
<1>1. \A x \in S : f[x] \in Int
  OBVIOUS
<1> HIDE DEF f
<1>2. Sum(f, S) \in Int
  BY <1>1, SumInt
<1> QED
  BY <1>2, AmountsAreSum DEF f

LEMMA AmountsNat ==
    ASSUME NEW S, IsFiniteSet(S), NEW l, \A k \in S : l[k].amount \in Nat
    PROVE  AmountsIn(l, S) \in Nat
<1> DEFINE f == [k \in S |-> l[k].amount]
<1>1. \A x \in S : f[x] \in Nat
  OBVIOUS
<1> HIDE DEF f
<1>2. Sum(f, S) \in Nat
  BY <1>1, SumNat
<1> QED
  BY <1>2, AmountsAreSum DEF f

LEMMA AmountsRemove ==
    ASSUME NEW S, IsFiniteSet(S), NEW l, \A k \in S : l[k].amount \in Int, NEW k \in S
    PROVE  AmountsIn(l, S) = l[k].amount + AmountsIn(l, S \ {k})
<1> DEFINE f == [i \in S |-> l[i].amount]
           e == [i \in S \ {k} |-> l[i].amount]
<1>1. /\ \A x \in S : f[x] \in Int
      /\ f[k] = l[k].amount
      /\ \A x \in S \ {k} : f[x] = e[x]
  OBVIOUS
<1>2. IsFiniteSet(S \ {k})
  BY FS_RemoveElement
<1>3. AmountsIn(l, S) = Sum(f, S) /\ AmountsIn(l, S \ {k}) = Sum(e, S \ {k})
  BY <1>2, AmountsAreSum
<1> HIDE DEF f, e
<1>4. Sum(f, S) = f[k] + Sum(f, S \ {k})
  BY <1>1, SumRemove
<1>5. Sum(f, S \ {k}) = Sum(e, S \ {k})
  BY <1>1, <1>2, SumSame
<1> QED
  BY <1>1, <1>3, <1>4, <1>5

----------------------------------------------------------------------------
(* The rows, and the requests in flight.                                   *)

Tables == Doc \cup Line \cup {Issuer, Schedule}

RowsInv ==
    /\ row = [x \in Tables |-> row[x]]
    /\ \A d \in Doc : row[d] \in DocRow /\ (row[d].life = "absent" => row[d] = NoDoc)
    /\ \A l \in Line : row[l] \in LineRow
    /\ row[Issuer] \in IssuerRow
    /\ row[Schedule] \in ScheduleRow
    /\ today \in 0 .. MaxPeriod

\* Everything booked is of an invoice that exists.
BooksInv ==
    /\ ledger \in Seq(Entry)
    /\ notes \in Seq(Note)
    /\ \A k \in DOMAIN ledger : ledger[k].doc \in Docs
    /\ \A k \in DOMAIN notes : notes[k].of \in Docs

\* What a request in flight is about to do, by its operation.
Blank(q) == q.entries = <<>> /\ q.credits = <<>>

\* An invoice of which the request has loaded the row.
Loaded(q, d) == d \in Doc /\ q.seen[d] \in DocRow /\ q.seen[d].life # "absent"

InsertReq(q) ==
    /\ q.op \in {"draft", "duplicate"} /\ q.locks = {} /\ Blank(q)
    /\ \E d \in Doc :
         /\ DOMAIN q.new = {d}
         /\ q.seen[d] = NoDoc /\ q.new[d] \in DocRow
         /\ q.new[d] = Draft(q.new[d].total, q.new[d].key)

\* One number drawn: the issuer's row is held.
DrawsOne(q, d) ==
    /\ DOMAIN q.new = {d, Issuer}
    /\ q.seen[Issuer] \in IssuerRow
    /\ q.new[Issuer] = [q.seen[Issuer] EXCEPT !.next = @ + 1]

CreateReq(q) ==
    /\ q.op = "create" /\ q.locks = {Issuer} /\ Blank(q)
    /\ \E d \in Doc :
         /\ DrawsOne(q, d)
         /\ q.seen[d] = NoDoc /\ q.new[d] \in DocRow
         /\ q.new[d] = [Draft(q.new[d].total, q.new[d].key)
                          EXCEPT !.life = "issued", !.number = q.seen[Issuer].next]

IssueReq(q) ==
    /\ q.op = "issue" /\ Blank(q)
    /\ \E d \in Doc :
         /\ q.locks = {d, Issuer}
         /\ DrawsOne(q, d)
         /\ Loaded(q, d) /\ q.seen[d].life \in {"draft", "approved"}
         /\ q.new[d] = [q.seen[d] EXCEPT !.life = "issued", !.number = q.seen[Issuer].next]

MoveReq(q) ==
    /\ q.op \in {"approve", "cancel", "dispute", "undispute", "write_off"}
    /\ q.locks = {} /\ Blank(q)
    /\ \E d \in Doc :
         /\ DOMAIN q.new = {d}
         /\ Loaded(q, d) /\ q.seen[d].life \in Transition[q.op].from
         /\ q.new[d] = [q.seen[d] EXCEPT !.life = Transition[q.op].to]

EditReq(q) ==
    /\ q.op = "edit" /\ q.locks = {} /\ Blank(q)
    /\ \E d \in Doc :
         /\ DOMAIN q.new = {d}
         /\ Loaded(q, d) /\ q.seen[d].life = "draft"
         /\ q.new[d].total \in Nat
         /\ q.new[d] = [q.seen[d] EXCEPT !.total = q.new[d].total]

ScheduleReq(q) ==
    /\ q.op \in {"sweep", "reschedule"} /\ q.locks = {} /\ Blank(q)
    /\ DOMAIN q.new = {Schedule}
    /\ q.seen[Schedule] \in ScheduleRow /\ q.new[Schedule] \in ScheduleRow

\* The invoices of a sweep have the numbers it draws, each of them once.
Drawing(q, made) ==
    /\ \A d \in made : q.new[d].number \in q.seen[Issuer].next .. q.new[Issuer].next - 1
    /\ \A d, e \in made : q.new[d].number = q.new[e].number => d = e
    /\ \A n \in q.seen[Issuer].next .. q.new[Issuer].next - 1 :
         \E d \in made : q.new[d].number = n

SweepReq(q) ==
    /\ q.op = "sweep" /\ q.locks = {Issuer} /\ Blank(q)
    /\ \E made \in SUBSET Doc :
         /\ DOMAIN q.new = made \cup {Issuer, Schedule}
         /\ q.seen[Schedule] \in ScheduleRow /\ q.new[Schedule] \in ScheduleRow
         /\ q.seen[Issuer] \in IssuerRow /\ q.new[Issuer] \in IssuerRow
         /\ q.new[Issuer].nextCredit = q.seen[Issuer].nextCredit
         /\ q.seen[Issuer].next <= q.new[Issuer].next
         /\ \A d \in made :
              /\ q.seen[d] = NoDoc /\ q.new[d] \in DocRow
              /\ q.new[d] = [NoDoc EXCEPT !.life = "issued", !.total = q.new[d].total,
                                          !.number = q.new[d].number, !.period = q.new[d].period]
         /\ Drawing(q, made)

\* Cash that comes in is capped by what is owed.
Capped(q, d, e) ==
    /\ e.of = 0 /\ e.amount > 0
    /\ q.seen[d].paid + e.amount <= q.seen[d].total - q.seen[d].credited

PayReq(q) ==
    /\ q.op \in {"append", "record", "reverse", "allocate", "deallocate"}
    /\ q.credits = <<>>
    /\ q.entries[1] \in Entry /\ q.entries = <<q.entries[1]>>
    /\ LET e == q.entries[1]
           d == q.entries[1].doc
       IN
       /\ DOMAIN q.new = {d}
       /\ Loaded(q, d)
       /\ q.new[d] = [q.seen[d] EXCEPT !.paid = @ + e.amount]
       /\ \/ /\ q.op \in {"append", "record"} /\ q.locks = {d} /\ e.receipt = NoReceipt
             /\ Capped(q, d, e) /\ ~q.seen[d].voided
          \/ /\ q.op = "reverse" /\ q.locks = {d} /\ e.receipt = NoReceipt
             /\ e.of # 0 /\ ~q.seen[d].voided
          \/ /\ q.op = "allocate" /\ e.receipt \in Receipt /\ q.locks = {e.receipt, d}
             /\ Capped(q, d, e)
          \/ /\ q.op = "deallocate" /\ e.receipt \in Receipt /\ q.locks = {e.receipt}
             /\ e.of # 0

Lesser(a, b) == IF a < b THEN a ELSE b

CreditReq(q) ==
    /\ q.op = "credit" /\ q.entries = <<>>
    /\ q.credits[1] \in Note /\ q.credits = <<q.credits[1]>>
    /\ LET c == q.credits[1]
           d == q.credits[1].of
       IN
       /\ q.locks = {d, Issuer}
       /\ DOMAIN q.new = {d, Issuer}
       /\ q.seen[Issuer] \in IssuerRow
       /\ q.new[Issuer] = [q.seen[Issuer] EXCEPT !.nextCredit = @ + 1]
       /\ Loaded(q, d) /\ ~q.seen[d].voided /\ q.seen[d].life \in {"issued", "disputed"}
       /\ q.new[d].credited = Lesser(q.seen[d].credited + c.amount, q.seen[d].total)
       /\ q.new[d] = [q.seen[d] EXCEPT !.credited = q.new[d].credited]
       /\ c.number = q.seen[Issuer].nextCredit

VoidReq(q) ==
    /\ q.op = "void" /\ q.locks = {} /\ Blank(q)
    /\ \E d \in Doc :
         /\ DOMAIN q.new = {d}
         /\ Loaded(q, d) /\ q.seen[d].paid <= 0 /\ q.seen[d].credited = 0 /\ ~q.seen[d].voided
         /\ q.new[d] = [q.seen[d] EXCEPT !.voided = TRUE]

LineReq(q) ==
    /\ Blank(q)
    /\ \E l \in Line :
         /\ DOMAIN q.new = {l}
         /\ q.seen[l] \in LineRow /\ q.new[l] \in LineRow
         /\ IF q.op = "match"
              THEN q.new[l].target \in Receipt \cup Nat /\ q.locks = {q.new[l].target}
              ELSE /\ q.op \in {"unmatch", "ignore"}
                   /\ q.locks = {} /\ q.new[l].status # "matched"

Formed(q) ==
    /\ q = [op |-> q.op, locks |-> q.locks, seen |-> q.seen, new |-> q.new,
            entries |-> q.entries, credits |-> q.credits]
    /\ q.seen = [x \in DOMAIN q.new |-> q.seen[x]]
    /\ q.new = [x \in DOMAIN q.new |-> q.new[x]]

Family(q) ==
    \/ InsertReq(q) \/ CreateReq(q) \/ IssueReq(q) \/ MoveReq(q) \/ EditReq(q)
    \/ ScheduleReq(q) \/ SweepReq(q)
    \/ PayReq(q) \/ CreditReq(q) \/ VoidReq(q) \/ LineReq(q)

\* A correction takes back the whole of what it corrects.
Corrects(e) ==
    /\ e.of \in DOMAIN ledger
    /\ ledger[e.of].amount > 0 /\ e.amount = -ledger[e.of].amount
    /\ e.doc = ledger[e.of].doc /\ e.receipt = ledger[e.of].receipt

\* What a request rests on: nobody else writes what it holds, or has the row it
\* inserts.
Rests(q) ==
    /\ \A x \in q.locks \cap DOMAIN q.new : row[x] = q.seen[x]
    /\ \A d \in Inserted(q) : row[d] = NoDoc
    /\ (DOMAIN q.new \cap Doc) \ Inserted(q) \subseteq Docs
    /\ q.entries # <<>> /\ q.entries[1].of # 0 => Corrects(q.entries[1])
    /\ q.op = "match" => q.locks \subseteq Receipt \cup DOMAIN ledger

ReqInv(q) == Formed(q) /\ Family(q) /\ Rests(q)

Apart(p, q) == p.locks \cap q.locks = {} /\ Inserted(p) \cap Inserted(q) = {}

RequestsInv ==
    /\ req = [s \in Slot |-> req[s]]
    /\ \A s \in Slot : Busy(s) => ReqInv(req[s])
    /\ \A s, t \in Slot : Busy(s) /\ Busy(t) /\ s # t => Apart(req[s], req[t])

Inv == work \in Workloads /\ RowsInv /\ BooksInv /\ RequestsInv

----------------------------------------------------------------------------
(* Requests, whatever they do.                                             *)

\* The rows a request has loaded and will leave have their tables' columns.
Typed(q) ==
    /\ DOMAIN q.new \subseteq Tables
    /\ \A d \in DOMAIN q.new \cap Doc :
         /\ q.seen[d] \in DocRow /\ q.new[d] \in DocRow
         /\ q.new[d].life # "absent"
         /\ q.seen[d].life = "absent" => q.seen[d] = NoDoc
    /\ \A l \in DOMAIN q.new \cap Line : q.seen[l] \in LineRow /\ q.new[l] \in LineRow
    /\ Issuer \in DOMAIN q.new => q.seen[Issuer] \in IssuerRow /\ q.new[Issuer] \in IssuerRow
    /\ Schedule \in DOMAIN q.new => q.seen[Schedule] \in ScheduleRow /\ q.new[Schedule] \in ScheduleRow

Books(q) ==
    /\ q.entries = <<>> \/ (q.entries = <<q.entries[1]>> /\ q.entries[1] \in Entry)
    /\ q.credits = <<>> \/ (q.credits = <<q.credits[1]>> /\ q.credits[1] \in Note)
    /\ q.entries = <<>> \/ q.credits = <<>>
    /\ q.entries # <<>> => q.entries[1].doc \in (DOMAIN q.new \cap Doc) \ Inserted(q)
    /\ q.credits # <<>> => q.credits[1].of \in (DOMAIN q.new \cap Doc) \ Inserted(q)

LEMMA Names ==
    /\ Issuer # Schedule /\ Issuer \notin Doc /\ Schedule \notin Doc
    /\ Issuer \notin Line /\ Schedule \notin Line
    /\ Issuer \notin Receipt /\ Schedule \notin Receipt
    /\ \A d \in Doc : d \notin Line /\ d \notin Receipt
    /\ \A l \in Line : l \notin Receipt /\ l \notin Nat
    /\ NoReceipt \notin Receipt /\ NoKey \notin Key
BY IssuedAssumption, ReceivablesAssumption

LEMMA NoDocTyped == NoDoc \in DocRow /\ NoDoc.life = "absent"
BY DEF NoDoc, DocRow, Lifecycle

LEMMA DraftTyped ==
    ASSUME NEW total \in Nat, NEW key \in Key \cup {NoKey}
    PROVE  Draft(total, key) \in DocRow /\ Draft(total, key).life = "draft"
BY NoDocTyped DEF Draft, DocRow, Lifecycle

LEMMA FamilyTyped ==
    ASSUME NEW q, Formed(q), Family(q)
    PROVE  Typed(q)
<1> USE Names, NoDocTyped
<1>1. CASE InsertReq(q)
  <2>1. PICK d \in Doc : /\ DOMAIN q.new = {d} /\ q.seen[d] = NoDoc /\ q.new[d] \in DocRow
                         /\ q.new[d] = Draft(q.new[d].total, q.new[d].key)
    BY <1>1 DEF InsertReq
  <2>2. q.new[d].life # "absent"
    BY <2>1 DEF Draft, NoDoc
  <2> QED
    BY <2>1, <2>2 DEF Typed, Tables
<1>2. CASE CreateReq(q)
  <2>1. PICK d \in Doc :
          /\ DrawsOne(q, d)
          /\ q.seen[d] = NoDoc /\ q.new[d] \in DocRow
          /\ q.new[d] = [Draft(q.new[d].total, q.new[d].key)
                           EXCEPT !.life = "issued", !.number = q.seen[Issuer].next]
    BY <1>2 DEF CreateReq
  <2>2. q.new[d].life # "absent"
    BY <2>1 DEF Draft, NoDoc
  <2>3. q.new[Issuer] \in IssuerRow
    BY <2>1 DEF DrawsOne, IssuerRow
  <2> QED
    BY <2>1, <2>2, <2>3 DEF Typed, Tables, DrawsOne
<1>3. CASE IssueReq(q)
  <2>1. PICK d \in Doc :
         /\ DrawsOne(q, d)
         /\ Loaded(q, d)
         /\ q.new[d] = [q.seen[d] EXCEPT !.life = "issued", !.number = q.seen[Issuer].next]
    BY <1>3 DEF IssueReq
  <2>2. q.new[d] \in DocRow /\ q.new[d].life # "absent"
    BY <2>1 DEF Loaded, DrawsOne, DocRow, IssuerRow, Lifecycle
  <2>3. q.new[Issuer] \in IssuerRow
    BY <2>1 DEF DrawsOne, IssuerRow
  <2> QED
    BY <2>1, <2>2, <2>3 DEF Typed, Tables, DrawsOne, Loaded
<1>4. CASE MoveReq(q)
  <2>1. PICK d \in Doc :
         /\ DOMAIN q.new = {d}
         /\ Loaded(q, d)
         /\ q.new[d] = [q.seen[d] EXCEPT !.life = Transition[q.op].to]
    BY <1>4 DEF MoveReq
  <2>2. Transition[q.op].to \in Lifecycle
    BY <1>4 DEF MoveReq, Transition, Lifecycle
  <2>3. q.new[d] \in DocRow /\ q.new[d].life # "absent"
    BY <2>1, <2>2 DEF Loaded, DocRow, Lifecycle
  <2> QED
    BY <2>1, <2>3 DEF Typed, Tables, Loaded
<1>5. CASE EditReq(q)
  <2>1. PICK d \in Doc :
         /\ DOMAIN q.new = {d}
         /\ Loaded(q, d) /\ q.new[d].total \in Nat
         /\ q.new[d] = [q.seen[d] EXCEPT !.total = q.new[d].total]
    BY <1>5 DEF EditReq
  <2>2. PICK total : total = q.new[d].total
    OBVIOUS
  <2>3. q.new[d] \in DocRow /\ q.new[d].life # "absent"
    BY <2>1, <2>2 DEF Loaded, DocRow
  <2> QED
    BY <2>1, <2>3 DEF Typed, Tables, Loaded
<1>6. CASE ScheduleReq(q)
  BY <1>6 DEF ScheduleReq, Typed, Tables
<1>7. CASE SweepReq(q)
  <2>1. PICK made \in SUBSET Doc :
         /\ DOMAIN q.new = made \cup {Issuer, Schedule}
         /\ q.seen[Schedule] \in ScheduleRow /\ q.new[Schedule] \in ScheduleRow
         /\ q.seen[Issuer] \in IssuerRow /\ q.new[Issuer] \in IssuerRow
         /\ \A d \in made :
              /\ q.seen[d] = NoDoc /\ q.new[d] \in DocRow
              /\ q.new[d] = [NoDoc EXCEPT !.life = "issued", !.total = q.new[d].total,
                                          !.number = q.new[d].number, !.period = q.new[d].period]
    BY <1>7 DEF SweepReq
  <2>2. ASSUME NEW d \in made PROVE q.new[d].life # "absent"
    <3>1. PICK x, t, n, p : x = q.new[d] /\ t = x.total /\ n = x.number /\ p = x.period
      OBVIOUS
    <3>2. x = [NoDoc EXCEPT !.life = "issued", !.total = t, !.number = n, !.period = p]
      BY <2>1, <3>1
    <3>3. x.life = "issued"
      BY <3>2, NoDocTyped DEF DocRow
    <3> QED
      BY <3>1, <3>3
  <2>3. DOMAIN q.new \cap Doc = made /\ DOMAIN q.new \cap Line = {}
    BY <2>1
  <2> QED
    BY <2>1, <2>2, <2>3 DEF Typed, Tables
<1>8. CASE PayReq(q)
  <2>1. PICK e, d : /\ e = q.entries[1] /\ d = e.doc
                    /\ e \in Entry
                    /\ DOMAIN q.new = {d} /\ Loaded(q, d)
                    /\ q.new[d] = [q.seen[d] EXCEPT !.paid = @ + e.amount]
    BY <1>8 DEF PayReq
  <2>2. e.amount \in Int /\ d \in Doc
    BY <2>1 DEF Entry
  <2>3. q.new[d] \in DocRow /\ q.new[d].life # "absent"
    <3>1. PICK x, p : x = q.seen[d] /\ p = x.paid + e.amount
      OBVIOUS
    <3>2. x \in DocRow /\ x.life # "absent"
      BY <2>1, <3>1 DEF Loaded
    <3>3. q.new[d] = [x EXCEPT !.paid = p]
      BY <2>1, <3>1
    <3>4. PICK paid \in Int, amount \in Int : paid = x.paid /\ amount = e.amount
      BY <2>2, <3>2 DEF DocRow
    <3>5. p \in Int
      BY <3>1, <3>4
    <3> QED
      BY <3>2, <3>3, <3>5 DEF DocRow
  <2> QED
    BY <2>1, <2>2, <2>3 DEF Typed, Tables, Loaded
<1>9. CASE CreditReq(q)
  <2>1. PICK c, d, x, y :
          /\ c = q.credits[1] /\ d = c.of /\ x = q.seen[d] /\ y = q.new[d]
          /\ c \in Note /\ DOMAIN q.new = {d, Issuer} /\ Loaded(q, d)
    BY <1>9 DEF CreditReq
  <2>2. c.amount \in Nat /\ d \in Doc /\ x \in DocRow /\ x.life # "absent"
    BY <2>1 DEF Note, Loaded
  <2>3. y \in DocRow /\ y.life # "absent"
    <3>1. PICK a \in Nat, b \in Nat : a = x.credited + c.amount /\ b = x.total
      BY <2>2 DEF DocRow
    <3>2. y.credited = Lesser(a, b) /\ y = [x EXCEPT !.credited = y.credited]
      BY <1>9, <2>1, <3>1 DEF CreditReq
    <3>3. PICK credited \in Nat : y = [x EXCEPT !.credited = credited]
      BY <3>1, <3>2 DEF Lesser
    <3> QED
      BY <2>2, <3>3 DEF DocRow
  <2>4. q.seen[Issuer] \in IssuerRow /\ q.new[Issuer] \in IssuerRow
    <3>1. /\ q.seen[Issuer] \in IssuerRow
          /\ q.new[Issuer] = [q.seen[Issuer] EXCEPT !.nextCredit = @ + 1]
      BY <1>9 DEF CreditReq
    <3> QED
      BY <3>1 DEF IssuerRow
  <2> QED
    BY <2>1, <2>2, <2>3, <2>4 DEF Typed, Tables
<1>10. CASE VoidReq(q)
  <2>1. PICK d \in Doc :
         /\ DOMAIN q.new = {d}
         /\ Loaded(q, d)
         /\ q.new[d] = [q.seen[d] EXCEPT !.voided = TRUE]
    BY <1>10 DEF VoidReq
  <2>3. q.new[d] \in DocRow /\ q.new[d].life # "absent"
    BY <2>1 DEF Loaded, DocRow
  <2> QED
    BY <2>1, <2>3 DEF Typed, Tables, Loaded
<1>11. CASE LineReq(q)
  <2>1. PICK l \in Line : DOMAIN q.new = {l} /\ q.seen[l] \in LineRow /\ q.new[l] \in LineRow
    BY <1>11 DEF LineReq
  <2> QED
    BY <2>1 DEF Typed, Tables
<1> QED
  BY <1>1, <1>2, <1>3, <1>4, <1>5, <1>6, <1>7, <1>8, <1>9, <1>10, <1>11 DEF Family

LEMMA FamilyBooks ==
    ASSUME NEW q, Formed(q), Family(q)
    PROVE  Books(q)
<1> USE Names
<1>1. CASE PayReq(q)
  <2>1. PICK e, d : /\ e = q.entries[1] /\ d = e.doc
                    /\ e \in Entry /\ q.entries = <<e>> /\ q.credits = <<>>
                    /\ DOMAIN q.new = {d} /\ Loaded(q, d)
    BY <1>1 DEF PayReq
  <2>2. d \in (DOMAIN q.new \cap Doc) \ Inserted(q)
    BY <2>1 DEF Inserted, Loaded
  <2> QED
    BY <2>1, <2>2 DEF Books
<1>2. CASE CreditReq(q)
  <2>1. PICK c, d : /\ c = q.credits[1] /\ d = c.of
                    /\ c \in Note /\ q.credits = <<c>> /\ q.entries = <<>>
                    /\ DOMAIN q.new = {d, Issuer} /\ Loaded(q, d)
    BY <1>2 DEF CreditReq
  <2>2. d \in (DOMAIN q.new \cap Doc) \ Inserted(q)
    BY <2>1 DEF Inserted, Loaded
  <2> QED
    BY <2>1, <2>2 DEF Books
<1>3. CASE Blank(q)
  BY <1>3 DEF Blank, Books
<1> QED
  BY <1>1, <1>2, <1>3 DEF Family, InsertReq, CreateReq, IssueReq, MoveReq, EditReq,
     ScheduleReq, SweepReq, VoidReq, LineReq

----------------------------------------------------------------------------
(* Steps that load.                                                        *)

LEMMA RequestShape ==
    ASSUME NEW op, NEW locks, NEW new, NEW entries, NEW credits,
           new = [x \in DOMAIN new |-> new[x]]
    PROVE  LET q == Request(op, locks, new, entries, credits) IN
           /\ Formed(q)
           /\ q.op = op /\ q.locks = locks /\ q.new = new
           /\ q.entries = entries /\ q.credits = credits
           /\ \A x \in DOMAIN new : q.seen[x] = row[x]
<1> DEFINE q == Request(op, locks, new, entries, credits)
<1>1. q = [op |-> op, locks |-> locks, seen |-> [x \in DOMAIN new |-> row[x]], new |-> new,
           entries |-> entries, credits |-> credits]
  BY DEF Request, Rows
<1> HIDE DEF q
<1>2. /\ q.op = op /\ q.locks = locks /\ q.new = new
      /\ q.entries = entries /\ q.credits = credits
      /\ q.seen = [x \in DOMAIN new |-> row[x]]
  BY <1>1
<1>3. Formed(q)
  BY <1>1, <1>2 DEF Formed
<1> QED
  BY <1>2, <1>3 DEF q

LEMMA BeginStep ==
    ASSUME Inv, NEW s \in Slot, NEW q, Begin(s, q), ReqInv(q),
           \A t \in Slot : Busy(t) => Inserted(q) \cap Inserted(req[t]) = {}
    PROVE  Inv'
<1>1. /\ req' = [req EXCEPT ![s] = q]
      /\ row' = row /\ ledger' = ledger /\ notes' = notes /\ today' = today /\ work' = work
  BY DEF Begin
<1>2. req = [t \in Slot |-> req[t]]
  BY DEF Inv, RequestsInv
<1>3. req'[s] = q /\ \A t \in Slot \ {s} : req'[t] = req[t]
  BY <1>1, <1>2
<1>4. RowsInv' /\ BooksInv' /\ (work \in Workloads)'
  BY <1>1 DEF Inv, RowsInv, BooksInv, Docs
<1>5. ASSUME NEW p, Rests(p) PROVE Rests(p)'
  BY <1>1, <1>5 DEF Rests, Docs, Corrects
<1>6. \A t \in Slot : Busy(t)' => ReqInv(req[t])'
  <2> SUFFICES ASSUME NEW t \in Slot, Busy(t)' PROVE ReqInv(req[t])'
    OBVIOUS
  <2>1. PICK p : p = req'[t]
    OBVIOUS
  <2>2. ReqInv(p)
    <3>1. CASE t = s
      BY <1>3, <2>1, <3>1
    <3>2. CASE t # s
      BY <1>3, <2>1, <3>2 DEF Inv, RequestsInv, Busy
    <3> QED
      BY <3>1, <3>2
  <2>3. Rests(p)'
    BY <1>5, <2>2 DEF ReqInv
  <2> QED
    BY <2>1, <2>2, <2>3 DEF ReqInv
<1>7. ASSUME NEW t \in Slot, Busy(t), t # s PROVE Apart(q, req[t]) /\ Apart(req[t], q)
  BY <1>7 DEF Begin, Free, Apart
<1>8. ASSUME NEW t \in Slot, NEW u \in Slot, Busy(t)', Busy(u)', t # u
      PROVE  Apart(req[t], req[u])'
  <2>1. Apart(req'[t], req'[u])
    BY <1>3, <1>7, <1>8 DEF Inv, RequestsInv, Busy
  <2> QED
    BY <2>1 DEF Apart, Inserted
<1>9. (req = [t \in Slot |-> req[t]])'
  BY <1>1, <1>2
<1> QED
  BY <1>4, <1>6, <1>8, <1>9 DEF Inv, RequestsInv

LEMMA LoadStep ==
    ASSUME Inv, NEW s \in Slot,
           NEW op, NEW locks, NEW new, NEW entries, NEW credits,
           Begin(s, Request(op, locks, new, entries, credits)),
           Family(Request(op, locks, new, entries, credits)),
           new = [x \in DOMAIN new |-> new[x]],
           \A d \in DOMAIN new \cap Doc : row[d].life = "absent" => Fresh(d),
           entries # <<>> /\ entries[1].of # 0 => Corrects(entries[1]),
           op = "match" => locks \subseteq Receipt \cup DOMAIN ledger
    PROVE  Inv'
<1> DEFINE q == Request(op, locks, new, entries, credits)
<1>1. /\ Formed(q)
      /\ q.op = op /\ q.locks = locks /\ q.new = new
      /\ q.entries = entries /\ q.credits = credits
      /\ \A x \in DOMAIN new : q.seen[x] = row[x]
  BY RequestShape
<1> HIDE DEF q
<1>2. Typed(q)
  BY <1>1, FamilyTyped DEF q
<1>3. \A d \in Inserted(q) : Fresh(d) /\ d \in DOMAIN new
  BY <1>1 DEF Inserted
<1>4. Rests(q)
  <2>1. \A d \in Inserted(q) : row[d] = NoDoc
    BY <1>1 DEF Inserted, Inv, RowsInv
  <2>2. (DOMAIN q.new \cap Doc) \ Inserted(q) \subseteq Docs
    BY <1>1 DEF Inserted, Docs
  <2> QED
    BY <1>1, <2>1, <2>2 DEF Rests
<1>5. ReqInv(q)
  BY <1>1, <1>4 DEF ReqInv, q
<1>6. \A t \in Slot : Busy(t) => Inserted(q) \cap Inserted(req[t]) = {}
  BY <1>3 DEF Fresh, Inserted
<1> QED
  BY <1>5, <1>6, BeginStep DEF q

----------------------------------------------------------------------------
(* The operations on invoices and the schedule.                            *)

LEMMA Rowed ==
    ASSUME Inv
    PROVE  /\ \A d \in Doc : row[d] \in DocRow /\ (row[d].life = "absent" => row[d] = NoDoc)
           /\ \A l \in Line : row[l] \in LineRow
           /\ row[Issuer] \in IssuerRow /\ row[Schedule] \in ScheduleRow
           /\ ledger \in Seq(Entry) /\ notes \in Seq(Note)
           /\ \A k \in DOMAIN ledger : ledger[k] \in Entry /\ ledger[k].doc \in Docs
           /\ DOMAIN ledger \subseteq Nat \ {0}
<1>1. ledger \in Seq(Entry) /\ notes \in Seq(Note)
  BY DEF Inv, BooksInv
<1>2. DOMAIN ledger = 1 .. Len(ledger) /\ \A k \in DOMAIN ledger : ledger[k] \in Entry
  BY <1>1
<1>3. \A k \in DOMAIN ledger : ledger[k].doc \in Docs
  BY DEF Inv, BooksInv
<1>4. DOMAIN ledger \subseteq Nat \ {0}
  BY <1>1
<1>5. /\ \A d \in Doc : row[d] \in DocRow /\ (row[d].life = "absent" => row[d] = NoDoc)
      /\ \A l \in Line : row[l] \in LineRow
      /\ row[Issuer] \in IssuerRow /\ row[Schedule] \in ScheduleRow
  BY DEF Inv, RowsInv
<1> QED
  BY <1>1, <1>2, <1>3, <1>4, <1>5

LEMMA MoveStep ==
    ASSUME Inv, NEW s \in Slot, NEW d \in Doc,
           NEW action \in {"approve", "cancel", "dispute", "undispute", "write_off"},
           LoadMove(s, action, d)
    PROVE  Inv'
<1> DEFINE new == [x \in {d} |-> Moved(action, x)]
           q == Request(action, {}, new, <<>>, <<>>)
<1>1. Begin(s, q) /\ row[d].life \in Transition[action].from
  BY DEF LoadMove, Legal
<1>2. /\ q.op = action /\ q.locks = {} /\ q.new = new
      /\ q.entries = <<>> /\ q.credits = <<>>
      /\ \A x \in DOMAIN new : q.seen[x] = row[x]
  BY RequestShape
<1>3. DOMAIN new = {d} /\ new = [x \in DOMAIN new |-> new[x]]
  OBVIOUS
<1>4. row[d] \in DocRow /\ row[d].life # "absent"
  <2>1. "absent" \notin Transition[action].from
    BY DEF Transition
  <2> QED
    BY <1>1, <2>1, Rowed
<1>7. MoveReq(q)
  <2>1. q.new[d] = [row[d] EXCEPT !.life = Transition[action].to]
    BY <1>2 DEF Moved
  <2>2. q.seen[d] = row[d] /\ DOMAIN q.new = {d}
    BY <1>2, <1>3
  <2> HIDE DEF q
  <2> QED
    BY <1>1, <1>2, <1>4, <2>1, <2>2 DEF MoveReq, Loaded, Blank
<1>8. Family(q)
  <2> HIDE DEF q
  <2> QED
    BY <1>7 DEF Family
<1> QED
  <2> HIDE DEF new
  <2> QED
    BY <1>1, <1>3, <1>8, LoadStep, <1>4

LEMMA EditStep ==
    ASSUME Inv, NEW s \in Slot, NEW d \in Doc, NEW total \in Amount,
           LoadEdit(s, d, total)
    PROVE  Inv'
<1> DEFINE new == [x \in {d} |-> [row[x] EXCEPT !.total = total]]
           q == Request("edit", {}, new, <<>>, <<>>)
<1>1. Begin(s, q) /\ row[d].life = "draft"
  BY DEF LoadEdit, Editable
<1>2. /\ q.op = "edit" /\ q.locks = {} /\ q.new = new
      /\ q.entries = <<>> /\ q.credits = <<>>
      /\ \A x \in DOMAIN new : q.seen[x] = row[x]
  BY RequestShape
<1>3. DOMAIN new = {d} /\ new = [x \in DOMAIN new |-> new[x]]
  OBVIOUS
<1>4. row[d] \in DocRow
  BY Rowed
<1>7. EditReq(q)
  <2>1. q.new[d] = [row[d] EXCEPT !.total = total]
    BY <1>2
  <2>2. q.seen[d] = row[d] /\ DOMAIN q.new = {d}
    BY <1>2, <1>3
  <2>3. q.new[d].total = total /\ total \in Nat
    BY <1>4, <2>1, IssuedAssumption DEF DocRow
  <2> HIDE DEF q
  <2> QED
    BY <1>1, <1>2, <1>4, <2>1, <2>2, <2>3 DEF EditReq, Loaded, Blank
<1>8. Family(q)
  <2> HIDE DEF q
  <2> QED
    BY <1>7 DEF Family
<1> QED
  <2> HIDE DEF new
  <2> QED
    BY <1>1, <1>3, <1>8, LoadStep

LEMMA VoidStep ==
    ASSUME Inv, NEW s \in Slot, NEW d \in Doc,
           LoadVoid(s, d)
    PROVE  Inv'
<1> DEFINE new == [x \in {d} |-> [row[x] EXCEPT !.voided = TRUE]]
           q == Request("void", {}, new, <<>>, <<>>)
<1>1. Begin(s, q) /\ Voidable(d)
  BY DEF LoadVoid
<1>2. /\ q.op = "void" /\ q.locks = {} /\ q.new = new
      /\ q.entries = <<>> /\ q.credits = <<>>
      /\ \A x \in DOMAIN new : q.seen[x] = row[x]
  BY RequestShape
<1>3. DOMAIN new = {d} /\ new = [x \in DOMAIN new |-> new[x]]
  OBVIOUS
<1>4. row[d] \in DocRow
  BY Rowed
<1>7. VoidReq(q)
  <2>1. q.new[d] = [row[d] EXCEPT !.voided = TRUE]
    BY <1>2
  <2>2. q.seen[d] = row[d] /\ DOMAIN q.new = {d}
    BY <1>2, <1>3
  <2> HIDE DEF q
  <2> QED
    BY <1>1, <1>2, <1>4, <2>1, <2>2 DEF VoidReq, Loaded, Blank, Voidable
<1>8. Family(q)
  <2> HIDE DEF q
  <2> QED
    BY <1>7 DEF Family
<1> QED
  <2> HIDE DEF new
  <2> QED
    BY <1>1, <1>3, <1>8, LoadStep DEF Voidable

LEMMA DraftStep ==
    ASSUME Inv, NEW s \in Slot, NEW d \in Doc, NEW total \in Amount,
           NEW key \in Key \cup {NoKey},
           LoadDraft(s, d, total, key)
    PROVE  Inv'
<1> DEFINE new == [x \in {d} |-> Draft(total, key)]
           q == Request("draft", {}, new, <<>>, <<>>)
<1>1. Begin(s, q) /\ Fresh(d)
  BY DEF LoadDraft
<1>2. /\ q.op = "draft" /\ q.locks = {} /\ q.new = new
      /\ q.entries = <<>> /\ q.credits = <<>>
      /\ \A x \in DOMAIN new : q.seen[x] = row[x]
  BY RequestShape
<1>3. DOMAIN new = {d} /\ new = [x \in DOMAIN new |-> new[x]]
  OBVIOUS
<1>4. Draft(total, key) \in DocRow /\ Draft(total, key).total = total /\ Draft(total, key).key = key
  <2>1. total \in Nat
    BY IssuedAssumption
  <2> QED
    BY <2>1, DraftTyped, NoDocTyped DEF Draft, DocRow
<1>7. InsertReq(q)
  <2>1. q.new[d] = Draft(total, key)
    BY <1>2
  <2>2. q.seen[d] = NoDoc /\ DOMAIN q.new = {d}
    BY <1>1, <1>2, <1>3, Rowed DEF Fresh
  <2>3. q.new[d] \in DocRow /\ q.new[d].total = total /\ q.new[d].key = key
    BY <1>4, <2>1
  <2> HIDE DEF q
  <2> QED
    BY <1>2, <2>1, <2>2, <2>3 DEF InsertReq, Blank
<1>8. Family(q)
  <2> HIDE DEF q
  <2> QED
    BY <1>7 DEF Family
<1> QED
  <2> HIDE DEF new
  <2> QED
    BY <1>1, <1>3, <1>8, LoadStep

LEMMA DuplicateStep ==
    ASSUME Inv, NEW s \in Slot, NEW d \in Doc, NEW copy \in Doc,
           LoadDuplicate(s, d, copy)
    PROVE  Inv'
<1> DEFINE new == [x \in {copy} |-> Draft(row[d].total, NoKey)]
           q == Request("duplicate", {}, new, <<>>, <<>>)
<1>1. Begin(s, q) /\ Fresh(copy)
  BY DEF LoadDuplicate
<1>2. /\ q.op = "duplicate" /\ q.locks = {} /\ q.new = new
      /\ q.entries = <<>> /\ q.credits = <<>>
      /\ \A x \in DOMAIN new : q.seen[x] = row[x]
  BY RequestShape
<1>3. DOMAIN new = {copy} /\ new = [x \in DOMAIN new |-> new[x]]
  OBVIOUS
<1>4. /\ Draft(row[d].total, NoKey) \in DocRow
      /\ Draft(row[d].total, NoKey).total = row[d].total /\ Draft(row[d].total, NoKey).key = NoKey
  <2>1. row[d].total \in Nat
    BY Rowed DEF DocRow
  <2> QED
    BY <2>1, DraftTyped, NoDocTyped DEF Draft, DocRow
<1>7. InsertReq(q)
  <2>1. q.new[copy] = Draft(row[d].total, NoKey)
    BY <1>2
  <2>2. q.seen[copy] = NoDoc /\ DOMAIN q.new = {copy}
    BY <1>1, <1>2, <1>3, Rowed DEF Fresh
  <2>3. q.new[copy] \in DocRow /\ q.new[copy].total = row[d].total /\ q.new[copy].key = NoKey
    BY <1>4, <2>1
  <2> HIDE DEF q
  <2> QED
    BY <1>2, <2>1, <2>2, <2>3 DEF InsertReq, Blank
<1>8. Family(q)
  <2> HIDE DEF q
  <2> QED
    BY <1>7 DEF Family
<1> QED
  <2> HIDE DEF new
  <2> QED
    BY <1>1, <1>3, <1>8, LoadStep

LEMMA CreateStep ==
    ASSUME Inv, NEW s \in Slot, NEW d \in Doc, NEW total \in Amount,
           NEW key \in Key \cup {NoKey},
           LoadCreate(s, d, total, key)
    PROVE  Inv'
<1> DEFINE new == [x \in {d, Issuer} |->
                    IF x = d
                    THEN [Draft(total, key) EXCEPT !.life = "issued", !.number = row[Issuer].next]
                    ELSE Drawn(1)]
           q == Request("create", {Issuer}, new, <<>>, <<>>)
<1>1. Begin(s, q) /\ Fresh(d)
  BY DEF LoadCreate
<1>2. /\ q.op = "create" /\ q.locks = {Issuer} /\ q.new = new
      /\ q.entries = <<>> /\ q.credits = <<>>
      /\ \A x \in DOMAIN new : q.seen[x] = row[x]
  BY RequestShape
<1>3. DOMAIN new = {d, Issuer} /\ new = [x \in DOMAIN new |-> new[x]]
  OBVIOUS
<1>4. /\ Draft(total, key) \in DocRow /\ Draft(total, key).total = total
      /\ Draft(total, key).key = key /\ row[Issuer] \in IssuerRow
  <2>1. total \in Nat
    BY IssuedAssumption
  <2> QED
    BY <2>1, Rowed, DraftTyped, NoDocTyped DEF Draft, DocRow
<1>7. CreateReq(q)
  <2>1. /\ q.new[d] = [Draft(total, key) EXCEPT !.life = "issued", !.number = row[Issuer].next]
        /\ q.new[Issuer] = [row[Issuer] EXCEPT !.next = @ + 1]
    BY <1>2, Names DEF Drawn
  <2>2. q.seen[d] = NoDoc /\ q.seen[Issuer] = row[Issuer] /\ DOMAIN q.new = {d, Issuer}
    BY <1>1, <1>2, <1>3, Rowed DEF Fresh
  <2>3. q.new[d] \in DocRow /\ q.new[d].total = total /\ q.new[d].key = key
    BY <1>4, <2>1 DEF DocRow, IssuerRow, Lifecycle
  <2> HIDE DEF q
  <2>4. DrawsOne(q, d)
    BY <1>4, <2>1, <2>2 DEF DrawsOne
  <2> QED
    BY <1>2, <2>1, <2>2, <2>3, <2>4 DEF CreateReq, Blank
<1>8. Family(q)
  <2> HIDE DEF q
  <2> QED
    BY <1>7 DEF Family
<1> QED
  <2> HIDE DEF new
  <2> QED
    BY <1>1, <1>3, <1>8, LoadStep, Names

LEMMA IssueStep ==
    ASSUME Inv, NEW s \in Slot, NEW d \in Doc,
           LoadIssue(s, d)
    PROVE  Inv'
<1> DEFINE new == [x \in {d, Issuer} |->
                    IF x = d THEN [Moved("issue", d) EXCEPT !.number = row[Issuer].next]
                    ELSE Drawn(1)]
           q == Request("issue", {d, Issuer}, new, <<>>, <<>>)
<1>1. Begin(s, q) /\ row[d].life \in {"draft", "approved"}
  BY DEF LoadIssue, Legal, Transition, IssueLocks
<1>2. /\ q.op = "issue" /\ q.locks = {d, Issuer} /\ q.new = new
      /\ q.entries = <<>> /\ q.credits = <<>>
      /\ \A x \in DOMAIN new : q.seen[x] = row[x]
  BY RequestShape
<1>3. DOMAIN new = {d, Issuer} /\ new = [x \in DOMAIN new |-> new[x]]
  OBVIOUS
<1>4. row[d] \in DocRow /\ row[Issuer] \in IssuerRow
  BY Rowed
<1>7. IssueReq(q)
  <2>1. /\ q.new[d] = [row[d] EXCEPT !.life = "issued", !.number = row[Issuer].next]
        /\ q.new[Issuer] = [row[Issuer] EXCEPT !.next = @ + 1]
    BY <1>2, Names DEF Drawn, Moved, Transition
  <2>2. q.seen[d] = row[d] /\ q.seen[Issuer] = row[Issuer] /\ DOMAIN q.new = {d, Issuer}
    BY <1>2, <1>3
  <2> HIDE DEF q
  <2>4. DrawsOne(q, d)
    BY <1>4, <2>1, <2>2 DEF DrawsOne
  <2> QED
    BY <1>1, <1>2, <1>4, <2>1, <2>2, <2>4 DEF IssueReq, Blank, Loaded
<1>8. Family(q)
  <2> HIDE DEF q
  <2> QED
    BY <1>7 DEF Family
<1> QED
  <2> HIDE DEF new
  <2> QED
    BY <1>1, <1>3, <1>8, LoadStep, Names

LEMMA RescheduleStep ==
    ASSUME Inv, NEW s \in Slot, NEW next \in 1 .. MaxPeriod, NEW active \in BOOLEAN,
           LoadReschedule(s, next, active)
    PROVE  Inv'
<1> DEFINE new == [x \in {Schedule} |-> [next |-> next, active |-> active]]
           q == Request("reschedule", {}, new, <<>>, <<>>)
<1>1. Begin(s, q)
  BY DEF LoadReschedule
<1>2. /\ q.op = "reschedule" /\ q.locks = {} /\ q.new = new
      /\ q.entries = <<>> /\ q.credits = <<>>
      /\ \A x \in DOMAIN new : q.seen[x] = row[x]
  BY RequestShape
<1>3. DOMAIN new = {Schedule} /\ new = [x \in DOMAIN new |-> new[x]]
  OBVIOUS
<1>7. ScheduleReq(q)
  <2>1. q.new[Schedule] \in ScheduleRow
    BY <1>2, IssuedAssumption DEF ScheduleRow
  <2>2. q.seen[Schedule] \in ScheduleRow /\ DOMAIN q.new = {Schedule}
    BY <1>2, <1>3, Rowed
  <2> HIDE DEF q
  <2> QED
    BY <1>2, <2>1, <2>2 DEF ScheduleReq, Blank
<1>8. Family(q)
  <2> HIDE DEF q
  <2> QED
    BY <1>7 DEF Family
<1> QED
  <2> HIDE DEF new
  <2> QED
    BY <1>1, <1>3, <1>8, LoadStep, Names

LEMMA SweepLoadStep ==
    ASSUME Inv, NEW s \in Slot,
           LoadSweep(s)
    PROVE  Inv'
<1> DEFINE new == [x \in {Schedule} |->
                    [row[x] EXCEPT !.next = IF today < @ + CatchUpCap THEN today + 1
                                            ELSE @ + CatchUpCap]]
           q == Request("sweep", {}, new, <<>>, <<>>)
<1>1. Begin(s, q)
  BY DEF LoadSweep
<1>2. /\ q.op = "sweep" /\ q.locks = {} /\ q.new = new
      /\ q.entries = <<>> /\ q.credits = <<>>
      /\ \A x \in DOMAIN new : q.seen[x] = row[x]
  BY RequestShape
<1>3. DOMAIN new = {Schedule} /\ new = [x \in DOMAIN new |-> new[x]]
  OBVIOUS
<1>7. ScheduleReq(q)
  <2>1. q.new[Schedule] \in ScheduleRow
    <3>1. row[Schedule].next \in Nat \ {0} /\ today \in Nat /\ CatchUpCap \in Nat
      BY Rowed, IssuedAssumption DEF ScheduleRow, Inv, RowsInv
    <3> DEFINE next == IF today < row[Schedule].next + CatchUpCap THEN today + 1
                       ELSE row[Schedule].next + CatchUpCap
    <3>2. next \in Nat \ {0}
      BY <3>1
    <3>3. q.new[Schedule] = [row[Schedule] EXCEPT !.next = next]
      BY <1>2
    <3> HIDE DEF next
    <3> QED
      BY <3>2, <3>3, Rowed DEF ScheduleRow
  <2>2. q.seen[Schedule] \in ScheduleRow /\ DOMAIN q.new = {Schedule}
    BY <1>2, <1>3, Rowed
  <2> HIDE DEF q
  <2> QED
    BY <1>2, <2>1, <2>2 DEF ScheduleReq, Blank
<1>8. Family(q)
  <2> HIDE DEF q
  <2> QED
    BY <1>7 DEF Family
<1> QED
  <2> HIDE DEF new
  <2> QED
    BY <1>1, <1>3, <1>8, LoadStep, Names

----------------------------------------------------------------------------
(* The operations on cash and on bank lines.                               *)

\* What the route has checked before it records an entry.
Checked(op, locks, d, e) ==
    \/ /\ op \in {"append", "record"} /\ locks = {d} /\ e.receipt = NoReceipt
       /\ e.of = 0 /\ e.amount > 0 /\ ~row[d].voided
       /\ row[d].paid + e.amount <= row[d].total - row[d].credited
    \/ /\ op = "reverse" /\ locks = {d} /\ e.receipt = NoReceipt
       /\ Corrects(e) /\ ~row[d].voided
    \/ /\ op = "allocate" /\ e.receipt \in Receipt /\ locks = {e.receipt, d}
       /\ e.of = 0 /\ e.amount > 0
       /\ row[d].paid + e.amount <= row[d].total - row[d].credited
    \/ /\ op = "deallocate" /\ e.receipt \in Receipt /\ locks = {e.receipt}
       /\ Corrects(e)

PaymentKey == Key \cup {NoKey} \cup [doc : Doc, paid : Nat]

LEMMA PayStep ==
    ASSUME Inv, NEW s \in Slot, NEW d \in Docs, NEW amount \in Int,
           NEW receipt \in Receipt \cup {NoReceipt}, NEW of \in Nat, NEW key \in PaymentKey,
           NEW op, NEW locks, Begin(s, Pay(op, locks, d, amount, receipt, of, key)),
           Checked(op, locks, d, NewEntry(d, amount, receipt, of, key)[1])
    PROVE  Inv'
<1> DEFINE new == [x \in {d} |-> [row[x] EXCEPT !.paid = @ + amount]]
           entries == NewEntry(d, amount, receipt, of, key)
           e == [doc |-> d, amount |-> amount, receipt |-> receipt, of |-> of, key |-> key]
           q == Request(op, locks, new, entries, <<>>)
<1>1. Begin(s, q)
  BY DEF Pay
<1>2. /\ q.op = op /\ q.locks = locks /\ q.new = new
      /\ q.entries = entries /\ q.credits = <<>>
      /\ \A x \in DOMAIN new : q.seen[x] = row[x]
  BY RequestShape
<1>3. DOMAIN new = {d} /\ new = [x \in DOMAIN new |-> new[x]]
  OBVIOUS
<1>4. /\ entries = <<e>> /\ entries[1] = e /\ e \in Entry
      /\ e.doc = d /\ e.amount = amount /\ e.receipt = receipt /\ e.of = of
  <2>1. d \in Doc
    BY DEF Docs
  <2>2. e \in Entry
    BY <2>1 DEF Entry, PaymentKey
  <2> QED
    BY <2>2 DEF NewEntry
<1>5. /\ q.new[d] = [row[d] EXCEPT !.paid = @ + amount]
      /\ q.seen[d] = row[d] /\ DOMAIN q.new = {d}
  BY <1>2, <1>3
<1>6. row[d] \in DocRow /\ row[d].life # "absent" /\ d \in Doc
  BY Rowed DEF Docs
<1> HIDE DEF q, new, entries, e
<1>7. e.of # 0 => Corrects(e)
  BY <1>4 DEF Checked, entries
<1>8. PayReq(q)
  <2>1. q.entries = <<e>> /\ q.entries[1] = e
    BY <1>2, <1>4
  <2>2. Corrects(e) => e.of # 0
    BY Rowed DEF Corrects
  <2>3. /\ q.op \in {"append", "record", "reverse", "allocate", "deallocate"}
        /\ \/ /\ q.op \in {"append", "record"} /\ q.locks = {d} /\ e.receipt = NoReceipt
              /\ Capped(q, d, e) /\ ~q.seen[d].voided
           \/ /\ q.op = "reverse" /\ q.locks = {d} /\ e.receipt = NoReceipt
              /\ e.of # 0 /\ ~q.seen[d].voided
           \/ /\ q.op = "allocate" /\ e.receipt \in Receipt /\ q.locks = {e.receipt, d}
              /\ Capped(q, d, e)
           \/ /\ q.op = "deallocate" /\ e.receipt \in Receipt /\ q.locks = {e.receipt}
              /\ e.of # 0
    BY <1>2, <1>4, <1>5, <2>2 DEF Checked, Capped, entries
  <2> QED
    BY <1>2, <1>4, <1>5, <1>6, <2>1, <2>3 DEF PayReq, Loaded
<1>9. Family(q)
  BY <1>8 DEF Family
<1>10. op # "match"
  BY DEF Checked
<1> QED
  BY <1>1, <1>3, <1>4, <1>6, <1>7, <1>9, <1>10, LoadStep DEF q

LEMMA EntryShape ==
    ASSUME NEW d, NEW amount, NEW receipt, NEW of, NEW key
    PROVE  LET e == NewEntry(d, amount, receipt, of, key)[1] IN
           e.doc = d /\ e.amount = amount /\ e.receipt = receipt /\ e.of = of
BY DEF NewEntry

LEMMA Owed ==
    ASSUME Inv, NEW d \in Doc, NEW amount \in Nat, amount > 0, amount <= Outstanding(d)
    PROVE  row[d].paid + amount <= row[d].total - row[d].credited
<1>1. row[d].paid \in Int /\ row[d].total \in Nat /\ row[d].credited \in Nat
  BY Rowed DEF DocRow
<1> QED
  BY <1>1 DEF Outstanding, Effective

LEMMA AppendStep ==
    ASSUME Inv, NEW s \in Slot, NEW d \in Docs, NEW amount \in Amount, NEW key \in Key,
           LoadAppend(s, d, amount, key)
    PROVE  Inv'
<1>1. /\ Begin(s, Pay("append", {d}, d, amount, NoReceipt, 0, key))
      /\ ~row[d].voided /\ amount \in 1 .. Outstanding(d)
  BY DEF LoadAppend, CashLocks, Receivable
<1>2. amount \in Nat /\ amount > 0 /\ amount <= Outstanding(d) /\ d \in Doc
  BY <1>1, IssuedAssumption DEF Docs
<1>3. Checked("append", {d}, d, NewEntry(d, amount, NoReceipt, 0, key)[1])
  BY <1>1, <1>2, Owed, EntryShape DEF Checked
<1>4. /\ key \in PaymentKey /\ amount \in Int /\ 0 \in Nat
      /\ NoReceipt \in Receipt \cup {NoReceipt}
  BY <1>2 DEF PaymentKey
<1> QED
  BY <1>1, <1>3, <1>4, PayStep

LEMMA RecordStep ==
    ASSUME Inv, NEW s \in Slot, NEW d \in Docs, NEW paid \in Amount, LoadRecord(s, d, paid)
    PROVE  Inv'
<1> DEFINE key == [doc |-> d, paid |-> paid]
           amount == paid - row[d].paid
<1>1. /\ Begin(s, Pay("record", {d}, d, amount, NoReceipt, 0, key))
      /\ ~row[d].voided /\ paid <= Effective(d) /\ paid > row[d].paid
  BY DEF LoadRecord, CashLocks, Receivable
<1>2. /\ d \in Doc /\ paid \in Nat
      /\ row[d].paid \in Int /\ row[d].total \in Nat /\ row[d].credited \in Nat
  BY IssuedAssumption, Rowed DEF Docs, DocRow
<1>3. amount \in Int /\ amount > 0 /\ row[d].paid + amount <= row[d].total - row[d].credited
  BY <1>1, <1>2 DEF Effective
<1>4. key \in PaymentKey
  BY <1>2 DEF PaymentKey
<1> HIDE DEF amount, key
<1>5. Checked("record", {d}, d, NewEntry(d, amount, NoReceipt, 0, key)[1])
  BY <1>1, <1>3, EntryShape DEF Checked
<1> QED
  BY <1>1, <1>3, <1>4, <1>5, PayStep

LEMMA AllocateStep ==
    ASSUME Inv, NEW s \in Slot, NEW r \in Receipt, NEW d \in Docs,
           NEW amount \in 1 .. ReceiptAmount, LoadAllocate(s, r, d, amount)
    PROVE  Inv'
<1>1. /\ Begin(s, Pay("allocate", {r, d}, d, amount, r, 0, NoKey))
      /\ amount <= Outstanding(d)
  BY DEF LoadAllocate, AllocateLocks
<1>2. amount \in Nat /\ amount > 0 /\ d \in Doc
  BY ReceivablesAssumption DEF Docs
<1>3. Checked("allocate", {r, d}, d, NewEntry(d, amount, r, 0, NoKey)[1])
  BY <1>1, <1>2, Owed, EntryShape DEF Checked
<1>4. NoKey \in PaymentKey
  BY DEF PaymentKey
<1> QED
  BY <1>1, <1>2, <1>3, <1>4, PayStep

LEMMA ReverseStep ==
    ASSUME Inv, NEW s \in Slot, NEW k \in DOMAIN ledger, NEW key \in Key, LoadReverse(s, k, key)
    PROVE  Inv'
<1> DEFINE d == ledger[k].doc
           amount == -ledger[k].amount
<1>1. /\ Begin(s, Pay("reverse", {d}, d, amount, NoReceipt, k, key))
      /\ ~row[d].voided /\ ledger[k].receipt = NoReceipt /\ ledger[k].amount > 0
  BY DEF LoadReverse, CashLocks, Receivable, Reversible
<1>2. d \in Docs /\ ledger[k].amount \in Int /\ amount \in Int /\ k \in Nat
  BY Rowed DEF Entry
<1>3. key \in PaymentKey
  BY DEF PaymentKey
<1>4. Checked("reverse", {d}, d, NewEntry(d, amount, NoReceipt, k, key)[1])
  BY <1>1, EntryShape DEF Checked, Corrects
<1> HIDE DEF d, amount
<1> QED
  BY <1>1, <1>2, <1>3, <1>4, PayStep

LEMMA DeallocateStep ==
    ASSUME Inv, NEW s \in Slot, NEW k \in DOMAIN ledger, LoadDeallocate(s, k)
    PROVE  Inv'
<1> DEFINE d == ledger[k].doc
           r == ledger[k].receipt
           amount == -ledger[k].amount
<1>1. /\ Begin(s, Pay("deallocate", {r}, d, amount, r, k, NoKey))
      /\ r # NoReceipt /\ ledger[k].amount > 0
  BY DEF LoadDeallocate
<1>2. d \in Docs /\ r \in Receipt /\ ledger[k].amount \in Int /\ amount \in Int /\ k \in Nat
  BY <1>1, Rowed DEF Entry
<1>3. NoKey \in PaymentKey
  BY DEF PaymentKey
<1>4. Checked("deallocate", {r}, d, NewEntry(d, amount, r, k, NoKey)[1])
  BY <1>1, <1>2, EntryShape DEF Checked, Corrects
<1> HIDE DEF d, amount, r
<1> QED
  BY <1>1, <1>2, <1>3, <1>4, PayStep

LEMMA CreditStep ==
    ASSUME Inv, NEW s \in Slot, NEW d \in Docs, NEW amount \in Amount, NEW key \in Key,
           LoadCredit(s, d, amount, key)
    PROVE  Inv'
<1> DEFINE new == [x \in {d, Issuer} |->
                     IF x = d THEN [row[d] EXCEPT !.credited = Credited(d, amount)]
                     ELSE [row[Issuer] EXCEPT !.nextCredit = @ + 1]]
           c == [of |-> d, amount |-> amount, number |-> row[Issuer].nextCredit, key |-> key]
           q == Request("credit", {d, Issuer}, new, <<>>, <<c>>)
<1>1. /\ Begin(s, q)
      /\ ~row[d].voided /\ row[d].life \in {"issued", "disputed"}
  BY DEF LoadCredit, Receivable
<1>2. /\ q.op = "credit" /\ q.locks = {d, Issuer} /\ q.new = new
      /\ q.entries = <<>> /\ q.credits = <<c>>
      /\ \A x \in DOMAIN new : q.seen[x] = row[x]
  BY RequestShape
<1>3. DOMAIN new = {d, Issuer} /\ new = [x \in DOMAIN new |-> new[x]]
  OBVIOUS
<1>4. row[d] \in DocRow /\ row[Issuer] \in IssuerRow /\ d \in Doc /\ amount \in Nat \ {0}
  BY Rowed, IssuedAssumption DEF Docs
<1>5. c \in Note /\ <<c>>[1] = c /\ c.of = d /\ c.amount = amount /\ c.number = row[Issuer].nextCredit
  BY <1>4 DEF Note, IssuerRow
<1>6. /\ q.new[d] = [row[d] EXCEPT !.credited = Credited(d, amount)]
      /\ q.new[Issuer] = [row[Issuer] EXCEPT !.nextCredit = @ + 1]
      /\ q.seen[d] = row[d] /\ q.seen[Issuer] = row[Issuer] /\ DOMAIN q.new = {d, Issuer}
  BY <1>2, <1>3, <1>4, Names
<1> HIDE DEF q, new, c
<1>7. /\ q.new[d].credited = Lesser(q.seen[d].credited + c.amount, q.seen[d].total)
      /\ q.new[d] = [q.seen[d] EXCEPT !.credited = q.new[d].credited]
  <2>1. Credited(d, amount) = Lesser(row[d].credited + amount, row[d].total)
    BY DEF Credited, Lesser
  <2>2. q.new[d].credited = Credited(d, amount)
    BY <1>4, <1>6 DEF DocRow
  <2> QED
    BY <1>5, <1>6, <2>1, <2>2
<1>8. CreditReq(q)
  <2>1. PICK e : e = q.credits[1]
    OBVIOUS
  <2>2. e = c /\ q.credits = <<e>>
    BY <1>2, <1>5, <2>1
  <2>3. q.seen[Issuer] \in IssuerRow /\ q.new[Issuer] = [q.seen[Issuer] EXCEPT !.nextCredit = @ + 1]
    BY <1>4, <1>6
  <2>4. /\ Loaded(q, d) /\ ~q.seen[d].voided /\ q.seen[d].life \in {"issued", "disputed"}
        /\ e.number = q.seen[Issuer].nextCredit
    BY <1>1, <1>4, <1>5, <1>6, <2>2 DEF Loaded
  <2>5. q.credits[1] \in Note /\ q.credits = <<q.credits[1]>> /\ q.credits[1].of = d
    BY <1>5, <2>1, <2>2
  <2> QED
    BY <1>2, <1>5, <1>6, <1>7, <2>1, <2>2, <2>3, <2>4, <2>5 DEF CreditReq
<1>9. Family(q)
  BY <1>8 DEF Family
<1>10. row[d].life # "absent"
  BY <1>1
<1> QED
  BY <1>1, <1>3, <1>9, <1>10, Names, LoadStep DEF q

\* A request on the bank line l.
LineRequest(op, locks, l, line) == Request(op, locks, [x \in {l} |-> line], <<>>, <<>>)

LEMMA LineStep ==
    ASSUME Inv, NEW s \in Slot, NEW l \in Line, NEW op, NEW locks, NEW line \in LineRow,
           Begin(s, LineRequest(op, locks, l, line)),
           IF op = "match"
           THEN line.target \in Receipt \cup DOMAIN ledger /\ locks = {line.target}
           ELSE op \in {"unmatch", "ignore"} /\ locks = {} /\ line.status # "matched"
    PROVE  Inv'
<1> DEFINE new == [x \in {l} |-> line]
           q == Request(op, locks, new, <<>>, <<>>)
<1>1. Begin(s, q)
  BY DEF LineRequest
<1>2. /\ q.op = op /\ q.locks = locks /\ q.new = new
      /\ q.entries = <<>> /\ q.credits = <<>>
      /\ \A x \in DOMAIN new : q.seen[x] = row[x]
  BY RequestShape
<1>3. DOMAIN new = {l} /\ new = [x \in DOMAIN new |-> new[x]]
  OBVIOUS
<1>4. q.new[l] = line /\ q.seen[l] \in LineRow /\ DOMAIN q.new = {l}
  BY <1>2, <1>3, Rowed
<1> HIDE DEF q, new
<1>5. LineReq(q)
  BY <1>2, <1>4, Rowed DEF LineReq, Blank
<1>6. Family(q)
  BY <1>5 DEF Family
<1> QED
  BY <1>1, <1>3, <1>6, Names, LoadStep DEF q

LEMMA MatchStep ==
    ASSUME Inv, NEW s \in Slot, NEW l \in Line,
           NEW kind \in {"receipt", "issued_payment"}, NEW target, LoadMatch(s, l, kind, target)
    PROVE  Inv'
<1> DEFINE line == [status |-> "matched", kind |-> kind, target |-> target]
<1>1. target \in Receipt \cup DOMAIN ledger
  BY DEF LoadMatch, Agrees
<1>2. line \in LineRow /\ line.target = target
  BY <1>1, Rowed DEF LineRow
<1>3. Begin(s, LineRequest("match", {target}, l, line))
  BY DEF LoadMatch, MatchLocks, LineRequest
<1> HIDE DEF line
<1> QED
  BY <1>1, <1>2, <1>3, LineStep

LEMMA UnmatchStep ==
    ASSUME Inv, NEW s \in Slot, NEW l \in Line, LoadUnmatch(s, l)
    PROVE  Inv'
<1>1. Unmatched \in LineRow /\ Unmatched.status # "matched"
  BY DEF Unmatched, LineRow
<1>2. Begin(s, LineRequest("unmatch", {}, l, Unmatched))
  BY DEF LoadUnmatch, LineRequest
<1> QED
  BY <1>1, <1>2, LineStep

LEMMA IgnoreStep ==
    ASSUME Inv, NEW s \in Slot, NEW l \in Line, LoadIgnore(s, l)
    PROVE  Inv'
<1> DEFINE line == [Unmatched EXCEPT !.status = "ignored"]
<1>1. line \in LineRow /\ line.status # "matched"
  <2>1. Unmatched \in LineRow
    BY DEF Unmatched, LineRow
  <2> QED
    BY <2>1 DEF LineRow
<1>2. Begin(s, LineRequest("ignore", {}, l, line))
  BY DEF LoadIgnore, LineRequest
<1> HIDE DEF line
<1> QED
  BY <1>1, <1>2, LineStep

----------------------------------------------------------------------------
(* A sweep that has the issuer's lock.                                     *)

\* The rank of a period among those due.
Rank(due, p) == Cardinality({q \in due : q < p})

\* The ranks of a finite set of periods are 0, 1, ... each of them once.
LEMMA Ranks ==
    ASSUME NEW due \in SUBSET Nat, IsFiniteSet(due)
    PROVE  /\ Cardinality(due) \in Nat
           /\ \A p \in due : Rank(due, p) \in 0 .. Cardinality(due) - 1
           /\ \A p, q \in due : Rank(due, p) = Rank(due, q) => p = q
           /\ \A n \in 0 .. Cardinality(due) - 1 : \E p \in due : Rank(due, p) = n
<1> DEFINE below(p) == {q \in due : q < p}
<1>1. PICK size \in Nat : size = Cardinality(due)
  BY FS_CardinalityType
<1>2. \A p \in due : p \in Nat
  OBVIOUS
<1>3. ASSUME NEW p \in due
      PROVE  IsFiniteSet(below(p)) /\ Rank(due, p) \in Nat /\ Rank(due, p) < size
  <2>1. below(p) \in SUBSET due /\ below(p) # due
    BY <1>2
  <2>2. IsFiniteSet(below(p)) /\ Cardinality(below(p)) <= size /\ Cardinality(below(p)) # size
    BY <1>1, <2>1, FS_Subset
  <2>3. Cardinality(below(p)) \in Nat
    BY <2>2, FS_CardinalityType
  <2> QED
    BY <1>1, <2>2, <2>3 DEF Rank
<1>4. ASSUME NEW p \in due, NEW q \in due, p < q
      PROVE  Rank(due, p) < Rank(due, q)
  <2>1. p \in below(q) /\ p \notin below(p)
    BY <1>2, <1>4
  <2>2. ASSUME NEW x \in below(p) PROVE x \in below(q)
    <3>1. x \in Nat /\ p \in Nat /\ q \in Nat
      BY <1>2
    <3> QED
      BY <1>4, <3>1
  <2>3. below(p) \in SUBSET below(q) /\ below(p) # below(q)
    BY <2>1, <2>2
  <2>4. IsFiniteSet(below(q)) /\ IsFiniteSet(below(p))
    BY <1>3
  <2>5. Cardinality(below(p)) <= Cardinality(below(q)) /\ Cardinality(below(p)) # Cardinality(below(q))
    BY <2>3, <2>4, FS_Subset
  <2>6. Cardinality(below(p)) \in Nat /\ Cardinality(below(q)) \in Nat
    BY <2>4, FS_CardinalityType
  <2> QED
    BY <2>5, <2>6 DEF Rank
<1> HIDE DEF below
<1>5. ASSUME NEW p \in due, NEW q \in due, Rank(due, p) = Rank(due, q)
      PROVE  p = q
  <2>1. ~(p < q) /\ ~(q < p)
    BY <1>3, <1>4, <1>5
  <2> QED
    BY <1>2, <2>1
<1> DEFINE f == [p \in due |-> Rank(due, p)]
<1>6. PICK ranks : ranks = 0 .. size - 1
  OBVIOUS
<1>7. f \in Injection(due, ranks)
  <2>1. \A p \in due : Rank(due, p) \in ranks
    BY <1>1, <1>3, <1>6
  <2>2. f \in [due -> ranks]
    BY <2>1
  <2>3. IsInjective(f)
    BY <1>5 DEF IsInjective
  <2> HIDE DEF f
  <2> QED
    BY <2>2, <2>3 DEF Injection
<1>8. IsFiniteSet(ranks) /\ Cardinality(ranks) = size
  <2>1. 0 \in Int /\ size - 1 \in Int
    OBVIOUS
  <2>2. IsFiniteSet(ranks) /\ Cardinality(ranks) = IF 0 > size - 1 THEN 0 ELSE size - 1 - 0 + 1
    BY <1>6, <2>1, FS_Interval
  <2> QED
    BY <2>2
<1>9. f \in Surjection(due, ranks)
  <2> HIDE DEF f
  <2> QED
    BY <1>1, <1>7, <1>8, FS_Injection
<1>10. \A n \in ranks : \E p \in due : Rank(due, p) = n
  BY <1>9 DEF Surjection
<1>11. \A p \in due : Rank(due, p) \in ranks
  BY <1>1, <1>3, <1>6
<1> QED
  BY <1>1, <1>5, <1>6, <1>10, <1>11

\* A request that changes, where what it now holds is free.
LEMMA ReplaceStep ==
    ASSUME Inv, NEW s \in Slot, NEW q, req' = [req EXCEPT ![s] = q],
           UNCHANGED <<row, ledger, notes, today, raced, work>>, ReqInv(q),
           \A t \in Slot : Busy(t) /\ t # s => Apart(q, req[t])
    PROVE  Inv'
<1>1. req = [t \in Slot |-> req[t]]
  BY DEF Inv, RequestsInv
<1>2. req'[s] = q /\ \A t \in Slot \ {s} : req'[t] = req[t]
  BY <1>1
<1>3. RowsInv' /\ BooksInv' /\ (work \in Workloads)'
  BY DEF Inv, RowsInv, BooksInv, Docs
<1>4. ASSUME NEW p, Rests(p) PROVE Rests(p)'
  BY <1>4 DEF Rests, Docs, Corrects
<1>5. \A t \in Slot : Busy(t)' => ReqInv(req[t])'
  <2> SUFFICES ASSUME NEW t \in Slot, Busy(t)' PROVE ReqInv(req[t])'
    OBVIOUS
  <2>1. PICK p : p = req'[t]
    OBVIOUS
  <2>2. ReqInv(p)
    BY <1>2, <2>1 DEF Inv, RequestsInv, Busy
  <2>3. Rests(p)'
    BY <1>4, <2>2 DEF ReqInv
  <2> QED
    BY <2>1, <2>2, <2>3 DEF ReqInv
<1>6. ASSUME NEW t \in Slot, Busy(t), t # s PROVE Apart(q, req[t]) /\ Apart(req[t], q)
  BY <1>6 DEF Apart
<1>7. ASSUME NEW t \in Slot, NEW u \in Slot, Busy(t)', Busy(u)', t # u
      PROVE  Apart(req[t], req[u])'
  <2>1. Apart(req'[t], req'[u])
    BY <1>2, <1>6, <1>7 DEF Inv, RequestsInv, Busy
  <2> QED
    BY <2>1 DEF Apart, Inserted
<1>8. (req = [t \in Slot |-> req[t]])'
  BY <1>1
<1> QED
  BY <1>3, <1>5, <1>7, <1>8 DEF Inv, RequestsInv

\* What a waiting sweep has read.
LEMMA WaitingSweep ==
    ASSUME Inv, NEW s \in Slot, Busy(s), Waiting(s)
    PROVE  /\ Formed(req[s]) /\ req[s].op = "sweep" /\ Blank(req[s])
           /\ DOMAIN req[s].new = {Schedule}
           /\ req[s].seen[Schedule] \in ScheduleRow /\ req[s].new[Schedule] \in ScheduleRow
<1>1. PICK q : q = req[s]
  OBVIOUS
<1>2. Formed(q) /\ Family(q) /\ q.op = "sweep" /\ q.locks = {}
  BY <1>1 DEF Inv, RequestsInv, ReqInv, Waiting
<1>3. ScheduleReq(q)
  BY <1>2 DEF Family, InsertReq, CreateReq, IssueReq, MoveReq, EditReq, SweepReq,
     PayReq, CreditReq, VoidReq, LineReq
<1> QED
  BY <1>1, <1>2, <1>3 DEF ScheduleReq

LEMMA GenerateStep ==
    ASSUME Inv, NEW s \in Slot, NEW P, NEW place \in [P -> Doc], Generate(s, place)
    PROVE  /\ Inv'
           /\ req'[s].op = "sweep" /\ req'[s].entries = <<>> /\ ~PeriodClash(req'[s])
           /\ \A t \in Slot \ {s} : req'[t] = req[t]
<1> DEFINE q == req[s]
           due == Missing(q.seen[Schedule].next .. q.new[Schedule].next - 1)
<1>1. q = req[s]
  OBVIOUS
<1>2. /\ Formed(q) /\ q.op = "sweep" /\ Blank(q) /\ DOMAIN q.new = {Schedule}
      /\ q.seen[Schedule] \in ScheduleRow /\ q.new[Schedule] \in ScheduleRow
  BY <1>1, WaitingSweep DEF Generate
<1>3. due = Missing(q.seen[Schedule].next .. q.new[Schedule].next - 1)
  OBVIOUS
<1> HIDE DEF q, due
<1>4. due \in SUBSET Nat /\ IsFiniteSet(due)
  <2>1. PICK a \in Nat, b \in Nat : a = q.seen[Schedule].next /\ b = q.new[Schedule].next
    BY <1>2 DEF ScheduleRow
  <2>2. due \in SUBSET (a .. b - 1) /\ a \in Int /\ b - 1 \in Int
    BY <1>3, <2>1 DEF Missing
  <2>3. IsFiniteSet(a .. b - 1)
    BY <2>2, FS_Interval
  <2>4. IsFiniteSet(due)
    BY <2>2, <2>3, FS_Subset
  <2>5. \A p \in a .. b - 1 : p \in Nat
    BY <2>1
  <2> QED
    BY <2>2, <2>4, <2>5
<1> DEFINE at(d) == CHOOSE p \in due : place[p] = d
           total == CHOOSE a \in Amount : TRUE
           made == {place[p] : p \in due}
           size == Cardinality(due)
           value(x) == CASE x = Issuer   -> Drawn(size)
                         [] x = Schedule -> q.new[x]
                         [] OTHER        -> [NoDoc EXCEPT !.life = "issued", !.total = total,
                                               !.number = row[Issuer].next + Rank(due, at(x)),
                                               !.period = at(x)]
           new == [x \in made \cup {Issuer, Schedule} |-> value(x)]
           seen == [x \in DOMAIN new |-> IF x = Schedule THEN q.seen[x] ELSE row[x]]
<1>5. /\ Free(Issuer) /\ due = P
      /\ \A p, r \in due : p # r => place[p] # place[r]
      /\ \A p \in due : Fresh(place[p])
      /\ req' = [req EXCEPT ![s] = [q EXCEPT !.locks = {Issuer}, !.seen = seen, !.new = new]]
      /\ UNCHANGED <<row, ledger, notes, today, raced, work>>
  <2>1. Free(Issuer) /\ due = P /\ UNCHANGED <<row, ledger, notes, today, raced, work>>
    BY <1>1, <1>3 DEF Generate
  <2>2. /\ \A p, r \in due : p # r => place[p] # place[r]
        /\ \A p \in due : Fresh(place[p])
    BY <1>1, <1>3 DEF Generate
  <2>3. req' = [req EXCEPT ![s] = [q EXCEPT !.locks = {Issuer}, !.seen = seen, !.new = new]]
    BY DEF Generate, Rank, q, due
  <2> QED
    BY <2>1, <2>2, <2>3
<1>6. made \in SUBSET Doc /\ \A d \in made : Fresh(d) /\ row[d] = NoDoc
  <2>1. \A p \in due : place[p] \in Doc /\ Fresh(place[p])
    BY <1>5
  <2> QED
    BY <2>1 DEF Fresh, Inv, RowsInv
<1>7. \A p \in due : place[p] \in made /\ at(place[p]) = p
  BY <1>5
<1>8. \A d \in made : at(d) \in due /\ place[at(d)] = d
  BY <1>7
<1>9. total \in Nat
  BY IssuedAssumption
<1>10. /\ size \in Nat /\ row[Issuer] \in IssuerRow /\ row[Issuer].next \in Nat
       /\ \A p \in due : Rank(due, p) \in 0 .. size - 1
       /\ \A p, k \in due : Rank(due, p) = Rank(due, k) => p = k
       /\ \A n \in 0 .. size - 1 : \E p \in due : Rank(due, p) = n
  <2>1. row[Issuer] \in IssuerRow /\ row[Issuer].next \in Nat
    BY DEF Inv, RowsInv, IssuerRow
  <2> QED
    BY <1>4, <2>1, Ranks
<1>11. /\ DOMAIN new = made \cup {Issuer, Schedule}
       /\ new = [x \in DOMAIN new |-> new[x]] /\ seen = [x \in DOMAIN new |-> seen[x]]
  <2> HIDE DEF value, made
  <2> QED
    OBVIOUS
<1>12. /\ new[Issuer] = Drawn(size) /\ new[Schedule] = q.new[Schedule]
       /\ seen[Issuer] = row[Issuer] /\ seen[Schedule] = q.seen[Schedule]
  BY Names
<1>13. ASSUME NEW d \in made
       PROVE  /\ new[d] = [NoDoc EXCEPT !.life = "issued", !.total = total,
                             !.number = row[Issuer].next + Rank(due, at(d)), !.period = at(d)]
              /\ seen[d] = NoDoc
  BY <1>6, Names
<1> HIDE DEF at, total, size, made, value, new, seen
<1>14. ASSUME NEW d \in made
       PROVE  /\ new[d] \in DocRow
              /\ new[d] = [NoDoc EXCEPT !.life = "issued", !.total = new[d].total,
                                        !.number = new[d].number, !.period = new[d].period]
              /\ new[d].number = row[Issuer].next + Rank(due, at(d))
              /\ new[d].period = at(d)
  <2>1. PICK n \in Nat : n = row[Issuer].next + Rank(due, at(d))
    BY <1>8, <1>10
  <2>2. PICK p \in Nat : p = at(d)
    BY <1>4, <1>8
  <2>3. new[d] = [NoDoc EXCEPT !.life = "issued", !.total = total, !.number = n, !.period = p]
    BY <1>13, <2>1, <2>2
  <2>4. PICK t \in Nat : t = total
    BY <1>9
  <2>5. new[d] \in DocRow /\ new[d].total = total /\ new[d].number = n /\ new[d].period = p
    BY <2>3, <2>4, NoDocTyped DEF DocRow, Lifecycle
  <2> QED
    BY <2>1, <2>2, <2>3, <2>5
<1>15. /\ new[Issuer] \in IssuerRow
       /\ new[Issuer].nextCredit = row[Issuer].nextCredit
       /\ new[Issuer].next = row[Issuer].next + size
  BY <1>10, <1>12 DEF Drawn, IssuerRow
<1> DEFINE r == [op |-> "sweep", locks |-> {Issuer}, seen |-> seen, new |-> new,
                 entries |-> <<>>, credits |-> <<>>]
<1>16. req' = [req EXCEPT ![s] = r]
  <2>1. /\ q.op = "sweep" /\ q.entries = <<>> /\ q.credits = <<>>
        /\ q = [op |-> q.op, locks |-> q.locks, seen |-> q.seen, new |-> q.new,
                entries |-> q.entries, credits |-> q.credits]
    BY <1>2 DEF Formed, Blank
  <2>2. PICK op, locks, old, last, entries, credits :
          q = [op |-> op, locks |-> locks, seen |-> old, new |-> last,
               entries |-> entries, credits |-> credits]
    BY <2>1
  <2>3. op = "sweep" /\ entries = <<>> /\ credits = <<>>
    BY <2>1, <2>2
  <2> DEFINE held == [op |-> op, locks |-> {Issuer}, seen |-> old, new |-> last,
                      entries |-> entries, credits |-> credits]
             read == [op |-> op, locks |-> {Issuer}, seen |-> seen, new |-> last,
                      entries |-> entries, credits |-> credits]
  <2>4. [q EXCEPT !.locks = {Issuer}] = held
    BY <2>2
  <2>5. [held EXCEPT !.seen = seen] = read
    OBVIOUS
  <2>6. r = [op |-> op, locks |-> {Issuer}, seen |-> seen, new |-> new,
             entries |-> entries, credits |-> credits]
    BY <2>3
  <2> HIDE DEF r
  <2>7. [read EXCEPT !.new = new] = r
    BY <2>6
  <2> HIDE DEF held, read
  <2>8. [q EXCEPT !.locks = {Issuer}, !.seen = seen, !.new = new]
          = [[[q EXCEPT !.locks = {Issuer}] EXCEPT !.seen = seen] EXCEPT !.new = new]
    OBVIOUS
  <2> QED
    BY <1>5, <2>4, <2>5, <2>7, <2>8
<1>17. /\ r.op = "sweep" /\ r.locks = {Issuer} /\ r.seen = seen /\ r.new = new
       /\ r.entries = <<>> /\ r.credits = <<>> /\ Formed(r)
  BY <1>11 DEF Formed
<1> HIDE DEF r
<1>18. Drawing(r, made)
  <2>1. PICK n \in Nat : n = row[Issuer].next
    BY <1>10
  <2>2. /\ r.seen[Issuer].next = n /\ r.new[Issuer].next = n + size
        /\ \A d \in made : r.new[d].number = n + Rank(due, at(d))
    BY <1>12, <1>14, <1>15, <1>17, <2>1
  <2>3. \A d \in made : Rank(due, at(d)) \in 0 .. size - 1
    BY <1>8, <1>10
  <2>4. ASSUME NEW d \in made, NEW e \in made, r.new[d].number = r.new[e].number
        PROVE  d = e
    <3>1. Rank(due, at(d)) = Rank(due, at(e))
      BY <2>1, <2>2, <2>3, <2>4
    <3>2. at(d) = at(e)
      BY <1>8, <1>10, <3>1
    <3> QED
      BY <1>8, <3>2
  <2>5. ASSUME NEW m \in n .. n + size - 1
        PROVE  \E d \in made : r.new[d].number = m
    <3>1. PICK k \in 0 .. size - 1 : m = n + k
      <4>1. m - n \in 0 .. size - 1 /\ m = n + (m - n)
        BY <1>10, <2>1
      <4> QED
        BY <4>1
    <3>2. PICK p \in due : Rank(due, p) = k
      BY <1>10
    <3> QED
      BY <1>7, <2>2, <3>1, <3>2
  <2>6. \A d \in made : r.new[d].number \in n .. n + size - 1
    BY <1>10, <2>1, <2>2, <2>3
  <2>7. r.seen[Issuer].next .. r.new[Issuer].next - 1 = n .. n + size - 1
    BY <1>10, <2>1, <2>2
  <2> QED
    BY <2>4, <2>5, <2>6, <2>7 DEF Drawing
<1>19. SweepReq(r)
  <2>1. row[Issuer].next <= row[Issuer].next + size
    BY <1>10
  <2> QED
    BY <1>2, <1>6, <1>10, <1>11, <1>12, <1>13, <1>14, <1>15, <1>17, <1>18, <2>1
    DEF SweepReq, Blank
<1>20. /\ Inserted(r) = made /\ DOMAIN r.new \cap Doc = made
  <2>1. DOMAIN r.new \cap Doc = made
    BY <1>6, <1>11, <1>17, Names
  <2>2. \A d \in made : r.seen[d].life = "absent"
    BY <1>13, <1>17, NoDocTyped
  <2> QED
    BY <2>1, <2>2 DEF Inserted
<1>21. ReqInv(r)
  <2>1. Rests(r)
    BY <1>6, <1>12, <1>17, <1>20 DEF Rests
  <2> QED
    BY <1>17, <1>19, <2>1 DEF ReqInv, Family
<1>22. ASSUME NEW t \in Slot, Busy(t), t # s PROVE Apart(r, req[t])
  <2>1. r.locks \cap req[t].locks = {}
    BY <1>5, <1>17, <1>22 DEF Free
  <2>2. Inserted(r) \cap Inserted(req[t]) = {}
    BY <1>6, <1>20, <1>22 DEF Fresh, Inserted
  <2> QED
    BY <2>1, <2>2 DEF Apart
<1>23. ~PeriodClash(r)
  <2>1. ASSUME NEW d \in made PROVE \A e \in Docs : row[e].period # r.new[d].period
    <3>1. r.new[d].period = at(d) /\ at(d) \in due
      BY <1>8, <1>14, <1>17
    <3> QED
      BY <1>3, <3>1 DEF Missing
  <2> QED
    BY <1>20, <2>1 DEF PeriodClash
<1>24. req'[s] = r /\ \A t \in Slot \ {s} : req'[t] = req[t]
  BY <1>16 DEF Inv, RequestsInv
<1>25. Inv'
  BY <1>5, <1>16, <1>21, <1>22, ReplaceStep
<1> QED
  BY <1>17, <1>23, <1>24, <1>25

----------------------------------------------------------------------------
(* Commit writes the columns a request changed.                            *)

\* A column as it is after a commit.
Column(current, seen, new) == IF new = seen THEN current ELSE new

LEMMA FlushDoc ==
    ASSUME NEW a \in DocRow, NEW old \in DocRow, NEW new \in DocRow
    PROVE  /\ Flush(a, old, new) \in DocRow
           /\ Flush(a, old, new).life = Column(a.life, old.life, new.life)
           /\ Flush(a, old, new).number = Column(a.number, old.number, new.number)
           /\ Flush(a, old, new).total = Column(a.total, old.total, new.total)
           /\ Flush(a, old, new).paid = Column(a.paid, old.paid, new.paid)
           /\ Flush(a, old, new).credited = Column(a.credited, old.credited, new.credited)
           /\ Flush(a, old, new).voided = Column(a.voided, old.voided, new.voided)
           /\ Flush(a, old, new).period = Column(a.period, old.period, new.period)
           /\ Flush(a, old, new).key = Column(a.key, old.key, new.key)
<1> DEFINE f == Flush(a, old, new)
<1>1. f = [c \in DOMAIN a |-> IF new[c] = old[c] THEN a[c] ELSE new[c]]
  BY DEF Flush
<1>2. DOMAIN a = {"life", "number", "total", "paid", "credited", "voided", "period", "key"}
  BY DEF DocRow
<1> HIDE DEF f
<1>3. /\ f.life = Column(a.life, old.life, new.life)
      /\ f.number = Column(a.number, old.number, new.number)
      /\ f.total = Column(a.total, old.total, new.total)
      /\ f.paid = Column(a.paid, old.paid, new.paid)
      /\ f.credited = Column(a.credited, old.credited, new.credited)
      /\ f.voided = Column(a.voided, old.voided, new.voided)
      /\ f.period = Column(a.period, old.period, new.period)
      /\ f.key = Column(a.key, old.key, new.key)
  BY <1>1, <1>2 DEF Column
<1>4. f = [life |-> f.life, number |-> f.number, total |-> f.total, paid |-> f.paid,
           credited |-> f.credited, voided |-> f.voided, period |-> f.period, key |-> f.key]
  BY <1>1, <1>2
<1>5. /\ f.life \in Lifecycle \cup {"absent"} /\ f.number \in Nat /\ f.total \in Nat
      /\ f.paid \in Int /\ f.credited \in Nat /\ f.voided \in BOOLEAN
      /\ f.period \in Nat /\ f.key \in Key \cup {NoKey}
  BY <1>3 DEF Column, DocRow
<1>6. f \in DocRow
  BY <1>4, <1>5 DEF DocRow
<1> QED
  BY <1>3, <1>6 DEF f

LEMMA FlushLine ==
    ASSUME NEW a \in LineRow, NEW old \in LineRow, NEW new \in LineRow
    PROVE  /\ Flush(a, old, new) \in LineRow
           /\ Flush(a, old, new).status = Column(a.status, old.status, new.status)
           /\ Flush(a, old, new).kind = Column(a.kind, old.kind, new.kind)
           /\ Flush(a, old, new).target = Column(a.target, old.target, new.target)
BY DEF Flush, Column, LineRow

LEMMA FlushIssuer ==
    ASSUME NEW a \in IssuerRow, NEW old \in IssuerRow, NEW new \in IssuerRow
    PROVE  /\ Flush(a, old, new) \in IssuerRow
           /\ Flush(a, old, new).next = Column(a.next, old.next, new.next)
           /\ Flush(a, old, new).nextCredit = Column(a.nextCredit, old.nextCredit, new.nextCredit)
BY DEF Flush, Column, IssuerRow

LEMMA FlushSchedule ==
    ASSUME NEW a \in ScheduleRow, NEW old \in ScheduleRow, NEW new \in ScheduleRow
    PROVE  Flush(a, old, new) \in ScheduleRow
BY DEF Flush, ScheduleRow

\* The columns of a table.
LEMMA Columns ==
    ASSUME NEW T, T \in {DocRow, LineRow, IssuerRow, ScheduleRow}, NEW a \in T, NEW b \in T
    PROVE  DOMAIN a = DOMAIN b /\ a = [c \in DOMAIN a |-> a[c]]
<1>1. CASE T = DocRow
  BY <1>1 DEF DocRow
<1>2. CASE T = LineRow
  BY <1>2 DEF LineRow
<1>3. CASE T = IssuerRow
  BY <1>3 DEF IssuerRow
<1>4. CASE T = ScheduleRow
  BY <1>4 DEF ScheduleRow
<1> QED
  BY <1>1, <1>2, <1>3, <1>4

\* A row that is current is replaced, and one that is not changed is kept.
LEMMA FlushCurrent ==
    ASSUME NEW T, T \in {DocRow, LineRow, IssuerRow, ScheduleRow},
           NEW old \in T, NEW new \in T
    PROVE  Flush(old, old, new) = new
<1>1. DOMAIN new = DOMAIN old /\ new = [c \in DOMAIN new |-> new[c]]
  BY Columns
<1> QED
  BY <1>1 DEF Flush

LEMMA FlushKept ==
    ASSUME NEW T, T \in {DocRow, LineRow, IssuerRow, ScheduleRow},
           NEW a \in T, NEW old
    PROVE  Flush(a, old, old) = a
<1>1. a = [c \in DOMAIN a |-> a[c]]
  BY Columns
<1> QED
  BY <1>1 DEF Flush

\* A sequence to which at most one element is appended.
Grown(old, new, more) ==
    \/ more = <<>> /\ new = old
    \/ more = <<more[1]>> /\ new = Append(old, more[1])

LEMMA ConcatGrows ==
    ASSUME NEW T, NEW old \in Seq(T), NEW more,
           more = <<>> \/ (more = <<more[1]>> /\ more[1] \in T)
    PROVE  Grown(old, old \o more, more)
<1>1. CASE more = <<>>
  BY <1>1 DEF Grown
<1>2. ASSUME NEW e \in T, more = <<e>> PROVE old \o more = Append(old, e) /\ more[1] = e
  BY <1>2
<1> QED
  BY <1>1, <1>2 DEF Grown

\* What a commit of request q does to the tables and the books.
Writes(s, q) ==
    /\ q = req[s] /\ Busy(s) /\ ReqInv(q) /\ Typed(q) /\ Books(q)
    /\ row' = [x \in Tables |-> row'[x]]
    /\ \A x \in Tables \ DOMAIN q.new : row'[x] = row[x]
    /\ \A x \in DOMAIN q.new : row'[x] = Flush(row[x], q.seen[x], q.new[x])
    /\ Grown(ledger, ledger', q.entries)
    /\ Grown(notes, notes', q.credits)
    /\ req' = [req EXCEPT ![s] = NoRequest] /\ today' = today /\ work' = work
    /\ \A t \in Slot \ {s} : Busy(t) =>
         \A x \in DOMAIN q.new : x \in req[t].locks => q.new[x] = q.seen[x]

LEMMA CommitWrites ==
    ASSUME Inv, NEW s \in Slot, Commit(s), NEW q, q = req[s]
    PROVE  Writes(s, q)
<1>1. Busy(s) /\ ReqInv(q)
  BY DEF Commit, Inv, RequestsInv
<1>2. Typed(q) /\ Books(q)
  BY <1>1, FamilyTyped, FamilyBooks DEF ReqInv
<1>3. row = [x \in Tables |-> row[x]] /\ DOMAIN row = Tables
  BY DEF Inv, RowsInv
<1>4. DOMAIN q.new \subseteq Tables
  BY <1>2 DEF Typed
<1>5. /\ row' = [x \in Tables |-> row'[x]]
      /\ \A x \in Tables \ DOMAIN q.new : row'[x] = row[x]
      /\ \A x \in DOMAIN q.new : row'[x] = Flush(row[x], q.seen[x], q.new[x])
  BY <1>3, <1>4 DEF Commit
<1>6. Grown(ledger, ledger', q.entries)
  <2>1. ledger \in Seq(Entry) /\ ledger' = ledger \o q.entries
    BY DEF Commit, Inv, BooksInv
  <2>2. q.entries = <<>> \/ (q.entries = <<q.entries[1]>> /\ q.entries[1] \in Entry)
    BY <1>2 DEF Books
  <2> QED
    BY <2>1, <2>2, ConcatGrows
<1>7. Grown(notes, notes', q.credits)
  <2>1. notes \in Seq(Note) /\ notes' = notes \o q.credits
    BY DEF Commit, Inv, BooksInv
  <2>2. q.credits = <<>> \/ (q.credits = <<q.credits[1]>> /\ q.credits[1] \in Note)
    BY <1>2 DEF Books
  <2> QED
    BY <2>1, <2>2, ConcatGrows
<1>8. /\ req' = [req EXCEPT ![s] = NoRequest] /\ today' = today /\ work' = work
      /\ \A t \in Slot \ {s} : Busy(t) =>
           \A x \in DOMAIN q.new : x \in req[t].locks => q.new[x] = q.seen[x]
  BY DEF Commit
<1> QED
  BY <1>1, <1>2, <1>5, <1>6, <1>7, <1>8 DEF Writes

\* The row of an invoice, column by column.
LEMMA CommitDoc ==
    ASSUME Inv, NEW s \in Slot, NEW q, Writes(s, q), NEW d \in DOMAIN q.new \cap Doc
    PROVE  /\ row[d] \in DocRow /\ q.seen[d] \in DocRow /\ q.new[d] \in DocRow
           /\ row'[d] \in DocRow
           /\ row'[d].life = Column(row[d].life, q.seen[d].life, q.new[d].life)
           /\ row'[d].number = Column(row[d].number, q.seen[d].number, q.new[d].number)
           /\ row'[d].total = Column(row[d].total, q.seen[d].total, q.new[d].total)
           /\ row'[d].paid = Column(row[d].paid, q.seen[d].paid, q.new[d].paid)
           /\ row'[d].credited = Column(row[d].credited, q.seen[d].credited, q.new[d].credited)
           /\ row'[d].voided = Column(row[d].voided, q.seen[d].voided, q.new[d].voided)
           /\ row'[d].period = Column(row[d].period, q.seen[d].period, q.new[d].period)
           /\ row'[d].key = Column(row[d].key, q.seen[d].key, q.new[d].key)
<1>1. row[d] \in DocRow /\ q.seen[d] \in DocRow /\ q.new[d] \in DocRow
  BY DEF Inv, RowsInv, Writes, Typed
<1>2. row'[d] = Flush(row[d], q.seen[d], q.new[d])
  BY DEF Writes
<1> QED
  BY <1>1, <1>2, FlushDoc

\* What a request inserts or holds is current when it commits.
LEMMA CommitHeld ==
    ASSUME Inv, NEW s \in Slot, NEW q, Writes(s, q),
           NEW x \in DOMAIN q.new, x \in q.locks \/ x \in Inserted(q)
    PROVE  row'[x] = q.new[x] /\ row[x] = q.seen[x]
<1>1. row[x] = q.seen[x]
  <2>1. CASE x \in q.locks
    BY <2>1 DEF Writes, ReqInv, Rests
  <2>2. CASE x \in Inserted(q)
    BY <2>2 DEF Writes, ReqInv, Rests, Inserted, Typed
  <2> QED
    BY <2>1, <2>2
<1>2. PICK T \in {DocRow, LineRow, IssuerRow, ScheduleRow} : q.seen[x] \in T /\ q.new[x] \in T
  BY DEF Writes, Typed, Tables
<1>3. row'[x] = Flush(q.seen[x], q.seen[x], q.new[x])
  BY <1>1 DEF Writes
<1> QED
  BY <1>1, <1>2, <1>3, FlushCurrent

\* What another request holds, or is about to insert, is kept.
LEMMA CommitKept ==
    ASSUME Inv, NEW s \in Slot, NEW q, Writes(s, q), NEW t \in Slot \ {s}, Busy(t),
           NEW x \in Tables, x \in req[t].locks \/ x \in Inserted(req[t])
    PROVE  row'[x] = row[x]
<1>1. CASE x \notin DOMAIN q.new
  BY <1>1 DEF Writes
<1>2. CASE x \in DOMAIN q.new /\ x \in req[t].locks
  <2>1. row'[x] = Flush(row[x], q.seen[x], q.seen[x])
    BY <1>2 DEF Writes
  <2>2. row[x] \in DocRow \/ row[x] \in LineRow \/ row[x] \in IssuerRow \/ row[x] \in ScheduleRow
    BY DEF Inv, RowsInv, Tables
  <2> QED
    BY <2>1, <2>2, FlushKept
<1>3. CASE x \in DOMAIN q.new /\ x \in Inserted(req[t])
  <2>1. x \in Doc /\ row[x] = NoDoc
    BY <1>3 DEF Inv, RequestsInv, ReqInv, Rests, Inserted
  <2>2. x \notin Docs
    BY <2>1, NoDocTyped DEF Docs
  <2>3. x \in Inserted(q)
    BY <1>3, <2>1, <2>2 DEF Writes, ReqInv, Rests
  <2>4. Inserted(q) \cap Inserted(req[t]) = {}
    BY DEF Writes, Inv, RequestsInv, Apart
  <2> QED
    BY <1>3, <2>3, <2>4
<1> QED
  BY <1>1, <1>2, <1>3

LEMMA CommitRows ==
    ASSUME Inv, NEW s \in Slot, NEW q, Writes(s, q)
    PROVE  RowsInv' /\ Docs \subseteq Docs'
<1>1. \A d \in Doc \ DOMAIN q.new : row'[d] = row[d]
  BY DEF Writes, Tables
<1>2. ASSUME NEW d \in DOMAIN q.new \cap Doc PROVE row'[d] \in DocRow /\ row'[d].life # "absent"
  <2>1. CASE d \in Inserted(q)
    <3>1. row'[d] = q.new[d]
      BY <2>1, CommitHeld
    <3> QED
      BY <3>1 DEF Writes, Typed
  <2>2. CASE d \notin Inserted(q)
    <3>1. row[d].life # "absent"
      BY <2>2 DEF Writes, ReqInv, Rests, Docs
    <3>2. q.new[d].life # "absent"
      BY DEF Writes, Typed
    <3>3. row'[d] \in DocRow /\ row'[d].life = Column(row[d].life, q.seen[d].life, q.new[d].life)
      BY CommitDoc
    <3> QED
      BY <3>1, <3>2, <3>3 DEF Column
  <2> QED
    BY <2>1, <2>2
<1>3. \A d \in Doc : row'[d] \in DocRow /\ (row'[d].life = "absent" => row'[d] = NoDoc)
  BY <1>1, <1>2 DEF Inv, RowsInv
<1>4. Docs \subseteq Docs'
  <2>1. \A d \in Docs : d \in Doc /\ row'[d].life # "absent"
    BY <1>1, <1>2 DEF Docs
  <2> QED
    BY <2>1 DEF Docs
<1>5. ASSUME NEW l \in Line PROVE row'[l] \in LineRow
  <2>1. row[l] \in LineRow
    BY DEF Inv, RowsInv
  <2>2. CASE l \in DOMAIN q.new
    <3>1. /\ q.seen[l] \in LineRow /\ q.new[l] \in LineRow
          /\ row'[l] = Flush(row[l], q.seen[l], q.new[l])
      BY <2>2 DEF Writes, Typed
    <3> QED
      BY <2>1, <3>1, FlushLine
  <2>3. CASE l \notin DOMAIN q.new
    BY <2>1, <2>3 DEF Writes, Tables
  <2> QED
    BY <2>2, <2>3
<1>6. row'[Issuer] \in IssuerRow
  <2>1. row[Issuer] \in IssuerRow
    BY DEF Inv, RowsInv
  <2>2. CASE Issuer \in DOMAIN q.new
    <3>1. /\ q.seen[Issuer] \in IssuerRow /\ q.new[Issuer] \in IssuerRow
          /\ row'[Issuer] = Flush(row[Issuer], q.seen[Issuer], q.new[Issuer])
      BY <2>2 DEF Writes, Typed
    <3> QED
      BY <2>1, <3>1, FlushIssuer
  <2>3. CASE Issuer \notin DOMAIN q.new
    BY <2>1, <2>3 DEF Writes, Tables
  <2> QED
    BY <2>2, <2>3
<1>7. row'[Schedule] \in ScheduleRow
  <2>1. row[Schedule] \in ScheduleRow
    BY DEF Inv, RowsInv
  <2>2. CASE Schedule \in DOMAIN q.new
    <3>1. /\ q.seen[Schedule] \in ScheduleRow /\ q.new[Schedule] \in ScheduleRow
          /\ row'[Schedule] = Flush(row[Schedule], q.seen[Schedule], q.new[Schedule])
      BY <2>2 DEF Writes, Typed
    <3> QED
      BY <2>1, <3>1, FlushSchedule
  <2>3. CASE Schedule \notin DOMAIN q.new
    BY <2>1, <2>3 DEF Writes, Tables
  <2> QED
    BY <2>2, <2>3
<1>8. row' = [x \in Tables |-> row'[x]] /\ today' \in 0 .. MaxPeriod
  BY DEF Writes, Inv, RowsInv
<1> QED
  BY <1>3, <1>4, <1>5, <1>6, <1>7, <1>8 DEF RowsInv

\* What is in the books stays there; what is added is of an invoice that exists.
LEMMA GrownKeeps ==
    ASSUME NEW T, NEW old \in Seq(T), NEW new, NEW more, Grown(old, new, more),
           more = <<>> \/ more[1] \in T
    PROVE  /\ new \in Seq(T)
           /\ \A k \in DOMAIN old : k \in DOMAIN new /\ new[k] = old[k]
           /\ \A k \in DOMAIN new : k \in DOMAIN old \/ (more # <<>> /\ new[k] = more[1])
<1>1. CASE more = <<>> /\ new = old
  BY <1>1
<1>2. CASE more = <<more[1]>> /\ new = Append(old, more[1])
  <2>1. PICK e : e = more[1]
    OBVIOUS
  <2>2. more # <<>> /\ e \in T /\ new = Append(old, e)
    <3>1. <<e>> # <<>>
      OBVIOUS
    <3> QED
      BY <1>2, <2>1, <3>1
  <2>3. /\ new \in Seq(T)
        /\ \A k \in DOMAIN old : k \in DOMAIN new /\ new[k] = old[k]
        /\ \A k \in DOMAIN new : k \in DOMAIN old \/ new[k] = e
    BY <2>2
  <2> QED
    BY <2>1, <2>2, <2>3
<1> QED
  BY <1>1, <1>2 DEF Grown

LEMMA CommitBooks ==
    ASSUME Inv, NEW s \in Slot, NEW q, Writes(s, q)
    PROVE  /\ BooksInv'
           /\ \A k \in DOMAIN ledger : k \in DOMAIN ledger' /\ ledger'[k] = ledger[k]
<1> DEFINE kept == (DOMAIN q.new \cap Doc) \ Inserted(q)
<1>0. kept \subseteq Docs /\ Books(q)
  BY DEF Writes, ReqInv, Rests
<1> HIDE DEF kept
<1>1. q.entries = <<>> \/ (q.entries[1] \in Entry /\ q.entries[1].doc \in Docs)
  <2>1. q.entries # <<>> => q.entries[1].doc \in kept
    BY <1>0 DEF Books, kept
  <2>2. q.entries = <<>> \/ q.entries[1] \in Entry
    BY <1>0 DEF Books
  <2> QED
    BY <1>0, <2>1, <2>2
<1>2. q.credits = <<>> \/ (q.credits[1] \in Note /\ q.credits[1].of \in Docs)
  <2>1. q.credits # <<>> => q.credits[1].of \in kept
    BY <1>0 DEF Books, kept
  <2>2. q.credits = <<>> \/ q.credits[1] \in Note
    BY <1>0 DEF Books
  <2> QED
    BY <1>0, <2>1, <2>2
<1>3. /\ ledger' \in Seq(Entry)
      /\ \A k \in DOMAIN ledger : k \in DOMAIN ledger' /\ ledger'[k] = ledger[k]
      /\ \A k \in DOMAIN ledger' : k \in DOMAIN ledger
                                   \/ (q.entries # <<>> /\ ledger'[k] = q.entries[1])
  BY <1>1, GrownKeeps DEF Writes, Inv, BooksInv
<1>4. /\ notes' \in Seq(Note)
      /\ \A k \in DOMAIN notes : k \in DOMAIN notes' /\ notes'[k] = notes[k]
      /\ \A k \in DOMAIN notes' : k \in DOMAIN notes
                                  \/ (q.credits # <<>> /\ notes'[k] = q.credits[1])
  BY <1>2, GrownKeeps DEF Writes, Inv, BooksInv
<1>5. Docs \subseteq Docs'
  BY CommitRows
<1>6. \A k \in DOMAIN ledger' : ledger'[k].doc \in Docs'
  BY <1>1, <1>3, <1>5 DEF Inv, BooksInv
<1>7. \A k \in DOMAIN notes' : notes'[k].of \in Docs'
  BY <1>2, <1>4, <1>5 DEF Inv, BooksInv
<1> QED
  BY <1>3, <1>4, <1>6, <1>7 DEF BooksInv

LEMMA CommitStep ==
    ASSUME Inv, NEW s \in Slot, Commit(s)
    PROVE  Inv'
<1>1. PICK q : q = req[s]
  OBVIOUS
<1>2. Writes(s, q)
  BY <1>1, CommitWrites
<1>3. RowsInv' /\ Docs \subseteq Docs'
  BY <1>2, CommitRows
<1>4. BooksInv' /\ \A k \in DOMAIN ledger : k \in DOMAIN ledger' /\ ledger'[k] = ledger[k]
  BY <1>2, CommitBooks
<1>5. req = [t \in Slot |-> req[t]] /\ req' = [req EXCEPT ![s] = NoRequest]
  BY <1>2 DEF Inv, RequestsInv, Writes
<1>6. ~Busy(s)' /\ \A t \in Slot \ {s} : req'[t] = req[t]
  BY <1>5 DEF Busy
<1>7. ASSUME NEW t \in Slot \ {s}, Busy(t), NEW p, p = req[t]
      PROVE  Rests(p)'
  <2>1. Rests(p)
    BY <1>7 DEF Inv, RequestsInv, ReqInv
  <2>2. \A x \in p.locks \cap DOMAIN p.new : row'[x] = p.seen[x]
    <3>1. Typed(p)
      BY <1>7, FamilyTyped DEF Inv, RequestsInv, ReqInv
    <3>2. \A x \in p.locks \cap DOMAIN p.new : x \in Tables
      BY <3>1 DEF Typed
    <3> QED
      BY <1>2, <1>7, <2>1, <3>2, CommitKept DEF Rests
  <2>3. \A d \in Inserted(p) : row'[d] = NoDoc
    <3>1. \A d \in Inserted(p) : d \in Tables
      BY DEF Inserted, Tables
    <3> QED
      BY <1>2, <1>7, <2>1, <3>1, CommitKept DEF Rests
  <2>4. Corrects(p.entries[1]) => Corrects(p.entries[1])'
    BY <1>4 DEF Corrects
  <2>5. DOMAIN ledger \subseteq DOMAIN ledger'
    BY <1>4
  <2>6. Inserted(p)' = Inserted(p)
    BY DEF Inserted
  <2> QED
    BY <1>3, <2>1, <2>2, <2>3, <2>4, <2>5, <2>6 DEF Rests
<1>8. ASSUME NEW t \in Slot, Busy(t)' PROVE ReqInv(req[t])'
  <2>1. t \in Slot \ {s} /\ Busy(t)
    BY <1>6, <1>8 DEF Busy
  <2>2. PICK p : p = req[t] /\ p = req'[t]
    BY <1>6, <2>1
  <2>3. ReqInv(p)
    BY <2>1, <2>2 DEF Inv, RequestsInv
  <2>4. Rests(p)'
    BY <1>7, <2>1, <2>2
  <2> QED
    BY <2>2, <2>3, <2>4 DEF ReqInv
<1>9. ASSUME NEW t \in Slot, NEW u \in Slot, Busy(t)', Busy(u)', t # u
      PROVE  Apart(req[t], req[u])'
  <2>1. t # s /\ u # s /\ Busy(t) /\ Busy(u) /\ req'[t] = req[t] /\ req'[u] = req[u]
    BY <1>6, <1>9 DEF Busy
  <2>2. Apart(req'[t], req'[u])
    BY <1>9, <2>1 DEF Inv, RequestsInv
  <2> QED
    BY <2>2 DEF Apart, Inserted
<1>10. (req = [t \in Slot |-> req[t]])'
  BY <1>5
<1>11. work' \in Workloads
  BY <1>2 DEF Writes, Inv
<1> QED
  BY <1>3, <1>4, <1>8, <1>9, <1>10, <1>11 DEF Inv, RequestsInv

----------------------------------------------------------------------------
(* A request as it is when it loads.                                       *)

Steady(ops, d) == \A op \in ops : <<op, d>> \notin raced

\* No other request changed the line under a change of it.
Untouched(l) == Steady({"match", "unmatch", "ignore"}, l)

\* What an entry takes back is still there, and what it takes from a receipt is left.
Due(e) ==
    IF e.of # 0 THEN ~Reversed(e.of)
    ELSE e.receipt # NoReceipt =>
           AmountsIn(ledger, AllocationsOf(e.receipt)) + e.amount <= ReceiptAmount

\* No other line has what a line is about to be matched with.
Single(q) ==
    \A l \in DOMAIN q.new, m \in Line :
        m # l /\ Untouched(m) /\ row[m].status = "matched" =>
            <<row[m].kind, row[m].target>> # <<q.new[l].kind, q.new[l].target>>

Fit(q) ==
    /\ ~PeriodClash(q)
    /\ q.entries # <<>> => Due(q.entries[1])
    /\ q.op = "match" => Single(q)

\* Only a sweep that has the issuer's lock inserts invoices of a period.
Periodless(q) == \A d \in Inserted(q) : q.new[d].period = 0

LEMMA NoPeriods ==
    ASSUME NEW q, Family(q), q.op = "sweep" => q.locks = {}
    PROVE  Periodless(q)
<1>1. SUFFICES ASSUME NEW d \in Inserted(q) PROVE q.new[d].period = 0
  BY <1>1 DEF Periodless
<1> USE Names, NoDocTyped DEF Inserted
<1>2. CASE InsertReq(q)
  <2>1. q.new[d] = Draft(q.new[d].total, q.new[d].key)
    BY <1>2 DEF InsertReq
  <2> QED
    BY <2>1 DEF Draft, NoDoc
<1>3. CASE CreateReq(q)
  <2>1. PICK n : q.new[d] = [Draft(q.new[d].total, q.new[d].key)
                               EXCEPT !.life = "issued", !.number = n]
    BY <1>3 DEF CreateReq, DrawsOne
  <2> QED
    BY <2>1 DEF Draft, NoDoc
<1>4. CASE SweepReq(q)
  BY <1>4 DEF SweepReq
<1>5. CASE IssueReq(q) \/ MoveReq(q) \/ EditReq(q) \/ VoidReq(q)
  <2>1. PICK e \in Doc : Loaded(q, e) /\ d \in {e, Issuer}
    BY <1>5 DEF IssueReq, MoveReq, EditReq, VoidReq, DrawsOne
  <2> QED
    BY <2>1 DEF Loaded
<1>6. CASE PayReq(q) \/ CreditReq(q)
  <2>1. PICK e \in Doc : Loaded(q, e) /\ d \in {e, Issuer}
    <3>1. CASE PayReq(q)
      BY <3>1 DEF PayReq, Loaded
    <3>2. CASE CreditReq(q)
      BY <3>2 DEF CreditReq, Loaded
    <3> QED
      BY <1>6, <3>1, <3>2
  <2> QED
    BY <2>1 DEF Loaded
<1>7. CASE ScheduleReq(q) \/ LineReq(q)
  BY <1>7 DEF ScheduleReq, LineReq
<1> QED
  BY <1>2, <1>3, <1>4, <1>5, <1>6, <1>7 DEF Family

Still == UNCHANGED <<row, ledger, notes, raced, work>>

\* The step is that of one request, which does not write.
Takes(s) ==
    /\ Still
    /\ \A t \in Slot \ {s} : req'[t] = req[t]
    /\ req'[s] # NoRequest => Fit(req'[s])

LEMMA BeginTakes ==
    ASSUME Inv, Inv', NEW s \in Slot, NEW q, Begin(s, q),
           q.op # "sweep" \/ q.locks = {}, q.op # "match" \/ Single(q),
           q.entries = <<>> \/ Due(q.entries[1])
    PROVE  Takes(s)
<1>1. req' = [req EXCEPT ![s] = q] /\ Still
  BY DEF Begin, Still
<1>2. req'[s] = q /\ \A t \in Slot \ {s} : req'[t] = req[t]
  BY <1>1 DEF Inv, RequestsInv
<1>3. ASSUME q # NoRequest PROVE Family(q)
  <2>1. Busy(s)'
    BY <1>2, <1>3 DEF Busy
  <2>2. ReqInv(req[s])'
    BY <2>1 DEF Inv, RequestsInv
  <2> QED
    BY <1>2, <2>2 DEF ReqInv
<1>4. q # NoRequest => Fit(q)
  BY <1>3, NoPeriods DEF Fit, Periodless, PeriodClash
<1> QED
  BY <1>1, <1>2, <1>4 DEF Takes

LEMMA PlainTakes ==
    ASSUME Inv, Inv', NEW s \in Slot, NEW op, NEW locks, NEW new, NEW credits,
           Begin(s, Request(op, locks, new, <<>>, credits)),
           op # "sweep" \/ locks = {}, op # "match"
    PROVE  Takes(s)
<1>1. PICK q : q = Request(op, locks, new, <<>>, credits)
  OBVIOUS
<1>2. q.op = op /\ q.locks = locks /\ q.entries = <<>> /\ Begin(s, q)
  BY <1>1 DEF Request
<1> QED
  BY <1>2, BeginTakes

LEMMA PayTakes ==
    ASSUME Inv, Inv', NEW s \in Slot, NEW op \in {"append", "record", "reverse", "allocate", "deallocate"},
           NEW locks, NEW d, NEW amount, NEW receipt, NEW of, NEW key,
           Begin(s, Pay(op, locks, d, amount, receipt, of, key)),
           Due(NewEntry(d, amount, receipt, of, key)[1])
    PROVE  Takes(s)
<1>1. PICK q : q = Pay(op, locks, d, amount, receipt, of, key)
  OBVIOUS
<1>2. q.op = op /\ q.entries = NewEntry(d, amount, receipt, of, key) /\ Begin(s, q)
  BY <1>1 DEF Pay, Request
<1> QED
  BY <1>2, BeginTakes

LEMMA WorkKeys == ASSUME Inv PROVE work.keys \subseteq Key
BY WorkloadAssumption DEF Inv

\* The sums over parts of a ledger are sums of integers.
LEMMA SeqSums ==
    ASSUME NEW T \in {Entry, Note}, NEW l \in Seq(T), NEW S \in SUBSET DOMAIN l
    PROVE  /\ IsFiniteSet(S) /\ \A k \in S : l[k] \in T /\ l[k].amount \in Int
           /\ AmountsIn(l, S) \in Int
<1>1. IsFiniteSet(S)
  <2>1. PICK n \in Nat : n = Len(l) /\ DOMAIN l = 1 .. n
    OBVIOUS
  <2>2. IsFiniteSet(1 .. n)
    BY <2>1, FS_Interval
  <2> QED
    BY <2>1, <2>2, FS_Subset
<1>2. \A k \in S : l[k] \in T /\ l[k].amount \in Int
  <2>1. \A k \in S : l[k] \in T
    OBVIOUS
  <2>2. \A x \in T : x.amount \in Int
    <3>1. \A x \in Entry : x.amount \in Int
      BY DEF Entry
    <3>2. \A x \in Note : x.amount \in Int
      BY DEF Note
    <3> QED
      BY <3>1, <3>2
  <2> QED
    BY <2>1, <2>2
<1> QED
  BY <1>1, <1>2, AmountsInt

LEMMA LedgerSums ==
    ASSUME Inv, NEW S \in SUBSET DOMAIN ledger
    PROVE  /\ IsFiniteSet(S) /\ \A k \in S : ledger[k] \in Entry /\ ledger[k].amount \in Int
           /\ AmountsIn(ledger, S) \in Int
BY SeqSums DEF Inv, BooksInv

LEMMA GenerateTakes ==
    ASSUME Inv, NEW s \in Slot, NEW P, NEW place \in [P -> Doc], Generate(s, place)
    PROVE  Inv' /\ Takes(s)
<1>1. /\ Inv' /\ req'[s].op = "sweep" /\ req'[s].entries = <<>> /\ ~PeriodClash(req'[s])
      /\ \A t \in Slot \ {s} : req'[t] = req[t]
  BY GenerateStep
<1>2. Still
  BY DEF Generate, Still
<1> QED
  BY <1>1, <1>2 DEF Takes, Fit

LEMMA MoveTakes ==
    ASSUME Inv, NEW s \in Slot, NEW d \in Doc,
           NEW action \in {"approve", "cancel", "dispute", "undispute", "write_off"},
           LoadMove(s, action, d)
    PROVE  Inv' /\ Takes(s)
<1>1. Inv'
  BY MoveStep
<1>2. PICK new : Begin(s, Request(action, {}, new, <<>>, <<>>))
  BY DEF LoadMove
<1> QED
  BY <1>1, <1>2, PlainTakes

LEMMA IssuingTakes ==
    ASSUME Inv, NEW s \in Slot, Issuing(s)
    PROVE  Inv' /\ Takes(s)
<1>1. ASSUME NEW d \in Doc, NEW total \in Amount, NEW key \in work.keys \cup {NoKey},
             LoadDraft(s, d, total, key)
      PROVE  Inv' /\ Takes(s)
  <2>1. key \in Key \cup {NoKey}
    BY WorkKeys
  <2>2. Inv'
    BY <1>1, <2>1, DraftStep
  <2>3. PICK new : Begin(s, Request("draft", {}, new, <<>>, <<>>))
    BY <1>1 DEF LoadDraft
  <2> QED
    BY <2>2, <2>3, PlainTakes
<1>2. ASSUME NEW d \in Doc, NEW total \in Amount, NEW key \in work.keys \cup {NoKey},
             LoadCreate(s, d, total, key)
      PROVE  Inv' /\ Takes(s)
  <2>1. key \in Key \cup {NoKey}
    BY WorkKeys
  <2>2. Inv'
    BY <1>2, <2>1, CreateStep
  <2>3. PICK new : Begin(s, Request("create", {Issuer}, new, <<>>, <<>>))
    BY <1>2 DEF LoadCreate
  <2> QED
    BY <2>2, <2>3, PlainTakes
<1>3. ASSUME NEW d \in Doc, NEW total \in Amount, LoadEdit(s, d, total)
      PROVE  Inv' /\ Takes(s)
  <2>1. Inv'
    BY <1>3, EditStep
  <2>2. PICK new : Begin(s, Request("edit", {}, new, <<>>, <<>>))
    BY <1>3 DEF LoadEdit
  <2> QED
    BY <2>1, <2>2, PlainTakes
<1>4. ASSUME NEW d \in Doc, LoadIssue(s, d)
      PROVE  Inv' /\ Takes(s)
  <2>1. Inv'
    BY <1>4, IssueStep
  <2>2. PICK new : Begin(s, Request("issue", IssueLocks(d), new, <<>>, <<>>))
    BY <1>4 DEF LoadIssue
  <2> QED
    BY <2>1, <2>2, PlainTakes
<1>5. ASSUME NEW d \in Doc, NEW copy \in Doc, LoadDuplicate(s, d, copy)
      PROVE  Inv' /\ Takes(s)
  <2>1. Inv'
    BY <1>5, DuplicateStep
  <2>2. PICK new : Begin(s, Request("duplicate", {}, new, <<>>, <<>>))
    BY <1>5 DEF LoadDuplicate
  <2> QED
    BY <2>1, <2>2, PlainTakes
<1>6. ASSUME LoadSweep(s) PROVE Inv' /\ Takes(s)
  <2>1. Inv'
    BY <1>6, SweepLoadStep
  <2>2. PICK new : Begin(s, Request("sweep", {}, new, <<>>, <<>>))
    BY <1>6 DEF LoadSweep
  <2> QED
    BY <2>1, <2>2, PlainTakes
<1>7. ASSUME NEW P, NEW place \in [P -> Doc \cap work.rows], Generate(s, place)
      PROVE  Inv' /\ Takes(s)
  <2>1. place \in [P -> Doc]
    OBVIOUS
  <2> QED
    BY <1>7, <2>1, GenerateTakes
<1>8. ASSUME NEW next \in 1 .. MaxPeriod, NEW active \in BOOLEAN, LoadReschedule(s, next, active)
      PROVE  Inv' /\ Takes(s)
  <2>1. Inv'
    BY <1>8, RescheduleStep
  <2>2. PICK new : Begin(s, Request("reschedule", {}, new, <<>>, <<>>))
    BY <1>8 DEF LoadReschedule
  <2> QED
    BY <2>1, <2>2, PlainTakes
<1>9. ASSUME NEW d \in Doc, LoadMove(s, "approve", d) \/ LoadMove(s, "cancel", d)
      PROVE  Inv' /\ Takes(s)
  BY <1>9, MoveTakes
<1> QED
  BY <1>1, <1>2, <1>3, <1>4, <1>5, <1>6, <1>7, <1>8, <1>9 DEF Issuing

LEMMA CashTakes ==
    ASSUME Inv, NEW s \in Slot, Cash(s)
    PROVE  Inv' /\ Takes(s)
<1> USE DEF Docs
<1>1. ASSUME NEW d \in Docs, NEW amount \in Amount, NEW key \in work.keys,
             LoadAppend(s, d, amount, key)
      PROVE  Inv' /\ Takes(s)
  <2>1. Inv'
    BY <1>1, WorkKeys, AppendStep
  <2>2. Begin(s, Pay("append", CashLocks(d), d, amount, NoReceipt, 0, key))
    BY <1>1 DEF LoadAppend
  <2>3. Due(NewEntry(d, amount, NoReceipt, 0, key)[1])
    BY EntryShape DEF Due
  <2> QED
    BY <2>1, <2>2, <2>3, PayTakes
<1>2. ASSUME NEW d \in Docs, NEW paid \in Amount, LoadRecord(s, d, paid)
      PROVE  Inv' /\ Takes(s)
  <2>1. Inv'
    BY <1>2, RecordStep
  <2>2. PICK amount, key : Begin(s, Pay("record", CashLocks(d), d, amount, NoReceipt, 0, key))
    BY <1>2 DEF LoadRecord
  <2>3. Due(NewEntry(d, amount, NoReceipt, 0, key)[1])
    BY EntryShape DEF Due
  <2> QED
    BY <2>1, <2>2, <2>3, PayTakes
<1>3. ASSUME NEW d \in Docs, NEW amount \in Amount, NEW key \in work.keys,
             LoadCredit(s, d, amount, key)
      PROVE  Inv' /\ Takes(s)
  <2>1. Inv'
    BY <1>3, WorkKeys, CreditStep
  <2>2. PICK new, credits : Begin(s, Request("credit", {d, Issuer}, new, <<>>, credits))
    BY <1>3 DEF LoadCredit
  <2> QED
    BY <2>1, <2>2, PlainTakes
<1>4. ASSUME NEW d \in Docs, NEW r \in Receipt, NEW amount \in 1 .. ReceiptAmount,
             LoadAllocate(s, r, d, amount)
      PROVE  Inv' /\ Takes(s)
  <2>1. Inv'
    BY <1>4, AllocateStep
  <2>2. /\ Begin(s, Pay("allocate", AllocateLocks(r, d), d, amount, r, 0, NoKey))
        /\ amount <= ReceiptAmount - AmountsIn(ledger, AllocationsOf(r))
    BY <1>4 DEF LoadAllocate, CashOf, AmountsIn
  <2>3. AmountsIn(ledger, AllocationsOf(r)) \in Int
    <3>1. AllocationsOf(r) \in SUBSET DOMAIN ledger
      BY DEF AllocationsOf
    <3> QED
      BY <3>1, LedgerSums
  <2>4. Due(NewEntry(d, amount, r, 0, NoKey)[1])
    <3>1. amount \in Int /\ ReceiptAmount \in Int
      BY ReceivablesAssumption
    <3>2. AmountsIn(ledger, AllocationsOf(r)) + amount <= ReceiptAmount
      BY <2>2, <2>3, <3>1
    <3> QED
      BY <3>2, EntryShape DEF Due
  <2> QED
    BY <2>1, <2>2, <2>4, PayTakes
<1>5. ASSUME NEW d \in Docs, LoadVoid(s, d)
      PROVE  Inv' /\ Takes(s)
  <2>1. Inv'
    BY <1>5, VoidStep
  <2>2. PICK new : Begin(s, Request("void", {}, new, <<>>, <<>>))
    BY <1>5 DEF LoadVoid
  <2> QED
    BY <2>1, <2>2, PlainTakes
<1>6. ASSUME NEW d \in Docs,
             LoadMove(s, "dispute", d) \/ LoadMove(s, "write_off", d) \/ LoadMove(s, "undispute", d)
      PROVE  Inv' /\ Takes(s)
  BY <1>6, MoveTakes
<1>7. ASSUME NEW k \in DOMAIN ledger, LoadDeallocate(s, k)
      PROVE  Inv' /\ Takes(s)
  <2>1. Inv'
    BY <1>7, DeallocateStep
  <2>2. PICK d, r, amount : Begin(s, Pay("deallocate", {r}, d, amount, r, k, NoKey))
    BY <1>7 DEF LoadDeallocate
  <2>3. Due(NewEntry(d, amount, r, k, NoKey)[1])
    <3>1. ~Reversed(k) /\ k # 0
      BY <1>7 DEF LoadDeallocate, Inv, BooksInv
    <3> QED
      BY <3>1, EntryShape DEF Due
  <2> QED
    BY <2>1, <2>2, <2>3, PayTakes
<1>8. ASSUME NEW k \in DOMAIN ledger, NEW key \in work.keys, LoadReverse(s, k, key)
      PROVE  Inv' /\ Takes(s)
  <2>1. Inv'
    BY <1>8, WorkKeys, ReverseStep
  <2>2. PICK d, amount : Begin(s, Pay("reverse", CashLocks(d), d, amount, NoReceipt, k, key))
    BY <1>8 DEF LoadReverse
  <2>3. Due(NewEntry(d, amount, NoReceipt, k, key)[1])
    <3>1. ~Reversed(k) /\ k # 0
      BY <1>8 DEF LoadReverse, Reversible, Inv, BooksInv
    <3> QED
      BY <3>1, EntryShape DEF Due
  <2> QED
    BY <2>1, <2>2, <2>3, PayTakes
<1> QED
  BY <1>1, <1>2, <1>3, <1>4, <1>5, <1>6, <1>7, <1>8 DEF Cash

LEMMA BankingTakes ==
    ASSUME Inv, NEW s \in Slot, Banking(s)
    PROVE  Inv' /\ Takes(s)
<1>1. ASSUME NEW l \in Line, NEW kind \in {"receipt", "issued_payment"}, NEW target,
             LoadMatch(s, l, kind, target)
      PROVE  Inv' /\ Takes(s)
  <2>1. Inv'
    BY <1>1, MatchStep
  <2> DEFINE line == [status |-> "matched", kind |-> kind, target |-> target]
  <2>2. PICK q : q = Request("match", MatchLocks(target), [x \in {l} |-> line], <<>>, <<>>)
    OBVIOUS
  <2>3. /\ Begin(s, q) /\ q.op = "match" /\ q.entries = <<>>
        /\ DOMAIN q.new = {l} /\ q.new[l] = line
    BY <1>1, <2>2 DEF LoadMatch, Request
  <2>4. Single(q)
    <3>1. \A m \in Line \ {l} : ~(row[m].status = "matched" /\ row[m].kind = kind
                                  /\ row[m].target = target)
      BY <1>1 DEF LoadMatch
    <3> QED
      BY <2>3, <3>1 DEF Single
  <2> QED
    BY <2>1, <2>3, <2>4, BeginTakes
<1>2. ASSUME NEW l \in Line, LoadUnmatch(s, l)
      PROVE  Inv' /\ Takes(s)
  <2>1. Inv'
    BY <1>2, UnmatchStep
  <2>2. PICK new : Begin(s, Request("unmatch", {}, new, <<>>, <<>>))
    BY <1>2 DEF LoadUnmatch
  <2> QED
    BY <2>1, <2>2, PlainTakes
<1>3. ASSUME NEW l \in Line, LoadIgnore(s, l)
      PROVE  Inv' /\ Takes(s)
  <2>1. Inv'
    BY <1>3, IgnoreStep
  <2>2. PICK new : Begin(s, Request("ignore", {}, new, <<>>, <<>>))
    BY <1>3 DEF LoadIgnore
  <2> QED
    BY <2>1, <2>2, PlainTakes
<1> QED
  BY <1>1, <1>2, <1>3 DEF Banking

----------------------------------------------------------------------------
(* The layer that everything else rests on.                                *)

LEMMA RollbackTakes ==
    ASSUME Inv, NEW s \in Slot, Rollback(s)
    PROVE  Inv' /\ Takes(s)
<1>1. req = [t \in Slot |-> req[t]] /\ req' = [req EXCEPT ![s] = NoRequest] /\ Still
      /\ UNCHANGED <<row, ledger, notes, today, raced, work>>
  BY DEF Rollback, Inv, RequestsInv, Still
<1>2. req'[s] = NoRequest /\ \A t \in Slot \ {s} : req'[t] = req[t]
  BY <1>1
<1>3. (work \in Workloads)' /\ RowsInv' /\ BooksInv'
  BY <1>1 DEF Inv, RowsInv, BooksInv, Docs
<1>4. ASSUME NEW p, Rests(p) PROVE Rests(p)'
  BY <1>1, <1>4 DEF Rests, Docs, Corrects
<1>5. ASSUME NEW t \in Slot, Busy(t)' PROVE ReqInv(req[t])'
  <2>1. t # s /\ Busy(t)
    BY <1>2, <1>5 DEF Busy
  <2>2. PICK p : p = req[t] /\ p = req'[t]
    BY <1>2, <2>1
  <2>3. ReqInv(p)
    BY <2>1, <2>2 DEF Inv, RequestsInv
  <2>4. Rests(p)'
    BY <1>4, <2>3 DEF ReqInv
  <2> QED
    BY <2>2, <2>3, <2>4 DEF ReqInv
<1>6. ASSUME NEW t \in Slot, NEW u \in Slot, Busy(t)', Busy(u)', t # u
      PROVE  Apart(req[t], req[u])'
  <2>1. t # s /\ u # s /\ Busy(t) /\ Busy(u) /\ req'[t] = req[t] /\ req'[u] = req[u]
    BY <1>2, <1>6 DEF Busy
  <2>2. Apart(req'[t], req'[u])
    BY <1>6, <2>1 DEF Inv, RequestsInv
  <2> QED
    BY <2>2 DEF Apart, Inserted
<1>7. (req = [t \in Slot |-> req[t]])'
  BY <1>1
<1>8. Inv'
  BY <1>3, <1>5, <1>6, <1>7 DEF Inv, RequestsInv
<1> QED
  BY <1>1, <1>2, <1>8 DEF Takes

LEMMA StillStep ==
    ASSUME Inv, Still, req' = req, today' \in 0 .. MaxPeriod
    PROVE  Inv'
<1>1. (work \in Workloads)' /\ RowsInv' /\ BooksInv'
  BY DEF Still, Inv, RowsInv, BooksInv, Docs
<1>2. ASSUME NEW p, Rests(p) PROVE Rests(p)'
  BY <1>2 DEF Still, Rests, Docs, Corrects
<1>3. ASSUME NEW t \in Slot, Busy(t)' PROVE ReqInv(req[t])'
  <2>1. Busy(t)
    BY <1>3 DEF Busy
  <2>2. PICK p : p = req[t] /\ p = req'[t]
    OBVIOUS
  <2>3. ReqInv(p)
    BY <2>1, <2>2 DEF Inv, RequestsInv
  <2>4. Rests(p)'
    BY <1>2, <2>3 DEF ReqInv
  <2> QED
    BY <2>2, <2>3, <2>4 DEF ReqInv
<1>4. ASSUME NEW t \in Slot, NEW u \in Slot, Busy(t)', Busy(u)', t # u
      PROVE  Apart(req[t], req[u])'
  BY <1>4 DEF Inv, RequestsInv, Busy, Apart, Inserted
<1>5. (req = [t \in Slot |-> req[t]])'
  BY DEF Inv, RequestsInv
<1> QED
  BY <1>1, <1>3, <1>4, <1>5 DEF Inv, RequestsInv

\* Every step is a commit, the step of one request that writes nothing, or no
\* step of a request at all.
StepShape ==
    \/ Still /\ req' = req
    \/ \E s \in Slot : Takes(s)
    \/ \E s \in Slot : Commit(s)

LEMMA StepInv ==
    ASSUME Inv, [Next]_vars
    PROVE  Inv' /\ StepShape
<1>1. ASSUME NEW s \in Slot, Issuing(s) \/ Cash(s) \/ Banking(s) \/ Rollback(s)
      PROVE  Inv' /\ StepShape
  BY <1>1, IssuingTakes, CashTakes, BankingTakes, RollbackTakes DEF StepShape
<1>2. ASSUME NEW s \in Slot, Commit(s)
      PROVE  Inv' /\ StepShape
  BY <1>2, CommitStep DEF StepShape
<1>3. CASE Tick
  <2>1. Still /\ req' = req /\ today' = today + 1 /\ today < MaxPeriod
    BY <1>3 DEF Tick, Still
  <2>2. today' \in 0 .. MaxPeriod
    BY <2>1, IssuedAssumption DEF Inv, RowsInv
  <2> QED
    BY <2>1, <2>2, StillStep DEF StepShape
<1>4. CASE UNCHANGED vars
  <2>1. Still /\ req' = req /\ today' = today
    BY <1>4 DEF vars, Still
  <2>2. today' \in 0 .. MaxPeriod
    BY <2>1 DEF Inv, RowsInv
  <2> QED
    BY <2>1, <2>2, StillStep DEF StepShape
<1> QED
  BY <1>1, <1>2, <1>3, <1>4 DEF Next

\* The rows at first.
FirstDoc(d, total) ==
    \/ row[d] = NoDoc /\ \A k \in DOMAIN work.issued : work.issued[k] # d
    \/ \E k \in DOMAIN work.issued :
         /\ work.issued[k] = d
         /\ row[d] = [NoDoc EXCEPT !.life = "issued", !.total = total, !.number = k]

First(total) ==
    /\ work \in Workloads /\ total \in Amount
    /\ row = [x \in Tables |-> row[x]]
    /\ \A d \in Doc : FirstDoc(d, total)
    /\ \A l \in Line : row[l] = Unmatched
    /\ row[Issuer] = [next |-> Len(work.issued) + 1, nextCredit |-> 1]
    /\ row[Schedule] = [next |-> 1, active |-> TRUE]
    /\ ledger = <<>> /\ notes = <<>> /\ today = 0 /\ raced = {}
    /\ req = [s \in Slot |-> NoRequest]

LEMMA InitFirst ==
    ASSUME Init
    PROVE  \E total \in Amount : First(total)
<1> DEFINE issued == work.issued
           position(d) == CHOOSE k \in DOMAIN issued : issued[k] = d
           value(x, total) ==
             CASE x = Issuer   -> [next |-> Len(issued) + 1, nextCredit |-> 1]
               [] x = Schedule -> [next |-> 1, active |-> TRUE]
               [] x \in Line   -> Unmatched
               [] OTHER -> IF \E k \in DOMAIN issued : issued[k] = x
                           THEN [NoDoc EXCEPT !.life = "issued", !.total = total,
                                              !.number = position(x)]
                           ELSE NoDoc
<1>1. PICK total \in Amount : row = [x \in Tables |-> value(x, total)]
  BY DEF Init, Tables
<1>2. \A x \in Tables : row[x] = value(x, total)
  <2> HIDE DEF value
  <2> QED
    BY <1>1
<1>3. row = [x \in Tables |-> row[x]]
  <2> HIDE DEF value
  <2> QED
    BY <1>1
<1>4. /\ row[Issuer] = [next |-> Len(issued) + 1, nextCredit |-> 1]
      /\ row[Schedule] = [next |-> 1, active |-> TRUE]
      /\ \A l \in Line : row[l] = Unmatched
  BY <1>2, Names DEF Tables
<1>5. ASSUME NEW d \in Doc PROVE FirstDoc(d, total)
  <2>1. row[d] = IF \E k \in DOMAIN issued : issued[k] = d
                 THEN [NoDoc EXCEPT !.life = "issued", !.total = total, !.number = position(d)]
                 ELSE NoDoc
    BY <1>2, Names DEF Tables
  <2>2. (\E k \in DOMAIN issued : issued[k] = d) =>
          position(d) \in DOMAIN issued /\ issued[position(d)] = d
    OBVIOUS
  <2> QED
    BY <2>1, <2>2 DEF FirstDoc
<1> QED
  BY <1>3, <1>4, <1>5 DEF First, Init

LEMMA FirstTyped ==
    ASSUME NEW total, First(total)
    PROVE  /\ work.issued \in Seq(Doc) /\ total \in Nat
           /\ \A d \in Doc : row[d] \in DocRow /\ (row[d].life = "absent" => row[d] = NoDoc)
<1>1. work.issued \in Seq(Doc) /\ total \in Nat
  BY WorkloadAssumption, IssuedAssumption DEF First
<1>2. ASSUME NEW d \in Doc PROVE row[d] \in DocRow /\ (row[d].life = "absent" => row[d] = NoDoc)
  <2>1. CASE row[d] = NoDoc
    BY <2>1, NoDocTyped
  <2>2. ASSUME NEW k \in DOMAIN work.issued,
               row[d] = [NoDoc EXCEPT !.life = "issued", !.total = total, !.number = k]
        PROVE  row[d] \in DocRow /\ (row[d].life = "absent" => row[d] = NoDoc)
    <3>1. k \in Nat
      BY <1>1
    <3> QED
      BY <1>1, <2>2, <3>1, NoDocTyped DEF DocRow, Lifecycle
  <2> QED
    BY <2>1, <2>2 DEF First, FirstDoc
<1> QED
  BY <1>1, <1>2

LEMMA InitInv == ASSUME Init PROVE Inv
<1>1. PICK total : First(total)
  BY InitFirst
<1>2. /\ work.issued \in Seq(Doc)
      /\ \A d \in Doc : row[d] \in DocRow /\ (row[d].life = "absent" => row[d] = NoDoc)
  BY <1>1, FirstTyped
<1>3. Unmatched \in LineRow
  BY DEF Unmatched, LineRow
<1>4. row[Issuer] \in IssuerRow /\ row[Schedule] \in ScheduleRow
  <2>1. PICK n \in Nat \ {0} : n = Len(work.issued) + 1
    <3>1. Len(work.issued) \in Nat
      BY <1>2
    <3> QED
      BY <3>1
  <2>2. row[Issuer] = [next |-> n, nextCredit |-> 1]
    BY <1>1, <2>1 DEF First
  <2>3. row[Schedule] = [next |-> 1, active |-> TRUE]
    BY <1>1 DEF First
  <2> QED
    BY <2>2, <2>3 DEF IssuerRow, ScheduleRow
<1>5. today \in 0 .. MaxPeriod
  BY <1>1, IssuedAssumption DEF First
<1>6. RowsInv
  BY <1>1, <1>2, <1>3, <1>4, <1>5 DEF RowsInv, First
<1>7. BooksInv
  BY <1>1 DEF BooksInv, First
<1>8. RequestsInv
  <2>1. req = [s \in Slot |-> NoRequest]
    BY <1>1 DEF First
  <2>2. \A s \in Slot : ~Busy(s)
    BY <2>1 DEF Busy
  <2>3. req = [s \in Slot |-> req[s]]
    BY <2>1
  <2> QED
    BY <2>2, <2>3 DEF RequestsInv
<1> QED
  BY <1>1, <1>6, <1>7, <1>8 DEF Inv, First

\* Requests, rows and books are well formed, and nobody else writes what a
\* request holds or has the row it inserts (SELECT ... FOR UPDATE).
THEOREM RequestsSound == Spec => []Inv
<1>1. Init => Inv
  BY InitInv
<1>2. Inv /\ [Next]_vars => Inv'
  BY StepInv
<1> QED
  BY <1>1, <1>2, PTL DEF Spec

----------------------------------------------------------------------------
(* The types, and the columns that an operation leaves alone.              *)

\* The locks of a request are rows, receipts or payments.
LEMMA LocksTyped ==
    ASSUME NEW q, Family(q), Rests(q)
    PROVE  q.locks \subseteq Tables \cup Receipt \cup DOMAIN ledger
<1>1. CASE InsertReq(q) \/ MoveReq(q) \/ EditReq(q) \/ VoidReq(q) \/ ScheduleReq(q)
  BY <1>1 DEF InsertReq, MoveReq, EditReq, VoidReq, ScheduleReq
<1>2. CASE CreateReq(q) \/ SweepReq(q)
  BY <1>2 DEF CreateReq, SweepReq, Tables
<1>3. CASE IssueReq(q)
  BY <1>3 DEF IssueReq, Tables
<1>4. CASE PayReq(q)
  <2>1. PICK e, d : e = q.entries[1] /\ d = e.doc
    OBVIOUS
  <2>2. q.locks \subseteq {d} \cup Receipt
    BY <1>4, <2>1 DEF PayReq
  <2>3. d \in Doc
    BY <1>4, <2>1 DEF PayReq, Loaded
  <2> QED
    BY <2>2, <2>3 DEF Tables
<1>5. CASE CreditReq(q)
  BY <1>5 DEF CreditReq, Tables, Loaded
<1>6. CASE LineReq(q)
  <2>1. CASE q.op = "match"
    BY <2>1 DEF Rests
  <2>2. CASE q.op # "match"
    BY <1>6, <2>2 DEF LineReq
  <2> QED
    BY <2>1, <2>2
<1> QED
  BY <1>1, <1>2, <1>3, <1>4, <1>5, <1>6 DEF Family

LEMMA Typing == ASSUME Inv PROVE TypeOK
<1>1. DOMAIN row = Tables
  BY DEF Inv, RowsInv
<1>2. /\ \A d \in Doc : row[d] \in DocRow
      /\ \A l \in Line : row[l] \in LineRow
      /\ row[Issuer] \in IssuerRow /\ row[Schedule] \in ScheduleRow
      /\ today \in 0 .. MaxPeriod
  BY DEF Inv, RowsInv
<1>3. \A k \in DOMAIN ledger : ledger[k] \in Entry
  <2>1. ledger \in Seq(Entry)
    BY DEF Inv, BooksInv
  <2> QED
    BY <2>1
<1>4. \A k \in DOMAIN notes : notes[k] \in Note
  <2>1. notes \in Seq(Note)
    BY DEF Inv, BooksInv
  <2> QED
    BY <2>1
<1>5. ASSUME NEW s \in Slot, Busy(s)
      PROVE  /\ req[s].locks \subseteq DOMAIN row \cup Receipt \cup DOMAIN ledger
             /\ DOMAIN req[s].new \subseteq DOMAIN row
             /\ Len(req[s].entries) + Len(req[s].credits) <= 1
  <2>1. PICK q : q = req[s]
    OBVIOUS
  <2>2. Formed(q) /\ Family(q) /\ Rests(q)
    BY <1>5, <2>1 DEF Inv, RequestsInv, ReqInv
  <2>3. Typed(q) /\ Books(q)
    BY <2>2, FamilyTyped, FamilyBooks
  <2>4. q.locks \subseteq DOMAIN row \cup Receipt \cup DOMAIN ledger
    BY <1>1, <2>2, LocksTyped
  <2>5. DOMAIN q.new \subseteq DOMAIN row
    BY <1>1, <2>3 DEF Typed
  <2>6. Len(q.entries) + Len(q.credits) <= 1
    <3>1. PICK e, c : e = q.entries[1] /\ c = q.credits[1]
      OBVIOUS
    <3>2. Len(<<e>>) = 1 /\ Len(<<c>>) = 1 /\ Len(<<>>) = 0
      OBVIOUS
    <3>3. \/ q.entries = <<>> /\ q.credits = <<>>
          \/ q.entries = <<e>> /\ q.credits = <<>>
          \/ q.entries = <<>> /\ q.credits = <<c>>
      BY <2>3, <3>1 DEF Books
    <3>4. PICK i \in 0 .. 1, j \in 0 .. 1 : Len(q.entries) = i /\ Len(q.credits) = j /\ i + j <= 1
      <4>1. /\ 0 \in 0 .. 1 /\ 1 \in 0 .. 1
            /\ 0 + 0 <= 1 /\ 1 + 0 <= 1 /\ 0 + 1 <= 1
        OBVIOUS
      <4> QED
        BY <3>2, <3>3, <4>1
    <3> QED
      BY <3>4
  <2> QED
    BY <2>1, <2>4, <2>5, <2>6
<1> QED
  BY <1>2, <1>3, <1>4, <1>5 DEF TypeOK

\* Which operation writes which column of an invoice it has loaded.
Keeps(q, d) ==
    /\ q.new[d].key = q.seen[d].key
    /\ q.new[d].period = q.seen[d].period
    /\ q.op = "issue" \/ q.new[d].number = q.seen[d].number
    /\ q.op = "edit" \/ q.new[d].total = q.seen[d].total
    /\ PayReq(q) \/ q.new[d].paid = q.seen[d].paid
    /\ CreditReq(q) \/ q.new[d].credited = q.seen[d].credited
    /\ VoidReq(q) \/ q.new[d].voided = q.seen[d].voided
    /\ q.op = "issue" \/ MoveReq(q) \/ q.new[d].life = q.seen[d].life

\* What an invoice is born with.
Born(q, d) ==
    /\ q.new[d].paid = 0 /\ q.new[d].credited = 0 /\ q.new[d].voided = FALSE
    /\ \/ q.op \in {"draft", "duplicate"} /\ q.new[d].life = "draft" /\ q.new[d].number = 0
                                          /\ q.new[d].period = 0
       \/ q.op = "create" /\ q.new[d].life = "issued" /\ q.new[d].period = 0
       \/ q.op = "sweep" /\ q.new[d].life = "issued" /\ q.new[d].key = NoKey

LEMMA ColumnsWritten ==
    ASSUME NEW q, Formed(q), Family(q), NEW d \in DOMAIN q.new \cap Doc
    PROVE  IF d \in Inserted(q) THEN Born(q, d) ELSE Keeps(q, d)
<1> USE Names, NoDocTyped DEF Inserted
<1>0. Typed(q) /\ q.seen[d] \in DocRow
  BY FamilyTyped DEF Typed
<1>1. CASE InsertReq(q)
  <2>1. /\ q.new[d] = Draft(q.new[d].total, q.new[d].key) /\ q.seen[d] = NoDoc
        /\ q.op \in {"draft", "duplicate"}
    BY <1>1 DEF InsertReq
  <2> QED
    BY <2>1 DEF Draft, NoDoc, Born
<1>2. CASE CreateReq(q)
  <2>1. PICK n : /\ q.new[d] = [Draft(q.new[d].total, q.new[d].key)
                                  EXCEPT !.life = "issued", !.number = n]
                 /\ q.seen[d] = NoDoc /\ q.op = "create"
    BY <1>2 DEF CreateReq, DrawsOne
  <2> QED
    BY <2>1 DEF Draft, NoDoc, Born
<1>3. CASE SweepReq(q)
  <2>1. /\ q.new[d] = [NoDoc EXCEPT !.life = "issued", !.total = q.new[d].total,
                                    !.number = q.new[d].number, !.period = q.new[d].period]
        /\ q.seen[d] = NoDoc /\ q.op = "sweep"
    BY <1>3 DEF SweepReq
  <2> QED
    BY <2>1 DEF NoDoc, Born
<1>4. CASE IssueReq(q)
  <2>1. PICK n : /\ q.new[d] = [q.seen[d] EXCEPT !.life = "issued", !.number = n]
                 /\ q.seen[d].life # "absent" /\ q.op = "issue"
    BY <1>4 DEF IssueReq, DrawsOne, Loaded
  <2> QED
    BY <1>0, <2>1 DEF Keeps, DocRow
<1>5. CASE MoveReq(q)
  <2>1. PICK v : /\ q.new[d] = [q.seen[d] EXCEPT !.life = v]
                 /\ q.seen[d].life # "absent"
    BY <1>5 DEF MoveReq, Loaded
  <2> QED
    BY <1>0, <1>5, <2>1 DEF Keeps, DocRow
<1>6. CASE EditReq(q)
  <2>1. PICK v : /\ q.new[d] = [q.seen[d] EXCEPT !.total = v]
                 /\ q.seen[d].life # "absent" /\ q.op = "edit"
    BY <1>6 DEF EditReq, Loaded
  <2> QED
    BY <1>0, <2>1 DEF Keeps, DocRow
<1>7. CASE PayReq(q)
  <2>1. PICK v : /\ q.new[d] = [q.seen[d] EXCEPT !.paid = v]
                 /\ q.seen[d].life # "absent"
    BY <1>7 DEF PayReq, Loaded
  <2> QED
    BY <1>0, <1>7, <2>1 DEF Keeps, DocRow
<1>8. CASE CreditReq(q)
  <2>1. PICK v : /\ q.new[d] = [q.seen[d] EXCEPT !.credited = v]
                 /\ q.seen[d].life # "absent"
    BY <1>8 DEF CreditReq, Loaded
  <2> QED
    BY <1>0, <1>8, <2>1 DEF Keeps, DocRow
<1>9. CASE VoidReq(q)
  <2>1. PICK v : /\ q.new[d] = [q.seen[d] EXCEPT !.voided = v]
                 /\ q.seen[d].life # "absent"
    BY <1>9 DEF VoidReq, Loaded
  <2> QED
    BY <1>0, <1>9, <2>1 DEF Keeps, DocRow
<1>10. CASE ScheduleReq(q) \/ LineReq(q)
  BY <1>10 DEF ScheduleReq, LineReq
<1> QED
  BY <1>1, <1>2, <1>3, <1>4, <1>5, <1>6, <1>7, <1>8, <1>9, <1>10 DEF Family

\* A family is told by its operation and its locks.
LEMMA FamilyOf ==
    ASSUME NEW q, Family(q)
    PROVE  /\ q.op = "create" => CreateReq(q)
           /\ q.op = "issue" => IssueReq(q)
           /\ q.op = "sweep" => SweepReq(q) \/ ScheduleReq(q)
           /\ q.op = "edit" => EditReq(q)
           /\ q.op = "match" => LineReq(q)
           /\ q.entries # <<>> => PayReq(q)
           /\ q.credits # <<>> => CreditReq(q)
           /\ Issuer \in q.locks =>
                CreateReq(q) \/ IssueReq(q) \/ SweepReq(q) \/ CreditReq(q) \/ LineReq(q)
<1> USE Names DEF Blank
<1>1. CASE InsertReq(q)
  BY <1>1 DEF InsertReq
<1>2. CASE CreateReq(q)
  BY <1>2 DEF CreateReq
<1>3. CASE IssueReq(q)
  BY <1>3 DEF IssueReq
<1>4. CASE MoveReq(q)
  BY <1>4 DEF MoveReq
<1>5. CASE EditReq(q)
  BY <1>5 DEF EditReq
<1>6. CASE ScheduleReq(q)
  BY <1>6 DEF ScheduleReq
<1>7. CASE SweepReq(q)
  BY <1>7 DEF SweepReq
<1>8. CASE PayReq(q)
  BY <1>8 DEF PayReq, Loaded
<1>9. CASE CreditReq(q)
  BY <1>9 DEF CreditReq
<1>10. CASE VoidReq(q)
  BY <1>10 DEF VoidReq
<1>11. CASE LineReq(q)
  BY <1>11 DEF LineReq
<1> QED
  BY <1>1, <1>2, <1>3, <1>4, <1>5, <1>6, <1>7, <1>8, <1>9, <1>10, <1>11 DEF Family

\* A commit that was not overtaken leaves what the request meant, or nothing new.
LEMMA NotOvertaken ==
    ASSUME Inv, NEW s \in Slot, Commit(s), NEW q, Writes(s, q), NEW x \in DOMAIN q.new,
           <<q.op, x>> \notin raced'
    PROVE  \/ row'[x] = q.new[x] /\ row[x] = q.seen[x]
           \/ row'[x] = row[x] /\ q.new[x] = q.seen[x]
<1>1. PICK T \in {DocRow, LineRow, IssuerRow, ScheduleRow} :
        q.seen[x] \in T /\ q.new[x] \in T /\ row[x] \in T
  BY DEF Writes, Typed, Tables, Inv, RowsInv
<1>2. row'[x] = Flush(row[x], q.seen[x], q.new[x])
  BY DEF Writes
<1>3. CASE q.new[x] = q.seen[x]
  BY <1>1, <1>2, <1>3, FlushKept
<1>4. CASE row[x] = q.seen[x]
  BY <1>1, <1>2, <1>4, FlushCurrent
<1>5. CASE q.new[x] # q.seen[x] /\ row[x] # q.seen[x]
  <2>1. x \notin q.locks
    BY <1>5 DEF Writes, ReqInv, Rests
  <2>2. q = req[s]
    BY DEF Writes
  <2>3. <<q.op, x>> \in raced'
    BY <1>5, <2>1, <2>2 DEF Commit
  <2> QED
    BY <2>3
<1> QED
  BY <1>3, <1>4, <1>5

LEMMA RacedGrows ==
    ASSUME NEW s \in Slot, Commit(s)
    PROVE  raced \subseteq raced'
BY DEF Commit

----------------------------------------------------------------------------
(* The legal series.                                                       *)

\* No approval or cancellation overtook the issue of the invoice.
Calm(d) == Steady({"approve", "cancel"}, d)

Final == {"issued", "disputed", "written_off"}

NumbersInv ==
    /\ \A d \in Doc : row[d].number < row[Issuer].next
    /\ \A d, e \in Doc : row[d].number # 0 /\ row[d].number = row[e].number => d = e
    /\ \A d \in Doc : Calm(d) /\ row[d].number # 0 => row[d].life \in Final
    /\ (\A d \in Doc : Calm(d)) =>
         \A n \in 1 .. row[Issuer].next - 1 : \E d \in Doc : row[d].number = n

\* A step numbers the invoices in `made` with the next numbers, each of them once.
Draws(made) ==
    /\ \A d \in Doc \ made : row'[d].number = row[d].number
    /\ row[Issuer].next <= row'[Issuer].next
    /\ \A d \in made : row'[d].number \in row[Issuer].next .. row'[Issuer].next - 1
    /\ \A d, e \in made : row'[d].number = row'[e].number => d = e
    /\ \A n \in row[Issuer].next .. row'[Issuer].next - 1 : \E d \in made : row'[d].number = n
    /\ \A d \in made : row'[d].life = "issued" /\ row[d].life \in {"absent", "draft", "approved"}

\* The issuer's row is drawn from by those who hold it.
LEMMA IssuerKept ==
    ASSUME Inv, NEW s \in Slot, NEW q, Writes(s, q),
           q.op \notin {"create", "issue"}, ~SweepReq(q)
    PROVE  row'[Issuer].next = row[Issuer].next
<1>1. CASE Issuer \notin DOMAIN q.new
  BY <1>1 DEF Writes, Tables
<1>2. CASE Issuer \in DOMAIN q.new
  <2>1. CreditReq(q)
    <3>1. Family(q) /\ ~CreateReq(q) /\ ~IssueReq(q)
      BY DEF Writes, ReqInv, CreateReq, IssueReq
    <3>2. InsertReq(q) \/ MoveReq(q) \/ EditReq(q) \/ VoidReq(q) => Issuer \notin DOMAIN q.new
      BY Names DEF InsertReq, MoveReq, EditReq, VoidReq
    <3>3. ScheduleReq(q) \/ LineReq(q) => Issuer \notin DOMAIN q.new
      BY Names DEF ScheduleReq, LineReq
    <3>4. PayReq(q) => Issuer \notin DOMAIN q.new
      BY Names DEF PayReq, Loaded
    <3> QED
      BY <1>2, <3>1, <3>2, <3>3, <3>4 DEF Family
  <2>2. /\ Issuer \in q.locks /\ q.seen[Issuer] \in IssuerRow
        /\ q.new[Issuer] = [q.seen[Issuer] EXCEPT !.nextCredit = @ + 1]
    BY <2>1 DEF CreditReq
  <2>3. row'[Issuer] = q.new[Issuer] /\ row[Issuer] = q.seen[Issuer]
    BY <1>2, <2>2, CommitHeld
  <2>4. q.new[Issuer].next = q.seen[Issuer].next
    BY <2>2 DEF IssuerRow
  <2> QED
    BY <2>3, <2>4
<1> QED
  BY <1>1, <1>2

LEMMA CommitDraws ==
    ASSUME Inv, NEW s \in Slot, NEW q, Writes(s, q)
    PROVE  \E made \in SUBSET Doc : Draws(made)
<1>1. row[Issuer].next \in Nat /\ \A d \in Doc : row[d] \in DocRow
  BY DEF Inv, RowsInv, IssuerRow
<1>2. Formed(q) /\ Family(q)
  BY DEF Writes, ReqInv
<1>3. \A d \in Doc \ DOMAIN q.new : row'[d] = row[d]
  BY DEF Writes, Tables
<1>4. ASSUME q.op \notin {"create", "issue"}, ~SweepReq(q), NEW d \in DOMAIN q.new \cap Doc
      PROVE  row'[d].number = row[d].number
  <2>1. CASE d \in Inserted(q)
    <3>1. Born(q, d)
      BY <1>2, <2>1, ColumnsWritten
    <3>2. q.op # "sweep"
      <4>1. ~ScheduleReq(q)
        BY <2>1, Names DEF ScheduleReq, Inserted
      <4> QED
        BY <1>2, <1>4, <4>1, FamilyOf
    <3>3. q.new[d].number = 0
      BY <1>4, <3>1, <3>2 DEF Born
    <3>4. row'[d] = q.new[d]
      BY <2>1, CommitHeld
    <3>5. row[d] = NoDoc
      BY <2>1 DEF Writes, ReqInv, Rests
    <3> QED
      BY <3>3, <3>4, <3>5 DEF NoDoc
  <2>2. CASE d \notin Inserted(q)
    <3>1. q.new[d].number = q.seen[d].number
      BY <1>2, <1>4, <2>2, ColumnsWritten DEF Keeps
    <3> QED
      BY <3>1, CommitDoc DEF Column
  <2> QED
    BY <2>1, <2>2
<1>5. ASSUME q.op \notin {"create", "issue"}, ~SweepReq(q) PROVE Draws({})
  <2>1. row'[Issuer].next = row[Issuer].next
    BY <1>5, IssuerKept
  <2>2. \A d \in Doc : row'[d].number = row[d].number
    BY <1>3, <1>4, <1>5
  <2> QED
    BY <1>1, <2>1, <2>2 DEF Draws
<1>6. ASSUME NEW d \in Doc, DrawsOne(q, d), Issuer \in q.locks, d \in q.locks \/ d \in Inserted(q),
             q.new[d].number = q.seen[Issuer].next, q.new[d].life = "issued",
             q.seen[d].life \in {"absent", "draft", "approved"}
      PROVE  Draws({d})
  <2>1. /\ row'[d] = q.new[d] /\ row[d] = q.seen[d]
        /\ row'[Issuer] = q.new[Issuer] /\ row[Issuer] = q.seen[Issuer]
    BY <1>6, CommitHeld DEF DrawsOne
  <2>2. row'[Issuer].next = row[Issuer].next + 1
    BY <1>6, <2>1 DEF DrawsOne, IssuerRow
  <2>3. \A e \in Doc \ {d} : row'[e].number = row[e].number
    BY <1>3, <1>6, Names DEF DrawsOne
  <2>4. row'[d].number = row[Issuer].next
    BY <1>6, <2>1
  <2> QED
    BY <1>1, <1>6, <2>1, <2>2, <2>3, <2>4 DEF Draws
<1>7. CASE q.op = "create"
  <2>1. PICK d \in Doc :
          /\ DrawsOne(q, d) /\ q.seen[d] = NoDoc
          /\ q.new[d] = [Draft(q.new[d].total, q.new[d].key)
                           EXCEPT !.life = "issued", !.number = q.seen[Issuer].next]
    BY <1>2, <1>7, FamilyOf DEF CreateReq
  <2>2. q.new[d].number = q.seen[Issuer].next /\ q.new[d].life = "issued"
    BY <2>1 DEF Draft, NoDoc
  <2>3. d \in Inserted(q) /\ q.seen[d].life = "absent"
    BY <2>1, NoDocTyped DEF Inserted, DrawsOne
  <2>4. Issuer \in q.locks
    BY <1>2, <1>7, FamilyOf DEF CreateReq
  <2> QED
    BY <1>6, <2>1, <2>2, <2>3, <2>4
<1>8. CASE q.op = "issue"
  <2>1. PICK d \in Doc :
          /\ q.locks = {d, Issuer} /\ DrawsOne(q, d) /\ q.seen[d].life \in {"draft", "approved"}
          /\ q.seen[d] \in DocRow
          /\ q.new[d] = [q.seen[d] EXCEPT !.life = "issued", !.number = q.seen[Issuer].next]
    BY <1>2, <1>8, FamilyOf DEF IssueReq, Loaded
  <2>2. q.new[d].number = q.seen[Issuer].next /\ q.new[d].life = "issued"
    BY <2>1 DEF DocRow
  <2> QED
    BY <1>6, <2>1, <2>2
<1>9. CASE SweepReq(q)
  <2>1. PICK made \in SUBSET Doc :
          /\ q.locks = {Issuer} /\ DOMAIN q.new = made \cup {Issuer, Schedule}
          /\ q.seen[Issuer].next <= q.new[Issuer].next
          /\ \A d \in made : q.seen[d] = NoDoc
          /\ \A d \in made : q.new[d] = [NoDoc EXCEPT !.life = "issued", !.total = q.new[d].total,
                                 !.number = q.new[d].number, !.period = q.new[d].period]
          /\ Drawing(q, made)
    BY <1>9 DEF SweepReq
  <2>2. \A d \in made : d \in Inserted(q) /\ q.new[d].life = "issued"
    BY <2>1, NoDocTyped DEF Inserted, NoDoc
  <2>3. ASSUME NEW d \in made PROVE row'[d] = q.new[d] /\ row[d] = NoDoc
    <3>1. d \in DOMAIN q.new /\ d \in Inserted(q)
      BY <2>1, <2>2
    <3>2. row'[d] = q.new[d] /\ row[d] = q.seen[d]
      BY <3>1, CommitHeld
    <3> QED
      BY <2>1, <3>2
  <2>4. row'[Issuer] = q.new[Issuer] /\ row[Issuer] = q.seen[Issuer]
    <3>1. Issuer \in DOMAIN q.new /\ Issuer \in q.locks
      BY <2>1
    <3> QED
      BY <3>1, CommitHeld
  <2>5. \A d \in Doc \ made : row'[d].number = row[d].number
    BY <1>3, <2>1, Names
  <2>6. \A d \in made : /\ row'[d].number = q.new[d].number /\ row'[d].life = "issued"
                        /\ row[d].life = "absent"
    BY <2>2, <2>3, NoDocTyped
  <2>7. Draws(made)
    <3>1. PICK a, b : a = row[Issuer].next /\ b = row'[Issuer].next
      OBVIOUS
    <3>2. a = q.seen[Issuer].next /\ b = q.new[Issuer].next /\ a <= b
      BY <2>1, <2>4, <3>1
    <3>3. /\ \A d \in made : q.new[d].number \in a .. b - 1
          /\ \A d, e \in made : q.new[d].number = q.new[e].number => d = e
          /\ \A n \in a .. b - 1 : \E d \in made : q.new[d].number = n
      <4>1. Drawing(q, made)
        BY <2>1
      <4> QED
        BY <3>2, <4>1 DEF Drawing
    <3>4. \A d \in made : row'[d].number = q.new[d].number
      BY <2>6
    <3>5. /\ \A d \in made : row'[d].number \in a .. b - 1
          /\ \A d, e \in made : row'[d].number = row'[e].number => d = e
          /\ \A n \in a .. b - 1 : \E d \in made : row'[d].number = n
      BY <3>3, <3>4
    <3> QED
      BY <2>5, <2>6, <3>1, <3>2, <3>5 DEF Draws
  <2> QED
    BY <2>7
<1> QED
  BY <1>5, <1>7, <1>8, <1>9

LEMMA FinalKept ==
    ASSUME Inv, NEW s \in Slot, Commit(s), NEW q, Writes(s, q), NEW d \in Doc,
           row[d].life \in Final, Calm(d)'
    PROVE  row'[d].life \in Final
<1>1. CASE d \notin DOMAIN q.new
  BY <1>1 DEF Writes, Tables
<1>2. CASE d \in Inserted(q)
  <2>1. row[d].life = "absent"
    BY <1>2, NoDocTyped DEF Writes, ReqInv, Rests
  <2> QED
    BY <2>1 DEF Final
<1>3. CASE d \in DOMAIN q.new /\ d \notin Inserted(q)
  <2>1. Formed(q) /\ Family(q)
    BY DEF Writes, ReqInv
  <2>2. Keeps(q, d)
    BY <1>3, <2>1, ColumnsWritten
  <2>3. row'[d].life = Column(row[d].life, q.seen[d].life, q.new[d].life)
    BY <1>3, CommitDoc
  <2>4. CASE q.new[d].life = q.seen[d].life
    BY <2>3, <2>4 DEF Column
  <2>5. CASE q.op = "issue"
    <3>1. q.new[d].life = "issued"
      <4>1. IssueReq(q)
        BY <2>1, <2>5, FamilyOf
      <4>2. PICK e, n : /\ e \in Doc /\ DOMAIN q.new = {e, Issuer} /\ q.seen[e] \in DocRow
                   /\ q.new[e] = [q.seen[e] EXCEPT !.life = "issued", !.number = n]
        BY <4>1 DEF IssueReq, DrawsOne, Loaded
      <4>3. d = e
        BY <1>3, <4>2, Names
      <4> QED
        BY <4>2, <4>3 DEF DocRow
    <3> QED
      BY <2>3, <3>1 DEF Column, Final
  <2>6. CASE MoveReq(q) /\ q.op \in {"approve", "cancel"}
    <3>1. q.seen[d].life \in {"draft", "approved"}
      BY <1>3, <2>6 DEF MoveReq, Transition
    <3>2. <<q.op, d>> \notin raced'
      BY <2>6 DEF Calm, Steady
    <3>3. row'[d] = row[d]
      BY <1>3, <3>1, <3>2, NotOvertaken DEF Final
    <3> QED
      BY <3>3
  <2>7. CASE MoveReq(q) /\ q.op \in {"dispute", "undispute", "write_off"}
    <3>1. q.new[d].life \in Final
      <4>1. Transition[q.op].to \in Final
        BY <2>7 DEF Transition, Final
      <4>2. q.new[d] = [q.seen[d] EXCEPT !.life = Transition[q.op].to] /\ q.seen[d] \in DocRow
        BY <1>3, <2>7 DEF MoveReq, Loaded
      <4> QED
        BY <4>1, <4>2 DEF DocRow
    <3> QED
      BY <2>3, <3>1 DEF Column
  <2>8. MoveReq(q) => q.op \in {"approve", "cancel", "dispute", "undispute", "write_off"}
    BY DEF MoveReq
  <2> QED
    BY <2>2, <2>4, <2>5, <2>6, <2>7, <2>8 DEF Keeps
<1> QED
  BY <1>1, <1>2, <1>3 DEF Inserted

LEMMA NumbersCommit ==
    ASSUME Inv, NumbersInv, NEW s \in Slot, Commit(s)
    PROVE  NumbersInv'
<1>1. PICK q : Writes(s, q)
  BY CommitWrites
<1>2. PICK made \in SUBSET Doc : Draws(made)
  BY <1>1, CommitDraws
<1>3. PICK a, b : a = row[Issuer].next /\ b = row'[Issuer].next
  OBVIOUS
<1>4. a \in Nat /\ b \in Nat /\ a <= b /\ a > 0
  <2>1. Inv'
    BY CommitStep
  <2>2. row[Issuer] \in IssuerRow /\ row'[Issuer] \in IssuerRow
    BY <2>1 DEF Inv, RowsInv
  <2> QED
    BY <1>2, <1>3, <2>2 DEF Draws, IssuerRow
<1>5. ASSUME NEW d \in Doc
      PROVE  row[d].number \in Nat /\ row[d].number < a /\ (Calm(d)' => Calm(d))
  <2>1. row[d] \in DocRow
    BY DEF Inv, RowsInv
  <2>2. Calm(d)' => Calm(d)
    BY RacedGrows DEF Calm, Steady
  <2> QED
    BY <1>3, <2>1, <2>2 DEF NumbersInv, DocRow
<1>6. /\ \A d \in Doc \ made : row'[d].number = row[d].number
      /\ \A d \in made : row'[d].number \in a .. b - 1
      /\ \A d, e \in made : row'[d].number = row'[e].number => d = e
      /\ \A n \in a .. b - 1 : \E d \in made : row'[d].number = n
      /\ \A d \in made : row'[d].life = "issued" /\ row[d].life \in {"absent", "draft", "approved"}
  BY <1>2, <1>3 DEF Draws
<1>7. \A d \in Doc : row'[d].number < b
  BY <1>4, <1>5, <1>6
<1>8. ASSUME NEW d \in Doc, NEW e \in Doc, row'[d].number # 0, row'[d].number = row'[e].number
      PROVE  d = e
  <2>1. CASE d \in made /\ e \in made
    BY <1>6, <1>8, <2>1
  <2>2. CASE d \notin made /\ e \notin made
    BY <1>6, <1>8, <2>2 DEF NumbersInv
  <2>3. CASE d \in made /\ e \notin made
    <3>1. row'[d].number \in a .. b - 1 /\ row'[e].number < a /\ row'[e].number \in Nat
      BY <1>5, <1>6, <2>3
    <3> QED
      BY <1>4, <1>8, <3>1
  <2>4. CASE d \notin made /\ e \in made
    <3>1. row'[e].number \in a .. b - 1 /\ row'[d].number < a /\ row'[d].number \in Nat
      BY <1>5, <1>6, <2>4
    <3> QED
      BY <1>4, <1>8, <3>1
  <2> QED
    BY <2>1, <2>2, <2>3, <2>4
<1>9. ASSUME NEW d \in Doc, Calm(d)', row'[d].number # 0
      PROVE  row'[d].life \in Final
  <2>1. CASE d \in made
    BY <1>6, <2>1 DEF Final
  <2>2. CASE d \notin made
    <3>1. row[d].life \in Final
      BY <1>5, <1>6, <1>9, <2>2 DEF NumbersInv
    <3> QED
      BY <1>1, <1>9, <3>1, FinalKept
  <2> QED
    BY <2>1, <2>2
<1>10. ASSUME \A d \in Doc : Calm(d)', NEW n \in 1 .. b - 1
       PROVE  \E d \in Doc : row'[d].number = n
  <2>1. CASE n \in a .. b - 1
    BY <1>6, <2>1
  <2>2. CASE n \in 1 .. a - 1
    <3>1. PICK d \in Doc : row[d].number = n
      BY <1>3, <1>5, <1>10, <2>2 DEF NumbersInv
    <3>2. row[d].life \in Final
      BY <1>5, <1>10, <2>2, <3>1 DEF NumbersInv
    <3>3. d \notin made
      BY <1>6, <3>2 DEF Final
    <3> QED
      BY <1>6, <3>1, <3>3
  <2>3. n \in a .. b - 1 \/ n \in 1 .. a - 1
    BY <1>4
  <2> QED
    BY <2>1, <2>2, <2>3
<1> QED
  BY <1>3, <1>7, <1>8, <1>9, <1>10 DEF NumbersInv

LEMMA NumbersStep ==
    ASSUME Inv, NumbersInv, [Next]_vars
    PROVE  NumbersInv'
<1>1. StepShape
  BY StepInv
<1>2. CASE Still
  BY <1>2 DEF Still, NumbersInv, Calm, Steady
<1>3. ASSUME NEW s \in Slot, Commit(s) PROVE NumbersInv'
  BY <1>3, NumbersCommit
<1> QED
  BY <1>1, <1>2, <1>3 DEF StepShape, Takes

LEMMA NumbersInit == ASSUME Init PROVE NumbersInv
<1>1. PICK total : First(total)
  BY InitFirst
<1>2. PICK issued : issued = work.issued
  OBVIOUS
<1>3. /\ issued \in Seq(Doc) /\ total \in Nat
      /\ \A i, j \in DOMAIN issued : issued[i] = issued[j] => i = j
  BY <1>1, <1>2, FirstTyped, WorkloadAssumption DEF First
<1>4. PICK n \in Nat : n = Len(issued) /\ DOMAIN issued = 1 .. n
  BY <1>3
<1>5. row[Issuer].next = n + 1
  BY <1>1, <1>2, <1>4 DEF First
<1>6. ASSUME NEW d \in Doc
      PROVE  \/ row[d].number = 0 /\ \A k \in DOMAIN issued : issued[k] # d
             \/ \E k \in DOMAIN issued :
                  issued[k] = d /\ row[d].number = k /\ row[d].life = "issued"
  <2>1. FirstDoc(d, total)
    BY <1>1 DEF First
  <2>2. CASE row[d] = NoDoc /\ \A k \in DOMAIN issued : issued[k] # d
    BY <2>2 DEF NoDoc
  <2>3. ASSUME NEW k \in DOMAIN issued, issued[k] = d,
               row[d] = [NoDoc EXCEPT !.life = "issued", !.total = total, !.number = k]
        PROVE  row[d].number = k /\ row[d].life = "issued"
    BY <2>3, NoDocTyped DEF DocRow
  <2> QED
    BY <1>2, <2>1, <2>2, <2>3 DEF FirstDoc
<1>7. \A d \in Doc : row[d].number < row[Issuer].next
  BY <1>4, <1>5, <1>6
<1>8. \A d, e \in Doc : row[d].number # 0 /\ row[d].number = row[e].number => d = e
  BY <1>4, <1>6
<1>9. \A d \in Doc : row[d].number # 0 => row[d].life \in Final
  BY <1>6 DEF Final
<1>10. ASSUME NEW m \in 1 .. n PROVE \E d \in Doc : row[d].number = m
  <2>1. m \in DOMAIN issued /\ issued[m] \in Doc
    BY <1>3, <1>4
  <2> QED
    BY <1>3, <1>6, <2>1
<1>11. 1 .. row[Issuer].next - 1 = 1 .. n
  BY <1>5
<1> QED
  BY <1>7, <1>8, <1>9, <1>10, <1>11 DEF NumbersInv

PeriodsInv == \A s \in Slot : Busy(s) => ~PeriodClash(req[s])

LEMMA HoldsIssuer ==
    ASSUME NEW q, Family(q), Issuer \notin q.locks
    PROVE  Periodless(q)
<1>1. q.op = "sweep" => q.locks = {}
  BY FamilyOf DEF SweepReq, ScheduleReq
<1> QED
  BY <1>1, NoPeriods

LEMMA PeriodsCommit ==
    ASSUME Inv, PeriodsInv, NEW s \in Slot, Commit(s)
    PROVE  PeriodsInv'
<1>1. PICK q : Writes(s, q)
  BY CommitWrites
<1>2. Formed(q) /\ Family(q) /\ q = req[s] /\ Busy(s)
  BY <1>1 DEF Writes, ReqInv
<1>3. req'[s] = NoRequest /\ \A t \in Slot \ {s} : req'[t] = req[t]
  BY <1>1 DEF Writes, Inv, RequestsInv
<1>4. ASSUME Periodless(q), NEW d \in Docs', row'[d].period # 0
      PROVE  d \in Docs /\ row[d].period = row'[d].period
  <2>1. d \in Doc /\ row'[d].life # "absent"
    BY DEF Docs
  <2>2. CASE d \notin DOMAIN q.new
    BY <1>1, <2>1, <2>2 DEF Writes, Tables, Docs
  <2>3. CASE d \in Inserted(q)
    <3>1. row'[d] = q.new[d]
      BY <1>1, <2>3, CommitHeld DEF Inserted
    <3> QED
      BY <1>4, <2>3, <3>1 DEF Periodless
  <2>4. CASE d \in DOMAIN q.new /\ d \notin Inserted(q)
    <3>1. Keeps(q, d)
      BY <1>2, <2>1, <2>4, ColumnsWritten
    <3>2. row'[d].period = row[d].period
      BY <1>1, <2>1, <2>4, <3>1, CommitDoc DEF Keeps, Column
    <3>3. d \in Docs
      BY <1>1, <2>1, <2>4 DEF Writes, ReqInv, Rests
    <3> QED
      BY <3>2, <3>3
  <2> QED
    BY <2>1, <2>2, <2>3, <2>4
<1>5. ASSUME NEW t \in Slot, Busy(t)' PROVE ~PeriodClash(req[t])'
  <2>1. t # s /\ Busy(t)
    BY <1>3, <1>5 DEF Busy
  <2>2. PICK p : p = req[t] /\ p = req'[t]
    BY <1>3, <2>1
  <2>3. Family(p) /\ p.locks \cap q.locks = {} /\ ~PeriodClash(p)
    BY <1>2, <2>1, <2>2 DEF Inv, RequestsInv, ReqInv, Apart, PeriodsInv
  <2>4. CASE Issuer \notin p.locks
    <3>1. Periodless(p)
      BY <2>3, <2>4, HoldsIssuer
    <3>2. \A d \in Inserted(p) : p.new[d].period = 0
      BY <3>1 DEF Periodless
    <3> QED
      BY <2>2, <3>2 DEF PeriodClash, Inserted
  <2>5. CASE Issuer \in p.locks
    <3>1. Periodless(q)
      BY <1>2, <2>3, <2>5, HoldsIssuer
    <3>2. \A d \in Docs' : row'[d].period # 0 => d \in Docs /\ row[d].period = row'[d].period
      BY <1>4, <3>1
    <3> QED
      BY <2>2, <2>3, <3>2 DEF PeriodClash, Inserted
  <2> QED
    BY <2>4, <2>5
<1> QED
  BY <1>5 DEF PeriodsInv

LEMMA PeriodsStep ==
    ASSUME Inv, PeriodsInv, [Next]_vars
    PROVE  PeriodsInv'
<1>1. StepShape
  BY StepInv
<1>2. CASE Still /\ req' = req
  BY <1>2 DEF Still, PeriodsInv, PeriodClash, Inserted, Docs, Busy
<1>3. ASSUME NEW s \in Slot, Takes(s), NEW t \in Slot, Busy(t)'
      PROVE  ~PeriodClash(req[t])'
  <2>1. PICK p : p = req'[t]
    OBVIOUS
  <2>2. ~PeriodClash(p)
    BY <1>3, <2>1 DEF Takes, Fit, Busy, PeriodsInv
  <2> QED
    BY <1>3, <2>1, <2>2 DEF Takes, Still, PeriodClash, Inserted, Docs
<1>4. ASSUME NEW s \in Slot, Commit(s) PROVE PeriodsInv'
  BY <1>4, PeriodsCommit
<1> QED
  BY <1>1, <1>2, <1>3, <1>4 DEF StepShape, PeriodsInv

----------------------------------------------------------------------------
(* A command has one effect.                                               *)

LEMMA KeysCommit ==
    ASSUME Inv, OneEffectPerKey, NEW s \in Slot, Commit(s)
    PROVE  OneEffectPerKey'
<1>1. PICK q : Writes(s, q)
  BY CommitWrites
<1>2. Formed(q) /\ Family(q) /\ Books(q) /\ ~KeyClash(q)
  BY <1>1 DEF Writes, ReqInv, Commit
<1>3. ASSUME NEW d \in Docs'
      PROVE  \/ d \in Docs /\ row'[d].key = row[d].key
             \/ d \in Inserted(q) /\ row'[d].key = q.new[d].key
  <2>1. d \in Doc /\ row'[d].life # "absent"
    BY DEF Docs
  <2>2. CASE d \notin DOMAIN q.new
    BY <1>1, <2>1, <2>2 DEF Writes, Tables, Docs
  <2>3. CASE d \in Inserted(q)
    BY <1>1, <2>3, CommitHeld DEF Inserted
  <2>4. CASE d \in DOMAIN q.new /\ d \notin Inserted(q)
    <3>1. Keeps(q, d)
      BY <1>2, <2>1, <2>4, ColumnsWritten
    <3>2. row'[d].key = row[d].key
      BY <1>1, <2>1, <2>4, <3>1, CommitDoc DEF Keeps, Column
    <3>3. d \in Docs
      BY <1>1, <2>1, <2>4 DEF Writes, ReqInv, Rests
    <3> QED
      BY <3>2, <3>3
  <2> QED
    BY <2>1, <2>2, <2>3, <2>4
<1>4. ASSUME NEW d \in Inserted(q), NEW e \in Inserted(q), d # e
      PROVE  q.new[d].key = NoKey
  <2>1. d \in DOMAIN q.new /\ e \in DOMAIN q.new /\ d \in Doc /\ e \in Doc
    BY DEF Inserted
  <2>2. Born(q, d)
    BY <1>2, <2>1, ColumnsWritten
  <2>3. CASE q.op = "sweep"
    BY <2>2, <2>3 DEF Born
  <2>4. CASE q.op = "create"
    <3>1. CreateReq(q)
      BY <1>2, <2>4, FamilyOf
    <3> QED
      BY <1>4, <2>1, <3>1, Names DEF CreateReq, DrawsOne
  <2>5. CASE q.op \in {"draft", "duplicate"}
    <3>1. InsertReq(q)
      BY <1>2, <2>5 DEF Family, CreateReq, IssueReq, MoveReq, EditReq, ScheduleReq, SweepReq,
         PayReq, CreditReq, VoidReq, LineReq
    <3> QED
      BY <1>4, <2>1, <3>1 DEF InsertReq
  <2> QED
    BY <2>2, <2>3, <2>4, <2>5 DEF Born
<1>5. \A d \in Inserted(q) : q.new[d].key # NoKey => q.new[d].key \notin CreateKeys
  BY <1>2 DEF KeyClash
<1>6. /\ \A d \in Docs : row[d].key \in CreateKeys
      /\ \A k \in DOMAIN notes : notes[k].key \in CreateKeys
      /\ \A k \in DOMAIN ledger : ledger[k].key \in PaymentKeys
  BY DEF CreateKeys, PaymentKeys
<1>7. ASSUME NEW d \in Docs', NEW e \in Docs', d # e, row'[d].key # NoKey
      PROVE  row'[d].key # row'[e].key
  BY <1>3, <1>4, <1>5, <1>6, <1>7 DEF OneEffectPerKey
<1>8. PICK c : c = q.credits[1]
  OBVIOUS
<1>9. \/ notes' = notes /\ q.credits = <<>>
      \/ notes' = Append(notes, c) /\ c \in Note /\ c.key \notin CreateKeys /\ Inserted(q) = {}
  <2>1. CASE q.credits = <<>>
    BY <1>1, <2>1 DEF Writes, Grown
  <2>2. CASE q.credits = <<c>>
    <3>1. q.credits # <<>> /\ 1 \in DOMAIN q.credits
      BY <2>2
    <3>2. c.key \notin CreateKeys
      BY <1>2, <1>8, <3>1 DEF KeyClash
    <3>3. c \in Note
      BY <1>2, <1>8, <3>1 DEF Books
    <3>4. notes' = Append(notes, c)
      BY <1>1, <1>8, <3>1 DEF Writes, Grown
    <3>5. Inserted(q) = {}
      <4>1. CreditReq(q)
        BY <1>2, <3>1, FamilyOf
      <4>2. PICK d : DOMAIN q.new = {d, Issuer} /\ Loaded(q, d)
        BY <4>1 DEF CreditReq
      <4> QED
        BY <4>2, Names DEF Inserted, Loaded
    <3> QED
      BY <3>2, <3>3, <3>4, <3>5
  <2> QED
    BY <1>2, <1>8, <2>1, <2>2 DEF Books
<1>10. notes \in Seq(Note)
  BY DEF Inv, BooksInv
<1>11. ASSUME NEW j \in DOMAIN notes', NEW k \in DOMAIN notes', j # k
       PROVE  notes'[j].key # notes'[k].key
  <2>1. CASE notes' = notes
    BY <1>11, <2>1 DEF OneEffectPerKey
  <2>2. CASE notes' = Append(notes, c) /\ c.key \notin CreateKeys
    <3>1. \A i \in DOMAIN notes' : (i \in DOMAIN notes /\ notes'[i] = notes[i])
                                   \/ (i = Len(notes) + 1 /\ notes'[i] = c)
      BY <1>10, <2>2
    <3> QED
      BY <1>6, <1>11, <2>2, <3>1 DEF OneEffectPerKey
  <2> QED
    BY <1>9, <2>1, <2>2
<1>12. ASSUME NEW d \in Docs', NEW k \in DOMAIN notes'
       PROVE  row'[d].key # notes'[k].key
  <2>1. \A i \in DOMAIN notes : notes[i].key # NoKey
    <3>1. \A i \in DOMAIN notes : notes[i] \in Note
      BY <1>10
    <3> QED
      BY <3>1, Names DEF Note
  <2>2. CASE notes' = notes
    BY <1>3, <1>5, <1>6, <2>1, <2>2 DEF OneEffectPerKey
  <2>3. CASE notes' = Append(notes, c) /\ c \in Note /\ c.key \notin CreateKeys /\ Inserted(q) = {}
    <3>1. (k \in DOMAIN notes /\ notes'[k] = notes[k]) \/ notes'[k] = c
      BY <1>10, <2>3
    <3>2. d \in Docs /\ row'[d].key = row[d].key
      BY <1>3, <2>3
    <3> QED
      BY <1>6, <2>3, <3>1, <3>2 DEF OneEffectPerKey
  <2> QED
    BY <1>9, <2>2, <2>3
<1>13. ASSUME NEW j \in DOMAIN ledger', NEW k \in DOMAIN ledger', j # k, ledger'[j].key # NoKey
       PROVE  ledger'[j].key # ledger'[k].key
  <2>1. ledger \in Seq(Entry)
    BY DEF Inv, BooksInv
  <2>2. PICK e : e = q.entries[1]
    OBVIOUS
  <2>3. \/ ledger' = ledger
        \/ ledger' = Append(ledger, e) /\ (e.key # NoKey => e.key \notin PaymentKeys) /\ e \in Entry
    <3>1. CASE q.entries = <<>>
      BY <1>1, <3>1 DEF Writes, Grown
    <3>2. CASE q.entries = <<e>>
      <4>1. q.entries # <<>> /\ 1 \in DOMAIN q.entries
        BY <3>2
      <4> QED
        BY <1>1, <1>2, <2>2, <4>1 DEF KeyClash, Books, Writes, Grown
    <3> QED
      BY <1>2, <2>2, <3>1, <3>2 DEF Books
  <2>4. CASE ledger' = ledger
    BY <1>13, <2>4 DEF OneEffectPerKey
  <2>5. CASE ledger' = Append(ledger, e) /\ (e.key # NoKey => e.key \notin PaymentKeys) /\ e \in Entry
    <3>1. \A i \in DOMAIN ledger' : (i \in DOMAIN ledger /\ ledger'[i] = ledger[i])
                                    \/ (i = Len(ledger) + 1 /\ ledger'[i] = e)
      BY <2>1, <2>5
    <3> QED
      BY <1>6, <1>13, <2>5, <3>1 DEF OneEffectPerKey
  <2> QED
    BY <2>3, <2>4, <2>5
<1> QED
  BY <1>7, <1>11, <1>12, <1>13 DEF OneEffectPerKey

LEMMA KeysStep ==
    ASSUME Inv, OneEffectPerKey, [Next]_vars
    PROVE  OneEffectPerKey'
<1>1. StepShape
  BY StepInv
<1>2. CASE Still
  BY <1>2 DEF Still, OneEffectPerKey, Docs
<1>3. ASSUME NEW s \in Slot, Commit(s) PROVE OneEffectPerKey'
  BY <1>3, KeysCommit
<1> QED
  BY <1>1, <1>2, <1>3 DEF StepShape, Takes

\* A number about to be drawn is one the issuer has not given out.
LEMMA RenumberedAhead ==
    ASSUME NEW q, ReqInv(q), NEW d \in Renumbered(q)
    PROVE  /\ Issuer \in q.locks \cap DOMAIN q.new
           /\ q.new[d].number \in Nat /\ q.new[d].number >= q.seen[Issuer].next
           /\ q.seen[Issuer] \in IssuerRow
<1> USE Names, NoDocTyped
<1>1. /\ Formed(q) /\ Family(q) /\ Typed(q)
      /\ d \in DOMAIN q.new \cap Doc /\ q.new[d].number # q.seen[d].number
  BY FamilyTyped DEF ReqInv, Renumbered
<1>2. q.seen[d] \in DocRow /\ q.new[d] \in DocRow
  BY <1>1 DEF Typed
<1>3. q.op \in {"create", "issue", "sweep"}
  <2>1. CASE d \in Inserted(q)
    <3>1. q.seen[d] = NoDoc /\ NoDoc.number = 0
      BY <1>1, <2>1 DEF Inserted, Typed, NoDoc
    <3>2. Born(q, d)
      BY <1>1, <2>1, ColumnsWritten
    <3> QED
      BY <1>1, <3>1, <3>2 DEF Born
  <2>2. CASE d \notin Inserted(q)
    <3>1. Keeps(q, d)
      BY <1>1, <2>2, ColumnsWritten
    <3> QED
      BY <1>1, <3>1 DEF Keeps
  <2> QED
    BY <2>1, <2>2
<1>4. CASE q.op = "create"
  <2>1. CreateReq(q)
    BY <1>1, <1>4, FamilyOf
  <2>2. PICK e \in Doc :
          /\ DOMAIN q.new = {e, Issuer} /\ q.locks = {Issuer} /\ q.seen[Issuer] \in IssuerRow
          /\ q.new[e] = [Draft(q.new[e].total, q.new[e].key)
                           EXCEPT !.life = "issued", !.number = q.seen[Issuer].next]
    BY <2>1 DEF CreateReq, DrawsOne
  <2>3. d = e
    BY <1>1, <2>2
  <2>4. Draft(q.new[d].total, q.new[d].key) \in DocRow
    BY <1>2, DraftTyped DEF DocRow
  <2>5. q.new[d].number = q.seen[Issuer].next
    BY <2>2, <2>3, <2>4 DEF DocRow
  <2> QED
    BY <2>2, <2>5 DEF IssuerRow
<1>5. CASE q.op = "issue"
  <2>1. IssueReq(q)
    BY <1>1, <1>5, FamilyOf
  <2>2. PICK e \in Doc :
          /\ DOMAIN q.new = {e, Issuer} /\ q.locks = {e, Issuer} /\ q.seen[Issuer] \in IssuerRow
          /\ q.new[e] = [q.seen[e] EXCEPT !.life = "issued", !.number = q.seen[Issuer].next]
    BY <2>1 DEF IssueReq, DrawsOne
  <2>3. d = e
    BY <1>1, <2>2
  <2>4. q.new[d].number = q.seen[Issuer].next
    BY <1>2, <2>2, <2>3 DEF DocRow
  <2> QED
    BY <2>2, <2>4 DEF IssuerRow
<1>6. CASE q.op = "sweep"
  <2>1. SweepReq(q)
    <3>1. SweepReq(q) \/ ScheduleReq(q)
      BY <1>1, <1>6, FamilyOf
    <3> QED
      BY <1>1, <3>1 DEF ScheduleReq
  <2>2. /\ Issuer \in q.locks /\ Issuer \in DOMAIN q.new /\ q.seen[Issuer] \in IssuerRow
        /\ q.new[Issuer] \in IssuerRow
        /\ q.new[d].number \in q.seen[Issuer].next .. q.new[Issuer].next - 1
    <3>1. PICK made \in SUBSET Doc :
            /\ DOMAIN q.new = made \cup {Issuer, Schedule} /\ q.locks = {Issuer} /\ Drawing(q, made)
            /\ q.seen[Issuer] \in IssuerRow /\ q.new[Issuer] \in IssuerRow
      BY <2>1 DEF SweepReq
    <3>2. d \in made
      BY <1>1, <3>1
    <3> QED
      BY <3>1, <3>2 DEF Drawing
  <2>3. PICK a \in Nat, b \in Nat : a = q.seen[Issuer].next /\ b = q.new[Issuer].next
    BY <2>2 DEF IssuerRow
  <2>4. q.new[d].number \in Nat /\ q.new[d].number >= a
    BY <2>2, <2>3
  <2> QED
    BY <2>2, <2>3, <2>4
<1> QED
  BY <1>3, <1>4, <1>5, <1>6

LEMMA NothingCollides ==
    ASSUME Inv, NumbersInv, PeriodsInv
    PROVE  NeverCollides
<1>1. SUFFICES ASSUME NEW s \in Slot, Busy(s) PROVE ~NumberClash(req[s])
  BY DEF NeverCollides, PeriodsInv
<1>2. SUFFICES ASSUME NEW d \in Renumbered(req[s]), NEW e \in Docs,
                      row[e].number = req[s].new[d].number
               PROVE  FALSE
  BY DEF NumberClash
<1>3. PICK q : q = req[s]
  OBVIOUS
<1>4. ReqInv(q) /\ d \in Renumbered(q)
  BY <1>1, <1>3 DEF Inv, RequestsInv
<1>5. /\ Issuer \in q.locks \cap DOMAIN q.new
      /\ q.new[d].number \in Nat /\ q.new[d].number >= q.seen[Issuer].next
      /\ q.seen[Issuer] \in IssuerRow
  BY <1>4, RenumberedAhead
<1>6. row[Issuer] = q.seen[Issuer]
  BY <1>4, <1>5 DEF ReqInv, Rests
<1>7. row[e].number < row[Issuer].next /\ row[e] \in DocRow
  BY DEF NumbersInv, Docs, Inv, RowsInv
<1>8. PICK n \in Nat : n = row[Issuer].next
  BY <1>5, <1>6 DEF IssuerRow
<1> QED
  BY <1>2, <1>3, <1>5, <1>6, <1>7, <1>8

LEMMA NoGaps ==
    ASSUME Inv, NumbersInv
    PROVE  GapFree
<1>1. SUFFICES ASSUME \A d \in Doc : Calm(d), NEW n \in 1 .. row[Issuer].next - 1
               PROVE  Cardinality({d \in Docs : row[d].number = n}) = 1
  BY DEF GapFree, Calm, Steady
<1>2. PICK d \in Doc : row[d].number = n
  BY <1>1 DEF NumbersInv
<1>3. n # 0
  OBVIOUS
<1>4. d \in Docs
  <2>1. row[d].life = "absent" => row[d].number = 0
    BY DEF Inv, RowsInv, NoDoc
  <2> QED
    BY <1>2, <1>3, <2>1 DEF Docs
<1>5. {e \in Docs : row[e].number = n} = {d}
  BY <1>2, <1>3, <1>4 DEF NumbersInv, Docs
<1> QED
  BY <1>5, FS_Singleton

\* The series, the periods about to be drawn, and the keys used.
SeriesInv == NumbersInv /\ PeriodsInv /\ OneEffectPerKey

LEMMA SeriesInit == ASSUME Init PROVE SeriesInv
<1>1. NumbersInv
  BY NumbersInit
<1>2. PICK total : First(total)
  BY InitFirst
<1>3. ledger = <<>> /\ notes = <<>> /\ req = [s \in Slot |-> NoRequest]
  BY <1>2 DEF First
<1>4. PeriodsInv
  BY <1>3 DEF PeriodsInv, Busy
<1>5. \A d \in Doc : row[d].key = NoKey
  <2>1. SUFFICES ASSUME NEW d \in Doc PROVE row[d].key = NoKey
    OBVIOUS
  <2>2. CASE row[d] = NoDoc
    BY <2>2 DEF NoDoc
  <2>3. ASSUME NEW k \in Nat, row[d] = [NoDoc EXCEPT !.life = "issued", !.total = total, !.number = k]
        PROVE  row[d].key = NoKey
    BY <2>3 DEF NoDoc
  <2>4. \A k \in DOMAIN work.issued : k \in Nat
    BY <1>2, FirstTyped
  <2> QED
    BY <1>2, <2>2, <2>3, <2>4 DEF First, FirstDoc
<1>6. OneEffectPerKey
  BY <1>3, <1>5 DEF OneEffectPerKey, Docs
<1> QED
  BY <1>1, <1>4, <1>6 DEF SeriesInv

LEMMA SeriesStep ==
    ASSUME Inv, SeriesInv, [Next]_vars
    PROVE  SeriesInv'
BY NumbersStep, PeriodsStep, KeysStep DEF SeriesInv

\* The legal series is sound, for every set of invoices, requests and workloads
\* (issuer.lock, issue_draft, generate_due, issued_commands): no number or period
\* is drawn twice, none is missing while no approval or cancellation overtook an
\* issue, and a key has one effect.
THEOREM NumberingCorrect == Spec => []Numbering
<1>1. Init => Inv /\ SeriesInv
  BY InitInv, SeriesInit
<1>2. Inv /\ SeriesInv /\ [Next]_vars => (Inv /\ SeriesInv)'
  BY StepInv, SeriesStep
<1>3. Inv /\ SeriesInv => Numbering
  BY NothingCollides, NoGaps DEF SeriesInv, Numbering
<1> QED
  BY <1>1, <1>2, <1>3, PTL DEF Spec

LEMMA IssuedKept ==
    ASSUME Inv, NumbersInv, NEW s \in Slot, Commit(s), NEW d \in Doc,
           row[d].number # 0, Steady({"approve", "cancel", "edit"}, d)'
    PROVE  /\ row'[d].number = row[d].number
           /\ row'[d].total = row[d].total
           /\ row'[d].life \in Final
<1>1. PICK q : Writes(s, q)
  BY CommitWrites
<1>2. Calm(d)' /\ Calm(d)
  BY RacedGrows DEF Calm, Steady
<1>3. row[d].life \in Final
  BY <1>2 DEF NumbersInv
<1>4. row'[d].number = row[d].number
  <2>1. PICK made \in SUBSET Doc : Draws(made)
    BY <1>1, CommitDraws
  <2> QED
    BY <1>3, <2>1 DEF Draws, Final
<1>5. row'[d].life \in Final
  BY <1>1, <1>2, <1>3, FinalKept
<1>6. row'[d].total = row[d].total
  <2>1. CASE d \notin DOMAIN q.new
    BY <1>1, <2>1 DEF Writes, Tables
  <2>2. d \notin Inserted(q)
    BY <1>1, <1>3, NoDocTyped DEF Writes, ReqInv, Rests, Final
  <2>3. CASE d \in DOMAIN q.new /\ q.op # "edit"
    <3>1. Formed(q) /\ Family(q)
      BY <1>1 DEF Writes, ReqInv
    <3>2. Keeps(q, d)
      BY <2>2, <2>3, <3>1, ColumnsWritten
    <3> QED
      BY <1>1, <2>3, <3>2, CommitDoc DEF Keeps, Column
  <2>4. CASE d \in DOMAIN q.new /\ q.op = "edit"
    <3>1. EditReq(q)
      BY <1>1, <2>4, FamilyOf DEF Writes, ReqInv
    <3>2. q.seen[d].life = "draft"
      BY <2>4, <3>1 DEF EditReq
    <3>3. <<q.op, d>> \notin raced'
      BY <2>4 DEF Steady
    <3> QED
      BY <1>1, <1>3, <2>4, <3>2, <3>3, NotOvertaken DEF Final
  <2> QED
    BY <2>1, <2>3, <2>4
<1> QED
  BY <1>4, <1>5, <1>6

\* An issued invoice is immutable, for every set of invoices, requests and
\* workloads (edit_draft, issued_lifecycle): with the exceptions that the property
\* names, no step of any request changes its number or its total, or takes it back.
THEOREM ImmutableCorrect == Spec => IssuedIsImmutable
<1>1. Init => Inv /\ SeriesInv
  BY InitInv, SeriesInit
<1>2. Inv /\ SeriesInv /\ [Next]_vars => (Inv /\ SeriesInv)'
  BY StepInv, SeriesStep
<1>3. Inv /\ SeriesInv /\ [Next]_vars =>
        [\A d \in Doc :
          /\ row[d].number # 0
          /\ \A op \in {"approve", "cancel", "edit"} : <<op, d>> \notin raced'
          => /\ row'[d].number = row[d].number
             /\ row'[d].total = row[d].total
             /\ row'[d].life \notin {"draft", "approved", "cancelled"}]_vars
  <2>1. SUFFICES ASSUME Inv, NumbersInv, [Next]_vars, NEW d \in Doc, row[d].number # 0,
                        \A op \in {"approve", "cancel", "edit"} : <<op, d>> \notin raced'
                 PROVE  /\ row'[d].number = row[d].number
                        /\ row'[d].total = row[d].total
                        /\ row'[d].life \notin {"draft", "approved", "cancelled"}
    BY DEF SeriesInv
  <2>2. Steady({"approve", "cancel", "edit"}, d)'
    BY <2>1 DEF Steady
  <2>3. CASE Still
    BY <2>1, <2>2, <2>3 DEF Still, NumbersInv, Calm, Steady, Final
  <2>4. ASSUME NEW s \in Slot, Commit(s)
        PROVE  /\ row'[d].number = row[d].number
               /\ row'[d].total = row[d].total
               /\ row'[d].life \in Final
    BY <2>1, <2>2, <2>4, IssuedKept
  <2>5. Still \/ \E s \in Slot : Commit(s)
    BY <2>1, StepInv DEF StepShape, Takes
  <2> QED
    BY <2>3, <2>4, <2>5 DEF Final
<1> QED
  BY <1>1, <1>2, <1>3, PTL DEF Spec, IssuedIsImmutable

----------------------------------------------------------------------------
(* Cash that comes in is never more than what is owed.                     *)

\* What a payment does to the invoice it is of.
LEMMA PayWrites ==
    ASSUME NEW q, Formed(q), PayReq(q)
    PROVE  /\ q.entries[1] \in Entry /\ q.entries = <<q.entries[1]>>
           /\ DOMAIN q.new = {q.entries[1].doc} /\ Loaded(q, q.entries[1].doc)
           /\ \A d \in DOMAIN q.new :
                /\ q.new[d].paid = q.seen[d].paid + q.entries[1].amount
                /\ q.new[d].total = q.seen[d].total /\ q.new[d].credited = q.seen[d].credited
                /\ q.op = "deallocate" \/ d \in q.locks
                /\ q.entries[1].of # 0 \/ Capped(q, d, q.entries[1])
<1>1. PICK e, d : /\ e = q.entries[1] /\ d = e.doc /\ e \in Entry
                  /\ DOMAIN q.new = {d} /\ Loaded(q, d)
                  /\ q.new[d] = [q.seen[d] EXCEPT !.paid = @ + e.amount]
                  /\ q.op = "deallocate" \/ d \in q.locks
                  /\ e.of # 0 \/ Capped(q, d, e)
  BY DEF PayReq
<1>2. q.seen[d] \in DocRow
  BY <1>1 DEF Loaded
<1>3. q.new[d].paid = q.seen[d].paid + e.amount
  BY <1>1, <1>2 DEF DocRow
<1>4. q.new[d].total = q.seen[d].total /\ q.new[d].credited = q.seen[d].credited
  BY <1>1, <1>2 DEF DocRow
<1> QED
  BY <1>1, <1>3, <1>4 DEF PayReq

LEMMA PaidWithin ==
    ASSUME Inv, NEW s \in Slot, Commit(s), NEW d \in Docs, row'[d].paid > row[d].paid,
           Steady({"deallocate"}, d)'
    PROVE  row'[d].paid <= row'[d].total - row'[d].credited
<1>1. PICK q : Writes(s, q)
  BY CommitWrites
<1>2. Formed(q) /\ Family(q) /\ Rests(q) /\ d \in Doc /\ row[d] \in DocRow
  BY <1>1 DEF Writes, ReqInv, Docs, Inv, RowsInv
<1>3. d \in DOMAIN q.new /\ d \notin Inserted(q)
  <2>1. d \in DOMAIN q.new
    BY <1>1, <1>2 DEF Writes, Tables, DocRow
  <2>2. d \notin Inserted(q)
    BY <1>2, NoDocTyped DEF Rests, Docs
  <2> QED
    BY <2>1, <2>2
<1>4. PayReq(q)
  <2>1. Keeps(q, d)
    BY <1>2, <1>3, ColumnsWritten
  <2>2. row'[d].paid = Column(row[d].paid, q.seen[d].paid, q.new[d].paid)
    BY <1>1, <1>2, <1>3, CommitDoc
  <2> QED
    BY <1>2, <2>1, <2>2 DEF Keeps, Column, DocRow
<1>5. PICK e : e = q.entries[1]
  OBVIOUS
<1>6. /\ e \in Entry /\ q.entries # <<>> /\ q.seen[d] \in DocRow
      /\ q.new[d].paid = q.seen[d].paid + e.amount
      /\ q.new[d].total = q.seen[d].total /\ q.new[d].credited = q.seen[d].credited
      /\ q.op = "deallocate" \/ d \in q.locks
      /\ e.of # 0 \/ Capped(q, d, e)
  BY <1>2, <1>3, <1>4, <1>5, PayWrites DEF Loaded
<1>7. row'[d] = q.new[d] /\ row[d] = q.seen[d]
  <2>1. CASE d \in q.locks
    BY <1>1, <1>3, <2>1, CommitHeld
  <2>2. CASE q.op = "deallocate"
    <3>1. <<q.op, d>> \notin raced'
      BY <2>2 DEF Steady
    <3>2. row'[d] # row[d]
      BY <1>2 DEF DocRow
    <3> QED
      BY <1>1, <1>3, <3>1, <3>2, NotOvertaken
  <2> QED
    BY <1>6, <2>1, <2>2
<1>8. e.of = 0
  <2>1. SUFFICES ASSUME e.of # 0 PROVE FALSE
    OBVIOUS
  <2>2. Corrects(e)
    BY <1>2, <1>5, <1>6, <2>1 DEF Rests
  <2>3. ledger[e.of].amount \in Int
    <3>1. e.of \in DOMAIN ledger /\ ledger \in Seq(Entry)
      BY <2>2 DEF Corrects, Inv, BooksInv
    <3>2. ledger[e.of] \in Entry
      BY <3>1
    <3> QED
      BY <3>2 DEF Entry
  <2>4. e.amount < 0 /\ e.amount \in Int
    BY <2>2, <2>3 DEF Corrects
  <2>5. row'[d].paid = row[d].paid + e.amount /\ row[d].paid \in Int
    BY <1>2, <1>6, <1>7 DEF DocRow
  <2> QED
    BY <2>4, <2>5
<1>9. Capped(q, d, e)
  BY <1>6, <1>8
<1> QED
  BY <1>6, <1>7, <1>9 DEF Capped, DocRow, Entry

\* Cash is never recorded past what is owed, for every set of invoices, receipts
\* and requests (the caps of append, record_payment and allocate): only an
\* allocation's reversal that was overtaken can leave more paid than is owed.
THEOREM NeverOverpaidCorrect == Spec => NeverOverpaid
<1>1. Init => Inv
  BY InitInv
<1>2. Inv /\ [Next]_vars => Inv'
  BY StepInv
<1>3. Inv /\ [Next]_vars =>
        [\A d \in Docs :
          /\ row'[d].paid > row[d].paid
          /\ <<"deallocate", d>> \notin raced'
          => row'[d].paid <= row'[d].total - row'[d].credited]_vars
  <2>1. SUFFICES ASSUME Inv, [Next]_vars, NEW d \in Docs, row'[d].paid > row[d].paid,
                        <<"deallocate", d>> \notin raced'
                 PROVE  row'[d].paid <= row'[d].total - row'[d].credited
    OBVIOUS
  <2>2. Steady({"deallocate"}, d)'
    BY <2>1 DEF Steady
  <2>3. ~Still
    <3>1. row[d].paid \in Int
      BY <2>1 DEF Inv, RowsInv, Docs, DocRow
    <3>2. row' # row
      BY <2>1, <3>1
    <3> QED
      BY <3>2 DEF Still
  <2>4. PICK s \in Slot : Commit(s)
    BY <2>1, <2>3, StepInv DEF StepShape, Takes
  <2> QED
    BY <2>1, <2>2, <2>4, PaidWithin
<1> QED
  BY <1>1, <1>2, <1>3, PTL DEF Spec, NeverOverpaid

----------------------------------------------------------------------------
(* Bank lines: nobody else has, or is about to take, what a line is about   *)
(* to be matched with.                                                     *)

LinesInv ==
    /\ \A s \in Slot : Busy(s) /\ req[s].op = "match" => Single(req[s])
    /\ OneLinePerTarget

\* Only a change of a line writes a line.
LEMMA LinesOnly ==
    ASSUME NEW q, Family(q), NEW l \in DOMAIN q.new \cap Line
    PROVE  LineReq(q) /\ DOMAIN q.new = {l}
<1> USE Names
<1>1. CASE InsertReq(q)
  BY <1>1 DEF InsertReq
<1>2. CASE CreateReq(q)
  BY <1>2 DEF CreateReq, DrawsOne
<1>3. CASE IssueReq(q)
  BY <1>3 DEF IssueReq, DrawsOne
<1>4. CASE MoveReq(q)
  BY <1>4 DEF MoveReq
<1>5. CASE EditReq(q)
  BY <1>5 DEF EditReq
<1>6. CASE ScheduleReq(q)
  BY <1>6 DEF ScheduleReq
<1>7. CASE SweepReq(q)
  BY <1>7 DEF SweepReq
<1>8. CASE PayReq(q)
  BY <1>8 DEF PayReq, Loaded, Docs
<1>9. CASE CreditReq(q)
  BY <1>9 DEF CreditReq, Loaded, Docs
<1>10. CASE VoidReq(q)
  BY <1>10 DEF VoidReq
<1>11. CASE LineReq(q)
  BY <1>11 DEF LineReq
<1> QED
  BY <1>1, <1>2, <1>3, <1>4, <1>5, <1>6, <1>7, <1>8, <1>9, <1>10, <1>11 DEF Family

\* A line that a commit leaves matched is one that was, or the one it matches.
LEMMA CommitLine ==
    ASSUME Inv, NEW s \in Slot, Commit(s), NEW q, Writes(s, q), NEW l \in Line,
           Untouched(l)', row'[l].status = "matched"
    PROVE  /\ Untouched(l)
           /\ \/ row'[l] = row[l]
              \/ /\ row'[l] = q.new[l] /\ q.op = "match" /\ DOMAIN q.new = {l}
                 /\ q.locks = {q.new[l].target}
<1>1. Untouched(l)
  BY RacedGrows DEF Untouched, Steady
<1>2. CASE l \notin DOMAIN q.new
  BY <1>1, <1>2 DEF Writes, Tables
<1>3. CASE l \in DOMAIN q.new
  <2>1. LineReq(q) /\ DOMAIN q.new = {l}
    BY <1>3, LinesOnly DEF Writes, ReqInv
  <2>2. IF q.op = "match" THEN q.locks = {q.new[l].target}
                          ELSE q.op \in {"unmatch", "ignore"} /\ q.new[l].status # "matched"
    BY <2>1 DEF LineReq
  <2>3. <<q.op, l>> \notin raced'
    BY <2>2 DEF Untouched, Steady
  <2>4. row'[l] = q.new[l] \/ row'[l] = row[l]
    BY <1>3, <2>3, NotOvertaken
  <2> QED
    BY <1>1, <2>1, <2>2, <2>4
<1> QED
  BY <1>2, <1>3

LEMMA LinesCommit ==
    ASSUME Inv, LinesInv, NEW s \in Slot, Commit(s)
    PROVE  LinesInv'
<1>1. PICK q : Writes(s, q)
  BY CommitWrites
<1>2. q = req[s] /\ Busy(s) /\ req' = [req EXCEPT ![s] = NoRequest]
  BY <1>1 DEF Writes
<1>3. req'[s] = NoRequest /\ \A t \in Slot \ {s} : req'[t] = req[t]
  BY <1>2 DEF Inv, RequestsInv
<1>4. ASSUME NEW l \in Line, NEW m \in Line, l # m, Untouched(l)', Untouched(m)',
             row'[l].status = "matched", row'[m].status = "matched", row'[l] = row[l]
      PROVE  <<row'[l].kind, row'[l].target>> # <<row'[m].kind, row'[m].target>>
  <2>1. Untouched(l) /\ Untouched(m)
    BY <1>1, <1>4, CommitLine
  <2>2. CASE row'[m] = row[m]
    BY <1>4, <2>1, <2>2 DEF LinesInv, OneLinePerTarget, Untouched, Steady
  <2>3. CASE row'[m] = q.new[m] /\ q.op = "match" /\ DOMAIN q.new = {m}
    <3>1. Single(q)
      BY <1>2, <2>3 DEF LinesInv
    <3>2. row[l].status = "matched"
      BY <1>4
    <3>3. <<row[l].kind, row[l].target>> # <<q.new[m].kind, q.new[m].target>>
      BY <1>4, <2>1, <2>3, <3>1, <3>2 DEF Single
    <3> QED
      BY <1>4, <2>3, <3>3
  <2> QED
    BY <1>1, <1>4, <2>2, <2>3, CommitLine
<1>5. ASSUME NEW l \in Line, NEW m \in Line, l # m, Untouched(l)', Untouched(m)',
             row'[l].status = "matched", row'[m].status = "matched"
      PROVE  <<row'[l].kind, row'[l].target>> # <<row'[m].kind, row'[m].target>>
  <2>1. row'[l] = row[l] \/ row'[m] = row[m]
    <3>1. row'[l] = row[l] \/ DOMAIN q.new = {l}
      BY <1>1, <1>5, CommitLine
    <3>2. row'[m] = row[m] \/ DOMAIN q.new = {m}
      BY <1>1, <1>5, CommitLine
    <3> QED
      BY <1>5, <3>1, <3>2
  <2>2. CASE row'[l] = row[l]
    BY <1>4, <1>5, <2>2
  <2>3. CASE row'[m] = row[m]
    <3>1. <<row'[m].kind, row'[m].target>> # <<row'[l].kind, row'[l].target>>
      BY <1>4, <1>5, <2>3
    <3> QED
      BY <3>1
  <2> QED
    BY <2>1, <2>2, <2>3
<1>6. ASSUME NEW t \in Slot, Busy(t)', req'[t].op = "match"
      PROVE  Single(req[t])'
  <2>1. t # s /\ Busy(t)
    BY <1>3, <1>6 DEF Busy
  <2>2. PICK p : p = req[t] /\ p = req'[t]
    BY <1>3, <2>1
  <2>3. Family(p) /\ p.op = "match" /\ p.locks \cap q.locks = {} /\ Single(p)
    BY <1>2, <1>6, <2>1, <2>2 DEF Inv, RequestsInv, ReqInv, Apart, LinesInv
  <2>4. PICK l \in Line : DOMAIN p.new = {l} /\ p.locks = {p.new[l].target}
    <3>1. LineReq(p)
      BY <2>3, FamilyOf
    <3> QED
      BY <2>3, <3>1 DEF LineReq
  <2>5. ASSUME NEW m \in Line, m # l, Untouched(m)', row'[m].status = "matched"
        PROVE  <<row'[m].kind, row'[m].target>> # <<p.new[l].kind, p.new[l].target>>
    <3>1. Untouched(m)
      BY <1>1, <2>5, CommitLine
    <3>2. CASE row'[m] = row[m]
      <4>1. row[m].status = "matched"
        BY <2>5, <3>2
      <4>2. <<row[m].kind, row[m].target>> # <<p.new[l].kind, p.new[l].target>>
        BY <2>3, <2>4, <2>5, <3>1, <4>1 DEF Single
      <4> QED
        BY <3>2, <4>2
    <3>3. CASE row'[m] = q.new[m] /\ q.locks = {q.new[m].target}
      <4>1. q.new[m].target # p.new[l].target
        BY <2>3, <2>4, <3>3
      <4> QED
        BY <3>3, <4>1
    <3> QED
      BY <1>1, <2>5, <3>2, <3>3, CommitLine
  <2>6. \A k \in DOMAIN p.new, m \in Line :
          m # k /\ Untouched(m)' /\ row'[m].status = "matched" =>
            <<row'[m].kind, row'[m].target>> # <<p.new[k].kind, p.new[k].target>>
    BY <2>4, <2>5
  <2> QED
    BY <2>2, <2>6 DEF Single
<1>7. OneLinePerTarget'
  BY <1>5 DEF OneLinePerTarget, Untouched, Steady
<1> QED
  BY <1>6, <1>7 DEF LinesInv

LEMMA LinesStep ==
    ASSUME Inv, LinesInv, [Next]_vars
    PROVE  LinesInv'
<1>1. StepShape
  BY StepInv
<1>2. CASE Still /\ req' = req
  BY <1>2 DEF Still, LinesInv, OneLinePerTarget, Busy, Single, Untouched, Steady
<1>3. ASSUME NEW s \in Slot, Takes(s) PROVE LinesInv'
  <2>1. OneLinePerTarget'
    BY <1>3 DEF Takes, Still, LinesInv, OneLinePerTarget
  <2>2. ASSUME NEW t \in Slot, Busy(t)', req'[t].op = "match" PROVE Single(req[t])'
    <3>1. PICK p : p = req'[t]
      OBVIOUS
    <3>2. Single(p)
      BY <1>3, <2>2, <3>1 DEF Takes, Fit, Busy, LinesInv
    <3> QED
      BY <1>3, <3>1, <3>2 DEF Takes, Still, Single, Untouched, Steady
  <2> QED
    BY <2>1, <2>2 DEF LinesInv
<1>4. ASSUME NEW s \in Slot, Commit(s) PROVE LinesInv'
  BY <1>4, LinesCommit
<1> QED
  BY <1>1, <1>2, <1>3, <1>4 DEF StepShape

LEMMA LinesInit == ASSUME Init PROVE LinesInv
<1>1. PICK total : First(total)
  BY InitFirst
<1>2. \A l \in Line : row[l].status = "unmatched"
  BY <1>1 DEF First, Unmatched
<1>3. \A s \in Slot : ~Busy(s)
  BY <1>1 DEF First, Busy
<1> QED
  BY <1>2, <1>3 DEF LinesInv, OneLinePerTarget

\* A receipt or a payment is reconciled with at most one line of a bank statement,
\* for every set of them (confirm_match locks the target), unless a line was
\* changed under a confirmation of it.
THEOREM OneLineCorrect == Spec => []OneLinePerTarget
<1>1. Init => Inv /\ LinesInv
  BY InitInv, LinesInit
<1>2. Inv /\ LinesInv /\ [Next]_vars => (Inv /\ LinesInv)'
  BY StepInv, LinesStep
<1>3. LinesInv => OneLinePerTarget
  BY DEF LinesInv
<1> QED
  BY <1>1, <1>2, <1>3, PTL DEF Spec

----------------------------------------------------------------------------
(* The ledger: corrections cancel what they correct.                       *)

Taken(l, k) == \E j \in DOMAIN l : l[j].of = k

TakesBack(l, e) ==
    /\ e.of \in DOMAIN l
    /\ l[e.of].amount > 0 /\ e.amount = -l[e.of].amount
    /\ e.doc = l[e.of].doc /\ e.receipt = l[e.of].receipt

\* The payments that were not taken back.
LiveIn(l) == {k \in DOMAIN l : l[k].amount > 0 /\ ~Taken(l, k)}

Classes == SUBSET (Doc \X (Receipt \cup {NoReceipt}))

ClassIn(l, P) == {k \in DOMAIN l : <<l[k].doc, l[k].receipt>> \in P}

\* Whichever invoices and receipts are counted, the payments not taken back are
\* what the entries add up to.
Balanced(l) ==
    \A P \in Classes : AmountsIn(l, ClassIn(l, P)) = AmountsIn(l, ClassIn(l, P) \cap LiveIn(l))

LedgerRules(l) ==
    /\ l \in Seq(Entry)
    /\ \A j \in DOMAIN l : IF l[j].of = 0 THEN l[j].amount > 0 ELSE TakesBack(l, l[j])
    /\ \A i, j \in DOMAIN l : l[i].of # 0 /\ l[i].of = l[j].of => i = j
    /\ Balanced(l)

\* An entry that may be added.
May(l, e) ==
    /\ e \in Entry
    /\ IF e.of = 0 THEN e.amount > 0 ELSE TakesBack(l, e) /\ ~Taken(l, e.of)

\* The ledger with one more entry.
LEMMA OneMore ==
    ASSUME NEW T \in {Entry, Note}, NEW l \in Seq(T), NEW e \in T, NEW m, m = Append(l, e),
           NEW n, n = Len(l) + 1
    PROVE  /\ m \in Seq(T) /\ n \in Nat /\ n # 0 /\ n \notin DOMAIN l /\ 0 \notin DOMAIN l
           /\ DOMAIN m = DOMAIN l \cup {n}
           /\ \A k \in DOMAIN l : m[k] = l[k]
           /\ m[n] = e
<1>1. PICK len \in Nat : len = Len(l) /\ DOMAIN l = 1 .. len
  OBVIOUS
<1>2. m \in Seq(T) /\ Len(m) = len + 1 /\ DOMAIN m = 1 .. len + 1
  BY <1>1
<1>3. m[n] = e /\ \A k \in DOMAIN l : m[k] = l[k]
  BY <1>1
<1> QED
  BY <1>1, <1>2, <1>3

Longer(l, e, m, n) == m = Append(l, e) /\ n = Len(l) + 1
Part(S, l) == S \subseteq DOMAIN l

LEMMA PartGrows ==
    ASSUME NEW T \in {Entry, Note}, NEW l \in Seq(T), NEW e \in T, NEW m, NEW n,
           Longer(l, e, m, n),
           NEW S, Part(S, l)
    PROVE  /\ AmountsIn(m, S) = AmountsIn(l, S)
           /\ AmountsIn(m, S \cup {n}) = e.amount + AmountsIn(l, S)
<1>1. /\ m \in Seq(T) /\ n \notin DOMAIN l
      /\ DOMAIN m = DOMAIN l \cup {n}
      /\ \A k \in DOMAIN l : m[k] = l[k]
      /\ m[n] = e
  BY OneMore DEF Longer
<1> USE DEF Part
<1>2. AmountsIn(m, S) = AmountsIn(l, S)
  <2>1. IsFiniteSet(S)
    BY SeqSums
  <2>2. \A k \in S : m[k].amount = l[k].amount
    BY <1>1
  <2> QED
    BY <2>1, <2>2, AmountsSame
<1>3. AmountsIn(m, S \cup {n}) = e.amount + AmountsIn(l, S)
  <2>1. S \cup {n} \in SUBSET DOMAIN m /\ n \in S \cup {n} /\ (S \cup {n}) \ {n} = S
    BY <1>1
  <2>2. IsFiniteSet(S \cup {n}) /\ \A k \in S \cup {n} : m[k].amount \in Int
    <3>1. PICK U : U = S \cup {n}
      OBVIOUS
    <3>2. IsFiniteSet(U) /\ \A k \in U : m[k].amount \in Int
      BY <1>1, <2>1, <3>1, SeqSums
    <3> QED
      BY <3>1, <3>2
  <2>3. AmountsIn(m, S \cup {n}) = m[n].amount + AmountsIn(m, (S \cup {n}) \ {n})
    BY <2>1, <2>2, AmountsRemove
  <2> QED
    BY <1>1, <1>2, <2>1, <2>3
<1> QED
  BY <1>2, <1>3

\* What one more entry adds to a receipt, and to an invoice.
SpentIn(l, r) == {k \in DOMAIN l : l[k].receipt = r}
PaidIn(l, d) == {k \in DOMAIN l : l[k].doc = d}

Sums(l, e, m) ==
    /\ \A r : AmountsIn(m, SpentIn(m, r)) = IF e.receipt = r
                                           THEN e.amount + AmountsIn(l, SpentIn(l, r))
                                           ELSE AmountsIn(l, SpentIn(l, r))
    /\ \A d : AmountsIn(m, PaidIn(m, d)) = IF e.doc = d
                                          THEN e.amount + AmountsIn(l, PaidIn(l, d))
                                          ELSE AmountsIn(l, PaidIn(l, d))

LEMMA SumsGrow ==
    ASSUME NEW l \in Seq(Entry), NEW e \in Entry, NEW m, m = Append(l, e)
    PROVE  Sums(l, e, m)
<1>0. PICK n : n = Len(l) + 1
  OBVIOUS
<1>1. Longer(l, e, m, n)
  BY <1>0 DEF Longer
<1>2. /\ n \notin DOMAIN l
      /\ DOMAIN m = DOMAIN l \cup {n}
      /\ \A k \in DOMAIN l : m[k] = l[k]
      /\ m[n] = e
  BY <1>0, OneMore
<1>3. ASSUME NEW r
      PROVE  AmountsIn(m, SpentIn(m, r)) = IF e.receipt = r
                                           THEN e.amount + AmountsIn(l, SpentIn(l, r))
                                           ELSE AmountsIn(l, SpentIn(l, r))
  <2>1. SpentIn(m, r) = IF e.receipt = r THEN SpentIn(l, r) \cup {n} ELSE SpentIn(l, r)
    BY <1>2 DEF SpentIn
  <2>2. Part(SpentIn(l, r), l)
    BY DEF SpentIn, Part
  <2>3. /\ AmountsIn(m, SpentIn(l, r)) = AmountsIn(l, SpentIn(l, r))
        /\ AmountsIn(m, SpentIn(l, r) \cup {n}) = e.amount + AmountsIn(l, SpentIn(l, r))
    BY <1>1, <2>2, PartGrows
  <2> QED
    BY <2>1, <2>3
<1>4. ASSUME NEW d
      PROVE  AmountsIn(m, PaidIn(m, d)) = IF e.doc = d
                                          THEN e.amount + AmountsIn(l, PaidIn(l, d))
                                          ELSE AmountsIn(l, PaidIn(l, d))
  <2>1. PaidIn(m, d) = IF e.doc = d THEN PaidIn(l, d) \cup {n} ELSE PaidIn(l, d)
    BY <1>2 DEF PaidIn
  <2>2. Part(PaidIn(l, d), l)
    BY DEF PaidIn, Part
  <2>3. /\ AmountsIn(m, PaidIn(l, d)) = AmountsIn(l, PaidIn(l, d))
        /\ AmountsIn(m, PaidIn(l, d) \cup {n}) = e.amount + AmountsIn(l, PaidIn(l, d))
    BY <1>1, <2>2, PartGrows
  <2> QED
    BY <2>1, <2>3
<1> QED
  BY <1>3, <1>4 DEF Sums

LEMMA LiveAfter ==
    ASSUME NEW l, LedgerRules(l), NEW e, May(l, e), NEW m, m = Append(l, e),
           NEW n, n = Len(l) + 1
    PROVE  LiveIn(m) = IF e.of = 0 THEN LiveIn(l) \cup {n} ELSE LiveIn(l) \ {e.of}
<1>1. /\ l \in Seq(Entry) /\ e \in Entry
      /\ \A j \in DOMAIN l : l[j].of = 0 \/ l[j].of \in DOMAIN l
      /\ e.of = 0 \/ e.of \in DOMAIN l
  BY DEF LedgerRules, May, TakesBack
<1>2. /\ n # 0 /\ n \notin DOMAIN l /\ 0 \notin DOMAIN l
      /\ DOMAIN m = DOMAIN l \cup {n}
      /\ \A k \in DOMAIN l : m[k] = l[k]
      /\ m[n] = e
  BY <1>1, OneMore
<1>3. ~Taken(m, n)
  BY <1>1, <1>2 DEF Taken
<1>4. ASSUME NEW k \in DOMAIN l PROVE Taken(m, k) <=> Taken(l, k) \/ e.of = k
  BY <1>1, <1>2 DEF Taken
<1>5. CASE e.of = 0
  <2>1. e.amount > 0
    BY <1>5 DEF May
  <2>2. \A k \in DOMAIN l : Taken(m, k) <=> Taken(l, k)
    BY <1>2, <1>4, <1>5
  <2>3. LiveIn(m) = LiveIn(l) \cup {n}
    BY <1>2, <1>3, <2>1, <2>2 DEF LiveIn
  <2> QED
    BY <1>5, <2>3
<1>6. CASE e.of # 0
  <2>1. ~(e.amount > 0)
    <3>1. e.of \in DOMAIN l /\ l[e.of].amount > 0 /\ e.amount = -l[e.of].amount
      BY <1>6 DEF May, TakesBack
    <3>2. l[e.of] \in Entry
      BY <1>1, <3>1
    <3> QED
      BY <3>1, <3>2 DEF Entry
  <2>2. LiveIn(m) = LiveIn(l) \ {e.of}
    BY <1>2, <1>3, <1>4, <2>1 DEF LiveIn
  <2> QED
    BY <1>6, <2>2
<1> QED
  BY <1>5, <1>6

LEMMA StaysBalanced ==
    ASSUME NEW l, LedgerRules(l), NEW e, May(l, e), NEW m, m = Append(l, e)
    PROVE  Balanced(m)
<1>0. PICK n : n = Len(l) + 1
  OBVIOUS
<1>1. Longer(l, e, m, n)
  BY <1>0 DEF Longer
<1>2. l \in Seq(Entry) /\ e \in Entry /\ Balanced(l)
  BY DEF LedgerRules, May
<1>3. /\ m \in Seq(Entry) /\ n \notin DOMAIN l
      /\ DOMAIN m = DOMAIN l \cup {n}
      /\ \A k \in DOMAIN l : m[k] = l[k]
      /\ m[n] = e
  BY <1>0, <1>2, OneMore
<1>4. LiveIn(m) = IF e.of = 0 THEN LiveIn(l) \cup {n} ELSE LiveIn(l) \ {e.of}
  BY <1>0, LiveAfter
<1>5. SUFFICES ASSUME NEW P \in Classes
               PROVE  AmountsIn(m, ClassIn(m, P)) = AmountsIn(m, ClassIn(m, P) \cap LiveIn(m))
  BY DEF Balanced
<1> DEFINE C == ClassIn(l, P)
           L == LiveIn(l)
<1>6. C \in SUBSET DOMAIN l /\ L \in SUBSET DOMAIN l
  BY DEF ClassIn, LiveIn
<1>7. AmountsIn(l, C) = AmountsIn(l, C \cap L)
  BY <1>2 DEF Balanced
<1>8. ASSUME NEW S \in SUBSET DOMAIN l
      PROVE  /\ AmountsIn(m, S) = AmountsIn(l, S)
             /\ AmountsIn(m, S \cup {n}) = e.amount + AmountsIn(l, S)
  <2>1. Part(S, l)
    BY DEF Part
  <2> QED
    BY <1>1, <1>2, <2>1, PartGrows
<1>10. ClassIn(m, P) = IF <<e.doc, e.receipt>> \in P THEN C \cup {n} ELSE C
  BY <1>3 DEF ClassIn
<1>11. e.of # 0 => /\ e.of \in L /\ e.amount = -l[e.of].amount
                   /\ e.of \in C <=> <<e.doc, e.receipt>> \in P
  <2>1. SUFFICES ASSUME e.of # 0
                 PROVE  /\ e.of \in L /\ e.amount = -l[e.of].amount
                        /\ e.of \in C <=> <<e.doc, e.receipt>> \in P
    OBVIOUS
  <2>2. TakesBack(l, e) /\ ~Taken(l, e.of)
    BY <2>1 DEF May
  <2> QED
    BY <2>2 DEF TakesBack, LiveIn, ClassIn
<1>12. C \cap L \in SUBSET DOMAIN l /\ (C \cap L) \ {e.of} \in SUBSET DOMAIN l
  BY <1>6
<1> HIDE DEF C, L
<1>13. CASE <<e.doc, e.receipt>> \notin P
  <2>1. ClassIn(m, P) = C
    BY <1>10, <1>13
  <2>2. C \cap LiveIn(m) = C \cap L
    BY <1>3, <1>4, <1>6, <1>11, <1>13 DEF L
  <2> QED
    BY <1>6, <1>7, <1>8, <1>12, <2>1, <2>2
<1>14. CASE <<e.doc, e.receipt>> \in P /\ e.of = 0
  <2>1. ClassIn(m, P) = C \cup {n}
    BY <1>10, <1>14
  <2>2. (C \cup {n}) \cap LiveIn(m) = (C \cap L) \cup {n}
    BY <1>4, <1>14 DEF L
  <2> QED
    BY <1>6, <1>7, <1>8, <1>12, <2>1, <2>2
<1>15. CASE <<e.doc, e.receipt>> \in P /\ e.of # 0
  <2>1. ClassIn(m, P) = C \cup {n}
    BY <1>10, <1>15
  <2>2. (C \cup {n}) \cap LiveIn(m) = (C \cap L) \ {e.of}
    BY <1>3, <1>4, <1>6, <1>15 DEF L
  <2>3. e.of \in C \cap L
    BY <1>11, <1>15
  <2>4. AmountsIn(l, C \cap L) = l[e.of].amount + AmountsIn(l, (C \cap L) \ {e.of})
    <3>1. IsFiniteSet(C \cap L) /\ \A k \in C \cap L : l[k].amount \in Int
      BY <1>2, <1>12, SeqSums
    <3> QED
      BY <2>3, <3>1, AmountsRemove
  <2>5. PICK a \in Int, b \in Int, c \in Int :
          /\ a = AmountsIn(l, C \cap L) /\ b = AmountsIn(l, (C \cap L) \ {e.of}) /\ c = l[e.of].amount
    BY <1>2, <1>12, <2>3, SeqSums
  <2>6. AmountsIn(m, C \cup {n}) = -c + a
    BY <1>6, <1>7, <1>8, <1>11, <1>15, <2>5
  <2>7. AmountsIn(m, (C \cap L) \ {e.of}) = b
    BY <1>8, <1>12, <2>5
  <2>8. AmountsIn(m, C \cup {n}) = AmountsIn(m, (C \cap L) \ {e.of})
    BY <2>4, <2>5, <2>6, <2>7
  <2> QED
    BY <2>1, <2>2, <2>8
<1> QED
  BY <1>13, <1>14, <1>15

LEMMA LedgerGrows ==
    ASSUME NEW l, LedgerRules(l), NEW e, May(l, e), NEW m, m = Append(l, e)
    PROVE  LedgerRules(m)
<1>1. PICK n : n = Len(l) + 1
  OBVIOUS
<1>2. l \in Seq(Entry) /\ e \in Entry
  BY DEF LedgerRules, May
<1>3. /\ m \in Seq(Entry) /\ n \notin DOMAIN l
      /\ DOMAIN m = DOMAIN l \cup {n}
      /\ \A k \in DOMAIN l : m[k] = l[k]
      /\ m[n] = e
  BY <1>1, <1>2, OneMore
<1>4. ASSUME NEW j \in DOMAIN m
      PROVE  IF m[j].of = 0 THEN m[j].amount > 0 ELSE TakesBack(m, m[j])
  <2>1. IF m[j].of = 0 THEN m[j].amount > 0 ELSE TakesBack(l, m[j])
    BY <1>3 DEF LedgerRules, May
  <2> QED
    BY <1>3, <2>1 DEF TakesBack
<1>5. ASSUME NEW i \in DOMAIN m, NEW j \in DOMAIN m, m[i].of # 0, m[i].of = m[j].of
      PROVE  i = j
  <2>1. CASE i \in DOMAIN l /\ j \in DOMAIN l
    BY <1>3, <1>5, <2>1 DEF LedgerRules
  <2>2. CASE i = n /\ j \in DOMAIN l
    BY <1>3, <1>5, <2>2 DEF May, Taken
  <2>3. CASE j = n /\ i \in DOMAIN l
    BY <1>3, <1>5, <2>3 DEF May, Taken
  <2> QED
    BY <1>3, <2>1, <2>2, <2>3
<1> QED
  BY <1>3, <1>4, <1>5, StaysBalanced DEF LedgerRules

\* The part of the ledger of a class adds up to nothing less than 0.
LEMMA ClassSum ==
    ASSUME NEW l, LedgerRules(l), NEW P \in Classes
    PROVE  /\ AmountsIn(l, ClassIn(l, P)) \in Nat
           /\ AmountsIn(l, ClassIn(l, P)) <= 0 => ClassIn(l, P) \cap LiveIn(l) = {}
<1> DEFINE S == ClassIn(l, P) \cap LiveIn(l)
<1>1. l \in Seq(Entry) /\ AmountsIn(l, ClassIn(l, P)) = AmountsIn(l, S)
  BY DEF LedgerRules, Balanced
<1>2. S \in SUBSET DOMAIN l /\ \A k \in S : l[k].amount > 0
  BY DEF LiveIn
<1> HIDE DEF S
<1>3. IsFiniteSet(S) /\ \A k \in S : l[k].amount \in Int
  BY <1>1, <1>2, SeqSums
<1>4. \A k \in S : l[k].amount \in Nat
  BY <1>2, <1>3
<1>5. AmountsIn(l, S) \in Nat
  BY <1>3, <1>4, AmountsNat
<1>6. ASSUME NEW k \in S PROVE AmountsIn(l, S) > 0
  <2>1. AmountsIn(l, S) = l[k].amount + AmountsIn(l, S \ {k})
    BY <1>3, AmountsRemove
  <2>2. AmountsIn(l, S \ {k}) \in Nat
    <3>1. IsFiniteSet(S \ {k}) /\ \A j \in S \ {k} : l[j].amount \in Nat
      BY <1>3, <1>4, FS_Subset
    <3> QED
      BY <3>1, AmountsNat
  <2> QED
    BY <1>2, <1>4, <2>1, <2>2
<1>7. S = {} \/ AmountsIn(l, S) > 0
  BY <1>6
<1> QED
  BY <1>1, <1>5, <1>7 DEF S

\* No receipt is spent twice, and what a request takes back or spends is left.
LedgerInv ==
    /\ LedgerRules(ledger)
    /\ \A r \in Receipt : AmountsIn(ledger, SpentIn(ledger, r)) <= ReceiptAmount
    /\ \A s \in Slot : Busy(s) /\ req[s].entries # <<>> => Due(req[s].entries[1])

\* A payment is made under a lock of its receipt, or else of its invoice.
LEMMA PayLocks ==
    ASSUME NEW q, PayReq(q), NEW e, e = q.entries[1]
    PROVE  IF e.receipt = NoReceipt THEN e.doc \in q.locks ELSE e.receipt \in Receipt \cap q.locks
BY Names DEF PayReq

\* What a commit adds to the ledger.
Adds(q, e) ==
    /\ q.entries = <<e>> /\ q.entries[1] = e /\ PayReq(q) /\ May(ledger, e) /\ Due(e)
    /\ ledger' = Append(ledger, e)

LEMMA CommitAdds ==
    ASSUME Inv, LedgerInv, NEW s \in Slot, NEW q, Writes(s, q)
    PROVE  \/ q.entries = <<>> /\ ledger' = ledger
           \/ Adds(q, q.entries[1])
<1>1. CASE q.entries = <<>>
  BY <1>1 DEF Writes, Grown
<1>2. CASE q.entries # <<>>
  <2>1. PICK e : e = q.entries[1]
    OBVIOUS
  <2>2. Formed(q) /\ Family(q) /\ Rests(q) /\ Busy(s) /\ q = req[s]
    BY DEF Writes, ReqInv
  <2>3. PayReq(q)
    BY <1>2, <2>2, FamilyOf
  <2>4. /\ e \in Entry /\ q.entries = <<e>>
        /\ DOMAIN q.new = {e.doc}
        /\ \A d \in DOMAIN q.new : e.of # 0 \/ Capped(q, d, e)
    BY <2>1, <2>2, <2>3, PayWrites
  <2>5. ledger' = Append(ledger, e)
    BY <1>2, <2>1 DEF Writes, Grown
  <2>6. Due(e)
    BY <1>2, <2>1, <2>2 DEF LedgerInv
  <2>7. May(ledger, e)
    <3>1. CASE e.of = 0
      BY <2>4, <3>1 DEF May, Capped
    <3>2. CASE e.of # 0
      <4>1. Corrects(e)
        BY <1>2, <2>1, <2>2, <3>2 DEF Rests
      <4>2. ~Taken(ledger, e.of)
        BY <2>6, <3>2 DEF Due, Reversed, Taken
      <4> QED
        BY <2>4, <3>2, <4>1, <4>2 DEF May, TakesBack, Corrects
    <3> QED
      BY <3>1, <3>2
  <2> QED
    BY <2>1, <2>3, <2>4, <2>5, <2>6, <2>7 DEF Adds
<1> QED
  BY <1>1, <1>2

LEMMA AllocationsAre ==
    ASSUME NEW r
    PROVE  AllocationsOf(r) = SpentIn(ledger, r)
BY DEF AllocationsOf, SpentIn

LEMMA LedgerCommit ==
    ASSUME Inv, LedgerInv, NEW s \in Slot, Commit(s)
    PROVE  LedgerInv'
<1>1. PICK q : Writes(s, q)
  BY CommitWrites
<1>2. /\ q = req[s] /\ Busy(s)
      /\ req'[s] = NoRequest /\ \A t \in Slot \ {s} : req'[t] = req[t]
  BY <1>1 DEF Writes, Inv, RequestsInv
<1>3. ASSUME NEW t \in Slot, Busy(t)', req'[t].entries # <<>>
      PROVE  /\ t # s /\ Busy(t) /\ req'[t] = req[t]
             /\ PayReq(req[t]) /\ req[t].entries # <<>> /\ Rests(req[t])
             /\ Due(req[t].entries[1]) /\ req[t].locks \cap q.locks = {}
  <2>1. t # s /\ Busy(t) /\ req'[t] = req[t]
    BY <1>2, <1>3 DEF Busy
  <2>2. Family(req[t]) /\ Rests(req[t]) /\ req[t].locks \cap q.locks = {}
    BY <1>2, <2>1 DEF Inv, RequestsInv, ReqInv, Apart
  <2> QED
    BY <1>3, <2>1, <2>2, FamilyOf DEF LedgerInv
<1>4. CASE ledger' = ledger
  <2>1. ASSUME NEW t \in Slot, Busy(t)', req'[t].entries # <<>>
        PROVE  Due(req[t].entries[1])'
    <3>1. PICK e : e = req[t].entries[1] /\ e = req'[t].entries[1]
      BY <1>3, <2>1
    <3>2. Due(e)
      BY <1>3, <2>1, <3>1
    <3> QED
      BY <1>4, <3>1, <3>2 DEF Due, Reversed, AllocationsOf
  <2> QED
    BY <1>4, <2>1 DEF LedgerInv
<1>5. ASSUME NEW e, Adds(q, e) PROVE LedgerInv'
  <2>1. /\ e \in Entry /\ ledger \in Seq(Entry) /\ ledger' = Append(ledger, e)
        /\ May(ledger, e) /\ Due(e) /\ PayReq(q) /\ e = q.entries[1]
    BY <1>5 DEF Adds, May, Inv, BooksInv
  <2>2. LedgerRules(ledger')
    BY <2>1, LedgerGrows DEF LedgerInv
  <2>3. \A r \in Receipt : /\ AmountsIn(ledger, SpentIn(ledger, r)) \in Int
                           /\ AmountsIn(ledger, SpentIn(ledger, r)) <= ReceiptAmount
    <3>1. \A r \in Receipt : SpentIn(ledger, r) \in SUBSET DOMAIN ledger
      BY DEF SpentIn
    <3>2. ASSUME NEW r \in Receipt PROVE AmountsIn(ledger, SpentIn(ledger, r)) \in Int
      <4>1. PICK S : S = SpentIn(ledger, r)
        OBVIOUS
      <4> QED
        BY <2>1, <3>1, <4>1, SeqSums
    <3> QED
      BY <3>2 DEF LedgerInv
  <2>4. \A r : AmountsIn(ledger', SpentIn(ledger', r))
                 = IF e.receipt = r THEN e.amount + AmountsIn(ledger, SpentIn(ledger, r))
                   ELSE AmountsIn(ledger, SpentIn(ledger, r))
    <3>1. Sums(ledger, e, ledger')
      BY <2>1, SumsGrow
    <3> QED
      BY <3>1 DEF Sums
  <2>5. ASSUME NEW r \in Receipt PROVE AmountsIn(ledger', SpentIn(ledger', r)) <= ReceiptAmount
    <3>1. CASE e.receipt # r
      BY <2>3, <2>4, <3>1
    <3>2. CASE e.receipt = r /\ e.of = 0
      <4>1. AmountsIn(ledger, SpentIn(ledger, r)) + e.amount <= ReceiptAmount
        BY <2>1, <3>2, AllocationsAre, Names DEF Due
      <4>2. e.amount \in Int
        BY <2>1 DEF Entry
      <4> QED
        BY <2>3, <2>4, <3>2, <4>1, <4>2
    <3>3. CASE e.receipt = r /\ e.of # 0
      <4>1. TakesBack(ledger, e)
        BY <2>1, <3>3 DEF May
      <4>2. ledger[e.of] \in Entry
        BY <2>1, <4>1 DEF TakesBack
      <4>3. e.amount \in Int /\ e.amount < 0
        BY <4>1, <4>2 DEF TakesBack, Entry
      <4> QED
        BY <2>3, <2>4, <3>3, <4>3, ReceivablesAssumption
    <3> QED
      BY <3>1, <3>2, <3>3
  <2>6. ASSUME NEW t \in Slot, Busy(t)', req'[t].entries # <<>>
        PROVE  Due(req[t].entries[1])'
    <3>1. PICK f : f = req[t].entries[1] /\ f = req'[t].entries[1]
      BY <1>3, <2>6
    <3>2. /\ Due(f) /\ PayReq(req[t]) /\ req[t].locks \cap q.locks = {}
          /\ f.of # 0 => Corrects(f)
      BY <1>3, <2>6, <3>1 DEF Rests
    <3>3. ASSUME e.receipt = f.receipt, e.receipt = NoReceipt => e.doc = f.doc PROVE FALSE
      <4>1. IF e.receipt = NoReceipt THEN e.doc \in q.locks ELSE e.receipt \in q.locks
        BY <2>1, PayLocks
      <4>2. IF f.receipt = NoReceipt THEN f.doc \in req[t].locks ELSE f.receipt \in req[t].locks
        BY <3>1, <3>2, PayLocks
      <4> QED
        BY <3>2, <3>3, <4>1, <4>2
    <3>4. CASE f.of # 0
      <4>1. ~Taken(ledger, f.of)
        BY <3>2, <3>4 DEF Due, Reversed, Taken
      <4>2. e.of # f.of
        <5>1. SUFFICES ASSUME e.of = f.of PROVE FALSE
          OBVIOUS
        <5>2. TakesBack(ledger, e)
          BY <2>1, <3>4, <5>1 DEF May
        <5>3. e.doc = f.doc /\ e.receipt = f.receipt
          BY <3>2, <3>4, <5>1, <5>2 DEF TakesBack, Corrects
        <5> QED
          BY <3>3, <5>3
      <4>3. \A k \in DOMAIN ledger' : (k \in DOMAIN ledger /\ ledger'[k] = ledger[k]) \/ ledger'[k] = e
        BY <2>1
      <4>4. ~Reversed(f.of)'
        BY <4>1, <4>2, <4>3 DEF Reversed, Taken
      <4> QED
        BY <3>1, <3>4, <4>4 DEF Due
    <3>5. CASE f.of = 0 /\ f.receipt # NoReceipt
      <4>1. e.receipt # f.receipt
        BY <3>3, <3>5
      <4>2. AmountsIn(ledger, AllocationsOf(f.receipt)) + f.amount <= ReceiptAmount
        BY <3>2, <3>5 DEF Due
      <4>3. AmountsIn(ledger', SpentIn(ledger', f.receipt)) = AmountsIn(ledger, AllocationsOf(f.receipt))
        BY <2>4, <4>1, AllocationsAre
      <4>4. (AllocationsOf(f.receipt))' = SpentIn(ledger', f.receipt)
        BY DEF AllocationsOf, SpentIn
      <4> QED
        BY <3>1, <3>5, <4>2, <4>3, <4>4 DEF Due
    <3>6. CASE f.of = 0 /\ f.receipt = NoReceipt
      BY <3>1, <3>6 DEF Due
    <3> QED
      BY <3>4, <3>5, <3>6
  <2> QED
    BY <2>2, <2>5, <2>6 DEF LedgerInv
<1> QED
  BY <1>1, <1>4, <1>5, CommitAdds

LEMMA LedgerStep ==
    ASSUME Inv, LedgerInv, [Next]_vars
    PROVE  LedgerInv'
<1>1. StepShape
  BY StepInv
<1>2. CASE Still /\ req' = req
  BY <1>2 DEF Still, LedgerInv, Busy, Due, Reversed, AllocationsOf
<1>3. ASSUME NEW s \in Slot, Takes(s) PROVE LedgerInv'
  <2>1. ASSUME NEW t \in Slot, Busy(t)', req'[t].entries # <<>>
        PROVE  Due(req[t].entries[1])'
    <3>1. PICK e : e = req'[t].entries[1]
      OBVIOUS
    <3>2. Due(e)
      BY <1>3, <2>1, <3>1 DEF Takes, Fit, Busy, LedgerInv
    <3> QED
      BY <1>3, <3>1, <3>2 DEF Takes, Still, Due, Reversed, AllocationsOf
  <2> QED
    BY <1>3, <2>1 DEF Takes, Still, LedgerInv
<1>4. ASSUME NEW s \in Slot, Commit(s) PROVE LedgerInv'
  BY <1>4, LedgerCommit
<1> QED
  BY <1>1, <1>2, <1>3, <1>4 DEF StepShape

LEMMA LedgerInit == ASSUME Init PROVE LedgerInv
<1>1. PICK total : First(total)
  BY InitFirst
<1>2. ledger = <<>> /\ \A s \in Slot : ~Busy(s)
  BY <1>1 DEF First, Busy
<1>3. DOMAIN ledger = {}
  BY <1>2
<1>4. AmountsIn(ledger, {}) = 0
  BY AmountsEmpty
<1>5. \A r : SpentIn(ledger, r) = {}
  BY <1>3 DEF SpentIn
<1>6. \A P : ClassIn(ledger, P) = {} /\ ClassIn(ledger, P) \cap LiveIn(ledger) = {}
  BY <1>3 DEF ClassIn
<1>7. Balanced(ledger)
  BY <1>4, <1>6 DEF Balanced
<1>8. LedgerRules(ledger)
  BY <1>2, <1>3, <1>7 DEF LedgerRules
<1>9. \A r \in Receipt : AmountsIn(ledger, SpentIn(ledger, r)) = 0
  BY <1>4, <1>5
<1>10. ReceiptAmount \in Nat
  BY ReceivablesAssumption
<1> QED
  BY <1>2, <1>8, <1>9, <1>10 DEF LedgerInv

----------------------------------------------------------------------------
(* The figures cached on an invoice.                                       *)

NotedIn(l, d) == {k \in DOMAIN l : l[k].of = d}

PaidInv ==
    \A d \in Doc : Steady({"deallocate"}, d) => row[d].paid = AmountsIn(ledger, PaidIn(ledger, d))

\* The payments of an invoice that come from no receipt and were not taken back.
DirectIn(l, d) == {k \in LiveIn(l) : l[k].doc = d /\ l[k].receipt = NoReceipt}

VoidInv ==
    \A d \in Docs : row[d].voided /\ Steady({"void", "deallocate"}, d) =>
        row[d].credited = 0 /\ DirectIn(ledger, d) = {}

NotesInv ==
    /\ \A d \in Doc : row[d].life \in {"absent", "draft"} =>
         row[d].credited = 0 /\ NotedIn(notes, d) = {}
    /\ \A d \in Doc : Steady({"edit"}, d) =>
         row[d].credited = Lesser(AmountsIn(notes, NotedIn(notes, d)), row[d].total)
    /\ \A k \in DOMAIN notes : notes[k].number = k
    /\ row[Issuer].nextCredit = Len(notes) + 1

\* The columns of an invoice that a commit changes, by the operation.
Kept(q, d) ==
    /\ row'[d].paid = row[d].paid \/ (PayReq(q) /\ d \in DOMAIN q.new)
    /\ row'[d].credited = row[d].credited \/ (CreditReq(q) /\ d \in DOMAIN q.new)
    /\ row'[d].voided = row[d].voided \/ (VoidReq(q) /\ d \in DOMAIN q.new)
    /\ row'[d].total = row[d].total \/ (EditReq(q) /\ d \in DOMAIN q.new)
    /\ row'[d].life = row[d].life \/ row'[d].life \notin {"absent", "draft"}

LEMMA CommitKeeps ==
    ASSUME Inv, NEW s \in Slot, NEW q, Writes(s, q), NEW d \in Docs
    PROVE  Kept(q, d)
<1>1. Formed(q) /\ Family(q) /\ Rests(q) /\ d \in Doc
  BY DEF Writes, ReqInv, Docs
<1>2. CASE d \notin DOMAIN q.new
  BY <1>1, <1>2 DEF Writes, Tables, Kept
<1>3. CASE d \in DOMAIN q.new
  <2>1. d \notin Inserted(q)
    BY <1>1, NoDocTyped DEF Rests, Docs
  <2>2. Keeps(q, d)
    BY <1>1, <1>3, <2>1, ColumnsWritten
  <2>3. /\ row'[d].life = Column(row[d].life, q.seen[d].life, q.new[d].life)
        /\ row'[d].total = Column(row[d].total, q.seen[d].total, q.new[d].total)
        /\ row'[d].paid = Column(row[d].paid, q.seen[d].paid, q.new[d].paid)
        /\ row'[d].credited = Column(row[d].credited, q.seen[d].credited, q.new[d].credited)
        /\ row'[d].voided = Column(row[d].voided, q.seen[d].voided, q.new[d].voided)
        /\ q.seen[d] \in DocRow
    BY <1>1, <1>3, CommitDoc
  <2>4. q.op = "edit" => EditReq(q)
    BY <1>1, FamilyOf
  <2>5. ASSUME q.op = "issue" PROVE q.new[d].life = "issued"
    <3>1. IssueReq(q)
      BY <1>1, <2>5, FamilyOf
    <3>2. PICK e, n : /\ DOMAIN q.new = {e, Issuer} /\ q.seen[e] \in DocRow
                      /\ q.new[e] = [q.seen[e] EXCEPT !.life = "issued", !.number = n]
      BY <3>1 DEF IssueReq, DrawsOne, Loaded
    <3>3. d = e
      BY <1>1, <1>3, <3>2, Names
    <3> QED
      BY <3>2, <3>3 DEF DocRow
  <2>6. ASSUME MoveReq(q) PROVE q.new[d].life \notin {"absent", "draft"}
    <3>1. Transition[q.op].to \notin {"absent", "draft"}
      BY <2>6 DEF MoveReq, Transition
    <3>2. q.new[d].life = Transition[q.op].to
      BY <1>3, <2>3, <2>6 DEF MoveReq, DocRow
    <3> QED
      BY <3>1, <3>2
  <2>7. row'[d].life = row[d].life \/ row'[d].life \notin {"absent", "draft"}
    BY <2>2, <2>3, <2>5, <2>6 DEF Keeps, Column
  <2> QED
    BY <1>3, <2>2, <2>3, <2>4, <2>7 DEF Keeps, Column, Kept
<1> QED
  BY <1>2, <1>3

\* An invoice that does not exist yet comes without figures.
LEMMA CommitBears ==
    ASSUME Inv, NEW s \in Slot, NEW q, Writes(s, q), NEW d \in Doc \ Docs
    PROVE  /\ row[d] = NoDoc
           /\ row'[d].paid = 0 /\ row'[d].credited = 0 /\ row'[d].voided = FALSE
<1>1. row[d] = NoDoc
  BY DEF Docs, Inv, RowsInv
<1>2. CASE d \notin DOMAIN q.new
  <2>1. row'[d] = NoDoc
    BY <1>1, <1>2 DEF Writes, Tables
  <2> QED
    BY <1>1, <2>1 DEF NoDoc
<1>3. CASE d \in DOMAIN q.new
  <2>1. Formed(q) /\ Family(q) /\ d \in Inserted(q)
    BY <1>3 DEF Writes, ReqInv, Rests
  <2>2. row'[d] = q.new[d]
    BY <1>3, <2>1, CommitHeld
  <2>3. Born(q, d)
    BY <1>3, <2>1, ColumnsWritten
  <2> QED
    BY <1>1, <2>2, <2>3 DEF Born
<1> QED
  BY <1>2, <1>3

\* What a payment leaves on its invoice, unless it was overtaken.
LEMMA CommitPays ==
    ASSUME Inv, NEW s \in Slot, Commit(s), NEW q, Writes(s, q), NEW e, Adds(q, e),
           NEW d \in DOMAIN q.new, Steady({"deallocate"}, d)'
    PROVE  /\ d = e.doc /\ row[d] = q.seen[d] /\ row'[d] = q.new[d]
           /\ row'[d].paid = row[d].paid + e.amount
<1>1. /\ Formed(q) /\ PayReq(q) /\ May(ledger, e) /\ e = q.entries[1] /\ e \in Entry
      /\ ledger \in Seq(Entry)
  BY DEF Adds, Writes, ReqInv, May, Inv, BooksInv
<1>2. /\ d = e.doc /\ Loaded(q, d)
      /\ q.new[d].paid = q.seen[d].paid + e.amount
      /\ q.op = "deallocate" \/ d \in q.locks
  BY <1>1, PayWrites
<1>3. q.seen[d].paid \in Int
  BY <1>2 DEF Loaded, DocRow
<1>4. e.amount \in Int /\ e.amount # 0
  <2>1. CASE e.of = 0
    BY <1>1, <2>1 DEF May, Entry
  <2>2. CASE e.of # 0
    <3>1. TakesBack(ledger, e)
      BY <1>1, <2>2 DEF May
    <3>2. ledger[e.of] \in Entry
      BY <1>1, <3>1 DEF TakesBack
    <3> QED
      BY <3>1, <3>2 DEF TakesBack, Entry
  <2> QED
    BY <2>1, <2>2
<1>5. q.new[d] # q.seen[d]
  BY <1>2, <1>3, <1>4
<1>6. row[d] = q.seen[d] /\ row'[d] = q.new[d]
  <2>1. CASE d \in q.locks
    BY <2>1, CommitHeld
  <2>2. CASE q.op = "deallocate"
    <3>1. <<q.op, d>> \notin raced'
      BY <2>2 DEF Steady
    <3> QED
      BY <1>5, <3>1, NotOvertaken
  <2> QED
    BY <1>2, <2>1, <2>2
<1> QED
  BY <1>2, <1>6

LEMMA PaidCommit ==
    ASSUME Inv, LedgerInv, PaidInv, NEW s \in Slot, Commit(s)
    PROVE  PaidInv'
<1>1. PICK q : Writes(s, q)
  BY CommitWrites
<1>2. PICK e : e = q.entries[1]
  OBVIOUS
<1>3. (q.entries = <<>> /\ ledger' = ledger) \/ Adds(q, e)
  BY <1>1, <1>2, CommitAdds
<1>4. ASSUME NEW d \in Doc, Steady({"deallocate"}, d)'
      PROVE  row'[d].paid = AmountsIn(ledger', PaidIn(ledger', d))
  <2>1. row[d].paid = AmountsIn(ledger, PaidIn(ledger, d))
    <3>1. Steady({"deallocate"}, d)
      BY <1>4, RacedGrows DEF Steady
    <3> QED
      BY <3>1 DEF PaidInv
  <2>2. ASSUME Adds(q, e)
        PROVE  /\ AmountsIn(ledger', PaidIn(ledger', d))
                    = IF e.doc = d THEN e.amount + AmountsIn(ledger, PaidIn(ledger, d))
                      ELSE AmountsIn(ledger, PaidIn(ledger, d))
               /\ DOMAIN q.new = {e.doc} /\ e.amount \in Int
    <3>1. /\ e \in Entry /\ ledger \in Seq(Entry) /\ ledger' = Append(ledger, e)
          /\ Formed(q) /\ PayReq(q)
      BY <1>1, <2>2 DEF Adds, May, Inv, BooksInv, Writes, ReqInv
    <3>2. Sums(ledger, e, ledger')
      BY <3>1, SumsGrow
    <3>3. DOMAIN q.new = {e.doc}
      BY <1>2, <3>1, PayWrites
    <3>4. e.amount \in Int
      BY <3>1 DEF Entry
    <3> QED
      BY <3>2, <3>3, <3>4 DEF Sums
  <2>3. row[d].paid \in Int
    BY DEF Inv, RowsInv, DocRow
  <2>4. CASE Adds(q, e) /\ d \in DOMAIN q.new
    <3>1. d = e.doc /\ row'[d].paid = row[d].paid + e.amount
      BY <1>1, <1>4, <2>4, CommitPays
    <3> QED
      BY <2>1, <2>2, <2>3, <2>4, <3>1
  <2>5. CASE ~(Adds(q, e) /\ d \in DOMAIN q.new)
    <3>1. row'[d].paid = row[d].paid
      <4>1. CASE d \in Docs
        <5>1. Kept(q, d)
          BY <1>1, <4>1, CommitKeeps
        <5>2. Formed(q)
          BY <1>1 DEF Writes, ReqInv
        <5>3. ASSUME PayReq(q) PROVE q.entries = <<e>>
          BY <1>2, <5>2, <5>3, PayWrites
        <5>4. <<e>> # <<>>
          OBVIOUS
        <5> QED
          BY <1>3, <2>5, <5>1, <5>3, <5>4 DEF Kept
      <4>2. CASE d \notin Docs
        <5>1. d \in Doc \ Docs
          BY <4>2
        <5>2. row[d] = NoDoc /\ row'[d].paid = 0
          BY <1>1, <5>1, CommitBears
        <5> QED
          BY <5>2 DEF NoDoc
      <4> QED
        BY <4>1, <4>2
    <3>2. AmountsIn(ledger', PaidIn(ledger', d)) = AmountsIn(ledger, PaidIn(ledger, d))
      BY <1>3, <2>2, <2>5
    <3> QED
      BY <2>1, <3>1, <3>2
  <2> QED
    BY <2>4, <2>5
<1> QED
  BY <1>4 DEF PaidInv

\* What a void leaves on its invoice, unless it was overtaken.
LEMMA CommitVoids ==
    ASSUME Inv, NEW s \in Slot, Commit(s), NEW q, Writes(s, q), VoidReq(q),
           NEW d \in DOMAIN q.new, Steady({"void"}, d)'
    PROVE  /\ row[d] = q.seen[d] /\ row'[d] = q.new[d]
           /\ row[d].paid <= 0 /\ row[d].credited = 0
<1>1. /\ d \in Doc /\ q.op = "void" /\ Loaded(q, d)
      /\ q.seen[d].paid <= 0 /\ q.seen[d].credited = 0 /\ ~q.seen[d].voided
      /\ q.new[d] = [q.seen[d] EXCEPT !.voided = TRUE]
  BY DEF VoidReq
<1>2. q.new[d].voided = TRUE
  BY <1>1 DEF Loaded, DocRow
<1>3. q.new[d] # q.seen[d]
  BY <1>1, <1>2
<1>4. <<q.op, d>> \notin raced'
  BY <1>1 DEF Steady
<1>5. row[d] = q.seen[d] /\ row'[d] = q.new[d]
  BY <1>3, <1>4, NotOvertaken
<1> QED
  BY <1>1, <1>5

\* An invoice on which nothing is paid has no direct payment left.
LEMMA NothingPaid ==
    ASSUME LedgerRules(ledger), NEW d \in Doc, AmountsIn(ledger, PaidIn(ledger, d)) <= 0
    PROVE  DirectIn(ledger, d) = {}
<1> DEFINE P == {d} \X (Receipt \cup {NoReceipt})
<1>1. P \in Classes
  BY DEF Classes
<1>2. ledger \in Seq(Entry)
  BY DEF LedgerRules
<1>3. \A k \in DOMAIN ledger : ledger[k] \in Entry
  BY <1>2
<1>4. \A k \in DOMAIN ledger : ledger[k].receipt \in Receipt \cup {NoReceipt}
  BY <1>3 DEF Entry
<1>5. ClassIn(ledger, P) = PaidIn(ledger, d)
  BY <1>4 DEF ClassIn, PaidIn
<1> HIDE DEF P
<1>6. PaidIn(ledger, d) \cap LiveIn(ledger) = {}
  BY <1>1, <1>5, ClassSum
<1> QED
  BY <1>6 DEF DirectIn, PaidIn, LiveIn

LEMMA VoidCommit ==
    ASSUME Inv, LedgerInv, PaidInv, VoidInv, NEW s \in Slot, Commit(s)
    PROVE  VoidInv'
<1>1. PICK q : Writes(s, q)
  BY CommitWrites
<1>2. PICK e : e = q.entries[1]
  OBVIOUS
<1>3. (q.entries = <<>> /\ ledger' = ledger) \/ Adds(q, e)
  BY <1>1, <1>2, CommitAdds
<1>4. Formed(q) /\ Family(q) /\ LedgerRules(ledger)
  BY <1>1 DEF Writes, ReqInv, LedgerInv
<1>5. ASSUME NEW d \in Docs', row'[d].voided, Steady({"void", "deallocate"}, d)'
      PROVE  row'[d].credited = 0 /\ DirectIn(ledger', d) = {}
  <2>1. d \in Docs
    <3>1. d \in Doc
      BY DEF Docs
    <3> QED
      BY <1>1, <1>5, <3>1, CommitBears
  <2>2. Kept(q, d) /\ d \in Doc /\ row[d] \in DocRow
    BY <1>1, <2>1, CommitKeeps DEF Docs, Inv, RowsInv
  <2>3. /\ Steady({"void", "deallocate"}, d) /\ Steady({"deallocate"}, d)
        /\ Steady({"void"}, d)' /\ Steady({"deallocate"}, d)'
    BY <1>5, RacedGrows DEF Steady
  <2>4. row[d].credited = 0 /\ DirectIn(ledger, d) = {}
    <3>1. CASE row[d].voided
      BY <2>1, <2>3, <3>1 DEF VoidInv
    <3>2. CASE ~row[d].voided
      <4>1. VoidReq(q) /\ d \in DOMAIN q.new
        BY <1>5, <2>2, <3>2 DEF Kept
      <4>2. row[d].paid <= 0 /\ row[d].credited = 0
        BY <1>1, <2>3, <4>1, CommitVoids
      <4>3. AmountsIn(ledger, PaidIn(ledger, d)) <= 0
        BY <2>2, <2>3, <4>2 DEF PaidInv
      <4> QED
        BY <1>4, <2>2, <4>2, <4>3, NothingPaid
    <3> QED
      BY <3>1, <3>2
  \* A credit note and a direct payment hold the invoice, and find it not void.
  <2>5. ASSUME d \in DOMAIN q.new, d \in q.locks, ~q.seen[d].voided, ~VoidReq(q) PROVE FALSE
    <3>1. row[d] = q.seen[d]
      BY <1>1, <2>5, CommitHeld
    <3>2. row'[d].voided = row[d].voided
      BY <2>2, <2>5 DEF Kept
    <3> QED
      BY <1>5, <2>5, <3>1, <3>2
  <2>6. row'[d].credited = 0
    <3>1. SUFFICES ASSUME CreditReq(q), d \in DOMAIN q.new PROVE FALSE
      BY <2>2, <2>4 DEF Kept
    <3>2. PICK f : f \in Doc /\ DOMAIN q.new = {f, Issuer} /\ q.locks = {f, Issuer} /\ ~q.seen[f].voided
                   /\ q.op = "credit"
      BY <3>1 DEF CreditReq, Loaded, Docs
    <3>3. d = f
      BY <2>2, <3>1, <3>2, Names
    <3> QED
      BY <2>5, <3>1, <3>2, <3>3 DEF VoidReq
  <2>7. DirectIn(ledger', d) = {}
    <3>1. CASE ledger' = ledger
      BY <2>4, <3>1
    <3>2. CASE Adds(q, e)
      <4>1. PICK n : n = Len(ledger) + 1
        OBVIOUS
      <4>2. /\ e \in Entry /\ ledger \in Seq(Entry) /\ ledger' = Append(ledger, e)
            /\ May(ledger, e) /\ PayReq(q)
        BY <3>2 DEF Adds, May, Inv, BooksInv
      <4>3. LiveIn(ledger') = IF e.of = 0 THEN LiveIn(ledger) \cup {n} ELSE LiveIn(ledger) \ {e.of}
        BY <1>4, <4>1, <4>2, LiveAfter
      <4>4. /\ \A k \in DOMAIN ledger : ledger'[k] = ledger[k]
            /\ ledger'[n] = e
        BY <4>1, <4>2, OneMore
      <4>5. ~(e.of = 0 /\ e.doc = d /\ e.receipt = NoReceipt)
        <5>1. SUFFICES ASSUME e.of = 0, e.doc = d, e.receipt = NoReceipt PROVE FALSE
          OBVIOUS
        <5>2. d \in DOMAIN q.new /\ d \in q.locks
          BY <1>2, <4>2, <5>1, Names DEF PayReq
        <5>3. ~q.seen[d].voided
          BY <1>2, <4>2, <5>1, Names DEF PayReq
        <5>4. ~VoidReq(q)
          BY <4>2 DEF PayReq, VoidReq
        <5> QED
          BY <2>5, <5>2, <5>3, <5>4
      <4>6. DirectIn(ledger', d) \subseteq DirectIn(ledger, d)
        <5>1. LiveIn(ledger) \subseteq DOMAIN ledger
          BY DEF LiveIn
        <5>2. ASSUME NEW k \in DirectIn(ledger', d) PROVE k \in DirectIn(ledger, d)
          <6>1. k \in LiveIn(ledger') /\ ledger'[k].doc = d /\ ledger'[k].receipt = NoReceipt
            BY DEF DirectIn
          <6>2. k \in LiveIn(ledger)
            BY <4>3, <4>4, <4>5, <6>1
          <6> QED
            BY <4>4, <5>1, <6>1, <6>2 DEF DirectIn
        <5> QED
          BY <5>2
      <4> QED
        BY <2>4, <4>6
    <3> QED
      BY <1>3, <3>1, <3>2
  <2> QED
    BY <2>6, <2>7
<1> QED
  BY <1>5 DEF VoidInv

NotesGrow(l, c, m) ==
    \A d : AmountsIn(m, NotedIn(m, d)) = IF c.of = d THEN c.amount + AmountsIn(l, NotedIn(l, d))
                                         ELSE AmountsIn(l, NotedIn(l, d))

LEMMA NoteSums ==
    ASSUME NEW l \in Seq(Note), NEW c \in Note, NEW m, m = Append(l, c)
    PROVE  NotesGrow(l, c, m)
<1>1. PICK n : n = Len(l) + 1
  OBVIOUS
<1>2. Longer(l, c, m, n)
  BY <1>1 DEF Longer
<1>3. /\ DOMAIN m = DOMAIN l \cup {n} /\ n \notin DOMAIN l
      /\ \A k \in DOMAIN l : m[k] = l[k]
      /\ m[n] = c
  BY <1>1, OneMore
<1>4. ASSUME NEW d
      PROVE  AmountsIn(m, NotedIn(m, d)) = IF c.of = d THEN c.amount + AmountsIn(l, NotedIn(l, d))
                                           ELSE AmountsIn(l, NotedIn(l, d))
  <2>1. NotedIn(m, d) = IF c.of = d THEN NotedIn(l, d) \cup {n} ELSE NotedIn(l, d)
    BY <1>3 DEF NotedIn
  <2>2. Part(NotedIn(l, d), l)
    BY DEF NotedIn, Part
  <2>3. /\ AmountsIn(m, NotedIn(l, d)) = AmountsIn(l, NotedIn(l, d))
        /\ AmountsIn(m, NotedIn(l, d) \cup {n}) = c.amount + AmountsIn(l, NotedIn(l, d))
    BY <1>2, <2>2, PartGrows
  <2> QED
    BY <2>1, <2>3
<1> QED
  BY <1>4 DEF NotesGrow

\* A credit note holds its invoice and the issuer, so that what it read is current.
LEMMA CommitCredits ==
    ASSUME Inv, NEW s \in Slot, NEW q, Writes(s, q), CreditReq(q), NEW c, c = q.credits[1]
    PROVE  /\ c \in Note /\ notes' = Append(notes, c) /\ c.of \in Doc
           /\ DOMAIN q.new = {c.of, Issuer}
           /\ row'[c.of].credited = Lesser(row[c.of].credited + c.amount, row[c.of].total)
           /\ row[c.of].life \in {"issued", "disputed"}
           /\ c.number = row[Issuer].nextCredit
           /\ row'[Issuer].nextCredit = row[Issuer].nextCredit + 1
<1>1. PICK d : d = c.of
  OBVIOUS
<1>2. /\ q.credits = <<c>> /\ c \in Note
      /\ q.locks = {d, Issuer} /\ DOMAIN q.new = {d, Issuer}
      /\ q.seen[Issuer] \in IssuerRow
      /\ q.new[Issuer] = [q.seen[Issuer] EXCEPT !.nextCredit = @ + 1]
      /\ Loaded(q, d) /\ q.seen[d].life \in {"issued", "disputed"}
      /\ q.new[d].credited = Lesser(q.seen[d].credited + c.amount, q.seen[d].total)
      /\ c.number = q.seen[Issuer].nextCredit
  BY <1>1 DEF CreditReq
<1>3. row'[d] = q.new[d] /\ row[d] = q.seen[d]
  BY <1>2, CommitHeld
<1>4. row'[Issuer] = q.new[Issuer] /\ row[Issuer] = q.seen[Issuer]
  BY <1>2, CommitHeld
<1>5. q.new[Issuer].nextCredit = q.seen[Issuer].nextCredit + 1
  BY <1>2 DEF IssuerRow
<1>6. notes' = Append(notes, c)
  <2>1. <<c>> # <<>>
    OBVIOUS
  <2> QED
    BY <1>2, <2>1 DEF Writes, Grown
<1>7. d \in Doc
  BY <1>2 DEF Loaded, Docs
<1> QED
  BY <1>1, <1>2, <1>3, <1>4, <1>5, <1>6, <1>7

LEMMA CommitNoCredit ==
    ASSUME Inv, NEW s \in Slot, NEW q, Writes(s, q), ~CreditReq(q)
    PROVE  notes' = notes /\ row'[Issuer].nextCredit = row[Issuer].nextCredit
<1>1. Formed(q) /\ Family(q)
  BY DEF Writes, ReqInv
<1>2. notes' = notes
  <2>1. q.credits = <<>>
    BY <1>1, FamilyOf
  <2> QED
    BY <2>1 DEF Writes, Grown
<1>3. CASE Issuer \notin DOMAIN q.new
  BY <1>2, <1>3 DEF Writes, Tables
<1>4. CASE Issuer \in DOMAIN q.new
  <2>1. CreateReq(q) \/ IssueReq(q) \/ SweepReq(q)
    <3>1. InsertReq(q) \/ MoveReq(q) \/ EditReq(q) \/ VoidReq(q) => Issuer \notin DOMAIN q.new
      BY Names DEF InsertReq, MoveReq, EditReq, VoidReq
    <3>2. ScheduleReq(q) \/ LineReq(q) => Issuer \notin DOMAIN q.new
      BY Names DEF ScheduleReq, LineReq
    <3>3. PayReq(q) => Issuer \notin DOMAIN q.new
      BY Names DEF PayReq, Loaded
    <3> QED
      BY <1>1, <1>4, <3>1, <3>2, <3>3 DEF Family
  <2>2. /\ Issuer \in q.locks /\ q.seen[Issuer] \in IssuerRow
        /\ q.new[Issuer].nextCredit = q.seen[Issuer].nextCredit
    <3>1. CASE CreateReq(q) \/ IssueReq(q)
      <4>1. /\ Issuer \in q.locks /\ q.seen[Issuer] \in IssuerRow
            /\ q.new[Issuer] = [q.seen[Issuer] EXCEPT !.next = @ + 1]
        BY <3>1 DEF CreateReq, IssueReq, DrawsOne
      <4> QED
        BY <4>1 DEF IssuerRow
    <3>2. CASE SweepReq(q)
      BY <3>2 DEF SweepReq
    <3> QED
      BY <2>1, <3>1, <3>2
  <2>3. row'[Issuer] = q.new[Issuer] /\ row[Issuer] = q.seen[Issuer]
    BY <1>4, <2>2, CommitHeld
  <2> QED
    BY <1>2, <2>2, <2>3
<1> QED
  BY <1>3, <1>4

LEMMA LesserAdds ==
    ASSUME NEW a \in Nat, NEW b \in Nat, NEW c \in Nat
    PROVE  Lesser(Lesser(a, b) + c, b) = Lesser(c + a, b)
BY DEF Lesser

LEMMA NotesCommit ==
    ASSUME Inv, NotesInv, NEW s \in Slot, Commit(s)
    PROVE  NotesInv'
<1>1. PICK q : Writes(s, q)
  BY CommitWrites
<1>2. PICK c : c = q.credits[1]
  OBVIOUS
<1>3. \/ ~CreditReq(q) /\ notes' = notes /\ row'[Issuer].nextCredit = row[Issuer].nextCredit
      \/ /\ CreditReq(q) /\ c \in Note /\ notes' = Append(notes, c) /\ c.of \in Doc
         /\ DOMAIN q.new = {c.of, Issuer}
         /\ row'[c.of].credited = Lesser(row[c.of].credited + c.amount, row[c.of].total)
         /\ row[c.of].life \in {"issued", "disputed"}
         /\ c.number = row[Issuer].nextCredit
         /\ row'[Issuer].nextCredit = row[Issuer].nextCredit + 1
  BY <1>1, <1>2, CommitCredits, CommitNoCredit
<1>4. notes \in Seq(Note) /\ \A k \in DOMAIN notes : notes[k].of \in Docs
  BY DEF Inv, BooksInv
<1>5. CreditReq(q) => NotesGrow(notes, c, notes')
  BY <1>3, <1>4, NoteSums
<1>6. CreditReq(q) => \A k \in DOMAIN notes' : \/ k \in DOMAIN notes /\ notes'[k] = notes[k]
                                               \/ k = Len(notes) + 1 /\ notes'[k] = c
  BY <1>3, <1>4
<1>7. ASSUME NEW d \in Doc, row'[d].life \in {"absent", "draft"}
      PROVE  row'[d].credited = 0 /\ NotedIn(notes', d) = {}
  <2>1. row'[d].credited = 0 /\ NotedIn(notes, d) = {} /\ ~(CreditReq(q) /\ c.of = d)
    <3>1. CASE d \in Docs
      <4>1. Kept(q, d)
        BY <1>1, <3>1, CommitKeeps
      <4>2. row[d].life \in {"absent", "draft"}
        BY <1>7, <4>1 DEF Kept
      <4>3. row[d].credited = 0 /\ NotedIn(notes, d) = {}
        BY <4>2 DEF NotesInv
      <4>4. ~(CreditReq(q) /\ c.of = d)
        BY <1>3, <4>2
      <4>5. ~(CreditReq(q) /\ d \in DOMAIN q.new)
        BY <1>3, <4>4, Names
      <4> QED
        BY <4>1, <4>3, <4>4, <4>5 DEF Kept
    <3>2. CASE d \notin Docs
      <4>1. d \in Doc \ Docs
        BY <3>2
      <4>2. row[d] = NoDoc /\ row'[d].credited = 0
        BY <1>1, <4>1, CommitBears
      <4>3. row[d].life = "absent"
        BY <4>2, NoDocTyped
      <4> QED
        BY <1>3, <4>2, <4>3 DEF NotesInv
    <3> QED
      BY <3>1, <3>2
  <2>2. NotedIn(notes', d) = {}
    BY <1>3, <1>6, <2>1 DEF NotedIn
  <2> QED
    BY <2>1, <2>2
<1>8. ASSUME NEW d \in Doc, Steady({"edit"}, d)'
      PROVE  row'[d].credited = Lesser(AmountsIn(notes', NotedIn(notes', d)), row'[d].total)
  <2>1. Steady({"edit"}, d) /\ <<"edit", d>> \notin raced'
    BY <1>8, RacedGrows DEF Steady
  <2>2. PICK sum \in Int : sum = AmountsIn(notes, NotedIn(notes, d))
    <3>1. NotedIn(notes, d) \in SUBSET DOMAIN notes
      BY DEF NotedIn
    <3>2. PICK S : S = NotedIn(notes, d)
      OBVIOUS
    <3> QED
      BY <1>4, <3>1, <3>2, SeqSums
  <2>3. sum \in Nat
    <3>1. PICK S : S = NotedIn(notes, d) /\ S \in SUBSET DOMAIN notes
      BY DEF NotedIn
    <3>2. IsFiniteSet(S) /\ \A k \in S : notes[k] \in Note
      BY <1>4, <3>1, SeqSums
    <3>3. \A k \in S : notes[k].amount \in Nat
      BY <3>2 DEF Note
    <3>4. AmountsIn(notes, S) \in Nat
      BY <3>2, <3>3, AmountsNat
    <3> QED
      BY <2>2, <3>1, <3>4
  <2>4. row[d].credited = Lesser(sum, row[d].total) /\ row[d].total \in Nat /\ row'[d].total \in Nat
    <3>1. Inv'
      BY CommitStep
    <3>2. row[d] \in DocRow /\ row'[d] \in DocRow
      BY <3>1 DEF Inv, RowsInv
    <3> QED
      BY <2>1, <2>2, <3>2 DEF NotesInv, DocRow
  <2>5. CASE CreditReq(q) /\ c.of = d
    <3>1. d \in Docs /\ q.op # "edit"
      BY <1>3, <2>5 DEF Docs, CreditReq
    <3>2. row'[d].total = row[d].total
      BY <1>1, <3>1, CommitKeeps DEF Kept, EditReq
    <3>3. AmountsIn(notes', NotedIn(notes', d)) = c.amount + sum
      BY <1>5, <2>2, <2>5 DEF NotesGrow
    <3>4. row'[d].credited = Lesser(row[d].credited + c.amount, row[d].total) /\ c.amount \in Nat
      BY <1>3, <2>5 DEF Note
    <3> QED
      BY <2>3, <2>4, <3>2, <3>3, <3>4, LesserAdds
  <2>6. CASE ~(CreditReq(q) /\ c.of = d)
    <3>1. AmountsIn(notes', NotedIn(notes', d)) = sum
      BY <1>3, <1>5, <2>2, <2>6 DEF NotesGrow
    <3>2. ~(CreditReq(q) /\ d \in DOMAIN q.new)
      BY <1>3, <2>6, Names
    <3>3. ASSUME row[d].life \in {"absent", "draft"}
          PROVE  sum = 0 /\ row[d].credited = 0
      <4>1. NotedIn(notes, d) = {} /\ row[d].credited = 0
        BY <3>3 DEF NotesInv
      <4> QED
        BY <2>2, <4>1, AmountsEmpty
    <3>4. CASE d \notin Docs
      <4>1. d \in Doc \ Docs
        BY <3>4
      <4>2. row[d] = NoDoc /\ row'[d].credited = 0
        BY <1>1, <4>1, CommitBears
      <4>3. sum = 0
        BY <3>3, <4>2, NoDocTyped
      <4> QED
        BY <2>4, <3>1, <4>2, <4>3 DEF Lesser
    <3>5. CASE d \in Docs
      <4>1. Kept(q, d)
        BY <1>1, <3>5, CommitKeeps
      <4>2. row'[d].credited = row[d].credited
        BY <3>2, <4>1 DEF Kept
      <4>3. CASE row'[d].total = row[d].total
        BY <2>4, <3>1, <4>2, <4>3
      <4>4. CASE row'[d].total # row[d].total
        <5>1. EditReq(q) /\ d \in DOMAIN q.new
          BY <4>1, <4>4 DEF Kept
        <5>2. q.op = "edit" /\ q.seen[d].life = "draft"
          BY <5>1 DEF EditReq
        <5>3. row[d] = q.seen[d]
          BY <1>1, <2>1, <4>4, <5>1, <5>2, NotOvertaken
        <5>4. sum = 0 /\ row[d].credited = 0
          BY <3>3, <5>2, <5>3
        <5> QED
          BY <2>4, <3>1, <4>2, <5>4 DEF Lesser
      <4> QED
        BY <4>3, <4>4
    <3> QED
      BY <3>4, <3>5
  <2> QED
    BY <2>5, <2>6
<1>9. \A k \in DOMAIN notes' : notes'[k].number = k
  <2>1. CASE notes' = notes
    BY <2>1 DEF NotesInv
  <2>2. CASE CreditReq(q)
    BY <1>3, <1>6, <2>2 DEF NotesInv
  <2> QED
    BY <1>3, <2>1, <2>2
<1>10. row'[Issuer].nextCredit = Len(notes') + 1
  <2>1. CASE ~CreditReq(q)
    BY <1>3, <2>1 DEF NotesInv
  <2>2. CASE CreditReq(q)
    <3>1. Len(notes') = Len(notes) + 1 /\ Len(notes) \in Nat
      BY <1>3, <1>4, <2>2
    <3> QED
      BY <1>3, <2>2, <3>1 DEF NotesInv
  <2> QED
    BY <2>1, <2>2
<1> QED
  BY <1>7, <1>8, <1>9, <1>10 DEF NotesInv

CashInv == LedgerInv /\ PaidInv /\ VoidInv /\ NotesInv

LEMMA CashStep ==
    ASSUME Inv, CashInv, [Next]_vars
    PROVE  CashInv'
<1>1. StepShape /\ LedgerInv'
  BY StepInv, LedgerStep DEF CashInv
<1>2. CASE Still
  BY <1>1, <1>2 DEF Still, CashInv, PaidInv, VoidInv, NotesInv, Steady, Docs
<1>3. ASSUME NEW s \in Slot, Commit(s) PROVE CashInv'
  BY <1>1, <1>3, PaidCommit, VoidCommit, NotesCommit DEF CashInv
<1> QED
  BY <1>1, <1>2, <1>3 DEF StepShape, Takes

LEMMA CashInit == ASSUME Init PROVE CashInv
<1>1. PICK total : First(total)
  BY InitFirst
<1>2. ledger = <<>> /\ notes = <<>> /\ row[Issuer].nextCredit = 1
  BY <1>1 DEF First
<1>3. DOMAIN ledger = {} /\ DOMAIN notes = {} /\ Len(notes) = 0
  BY <1>2
<1>4. ASSUME NEW d \in Doc
      PROVE  /\ row[d].paid = 0 /\ row[d].credited = 0 /\ row[d].voided = FALSE
             /\ row[d].total \in Nat
  <2>1. FirstDoc(d, total)
    BY <1>1 DEF First
  <2>2. CASE row[d] = NoDoc
    BY <2>2 DEF NoDoc
  <2>3. ASSUME NEW k \in DOMAIN work.issued,
               row[d] = [NoDoc EXCEPT !.life = "issued", !.total = total, !.number = k]
        PROVE  row[d].paid = 0 /\ row[d].credited = 0 /\ row[d].voided = FALSE
    BY <2>3 DEF NoDoc
  <2>4. row[d].total \in Nat
    BY <1>1, FirstTyped DEF DocRow
  <2> QED
    BY <2>1, <2>2, <2>3, <2>4 DEF FirstDoc
<1>5. PaidInv
  <2>1. \A d \in Doc : PaidIn(ledger, d) = {}
    BY <1>3 DEF PaidIn
  <2> QED
    BY <1>4, <2>1, AmountsEmpty DEF PaidInv
<1>6. VoidInv
  BY <1>4 DEF VoidInv, Docs
<1>7. NotesInv
  <2>1. \A d \in Doc : NotedIn(notes, d) = {}
    BY <1>3 DEF NotedIn
  <2>2. \A t \in Nat : Lesser(0, t) = 0
    BY DEF Lesser
  <2>3. ASSUME NEW d \in Doc
        PROVE  row[d].credited = Lesser(AmountsIn(notes, NotedIn(notes, d)), row[d].total)
    <3>1. AmountsIn(notes, NotedIn(notes, d)) = 0
      BY <2>1, AmountsEmpty
    <3> QED
      BY <1>4, <2>2, <3>1
  <2> QED
    <3>1. \A d \in Doc : row[d].credited = 0 /\ NotedIn(notes, d) = {}
      BY <1>4, <2>1
    <3>2. row[Issuer].nextCredit = Len(notes) + 1
      BY <1>2, <1>3
    <3> QED
      BY <1>3, <2>3, <3>1, <3>2 DEF NotesInv
<1> QED
  BY <1>5, <1>6, <1>7, LedgerInit DEF CashInv

LEMMA CashOfIs == ASSUME NEW S PROVE CashOf(S) = AmountsIn(ledger, S)
BY DEF CashOf, AmountsIn

LEMMA Sound ==
    ASSUME Inv, CashInv
    PROVE  LedgerSound
<1>1. LedgerRules(ledger) /\ ledger \in Seq(Entry) /\ \A k \in DOMAIN ledger : ledger[k] \in Entry
  <2>1. LedgerRules(ledger) /\ ledger \in Seq(Entry)
    BY DEF CashInv, LedgerInv, LedgerRules
  <2> QED
    BY <2>1
<1>2. ReceiptNotOverdrawn
  <2>1. SUFFICES ASSUME NEW r \in Receipt PROVE CashOf(AllocationsOf(r)) \in 0 .. ReceiptAmount
    BY DEF ReceiptNotOverdrawn
  <2> DEFINE P == Doc \X {r}
  <2>2. P \in Classes
    BY DEF Classes
  <2>3. \A k \in DOMAIN ledger : ledger[k].doc \in Doc
    BY <1>1 DEF Entry
  <2>4. ClassIn(ledger, P) = SpentIn(ledger, r)
    BY <2>3 DEF ClassIn, SpentIn
  <2> HIDE DEF P
  <2>5. AmountsIn(ledger, SpentIn(ledger, r)) \in Nat
    BY <1>1, <2>2, <2>4, ClassSum
  <2>6. AmountsIn(ledger, SpentIn(ledger, r)) <= ReceiptAmount
    BY DEF CashInv, LedgerInv
  <2>7. CashOf(AllocationsOf(r)) = AmountsIn(ledger, SpentIn(ledger, r))
    BY CashOfIs, AllocationsAre
  <2> QED
    BY <2>5, <2>6, <2>7, ReceivablesAssumption
<1>3. ReversedOnce
  <2>1. SUFFICES ASSUME NEW j \in DOMAIN ledger, ledger[j].of # 0
                 PROVE  /\ ledger[ledger[j].of].amount = -ledger[j].amount
                        /\ ledger[ledger[j].of].doc = ledger[j].doc
                        /\ ledger[ledger[j].of].receipt = ledger[j].receipt
                        /\ \A i \in DOMAIN ledger : ledger[i].of = ledger[j].of => i = j
    BY DEF ReversedOnce
  <2>2. TakesBack(ledger, ledger[j])
    BY <1>1, <2>1 DEF LedgerRules
  <2>3. PICK k : k = ledger[j].of
    OBVIOUS
  <2>4. ledger[k].amount \in Int
    BY <1>1, <2>2, <2>3 DEF TakesBack, Entry
  <2>5. ledger[k].amount = -ledger[j].amount
    BY <2>2, <2>3, <2>4 DEF TakesBack
  <2>6. \A i \in DOMAIN ledger : ledger[i].of = ledger[j].of => i = j
    BY <1>1, <2>1 DEF LedgerRules
  <2> QED
    BY <2>2, <2>3, <2>5, <2>6 DEF TakesBack
<1>4. CashMatchesLedger
  <2>1. \A d : EntriesOf(d) = PaidIn(ledger, d)
    BY DEF EntriesOf, PaidIn
  <2> QED
    BY <2>1, CashOfIs DEF CashMatchesLedger, CashInv, PaidInv, Steady, Docs
<1>5. CreditsMatchNotes
  <2>1. \A d \in Docs : <<"edit", d>> \notin raced =>
          row[d].credited = Lesser(AmountsIn(notes, NotedIn(notes, d)), row[d].total)
    BY DEF CashInv, NotesInv, Steady, Docs
  <2>2. \A d : AmountsIn(notes, NotedIn(notes, d))
               = MapThenSumSet(LAMBDA k : notes[k].amount, {k \in DOMAIN notes : notes[k].of = d})
    BY DEF AmountsIn, NotedIn
  <2> QED
    BY <2>1, <2>2 DEF CreditsMatchNotes, CashInv, NotesInv, Lesser
<1> QED
  BY <1>2, <1>3, <1>4, <1>5, Typing DEF LedgerSound

\* The cash ledger is sound, for every set of invoices, receipts, keys and requests:
\* however payments, allocations, their reversals and credit notes overlap, nothing
\* is taken back twice, no receipt is spent twice, and the figures cached on an
\* invoice are what its entries and its credit notes add up to (payments.py,
\* receipts.py, create_credit_note), but for the overtaken writes the property names.
THEOREM LedgerCorrect == Spec => []LedgerSound
<1>1. Init => Inv /\ CashInv
  BY InitInv, CashInit
<1>2. Inv /\ CashInv /\ [Next]_vars => (Inv /\ CashInv)'
  BY StepInv, CashStep
<1>3. Inv /\ CashInv => LedgerSound
  BY Sound
<1> QED
  BY <1>1, <1>2, <1>3, PTL DEF Spec

\* A void invoice keeps no credit note and no direct payment, for every set of
\* invoices and requests (void_invoice, _require_receivable), unless a void or the
\* reversal of an allocation overtook another write of it.
THEOREM VoidCorrect == Spec => []VoidStaysUnpaid
<1>1. Init => Inv /\ CashInv
  BY InitInv, CashInit
<1>2. Inv /\ CashInv /\ [Next]_vars => (Inv /\ CashInv)'
  BY StepInv, CashStep
<1>3. Inv /\ CashInv => VoidStaysUnpaid
  <2>1. SUFFICES ASSUME Inv, CashInv, NEW d \in Docs, row[d].voided,
                        \A op \in {"void", "deallocate"} : <<op, d>> \notin raced
                 PROVE  /\ row[d].credited = 0
                        /\ CashOf({k \in EntriesOf(d) : ledger[k].receipt = NoReceipt}) = 0
    BY DEF VoidStaysUnpaid
  <2>2. row[d].credited = 0 /\ DirectIn(ledger, d) = {}
    BY <2>1 DEF CashInv, VoidInv, Steady
  <2>3. LedgerRules(ledger)
    BY <2>1 DEF CashInv, LedgerInv
  <2> DEFINE P == {<<d, NoReceipt>>}
  <2>4. P \in Classes
    BY DEF Classes, Docs
  <2>5. {k \in EntriesOf(d) : ledger[k].receipt = NoReceipt} = ClassIn(ledger, P)
    BY DEF EntriesOf, ClassIn
  <2>6. ClassIn(ledger, P) \cap LiveIn(ledger) = DirectIn(ledger, d)
    BY DEF ClassIn, DirectIn, LiveIn
  <2> HIDE DEF P
  <2>7. AmountsIn(ledger, ClassIn(ledger, P)) = AmountsIn(ledger, DirectIn(ledger, d))
    BY <2>3, <2>4, <2>6 DEF LedgerRules, Balanced
  <2>8. CashOf(ClassIn(ledger, P)) = 0
    BY <2>2, <2>7, CashOfIs, AmountsEmpty
  <2> QED
    BY <2>2, <2>5, <2>8
<1> QED
  BY <1>1, <1>2, <1>3, PTL DEF Spec
=============================================================================
