----------------------------- MODULE SumsProofs -----------------------------
(***************************************************************************)
(* Facts about totals: their type, and what one entry more or less does.   *)
(***************************************************************************)
EXTENDS Sums, FiniteSetTheorems, TLAPS

\* f has finitely many values, all of them natural numbers.
Summable(f) == IsFiniteSet(DOMAIN f) /\ \A x \in DOMAIN f : f[x] \in Nat

LEMMA BlockCardinality ==
  ASSUME NEW d, NEW n \in Nat
  PROVE  IsFiniteSet({d} \X (1..n)) /\ Cardinality({d} \X (1..n)) = n
<1>1. IsFiniteSet({d}) /\ Cardinality({d}) = 1
  BY FS_Singleton
<1>2. IsFiniteSet(1..n) /\ Cardinality(1..n) = n
  BY FS_Interval
<1> DEFINE A == {d}
           I == 1..n
<1>3. IsFiniteSet(A) /\ Cardinality(A) = 1 /\ IsFiniteSet(I) /\ Cardinality(I) = n
  BY <1>1, <1>2
<1> HIDE DEF A, I
<1>4. IsFiniteSet(A \X I) /\ Cardinality(A \X I) = Cardinality(A) * Cardinality(I)
  BY <1>3, FS_Product
<1>5. Cardinality(A \X I) = n
  BY <1>3, <1>4
<1> QED BY <1>4, <1>5 DEF A, I

\* A finite family of finite sets has a finite union.
LEMMA FamilyFinite ==
  ASSUME NEW D, IsFiniteSet(D), NEW F, F \in [D -> {F[x] : x \in D}],
         \A x \in D : IsFiniteSet(F[x])
  PROVE  IsFiniteSet(UNION {F[x] : x \in D})
<1> DEFINE T == {F[x] : x \in D}
<1>1. F \in Surjection(D, T)
  BY DEF Surjection
<1>2. IsFiniteSet(T)
  <2> HIDE DEF T
  <2> QED BY <1>1, FS_Surjection
<1>3. \A S \in T : IsFiniteSet(S)
  OBVIOUS
<1> HIDE DEF T
<1>4. IsFiniteSet(UNION T)
  BY <1>2, <1>3, FS_UNION
<1> QED BY <1>4 DEF T

LEMMA UnitsFinite ==
  ASSUME NEW f, Summable(f)
  PROVE  IsFiniteSet(Units(f))
<1> DEFINE D == DOMAIN f
           F == [x \in D |-> {x} \X (1..f[x])]
<1>1. IsFiniteSet(D) /\ \A x \in D : f[x] \in Nat
  BY DEF Summable
<1>2. \A x \in D : IsFiniteSet(F[x])
  BY <1>1, BlockCardinality
<1>3. F \in [D -> {F[x] : x \in D}]
  OBVIOUS
<1>4. Units(f) = UNION {F[x] : x \in D}
  BY DEF Units
<1> HIDE DEF D, F
<1> QED BY <1>1, <1>2, <1>3, <1>4, FamilyFinite

\* A total is a natural number.
LEMMA TotalType ==
  ASSUME NEW f, Summable(f)
  PROVE  Total(f) \in Nat
BY UnitsFinite, FS_CardinalityType DEF Total

LEMMA TotalEmpty ==
  ASSUME NEW f, DOMAIN f = {}
  PROVE  Summable(f) /\ Total(f) = 0
BY FS_EmptySet DEF Summable, Total, Units

\* Only the entries matter.
LEMMA TotalSame ==
  ASSUME NEW f, NEW g, DOMAIN f = DOMAIN g, \A x \in DOMAIN f : f[x] = g[x]
  PROVE  Total(f) = Total(g) /\ (Summable(f) <=> Summable(g))
<1>1. Units(f) = Units(g)
  BY DEF Units
<1> QED BY <1>1 DEF Total, Summable

\* One entry more adds its value.
LEMMA TotalMore ==
  ASSUME NEW f, NEW g, NEW x, Summable(f),
         x \notin DOMAIN f, DOMAIN g = DOMAIN f \cup {x}, g[x] \in Nat,
         \A y \in DOMAIN f : g[y] = f[y]
  PROVE  Summable(g) /\ Total(g) = Total(f) + g[x]
<1> DEFINE S == Units(f)
           n == g[x]
           B == {x} \X (1..n)
<1>1. IsFiniteSet(S)
  BY UnitsFinite
<1>2. IsFiniteSet(B) /\ Cardinality(B) = n
  BY BlockCardinality
<1>3. Units(g) = S \cup B
  BY DEF Units
<1>4. S \cap B = {}
  BY DEF Units
<1>5. Cardinality(S \cup B) = Cardinality(S) + n
  <2> n \in Nat /\ Cardinality(S) \in Nat
    BY <1>1, FS_CardinalityType
  <2> HIDE DEF S, B, n
  <2>1. Cardinality(S \cup B) = Cardinality(S) + Cardinality(B) - Cardinality(S \cap B)
    BY <1>1, <1>2, FS_Union
  <2> QED BY <1>2, <1>4, <2>1, FS_EmptySet
<1>6. Total(g) = Total(f) + g[x]
  BY <1>3, <1>5 DEF Total
<1>7. IsFiniteSet(DOMAIN g)
  <2> DEFINE D == DOMAIN f
  <2>1. IsFiniteSet(D)
    BY DEF Summable
  <2> HIDE DEF D
  <2>2. IsFiniteSet(D \cup {x})
    BY <2>1, FS_AddElement
  <2> QED BY <2>2 DEF D
<1> QED BY <1>6, <1>7 DEF Summable

\* Fewer entries, or smaller ones, give no more.
LEMMA TotalFewer ==
  ASSUME NEW f, NEW g, Summable(g), DOMAIN f \subseteq DOMAIN g,
         \A x \in DOMAIN f : f[x] \in Nat /\ f[x] <= g[x]
  PROVE  Summable(f) /\ Total(f) <= Total(g)
<1>1. IsFiniteSet(DOMAIN f)
  <2> DEFINE D == DOMAIN f
             E == DOMAIN g
  <2>1. IsFiniteSet(E) /\ D \in SUBSET E
    BY DEF Summable
  <2> HIDE DEF D, E
  <2>2. IsFiniteSet(D)
    BY <2>1, FS_Subset
  <2> QED BY <2>2 DEF D
<1>2. \A x \in DOMAIN f : 1..f[x] \subseteq 1..g[x]
  BY DEF Summable
<1>3. Units(f) \in SUBSET Units(g)
  BY <1>2 DEF Units
<1>4. Cardinality(Units(f)) <= Cardinality(Units(g))
  BY <1>3, UnitsFinite, FS_Subset
<1> QED BY <1>1, <1>4 DEF Summable, Total

\* Of rows that have one entry or none, the documents in C those that have one.
\* The confirmed documents of a ledger are such rows.
LEMMA SingleRows ==
  ASSUME NEW rows, NEW C \in SUBSET DOMAIN rows, NEW v, DOMAIN v = C, Summable(v),
         \A d \in C : DOMAIN rows[d] = {1} /\ rows[d][1] = v[d],
         \A d \in DOMAIN rows \ C : DOMAIN rows[d] = {}
  PROVE  RowsTotal(rows) = Total(v)
<1> DEFINE f == [e \in Entries(rows) |-> rows[e[1]][e[2]]]
           S == Units(v)
           T == Units(f)
           h == [u \in S |-> <<<<u[1], 1>>, u[2]>>]
<1>1. Entries(rows) = {<<d, 1>> : d \in C}
  <2>1. ASSUME NEW e PROVE e \in Entries(rows) <=> \E d \in C : e = <<d, 1>>
    <3>1. e \in Entries(rows) <=> \E d \in DOMAIN rows : \E i \in DOMAIN rows[d] : e = <<d, i>>
      BY DEF Entries
    <3> QED BY <3>1
  <2> QED BY <2>1
<1>2. DOMAIN f = {<<d, 1>> : d \in C} /\ \A d \in C : f[<<d, 1>>] = v[d]
  BY <1>1
<1>3. \A u : u \in S <=> \E d \in C : \E k \in 1..v[d] : u = <<d, k>>
  <2> TAKE u
  <2>1. u \in S <=> \E d \in C : u \in {d} \X (1..v[d])
    BY DEF Units
  <2> QED BY <2>1
<1>4. \A u : u \in T <=> \E d \in C : \E k \in 1..v[d] : u = <<<<d, 1>>, k>>
  <2> HIDE DEF f
  <2>1. \A u : u \in T <=> \E e \in DOMAIN f : \E k \in 1..f[e] : u = <<e, k>>
    BY DEF Units
  <2> QED BY <2>1, <1>2
<1> HIDE DEF S, T, f
<1>5. \A d, k : <<d, k>> \in S => h[<<d, k>>] = <<<<d, 1>>, k>>
  OBVIOUS
<1>6. DOMAIN h = S /\ h = [u \in DOMAIN h |-> h[u]]
  OBVIOUS
<1> HIDE DEF h
<1>7. \A u \in S : h[u] \in T
  <2> SUFFICES ASSUME NEW u \in S PROVE h[u] \in T
    OBVIOUS
  <2>1. PICK d \in C : \E k \in 1..v[d] : u = <<d, k>>
    BY <1>3
  <2>2. PICK k \in 1..v[d] : u = <<d, k>>
    BY <2>1
  <2>3. h[u] = <<<<d, 1>>, k>>
    BY <1>5, <2>2
  <2> QED BY <1>4, <2>3
<1>8. \A a, b \in S : h[a] = h[b] => a = b
  <2> SUFFICES ASSUME NEW a \in S, NEW b \in S, h[a] = h[b] PROVE a = b
    OBVIOUS
  <2>1. PICK d \in C : \E k \in 1..v[d] : a = <<d, k>>
    BY <1>3
  <2>2. PICK e \in C : \E n \in 1..v[e] : b = <<e, n>>
    BY <1>3
  <2>3. PICK k \in 1..v[d] : a = <<d, k>>
    BY <2>1
  <2>4. PICK n \in 1..v[e] : b = <<e, n>>
    BY <2>2
  <2>5. h[a] = <<<<d, 1>>, k>> /\ h[b] = <<<<e, 1>>, n>>
    BY <1>5, <2>3, <2>4
  <2> QED BY <2>3, <2>4, <2>5
<1>9. \A t \in T : \E u \in S : h[u] = t
  <2> SUFFICES ASSUME NEW t \in T PROVE \E u \in S : h[u] = t
    OBVIOUS
  <2>1. PICK d \in C : \E k \in 1..v[d] : t = <<<<d, 1>>, k>>
    BY <1>4
  <2>2. PICK k \in 1..v[d] : t = <<<<d, 1>>, k>>
    BY <2>1
  <2>3. <<d, k>> \in S
    BY <1>3
  <2> QED BY <1>5, <2>2, <2>3
<1>10. ExistsBijection(S, T)
  <2>1. h \in [S -> T]
    BY <1>6, <1>7
  <2>2. h \in Bijection(S, T)
    BY <1>8, <1>9, <2>1 DEF Bijection, Injection, Surjection, IsInjective
  <2> QED BY <2>2 DEF ExistsBijection
<1>11. IsFiniteSet(S)
  BY UnitsFinite DEF S
<1>12. Cardinality(T) = Cardinality(S)
  BY <1>10, <1>11, FS_Bijection
<1> QED BY <1>12 DEF RowsTotal, Total, S, T, f

-----------------------------------------------------------------------------
(* The moves of documents of which those in C have one each, the others none. *)

\* A document d of C has one row, with the value v[d].
Ledger(rows, C, v) ==
  /\ IsFiniteSet(DOMAIN rows) /\ C \in SUBSET DOMAIN rows
  /\ \A d \in C : DOMAIN rows[d] = {1} /\ rows[d][1] = v[d] /\ v[d] \in Nat
  /\ \A d \in DOMAIN rows \ C : DOMAIN rows[d] = {}

ValuesOn(C, v) == [d \in C |-> v[d]]

LEMMA LedgerTotal ==
  ASSUME NEW rows, NEW C, NEW v, Ledger(rows, C, v)
  PROVE  /\ Summable(ValuesOn(C, v))
         /\ RowsTotal(rows) = Total(ValuesOn(C, v))
         /\ RowsTotal(rows) \in Nat
<1>1. DOMAIN ValuesOn(C, v) = C /\ \A d \in C : ValuesOn(C, v)[d] = v[d]
  BY DEF ValuesOn
<1>2. Summable(ValuesOn(C, v))
  <2>1. IsFiniteSet(C)
    BY FS_Subset DEF Ledger
  <2> QED BY <1>1, <2>1 DEF Ledger, Summable
<1>3. RowsTotal(rows) = Total(ValuesOn(C, v))
  <2> DEFINE f == ValuesOn(C, v)
  <2>1. /\ C \in SUBSET DOMAIN rows /\ DOMAIN f = C /\ Summable(f)
        /\ \A d \in C : DOMAIN rows[d] = {1} /\ rows[d][1] = f[d]
        /\ \A d \in DOMAIN rows \ C : DOMAIN rows[d] = {}
    BY <1>1, <1>2 DEF Ledger
  <2> HIDE DEF f
  <2>2. RowsTotal(rows) = Total(f)
    BY <2>1, SingleRows
  <2> QED BY <2>2 DEF f
<1> QED BY <1>2, <1>3, TotalType

LEMMA LedgerNone ==
  ASSUME NEW rows, NEW v, Ledger(rows, {}, v)
  PROVE  RowsTotal(rows) = 0
<1>1. DOMAIN ValuesOn({}, v) = {}
  BY DEF ValuesOn
<1> QED BY <1>1, LedgerTotal, TotalEmpty

LEMMA LedgerSame ==
  ASSUME NEW R, NEW S, NEW C, NEW v, NEW w, Ledger(R, C, v), Ledger(S, C, w),
         \A d \in C : w[d] = v[d]
  PROVE  RowsTotal(S) = RowsTotal(R)
<1>1. ValuesOn(C, w) = ValuesOn(C, v)
  BY DEF ValuesOn
<1> QED BY <1>1, LedgerTotal

\* In S, one document more than in R has a move.
OneMore(R, S, C, d, v, w) ==
  /\ d \notin C /\ Ledger(R, C, v) /\ Ledger(S, C \cup {d}, w)
  /\ \A e \in C : w[e] = v[e]

LEMMA LedgerMore ==
  ASSUME NEW R, NEW S, NEW C, NEW d, NEW v, NEW w, OneMore(R, S, C, d, v, w)
  PROVE  RowsTotal(S) = RowsTotal(R) + w[d]
<1> USE DEF OneMore
<1> DEFINE f == ValuesOn(C, v)
           g == ValuesOn(C \cup {d}, w)
<1>1. /\ d \notin DOMAIN f /\ DOMAIN g = DOMAIN f \cup {d} /\ g[d] = w[d]
      /\ \A e \in DOMAIN f : g[e] = f[e]
  BY DEF ValuesOn
<1>2. g[d] \in Nat
  BY <1>1 DEF Ledger
<1>3. RowsTotal(R) = Total(f) /\ RowsTotal(S) = Total(g) /\ Summable(f)
  BY LedgerTotal
<1> HIDE DEF f, g
<1>4. Total(g) = Total(f) + g[d]
  BY <1>1, <1>2, <1>3, TotalMore
<1> QED BY <1>1, <1>3, <1>4

\* The moves of confirmed sheets, of which a[d] says what each carries.
LEMMA AmountsLedger ==
  ASSUME NEW mv, IsFiniteSet(DOMAIN mv), NEW C \in SUBSET DOMAIN mv, NEW a, NEW m,
         \A d \in DOMAIN mv : mv[d] = IF d \in C THEN <<a[d]>> ELSE <<>>,
         \A d \in C : a[d][m] \in Nat
  PROVE  Ledger(AmountsOf(mv, m), C, [d \in C |-> a[d][m]])
<1>1. \A x : DOMAIN <<x>> = {1} /\ <<x>>[1] = x
  OBVIOUS
<1>2. DOMAIN << >> = {}
  OBVIOUS
<1>3. \A d \in C : DOMAIN mv[d] = {1} /\ mv[d][1] = a[d]
  BY <1>1
<1>4. \A d \in DOMAIN mv \ C : DOMAIN mv[d] = {}
  BY <1>2
<1> QED BY <1>3, <1>4 DEF Ledger, AmountsOf

\* The moves of some documents that carry a single product.
LEMMA CountsLedger ==
  ASSUME NEW mv, IsFiniteSet(DOMAIN mv), NEW S \in SUBSET DOMAIN mv, NEW C, NEW q,
         \A d \in DOMAIN mv : mv[d] = IF d \in C THEN <<q[d]>> ELSE <<>>,
         \A d \in S \cap C : q[d] \in Nat
  PROVE  Ledger([d \in S |-> mv[d]], S \cap C, q)
<1>1. \A x : DOMAIN <<x>> = {1} /\ <<x>>[1] = x
  OBVIOUS
<1>2. DOMAIN << >> = {}
  OBVIOUS
<1>3. \A d \in S \cap C : DOMAIN mv[d] = {1} /\ mv[d][1] = q[d]
  BY <1>1
<1>4. \A d \in S \ C : DOMAIN mv[d] = {}
  BY <1>2
<1>5. IsFiniteSet(S)
  BY FS_Subset
<1> QED BY <1>3, <1>4, <1>5 DEF Ledger
=============================================================================
