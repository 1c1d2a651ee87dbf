--------------------------- MODULE JobGraphProofs ---------------------------
(***************************************************************************)
(* Proofs about the graphs of jobs, for all jobs and whatever is nested in *)
(* what.  What a chain or a group begins and ends with is a recursion over *)
(* its members.  It is not unfolded here by an induction over the nesting, *)
(* but by one over the calls of the caller: a composite is made of members *)
(* that exist and is a member of nothing yet, so the recursion that had    *)
(* one solution before the call has one after it, the same for the others. *)
(***************************************************************************)
EXTENDS JobGraph, FiniteSetTheorems, SequenceTheorems, TLAPS

-----------------------------------------------------------------------------
(* A recursion over K: the value of a key of B is known, that of another   *)
(* one joins the values of the keys it asks.                               *)

Solution(K, B, asks, f) ==
  f = [x \in K |-> IF x \in B THEN {x[1]} ELSE UNION {f[y] : y \in asks[x]}]

Solves(K, B, asks, f) == Solution(K, B, asks, f) /\ \A g : Solution(K, B, asks, g) => g = f

\* The recursion with C and wants extends the one with B and asks: the keys N,
\* which none of the others asks, were known and may now ask others.
Extends(K, N, B, asks, C, wants) ==
  /\ N \subseteq K /\ N \subseteq B
  /\ \A x \in K \ N : x \in B <=> x \in C
  /\ \A x \in K \ N : x \notin B => wants[x] = asks[x] /\ asks[x] \cap N = {}
  /\ \A x \in N : x \notin C => wants[x] \cap N = {}
  /\ \A x \in K : x \notin C => wants[x] \subseteq K

LEMMA SolutionExtends ==
  ASSUME NEW K, NEW N, NEW B, NEW asks, NEW C, NEW wants, NEW f,
         Solves(K, B, asks, f), Extends(K, N, B, asks, C, wants)
  PROVE  \E g : Solves(K, C, wants, g) /\ \A x \in K \ N : g[x] = f[x]
<1> USE DEF Extends
<1> DEFINE g == [x \in K |-> IF x \in N
                             THEN IF x \in C THEN {x[1]} ELSE UNION {f[y] : y \in wants[x]}
                             ELSE f[x]]
<1>1. \A x \in K : f[x] = IF x \in B THEN {x[1]} ELSE UNION {f[y] : y \in asks[x]}
  BY DEF Solves, Solution
<1>2. \A x \in K \ N : g[x] = f[x]
  OBVIOUS
<1>3. ASSUME NEW x \in K PROVE g[x] = IF x \in C THEN {x[1]} ELSE UNION {g[y] : y \in wants[x]}
  <2>1. CASE x \in C
    BY <1>1, <2>1
  <2>2. CASE x \notin C
    <3>1. \A y \in wants[x] : y \in K \ N
      BY <2>2
    <3>2. {g[y] : y \in wants[x]} = {f[y] : y \in wants[x]}
      BY <1>2, <3>1
    <3>3. g[x] = UNION {f[y] : y \in wants[x]}
      <4>1. CASE x \in N
        BY <2>2, <4>1
      <4>2. CASE x \notin N
        BY <1>1, <2>2, <4>2
      <4> QED BY <4>1, <4>2
    <3> QED BY <2>2, <3>2, <3>3
  <2> QED BY <2>1, <2>2
<1>4. Solution(K, C, wants, g)
  <2>1. g = [x \in K |-> g[x]]
    OBVIOUS
  <2> HIDE DEF g
  <2> QED BY <1>3, <2>1 DEF Solution
<1>5. ASSUME NEW h, Solution(K, C, wants, h) PROVE h = g
  <2> DEFINE old == [x \in K |-> IF x \in N THEN {x[1]} ELSE h[x]]
  <2>1. h = [x \in K |-> h[x]]
    BY <1>5 DEF Solution
  <2>2. \A x \in K : h[x] = IF x \in C THEN {x[1]} ELSE UNION {h[y] : y \in wants[x]}
    BY <1>5 DEF Solution
  <2>3. ASSUME NEW x \in K PROVE old[x] = IF x \in B THEN {x[1]} ELSE UNION {old[y] : y \in asks[x]}
    <3>1. CASE x \in N
      BY <3>1
    <3>2. CASE x \notin N /\ x \in B
      BY <2>2, <3>2
    <3>3. CASE x \notin N /\ x \notin B
      <4>1. x \notin C /\ wants[x] = asks[x] /\ \A y \in asks[x] : y \in K \ N
        BY <3>3
      <4>2. {old[y] : y \in asks[x]} = {h[y] : y \in asks[x]}
        BY <4>1
      <4>3. old[x] = h[x]
        BY <3>3
      <4> QED BY <2>2, <3>3, <4>1, <4>2, <4>3
    <3> QED BY <3>1, <3>2, <3>3
  <2>4. Solution(K, B, asks, old)
    <3>1. old = [x \in K |-> old[x]]
      OBVIOUS
    <3> HIDE DEF old
    <3> QED BY <2>3, <3>1 DEF Solution
  <2>5. old = f
    BY <2>4 DEF Solves
  <2>6. \A x \in K \ N : h[x] = f[x]
    BY <2>5
  <2>7. ASSUME NEW x \in K PROVE h[x] = g[x]
    <3>1. CASE x \in N
      <4>1. CASE x \in C
        BY <2>2, <3>1, <4>1
      <4>2. CASE x \notin C
        <5>1. \A y \in wants[x] : y \in K \ N
          BY <3>1, <4>2
        <5>2. {h[y] : y \in wants[x]} = {f[y] : y \in wants[x]}
          BY <2>6, <5>1
        <5> QED BY <2>2, <3>1, <4>2, <5>2
      <4> QED BY <4>1, <4>2
    <3>2. CASE x \notin N
      BY <2>6, <3>2
    <3> QED BY <3>1, <3>2
  <2> QED BY <2>1, <2>7
<1> HIDE DEF g
<1> QED BY <1>2, <1>4, <1>5 DEF Solves

-----------------------------------------------------------------------------
(* Ends and Found as solutions of such recursions. *)

Kinds == {"none", "job", "chain", "group"}

\* The nodes a caller has made so far, in nodes.
MadeOf(nodes) == {n \in Nodes : nodes[n].kind # "none"}

\* Composites have made members; a chain's first and last are among them.
Shape(nodes) ==
  \A n \in Nodes :
    /\ nodes[n].kind \in Kinds
    /\ nodes[n].kind = "job" <=> n \in Delayables
    /\ nodes[n].kind = "job" => ToSet(nodes[n].parts) = {n}
    /\ nodes[n].kind \in {"chain", "group"} => ToSet(nodes[n].parts) \subseteq MadeOf(nodes)
    /\ nodes[n].kind = "chain" => /\ Head(nodes[n].parts) \in ToSet(nodes[n].parts)
                                  /\ Last(nodes[n].parts) \in ToSet(nodes[n].parts)
    /\ nodes[n].edges \subseteq MadeOf(nodes) \X MadeOf(nodes)

EndKeys == Nodes \X {"first", "last"}
FoundKeys == Nodes \X {"head", "tail"}
Known(nodes, K) == {x \in K : nodes[x[1]].kind \in {"job", "none"}}

\* The keys whose values the one of x joins.
EndsAsk(nodes) ==
  [x \in EndKeys |->
     IF nodes[x[1]].kind = "group" THEN {<<p, x[2]>> : p \in ToSet(nodes[x[1]].parts)}
     ELSE {<<IF x[2] = "first" THEN Head(nodes[x[1]].parts) ELSE Last(nodes[x[1]].parts), x[2]>>}]

FoundAsk(nodes) ==
  [x \in FoundKeys |->
     IF nodes[x[1]].kind = "group" THEN {<<p, x[2]>> : p \in ToSet(nodes[x[1]].parts)}
     ELSE IF x[2] = "head" THEN {<<Head(nodes[x[1]].parts), "tail">>}
                           ELSE {<<Last(nodes[x[1]].parts), "head">>}]

EndsStep(nodes, f, x) ==
  LET it == nodes[x[1]]
  IN  CASE it.kind \in {"job", "none"} -> {x[1]}
        [] it.kind = "group" -> UNION {f[<<p, x[2]>>] : p \in ToSet(it.parts)}
        [] OTHER ->
             f[<<IF x[2] = "first" THEN Head(it.parts) ELSE Last(it.parts), x[2]>>]

FoundStep(nodes, f, x) ==
  LET it == nodes[x[1]]
  IN  CASE it.kind \in {"job", "none"} -> {x[1]}
        [] it.kind = "group" -> UNION {f[<<p, x[2]>>] : p \in ToSet(it.parts)}
        [] OTHER -> IF x[2] = "head" THEN f[<<Head(it.parts), "tail">>]
                                     ELSE f[<<Last(it.parts), "head">>]

IsEnds(nodes, f) == f = [x \in EndKeys |-> EndsStep(nodes, f, x)]
IsFound(nodes, f) == f = [x \in FoundKeys |-> FoundStep(nodes, f, x)]

LEMMA EndsIsSolution ==
  ASSUME NEW nodes, Shape(nodes), NEW f
  PROVE  IsEnds(nodes, f) <=> Solution(EndKeys, Known(nodes, EndKeys), EndsAsk(nodes), f)
<1> DEFINE B == Known(nodes, EndKeys)
           asks == EndsAsk(nodes)
<1>1. ASSUME NEW x \in EndKeys
      PROVE  EndsStep(nodes, f, x) = IF x \in B THEN {x[1]} ELSE UNION {f[y] : y \in asks[x]}
  <2>1. x[1] \in Nodes /\ x[2] \in {"first", "last"}
    BY DEF EndKeys
  <2>2. CASE nodes[x[1]].kind \in {"job", "none"}
    BY <2>2 DEF EndsStep, Known
  <2>3. CASE nodes[x[1]].kind = "group"
    <3>1. asks[x] = {<<p, x[2]>> : p \in ToSet(nodes[x[1]].parts)}
      BY <2>3 DEF EndsAsk
    <3>2. {f[y] : y \in asks[x]} = {f[<<p, x[2]>>] : p \in ToSet(nodes[x[1]].parts)}
      BY <3>1
    <3>3. EndsStep(nodes, f, x) = UNION {f[<<p, x[2]>>] : p \in ToSet(nodes[x[1]].parts)}
      BY <2>3 DEF EndsStep
    <3>4. x \notin B
      BY <2>3 DEF Known
    <3> QED BY <3>2, <3>3, <3>4
  <2>4. CASE nodes[x[1]].kind = "chain"
    <3> DEFINE y == <<IF x[2] = "first" THEN Head(nodes[x[1]].parts) ELSE Last(nodes[x[1]].parts), x[2]>>
    <3>1. asks[x] = {y}
      BY <2>4 DEF EndsAsk
    <3>2. EndsStep(nodes, f, x) = f[y]
      BY <2>4 DEF EndsStep
    <3>3. x \notin B
      BY <2>4 DEF Known
    <3> HIDE DEF y
    <3> QED BY <3>1, <3>2, <3>3
  <2> QED BY <2>1, <2>2, <2>3, <2>4 DEF Shape, Kinds
<1> HIDE DEF B, asks
<1> QED BY <1>1 DEF IsEnds, Solution, B, asks

LEMMA FoundIsSolution ==
  ASSUME NEW nodes, Shape(nodes), NEW f
  PROVE  IsFound(nodes, f) <=> Solution(FoundKeys, Known(nodes, FoundKeys), FoundAsk(nodes), f)
<1> DEFINE B == Known(nodes, FoundKeys)
           asks == FoundAsk(nodes)
<1>1. ASSUME NEW x \in FoundKeys
      PROVE  FoundStep(nodes, f, x) = IF x \in B THEN {x[1]} ELSE UNION {f[y] : y \in asks[x]}
  <2>1. x[1] \in Nodes /\ x[2] \in {"head", "tail"}
    BY DEF FoundKeys
  <2>2. CASE nodes[x[1]].kind \in {"job", "none"}
    BY <2>2 DEF FoundStep, Known
  <2>3. CASE nodes[x[1]].kind = "group"
    <3>1. asks[x] = {<<p, x[2]>> : p \in ToSet(nodes[x[1]].parts)}
      BY <2>3 DEF FoundAsk
    <3>2. {f[y] : y \in asks[x]} = {f[<<p, x[2]>>] : p \in ToSet(nodes[x[1]].parts)}
      BY <3>1
    <3>3. FoundStep(nodes, f, x) = UNION {f[<<p, x[2]>>] : p \in ToSet(nodes[x[1]].parts)}
      BY <2>3 DEF FoundStep
    <3>4. x \notin B
      BY <2>3 DEF Known
    <3> QED BY <3>2, <3>3, <3>4
  <2>4. CASE nodes[x[1]].kind = "chain"
    <3> DEFINE y == IF x[2] = "head" THEN <<Head(nodes[x[1]].parts), "tail">>
                                     ELSE <<Last(nodes[x[1]].parts), "head">>
    <3>1. asks[x] = {y}
      BY <2>4 DEF FoundAsk
    <3>2. FoundStep(nodes, f, x) = f[y]
      BY <2>4 DEF FoundStep
    <3>3. x \notin B
      BY <2>4 DEF Known
    <3> HIDE DEF y
    <3> QED BY <3>1, <3>2, <3>3
  <2> QED BY <2>1, <2>2, <2>3, <2>4 DEF Shape, Kinds
<1> HIDE DEF B, asks
<1> QED BY <1>1 DEF IsFound, Solution, B, asks

\* The recursion of Ends has the one solution e, that of Found has f.
EndsAre(nodes, e) == Solves(EndKeys, Known(nodes, EndKeys), EndsAsk(nodes), e)
FoundAre(nodes, f) == Solves(FoundKeys, Known(nodes, FoundKeys), FoundAsk(nodes), f)

\* What the members of n begin or end with, taken together.
Joined(nodes, f, n, w) == UNION {f[<<p, w>>] : p \in ToSet(nodes[n].parts)}

\* The values at the keys, as the code computes them.
LEMMA EndsValues ==
  ASSUME NEW nodes, Shape(nodes), NEW e, EndsAre(nodes, e), NEW n \in Nodes
  PROVE  /\ nodes[n].kind \in {"job", "none"} => e[<<n, "first">>] = {n} /\ e[<<n, "last">>] = {n}
         /\ nodes[n].kind = "group" =>
              /\ e[<<n, "first">>] = Joined(nodes, e, n, "first")
              /\ e[<<n, "last">>] = Joined(nodes, e, n, "last")
         /\ nodes[n].kind = "chain" =>
              /\ e[<<n, "first">>] = e[<<Head(nodes[n].parts), "first">>]
              /\ e[<<n, "last">>] = e[<<Last(nodes[n].parts), "last">>]
<1>1. IsEnds(nodes, e)
  BY EndsIsSolution DEF EndsAre, Solves
<1>2. \A w \in {"first", "last"} : e[<<n, w>>] = EndsStep(nodes, e, <<n, w>>)
  <2> SUFFICES ASSUME NEW w \in {"first", "last"} PROVE e[<<n, w>>] = EndsStep(nodes, e, <<n, w>>)
    OBVIOUS
  <2>1. <<n, w>> \in EndKeys
    BY DEF EndKeys
  <2> QED BY <1>1, <2>1 DEF IsEnds
<1>3. /\ e[<<n, "first">>] = EndsStep(nodes, e, <<n, "first">>)
      /\ e[<<n, "last">>] = EndsStep(nodes, e, <<n, "last">>)
  BY <1>2
<1> QED BY <1>3 DEF EndsStep, Joined

LEMMA FoundValues ==
  ASSUME NEW nodes, Shape(nodes), NEW f, FoundAre(nodes, f), NEW n \in Nodes
  PROVE  /\ nodes[n].kind \in {"job", "none"} => f[<<n, "head">>] = {n} /\ f[<<n, "tail">>] = {n}
         /\ nodes[n].kind = "group" =>
              /\ f[<<n, "head">>] = Joined(nodes, f, n, "head")
              /\ f[<<n, "tail">>] = Joined(nodes, f, n, "tail")
         /\ nodes[n].kind = "chain" =>
              /\ f[<<n, "head">>] = f[<<Head(nodes[n].parts), "tail">>]
              /\ f[<<n, "tail">>] = f[<<Last(nodes[n].parts), "head">>]
<1>1. IsFound(nodes, f)
  BY FoundIsSolution DEF FoundAre, Solves
<1>2. \A w \in {"head", "tail"} : f[<<n, w>>] = FoundStep(nodes, f, <<n, w>>)
  <2> SUFFICES ASSUME NEW w \in {"head", "tail"} PROVE f[<<n, w>>] = FoundStep(nodes, f, <<n, w>>)
    OBVIOUS
  <2>1. <<n, w>> \in FoundKeys
    BY DEF FoundKeys
  <2> QED BY <1>1, <2>1 DEF IsFound
<1>3. /\ f[<<n, "head">>] = FoundStep(nodes, f, <<n, "head">>)
      /\ f[<<n, "tail">>] = FoundStep(nodes, f, <<n, "tail">>)
  BY <1>2
<1> QED BY <1>3 DEF FoundStep, Joined

-----------------------------------------------------------------------------
(* A new composite, or a new edge, and the values of the others. *)

\* new is old with the composite n, made of members that old has.
Added(old, n, new) ==
  /\ Shape(old) /\ Shape(new) /\ n \in Nodes
  /\ old[n].kind = "none" /\ new[n].kind \in {"chain", "group"}
  /\ \A m \in Nodes \ {n} : new[m] = old[m]
  /\ ToSet(new[n].parts) \subseteq MadeOf(old)

LEMMA EndsExtend ==
  ASSUME NEW old, NEW n, NEW new, Added(old, n, new), NEW e, EndsAre(old, e)
  PROVE  \E g : /\ EndsAre(new, g)
                /\ \A m \in Nodes \ {n}, w \in {"first", "last"} : g[<<m, w>>] = e[<<m, w>>]
<1> DEFINE K == EndKeys
           N == {x \in K : x[1] = n}
           B == Known(old, K)
           C == Known(new, K)
           asks == EndsAsk(old)
           wants == EndsAsk(new)
<1>1. N \in SUBSET K /\ N \subseteq B
  BY DEF Known, Added
<1>2. ASSUME NEW x \in K \ N PROVE x[1] \in Nodes \ {n} /\ new[x[1]] = old[x[1]] /\ x[2] \in {"first", "last"}
  BY <1>2 DEF EndKeys, Added
<1>3. \A x \in K \ N : x \in B <=> x \in C
  BY <1>2 DEF Known
<1>4. ASSUME NEW x \in K, x \notin C, NEW nodes, nodes = old \/ nodes = new,
             nodes[x[1]].kind \notin {"job", "none"}
      PROVE  \A y \in EndsAsk(nodes)[x] : y \in K /\ y[1] \in ToSet(nodes[x[1]].parts)
  <2>1. x[1] \in Nodes /\ x[2] \in {"first", "last"} /\ Shape(nodes)
    BY <1>4 DEF EndKeys, Added
  <2>2. ToSet(nodes[x[1]].parts) \subseteq Nodes
    BY <1>4, <2>1 DEF Shape, Kinds, MadeOf
  <2>3. CASE nodes[x[1]].kind = "group"
    BY <2>1, <2>2, <2>3 DEF EndsAsk, EndKeys
  <2>4. CASE nodes[x[1]].kind = "chain"
    <3>1. Head(nodes[x[1]].parts) \in ToSet(nodes[x[1]].parts) /\ Last(nodes[x[1]].parts) \in ToSet(nodes[x[1]].parts)
      BY <2>1, <2>4 DEF Shape
    <3>2. EndsAsk(nodes)[x] = {<<IF x[2] = "first" THEN Head(nodes[x[1]].parts) ELSE Last(nodes[x[1]].parts), x[2]>>}
      BY <2>4 DEF EndsAsk
    <3> QED BY <2>1, <2>2, <3>1, <3>2 DEF EndKeys
  <2> QED BY <1>4, <2>1, <2>3, <2>4 DEF Shape, Kinds
<1>5. n \notin MadeOf(old)
  BY DEF MadeOf, Added
<1>6. \A x \in K : x \notin C => new[x[1]].kind \notin {"job", "none"}
  BY DEF Known
<1>7. ASSUME NEW x \in K \ N, x \notin B PROVE wants[x] = asks[x] /\ asks[x] \cap N = {}
  <2>1. wants[x] = asks[x]
    BY <1>2 DEF EndsAsk
  <2>2. x \notin C /\ old[x[1]].kind \notin {"job", "none"} /\ x[1] \in Nodes
    BY <1>2, <1>3, <1>6, <1>7
  <2>3. \A y \in asks[x] : y[1] \in ToSet(old[x[1]].parts)
    BY <1>4, <2>2
  <2>4. ToSet(old[x[1]].parts) \subseteq MadeOf(old)
    BY <2>2 DEF Added, Shape, Kinds
  <2> QED BY <1>5, <2>1, <2>3, <2>4
<1>8. ASSUME NEW x \in N, x \notin C PROVE wants[x] \cap N = {}
  <2>1. \A y \in wants[x] : y[1] \in ToSet(new[n].parts)
    BY <1>4, <1>6, <1>8
  <2> QED BY <1>5, <2>1 DEF Added
<1>9. \A x \in K : x \notin C => wants[x] \subseteq K
  BY <1>4, <1>6
<1>10. Extends(K, N, B, asks, C, wants)
  <2> HIDE DEF K, N, B, C, asks, wants
  <2> QED BY <1>1, <1>3, <1>7, <1>8, <1>9 DEF Extends
<1>11. Solves(K, B, asks, e)
  BY DEF EndsAre
<1> HIDE DEF K, N, B, C, asks, wants
<1>12. PICK g : Solves(K, C, wants, g) /\ \A x \in K \ N : g[x] = e[x]
  BY <1>10, <1>11, SolutionExtends
<1>13. \A m \in Nodes \ {n}, w \in {"first", "last"} : <<m, w>> \in K \ N
  BY DEF K, N, EndKeys
<1> QED BY <1>12, <1>13 DEF EndsAre, K, C, wants

LEMMA FoundExtend ==
  ASSUME NEW old, NEW n, NEW new, Added(old, n, new), NEW f, FoundAre(old, f)
  PROVE  \E g : /\ FoundAre(new, g)
                /\ \A m \in Nodes \ {n}, w \in {"head", "tail"} : g[<<m, w>>] = f[<<m, w>>]
<1> DEFINE K == FoundKeys
           N == {x \in K : x[1] = n}
           B == Known(old, K)
           C == Known(new, K)
           asks == FoundAsk(old)
           wants == FoundAsk(new)
<1>1. N \in SUBSET K /\ N \subseteq B
  BY DEF Known, Added
<1>2. ASSUME NEW x \in K \ N PROVE x[1] \in Nodes \ {n} /\ new[x[1]] = old[x[1]] /\ x[2] \in {"head", "tail"}
  BY <1>2 DEF FoundKeys, Added
<1>3. \A x \in K \ N : x \in B <=> x \in C
  BY <1>2 DEF Known
<1>4. ASSUME NEW x \in K, x \notin C, NEW nodes, nodes = old \/ nodes = new,
             nodes[x[1]].kind \notin {"job", "none"}
      PROVE  \A y \in FoundAsk(nodes)[x] : y \in K /\ y[1] \in ToSet(nodes[x[1]].parts)
  <2>1. x[1] \in Nodes /\ x[2] \in {"head", "tail"} /\ Shape(nodes)
    BY <1>4 DEF FoundKeys, Added
  <2>2. ToSet(nodes[x[1]].parts) \subseteq Nodes
    BY <1>4, <2>1 DEF Shape, Kinds, MadeOf
  <2>3. CASE nodes[x[1]].kind = "group"
    BY <2>1, <2>2, <2>3 DEF FoundAsk, FoundKeys
  <2>4. CASE nodes[x[1]].kind = "chain"
    <3>1. Head(nodes[x[1]].parts) \in ToSet(nodes[x[1]].parts) /\ Last(nodes[x[1]].parts) \in ToSet(nodes[x[1]].parts)
      BY <2>1, <2>4 DEF Shape
    <3>2. FoundAsk(nodes)[x] = IF x[2] = "head" THEN {<<Head(nodes[x[1]].parts), "tail">>}
                                                ELSE {<<Last(nodes[x[1]].parts), "head">>}
      BY <2>4 DEF FoundAsk
    <3> QED BY <2>1, <2>2, <3>1, <3>2 DEF FoundKeys
  <2> QED BY <1>4, <2>1, <2>3, <2>4 DEF Shape, Kinds
<1>5. n \notin MadeOf(old)
  BY DEF MadeOf, Added
<1>6. \A x \in K : x \notin C => new[x[1]].kind \notin {"job", "none"}
  BY DEF Known
<1>7. ASSUME NEW x \in K \ N, x \notin B PROVE wants[x] = asks[x] /\ asks[x] \cap N = {}
  <2>1. wants[x] = asks[x]
    BY <1>2 DEF FoundAsk
  <2>2. x \notin C /\ old[x[1]].kind \notin {"job", "none"} /\ x[1] \in Nodes
    BY <1>2, <1>3, <1>6, <1>7
  <2>3. \A y \in asks[x] : y[1] \in ToSet(old[x[1]].parts)
    BY <1>4, <2>2
  <2>4. ToSet(old[x[1]].parts) \subseteq MadeOf(old)
    BY <2>2 DEF Added, Shape, Kinds
  <2> QED BY <1>5, <2>1, <2>3, <2>4
<1>8. ASSUME NEW x \in N, x \notin C PROVE wants[x] \cap N = {}
  <2>1. \A y \in wants[x] : y[1] \in ToSet(new[n].parts)
    BY <1>4, <1>6, <1>8
  <2> QED BY <1>5, <2>1 DEF Added
<1>9. \A x \in K : x \notin C => wants[x] \subseteq K
  BY <1>4, <1>6
<1>10. Extends(K, N, B, asks, C, wants)
  <2> HIDE DEF K, N, B, C, asks, wants
  <2> QED BY <1>1, <1>3, <1>7, <1>8, <1>9 DEF Extends
<1>11. Solves(K, B, asks, f)
  BY DEF FoundAre
<1> HIDE DEF K, N, B, C, asks, wants
<1>12. PICK g : Solves(K, C, wants, g) /\ \A x \in K \ N : g[x] = f[x]
  BY <1>10, <1>11, SolutionExtends
<1>13. \A m \in Nodes \ {n}, w \in {"head", "tail"} : <<m, w>> \in K \ N
  BY DEF K, N, FoundKeys
<1> QED BY <1>12, <1>13 DEF FoundAre, K, C, wants

\* An edge changes nothing that the recursions look at.
SameParts(old, new) ==
  \A n \in Nodes : new[n].kind = old[n].kind /\ new[n].parts = old[n].parts

LEMMA EndsKeep ==
  ASSUME NEW old, NEW new, SameParts(old, new), NEW e, EndsAre(old, e)
  PROVE  EndsAre(new, e)
<1>1. Known(new, EndKeys) = Known(old, EndKeys)
  BY DEF Known, EndKeys, SameParts
<1>2. EndsAsk(new) = EndsAsk(old)
  <2>1. \A x \in EndKeys : new[x[1]].kind = old[x[1]].kind /\ new[x[1]].parts = old[x[1]].parts
    BY DEF EndKeys, SameParts
  <2> QED BY <2>1 DEF EndsAsk
<1> QED BY <1>1, <1>2 DEF EndsAre

LEMMA FoundKeep ==
  ASSUME NEW old, NEW new, SameParts(old, new), NEW f, FoundAre(old, f)
  PROVE  FoundAre(new, f)
<1>1. Known(new, FoundKeys) = Known(old, FoundKeys)
  BY DEF Known, FoundKeys, SameParts
<1>2. FoundAsk(new) = FoundAsk(old)
  <2>1. \A x \in FoundKeys : new[x[1]].kind = old[x[1]].kind /\ new[x[1]].parts = old[x[1]].parts
    BY DEF FoundKeys, SameParts
  <2> QED BY <2>1 DEF FoundAsk
<1> QED BY <1>1, <1>2 DEF FoundAre

\* What is chosen as a solution is the one there is.
LEMMA EndsChosen ==
  ASSUME NEW nodes, Shape(nodes), NEW e, EndsAre(nodes, e), NEW c, c = CHOOSE f : IsEnds(nodes, f)
  PROVE  c = e
<1>1. IsEnds(nodes, e)
  BY EndsIsSolution DEF EndsAre, Solves
<1>2. IsEnds(nodes, c)
  BY <1>1
<1> QED BY <1>2, EndsIsSolution DEF EndsAre, Solves

LEMMA FoundChosen ==
  ASSUME NEW nodes, Shape(nodes), NEW f, FoundAre(nodes, f), NEW c, c = CHOOSE g : IsFound(nodes, g)
  PROVE  c = f
<1>1. IsFound(nodes, f)
  BY FoundIsSolution DEF FoundAre, Solves
<1>2. IsFound(nodes, c)
  BY <1>1
<1> QED BY <1>2, FoundIsSolution DEF FoundAre, Solves

\* What delay() finds are jobs.
JobsOnly(nodes, f) ==
  \A n \in MadeOf(nodes) : f[<<n, "head">>] \subseteq Delayables /\ f[<<n, "tail">>] \subseteq Delayables

\* What delay() finds is what is asked for: the last jobs of a node under
\* "tail", the first ones under "head".
Agrees(e, f) ==
  \A n \in Nodes : f[<<n, "tail">>] = e[<<n, "last">>] /\ f[<<n, "head">>] = e[<<n, "first">>]

LEMMA JobsOnlyStep ==
  ASSUME NEW old, NEW n, NEW new, Added(old, n, new), NEW f, NEW g, FoundAre(new, g), JobsOnly(old, f),
         \A m \in Nodes \ {n}, w \in {"head", "tail"} : g[<<m, w>>] = f[<<m, w>>]
  PROVE  JobsOnly(new, g)
<1>1. Shape(new) /\ n \in Nodes /\ n \notin MadeOf(old)
  BY DEF Added, MadeOf
<1>2. ASSUME NEW m \in MadeOf(old)
      PROVE  g[<<m, "head">>] \subseteq Delayables /\ g[<<m, "tail">>] \subseteq Delayables
  <2>1. m \in Nodes \ {n}
    BY <1>1, <1>2 DEF MadeOf
  <2>2. g[<<m, "head">>] = f[<<m, "head">>] /\ g[<<m, "tail">>] = f[<<m, "tail">>]
    BY <2>1
  <2> QED BY <1>2, <2>2 DEF JobsOnly
<1>3. ToSet(new[n].parts) \subseteq MadeOf(old)
  BY DEF Added
<1>4. g[<<n, "head">>] \subseteq Delayables /\ g[<<n, "tail">>] \subseteq Delayables
  <2>1. CASE new[n].kind = "group"
    <3>1. /\ g[<<n, "head">>] = Joined(new, g, n, "head")
          /\ g[<<n, "tail">>] = Joined(new, g, n, "tail")
      BY <1>1, <2>1, FoundValues
    <3>2. \A p \in ToSet(new[n].parts) : g[<<p, "head">>] \subseteq Delayables /\ g[<<p, "tail">>] \subseteq Delayables
      BY <1>2, <1>3
    <3> QED BY <3>1, <3>2 DEF Joined
  <2>2. CASE new[n].kind = "chain"
    <3>1. g[<<n, "head">>] = g[<<Head(new[n].parts), "tail">>] /\ g[<<n, "tail">>] = g[<<Last(new[n].parts), "head">>]
      BY <1>1, <2>2, FoundValues
    <3>2. Head(new[n].parts) \in MadeOf(old) /\ Last(new[n].parts) \in MadeOf(old)
      BY <1>1, <1>3, <2>2 DEF Shape
    <3> QED BY <1>2, <3>1, <3>2
  <2> QED BY <2>1, <2>2 DEF Added
<1>5. \A m \in MadeOf(new) : m = n \/ m \in MadeOf(old)
  BY DEF Added, MadeOf
<1> QED BY <1>2, <1>4, <1>5 DEF JobsOnly

\* If n is a chain, its first and its last member end with what they begin with.
AlikeAtEnds(nodes, e, n) ==
  nodes[n].kind = "chain" =>
    \A p \in {Head(nodes[n].parts), Last(nodes[n].parts)} : e[<<p, "first">>] = e[<<p, "last">>]

\* A chain asks its first member for the tail and its last one for the head:
\* right as long as the one begins with what it ends with, and the other too.
LEMMA AgreesStep ==
  ASSUME NEW old, NEW n, NEW new, Added(old, n, new),
         NEW e, NEW d, EndsAre(new, d),
         \A m \in Nodes \ {n}, w \in {"first", "last"} : d[<<m, w>>] = e[<<m, w>>],
         NEW f, NEW g, FoundAre(new, g),
         \A m \in Nodes \ {n}, w \in {"head", "tail"} : g[<<m, w>>] = f[<<m, w>>],
         Agrees(e, f), AlikeAtEnds(new, e, n)
  PROVE  Agrees(d, g)
<1>1. Shape(new) /\ n \in Nodes /\ n \notin MadeOf(old) /\ ToSet(new[n].parts) \subseteq MadeOf(old)
  BY DEF Added, MadeOf
<1>2. ASSUME NEW m \in Nodes \ {n}
      PROVE  /\ g[<<m, "tail">>] = d[<<m, "last">>] /\ g[<<m, "head">>] = d[<<m, "first">>]
             /\ d[<<m, "last">>] = e[<<m, "last">>] /\ d[<<m, "first">>] = e[<<m, "first">>]
  <2>1. g[<<m, "head">>] = f[<<m, "head">>] /\ g[<<m, "tail">>] = f[<<m, "tail">>]
    BY <1>2
  <2>2. d[<<m, "first">>] = e[<<m, "first">>] /\ d[<<m, "last">>] = e[<<m, "last">>]
    BY <1>2
  <2>3. f[<<m, "tail">>] = e[<<m, "last">>] /\ f[<<m, "head">>] = e[<<m, "first">>]
    BY <1>2 DEF Agrees
  <2> QED BY <2>1, <2>2, <2>3
<1>3. \A p \in ToSet(new[n].parts) : p \in Nodes \ {n}
  BY <1>1 DEF MadeOf
<1>4. g[<<n, "tail">>] = d[<<n, "last">>] /\ g[<<n, "head">>] = d[<<n, "first">>]
  <2>1. CASE new[n].kind = "group"
    <3>1. /\ g[<<n, "head">>] = Joined(new, g, n, "head")
          /\ g[<<n, "tail">>] = Joined(new, g, n, "tail")
      BY <1>1, <2>1, FoundValues
    <3>2. /\ d[<<n, "first">>] = Joined(new, d, n, "first")
          /\ d[<<n, "last">>] = Joined(new, d, n, "last")
      BY <1>1, <2>1, EndsValues
    <3>3. \A p \in ToSet(new[n].parts) : g[<<p, "tail">>] = d[<<p, "last">>] /\ g[<<p, "head">>] = d[<<p, "first">>]
      BY <1>2, <1>3
    <3>4. /\ Joined(new, g, n, "head") = Joined(new, d, n, "first")
          /\ Joined(new, g, n, "tail") = Joined(new, d, n, "last")
      BY <3>3 DEF Joined
    <3> QED BY <3>1, <3>2, <3>4
  <2>2. CASE new[n].kind = "chain"
    <3> DEFINE h == Head(new[n].parts)
               l == Last(new[n].parts)
    <3>1. g[<<n, "head">>] = g[<<h, "tail">>] /\ g[<<n, "tail">>] = g[<<l, "head">>]
      BY <1>1, <2>2, FoundValues
    <3>2. d[<<n, "first">>] = d[<<h, "first">>] /\ d[<<n, "last">>] = d[<<l, "last">>]
      BY <1>1, <2>2, EndsValues
    <3>3. h \in Nodes \ {n} /\ l \in Nodes \ {n}
      BY <1>1, <1>3, <2>2 DEF Shape
    <3>4. e[<<h, "first">>] = e[<<h, "last">>] /\ e[<<l, "first">>] = e[<<l, "last">>]
      BY <2>2 DEF AlikeAtEnds
    <3> HIDE DEF h, l
    <3>5. g[<<h, "tail">>] = d[<<h, "first">>]
      BY <1>2, <3>3, <3>4
    <3>6. g[<<l, "head">>] = d[<<l, "last">>]
      BY <1>2, <3>3, <3>4
    <3> QED BY <3>1, <3>2, <3>5, <3>6
  <2> QED BY <2>1, <2>2 DEF Added
<1> QED BY <1>2, <1>4 DEF Agrees

-----------------------------------------------------------------------------
(* The invariant. *)

\* LinksOf, and what it is made of, for nodes and what is found in them.
VerticesIn(nodes, n) == ToSet(nodes[n].parts) \cup UNION {{e[1], e[2]} : e \in nodes[n].edges}

VisitedIn(nodes, n) ==
  {n} \cup {m \in MadeOf(nodes) :
              <<n, m>> \in Closure({e \in MadeOf(nodes) \X MadeOf(nodes) : e[2] \in VerticesIn(nodes, e[1])},
                                   MadeOf(nodes))}

LinksIn(nodes, f, n) ==
  UNION {f[<<e[1], "tail">>] \X f[<<e[2], "head">>] :
           e \in UNION {nodes[m].edges : m \in VisitedIn(nodes, n)}}

\* What delay() has left.
Delayed ==
  /\ mode = "caller" => done = {} /\ links = {}
  /\ mode # "caller" => top \in MadeOf(node) /\ links = LinksIn(node, Found, top)

\* A job is performed after those it is linked behind.
InOrder == \A l \in links : l[2] \in done => l[1] \in done

\* The links of c that still wait.
Missing(ls, finished, c) == {l \in ls : l[2] = c /\ l[1] \notin finished}

\* topological_sort counts the dependencies that are left.
Sorted ==
  /\ mode # "direct" => queue = {}
  /\ mode = "direct" => /\ \A c \in queue : Missing(links, done, c) = {}
                        /\ \A c \in Delayables : depends[c] = Cardinality(Missing(links, done, c))

Inv ==
  /\ TypeOK /\ Shape(node)
  /\ EndsAre(node, Ends) /\ FoundAre(node, Found) /\ JobsOnly(node, Found)
  /\ NestChains = FALSE => Agrees(Ends, Found)
  /\ Delayed /\ InOrder /\ Sorted

LEMMA EndsIs == Ends = CHOOSE f : IsEnds(node, f)
BY DEF Ends, IsEnds, EndsStep, EndKeys

LEMMA FoundIs == Found = CHOOSE f : IsFound(node, f)
BY DEF Found, IsFound, FoundStep, FoundKeys

LEMMA NextEndsIs == Ends' = CHOOSE f : IsEnds(node', f)
BY DEF Ends, IsEnds, EndsStep, EndKeys

LEMMA NextFoundIs == Found' = CHOOSE f : IsFound(node', f)
BY DEF Found, IsFound, FoundStep, FoundKeys

\* When everything is known, every node stands for itself.
Itself(K, f) == \A x \in K : f[x] = {x[1]}

LEMMA KnownSolution ==
  ASSUME NEW K, NEW asks
  PROVE  \E f : Solves(K, K, asks, f) /\ Itself(K, f)
<1> DEFINE f == [x \in K |-> {x[1]}]
<1>1. \A g : Solution(K, K, asks, g) <=> g = f
  BY DEF Solution
<1>2. Itself(K, f)
  BY DEF Itself
<1> HIDE DEF f
<1>3. Solves(K, K, asks, f)
  BY <1>1 DEF Solves
<1> QED BY <1>2, <1>3

LEMMA InitInv ==
  ASSUME Init
  PROVE  Inv
<1>1. \A n \in Nodes : node[n] = IF n \in Delayables THEN Node("job", <<n>>, {}) ELSE Node("none", <<>>, {})
  BY DEF Init
<1>2. /\ \A n \in Delayables : node[n].kind = "job" /\ node[n].parts = <<n>> /\ node[n].edges = {}
      /\ \A n \in Nodes \ Delayables : node[n].kind = "none" /\ node[n].parts = <<>> /\ node[n].edges = {}
  <2>1. ASSUME NEW n \in Delayables
        PROVE  node[n].kind = "job" /\ node[n].parts = <<n>> /\ node[n].edges = {}
    <3>1. node[n] = Node("job", <<n>>, {})
      BY <1>1 DEF Nodes
    <3> QED BY <3>1 DEF Node
  <2>2. ASSUME NEW n \in Nodes \ Delayables
        PROVE  node[n].kind = "none" /\ node[n].parts = <<>> /\ node[n].edges = {}
    <3>1. node[n] = Node("none", <<>>, {})
      BY <1>1
    <3> QED BY <3>1 DEF Node
  <2> QED BY <2>1, <2>2
<1>3. Shape(node)
  <2>1. \A n \in Delayables : ToSet(<<n>>) = {n}
    BY DEF ToSet
  <2> QED BY <1>2, <2>1 DEF Shape, Kinds, Nodes
<1>4. TypeOK
  <2>1. <<>> \in BoundedSeq(Nodes, MaxParts)
    BY JobGraphAssumption DEF BoundedSeq, SeqOf
  <2>2. \A n \in Nodes : node[n] \in [kind : {"none", "job", "chain", "group"},
                                      parts : {<<m>> : m \in Nodes} \cup BoundedSeq(Nodes, MaxParts),
                                      edges : SUBSET (Nodes \X Nodes)]
    <3> SUFFICES ASSUME NEW n \in Nodes
                 PROVE  node[n] \in [kind : {"none", "job", "chain", "group"},
                                     parts : {<<m>> : m \in Nodes} \cup BoundedSeq(Nodes, MaxParts),
                                     edges : SUBSET (Nodes \X Nodes)]
      OBVIOUS
    <3>1. CASE n \in Delayables
      <4>1. node[n] = [kind |-> "job", parts |-> <<n>>, edges |-> {}]
        BY <1>1, <3>1 DEF Node
      <4> QED BY <4>1
    <3>2. CASE n \notin Delayables
      <4>1. node[n] = [kind |-> "none", parts |-> <<>>, edges |-> {}]
        BY <1>1, <3>2 DEF Node
      <4> QED BY <4>1, <2>1
    <3> QED BY <3>1, <3>2
  <2>3. node \in [Nodes -> [kind : {"none", "job", "chain", "group"},
                            parts : {<<m>> : m \in Nodes} \cup BoundedSeq(Nodes, MaxParts),
                            edges : SUBSET (Nodes \X Nodes)]]
    BY <2>2 DEF Init
  <2> QED BY <2>3, JobGraphAssumption DEF TypeOK, Init
<1>5. \A K : K \in {EndKeys, FoundKeys} => Known(node, K) = K
  BY <1>2 DEF Known, EndKeys, FoundKeys, Nodes
<1>7. PICK e : EndsAre(node, e) /\ Itself(EndKeys, e)
  <2>1. PICK e : Solves(EndKeys, EndKeys, EndsAsk(node), e) /\ Itself(EndKeys, e)
    BY KnownSolution
  <2> QED BY <1>5, <2>1 DEF EndsAre
<1>8. PICK f : FoundAre(node, f) /\ Itself(FoundKeys, f)
  <2>1. PICK f : Solves(FoundKeys, FoundKeys, FoundAsk(node), f) /\ Itself(FoundKeys, f)
    BY KnownSolution
  <2> QED BY <1>5, <2>1 DEF FoundAre
<1>9. e = Ends /\ f = Found
  BY <1>3, <1>7, <1>8, EndsIs, FoundIs, EndsChosen, FoundChosen
<1>10. \A n \in Nodes : /\ e[<<n, "first">>] = {n} /\ e[<<n, "last">>] = {n}
                        /\ f[<<n, "head">>] = {n} /\ f[<<n, "tail">>] = {n}
  <2>1. \A n \in Nodes : /\ <<n, "first">> \in EndKeys /\ <<n, "last">> \in EndKeys
                         /\ <<n, "head">> \in FoundKeys /\ <<n, "tail">> \in FoundKeys
    BY DEF EndKeys, FoundKeys
  <2> QED BY <1>7, <1>8, <2>1 DEF Itself
<1>11. JobsOnly(node, f) /\ Agrees(e, f)
  BY <1>2, <1>10 DEF JobsOnly, Agrees, MadeOf, Nodes
<1>12. Delayed /\ InOrder /\ Sorted
  BY DEF Init, Delayed, InOrder, Sorted
<1> QED BY <1>3, <1>4, <1>7, <1>8, <1>9, <1>11, <1>12 DEF Inv

-----------------------------------------------------------------------------
(* The members of a chain and of a group, as sequences. *)

LEMMA BoundedSeqFacts ==
  ASSUME NEW S, NEW k \in Nat, NEW ps \in BoundedSeq(S, k), ps # <<>>
  PROVE  /\ Len(ps) \in Nat \ {0} /\ ToSet(ps) \subseteq S
         /\ \A i \in 1..Len(ps) : ps[i] \in ToSet(ps)
         /\ Head(ps) \in ToSet(ps) /\ Last(ps) \in ToSet(ps)
<1>1. PICK m \in 0..k : ps \in [1..m -> S]
  BY DEF BoundedSeq, SeqOf
<1>2. ps \in Seq(S)
  BY <1>1, SeqDef
<1>3. Len(ps) \in Nat \ {0} /\ DOMAIN ps = 1..Len(ps) /\ ps \in [1..Len(ps) -> S]
  BY <1>2, EmptySeq, LenProperties
<1>4. (\A i \in 1..Len(ps) : ps[i] \in ToSet(ps)) /\ ToSet(ps) \subseteq S
  BY <1>3 DEF ToSet
<1>5. ps \in Seq(ToSet(ps))
  <2>1. ps \in [1..Len(ps) -> ToSet(ps)]
    BY <1>3, <1>4
  <2> QED BY <1>3, <2>1, SeqDef
<1>6. Head(ps) \in ToSet(ps)
  BY <1>5, HeadTailProperties
<1>7. Last(ps) \in ToSet(ps)
  BY <1>3, <1>4 DEF Last
<1> QED BY <1>3, <1>4, <1>6, <1>7

LEMMA BoundedSeqGrows ==
  ASSUME NEW S, NEW T, S \subseteq T, NEW k \in Nat, NEW ps \in BoundedSeq(S, k)
  PROVE  ps \in BoundedSeq(T, k)
<1>1. PICK m \in 0..k : ps \in [1..m -> S]
  BY DEF BoundedSeq, SeqOf
<1>2. ps \in [1..m -> T]
  BY <1>1
<1> QED BY <1>2 DEF BoundedSeq, SeqOf

LEMMA ListOfSet ==
  ASSUME NEW S, IsFiniteSet(S), NEW k \in Nat, Cardinality(S) <= k
  PROVE  SetToSeq(S) \in BoundedSeq(S, k) /\ ToSet(SetToSeq(S)) \subseteq S
<1> DEFINE c == Cardinality(S)
           l == SetToSeq(S)
<1>1. c \in Nat /\ ExistsBijection(1..c, S)
  BY FS_CardinalityType
<1>2. \E f \in [1..c -> S] : IsInjective(f)
  BY <1>1 DEF ExistsBijection, Bijection, Injection
<1>3. l \in [1..c -> S]
  BY <1>2 DEF SetToSeq
<1> HIDE DEF c, l
<1>4. c \in 0..k
  BY <1>1 DEF c
<1> QED BY <1>3, <1>4 DEF BoundedSeq, SeqOf, ToSet, l

-----------------------------------------------------------------------------
(* The caller's steps. *)

\* What a call makes a new composite of.
Composed(it) ==
  /\ it.kind \in {"chain", "group"}
  /\ it \in [kind : {"none", "job", "chain", "group"},
             parts : {<<n>> : n \in Nodes} \cup BoundedSeq(Nodes, MaxParts),
             edges : SUBSET (Nodes \X Nodes)]
  /\ ToSet(it.parts) \subseteq Made /\ it.edges \subseteq Made \X Made
  /\ it.kind = "chain" => /\ Head(it.parts) \in ToSet(it.parts) /\ Last(it.parts) \in ToSet(it.parts)
                          /\ NestChains = FALSE => Flat(Head(it.parts)) /\ Flat(Last(it.parts))

LEMMA ChainComposed ==
  ASSUME TypeOK, NEW ps \in BoundedSeq(Free, MaxParts), ps # <<>>,
         NestChains \/ (Flat(Head(ps)) /\ Flat(Last(ps)))
  PROVE  Composed(Node("chain", ps, {<<ps[i], ps[i + 1]>> : i \in 1..(Len(ps) - 1)}))
<1> DEFINE es == {<<ps[i], ps[i + 1]>> : i \in 1..(Len(ps) - 1)}
           it == Node("chain", ps, es)
<1>1. MaxParts \in Nat /\ Free \subseteq Made /\ Made \subseteq Nodes
  BY JobGraphAssumption DEF Free, Made
<1>2. /\ Len(ps) \in Nat \ {0} /\ ToSet(ps) \subseteq Free
      /\ \A i \in 1..Len(ps) : ps[i] \in ToSet(ps)
      /\ Head(ps) \in ToSet(ps) /\ Last(ps) \in ToSet(ps)
  BY <1>1, BoundedSeqFacts
<1>3. ps \in BoundedSeq(Nodes, MaxParts)
  BY <1>1, BoundedSeqGrows
<1>4. es \subseteq Made \X Made
  <2>1. \A i \in 1..(Len(ps) - 1) : ps[i] \in Made /\ ps[i + 1] \in Made
    BY <1>1, <1>2
  <2> QED BY <2>1
<1>5. es \in SUBSET (Nodes \X Nodes)
  BY <1>1, <1>4
<1>6. it = [kind |-> "chain", parts |-> ps, edges |-> es]
  BY DEF Node
<1> HIDE DEF es, it
<1>7. it.kind = "chain" /\ it.parts = ps /\ it.edges = es
  BY <1>6
<1> QED BY <1>1, <1>2, <1>3, <1>4, <1>5, <1>6, <1>7 DEF Composed, it, es

LEMMA GroupComposed ==
  ASSUME TypeOK, NEW ps \in SUBSET Free, Cardinality(ps) <= MaxParts
  PROVE  Composed(Node("group", SetToSeq(ps), {}))
<1> DEFINE l == SetToSeq(ps)
           it == Node("group", l, {})
<1>1. MaxParts \in Nat /\ Free \subseteq Made /\ Made \subseteq Nodes /\ IsFiniteSet(Nodes)
  BY JobGraphAssumption DEF Free, Made
<1>2. IsFiniteSet(ps)
  BY <1>1, FS_Subset
<1>3. l \in BoundedSeq(ps, MaxParts) /\ ToSet(l) \subseteq ps
  BY <1>1, <1>2, ListOfSet
<1>4. l \in BoundedSeq(Nodes, MaxParts)
  BY <1>1, <1>3, BoundedSeqGrows
<1>5. it = [kind |-> "group", parts |-> l, edges |-> {}]
  BY DEF Node
<1> HIDE DEF l, it
<1>6. it.kind = "group" /\ it.parts = l /\ it.edges = {}
  BY <1>5
<1> QED BY <1>1, <1>3, <1>4, <1>5, <1>6 DEF Composed, it, l

LEMMA MakeAdds ==
  ASSUME Inv, NEW n \in Composites, NEW it, Composed(it), Make(n, it)
  PROVE  /\ Added(node, n, node') /\ node'[n] = it
         /\ node' \in [Nodes -> [kind : {"none", "job", "chain", "group"},
                                 parts : {<<m>> : m \in Nodes} \cup BoundedSeq(Nodes, MaxParts),
                                 edges : SUBSET (Nodes \X Nodes)]]
<1>1. n \in Nodes /\ n \notin Delayables /\ n \notin Made /\ node' = [node EXCEPT ![n] = it]
  BY JobGraphAssumption DEF Make, Nodes
<1>2. /\ node' \in [Nodes -> [kind : {"none", "job", "chain", "group"},
                              parts : {<<m>> : m \in Nodes} \cup BoundedSeq(Nodes, MaxParts),
                              edges : SUBSET (Nodes \X Nodes)]]
      /\ node'[n] = it /\ \A m \in Nodes \ {n} : node'[m] = node[m]
  BY <1>1 DEF Inv, TypeOK, Composed
<1>3. node[n].kind = "none"
  BY <1>1 DEF Made
<1>4. Made = MadeOf(node)
  BY DEF Made, MadeOf
<1>5. MadeOf(node) \subseteq MadeOf(node') /\ n \in MadeOf(node')
  BY <1>1, <1>2 DEF MadeOf, Composed
<1>6. Shape(node')
  <2> SUFFICES ASSUME NEW m \in Nodes
               PROVE  /\ node'[m].kind \in Kinds
                      /\ node'[m].kind = "job" <=> m \in Delayables
                      /\ node'[m].kind = "job" => ToSet(node'[m].parts) = {m}
                      /\ node'[m].kind \in {"chain", "group"} => ToSet(node'[m].parts) \subseteq MadeOf(node')
                      /\ node'[m].kind = "chain" => /\ Head(node'[m].parts) \in ToSet(node'[m].parts)
                                                    /\ Last(node'[m].parts) \in ToSet(node'[m].parts)
                      /\ node'[m].edges \subseteq MadeOf(node') \X MadeOf(node')
    BY DEF Shape
  <2>1. CASE m = n
    <3>1. /\ it.kind \in {"chain", "group"} /\ ToSet(it.parts) \subseteq MadeOf(node')
          /\ it.edges \subseteq MadeOf(node') \X MadeOf(node')
      BY <1>4, <1>5 DEF Composed
    <3>2. it.kind = "chain" => Head(it.parts) \in ToSet(it.parts) /\ Last(it.parts) \in ToSet(it.parts)
      BY DEF Composed
    <3>3. node'[m] = it /\ m \notin Delayables
      BY <1>1, <1>2, <2>1
    <3> QED BY <3>1, <3>2, <3>3 DEF Kinds
  <2>2. CASE m # n
    <3>1. node'[m] = node[m]
      BY <1>2, <2>2
    <3> QED BY <1>5, <3>1 DEF Inv, Shape
  <2> QED BY <2>1, <2>2
<1> QED BY <1>1, <1>2, <1>3, <1>4, <1>6 DEF Added, Inv, Composed

\* Nothing of the caller's work is done yet, or has been left by delay().
LEMMA CallerKeeps ==
  ASSUME Inv, mode = "caller", UNCHANGED <<mode, links, done, queue>>
  PROVE  (Delayed /\ InOrder /\ Sorted)'
BY DEF Inv, Delayed, InOrder, Sorted

LEMMA MakeInv ==
  ASSUME Inv, NEW n \in Composites, NEW it, Composed(it), Make(n, it)
  PROVE  Inv'
<1>1. /\ Added(node, n, node') /\ node'[n] = it
      /\ node' \in [Nodes -> [kind : {"none", "job", "chain", "group"},
                              parts : {<<m>> : m \in Nodes} \cup BoundedSeq(Nodes, MaxParts),
                              edges : SUBSET (Nodes \X Nodes)]]
  BY MakeAdds
<1>2. UNCHANGED <<calls, top, mode, links, done, queue, depends>> /\ mode = "caller"
  BY DEF Make, sortVars
<1>3. TypeOK'
  BY <1>1, <1>2 DEF Inv, TypeOK
<1>4. Shape(node')
  BY <1>1 DEF Added
<1>5. EndsAre(node', Ends') /\ \A m \in Nodes \ {n}, w \in {"first", "last"} : Ends'[<<m, w>>] = Ends[<<m, w>>]
  <2>1. PICK g : /\ EndsAre(node', g)
                 /\ \A m \in Nodes \ {n}, w \in {"first", "last"} : g[<<m, w>>] = Ends[<<m, w>>]
    BY <1>1, EndsExtend DEF Inv
  <2>2. Ends' = g
    BY <1>4, <2>1, NextEndsIs, EndsChosen
  <2> QED BY <2>1, <2>2
<1>6. FoundAre(node', Found') /\ \A m \in Nodes \ {n}, w \in {"head", "tail"} : Found'[<<m, w>>] = Found[<<m, w>>]
  <2>1. PICK g : /\ FoundAre(node', g)
                 /\ \A m \in Nodes \ {n}, w \in {"head", "tail"} : g[<<m, w>>] = Found[<<m, w>>]
    BY <1>1, FoundExtend DEF Inv
  <2>2. Found' = g
    BY <1>4, <2>1, NextFoundIs, FoundChosen
  <2> QED BY <2>1, <2>2
<1>7. JobsOnly(node', Found')
  BY <1>1, <1>6, JobsOnlyStep DEF Inv
<1>8. ASSUME NestChains = FALSE PROVE Agrees(Ends', Found')
  <2>1. Agrees(Ends, Found)
    BY <1>8 DEF Inv
  <2>2. AlikeAtEnds(node', Ends, n)
    BY <1>1, <1>8 DEF Composed, Flat, AlikeAtEnds
  <2> QED BY <1>1, <1>5, <1>6, <2>1, <2>2, AgreesStep
<1>9. (Delayed /\ InOrder /\ Sorted)'
  BY <1>2, CallerKeeps
<1> QED BY <1>3, <1>4, <1>5, <1>6, <1>7, <1>8, <1>9 DEF Inv

\* What Ends and Found are, as long as the members stay.
LEMMA PartsKeep ==
  ASSUME Inv, Shape(node'), SameParts(node, node')
  PROVE  /\ Ends' = Ends /\ Found' = Found
         /\ EndsAre(node', Ends') /\ FoundAre(node', Found') /\ JobsOnly(node', Found')
         /\ NestChains = FALSE => Agrees(Ends', Found')
<1>1. EndsAre(node', Ends) /\ FoundAre(node', Found)
  BY EndsKeep, FoundKeep DEF Inv
<1>2. Ends' = Ends
  BY <1>1, NextEndsIs, EndsChosen
<1>3. Found' = Found
  BY <1>1, NextFoundIs, FoundChosen
<1>4. MadeOf(node') = MadeOf(node)
  BY DEF MadeOf, SameParts
<1>5. JobsOnly(node', Found)
  BY <1>4 DEF Inv, JobsOnly
<1> QED BY <1>1, <1>2, <1>3, <1>5 DEF Inv

LEMMA OnDoneInv ==
  ASSUME Inv, NEW n \in Nodes, NEW m \in Nodes, OnDone(n, m)
  PROVE  Inv'
<1> DEFINE es == node[n].edges \cup (Sources(n) \X {m})
<1>1. /\ mode = "caller" /\ n \in MadeOf(node) /\ m \in MadeOf(node) /\ calls < MaxCalls /\ calls' = calls + 1
      /\ node' = [node EXCEPT ![n].edges = es]
      /\ UNCHANGED <<top, mode, links, done, queue, depends>>
  BY DEF OnDone, Made, MadeOf, sortVars
<1>2. Sources(n) \subseteq MadeOf(node)
  <2>1. /\ node[n].kind \in Kinds \ {"none"}
        /\ node[n].kind = "job" => ToSet(node[n].parts) = {n}
        /\ node[n].kind \in {"chain", "group"} => ToSet(node[n].parts) \subseteq MadeOf(node)
        /\ node[n].kind = "chain" => Last(node[n].parts) \in ToSet(node[n].parts)
    BY <1>1 DEF Inv, Shape, MadeOf
  <2> QED BY <1>1, <2>1 DEF Sources, PartsOf, Kinds
<1>3. es \subseteq MadeOf(node) \X MadeOf(node)
  <2>1. node[n].edges \subseteq MadeOf(node) \X MadeOf(node)
    BY DEF Inv, Shape
  <2> QED BY <1>1, <1>2, <2>1
<1>4. es \in SUBSET (Nodes \X Nodes)
  BY <1>3 DEF MadeOf
<1> HIDE DEF es
<1>5. /\ node' \in [Nodes -> [kind : {"none", "job", "chain", "group"},
                              parts : {<<k>> : k \in Nodes} \cup BoundedSeq(Nodes, MaxParts),
                              edges : SUBSET (Nodes \X Nodes)]]
      /\ SameParts(node, node')
      /\ \A k \in Nodes : node'[k].edges = IF k = n THEN es ELSE node[k].edges
  <2> DEFINE P == {<<k>> : k \in Nodes} \cup BoundedSeq(Nodes, MaxParts)
             E == SUBSET (Nodes \X Nodes)
  <2>1. node \in [Nodes -> [kind : {"none", "job", "chain", "group"}, parts : P, edges : E]] /\ es \in E
    BY <1>4 DEF Inv, TypeOK
  <2> HIDE DEF P, E
  <2>2. node' \in [Nodes -> [kind : {"none", "job", "chain", "group"}, parts : P, edges : E]]
    BY <1>1, <2>1
  <2>3. SameParts(node, node') /\ \A k \in Nodes : node'[k].edges = IF k = n THEN es ELSE node[k].edges
    BY <1>1, <2>1 DEF SameParts
  <2> QED BY <2>2, <2>3 DEF P, E
<1>6. TypeOK'
  <2>1. calls' \in 0..MaxCalls
    BY <1>1, JobGraphAssumption DEF Inv, TypeOK
  <2> QED BY <1>1, <1>5, <2>1 DEF Inv, TypeOK
<1>7. MadeOf(node') = MadeOf(node)
  BY <1>5 DEF MadeOf, SameParts
<1>8. Shape(node')
  <2> SUFFICES ASSUME NEW k \in Nodes
               PROVE  /\ node'[k].kind \in Kinds
                      /\ node'[k].kind = "job" <=> k \in Delayables
                      /\ node'[k].kind = "job" => ToSet(node'[k].parts) = {k}
                      /\ node'[k].kind \in {"chain", "group"} => ToSet(node'[k].parts) \subseteq MadeOf(node')
                      /\ node'[k].kind = "chain" => /\ Head(node'[k].parts) \in ToSet(node'[k].parts)
                                                    /\ Last(node'[k].parts) \in ToSet(node'[k].parts)
                      /\ node'[k].edges \subseteq MadeOf(node') \X MadeOf(node')
    BY DEF Shape
  <2>1. node'[k].kind = node[k].kind /\ node'[k].parts = node[k].parts
    BY <1>5 DEF SameParts
  <2>2. node'[k].edges \subseteq MadeOf(node') \X MadeOf(node')
    BY <1>3, <1>5, <1>7 DEF Inv, Shape
  <2> QED BY <1>7, <2>1, <2>2 DEF Inv, Shape
<1>9. (Delayed /\ InOrder /\ Sorted)'
  BY <1>1, CallerKeeps
<1> QED BY <1>5, <1>6, <1>8, <1>9, PartsKeep DEF Inv

-----------------------------------------------------------------------------
(* delay() and the performing of the jobs. *)

LEMMA LinksOfIn ==
  ASSUME NEW n
  PROVE  LinksOf(n) = LinksIn(node, Found, n) /\ Visited(n) = VisitedIn(node, n)
<1>1. Made = MadeOf(node)
  BY DEF Made, MadeOf
<1>2. \A m : Vertices(m) = VerticesIn(node, m)
  BY DEF Vertices, VerticesIn, PartsOf
<1>3. {e \in Made \X Made : e[2] \in Vertices(e[1])}
        = {e \in MadeOf(node) \X MadeOf(node) : e[2] \in VerticesIn(node, e[1])}
  BY <1>1, <1>2
<1>4. Visited(n) = VisitedIn(node, n)
  BY <1>1, <1>3 DEF Visited, VisitedIn
<1> QED BY <1>4 DEF LinksOf, LinksIn

\* The graphs that are visited are those of nodes the caller made, so their
\* links are between jobs.
LEMMA VisitedMade ==
  ASSUME Inv, NEW n \in MadeOf(node), NEW m \in VisitedIn(node, n)
  PROVE  /\ m \in MadeOf(node) /\ m \in Nodes
         /\ node[m].edges \subseteq MadeOf(node) \X MadeOf(node)
         /\ ToSet(node[m].parts) \subseteq MadeOf(node)
<1>1. m \in MadeOf(node) /\ m \in Nodes
  BY DEF VisitedIn, MadeOf
<1>2. node[m].kind \in Kinds \ {"none"}
  BY <1>1 DEF Inv, Shape, MadeOf
<1> QED BY <1>1, <1>2 DEF Inv, Shape, Kinds

LEMMA LinksAreJobs ==
  ASSUME Inv, NEW n \in MadeOf(node)
  PROVE  LinksOf(n) \subseteq Delayables \X Delayables /\ JobsOf(n) \subseteq Delayables
<1>1. LinksIn(node, Found, n) \subseteq Delayables \X Delayables
  <2>1. ASSUME NEW m \in VisitedIn(node, n), NEW e \in node[m].edges
        PROVE  Found[<<e[1], "tail">>] \X Found[<<e[2], "head">>] \subseteq Delayables \X Delayables
    <3>1. e[1] \in MadeOf(node) /\ e[2] \in MadeOf(node)
      BY VisitedMade
    <3>2. Found[<<e[1], "tail">>] \subseteq Delayables /\ Found[<<e[2], "head">>] \subseteq Delayables
      BY <3>1 DEF Inv, JobsOnly
    <3> QED BY <3>2
  <2>2. ASSUME NEW l \in LinksIn(node, Found, n) PROVE l \in Delayables \X Delayables
    <3>1. PICK m \in VisitedIn(node, n) :
            \E e \in node[m].edges : l \in Found[<<e[1], "tail">>] \X Found[<<e[2], "head">>]
      BY <2>2 DEF LinksIn
    <3>2. PICK e \in node[m].edges : l \in Found[<<e[1], "tail">>] \X Found[<<e[2], "head">>]
      BY <3>1
    <3> QED BY <2>1, <3>2
  <2> QED BY <2>2
<1>2. ASSUME NEW m \in Visited(n), NEW v \in Vertices(m) PROVE Found[<<v, "tail">>] \subseteq Delayables
  <2>1. m \in VisitedIn(node, n)
    BY <1>2, LinksOfIn
  <2>2. v \in MadeOf(node)
    <3>1. node[m].edges \subseteq MadeOf(node) \X MadeOf(node) /\ ToSet(node[m].parts) \subseteq MadeOf(node)
      BY <2>1, VisitedMade
    <3> QED BY <1>2, <3>1 DEF Vertices, PartsOf
  <2> QED BY <2>2 DEF Inv, JobsOnly
<1> QED BY <1>1, <1>2, LinksOfIn DEF JobsOf

LEMMA LinksFinite ==
  ASSUME NEW ls, ls \subseteq Delayables \X Delayables, NEW finished, NEW c
  PROVE  IsFiniteSet(ls) /\ IsFiniteSet(Missing(ls, finished, c)) /\ Cardinality(Missing(ls, finished, c)) \in Nat
<1>1. IsFiniteSet(Delayables)
  BY JobGraphAssumption, FS_Subset DEF Nodes
<1>2. IsFiniteSet(Delayables \X Delayables)
  BY <1>1, FS_Product
<1>3. IsFiniteSet(ls)
  BY <1>2, FS_Subset
<1>4. IsFiniteSet(Missing(ls, finished, c))
  BY <1>3, FS_Subset DEF Missing
<1> QED BY <1>3, <1>4, FS_CardinalityType

LEMMA DelayInv ==
  ASSUME Inv, NEW n \in Nodes, Delay(n)
  PROVE  Inv'
<1>1. /\ mode = "caller" /\ n \in MadeOf(node) /\ top' = n /\ links' = LinksOf(n)
      /\ UNCHANGED <<node, calls, done>> /\ done = {} /\ queue = {}
  BY DEF Delay, TopLevel, Made, MadeOf, Inv, Delayed, Sorted
<1>2. mode' \in {"refused", "stored", "direct", "existing"}
  BY DEF Delay
<1>3. links' \subseteq Delayables \X Delayables /\ JobsOf(n) \subseteq Delayables
  BY <1>1, LinksAreJobs
<1>4. mode' = "direct" =>
        /\ queue' = {d \in JobsOf(n) : \A l \in links' : l[2] # d}
        /\ depends' = [d \in Delayables |-> Cardinality({l \in links' : l[2] = d})]
  BY <1>1 DEF Delay
<1>5. mode' # "direct" => queue' = queue /\ depends' = depends
  BY DEF Delay, sortVars
<1>6. \A c : Missing(links', done', c) = {l \in links' : l[2] = c}
  BY <1>1 DEF Missing
<1>7. \A c \in Delayables : Cardinality({l \in links' : l[2] = c}) \in Nat
  <2> SUFFICES ASSUME NEW c \in Delayables PROVE Cardinality({l \in links' : l[2] = c}) \in Nat
    OBVIOUS
  <2> QED BY <1>3, <1>6, LinksFinite
<1>8. TypeOK'
  <2>1. queue' \subseteq Delayables \ done'
    BY <1>1, <1>3, <1>4, <1>5
  <2>2. depends' \in [Delayables -> Nat]
    <3>1. depends \in [Delayables -> Nat]
      BY DEF Inv, TypeOK
    <3>2. CASE mode' = "direct"
      <4> DEFINE count(c) == Cardinality({l \in links' : l[2] = c})
      <4>1. depends' = [c \in Delayables |-> count(c)] /\ \A c \in Delayables : count(c) \in Nat
        BY <1>4, <1>7, <3>2
      <4> HIDE DEF count
      <4> QED BY <4>1
    <3>3. CASE mode' # "direct"
      BY <1>5, <3>1, <3>3
    <3> QED BY <3>2, <3>3
  <2> QED BY <1>1, <1>2, <1>3, <2>1, <2>2 DEF Inv, TypeOK
<1>9. Shape(node') /\ SameParts(node, node')
  BY <1>1 DEF Inv, SameParts
<1>10. Found' = Found
  BY <1>9, PartsKeep
<1>11. Delayed'
  <2>1. links' = LinksIn(node', Found', top')
    BY <1>1, <1>10, LinksOfIn
  <2> QED BY <1>1, <1>2, <2>1 DEF Delayed
<1>12. InOrder'
  BY <1>1 DEF InOrder
<1>13. Sorted'
  <2>1. CASE mode' = "direct"
    BY <1>4, <1>6, <2>1 DEF Sorted
  <2>2. CASE mode' # "direct"
    BY <1>1, <1>5, <2>2 DEF Sorted
  <2> QED BY <2>1, <2>2
<1> QED BY <1>8, <1>9, <1>11, <1>12, <1>13, PartsKeep DEF Inv

LEMMA PerformInv ==
  ASSUME Inv, NEW d \in Delayables, Perform(d)
  PROVE  Inv'
<1>1. /\ mode = "stored" /\ (\A l \in links : l[2] = d => l[1] \in done) /\ done' = done \cup {d}
      /\ UNCHANGED <<node, calls, top, mode, links, queue, depends>> /\ queue = {}
  BY DEF Perform, sortVars, Inv, Sorted
<1>2. TypeOK'
  BY <1>1 DEF Inv, TypeOK
<1>3. Shape(node') /\ SameParts(node, node')
  BY <1>1 DEF Inv, SameParts
<1>4. Found' = Found
  BY <1>3, PartsKeep
<1>5. Delayed' /\ InOrder' /\ Sorted'
  BY <1>1, <1>4 DEF Inv, Delayed, InOrder, Sorted
<1> QED BY <1>2, <1>3, <1>5, PartsKeep DEF Inv

LEMMA ExecuteInv ==
  ASSUME Inv, NEW d \in Delayables, ExecuteDirect(d)
  PROVE  Inv'
<1> DEFINE M(c) == Missing(links, done, c)
           W(c) == Missing(links', done', c)
<1>1. /\ mode = "direct" /\ d \in queue /\ done' = done \cup {d}
      /\ depends' = [c \in Delayables |-> IF <<d, c>> \in links THEN depends[c] - 1 ELSE depends[c]]
      /\ queue' = (queue \ {d}) \cup {c \in Delayables : <<d, c>> \in links /\ depends'[c] = 0}
      /\ UNCHANGED <<node, calls, top, mode, links>>
  BY DEF ExecuteDirect
<1>2. /\ links \subseteq Delayables \X Delayables /\ done \subseteq Delayables
      /\ queue \subseteq Delayables \ done /\ depends \in [Delayables -> Nat]
  BY DEF Inv, TypeOK
<1>3. /\ \A c \in queue : M(c) = {}
      /\ \A c \in Delayables : depends[c] = Cardinality(M(c))
      /\ <<d, d>> \notin links
  BY <1>1, <1>2 DEF Inv, Sorted, Missing
<1>4. ASSUME NEW c \in Delayables
      PROVE  W(c) = M(c) \ {<<d, c>>} /\ (<<d, c>> \in M(c) <=> <<d, c>> \in links)
  <2>1. \A l \in links : l = <<l[1], l[2]>>
    BY <1>2
  <2> QED BY <1>1, <1>2, <2>1 DEF Missing
<1>5. ASSUME NEW c \in Delayables
      PROVE  depends'[c] = Cardinality(W(c)) /\ depends'[c] \in Nat /\ IsFiniteSet(W(c))
  <2>1. IsFiniteSet(M(c)) /\ IsFiniteSet(W(c)) /\ Cardinality(W(c)) \in Nat
    BY <1>1, <1>2, LinksFinite
  <2>2. Cardinality(W(c)) = IF <<d, c>> \in links THEN Cardinality(M(c)) - 1 ELSE Cardinality(M(c))
    <3> HIDE DEF M, W
    <3> QED BY <1>4, <2>1, FS_RemoveElement
  <2>3. depends'[c] = Cardinality(W(c))
    <3> HIDE DEF M, W
    <3> QED BY <1>1, <1>3, <2>2
  <2> QED BY <2>1, <2>3
<1>6. queue' \subseteq Delayables \ done'
  <2> SUFFICES ASSUME NEW c \in queue' PROVE c \in Delayables /\ c \notin done /\ c # d
    BY <1>1
  <2>1. CASE c \in queue \ {d}
    BY <1>2, <2>1
  <2>2. CASE c \in Delayables /\ <<d, c>> \in links
    <3>1. c \in done => d \in done
      BY <2>2 DEF Inv, InOrder
    <3> QED BY <1>1, <1>2, <1>3, <2>2, <3>1
  <2> QED BY <1>1, <2>1, <2>2
<1>7. depends' \in [Delayables -> Nat]
  BY <1>1, <1>5
<1>8. TypeOK'
  BY <1>1, <1>2, <1>6, <1>7 DEF Inv, TypeOK
<1>9. Shape(node') /\ SameParts(node, node')
  BY <1>1 DEF Inv, SameParts
<1>10. Found' = Found
  BY <1>9, PartsKeep
<1>11. Delayed'
  BY <1>1, <1>10 DEF Inv, Delayed
<1>12. InOrder'
  <2>1. \A l \in links : l[2] = d => l[1] \in done
    BY <1>1, <1>3 DEF Missing
  <2> QED BY <1>1, <2>1 DEF Inv, InOrder
<1>13. Sorted'
  <2>1. ASSUME NEW c \in queue' PROVE W(c) = {}
    <3>1. CASE c \in queue \ {d}
      BY <1>2, <1>3, <1>4, <3>1
    <3>2. CASE c \in Delayables /\ depends'[c] = 0
      <4> HIDE DEF W
      <4> QED BY <1>5, <3>2, FS_EmptySet
    <3> QED BY <1>1, <2>1, <3>1, <3>2
  <2> QED BY <1>1, <1>5, <2>1 DEF Sorted
<1> QED BY <1>8, <1>9, <1>11, <1>12, <1>13, PartsKeep DEF Inv

LEMMA StepInv ==
  ASSUME Inv, [Next]_vars
  PROVE  Inv'
<1>1. ASSUME NEW n \in Composites, MakeChain(n) PROVE Inv'
  <2>1. PICK ps \in BoundedSeq(Free, MaxParts) :
          /\ ps # <<>> /\ (NestChains \/ (Flat(Head(ps)) /\ Flat(Last(ps))))
          /\ Make(n, Node("chain", ps, {<<ps[i], ps[i + 1]>> : i \in 1..(Len(ps) - 1)}))
    BY <1>1 DEF MakeChain
  <2>2. Composed(Node("chain", ps, {<<ps[i], ps[i + 1]>> : i \in 1..(Len(ps) - 1)}))
    BY <2>1, ChainComposed DEF Inv
  <2> QED BY <2>1, <2>2, MakeInv
<1>2. ASSUME NEW n \in Composites, MakeGroup(n) PROVE Inv'
  <2>1. PICK ps \in SUBSET Free : Cardinality(ps) <= MaxParts /\ Make(n, Node("group", SetToSeq(ps), {}))
    BY <1>2 DEF MakeGroup
  <2>2. Composed(Node("group", SetToSeq(ps), {}))
    BY <2>1, GroupComposed DEF Inv
  <2> QED BY <2>1, <2>2, MakeInv
<1>3. CASE UNCHANGED vars
  <2>1. UNCHANGED <<node, calls, top, mode, links, done, queue, depends>>
    BY <1>3 DEF vars, sortVars
  <2>2. TypeOK'
    BY <2>1 DEF Inv, TypeOK
  <2>3. Shape(node') /\ SameParts(node, node')
    BY <2>1 DEF Inv, SameParts
  <2>4. Found' = Found
    BY <2>3, PartsKeep
  <2>5. Delayed' /\ InOrder' /\ Sorted'
    BY <2>1, <2>4 DEF Inv, Delayed, InOrder, Sorted
  <2> QED BY <2>2, <2>3, <2>5, PartsKeep DEF Inv
<1> QED BY <1>1, <1>2, <1>3, OnDoneInv, DelayInv, PerformInv, ExecuteInv DEF Next

LEMMA InvAlways == Spec => []Inv
<1>1. Init => Inv
  BY InitInv
<1>2. Inv /\ [Next]_vars => Inv'
  BY StepInv
<1> QED BY <1>1, <1>2, PTL DEF Spec

-----------------------------------------------------------------------------
\* Whatever is nested in what, the links delay() makes are between jobs, and a
\* direct execution counts dependencies down without going below none and
\* queues no job it has executed.
THEOREM TypeCorrect == Spec => []TypeOK
<1>1. Inv => TypeOK
  BY DEF Inv
<1> QED BY <1>1, InvAlways, PTL

\* When no chain begins or ends with another chain, what is asked for is among
\* the links, although a chain asks its first member for the tail.
LEMMA RequiredIsLinked ==
  ASSUME Inv, NestChains = FALSE, NEW n \in MadeOf(node)
  PROVE  Required(Visited(n)) \subseteq LinksIn(node, Found, n)
<1> SUFFICES ASSUME NEW l \in Required(Visited(n)) PROVE l \in LinksIn(node, Found, n)
  OBVIOUS
<1>0. PICK m \in VisitedIn(node, n) :
        \E e \in node[m].edges : l \in Ends[<<e[1], "last">>] \X Ends[<<e[2], "first">>]
  BY LinksOfIn DEF Required
<1>1. PICK e \in node[m].edges : l \in Ends[<<e[1], "last">>] \X Ends[<<e[2], "first">>]
  BY <1>0
<1>2. e[1] \in Nodes /\ e[2] \in Nodes
  BY VisitedMade DEF MadeOf
<1>3. Found[<<e[1], "tail">>] = Ends[<<e[1], "last">>] /\ Found[<<e[2], "head">>] = Ends[<<e[2], "first">>]
  BY <1>2 DEF Inv, Agrees
<1> QED BY <1>1, <1>3 DEF LinksIn

\* Every job that has been performed came after the jobs it was put behind,
\* for all jobs and whatever is nested in what, as long as no chain begins or
\* ends with another chain.
THEOREM JobsInOrder ==
  ASSUME NestChains = FALSE
  PROVE  Spec => []PerformedInOrder
<1>1. Inv => PerformedInOrder
  <2> SUFFICES ASSUME Inv, mode \in {"stored", "direct"},
                      NEW l \in Required(Visited(top)), l[2] \in done
               PROVE  l[1] \in done
    BY DEF PerformedInOrder
  <2>1. top \in MadeOf(node) /\ links = LinksIn(node, Found, top)
    BY DEF Inv, Delayed
  <2>2. l \in links
    BY <2>1, RequiredIsLinked
  <2> QED BY <2>2 DEF Inv, InOrder
<1> QED BY <1>1, InvAlways, PTL
=============================================================================
