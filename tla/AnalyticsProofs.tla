-------------------------- MODULE AnalyticsProofs ---------------------------
(***************************************************************************)
(* What internal/analytics derives from events, for every set of events and *)
(* all window sizes and survival intervals that the assumptions allow: a   *)
(* hazard table is a chain and a percentile the duration that it is meant  *)
(* to be (ObservationsAddUp), the windows of a size partition the events   *)
(* (WindowsPartitioned), and a demand series loses nothing and bounds its  *)
(* forecasts (SeriesTotal, ForecastsHold, RisksAgree).  HistoryProofs      *)
(* applies these lemmas to the events of the tables.                       *)
(*                                                                         *)
(* The provers take no induction theorem, whose parameter is an operator.  *)
(* What takes its place is that a set of numbers, or of finite sets, that  *)
(* is not empty has a least element: a counterexample has a least one, and *)
(* what is known of the sets below it contradicts it.                      *)
(***************************************************************************)
EXTENDS AnalyticsExport, FiniteSetTheorems, NaturalsInduction, WellFoundedInduction, TLAPS

-----------------------------------------------------------------------------
(* Induction, as the existence of least elements.                          *)

LEMMA LeastNat ==
  ASSUME NEW S, S \subseteq Nat, S # {}
  PROVE  \E n \in S : \A m \in S : n <= m
<1> DEFINE R == OpToRel(<, Nat)
<1>1. IsWellFoundedOn(R, Nat)
  BY NatLessThanWellFounded
<1>2. \A n \in Nat, m \in Nat : n < m => <<n, m>> \in R
  BY DEF OpToRel
<1> HIDE DEF R
<1>3. PICK n \in S : \A m \in S : <<m, n>> \notin R
  BY <1>1, WFMin
<1>4. ASSUME NEW m \in S PROVE n <= m
  <2>1. n \in Nat /\ m \in Nat /\ ~(<<m, n>> \in R)
    BY <1>3
  <2> QED
    BY <1>2, <2>1
<1> QED
  BY <1>4

\* Among subsets of a finite set there is one without a smaller one.
LEMMA LeastSet ==
  ASSUME NEW S, IsFiniteSet(S), NEW B, B \subseteq SUBSET S, B # {}
  PROVE  \E s \in B : \A t \in SUBSET s : t # s => t \notin B
<1> DEFINE N == {n \in Nat : \E s \in B : Cardinality(s) = n}
<1>1. \A s \in B : IsFiniteSet(s) /\ Cardinality(s) \in Nat
  BY FS_Subset, FS_CardinalityType
<1>2. N # {}
  BY <1>1
<1>3. PICK n \in N : \A m \in N : n <= m
  <2> HIDE DEF N
  <2>1. N \subseteq Nat
    BY DEF N
  <2> QED
    BY <1>2, <2>1, LeastNat
<1>4. PICK s \in B : Cardinality(s) = n
  BY <1>3
<1>5. ASSUME NEW t \in SUBSET s, t # s, t \in B PROVE FALSE
  <2>1. Cardinality(t) \in Nat /\ Cardinality(t) \in N
    BY <1>1, <1>5
  <2>2. n <= Cardinality(t) /\ n \in Nat
    BY <1>3, <2>1
  <2>3. Cardinality(t) < Cardinality(s)
    BY <1>1, <1>4, <1>5, FS_Subset
  <2> QED
    BY <1>4, <2>1, <2>2, <2>3
<1> QED
  BY <1>4, <1>5

\* The least element of a finite set of integers, which Min chooses.
LEMMA LeastInt ==
  ASSUME NEW S, IsFiniteSet(S), S \subseteq Int, S # {}
  PROVE  Min(S) \in S /\ \A y \in S : Min(S) <= y
<1> DEFINE Below(x) == {y \in S : y < x}
           B == {Below(x) : x \in S}
<1>1. PICK x \in S : \A t \in SUBSET Below(x) : t # Below(x) => t \notin B
  <2>1. B \subseteq SUBSET S /\ B # {}
    OBVIOUS
  <2>2. \E s \in B : \A t \in SUBSET s : t # s => t \notin B
    <3> HIDE DEF B
    <3> QED
      BY <2>1, LeastSet
  <2> QED
    BY <2>2
<1>2. ASSUME NEW y \in S PROVE x <= y
  <2>1. ASSUME y < x PROVE FALSE
    <3>0. x \in Int /\ y \in Int /\ \A z \in S : z \in Int
      OBVIOUS
    <3>3. \A z \in S : z < y => z < x
      BY <2>1, <3>0
    <3>4. ~(y < y)
      BY <3>0
    <3>1. Below(y) \subseteq Below(x) /\ y \in Below(x) /\ y \notin Below(y)
      BY <2>1, <3>3, <3>4, Zenon
    <3>2. Below(y) \in B
      OBVIOUS
    <3> QED
      BY <1>1, <3>1, <3>2
  <2> QED
    BY <2>1
<1> QED
  BY <1>2 DEF Min

\* And the greatest, which Max chooses.
LEMMA GreatestInt ==
  ASSUME NEW S, IsFiniteSet(S), S \subseteq Int, S # {}
  PROVE  Max(S) \in S /\ \A y \in S : y <= Max(S)
<1> DEFINE Above(x) == {y \in S : x < y}
           B == {Above(x) : x \in S}
<1>1. PICK x \in S : \A t \in SUBSET Above(x) : t # Above(x) => t \notin B
  <2>1. B \subseteq SUBSET S /\ B # {}
    OBVIOUS
  <2>2. \E s \in B : \A t \in SUBSET s : t # s => t \notin B
    <3> HIDE DEF B
    <3> QED
      BY <2>1, LeastSet
  <2> QED
    BY <2>2
<1>2. ASSUME NEW y \in S PROVE y <= x
  <2>1. ASSUME x < y PROVE FALSE
    <3>0. x \in Int /\ y \in Int /\ \A z \in S : z \in Int
      OBVIOUS
    <3>3. \A z \in S : y < z => x < z
      BY <2>1, <3>0
    <3>4. ~(y < y)
      BY <3>0
    <3>1. Above(y) \subseteq Above(x) /\ y \in Above(x) /\ y \notin Above(y)
      BY <2>1, <3>3, <3>4, Zenon
    <3>2. Above(y) \in B
      OBVIOUS
    <3> QED
      BY <1>1, <3>1, <3>2
  <2> QED
    BY <2>1
<1>3. \A y \in S : x >= y
  BY <1>2
<1>4. Max(S) \in S /\ \A y \in S : Max(S) >= y
  BY <1>3 DEF Max
<1> QED
  BY <1>4

-----------------------------------------------------------------------------
(* The sum of f over a finite set: what any order of adding arrives at.    *)

Chosen(s) == CHOOSE x \in s : TRUE

\* c says which element of a set is added last.
IsChoice(c, S) == \A s \in SUBSET S : s # {} => c[s] \in s

\* g adds up f over the subsets of S, in the order of c ...
AddsBy(g, S, c, f) ==
  /\ g[{}] = 0
  /\ \A s \in SUBSET S :
       s # {} /\ g[s \ {c[s]}] \in Int => g[s] = f[c[s]] + g[s \ {c[s]}]

\* ... and in any order.
Adds(g, S, f) ==
  /\ g[{}] = 0
  /\ \A s \in SUBSET S : g[s] \in Int /\ \A x \in s : g[s] = f[x] + g[s \ {x}]

\* What adds up in one order adds up in every order.
LEMMA AnyOrder ==
  ASSUME NEW S, IsFiniteSet(S), NEW c, IsChoice(c, S),
         NEW f, \A x \in S : f[x] \in Int,
         NEW g, AddsBy(g, S, c, f)
  PROVE  Adds(g, S, f)
<1> DEFINE Good(s) == g[s] \in Int /\ \A x \in s : g[s] = f[x] + g[s \ {x}]
           B == {s \in SUBSET S : ~Good(s)}
<1>1. SUFFICES ASSUME B # {} PROVE FALSE
  BY DEF Adds, AddsBy
<1>2. PICK s \in B : \A t \in SUBSET s : t # s => t \notin B
  <2>1. B \subseteq SUBSET S
    OBVIOUS
  <2> HIDE DEF B
  <2> QED
    BY <1>1, <2>1, LeastSet
<1>3. s \in SUBSET S /\ \A t \in SUBSET s : t # s => Good(t)
  BY <1>2
<1>4. s # {}
  <2>1. g[{}] \in Int
    BY DEF AddsBy
  <2> QED
    BY <1>2, <2>1
<1> DEFINE y == c[s]
           t == s \ {y}
<1>5. y \in s
  BY <1>3, <1>4 DEF IsChoice
<1>6. Good(t)
  BY <1>3, <1>5
<1>7. g[s] = f[y] + g[t] /\ g[s] \in Int
  <2>1. g[t] \in Int /\ f[y] \in Int
    BY <1>3, <1>5, <1>6
  <2>2. g[s] = f[y] + g[t]
    BY <1>3, <1>4, <2>1 DEF AddsBy
  <2> QED
    BY <2>1, <2>2
<1>8. ASSUME NEW x \in s, x # y
      PROVE  g[s] = f[x] + g[s \ {x}]
  <2>1. Good(s \ {x}) /\ Good(t \ {x})
    BY <1>3, <1>5, <1>8
  <2>2. x \in t /\ y \in s \ {x} /\ t \ {x} = (s \ {x}) \ {y}
    BY <1>5, <1>8
  <2>3. g[t] = f[x] + g[t \ {x}]
    BY <1>6, <2>2
  <2>4. g[s \ {x}] = f[y] + g[t \ {x}]
    BY <2>1, <2>2
  <2>5. f[x] \in Int /\ f[y] \in Int /\ g[t \ {x}] \in Int
    BY <1>3, <1>5, <2>1
  <2> HIDE DEF t, y, Good
  <2> QED
    BY <1>7, <2>3, <2>4, <2>5
<1>9. Good(s)
  BY <1>7, <1>8
<1> QED
  BY <1>2, <1>9

\* Two functions that agree on a set have the same sum over it.
LEMMA SameAdds ==
  ASSUME NEW S, NEW T \in SUBSET S, IsFiniteSet(S),
         NEW f, NEW e, \A x \in T : f[x] = e[x],
         NEW g, Adds(g, S, f), NEW h, Adds(h, T, e)
  PROVE  g[T] = h[T]
<1> DEFINE B == {s \in SUBSET T : g[s] # h[s]}
<1>1. SUFFICES ASSUME B # {} PROVE FALSE
  OBVIOUS
<1>2. PICK s \in B : \A t \in SUBSET s : t # s => t \notin B
  <2>1. B \subseteq SUBSET T /\ IsFiniteSet(T)
    BY FS_Subset
  <2> HIDE DEF B
  <2> QED
    BY <1>1, <2>1, LeastSet
<1>3. s # {}
  BY <1>2 DEF Adds
<1>4. PICK x \in s : TRUE
  BY <1>3
<1>5. g[s \ {x}] = h[s \ {x}]
  BY <1>2, <1>4
<1>6. g[s] = f[x] + g[s \ {x}] /\ h[s] = e[x] + h[s \ {x}] /\ f[x] = e[x]
  BY <1>2, <1>4 DEF Adds
<1> QED
  BY <1>2, <1>5, <1>6

\* The recursive function that a fold defines.
IsFold(g, S, c, f) ==
  g = [s \in SUBSET S |-> IF s = {} THEN 0 ELSE f[c[s]] + g[s \ {c[s]}]]

\* The recursive function that a fold chooses exists.
LEMMA SumExists ==
  ASSUME NEW S, IsFiniteSet(S), NEW c, IsChoice(c, S),
         NEW f, \A x \in S : f[x] \in Int
  PROVE  \E g \in [SUBSET S -> Int] : IsFold(g, S, c, f)
<1> DEFINE Small(n) == {s \in SUBSET S : Cardinality(s) <= n}
           Step(g, s) == IF s = {} THEN 0 ELSE f[c[s]] + g[s \ {c[s]}]
           Sat(g, n) == g \in [Small(n) -> Int] /\ \A s \in Small(n) : g[s] = Step(g, s)
           N == {n \in Nat : ~\E g : Sat(g, n)}
<1>1. \A s \in SUBSET S : IsFiniteSet(s) /\ Cardinality(s) \in Nat
  BY FS_Subset, FS_CardinalityType
<1>2. ASSUME NEW n \in Nat, n # 0, NEW s \in Small(n), s # {}
      PROVE  s \ {c[s]} \in Small(n - 1) /\ f[c[s]] \in Int
  <2>1. c[s] \in s
    BY <1>2 DEF IsChoice
  <2>2. Cardinality(s \ {c[s]}) = Cardinality(s) - 1
    BY <1>1, <2>1, FS_RemoveElement
  <2>3. Cardinality(s) \in Nat /\ Cardinality(s) <= n
    BY <1>1
  <2>4. Cardinality(s \ {c[s]}) <= n - 1
    BY <2>2, <2>3
  <2> QED
    BY <2>1, <2>4
<1>3. N = {}
  <2> SUFFICES ASSUME N # {} PROVE FALSE
    OBVIOUS
  <2>1. PICK n \in N : \A m \in N : n <= m
    <3>1. N \subseteq Nat
      OBVIOUS
    <3> HIDE DEF N
    <3> QED
      BY <3>1, LeastNat
  <2>2. CASE n = 0
    <3> DEFINE g == [s \in Small(0) |-> 0]
    <3>1. \A s \in Small(0) : s = {}
      <4> SUFFICES ASSUME NEW s \in Small(0) PROVE s = {}
        OBVIOUS
      <4>1. Cardinality(s) = 0
        BY <1>1
      <4> QED
        BY <1>1, <4>1, FS_EmptySet
    <3>2. Sat(g, 0)
      BY <3>1
    <3> QED
      BY <2>1, <2>2, <3>2
  <2>3. CASE n # 0
    <3>1. n - 1 \in Nat /\ n \in Nat /\ ~(n <= n - 1)
      BY <2>3
    <3>2. PICK g : Sat(g, n - 1)
      BY <2>1, <3>1
    <3> DEFINE h == [s \in Small(n) |-> Step(g, s)]
    <3> HIDE DEF Small
    <3>3. \A s \in Small(n) : s # {} => s \ {c[s]} \in Small(n - 1) /\ f[c[s]] \in Int
      BY <1>2, <2>3, <3>1
    <3>4. h \in [Small(n) -> Int]
      <4>1. ASSUME NEW s \in Small(n) PROVE Step(g, s) \in Int
        <5>1. CASE s = {}
          BY <5>1
        <5>2. CASE s # {}
          <6>1. g[s \ {c[s]}] \in Int /\ f[c[s]] \in Int
            BY <3>2, <3>3, <5>2
          <6> QED
            BY <5>2, <6>1
        <5> QED
          BY <5>1, <5>2
      <4> QED
        BY <4>1
    <3>5. \A s \in Small(n - 1) : s \in Small(n)
      BY <1>1, <3>1 DEF Small
    <3>6. \A s \in Small(n - 1) : h[s] = g[s]
      BY <3>2, <3>5
    <3>7. \A s \in Small(n) : h[s] = Step(h, s)
      BY <3>3, <3>6
    <3>8. Sat(h, n)
      BY <3>4, <3>7
    <3> HIDE DEF h, Sat
    <3> QED
      BY <2>1, <3>8
  <2> QED
    BY <2>2, <2>3
<1>4. PICK g : Sat(g, Cardinality(S))
  BY <1>1, <1>3
<1>5. Small(Cardinality(S)) = SUBSET S
  BY FS_Subset
<1>6. g \in [SUBSET S -> Int] /\ \A s \in SUBSET S : g[s] = Step(g, s)
  BY <1>4, <1>5
<1>7. g = [s \in SUBSET S |-> Step(g, s)]
  BY <1>6
<1>8. IsFold(g, S, c, f)
  BY <1>7 DEF IsFold
<1> QED
  BY <1>6, <1>8

SumF(S, f) == (CHOOSE g : Adds(g, S, f))[S]

\* There is a sum, and SumF is the one.
LEMMA AddsExists ==
  ASSUME NEW S, IsFiniteSet(S), NEW f, \A x \in S : f[x] \in Int
  PROVE  \E g : Adds(g, S, f) /\ g[S] = SumF(S, f)
<1> DEFINE c == [s \in SUBSET S |-> Chosen(s)]
<1>1. IsChoice(c, S)
  BY DEF IsChoice, Chosen
<1> HIDE DEF c
<1>2. PICK g \in [SUBSET S -> Int] : IsFold(g, S, c, f)
  BY <1>1, SumExists
<1>3. AddsBy(g, S, c, f)
  BY <1>2 DEF AddsBy, IsFold
<1>4. Adds(g, S, f)
  BY <1>1, <1>3, AnyOrder
<1> DEFINE h == CHOOSE h : Adds(h, S, f)
<1>5. Adds(h, S, f) /\ h[S] = SumF(S, f)
  BY <1>4 DEF SumF
<1> QED
  BY <1>5

\* Whatever adds up f over S arrives at its sum.
LEMMA SumIs ==
  ASSUME NEW S, IsFiniteSet(S), NEW f, \A x \in S : f[x] \in Int,
         NEW g, Adds(g, S, f), NEW T \in SUBSET S
  PROVE  g[T] = SumF(T, f) /\ SumF(T, f) \in Int
<1>1. IsFiniteSet(T)
  BY FS_Subset
<1>2. PICK h : Adds(h, T, f) /\ h[T] = SumF(T, f)
  BY <1>1, AddsExists
<1>3. g[T] = h[T]
  BY <1>2, SameAdds
<1>4. g[T] \in Int
  BY DEF Adds
<1> QED
  BY <1>2, <1>3, <1>4

\* The sum over the empty set, with an element taken out, with one put in.
LEMMA SumEmpty ==
  ASSUME NEW f
  PROVE  SumF({}, f) = 0
<1>1. IsFiniteSet({}) /\ \A x \in {} : f[x] \in Int
  BY FS_EmptySet
<1>2. PICK g : Adds(g, {}, f) /\ g[{}] = SumF({}, f)
  BY <1>1, AddsExists
<1> QED
  BY <1>2 DEF Adds

LEMMA SumRemove ==
  ASSUME NEW S, IsFiniteSet(S), NEW f, \A x \in S : f[x] \in Int
  PROVE  /\ SumF(S, f) \in Int
         /\ \A x \in S : SumF(S, f) = f[x] + SumF(S \ {x}, f)
<1>1. PICK g : Adds(g, S, f) /\ g[S] = SumF(S, f)
  BY AddsExists
<1>2. SumF(S, f) \in Int
  BY <1>1 DEF Adds
<1>3. ASSUME NEW x \in S PROVE SumF(S, f) = f[x] + SumF(S \ {x}, f)
  <2>1. g[S] = f[x] + g[S \ {x}]
    BY <1>1 DEF Adds
  <2>2. g[S \ {x}] = SumF(S \ {x}, f)
    BY <1>1, SumIs
  <2> QED
    BY <1>1, <2>1, <2>2
<1> QED
  BY <1>2, <1>3

LEMMA SumAdd ==
  ASSUME NEW S, IsFiniteSet(S), NEW y, y \notin S,
         NEW f, \A x \in S \cup {y} : f[x] \in Int
  PROVE  SumF(S \cup {y}, f) = f[y] + SumF(S, f)
<1>1. IsFiniteSet(S \cup {y}) /\ (S \cup {y}) \ {y} = S
  BY FS_AddElement
<1> QED
  BY <1>1, SumRemove

\* Two functions that agree on a set have the same sum over it.
LEMMA SumSame ==
  ASSUME NEW S, IsFiniteSet(S), NEW f, NEW e,
         \A x \in S : f[x] \in Int /\ f[x] = e[x]
  PROVE  SumF(S, f) = SumF(S, e)
<1>1. PICK g : Adds(g, S, f) /\ g[S] = SumF(S, f)
  BY AddsExists
<1>2. PICK h : Adds(h, S, e) /\ h[S] = SumF(S, e)
  BY AddsExists
<1> QED
  BY <1>1, <1>2, SameAdds

\* The sum over a part of a set is that of the set less the rest.
LEMMA SumUnion ==
  ASSUME NEW S, IsFiniteSet(S), NEW T, IsFiniteSet(T), S \cap T = {},
         NEW f, \A x \in S \cup T : f[x] \in Int
  PROVE  SumF(S \cup T, f) = SumF(S, f) + SumF(T, f)
<1> DEFINE B == {s \in SUBSET S : SumF(s \cup T, f) # SumF(s, f) + SumF(T, f)}
<1>0. SumF(T, f) \in Int
  BY SumRemove
<1>1. SUFFICES ASSUME B # {} PROVE FALSE
  <2>1. S \notin B => SumF(S \cup T, f) = SumF(S, f) + SumF(T, f)
    BY SMT
  <2> QED
    BY <2>1
<1>2. PICK s \in B : \A t \in SUBSET s : t # s => t \notin B
  <2>1. B \subseteq SUBSET S
    OBVIOUS
  <2> HIDE DEF B
  <2> QED
    BY <1>1, <2>1, LeastSet
<1>3. s \in SUBSET S /\ IsFiniteSet(s)
  BY <1>2, FS_Subset
<1>4. CASE s = {}
  <2>1. s \cup T = T
    BY <1>4
  <2>2. SumF(s \cup T, f) = SumF(s, f) + SumF(T, f)
    BY <1>0, <1>4, <2>1, SumEmpty
  <2> QED
    BY <1>2, <2>2
<1>5. CASE s # {}
  <2>1. PICK x \in s : TRUE
    BY <1>5
  <2> DEFINE t == s \ {x}
  <2>2. SumF(t \cup T, f) = SumF(t, f) + SumF(T, f)
    BY <1>2, <1>3, <2>1
  <2>3. IsFiniteSet(t) /\ IsFiniteSet(t \cup T) /\ x \notin t \cup T
    BY <1>3, <2>1, FS_RemoveElement, FS_Union
  <2>4. s = t \cup {x} /\ s \cup T = (t \cup T) \cup {x}
    BY <2>1
  <2>5. /\ \A z \in t \cup {x} : f[z] \in Int
        /\ \A z \in (t \cup T) \cup {x} : f[z] \in Int
        /\ f[x] \in Int /\ x \notin t
    BY <1>3, <2>1
  <2>6. SumF(t, f) \in Int
    BY <2>3, <2>5, SumRemove
  <2> HIDE DEF t
  <2>7. SumF(s, f) = f[x] + SumF(t, f)
    BY <2>3, <2>4, <2>5, SumAdd
  <2>8. SumF(s \cup T, f) = f[x] + SumF(t \cup T, f)
    BY <2>3, <2>4, <2>5, SumAdd
  <2>9. SumF(s \cup T, f) = SumF(s, f) + SumF(T, f)
    BY <1>0, <2>2, <2>5, <2>6, <2>7, <2>8
  <2> QED
    BY <1>2, <2>9
<1> QED
  BY <1>4, <1>5

\* A sum over disjoint sets is the sum of their sums.
LEMMA SumOfSums ==
  ASSUME NEW W, IsFiniteSet(W), NEW E, \A w \in W : IsFiniteSet(E[w]),
         \A v \in W : \A w \in W : v # w => E[v] \cap E[w] = {},
         NEW f, \A w \in W : \A x \in E[w] : f[x] \in Int,
         NEW e, \A w \in W : e[w] = SumF(E[w], f)
  PROVE  SumF(W, e) = SumF(UNION {E[w] : w \in W}, f)
<1> DEFINE All(s) == UNION {E[w] : w \in s}
           B == {s \in SUBSET W : SumF(s, e) # SumF(All(s), f)}
<1>0. \A w \in W : e[w] \in Int
  BY SumRemove
<1>1. SUFFICES ASSUME B # {} PROVE FALSE
  <2>1. W \notin B => SumF(W, e) = SumF(All(W), f)
    BY SMT
  <2> QED
    BY <2>1
<1>2. PICK s \in B : \A t \in SUBSET s : t # s => t \notin B
  <2>1. B \subseteq SUBSET W
    OBVIOUS
  <2> HIDE DEF B
  <2> QED
    BY <1>1, <2>1, LeastSet
<1>3. s \in SUBSET W /\ IsFiniteSet(s)
  BY <1>2, FS_Subset
<1>4. CASE s = {}
  <2>1. All(s) = {}
    BY <1>4
  <2>2. SumF(s, e) = SumF(All(s), f)
    BY <1>4, <2>1, SumEmpty
  <2> QED
    BY <1>2, <2>2
<1>5. CASE s # {}
  <2>1. PICK w \in s : TRUE
    BY <1>5
  <2> DEFINE t == s \ {w}
  <2>2. SumF(t, e) = SumF(All(t), f)
    BY <1>2, <1>3, <2>1
  <2>3. IsFiniteSet(All(t)) /\ IsFiniteSet(E[w]) /\ w \in W
    <3>1. \A v \in t : IsFiniteSet(E[v])
      BY <1>3
    <3>2. IsFiniteSet({E[v] : v \in t})
      <4>1. IsFiniteSet(t)
        BY <1>3, FS_RemoveElement
      <4> DEFINE img == [v \in t |-> E[v]]
      <4>2. img \in Surjection(t, {E[v] : v \in t})
        BY DEF Surjection
      <4> QED
        BY <4>1, <4>2, FS_Surjection
    <3>3. \A T \in {E[v] : v \in t} : IsFiniteSet(T)
      BY <3>1
    <3> QED
      BY <1>3, <2>1, <3>2, <3>3, FS_UNION
  <2>4. All(s) = All(t) \cup E[w] /\ All(t) \cap E[w] = {}
    BY <1>3, <2>1
  <2>5. \A x \in All(t) \cup E[w] : f[x] \in Int
    BY <1>3, <2>1
  <2>6. SumF(All(s), f) = SumF(All(t), f) + SumF(E[w], f)
    <3> DEFINE p == All(t)
               q == E[w]
    <3>1. IsFiniteSet(p) /\ IsFiniteSet(q) /\ p \cap q = {} /\ \A x \in p \cup q : f[x] \in Int
      BY <2>3, <2>4, <2>5
    <3>2. SumF(p \cup q, f) = SumF(p, f) + SumF(q, f)
      <4> HIDE DEF p, q
      <4> QED
        BY <3>1, SumUnion
    <3> QED
      BY <2>4, <3>2
  <2>7. SumF(s, e) = e[w] + SumF(t, e) /\ SumF(t, e) \in Int
    <3>1. \A v \in s : e[v] \in Int
      BY <1>0, <1>3
    <3>2. IsFiniteSet(t) /\ \A v \in t : e[v] \in Int
      BY <1>3, <3>1, FS_RemoveElement
    <3> QED
      BY <1>3, <2>1, <3>1, <3>2, SumRemove
  <2>8. e[w] = SumF(E[w], f) /\ e[w] \in Int
    BY <1>0, <2>3
  <2>9. SumF(s, e) = SumF(All(s), f)
    <3> HIDE DEF t, All
    <3> QED
      BY <2>2, <2>6, <2>7, <2>8
  <2> QED
    BY <1>2, <2>9
<1> QED
  BY <1>4, <1>5

\* Ones add up to the number of elements,
LEMMA SumOnes ==
  ASSUME NEW S, IsFiniteSet(S), NEW f, \A x \in S : f[x] = 1
  PROVE  SumF(S, f) = Cardinality(S)
<1> DEFINE g == [s \in SUBSET S |-> Cardinality(s)]
<1>1. \A s \in SUBSET S : IsFiniteSet(s) /\ Cardinality(s) \in Nat
  BY FS_Subset, FS_CardinalityType
<1>2. \A s \in SUBSET S : \A x \in s : Cardinality(s \ {x}) = Cardinality(s) - 1
  BY <1>1, FS_RemoveElement
<1>3. g[{}] = 0
  BY FS_EmptySet
<1>4. Adds(g, S, f)
  <2>1. ASSUME NEW s \in SUBSET S, NEW x \in s
        PROVE  g[s] = f[x] + g[s \ {x}]
    <3>1. g[s \ {x}] = Cardinality(s) - 1 /\ g[s] = Cardinality(s) /\ f[x] = 1
      BY <1>2
    <3>2. Cardinality(s) \in Nat
      BY <1>1
    <3> HIDE DEF g
    <3> QED
      BY <3>1, <3>2
  <2>2. \A s \in SUBSET S : g[s] \in Int
    BY <1>1
  <2> HIDE DEF g
  <2> QED
    BY <1>3, <2>1, <2>2 DEF Adds
<1>5. \A x \in S : f[x] \in Int
  OBVIOUS
<1> HIDE DEF g
<1>6. g[S] = SumF(S, f)
  BY <1>4, <1>5, SumIs
<1> QED
  BY <1>6 DEF g

\* How many there are in all of several disjoint sets.
LEMMA SumCardinalities ==
  ASSUME NEW W, IsFiniteSet(W), NEW E, \A w \in W : IsFiniteSet(E[w]),
         \A v \in W : \A w \in W : v # w => E[v] \cap E[w] = {},
         NEW S, IsFiniteSet(S), S = UNION {E[w] : w \in W},
         NEW e, \A w \in W : e[w] = Cardinality(E[w])
  PROVE  SumF(W, e) = Cardinality(S)
<1> DEFINE f == [x \in S |-> 1]
<1>1. \A w \in W : E[w] \subseteq S
  OBVIOUS
<1>2. \A w \in W : \A x \in E[w] : f[x] = 1
  BY <1>1
<1>3. \A x \in S : f[x] = 1
  OBVIOUS
<1> HIDE DEF f
<1>4. \A w \in W : e[w] = SumF(E[w], f)
  BY <1>2, SumOnes
<1>5. \A w \in W : \A x \in E[w] : f[x] \in Int
  BY <1>2
<1>6. SumF(W, e) = SumF(S, f)
  BY <1>4, <1>5, SumOfSums
<1> QED
  BY <1>3, <1>6, SumOnes

\* A sum lies between multiples of a lower and of an upper bound.
LEMMA SumBounds ==
  ASSUME NEW S, IsFiniteSet(S), NEW low \in Int, NEW high \in Int,
         NEW f, \A x \in S : f[x] \in Int /\ low <= f[x] /\ f[x] <= high
  PROVE  low * Cardinality(S) <= SumF(S, f) /\ SumF(S, f) <= high * Cardinality(S)
<1> DEFINE InBounds(s) == /\ low * Cardinality(s) <= SumF(s, f)
                          /\ SumF(s, f) <= high * Cardinality(s)
           B == {s \in SUBSET S : ~InBounds(s)}
<1>1. SUFFICES ASSUME B # {} PROVE FALSE
  <2>1. S \notin B => InBounds(S)
    BY SMT
  <2> QED
    BY <2>1
<1>2. PICK s \in B : \A t \in SUBSET s : t # s => t \notin B
  <2>1. B \subseteq SUBSET S
    OBVIOUS
  <2> HIDE DEF B
  <2> QED
    BY <1>1, <2>1, LeastSet
<1>3. s \in SUBSET S /\ IsFiniteSet(s)
  BY <1>2, FS_Subset
<1>4. CASE s = {}
  <2>1. SumF(s, f) = 0 /\ Cardinality(s) = 0
    BY <1>4, SumEmpty, FS_EmptySet
  <2>2. InBounds(s)
    BY <2>1
  <2> QED
    BY <1>2, <2>2
<1>5. CASE s # {}
  <2>1. PICK x \in s : TRUE
    BY <1>5
  <2> DEFINE t == s \ {x}
             n == Cardinality(t)
  <2>2. InBounds(t)
    BY <1>2, <1>3, <2>1
  <2>3. IsFiniteSet(t) /\ n \in Nat /\ Cardinality(s) = n + 1
    <3>1. IsFiniteSet(t) /\ n = Cardinality(s) - 1 /\ Cardinality(s) \in Nat
      BY <1>3, <2>1, FS_RemoveElement, FS_CardinalityType
    <3>2. n \in Nat
      BY <3>1, FS_CardinalityType
    <3> HIDE DEF t, n
    <3> QED
      BY <3>1, <3>2
  <2>4. SumF(s, f) = f[x] + SumF(t, f) /\ SumF(t, f) \in Int
    <3>1. /\ \A z \in s : f[z] \in Int
          /\ \A z \in t : f[z] \in Int
      BY <1>3
    <3> QED
      BY <1>3, <2>1, <2>3, <3>1, SumRemove
  <2>5. f[x] \in Int /\ low <= f[x] /\ f[x] <= high
    BY <1>3, <2>1
  <2>6. low * n <= SumF(t, f) /\ SumF(t, f) <= high * n
    BY <2>2
  <2> HIDE DEF t, n
  <2>7. low * (n + 1) = low * n + low /\ high * (n + 1) = high * n + high
    BY <2>3
  <2>8. low * n \in Int /\ high * n \in Int
    BY <2>3
  <2>9. InBounds(s)
    BY <2>3, <2>4, <2>5, <2>6, <2>7, <2>8
  <2> QED
    BY <1>2, <2>9
<1> QED
  BY <1>4, <1>5

\* The recursive function behind MapThenSumSet.
FoldOf(g, S, f) ==
  [s \in SUBSET S |-> IF s = {} THEN 0 ELSE f[Chosen(s)] + g[s \ {Chosen(s)}]]

\* MapThenSumSet adds an element that it chooses to the sum of the rest: it is SumF.
LEMMA ChosenFold ==
  ASSUME NEW S, IsFiniteSet(S), NEW f, \A x \in S : f[x] \in Int
  PROVE  /\ \A s \in SUBSET S : s # {} => Chosen(s) \in S
         /\ \E g : g = FoldOf(g, S, f)
         /\ \A g : g = FoldOf(g, S, f) => g[S] = SumF(S, f)
<1> DEFINE c == [s \in SUBSET S |-> Chosen(s)]
<1>1. \A s \in SUBSET S : s # {} => Chosen(s) \in s
  BY DEF Chosen
<1>2. IsChoice(c, S)
  BY <1>1 DEF IsChoice
<1>3. \A g : IsFold(g, S, c, f) <=> g = FoldOf(g, S, f)
  BY DEF IsFold, FoldOf
<1> HIDE DEF c
<1>4. \E g : g = FoldOf(g, S, f)
  BY <1>2, <1>3, SumExists
<1>5. ASSUME NEW g, g = FoldOf(g, S, f) PROVE g[S] = SumF(S, f)
  <2>1. AddsBy(g, S, c, f)
    BY <1>3, <1>5 DEF IsFold, AddsBy
  <2>2. Adds(g, S, f)
    BY <1>2, <2>1, AnyOrder
  <2>3. S \in SUBSET S
    OBVIOUS
  <2> QED
    BY <2>2, <2>3, SumIs
<1> QED
  BY <1>1, <1>4, <1>5

-----------------------------------------------------------------------------
(* Folds over a sequence.                                                  *)

\* The folds of the model are sums.
LEMMA FoldIsSum ==
  ASSUME NEW seq, NEW n \in Nat, DOMAIN seq = 1 .. n, \A i \in 1 .. n : seq[i] \in Int
  PROVE  Total(seq) = SumF(1 .. n, seq) /\ Total(seq) \in Int
<1> DEFINE D == DOMAIN seq
           c == [s \in SUBSET D |-> Max(s)]
           R(g) == [s \in SUBSET D |-> IF s = {} THEN 0 ELSE g[s \ {Max(s)}] + seq[Max(s)]]
           h == CHOOSE g : g = R(g)
<1>1. IsFiniteSet(D) /\ \A i \in D : seq[i] \in Int
  BY FS_Interval
<1>2. \A s \in SUBSET D : s # {} => Max(s) \in s
  <2>1. ASSUME NEW s \in SUBSET D, s # {} PROVE Max(s) \in s
    <3>1. IsFiniteSet(s) /\ s \subseteq Int
      BY <1>1, FS_Subset
    <3> QED
      BY <2>1, <3>1, GreatestInt
  <2> QED
    BY <2>1
<1>3. IsChoice(c, D)
  BY <1>2 DEF IsChoice
<1>4. PICK g \in [SUBSET D -> Int] : IsFold(g, D, c, seq)
  <2> HIDE DEF c, D
  <2> QED
    BY <1>1, <1>3, SumExists
<1>5. \A s \in SUBSET D : s # {} => /\ g[s] = seq[Max(s)] + g[s \ {Max(s)}]
                                    /\ g[s \ {Max(s)}] \in Int /\ seq[Max(s)] \in Int
  BY <1>1, <1>2, <1>4 DEF IsFold
<1>6. g[{}] = 0
  BY <1>4 DEF IsFold
<1>7. g = R(g)
  <2>1. ASSUME NEW s \in SUBSET D PROVE g[s] = R(g)[s]
    <3>1. CASE s = {}
      BY <1>6, <3>1
    <3>2. CASE s # {}
      <4>1. g[s] = g[s \ {Max(s)}] + seq[Max(s)]
        BY <1>5, <3>2
      <4> QED
        BY <3>2, <4>1
    <3> QED
      BY <3>1, <3>2
  <2> QED
    BY <1>4, <2>1
<1>8. h = R(h)
  BY <1>7
<1>9. Total(seq) = h[D]
  BY DEF Total, FoldLeft, MapThenFoldSet
<1> HIDE DEF h
<1>10. AddsBy(h, D, c, seq)
  <2>1. h[{}] = 0
    BY <1>8
  <2>2. ASSUME NEW s \in SUBSET D, s # {}, h[s \ {Max(s)}] \in Int
        PROVE  h[s] = seq[Max(s)] + h[s \ {Max(s)}]
    <3>1. h[s] = h[s \ {Max(s)}] + seq[Max(s)]
      BY <1>8, <2>2
    <3> QED
      BY <1>5, <2>2, <3>1
  <2> QED
    BY <2>1, <2>2 DEF AddsBy
<1> HIDE DEF c, D
<1>11. Adds(h, D, seq)
  BY <1>1, <1>3, <1>10, AnyOrder
<1>12. h[D] = SumF(D, seq) /\ SumF(D, seq) \in Int
  BY <1>1, <1>11, SumIs
<1> QED
  BY <1>9, <1>12 DEF D

\* The events of a hazard table are added by FoldLeft.
LEMMA EventsIsSum ==
  ASSUME NEW table, NEW n \in Nat, DOMAIN table = 1 .. n,
         \A i \in 1 .. n : table[i].events \in Int
  PROVE  FoldLeft(LAMBDA m, b : m + b.events, 0, table) =
           SumF(1 .. n, [i \in 1 .. n |-> table[i].events])
<1> DEFINE D == DOMAIN table
           f == [i \in 1 .. n |-> table[i].events]
           c == [s \in SUBSET D |-> Max(s)]
           R(g) == [s \in SUBSET D |->
                      IF s = {} THEN 0 ELSE g[s \ {Max(s)}] + table[Max(s)].events]
           h == CHOOSE g : g = R(g)
<1>1. IsFiniteSet(D) /\ \A i \in D : f[i] \in Int /\ f[i] = table[i].events
  <2>1. IsFiniteSet(1 .. n)
    BY FS_Interval
  <2>2. \A i \in 1 .. n : f[i] = table[i].events
    OBVIOUS
  <2> QED
    BY <2>1, <2>2
<1>2. \A s \in SUBSET D : s # {} => Max(s) \in s
  <2>1. ASSUME NEW s \in SUBSET D, s # {} PROVE Max(s) \in s
    <3>1. IsFiniteSet(s) /\ s \subseteq Int
      BY <1>1, FS_Subset
    <3> QED
      BY <2>1, <3>1, GreatestInt
  <2> QED
    BY <2>1
<1> HIDE DEF f
<1>3. IsChoice(c, D)
  BY <1>2 DEF IsChoice
<1>4. PICK g \in [SUBSET D -> Int] : IsFold(g, D, c, f)
  <2> HIDE DEF c, D
  <2> QED
    BY <1>1, <1>3, SumExists
<1>5. \A s \in SUBSET D : s # {} => /\ g[s] = table[Max(s)].events + g[s \ {Max(s)}]
                                    /\ g[s \ {Max(s)}] \in Int
                                    /\ table[Max(s)].events \in Int
                                    /\ f[Max(s)] = table[Max(s)].events
  BY <1>1, <1>2, <1>4 DEF IsFold
<1>6. g[{}] = 0
  BY <1>4 DEF IsFold
<1>7. g = R(g)
  <2>1. ASSUME NEW s \in SUBSET D PROVE g[s] = R(g)[s]
    <3>1. CASE s = {}
      BY <1>6, <3>1
    <3>2. CASE s # {}
      <4>1. g[s] = g[s \ {Max(s)}] + table[Max(s)].events
        BY <1>5, <3>2
      <4> QED
        BY <3>2, <4>1
    <3> QED
      BY <3>1, <3>2
  <2> QED
    BY <1>4, <2>1
<1>8. h = R(h)
  BY <1>7
<1>9. FoldLeft(LAMBDA m, b : m + b.events, 0, table) = h[D]
  BY DEF FoldLeft, MapThenFoldSet
<1> HIDE DEF h
<1>10. AddsBy(h, D, c, f)
  <2>1. h[{}] = 0
    BY <1>8
  <2>2. ASSUME NEW s \in SUBSET D, s # {}, h[s \ {Max(s)}] \in Int
        PROVE  h[s] = f[Max(s)] + h[s \ {Max(s)}]
    <3>1. h[s] = h[s \ {Max(s)}] + table[Max(s)].events
      BY <1>8, <2>2
    <3>2. f[Max(s)] = table[Max(s)].events /\ table[Max(s)].events \in Int
      BY <1>5, <2>2
    <3> QED
      BY <2>2, <3>1, <3>2
  <2> QED
    BY <2>1, <2>2 DEF AddsBy
<1> HIDE DEF c, D
<1>11. Adds(h, D, f)
  BY <1>1, <1>3, <1>10, AnyOrder
<1>12. h[D] = SumF(D, f)
  BY <1>1, <1>11, SumIs
<1> QED
  BY <1>9, <1>12 DEF D, f

-----------------------------------------------------------------------------
(* Survival: the intervals and the hazard table.                           *)

GoodObservations(obs) ==
  /\ IsFiniteSet(DOMAIN obs)
  /\ \A k \in DOMAIN obs : obs[k].duration \in Nat /\ obs[k].observed \in BOOLEAN

Final == Len(Intervals)

\* What IntervalAssumption says of each interval.
LEMMA IntervalFacts ==
  /\ Final \in Nat /\ Final >= 1 /\ DOMAIN Intervals = 1 .. Final
  /\ \A i \in 1 .. Final : Intervals[i].from \in Nat /\ Intervals[i].to \in Nat
  /\ Intervals[1].from = 0 /\ Intervals[Final].to = 0
  /\ \A i \in 1 .. Final : i # Final =>
       /\ i + 1 \in 1 .. Final /\ Intervals[i].to # 0
       /\ Intervals[i].from < Intervals[i].to
       /\ Intervals[i].to = Intervals[i + 1].from
<1>1. Final \in Nat /\ DOMAIN Intervals = 1 .. Final /\ Final >= 1
  BY IntervalAssumption DEF Final
<1>2. \A i \in 1 .. Final : Intervals[i].from \in Nat /\ Intervals[i].to \in Nat
  <2> DEFINE R == [from : Nat, to : Nat]
  <2>0. Intervals \in Seq(R)
    BY IntervalAssumption
  <2>1. ASSUME NEW i \in 1 .. Final PROVE Intervals[i] \in R
    <3> HIDE DEF R
    <3> QED
      BY <2>0, <1>1 DEF Final
  <2> QED
    BY <2>1
<1>3. ASSUME NEW i \in 1 .. Final, i # Final
      PROVE  /\ i + 1 \in 1 .. Final /\ Intervals[i].to # 0
             /\ Intervals[i].from < Intervals[i].to
             /\ Intervals[i].to = Intervals[i + 1].from
  <2>1. i \in 1 .. Final - 1 /\ i + 1 \in 1 .. Final
    BY <1>1, <1>3
  <2>2. Intervals[i].from < Intervals[i].to /\ Intervals[i].to = Intervals[i + 1].from
    BY IntervalAssumption, <2>1 DEF Final
  <2> QED
    BY <1>2, <2>1, <2>2
<1> QED
  BY <1>1, <1>2, <1>3, IntervalAssumption DEF Final

\* An interval ends before every later one begins.
LEMMA IntervalsAscend ==
  ASSUME NEW i \in 1 .. Final, NEW j \in 1 .. Final, i < j
  PROVE  Intervals[i].to # 0 /\ Intervals[i].to <= Intervals[j].from
<1> DEFINE B == {k \in 1 .. Final : i < k /\ ~(Intervals[i].to <= Intervals[k].from)}
<1>1. Final \in Nat /\ i \in Nat /\ i # Final
  BY IntervalFacts
<1>2. ASSUME B # {} PROVE FALSE
  <2>1. PICK k \in B : \A m \in B : k <= m
    <3>1. B \subseteq Nat
      OBVIOUS
    <3> HIDE DEF B
    <3> QED
      BY <1>2, <3>1, LeastNat
  <2>2. k \in 1 .. Final /\ i < k /\ ~(Intervals[i].to <= Intervals[k].from)
    OBVIOUS
  <2>3. k # i + 1
    BY <1>1, <2>2, IntervalFacts
  <2> DEFINE m == k - 1
  <2>4. m \in 1 .. Final /\ i < m /\ m # Final /\ m + 1 = k /\ ~(k <= m)
    BY <1>1, <2>2, <2>3
  <2>5. m \notin B
    BY <2>1, <2>4
  <2>6. Intervals[i].to <= Intervals[m].from
    BY <2>4, <2>5
  <2>7. Intervals[m].from < Intervals[k].from
    BY <2>4, IntervalFacts
  <2>8. Intervals[i].to \in Nat /\ Intervals[m].from \in Nat /\ Intervals[k].from \in Nat
    BY <2>2, <2>4, IntervalFacts
  <2> QED
    BY <2>2, <2>6, <2>7, <2>8
<1> QED
  BY <1>1, <1>2, IntervalFacts

\* Every duration is in exactly one interval.
LEMMA OneInterval ==
  ASSUME NEW d \in Nat
  PROVE  /\ \E i \in 1 .. Final : Within(d, Intervals[i])
         /\ \A i \in 1 .. Final : \A j \in 1 .. Final :
              i # j => ~(Within(d, Intervals[i]) /\ Within(d, Intervals[j]))
<1>1. \E i \in 1 .. Final : Within(d, Intervals[i])
  <2> DEFINE S == {i \in 1 .. Final : Intervals[i].from <= d}
  <2>1. 1 \in S
    BY IntervalFacts
  <2>2. IsFiniteSet(S) /\ S \subseteq Int
    <3>1. IsFiniteSet(1 .. Final) /\ S \in SUBSET (1 .. Final)
      BY IntervalFacts, FS_Interval
    <3>2. S \subseteq Int
      OBVIOUS
    <3> HIDE DEF S
    <3> QED
      BY <3>1, <3>2, FS_Subset
  <2>3. PICK i \in S : \A j \in S : j <= i
    <3> HIDE DEF S
    <3> QED
      BY <2>1, <2>2, GreatestInt
  <2>4. i \in 1 .. Final /\ Intervals[i].from <= d
    OBVIOUS
  <2>5. CASE i = Final
    BY <2>4, <2>5, IntervalFacts DEF Within
  <2>6. CASE i # Final
    <3>1. i + 1 \in 1 .. Final /\ ~(i + 1 <= i) /\ Intervals[i].to = Intervals[i + 1].from
      BY <2>4, <2>6, IntervalFacts
    <3>2. ~(Intervals[i + 1].from <= d)
      BY <2>3, <3>1
    <3>3. d < Intervals[i].to
      BY <2>4, <3>1, <3>2, IntervalFacts
    <3> QED
      BY <2>4, <3>3, IntervalFacts DEF Within
  <2> QED
    BY <2>5, <2>6
<1>2. ASSUME NEW i \in 1 .. Final, NEW j \in 1 .. Final, i < j
      PROVE  ~(Within(d, Intervals[i]) /\ Within(d, Intervals[j]))
  <2>1. Intervals[i].to # 0 /\ Intervals[i].to <= Intervals[j].from
    BY <1>2, IntervalsAscend
  <2>2. Intervals[i].to \in Nat /\ Intervals[j].from \in Nat
    BY IntervalFacts
  <2> QED
    BY <2>1, <2>2 DEF Within
<1>3. ASSUME NEW i \in 1 .. Final, NEW j \in 1 .. Final, i # j
      PROVE  ~(Within(d, Intervals[i]) /\ Within(d, Intervals[j]))
  <2>1. CASE i < j
    BY <1>2, <2>1
  <2>2. CASE j < i
    BY <1>2, <2>2
  <2> QED
    BY <1>3, <2>1, <2>2, IntervalFacts
<1> QED
  BY <1>1, <1>3

\* The elements of two sets that have none in common.
LEMMA DisjointUnion ==
  ASSUME NEW S, IsFiniteSet(S), NEW T, IsFiniteSet(T), S \cap T = {}
  PROVE  /\ IsFiniteSet(S \cup T)
         /\ Cardinality(S \cup T) = Cardinality(S) + Cardinality(T)
         /\ Cardinality(S) \in Nat /\ Cardinality(T) \in Nat
<1>1. Cardinality(S) \in Nat /\ Cardinality(T) \in Nat
  BY FS_CardinalityType
<1>2. Cardinality(S \cap T) = 0
  BY FS_EmptySet
<1>3. /\ IsFiniteSet(S \cup T)
      /\ Cardinality(S \cup T) = Cardinality(S) + Cardinality(T) - Cardinality(S \cap T)
  BY FS_Union
<1> QED
  BY <1>1, <1>2, <1>3

\* The hazard table of observations.
LEMMA TableIsChain ==
  ASSUME NEW obs, GoodObservations(obs)
  PROVE  IsChain(Analysis(obs))
<1> DEFINE K == DOMAIN obs
           Observed == {k \in K : obs[k].observed}
           AtRisk(i) == {k \in K : obs[k].duration >= Intervals[i].from}
           In(i) == {k \in K : Within(obs[k].duration, Intervals[i])}
           Happened(i) == {k \in In(i) : obs[k].observed}
           Censored(i) == {k \in In(i) : ~obs[k].observed}
           table == HazardTable(obs)
<1>1. IsFiniteSet(K) /\ \A k \in K : obs[k].duration \in Nat
  BY DEF GoodObservations
<1>2. \A i \in 1 .. Final :
        /\ IsFiniteSet(AtRisk(i)) /\ IsFiniteSet(In(i))
        /\ IsFiniteSet(Happened(i)) /\ IsFiniteSet(Censored(i))
  BY <1>1, FS_Subset
<1>3. DOMAIN table = 1 .. Final
  BY IntervalFacts DEF HazardTable
<1>4. \A i \in 1 .. Final : /\ table[i].atRisk = Cardinality(AtRisk(i))
                           /\ table[i].events = Cardinality(Happened(i))
                           /\ table[i].censored = Cardinality(Censored(i))
  BY IntervalFacts DEF HazardTable
<1>5. \A i \in 1 .. Final : Cardinality(Happened(i)) + Cardinality(Censored(i)) = Cardinality(In(i))
  <2> SUFFICES ASSUME NEW i \in 1 .. Final
               PROVE  Cardinality(Happened(i)) + Cardinality(Censored(i)) = Cardinality(In(i))
    OBVIOUS
  <2>1. Happened(i) \cup Censored(i) = In(i) /\ Happened(i) \cap Censored(i) = {}
    OBVIOUS
  <2>2. IsFiniteSet(Happened(i)) /\ IsFiniteSet(Censored(i))
    BY <1>2
  <2> DEFINE p == Happened(i)
             q == Censored(i)
  <2>3. IsFiniteSet(p) /\ IsFiniteSet(q) /\ p \cap q = {}
    BY <2>1, <2>2
  <2>4. Cardinality(p \cup q) = Cardinality(p) + Cardinality(q)
    <3> HIDE DEF p, q
    <3> QED
      BY <2>3, DisjointUnion
  <2> HIDE DEF Happened, Censored, In
  <2> QED
    BY <2>1, <2>4
<1>6. \A i \in 1 .. Final : i # Final =>
        Cardinality(AtRisk(i + 1)) = Cardinality(AtRisk(i)) - Cardinality(In(i))
  <2> SUFFICES ASSUME NEW i \in 1 .. Final, i # Final
               PROVE  Cardinality(AtRisk(i + 1)) = Cardinality(AtRisk(i)) - Cardinality(In(i))
    OBVIOUS
  <2>1. /\ i + 1 \in 1 .. Final /\ Intervals[i].to # 0
        /\ Intervals[i].from < Intervals[i].to
        /\ Intervals[i].to = Intervals[i + 1].from
        /\ Intervals[i].from \in Nat /\ Intervals[i].to \in Nat
    BY IntervalFacts
  <2>2. \A d \in Nat : /\ Within(d, Intervals[i]) <=>
                            d >= Intervals[i].from /\ ~(d >= Intervals[i + 1].from)
                       /\ d >= Intervals[i + 1].from => d >= Intervals[i].from
    BY <2>1 DEF Within
  <2>3. AtRisk(i + 1) \cup In(i) = AtRisk(i) /\ AtRisk(i + 1) \cap In(i) = {}
    BY <1>1, <2>2
  <2>4. IsFiniteSet(AtRisk(i + 1)) /\ IsFiniteSet(In(i))
    BY <1>2, <2>1
  <2> DEFINE p == AtRisk(i + 1)
             q == In(i)
  <2>5. IsFiniteSet(p) /\ IsFiniteSet(q) /\ p \cap q = {}
    BY <2>3, <2>4
  <2>6. /\ Cardinality(p \cup q) = Cardinality(p) + Cardinality(q)
        /\ Cardinality(p) \in Nat /\ Cardinality(q) \in Nat
    <3> HIDE DEF p, q
    <3> QED
      BY <2>5, DisjointUnion
  <2> DEFINE m == Cardinality(p)
             n == Cardinality(q)
             both == Cardinality(AtRisk(i))
  <2>7. both = m + n /\ m \in Nat /\ n \in Nat
    BY <2>3, <2>6
  <2>8. m = both - n
    <3> HIDE DEF m, n, both
    <3> QED
      BY <2>7
  <2> QED
    BY <2>8
<1>7. AtRisk(1) = K /\ AtRisk(Final) = In(Final)
  <2>1. \A d \in Nat : /\ d >= Intervals[1].from
                       /\ Within(d, Intervals[Final]) <=> d >= Intervals[Final].from
    BY IntervalFacts DEF Within
  <2> QED
    BY <1>1, <2>1
<1>8. FoldLeft(LAMBDA m, b : m + b.events, 0, table) = Cardinality(Observed)
  <2> DEFINE E == [i \in 1 .. Final |-> Happened(i)]
             e == [i \in 1 .. Final |-> table[i].events]
  <2>1. IsFiniteSet(1 .. Final) /\ Final \in Nat
    BY FS_Interval, IntervalFacts
  <2>2. \A i \in 1 .. Final : IsFiniteSet(E[i]) /\ E[i] = Happened(i)
    BY <1>2
  <2>3. \A i \in 1 .. Final : \A j \in 1 .. Final : i # j => E[i] \cap E[j] = {}
    BY <1>1, OneInterval
  <2>4. Observed = UNION {E[i] : i \in 1 .. Final}
    BY <1>1, OneInterval
  <2>5. IsFiniteSet(Observed)
    BY <1>1, FS_Subset
  <2>6. \A i \in 1 .. Final : e[i] = Cardinality(E[i]) /\ table[i].events \in Int
    <3> SUFFICES ASSUME NEW i \in 1 .. Final
                 PROVE  e[i] = Cardinality(E[i]) /\ table[i].events \in Int
      OBVIOUS
    <3>1. e[i] = table[i].events /\ E[i] = Happened(i)
      OBVIOUS
    <3>2. IsFiniteSet(Happened(i)) /\ table[i].events = Cardinality(Happened(i))
      BY <1>2, <1>4
    <3> HIDE DEF e, E, table, Happened
    <3> QED
      BY <3>1, <3>2, FS_CardinalityType
  <2> DEFINE S == Observed
             W == 1 .. Final
  <2>8. /\ IsFiniteSet(W) /\ \A w \in W : IsFiniteSet(E[w])
        /\ \A v \in W : \A w \in W : v # w => E[v] \cap E[w] = {}
        /\ IsFiniteSet(S) /\ S = UNION {E[w] : w \in W}
        /\ \A w \in W : e[w] = Cardinality(E[w])
    BY <2>1, <2>2, <2>3, <2>4, <2>5, <2>6
  <2> HIDE DEF E, table, Observed, S, W
  <2>7. SumF(1 .. Final, e) = Cardinality(Observed)
    <3>1. SumF(W, e) = Cardinality(S)
      <4> HIDE DEF e
      <4> QED
        BY <2>8, SumCardinalities
    <3> QED
      BY <3>1 DEF S, W
  <2> QED
    BY <1>3, <2>1, <2>6, <2>7, EventsIsSum
<1> DEFINE a == Analysis(obs)
<1>9. /\ a.hazardTable = table /\ a.observationCount = Cardinality(K)
      /\ a.eventCount = Cardinality(Observed)
  BY DEF Analysis
<1>10. Len(table) = Final
  BY <1>3, IntervalFacts
<1> HIDE DEF table, a, K, Observed, AtRisk, In, Happened, Censored
<1>11. table[1].atRisk = a.observationCount
  BY <1>4, <1>7, <1>9, IntervalFacts
<1>12. \A i \in 1 .. Final - 1 :
         table[i + 1].atRisk = table[i].atRisk - (table[i].events + table[i].censored)
  <2> SUFFICES ASSUME NEW i \in 1 .. Final - 1
               PROVE  table[i + 1].atRisk = table[i].atRisk - (table[i].events + table[i].censored)
    OBVIOUS
  <2>1. i \in 1 .. Final /\ i # Final /\ i + 1 \in 1 .. Final
    BY IntervalFacts
  <2> QED
    BY <1>4, <1>5, <1>6, <2>1
<1>13. table[Final].atRisk = table[Final].events + table[Final].censored
  BY <1>4, <1>5, <1>7, IntervalFacts
<1>14. IsChain(a)
  BY <1>8, <1>9, <1>10, <1>11, <1>12, <1>13 DEF IsChain
<1> QED
  BY <1>14 DEF a

-----------------------------------------------------------------------------
(* Survival: percentiles, and observations made of events.                 *)

\* The image of a finite set.
LEMMA FiniteRange ==
  ASSUME NEW f, IsFiniteSet(DOMAIN f)
  PROVE  IsFiniteSet({f[x] : x \in DOMAIN f})
<1> DEFINE S == DOMAIN f
           g == [x \in S |-> f[x]]
<1>1. g \in Surjection(S, {f[x] : x \in S})
  BY DEF Surjection
<1>2. IsFiniteSet(S)
  OBVIOUS
<1> HIDE DEF g, S
<1>3. IsFiniteSet({f[x] : x \in S})
  BY <1>1, <1>2, FS_Surjection
<1> QED
  BY <1>3 DEF S

\* The rank of a percentile, rounded up, in integers.
LEMMA RankRounds ==
  ASSUME NEW m \in Nat, NEW up \in Int
  PROVE  up >= (m + 99) \div 100 <=> 100 * up >= m
OBVIOUS

\* The nearest rank is a place in the sequence.
LEMMA RankInRange ==
  ASSUME NEW n \in Nat, n >= 1, NEW p \in 1 .. 100
  PROVE  /\ p * n \in Nat
         /\ (p * n + 99) \div 100 \in 1 .. n
<1>1. p * n \in Nat /\ p * n >= 1 /\ p * n <= 100 * n
  BY SMT
<1> DEFINE m == p * n
<1>2. m \in Nat /\ 1 <= m /\ m <= 100 * n
  BY <1>1
<1> HIDE DEF m
<1>3. (m + 99) \div 100 \in 1 .. n
  BY <1>2
<1> QED
  BY <1>1, <1>3 DEF m

\* Min and Max of two numbers.
LEMMA MinMaxOfTwo ==
  ASSUME NEW a \in Int, NEW b \in Int
  PROVE  /\ Max({a, b}) = IF a >= b THEN a ELSE b
         /\ Min({a, b}) = IF a <= b THEN a ELSE b
BY DEF Max, Min

\* The duration at the nearest rank is the percentile.
LEMMA RankIsPercentile ==
  ASSUME NEW obs, GoodObservations(obs), NEW p \in 1 .. 100,
         NEW observed, observed = {k \in DOMAIN obs : obs[k].observed}, observed # {}
  PROVE  IsPercentile(obs, p, NearestRank(Ascending(obs, observed), p))
<1> DEFINE n == Cardinality(observed)
           D == {obs[k].duration : k \in observed}
           up(d) == Cardinality({k \in observed : obs[k].duration <= d})
           asc == Ascending(obs, observed)
           rank == (p * n + 99) \div 100
<1>1. IsFiniteSet(observed) /\ n \in Nat /\ n >= 1
  <2>1. IsFiniteSet(observed)
    BY FS_Subset DEF GoodObservations
  <2> QED
    BY <2>1, FS_CardinalityType, FS_EmptySet
<1>2. \A d \in D : up(d) \in Int
  BY <1>1, FS_Subset, FS_CardinalityType
<1>3. p * n \in Nat /\ rank \in 1 .. n
  <2> HIDE DEF n
  <2> QED
    BY <1>1, RankInRange
<1>4. asc = [i \in 1 .. n |-> Min({d \in D : up(d) >= i})]
  BY DEF Ascending
<1>5. Len(asc) = n
  <2> HIDE DEF n
  <2> QED
    BY <1>1, <1>4
<1>6. NearestRank(asc, p) = asc[rank]
  <2>1. NearestRank(asc, p) = asc[Min({Max({rank, 1}), n})]
    BY <1>5 DEF NearestRank
  <2>2. Max({rank, 1}) = rank /\ Min({rank, n}) = rank
    <3> HIDE DEF rank, n
    <3> QED
      BY <1>1, <1>3, MinMaxOfTwo
  <2> QED
    BY <2>1, <2>2
<1>7. asc[rank] = Min({d \in D : up(d) >= rank})
  <2> HIDE DEF rank, n, up
  <2> QED
    BY <1>3, <1>4
<1>8. {d \in D : up(d) >= rank} = {v \in D : 100 * up(v) >= p * n}
  <2>1. \A d \in D : up(d) >= rank <=> 100 * up(d) >= p * n
    <3> HIDE DEF D, up, n
    <3> QED
      BY <1>2, <1>3, RankRounds
  <2> HIDE DEF D, up, n, rank
  <2> QED
    BY <2>1
<1>9. NearestRank(asc, p) = Min({v \in D : 100 * up(v) >= p * n})
  BY <1>6, <1>7, <1>8
<1> HIDE DEF asc
<1>10. IsPercentile(obs, p, NearestRank(asc, p))
  BY <1>9 DEF IsPercentile
<1> QED
  BY <1>10 DEF asc

\* Observations with a duration and an outcome each add up.
LEMMA ObservationsAddUp ==
  ASSUME NEW obs, GoodObservations(obs)
  PROVE  AddsUp(obs)
<1> DEFINE a == Analysis(obs)
           observed == {k \in DOMAIN obs : obs[k].observed}
<1>1. IsChain(a)
  BY TableIsChain
<1>2. a.percentiles = IF observed = {} THEN <<>>
                      ELSE [p \in {50, 90, 95} |-> NearestRank(Ascending(obs, observed), p)]
  BY DEF Analysis, Percentiles
<1> HIDE DEF a
<1>3. ASSUME NEW p \in DOMAIN a.percentiles
      PROVE  IsPercentile(obs, p, a.percentiles[p])
  <2>1. observed # {}
    BY <1>2, <1>3
  <2>2. p \in 1 .. 100 /\ a.percentiles[p] = NearestRank(Ascending(obs, observed), p)
    BY <1>2, <1>3, <2>1
  <2>3. IsPercentile(obs, p, NearestRank(Ascending(obs, observed), p))
    <3>1. p \in 1 .. 100
      BY <2>2
    <3> DEFINE o == observed
    <3>2. o = {k \in DOMAIN obs : obs[k].observed} /\ o # {}
      BY <2>1
    <3> HIDE DEF o
    <3>3. IsPercentile(obs, p, NearestRank(Ascending(obs, o), p))
      BY <3>1, <3>2, RankIsPercentile
    <3> QED
      BY <3>3 DEF o
  <2> QED
    BY <2>2, <2>3
<1>4. AddsUp(obs)
  BY <1>1, <1>3 DEF AddsUp, a
<1> QED
  BY <1>4

\* A sequence, or any other arrangement, of finitely many events.
Timed(events) ==
  /\ IsFiniteSet(DOMAIN events)
  /\ \A i \in DOMAIN events : events[i].at \in Int

\* The set of such events is finite.
LEMMA TimedEvents ==
  ASSUME NEW events, Timed(events)
  PROVE  IsFiniteSet(EventsOf(events)) /\ \A e \in EventsOf(events) : e.at \in Int
BY FiniteRange DEF Timed, EventsOf

\* The earliest of some events is a time, or 0.
LEMMA MinOrZeroInt ==
  ASSUME NEW S, IsFiniteSet(S), S \subseteq Int
  PROVE  MinOrZero(S) \in Int
<1>1. CASE S = {}
  BY <1>1 DEF MinOrZero
<1>2. CASE S # {}
  <2>1. Min(S) \in S
    BY <1>2, LeastInt
  <2> QED
    BY <1>2, <2>1 DEF MinOrZero
<1> QED
  BY <1>1, <1>2

LEMMA EarliestInt ==
  ASSUME NEW events, Timed(events), NEW E, E \subseteq EventsOf(events)
  PROVE  MinOrZero({e.at : e \in E}) \in Int
<1> DEFINE f == [e \in E |-> e.at]
           S == {e.at : e \in E}
<1>1. IsFiniteSet(E)
  BY TimedEvents, FS_Subset
<1>2. f \in Surjection(E, S)
  BY DEF Surjection
<1>3. S \subseteq Int
  BY TimedEvents
<1> HIDE DEF f, S
<1>4. IsFiniteSet(S)
  BY <1>1, <1>2, FS_Surjection
<1>5. MinOrZero(S) \in Int
  BY <1>3, <1>4, MinOrZeroInt
<1> QED
  BY <1>5 DEF S

\* Observations between times have a duration from 0 on.
LEMMA GoodFromTimes ==
  ASSUME NEW start, NEW end, NEW censorAt \in Int, IsFiniteSet(DOMAIN start),
         \A k \in DOMAIN start : start[k] \in Int /\ end[k] \in Int
  PROVE  GoodObservations(Observations(start, end, censorAt))
<1> DEFINE obs == Observations(start, end, censorAt)
           until(k) == IF end[k] = 0 THEN censorAt ELSE end[k]
<1>1. /\ DOMAIN obs \subseteq DOMAIN start
      /\ \A k \in DOMAIN obs : /\ obs[k].duration = Max({0, until(k) - start[k]})
                               /\ obs[k].observed = (end[k] # 0)
  BY DEF Observations
<1> HIDE DEF obs
<1>2. IsFiniteSet(DOMAIN obs)
  BY <1>1, FS_Subset
<1>3. ASSUME NEW k \in DOMAIN obs
      PROVE  obs[k].duration \in Nat /\ obs[k].observed \in BOOLEAN
  <2>1. until(k) - start[k] \in Int
    BY <1>1
  <2>2. Max({0, until(k) - start[k]}) \in Nat
    <3> DEFINE d == until(k) - start[k]
    <3>1. d \in Int
      BY <2>1
    <3> HIDE DEF d
    <3>2. Max({0, d}) \in Nat
      BY <3>1, MinMaxOfTwo
    <3> QED
      BY <3>2 DEF d
  <2> QED
    BY <1>1, <2>2
<1>4. GoodObservations(obs)
  BY <1>2, <1>3 DEF GoodObservations
<1> QED
  BY <1>4 DEF obs

\* So do those of the three analyses, of any events with a time.
LEMMA SurvivalObservationsGood ==
  ASSUME NEW events, Timed(events), NEW censorAt \in Int
  PROVE  \A i \in DOMAIN SurvivalObservations(events, censorAt) :
           GoodObservations(SurvivalObservations(events, censorAt)[i])
<1> DEFINE all == EventsOf(events)
           saleIds == {e.sale : e \in all}
           rows == {<<e.sale, e.ticket>> : e \in {x \in all : x.ticket # 0}}
           accepted == [s \in saleIds |-> AcceptedAt(events, s)]
           paid == [s \in saleIds |-> PaymentAt(events, s)]
           sent == [s \in saleIds |-> EmailSentAt(events, s)]
           item == [k \in rows |-> ItemAt(events, k)]
           checked == [k \in rows |-> CheckInAt(events, k)]
<1>1. IsFiniteSet(saleIds)
  <2> DEFINE f == [e \in all |-> e.sale]
  <2>1. f \in Surjection(all, saleIds)
    BY DEF Surjection
  <2> HIDE DEF f, saleIds
  <2> QED
    BY <2>1, TimedEvents, FS_Surjection
<1>2. IsFiniteSet(rows)
  <2> DEFINE E == {x \in all : x.ticket # 0}
             f == [e \in E |-> <<e.sale, e.ticket>>]
  <2>1. f \in Surjection(E, rows)
    BY DEF Surjection
  <2>2. IsFiniteSet(E)
    BY TimedEvents, FS_Subset
  <2> HIDE DEF f, rows, E
  <2> QED
    BY <2>1, <2>2, FS_Surjection
<1>3. \A s \in saleIds : /\ AcceptedAt(events, s) \in Int
                         /\ PaymentAt(events, s) \in Int
                         /\ EmailSentAt(events, s) \in Int
  BY EarliestInt DEF AcceptedAt, PaymentAt, EmailSentAt, Earliest
<1>4. \A k \in rows : ItemAt(events, k) \in Int /\ CheckInAt(events, k) \in Int
  BY EarliestInt DEF ItemAt, CheckInAt, Earliest
<1>5. /\ DOMAIN accepted = saleIds /\ DOMAIN item = rows
      /\ \A s \in saleIds : accepted[s] \in Int /\ paid[s] \in Int /\ sent[s] \in Int
      /\ \A k \in rows : item[k] \in Int /\ checked[k] \in Int
  BY <1>3, <1>4
<1>6. SurvivalObservations(events, censorAt) =
        << Observations(accepted, paid, censorAt), Observations(accepted, sent, censorAt),
           Observations(item, checked, censorAt) >>
  BY DEF SurvivalObservations
<1> HIDE DEF accepted, paid, sent, item, checked, saleIds, rows
<1>7. /\ GoodObservations(Observations(accepted, paid, censorAt))
      /\ GoodObservations(Observations(accepted, sent, censorAt))
      /\ GoodObservations(Observations(item, checked, censorAt))
  BY <1>1, <1>2, <1>5, GoodFromTimes
<1> QED
  BY <1>6, <1>7

-----------------------------------------------------------------------------
(* Windows: truncated times.                                               *)

\* Sum of the totals of windows.
LEMMA TotalsAreSums ==
  ASSUME NEW W, IsFiniteSet(W), NEW windows, \A w \in W : windows[w].total \in Int
  PROVE  Sum(W, LAMBDA w : windows[w].total) = SumF(W, [w \in W |-> windows[w].total])
<1> DEFINE f == [w \in W |-> windows[w].total]
           R(g) == [s \in SUBSET W |->
                      IF s = {} THEN 0 ELSE windows[Chosen(s)].total + g[s \ {Chosen(s)}]]
           h == CHOOSE g : g = R(g)
<1>1. \A x \in W : f[x] \in Int
  OBVIOUS
<1>2. \A g : R(g) = FoldOf(g, W, f)
  BY <1>1, ChosenFold DEF FoldOf
<1> HIDE DEF f
<1>3. h = R(h)
  <2>1. \E g : g = R(g)
    <3> HIDE DEF R
    <3> QED
      BY <1>1, <1>2, ChosenFold
  <2> QED
    BY <2>1
<1>4. Sum(W, LAMBDA w : windows[w].total) = h[W]
  BY DEF Sum, MapThenSumSet, MapThenFoldSet, Chosen
<1> HIDE DEF h, R
<1>5. h[W] = SumF(W, f)
  BY <1>1, <1>2, <1>3, ChosenFold
<1> QED
  BY <1>4, <1>5 DEF f

-----------------------------------------------------------------------------
\* Arithmetic of the multiples of a duration.
LEMMA LessThanOne ==
  ASSUME NEW d \in Nat, d # 0, NEW k \in Int, d * k < d
  PROVE  k <= 0
<1>1. ASSUME k >= 1 PROVE FALSE
  <2>1. d * (k - 1) >= 0
    BY <1>1
  <2>2. d * (k - 1) = d * k - d
    BY SMT
  <2>3. d * k \in Int
    OBVIOUS
  <2> QED
    BY <2>1, <2>2, <2>3
<1> QED
  BY <1>1

LEMMA DivMod ==
  ASSUME NEW a \in Int, NEW d \in Nat, d # 0
  PROVE  /\ a \div d \in Int /\ a % d \in Nat /\ a % d < d
         /\ a = d * (a \div d) + (a % d)
BY SMT

\* The greatest multiple of d up to a.
LEMMA Multiples ==
  ASSUME NEW a \in Int, NEW d \in Nat, d # 0
  PROVE  /\ Truncate(a, d) = d * (a \div d)
         /\ Truncate(a, d) \in Int
         /\ Truncate(a, d) <= a /\ a < Truncate(a, d) + d
<1>1. /\ a \div d \in Int /\ a % d \in Nat /\ a % d < d
      /\ a = d * (a \div d) + (a % d)
  BY DivMod
<1> DEFINE r == a % d
           q == d * (a \div d)
<1>2. q \in Int /\ r \in Nat /\ r < d /\ a = q + r
  BY <1>1
<1>3. Truncate(a, d) = a - r
  BY DEF Truncate
<1> HIDE DEF r, q
<1>4. Truncate(a, d) = q /\ q <= a /\ a < q + d
  BY <1>2, <1>3
<1> QED
  BY <1>2, <1>4 DEF q

\* Truncate does not move a time over a multiple.
LEMMA MultipleUpTo ==
  ASSUME NEW a \in Int, NEW d \in Nat, d # 0, NEW k \in Int
  PROVE  (d * k <= a) <=> (d * k <= Truncate(a, d))
<1> DEFINE q == a \div d
           t == Truncate(a, d)
<1>1. t = d * q /\ t \in Int /\ t <= a /\ a < t + d /\ q \in Int
  BY Multiples, DivMod
<1> HIDE DEF q, t
<1>2. d * k \in Int /\ d * q \in Int /\ d * (k - q) = d * k - d * q
  BY <1>1
<1>3. ASSUME d * k <= a PROVE d * k <= t
  <2>1. d * (k - q) < d
    BY <1>1, <1>2, <1>3
  <2>2. k - q <= 0
    <3> DEFINE m == k - q
    <3>1. m \in Int /\ d * m < d
      BY <1>1, <2>1
    <3> HIDE DEF m
    <3>2. m <= 0
      BY <3>1, LessThanOne
    <3> QED
      BY <3>2 DEF m
  <2>3. d * (q - k) >= 0 /\ d * (q - k) = d * q - d * k
    BY <1>1, <2>2
  <2> QED
    BY <1>1, <1>2, <2>3
<1> QED
  BY <1>1, <1>2, <1>3 DEF t

\* What is truncated to t is what lies between t and t + d.
LEMMA TruncateInside ==
  ASSUME NEW a \in Int, NEW b \in Int, NEW d \in Nat, d # 0
  PROVE  (Truncate(a, d) = Truncate(b, d)) <=>
           (Truncate(b, d) <= a /\ a < Truncate(b, d) + d)
<1> DEFINE q == b \div d
           t == Truncate(b, d)
           s == Truncate(a, d)
<1>1. t = d * q /\ q \in Int /\ t \in Int
  BY Multiples, DivMod
<1>2. s \in Int /\ s <= a /\ a < s + d
  BY Multiples
<1> HIDE DEF q
<1>3. (t <= a) <=> (t <= s)
  <2>1. (d * q <= a) <=> (d * q <= s)
    BY <1>1, MultipleUpTo
  <2> QED
    BY <1>1, <2>1
<1>4. (t + d <= a) <=> (t + d <= s)
  <2> DEFINE k == q + 1
  <2>1. (d * k <= a) <=> (d * k <= s)
    <3>1. k \in Int
      BY <1>1
    <3> HIDE DEF k
    <3> QED
      BY <3>1, MultipleUpTo
  <2>2. d * (q + 1) = d * q + d
    BY <1>1
  <2> QED
    BY <1>1, <2>1, <2>2
<1>5. ASSUME t <= a, a < t + d PROVE s = t
  <2>1. t <= s /\ s < t + d
    BY <1>1, <1>2, <1>3, <1>4, <1>5
  <2>2. s <= t
    <3>1. d * (a \div d) = s /\ a \div d \in Int
      BY Multiples, DivMod
    <3> DEFINE m == (a \div d) - q
    <3>2. m \in Int /\ d * m = s - t
      BY <1>1, <3>1
    <3>3. d * m < d
      BY <1>1, <1>2, <2>1, <3>2
    <3> HIDE DEF m
    <3>4. m <= 0
      BY <3>2, <3>3, LessThanOne
    <3>5. d * m <= 0
      BY <3>2, <3>4
    <3> QED
      BY <1>1, <1>2, <3>2, <3>5
  <2> QED
    BY <1>1, <1>2, <2>1, <2>2
<1> HIDE DEF s, t
<1>6. s = t <=> t <= a /\ a < t + d
  BY <1>1, <1>2, <1>5
<1> QED
  BY <1>6 DEF s, t

\* The start of a shorter window is in the longer one if the time is.
LEMMA NestedInside ==
  ASSUME NEW a \in Int, NEW b \in Int, NEW d \in Nat, d # 0,
         NEW e \in Nat, e # 0, e % d = 0
  PROVE  (Truncate(b, e) <= a /\ a < Truncate(b, e) + e) <=>
           (Truncate(b, e) <= Truncate(a, d) /\ Truncate(a, d) < Truncate(b, e) + e)
<1> DEFINE q == b \div e
           m == e \div d
           t == Truncate(b, e)
           s == Truncate(a, d)
<1>1. t = e * q /\ q \in Int /\ t \in Int
  BY Multiples, DivMod
<1>2. m \in Int /\ e = d * m
  BY DivMod
<1>3. t = d * (m * q) /\ m * q \in Int
  <2>1. (d * m) * q = d * (m * q)
    BY <1>1, <1>2
  <2> QED
    BY <1>1, <1>2, <2>1
<1>4. t + e = d * (m * q + m) /\ m * q + m \in Int
  <2> DEFINE n == m * q
  <2>1. n \in Int /\ t = d * n
    BY <1>3
  <2> HIDE DEF n, t, m
  <2>2. d * (n + m) = d * n + d * m
    BY <1>2, <2>1
  <2> QED
    BY <1>2, <2>1, <2>2 DEF n
<1>5. (t <= a) <=> (t <= s)
  <2> DEFINE k == m * q
  <2>1. (d * k <= a) <=> (d * k <= s)
    <3>1. k \in Int
      BY <1>3
    <3> HIDE DEF k
    <3> QED
      BY <3>1, MultipleUpTo
  <2> QED
    BY <1>3, <2>1
<1>6. (t + e <= a) <=> (t + e <= s)
  <2> DEFINE k == m * q + m
  <2>1. (d * k <= a) <=> (d * k <= s)
    <3>1. k \in Int
      BY <1>4
    <3> HIDE DEF k
    <3> QED
      BY <3>1, MultipleUpTo
  <2> QED
    BY <1>4, <2>1
<1>7. s \in Int
  BY Multiples
<1> HIDE DEF s, t
<1>8. t <= a /\ a < t + e <=> t <= s /\ s < t + e
  BY <1>1, <1>5, <1>6, <1>7
<1> QED
  BY <1>8 DEF s, t

-----------------------------------------------------------------------------
(* Windows: a partition of the events.                                     *)

\* Events that are all different, in some order.
Distinct(events) ==
  /\ DOMAIN events = 1 .. Len(events) /\ Len(events) \in Nat
  /\ \A i, j \in DOMAIN events : i # j => events[i] # events[j]

\* Distinct events are as many as their sequence is long.
LEMMA DistinctCount ==
  ASSUME NEW events, Distinct(events)
  PROVE  Cardinality(EventsOf(events)) = Len(events)
<1> DEFINE n == Len(events)
           D == 1 .. n
           f == [i \in D |-> events[i]]
           S == EventsOf(events)
<1>1. IsFiniteSet(D) /\ Cardinality(D) = n
  <2>1. n \in Nat
    BY DEF Distinct
  <2> HIDE DEF n
  <2> QED
    BY <2>1, FS_Interval
<1>2. f \in Surjection(D, S) /\ f \in Injection(D, S)
  <2>1. f \in [D -> S]
    BY DEF Distinct, EventsOf
  <2>2. \A i \in D : \A j \in D : f[i] = f[j] => i = j
    BY DEF Distinct
  <2>3. \A x \in S : \E i \in D : f[i] = x
    BY DEF Distinct, EventsOf
  <2> HIDE DEF f, D, S
  <2> QED
    BY <2>1, <2>2, <2>3 DEF Surjection, Injection, IsInjective
<1> HIDE DEF f, D, S, n
<1>3. Cardinality(S) = n
  BY <1>1, <1>2, FS_Surjection
<1> QED
  BY <1>3 DEF S, n

\* Counts counts events.
LEMMA CountsTotal ==
  ASSUME NEW E
  PROVE  Counts(E).total = Cardinality(E)
BY DEF Counts

\* The windows of distinct events.
LEMMA WindowsPartitioned ==
  ASSUME NEW events, Timed(events), Distinct(events)
  PROVE  Partitioned(events)
<1> DEFINE all == EventsOf(events)
           windows == Windows(events)
           W == DOMAIN windows
           Of(w) == {e \in all : WindowOf(e, w.size) = w}
           ofSize(size) == {w \in W : w.size = size}
<1>1. IsFiniteSet(all) /\ \A e \in all : e.at \in Int
  BY TimedEvents
<1>2. \A size \in Sizes : Duration[size] \in Nat /\ Duration[size] # 0
  BY DurationAssumption
<1>3. W = {WindowOf(e, size) : e \in all, size \in Sizes}
  BY DEF Windows
<1>4. \A w \in W : windows[w] = Counts(Of(w))
  BY DEF Windows
<1> HIDE DEF windows
<1>5. \A size \in Sizes : ofSize(size) = {WindowOf(e, size) : e \in all}
  BY <1>3 DEF WindowOf
<1>6. \A size \in Sizes : IsFiniteSet(ofSize(size))
  <2> SUFFICES ASSUME NEW size \in Sizes PROVE IsFiniteSet(ofSize(size))
    OBVIOUS
  <2> DEFINE f == [e \in all |-> WindowOf(e, size)]
             S == ofSize(size)
  <2>1. f \in Surjection(all, S)
    BY <1>5 DEF Surjection
  <2> HIDE DEF f, S
  <2>2. IsFiniteSet(S)
    BY <1>1, <2>1, FS_Surjection
  <2> QED
    BY <2>2 DEF S
<1>7. \A w \in W : /\ w.size \in Sizes
                   /\ \E x \in all : w.start = Truncate(x.at, Duration[w.size])
  BY <1>3 DEF WindowOf
<1>8. \A w \in W : \A e \in all : e \in Of(w) <=> Inside(w, e)
  <2> SUFFICES ASSUME NEW w \in W, NEW e \in all
               PROVE  WindowOf(e, w.size) = w <=> Inside(w, e)
    OBVIOUS
  <2>1. PICK x \in all : w.start = Truncate(x.at, Duration[w.size])
    BY <1>7
  <2>2. Truncate(e.at, Duration[w.size]) = w.start <=> Inside(w, e)
    BY <1>1, <1>2, <1>7, <2>1, TruncateInside DEF Inside
  <2>3. WindowOf(e, w.size) = w <=> Truncate(e.at, Duration[w.size]) = w.start
    <3>1. w = [size |-> w.size, start |-> w.start]
      BY <1>3 DEF WindowOf
    <3> QED
      BY <3>1 DEF WindowOf
  <2> QED
    BY <2>2, <2>3
<1>9. \A w \in W : Of(w) = {e \in all : Inside(w, e)}
  BY <1>8
<1>10. \A w \in W : IsFiniteSet(Of(w)) /\ windows[w].total = Cardinality(Of(w))
                    /\ windows[w].total \in Int
  <2> SUFFICES ASSUME NEW w \in W
               PROVE  /\ IsFiniteSet(Of(w)) /\ windows[w].total = Cardinality(Of(w))
                      /\ windows[w].total \in Int
    OBVIOUS
  <2> DEFINE E == Of(w)
  <2>1. IsFiniteSet(E)
    BY <1>1, FS_Subset
  <2>2. windows[w].total = Cardinality(E)
    <3>1. windows[w] = Counts(E)
      BY <1>4
    <3> QED
      BY <3>1, CountsTotal
  <2> HIDE DEF E
  <2>3. Cardinality(E) \in Int
    BY <2>1, FS_CardinalityType
  <2> QED
    BY <2>1, <2>2, <2>3 DEF E
<1> DEFINE Total2(V) == Sum(V, LAMBDA w : windows[w].total)
<1>11. ASSUME NEW size \in Sizes, NEW V, V \subseteq ofSize(size),
              NEW S, IsFiniteSet(S), S = UNION {Of(w) : w \in V}
       PROVE  Total2(V) = Cardinality(S)
  <2> DEFINE E == [w \in V |-> Of(w)]
             t == [w \in V |-> windows[w].total]
  <2>1. IsFiniteSet(V) /\ \A w \in V : w \in W /\ w.size = size
    <3>1. IsFiniteSet(ofSize(size))
      BY <1>6
    <3>2. \A w \in V : w \in W /\ w.size = size
      BY <1>11
    <3> HIDE DEF ofSize
    <3> QED
      BY <1>11, <3>1, <3>2, FS_Subset
  <2>2. \A w \in V : IsFiniteSet(E[w]) /\ t[w] = Cardinality(E[w])
    BY <1>10, <2>1
  <2>3. \A v \in V : \A w \in V : v # w => E[v] \cap E[w] = {}
    BY <2>1
  <2>4. S = UNION {E[w] : w \in V}
    BY <1>11
  <2>5. Total2(V) = SumF(V, t)
    <3>1. \A w \in V : windows[w].total \in Int
      BY <1>10, <2>1
    <3> QED
      BY <2>1, <3>1, TotalsAreSums
  <2>6. SumF(V, t) = Cardinality(S)
    <3>1. /\ IsFiniteSet(V) /\ \A w \in V : IsFiniteSet(E[w])
          /\ \A v \in V : \A w \in V : v # w => E[v] \cap E[w] = {}
          /\ IsFiniteSet(S) /\ S = UNION {E[w] : w \in V}
          /\ \A w \in V : t[w] = Cardinality(E[w])
      BY <1>11, <2>1, <2>2, <2>3, <2>4
    <3> HIDE DEF E, t, Of, W
    <3> QED
      BY <3>1, SumCardinalities
  <2> QED
    BY <2>5, <2>6
<1>12. \A size \in Sizes : Total2(ofSize(size)) = Len(events)
  <2> SUFFICES ASSUME NEW size \in Sizes PROVE Total2(ofSize(size)) = Len(events)
    OBVIOUS
  <2>1. \A e \in all : WindowOf(e, size) \in ofSize(size) /\ e \in Of(WindowOf(e, size))
    BY <1>5 DEF WindowOf
  <2> DEFINE V == ofSize(size)
  <2>2. all = UNION {Of(w) : w \in V}
    BY <2>1
  <2>3. V \subseteq ofSize(size)
    OBVIOUS
  <2> HIDE DEF V, Total2
  <2>4. Total2(V) = Cardinality(all)
    BY <1>1, <1>11, <2>2, <2>3
  <2> QED
    BY <2>4, DistinctCount DEF V
<1>13. ASSUME NEW w \in W, NEW size \in Sizes, Duration[w.size] % Duration[size] = 0
       PROVE  windows[w].total = Total2({v \in ofSize(size) : Inside(w, [at |-> v.start])})
  <2> DEFINE V == {v \in ofSize(size) : Inside(w, [at |-> v.start])}
             S == Of(w)
  <2>1. PICK x \in all : w.start = Truncate(x.at, Duration[w.size])
    BY <1>7
  <2>2. \A e \in all : Inside(w, e) <=> Inside(w, [at |-> Truncate(e.at, Duration[size])])
    BY <1>1, <1>2, <1>7, <1>13, <2>1, NestedInside DEF Inside
  <2>3. S = UNION {Of(v) : v \in V}
    <3>1. ASSUME NEW e \in all, Inside(w, e)
          PROVE  \E v \in V : e \in Of(v)
      <4> DEFINE v == WindowOf(e, size)
      <4>1. v \in ofSize(size) /\ e \in Of(v) /\ v.start = Truncate(e.at, Duration[size])
        BY <1>5 DEF WindowOf
      <4>2. v \in V
        BY <2>2, <3>1, <4>1
      <4> QED
        BY <4>1, <4>2
    <3>2. ASSUME NEW v \in V, NEW e \in Of(v)
          PROVE  e \in all /\ Inside(w, e)
      <4>1. e \in all /\ WindowOf(e, v.size) = v /\ v.size = size
        OBVIOUS
      <4>2. v.start = Truncate(e.at, Duration[size])
        BY <4>1 DEF WindowOf
      <4> QED
        BY <2>2, <4>1, <4>2
    <3>3. \A e : e \in S <=> e \in all /\ Inside(w, e)
      BY <1>9
    <3> HIDE DEF S, V, Of
    <3> QED
      BY <3>1, <3>2, <3>3
  <2>4. V \subseteq ofSize(size) /\ IsFiniteSet(S)
    BY <1>10
  <2> HIDE DEF V, S, Total2
  <2>5. Total2(V) = Cardinality(S)
    BY <1>11, <2>3, <2>4
  <2> QED
    BY <1>10, <2>5 DEF V, S
<1> HIDE DEF windows
<1>14. ASSUME NEW w \in W
       PROVE  windows[w] = Counts({e \in all : Inside(w, e)})
  BY <1>4, <1>9
<1> QED
  BY <1>12, <1>13, <1>14 DEF Partitioned, windows

-----------------------------------------------------------------------------
(* Demand: the series of a ticket type.                                    *)

\* The lines of the events order a positive number of tickets each.
Ordered(events) ==
  Timed(events) /\ \A e \in Items(events) : e.quantity \in Nat /\ e.quantity > 0

\* Sum of quantities, in the two forms that the models write it.
LEMMA QuantitySum ==
  ASSUME NEW E, IsFiniteSet(E), \A e \in E : e.quantity \in Nat /\ e.quantity > 0
  PROVE  Sum(E, Quantity) = SumF(E, [e \in E |-> e.quantity])
<1> DEFINE f == [e \in E |-> e.quantity]
           R(g) == [s \in SUBSET E |->
                      IF s = {} THEN 0 ELSE Quantity(Chosen(s)) + g[s \ {Chosen(s)}]]
           h == CHOOSE g : g = R(g)
<1>1. \A x \in E : f[x] \in Int
  OBVIOUS
<1>2. \A g : R(g) = FoldOf(g, E, f)
  <2>1. \A s \in SUBSET E : s # {} => Quantity(Chosen(s)) = f[Chosen(s)]
    BY <1>1, ChosenFold DEF Quantity
  <2> QED
    BY <2>1 DEF FoldOf
<1> HIDE DEF f
<1>3. h = R(h)
  <2>1. \E g : g = R(g)
    <3> HIDE DEF R
    <3> QED
      BY <1>1, <1>2, ChosenFold
  <2> QED
    BY <2>1
<1>4. Sum(E, Quantity) = h[E]
  BY DEF Sum, MapThenSumSet, MapThenFoldSet, Chosen
<1> HIDE DEF h, R
<1>5. h[E] = SumF(E, f)
  BY <1>1, <1>2, <1>3, ChosenFold
<1> QED
  BY <1>4, <1>5 DEF f

LEMMA OrderedSum ==
  ASSUME NEW E, IsFiniteSet(E), \A e \in E : e.quantity \in Int
  PROVE  Sum(E, LAMBDA e : e.quantity) = SumF(E, [e \in E |-> e.quantity])
<1> DEFINE f == [e \in E |-> e.quantity]
           R(g) == [s \in SUBSET E |->
                      IF s = {} THEN 0 ELSE Chosen(s).quantity + g[s \ {Chosen(s)}]]
           h == CHOOSE g : g = R(g)
<1>1. \A x \in E : f[x] \in Int
  OBVIOUS
<1>2. \A g : R(g) = FoldOf(g, E, f)
  BY <1>1, ChosenFold DEF FoldOf
<1> HIDE DEF f
<1>3. h = R(h)
  <2>1. \E g : g = R(g)
    <3> HIDE DEF R
    <3> QED
      BY <1>1, <1>2, ChosenFold
  <2> QED
    BY <2>1
<1>4. Sum(E, LAMBDA e : e.quantity) = h[E]
  BY DEF Sum, MapThenSumSet, MapThenFoldSet, Chosen
<1> HIDE DEF h, R
<1>5. h[E] = SumF(E, f)
  BY <1>1, <1>2, <1>3, ChosenFold
<1> QED
  BY <1>4, <1>5 DEF f

-----------------------------------------------------------------------------
\* More arithmetic of division.
LEMMA DivMonotone ==
  ASSUME NEW d \in Nat, d # 0, NEW a \in Int, NEW b \in Int, a <= b
  PROVE  a \div d <= b \div d
<1> DEFINE p == a \div d
           q == b \div d
           r == a % d
           s == b % d
<1>1. p \in Int /\ q \in Int /\ r \in Nat /\ s \in Nat /\ s < d /\ a = d * p + r /\ b = d * q + s
  BY DivMod
<1> HIDE DEF p, q, r, s
<1>2. ASSUME q < p PROVE FALSE
  <2> DEFINE k == p - q
  <2>1. k \in Int /\ k >= 1 /\ d * k = d * p - d * q
    BY <1>1, <1>2
  <2>2. d * k < d
    <3>1. d * p \in Int /\ d * q \in Int
      BY <1>1
    <3> HIDE DEF k
    <3> QED
      BY <1>1, <2>1, <3>1
  <2>3. k <= 0
    <3> HIDE DEF k
    <3> QED
      BY <2>1, <2>2, LessThanOne
  <2> QED
    BY <2>1, <2>3
<1> QED
  BY <1>1, <1>2 DEF p, q

LEMMA DivMultiple ==
  ASSUME NEW d \in Nat, d # 0, NEW k \in Int
  PROVE  (d * k) \div d = k
<1> DEFINE q == (d * k) \div d
           r == (d * k) % d
<1>1. q \in Int /\ r \in Nat /\ r < d /\ d * k = d * q + r
  BY DivMod
<1> HIDE DEF q, r
<1> DEFINE m == k - q
<1>2. m \in Int /\ d * m = d * k - d * q
  BY <1>1
<1>3. d * k \in Int /\ d * q \in Int
  BY <1>1
<1>4. d * m = r
  <2> HIDE DEF m
  <2> QED
    BY <1>1, <1>2, <1>3
<1>5. m <= 0
  <2> HIDE DEF m
  <2> QED
    BY <1>1, <1>2, <1>4, LessThanOne
<1>6. m >= 0
  <2> HIDE DEF m
  <2>1. ASSUME m < 0 PROVE FALSE
    <3>1. d * m < 0
      BY <1>2, <2>1
    <3> QED
      BY <1>1, <1>4, <3>1
  <2> QED
    BY <1>2, <2>1
<1> QED
  BY <1>1, <1>5, <1>6 DEF q

\* A series: n windows from first on, each with the sum over its items.
WindowItems(items, size, first, i) ==
  {e \in items : Truncate(e.at, Duration[size]) = first + (i - 1) * Duration[size]}
Shape(s, items, size, first, n) ==
  /\ n >= 1 /\ DOMAIN s = 1 .. n /\ Len(s) = n
  /\ \A i \in 1 .. n : s[i] = Sum(WindowItems(items, size, first, i), Quantity)
  /\ \A e \in items : \E i \in 1 .. n : e \in WindowItems(items, size, first, i)
  /\ \A i \in 1 .. n : \A j \in 1 .. n :
       i # j => WindowItems(items, size, first, i) \cap WindowItems(items, size, first, j) = {}

\* The series of a ticket type that was ordered.
LEMMA SeriesShape ==
  ASSUME NEW events, Ordered(events), NEW t, NEW size \in Sizes,
         NEW items, items = {e \in Items(events) : e.ticket = t}, items # {}
  PROVE  \E n \in Nat : \E first \in Int : Shape(Series(events, t, size), items, size, first, n)
<1> DEFINE d == Duration[size]
           starts == {WindowOf(e, size).start : e \in items}
           first == Min(starts)
           last == Max(starts)
           n == WindowCount(first, last, d)
           E(i) == {e \in items : Truncate(e.at, d) = first + (i - 1) * d}
           s == Series(events, t, size)
<1>1. d \in Nat /\ d # 0
  BY DurationAssumption
<1>2. IsFiniteSet(items) /\ \A e \in items : e.at \in Int
  <2>1. items \in SUBSET EventsOf(events)
    BY DEF Items
  <2> QED
    BY <2>1, TimedEvents, FS_Subset DEF Ordered
<1>3. \A e \in items : WindowOf(e, size).start = Truncate(e.at, d)
  BY DEF WindowOf
<1> HIDE DEF d
<1>4. \A e \in items : /\ Truncate(e.at, d) \in starts
                       /\ Truncate(e.at, d) = d * (e.at \div d) /\ e.at \div d \in Int
                       /\ Truncate(e.at, d) \in Int
  BY <1>1, <1>2, <1>3, Multiples, DivMod
<1>5. IsFiniteSet(starts) /\ starts \subseteq Int /\ starts # {}
  <2> DEFINE f == [e \in items |-> WindowOf(e, size).start]
             S == starts
  <2>1. f \in Surjection(items, S)
    BY DEF Surjection
  <2>2. S \subseteq Int /\ S # {}
    BY <1>3, <1>4
  <2> HIDE DEF f, S
  <2>3. IsFiniteSet(S)
    BY <1>2, <2>1, FS_Surjection
  <2> QED
    BY <2>2, <2>3 DEF S
<1>6. /\ first \in starts /\ last \in starts
      /\ \A x \in starts : first <= x /\ x <= last
  <2> HIDE DEF starts
  <2> QED
    BY <1>5, LeastInt, GreatestInt
<1>7. PICK x \in items : first = Truncate(x.at, d)
  BY <1>3, <1>6
<1>8. PICK y \in items : last = Truncate(y.at, d)
  BY <1>3, <1>6
<1> DEFINE p == x.at \div d
<1>9. first = d * p /\ p \in Int /\ first \in Int
  BY <1>4, <1>7
<1>10. last \in Int /\ first <= last
  BY <1>4, <1>6, <1>8
<1> HIDE DEF starts, first, last, p
<1>11. n \in Nat /\ n >= 1
  <2>1. last - first \in Nat
    BY <1>9, <1>10
  <2>2. (last - first) \div d \in Nat
    BY <1>1, <2>1
  <2> QED
    BY <2>2 DEF WindowCount
<1>12. s = [i \in 1 .. n |-> Sum(E(i), Quantity)]
  <2>1. s = [i \in 1 .. n |->
               Sum({e \in items : WindowOf(e, size).start = first + (i - 1) * d}, Quantity)]
    BY DEF Series, d, starts, first, last
  <2>2. \A i \in 1 .. n : {e \in items : WindowOf(e, size).start = first + (i - 1) * d} = E(i)
    BY <1>3
  <2> HIDE DEF n, s, E
  <2> QED
    BY <2>1, <2>2
<1>13. DOMAIN s = 1 .. n /\ Len(s) = n /\ \A i \in 1 .. n : s[i] = Sum(E(i), Quantity)
  <2> HIDE DEF n, E, s
  <2> QED
    BY <1>11, <1>12
<1>14. ASSUME NEW e \in items
       PROVE  \E i \in 1 .. n : e \in E(i)
  <2> DEFINE q == e.at \div d
             k == q - p
             i == k + 1
             a == Truncate(e.at, d)
  <2>1. a = d * q /\ q \in Int /\ a \in Int /\ first <= a /\ a <= last
    BY <1>4, <1>6
  <2> HIDE DEF q, a
  <2>2. k \in Int /\ d * k = a - first
    BY <1>1, <1>9, <2>1
  <2>3. k >= 0
    <3>1. ASSUME k < 0 PROVE FALSE
      <4>1. d * k < 0
        BY <1>1, <2>2, <3>1
      <4> QED
        BY <1>9, <2>1, <2>2, <4>1
    <3> QED
      BY <2>2, <3>1
  <2>4. k <= (last - first) \div d
    <3>1. (d * k) \div d = k
      <4> HIDE DEF k
      <4> QED
        BY <1>1, <2>2, DivMultiple
    <3> DEFINE u == a - first
               v == last - first
    <3>2. u \in Int /\ v \in Int /\ u <= v /\ d * k = u
      BY <1>9, <1>10, <2>1, <2>2
    <3> HIDE DEF u, v, k
    <3>3. u \div d <= v \div d
      BY <1>1, <3>2, DivMonotone
    <3> QED
      BY <3>1, <3>2, <3>3 DEF v
  <2>5. i \in 1 .. n
    <3> DEFINE w == (last - first) \div d
    <3>1. w \in Int /\ n = w + 1 /\ k <= w
      BY <1>1, <1>9, <1>10, <2>4, DivMod DEF WindowCount
    <3> HIDE DEF w, n
    <3> QED
      BY <2>2, <2>3, <3>1
  <2>6. a = first + (i - 1) * d
    <3>1. i - 1 = k /\ k * d = d * k
      BY <1>1, <2>2
    <3> HIDE DEF k, i
    <3> QED
      BY <1>9, <2>1, <2>2, <3>1
  <2>7. e \in E(i)
    BY <2>6 DEF a
  <2> QED
    BY <2>5, <2>7
<1>15. ASSUME NEW i \in 1 .. n, NEW j \in 1 .. n, i # j
       PROVE  E(i) \cap E(j) = {}
  <2>1. i \in Int /\ j \in Int
    OBVIOUS
  <2>2. (i - 1) * d # (j - 1) * d
    <3> DEFINE u == i - 1
               v == j - 1
    <3>1. u \in Int /\ v \in Int /\ u # v
      BY <1>15, <2>1
    <3> HIDE DEF u, v
    <3>2. (d * u) \div d = u /\ (d * v) \div d = v
      BY <1>1, <3>1, DivMultiple
    <3>3. u * d = d * u /\ v * d = d * v
      BY <1>1, <3>1
    <3>4. u * d # v * d
      BY <3>1, <3>2, <3>3
    <3> QED
      BY <3>4 DEF u, v
  <2>3. first + (i - 1) * d # first + (j - 1) * d
    <3> DEFINE u == (i - 1) * d
               v == (j - 1) * d
    <3>1. u \in Int /\ v \in Int /\ u # v
      BY <1>1, <2>1, <2>2
    <3> HIDE DEF u, v
    <3>2. first + u # first + v
      BY <1>9, <3>1
    <3> QED
      BY <3>2 DEF u, v
  <2> QED
    BY <2>3
<1> HIDE DEF n, s
<1>16. /\ n >= 1 /\ DOMAIN s = 1 .. n /\ Len(s) = n
       /\ \A i \in 1 .. n : s[i] = Sum(E(i), Quantity)
       /\ \A e \in items : \E i \in 1 .. n : e \in E(i)
       /\ \A i \in 1 .. n : \A j \in 1 .. n : i # j => E(i) \cap E(j) = {}
  BY <1>11, <1>13, <1>14, <1>15
<1>17. \A i : E(i) = WindowItems(items, size, first, i)
  BY DEF WindowItems, d
<1> HIDE DEF E
<1>18. Shape(s, items, size, first, n)
  BY <1>16, <1>17 DEF Shape
<1> QED
  BY <1>9, <1>11, <1>18 DEF s

-----------------------------------------------------------------------------
(* Demand: totals, forecasts and risks.                                    *)

\* The total of the series of a ticket type that was not.
LEMMA EmptyTotal ==
  ASSUME NEW s, s = <<>>
  PROVE  Total(s) = 0
<1>1. DOMAIN s = 1 .. 0 /\ 1 .. 0 = {}
  OBVIOUS
<1>2. Total(s) = SumF(1 .. 0, s)
  BY <1>1, FoldIsSum
<1> QED
  BY <1>1, <1>2, SumEmpty

\* The orders of the events have a time and a quantity.
LEMMA ItemsOrdered ==
  ASSUME NEW events, Ordered(events)
  PROVE  /\ IsFiniteSet(Items(events))
         /\ \A e \in Items(events) : e.at \in Int /\ e.quantity \in Nat /\ e.quantity > 0
<1>1. Items(events) \in SUBSET EventsOf(events)
  BY DEF Items
<1> QED
  BY <1>1, TimedEvents, FS_Subset DEF Ordered

\* What a window of a series holds.
LEMMA WindowItemsSum ==
  ASSUME NEW items, IsFiniteSet(items), \A e \in items : e.quantity \in Nat /\ e.quantity > 0,
         NEW E \in SUBSET items
  PROVE  /\ Sum(E, Quantity) = SumF(E, [e \in items |-> e.quantity])
         /\ Sum(E, Quantity) \in Int
<1> DEFINE f == [e \in items |-> e.quantity]
           g == [e \in E |-> e.quantity]
<1>1. IsFiniteSet(E)
  BY FS_Subset
<1>2. Sum(E, Quantity) = SumF(E, g)
  BY <1>1, QuantitySum
<1>3. \A e \in E : g[e] \in Int /\ g[e] = f[e]
  OBVIOUS
<1> HIDE DEF f, g
<1>4. SumF(E, g) = SumF(E, f) /\ SumF(E, g) \in Int
  BY <1>1, <1>3, SumSame, SumRemove
<1> QED
  BY <1>2, <1>4 DEF f

\* A demand series loses no order.
LEMMA SeriesTotal ==
  ASSUME NEW events, Ordered(events), NEW t, NEW size \in Sizes
  PROVE  Total(Series(events, t, size)) =
           Sum({e \in Items(events) : e.ticket = t}, LAMBDA e : e.quantity)
<1> DEFINE items == {e \in Items(events) : e.ticket = t}
           f == [e \in items |-> e.quantity]
           s == Series(events, t, size)
<1>1. IsFiniteSet(items) /\ \A e \in items : e.quantity \in Nat /\ e.quantity > 0
  <2>1. items \in SUBSET Items(events)
    OBVIOUS
  <2> QED
    BY <2>1, ItemsOrdered, FS_Subset
<1>2. Sum(items, LAMBDA e : e.quantity) = SumF(items, f)
  <2> HIDE DEF items
  <2> QED
    BY <1>1, OrderedSum
<1>3. Total(s) = SumF(items, f)
  <2>1. CASE items = {}
    <3>1. s = <<>>
      BY <2>1 DEF Series
    <3>2. SumF(items, f) = 0
      BY <2>1, SumEmpty
    <3> QED
      BY <3>1, <3>2, EmptyTotal
  <2>2. CASE items # {}
    <3>1. PICK n \in Nat, first \in Int : Shape(s, items, size, first, n)
      BY <2>2, SeriesShape
    <3> HIDE DEF items, s
    <3> DEFINE W == 1 .. n
               E == [i \in W |-> WindowItems(items, size, first, i)]
    <3>2. \A i \in W : /\ E[i] \in SUBSET items /\ IsFiniteSet(E[i])
                       /\ s[i] = SumF(E[i], f) /\ s[i] \in Int
      <4> SUFFICES ASSUME NEW i \in W
                   PROVE  /\ E[i] \in SUBSET items /\ IsFiniteSet(E[i])
                          /\ s[i] = SumF(E[i], f) /\ s[i] \in Int
        OBVIOUS
      <4>1. E[i] \in SUBSET items
        BY DEF WindowItems
      <4>2. s[i] = Sum(E[i], Quantity)
        BY <3>1 DEF Shape
      <4> HIDE DEF E
      <4> QED
        BY <1>1, <4>1, <4>2, WindowItemsSum, FS_Subset
    <3>3. \A i \in W : \A j \in W : i # j => E[i] \cap E[j] = {}
      BY <3>1 DEF Shape
    <3>4. UNION {E[i] : i \in W} = items
      <4>1. \A e \in items : \E i \in W : e \in E[i]
        BY <3>1 DEF Shape
      <4> HIDE DEF W, E
      <4> QED
        BY <3>2, <4>1
    <3>5. DOMAIN s = W
      BY <3>1 DEF Shape
    <3>6. \A e \in items : f[e] \in Int
      BY <1>1
    <3>7. IsFiniteSet(W)
      BY FS_Interval
    <3> HIDE DEF E, f
    <3>8. Total(s) = SumF(W, s)
      BY <3>2, <3>5, FoldIsSum
    <3> HIDE DEF W
    <3>9. \A i \in W : \A x \in E[i] : f[x] \in Int
      BY <3>2, <3>6
    <3>10. SumF(W, s) = SumF(UNION {E[i] : i \in W}, f)
      BY <3>2, <3>3, <3>7, <3>9, SumOfSums
    <3> QED
      BY <3>4, <3>8, <3>10
  <2> QED
    BY <2>1, <2>2
<1> QED
  BY <1>2, <1>3

-----------------------------------------------------------------------------
\* A forecast learns from at least as many windows as it is tested on.
LEMMA TestWindowsBound ==
  ASSUME NEW n \in Nat, n >= 2
  PROVE  TestWindows(n) \in Int /\ 1 <= TestWindows(n) /\ TestWindows(n) <= n - TestWindows(n)
<1> DEFINE a == (n + 3) \div 4
           b == n - 1
<1>1. a \in Int /\ b \in Int /\ 1 <= a /\ 1 <= b
  BY SMT
<1>2. TestWindows(n) = IF a <= b THEN a ELSE b
  <2> HIDE DEF a, b
  <2> QED
    BY <1>1, MinMaxOfTwo DEF TestWindows, a, b
<1>3. a <= b => 2 * a <= n
  BY SMT
<1>4. ~(a <= b) => 2 * b <= n
  BY SMT
<1> HIDE DEF a, b
<1> QED
  BY <1>1, <1>2, <1>3, <1>4

\* The mean over the last windows lies between the least and the greatest.
LEMMA AverageBetween ==
  ASSUME NEW s, NEW n \in Nat, n >= 1, s \in [1 .. n -> Int]
  PROVE  Between(MovingAverage(s), s)
<1> DEFINE from == Max({1, Len(s) - AverageWindow + 1})
           last == SubSeq(s, from, Len(s))
           R == Range(s)
           m == MovingAverage(s)
<1>1. Len(s) = n /\ DOMAIN s = 1 .. n /\ s \in Seq(Int)
  OBVIOUS
<1>2. from \in Nat /\ 1 <= from /\ from <= n
  <2> DEFINE u == n - AverageWindow + 1
  <2>1. u \in Int /\ u <= n
    BY DemandAssumption
  <2>2. from = IF 1 >= u THEN 1 ELSE u
    <3> HIDE DEF u
    <3> QED
      BY <1>1, <2>1, MinMaxOfTwo DEF u
  <2> HIDE DEF u, from
  <2> QED
    BY <2>1, <2>2
<1> HIDE DEF from
<1>3. /\ last \in Seq(Int) /\ Len(last) = n - from + 1
      /\ \A i \in 1 .. n - from + 1 : last[i] = s[from + i - 1]
  BY <1>1, <1>2
<1> HIDE DEF last
<1> DEFINE k == n - from + 1
<1>4. k \in Nat /\ DOMAIN last = 1 .. k
  BY <1>2, <1>3
<1>5. R \subseteq Int /\ R # {} /\ IsFiniteSet(R)
  <2>1. R = {s[x] : x \in DOMAIN s}
    BY DEF Range
  <2>2. IsFiniteSet(DOMAIN s)
    BY <1>1, FS_Interval
  <2>3. s[1] \in R
    BY <1>1, <2>1
  <2> QED
    BY <1>1, <2>1, <2>2, <2>3, FiniteRange
<1>6. Min(R) \in R /\ Max(R) \in R /\ \A y \in R : Min(R) <= y /\ y <= Max(R)
  <2> HIDE DEF R
  <2> QED
    BY <1>5, LeastInt, GreatestInt
<1>7. \A i \in 1 .. k : last[i] \in R
  BY <1>1, <1>2, <1>3 DEF Range
<1>8. m.sum = Total(last) /\ m.count = k
  <2>1. m = [sum |-> Total(last), count |-> Len(last)]
    BY DEF MovingAverage, last, from
  <2> QED
    BY <1>3, <2>1
<1> HIDE DEF k, m, R
<1>9. \A i \in 1 .. k : last[i] \in Int /\ Min(R) <= last[i] /\ last[i] <= Max(R)
  BY <1>5, <1>6, <1>7
<1>10. Total(last) = SumF(1 .. k, last)
  BY <1>4, <1>9, FoldIsSum
<1>11. IsFiniteSet(1 .. k) /\ Cardinality(1 .. k) = k
  BY <1>4, FS_Interval
<1>12. Min(R) \in Int /\ Max(R) \in Int
  BY <1>5, <1>6
<1> DEFINE S == 1 .. k
<1> HIDE DEF S
<1>13. Min(R) * Cardinality(S) <= SumF(S, last) /\ SumF(S, last) <= Max(R) * Cardinality(S)
  BY <1>9, <1>11, <1>12, SumBounds DEF S
<1> QED
  BY <1>8, <1>10, <1>11, <1>13 DEF Between, m, R, S

\* A forecast of a series with a past.
LEMMA ForecastsSeries ==
  ASSUME NEW s, NEW n \in Nat, n >= 2, s \in [1 .. n -> Int]
  PROVE  /\ Forecasts(Forecast(s), s)
         /\ Forecast(s).train + Forecast(s).test = n
<1> DEFINE w == TestWindows(n)
           train == n - w
           f == Forecast(s)
<1>1. w \in Int /\ 1 <= w /\ w <= train
  BY TestWindowsBound
<1>2. Len(s) = n /\ s \in Seq(Int)
  OBVIOUS
<1>3. /\ f.train = train /\ f.test = w /\ f.forecast = MovingAverage(s)
      /\ DOMAIN f.predicted = train + 1 .. n
      /\ \A i \in train + 1 .. n : f.predicted[i] = MovingAverage(SubSeq(s, 1, i - 1))
  BY <1>2 DEF Forecast
<1> HIDE DEF f, w
<1>4. Between(f.forecast, s)
  BY <1>3, AverageBetween
<1>5. ASSUME NEW i \in train + 1 .. n
      PROVE  Between(f.predicted[i], SubSeq(s, 1, i - 1))
  <2>1. i - 1 \in Nat /\ i - 1 >= 1 /\ i - 1 <= n
    BY <1>1
  <2>2. SubSeq(s, 1, i - 1) \in [1 .. i - 1 -> Int]
    <3> DEFINE j == i - 1
    <3>1. j \in Nat /\ 1 <= j /\ j <= n /\ Len(s) = n
      BY <1>2, <2>1
    <3> HIDE DEF j
    <3>2. SubSeq(s, 1, j) = [x \in 1 .. j |-> s[x]]
      BY <1>2, <3>1
    <3>3. \A x \in 1 .. j : s[x] \in Int
      BY <3>1
    <3> QED
      BY <3>2, <3>3 DEF j
  <2> QED
    BY <1>3, <2>1, <2>2, AverageBetween
<1>6. f.train > 0 /\ f.test \in 1 .. f.train /\ f.train + f.test = n
  BY <1>1, <1>3
<1> QED
  BY <1>2, <1>3, <1>4, <1>5, <1>6 DEF Forecasts, f

-----------------------------------------------------------------------------
\* A series is a sequence of integers, empty when nothing was ordered.
LEMMA SeriesType ==
  ASSUME NEW events, Ordered(events), NEW t, NEW size \in Sizes
  PROVE  \E n \in Nat : /\ Series(events, t, size) \in [1 .. n -> Int]
                        /\ Len(Series(events, t, size)) = n
                        /\ n = 0 <=> {e \in Items(events) : e.ticket = t} = {}
<1> DEFINE items == {e \in Items(events) : e.ticket = t}
           s == Series(events, t, size)
<1>1. IsFiniteSet(items) /\ \A e \in items : e.quantity \in Nat /\ e.quantity > 0
  <2>1. items \in SUBSET Items(events)
    OBVIOUS
  <2> QED
    BY <2>1, ItemsOrdered, FS_Subset
<1>2. CASE items = {}
  <2>1. s = <<>>
    BY <1>2 DEF Series
  <2>2. s \in [1 .. 0 -> Int] /\ Len(s) = 0
    BY <2>1
  <2> HIDE DEF s, items
  <2> QED
    BY <1>2, <2>2 DEF items, s
<1>3. CASE items # {}
  <2>1. PICK n \in Nat, first \in Int : Shape(s, items, size, first, n)
    BY <1>3, SeriesShape
  <2> HIDE DEF items
  <2>2. s = [i \in 1 .. n |-> s[i]]
    <3>1. s = [i \in 1 .. WindowCount(Min({WindowOf(e, size).start : e \in items}),
                                       Max({WindowOf(e, size).start : e \in items}),
                                       Duration[size]) |-> s[i]]
      BY <1>3 DEF Series, items
    <3> HIDE DEF s
    <3> QED
      BY <2>1, <3>1 DEF Shape
  <2> HIDE DEF s
  <2>3. \A i \in 1 .. n : s[i] \in Int
    <3> SUFFICES ASSUME NEW i \in 1 .. n PROVE s[i] \in Int
      OBVIOUS
    <3> DEFINE E == WindowItems(items, size, first, i)
    <3>1. E \in SUBSET items
      BY DEF WindowItems
    <3>2. s[i] = Sum(E, Quantity)
      BY <2>1 DEF Shape
    <3> HIDE DEF E
    <3> QED
      BY <1>1, <3>1, <3>2, WindowItemsSum
  <2>4. n >= 1 /\ Len(s) = n
    BY <2>1 DEF Shape
  <2>5. s \in [1 .. n -> Int]
    BY <2>2, <2>3
  <2> QED
    BY <1>3, <2>4, <2>5 DEF items, s
<1> QED
  BY <1>2, <1>3

\* Who gets a forecast, and which.
LEMMA DemandForecast ==
  ASSUME NEW events, NEW k
  PROVE  /\ k \in DOMAIN DemandForecasts(events) <=>
              /\ k \in {e.ticket : e \in Items(events)} \X Sizes
              /\ Len(Series(events, k[1], k[2])) \in 2 .. MaxSeries
         /\ k \in DOMAIN DemandForecasts(events) =>
              DemandForecasts(events)[k] = Forecast(Series(events, k[1], k[2]))
<1> DEFINE T == {e.ticket : e \in Items(events)}
           series == [q \in T \X Sizes |-> Series(events, q[1], q[2])]
           D == {q \in DOMAIN series : Len(series[q]) \in 2 .. MaxSeries}
<1>1. DemandForecasts(events) = [q \in D |-> Forecast(series[q])]
  BY DEF DemandForecasts
<1>2. k \in T \X Sizes => series[k] = Series(events, k[1], k[2])
  OBVIOUS
<1>3. DOMAIN series = T \X Sizes
  OBVIOUS
<1> HIDE DEF series, T
<1> QED
  BY <1>1, <1>2, <1>3 DEF T

\* Every forecast is one of its series.
LEMMA ForecastsHold ==
  ASSUME NEW events, Ordered(events), NEW k \in DOMAIN DemandForecasts(events)
  PROVE  /\ Forecasts(DemandForecasts(events)[k], Series(events, k[1], k[2]))
         /\ DemandForecasts(events)[k].train + DemandForecasts(events)[k].test =
              Len(Series(events, k[1], k[2]))
<1> DEFINE s == Series(events, k[1], k[2])
           forecasts == DemandForecasts(events)
<1>1. Len(s) \in 2 .. MaxSeries /\ forecasts[k] = Forecast(s)
  BY DemandForecast
<1>2. k[2] \in Sizes
  <2>1. k \in {e.ticket : e \in Items(events)} \X Sizes
    BY DemandForecast
  <2> QED
    BY <2>1
<1>3. PICK n \in Nat : s \in [1 .. n -> Int] /\ Len(s) = n
  BY <1>2, SeriesType
<1> HIDE DEF s, forecasts
<1>4. n >= 2
  BY <1>1, <1>3, DemandAssumption
<1> QED
  BY <1>1, <1>3, <1>4, ForecastsSeries DEF s, forecasts

\* The risk of a stockout is estimated where there is a forecast.
LEMMA RisksAgree ==
  ASSUME NEW events, Ordered(events), NEW t, NEW left \in Int
  PROVE  RiskAgrees(events, t, left)
<1> DEFINE k == <<t, StockoutSize>>
           s == Series(events, t, StockoutSize)
           forecasts == DemandForecasts(events)
           risk == StockoutRisk(events, t, left)
           items == {e \in Items(events) : e.ticket = t}
<1>1. StockoutSize \in Sizes /\ MaxSeries \in Nat
  BY DemandAssumption
<1>2. PICK n \in Nat : s \in [1 .. n -> Int] /\ Len(s) = n /\ (n = 0 <=> items = {})
  BY <1>1, SeriesType
<1>3. k \in DOMAIN forecasts <=> n \in 2 .. MaxSeries
  <2>1. k[1] = t /\ k[2] = StockoutSize
    OBVIOUS
  <2>2. k \in DOMAIN forecasts <=> t \in {e.ticket : e \in Items(events)} /\ n \in 2 .. MaxSeries
    <3> DEFINE T == {e.ticket : e \in Items(events)}
    <3>1. k \in DOMAIN forecasts <=> k \in T \X Sizes /\ Len(s) \in 2 .. MaxSeries
      <4>1. k \in DOMAIN forecasts <=>
              k \in T \X Sizes /\ Len(Series(events, k[1], k[2])) \in 2 .. MaxSeries
        BY DemandForecast
      <4> QED
        BY <2>1, <4>1
    <3>2. k \in T \X Sizes <=> t \in T
      BY <1>1
    <3> HIDE DEF s, T, forecasts, k
    <3> QED
      BY <1>2, <3>1, <3>2 DEF T
  <2>3. n # 0 => t \in {e.ticket : e \in Items(events)}
    <3>1. ASSUME n # 0 PROVE \E e \in Items(events) : e.ticket = t
      BY <1>2, <3>1
    <3> QED
      BY <3>1
  <2> HIDE DEF forecasts, k, s
  <2> QED
    BY <1>1, <1>2, <2>2, <2>3
<1> SUFFICES ASSUME left > 0
             PROVE  /\ risk.status = "estimated" <=> k \in DOMAIN forecasts
                    /\ k \in DOMAIN forecasts =>
                         risk.windows = forecasts[k].train + forecasts[k].test
  BY DEF RiskAgrees
<1>4. /\ n = 0 => risk.status = "no_observed_demand"
      /\ n > MaxSeries /\ n # 0 => risk.status = "insufficient_history"
      /\ n = 1 /\ ~(n > MaxSeries) => risk.status = "insufficient_history"
      /\ n > 1 /\ ~(n > MaxSeries) => risk.status = "estimated" /\ risk.windows = n
  <2> DEFINE base == [status |-> "estimated", windows |-> Len(s), demand |-> Total(s)]
  <2>1. risk = CASE left <= 0 -> [base EXCEPT !.status = "stockout", !.windows = 0, !.demand = 0]
                 [] left > 0 /\ s = <<>> -> [base EXCEPT !.status = "no_observed_demand"]
                 [] left > 0 /\ Len(s) > MaxSeries ->
                      [status |-> "insufficient_history", windows |-> 0, demand |-> 0]
                 [] left > 0 /\ Len(s) = 1 -> [base EXCEPT !.status = "insufficient_history"]
                 [] OTHER -> base
    BY DEF StockoutRisk
  <2>2. s = <<>> <=> n = 0
    <3>1. n = 0 => s = <<>>
      BY <1>2
    <3> HIDE DEF s
    <3> QED
      BY <1>2, <3>1
  <2>3. base.status = "estimated" /\ base.windows = n
    BY <1>2
  <2>4. \A x : /\ [base EXCEPT !.status = x].status = x
               /\ [base EXCEPT !.status = x].windows = n
    BY <1>2
  <2> HIDE DEF risk, s, base
  <2>5. CASE n = 0
    <3>1. Len(s) = 0 /\ ~(Len(s) > MaxSeries) /\ Len(s) # 1 /\ ~(left <= 0)
      BY <1>1, <1>2, <2>5
    <3> QED
      BY <2>1, <2>2, <2>4, <2>5, <3>1
  <2>6. CASE n # 0 /\ n > MaxSeries
    <3>1. ~(left <= 0) /\ s # <<>> /\ Len(s) > MaxSeries
      BY <1>2, <2>2, <2>6
    <3>2. risk.status = "insufficient_history"
      <4>1. CASE Len(s) = 1
        BY <2>1, <2>4, <3>1, <4>1
      <4>2. CASE Len(s) # 1
        BY <2>1, <3>1, <4>2
      <4> QED
        BY <4>1, <4>2
    <3> QED
      BY <2>6, <3>2
  <2>7. CASE n = 1 /\ ~(n > MaxSeries)
    <3>1. ~(left <= 0) /\ s # <<>> /\ ~(Len(s) > MaxSeries) /\ Len(s) = 1
      BY <1>2, <2>2, <2>7
    <3>2. risk = [base EXCEPT !.status = "insufficient_history"]
      BY <2>1, <3>1
    <3>3. risk.status = "insufficient_history"
      BY <2>4, <3>2
    <3> QED
      BY <2>7, <3>3
  <2>8. CASE n > 1 /\ ~(n > MaxSeries)
    <3>1. ~(left <= 0) /\ s # <<>> /\ ~(Len(s) > MaxSeries) /\ Len(s) # 1
      BY <1>2, <2>2, <2>8
    <3> QED
      BY <2>1, <2>3, <2>8, <3>1
  <2> QED
    BY <1>1, <2>5, <2>6, <2>7, <2>8
<1>5. k \in DOMAIN forecasts => forecasts[k].train + forecasts[k].test = n
  <2>1. k[1] = t /\ k[2] = StockoutSize
    OBVIOUS
  <2>2. Len(Series(events, k[1], k[2])) = n
    BY <1>2, <2>1
  <2> HIDE DEF k, s
  <2> QED
    BY <2>2, ForecastsHold
<1> HIDE DEF k, forecasts, risk, s
<1> QED
  BY <1>1, <1>2, <1>3, <1>4, <1>5

-----------------------------------------------------------------------------
(* More about sums.                                                        *)

LEMMA SumSingle ==
  ASSUME NEW x, NEW f, f[x] \in Int
  PROVE  SumF({x}, f) = f[x]
<1> DEFINE S == {x}
<1>1. IsFiniteSet(S) /\ (\A y \in S : f[y] \in Int) /\ x \in S /\ S \ {x} = {}
  BY FS_Singleton
<1> HIDE DEF S
<1>2. SumF(S, f) = f[x] + SumF({}, f)
  BY <1>1, SumRemove
<1>3. SumF({}, f) = 0
  BY SumEmpty
<1>4. SumF(S, f) = f[x]
  BY <1>2, <1>3
<1> QED
  BY <1>4 DEF S

\* A sum over other names of the same terms.
LEMMA SumReindex ==
  ASSUME NEW W, IsFiniteSet(W), NEW b, \A v \in W : \A w \in W : v # w => b[v] # b[w],
         NEW S, S = {b[w] : w \in W},
         NEW f, \A x \in S : f[x] \in Int,
         NEW e, \A w \in W : e[w] = f[b[w]]
  PROVE  SumF(W, e) = SumF(S, f)
<1> DEFINE E == [w \in W |-> {b[w]}]
<1>1. \A w \in W : E[w] = {b[w]} /\ b[w] \in S
  OBVIOUS
<1>2. \A w \in W : IsFiniteSet(E[w]) /\ \A x \in E[w] : f[x] \in Int
  BY <1>1, FS_Singleton
<1>3. \A v \in W : \A w \in W : v # w => E[v] \cap E[w] = {}
  BY <1>1
<1>4. \A w \in W : e[w] = SumF(E[w], f)
  <2> SUFFICES ASSUME NEW w \in W PROVE e[w] = SumF(E[w], f)
    OBVIOUS
  <2> DEFINE x == b[w]
  <2>1. f[x] \in Int /\ e[w] = f[x] /\ E[w] = {x}
    BY <1>1
  <2> HIDE DEF x, E
  <2> QED
    BY <2>1, SumSingle
<1>5. UNION {E[w] : w \in W} = S
  <2>1. \A x \in S : \E w \in W : x \in E[w]
    BY <1>1
  <2>2. \A w \in W : \A x \in E[w] : x \in S
    BY <1>1
  <2> HIDE DEF E
  <2> QED
    BY <2>1, <2>2
<1> HIDE DEF E
<1>6. SumF(W, e) = SumF(UNION {E[w] : w \in W}, f)
  BY <1>2, <1>3, <1>4, SumOfSums
<1> QED
  BY <1>5, <1>6

LEMMA SumZero ==
  ASSUME NEW S, IsFiniteSet(S), NEW f, \A x \in S : f[x] = 0
  PROVE  SumF(S, f) = 0
<1> DEFINE n == Cardinality(S)
<1>1. n \in Nat
  BY FS_CardinalityType
<1>2. \A x \in S : f[x] \in Int /\ 0 <= f[x] /\ f[x] <= 0
  OBVIOUS
<1>3. 0 * n <= SumF(S, f) /\ SumF(S, f) <= 0 * n /\ SumF(S, f) \in Int
  <2>1. 0 \in Int
    OBVIOUS
  <2> QED
    BY <1>2, <2>1, SumBounds, SumRemove
<1> HIDE DEF n
<1> QED
  BY <1>1, <1>3

\* A term is part of a sum.
LEMMA SumAtLeast ==
  ASSUME NEW S, IsFiniteSet(S), NEW f, \A x \in S : f[x] \in Nat
  PROVE  SumF(S, f) \in Nat /\ \A x \in S : f[x] <= SumF(S, f)
<1> DEFINE B == {s \in SUBSET S : SumF(s, f) \notin Nat}
<1>0. \A x \in S : f[x] \in Int
  OBVIOUS
<1>1. B = {}
  <2> SUFFICES ASSUME B # {} PROVE FALSE
    OBVIOUS
  <2>1. PICK s \in B : \A t \in SUBSET s : t # s => t \notin B
    <3>1. B \subseteq SUBSET S
      OBVIOUS
    <3> HIDE DEF B
    <3> QED
      BY <3>1, LeastSet
  <2>2. s \in SUBSET S /\ IsFiniteSet(s) /\ SumF(s, f) \notin Nat
    BY FS_Subset
  <2>3. CASE s = {}
    BY <2>2, <2>3, SumEmpty
  <2>4. CASE s # {}
    <3>1. PICK x \in s : TRUE
      BY <2>4
    <3> DEFINE t == s \ {x}
    <3>2. t \in SUBSET s /\ t # s /\ t \in SUBSET S
      BY <2>2, <3>1
    <3>3. SumF(t, f) \in Nat
      BY <2>1, <3>2
    <3>4. SumF(s, f) = f[x] + SumF(t, f)
      BY <1>0, <2>2, <3>1, SumRemove
    <3> HIDE DEF t
    <3> QED
      BY <2>2, <3>1, <3>3, <3>4
  <2> QED
    BY <2>3, <2>4
<1>2. SumF(S, f) \in Nat
  BY <1>1
<1>3. ASSUME NEW x \in S PROVE f[x] <= SumF(S, f)
  <2> DEFINE t == S \ {x}
  <2>1. SumF(t, f) \in Nat
    BY <1>1
  <2>2. SumF(S, f) = f[x] + SumF(t, f)
    BY <1>0, SumRemove
  <2>3. f[x] \in Nat
    OBVIOUS
  <2> HIDE DEF t
  <2> QED
    BY <2>1, <2>2, <2>3
<1> QED
  BY <1>2, <1>3
=============================================================================
