--------------------------- MODULE Coinbase_proof ---------------------------
(***************************************************************************)
(* Proofs about Coinbase, and the facts about finite sets and their sums   *)
(* they rest on, which the scores need as well.                            *)
(*                                                                         *)
(* Induction is stated for a set of subsets and not for an operator: a     *)
(* claim holds of S if the subsets it holds of contain {} and, with every  *)
(* set, that set and one element more.  Sums are over functions, Total of  *)
(* f over S; AreSums is the recursive function that MapThenSumSet takes    *)
(* its value from, so that its values are Totals by definition.            *)
(*                                                                         *)
(* A coinbase's outputs are those without a value, the worker's, and, for  *)
(* each other script, those of its destination; sums over parts that are   *)
(* apart add up.                                                           *)
(***************************************************************************)
EXTENDS Coinbase, FiniteSetTheorems, WellFoundedInduction, TLAPS
-----------------------------------------------------------------------------
(* Finite sets *)

\* A set of naturals has a least element.
LEMMA LeastNatural ==
    ASSUME NEW S \in SUBSET Nat, S # {}
    PROVE  \E x \in S : \A y \in S : x <= y
<1>1. PICK x \in S : \A y \in S : <<y, x>> \notin OpToRel(<, Nat)
    BY NatLessThanWellFounded, WFMin
<1>2. \A y \in S : ~(y < x)
    BY <1>1 DEF OpToRel
<1>3. \A y \in S : x <= y
    BY <1>2
<1> QED
    BY <1>3

\* Induction over the naturals, for a set of them.
LEMMA SetInduction ==
    ASSUME NEW S \in SUBSET Nat, 0 \in S, \A n \in S : n + 1 \in S
    PROVE  S = Nat
<1> SUFFICES ASSUME Nat \ S # {} PROVE FALSE
    OBVIOUS
<1>1. PICK n \in Nat \ S : \A m \in Nat \ S : n <= m
    BY LeastNatural
<1>2. n - 1 \in Nat /\ n - 1 \notin Nat \ S
    BY <1>1
<1> QED
    BY <1>1, <1>2

\* Induction over the subsets of a finite set, one element after the other.
LEMMA SubsetInduction ==
    ASSUME NEW S, IsFiniteSet(S), NEW P \in SUBSET SUBSET S, {} \in P,
           \A s \in P : \A x \in S \ s : s \union {x} \in P
    PROVE  S \in P
<1> DEFINE Done(n) == \A s \in SUBSET S : Cardinality(s) = n => s \in P
           N == {n \in Nat : Done(n)}
<1>1. \A s \in SUBSET S : IsFiniteSet(s) /\ Cardinality(s) \in Nat
    BY FS_Subset, FS_CardinalityType
<1>2. 0 \in N
    BY <1>1, FS_EmptySet
<1>3. ASSUME NEW n \in N PROVE n + 1 \in N
  <2> SUFFICES ASSUME NEW s \in SUBSET S, Cardinality(s) = n + 1 PROVE s \in P
      OBVIOUS
  <2>1. PICK x \in s : TRUE
      BY <1>1, FS_EmptySet
  <2>2. Cardinality(s \ {x}) = n
      BY <1>1, <2>1, FS_RemoveElement
  <2>3. s \ {x} \in P
      BY <2>2
  <2>4. x \in S \ (s \ {x}) /\ s = (s \ {x}) \union {x}
      BY <2>1
  <2> QED
      BY <2>3, <2>4
<1>4. N = Nat
  <2> HIDE DEF N
  <2>1. N \in SUBSET Nat
      BY DEF N
  <2> QED
      BY <1>2, <1>3, <2>1, SetInduction
<1> QED
    BY <1>1, <1>4

\* The values of finitely many elements are finitely many.
LEMMA ImageIsFinite ==
    ASSUME NEW S, IsFiniteSet(S), NEW f
    PROVE  IsFiniteSet({f[x] : x \in S})
<1> DEFINE Image(s) == {f[x] : x \in s}
           P == {s \in SUBSET S : IsFiniteSet(Image(s))}
<1>1. {} \in P
  <2>1. Image({}) = {}
      OBVIOUS
  <2> QED
      BY <2>1, FS_EmptySet
<1>2. ASSUME NEW s \in P, NEW x \in S \ s PROVE s \union {x} \in P
  <2>1. Image(s \union {x}) = Image(s) \union {f[x]}
      OBVIOUS
  <2>2. IsFiniteSet(Image(s) \union {f[x]})
      BY FS_AddElement
  <2> QED
      BY <2>1, <2>2
<1>3. S \in P
  <2> HIDE DEF P
  <2>1. P \in SUBSET SUBSET S
      BY DEF P
  <2> QED
      BY <1>1, <1>2, <2>1, SubsetInduction
<1> QED
    BY <1>3

\* A set of naturals has its minimum, and so has a finite set of integers; this
\* one has its maximum as well.
LEMMA MinOfNaturals ==
    ASSUME NEW S \in SUBSET Nat, S # {}
    PROVE  Min(S) \in S /\ \A y \in S : Min(S) <= y
BY LeastNatural DEF Min

LEMMA MinOfIntegers ==
    ASSUME NEW S \in SUBSET Int, IsFiniteSet(S), S # {}
    PROVE  Min(S) \in S /\ \A y \in S : Min(S) <= y
<1> DEFINE P == {s \in SUBSET S : s # {} => \E x \in s : \A y \in s : x <= y}
<1>1. {} \in P
    OBVIOUS
<1>2. ASSUME NEW s \in P, NEW z \in S \ s PROVE s \union {z} \in P
  <2>1. CASE s = {}
      BY <2>1
  <2>2. CASE s # {}
    <3>1. PICK x \in s : \A y \in s : x <= y
        BY <2>2
    <3>2. s \in SUBSET Int /\ x \in Int /\ z \in Int
        OBVIOUS
    <3>3. CASE x <= z
        BY <3>1, <3>2, <3>3
    <3>4. CASE z <= x
      <4>1. \A y \in s \union {z} : z <= y
          BY <3>1, <3>2, <3>4
      <4> QED
          BY <4>1
    <3> QED
        BY <3>2, <3>3, <3>4
  <2> QED
      BY <2>1, <2>2
<1>3. S \in P
  <2> HIDE DEF P
  <2>1. P \in SUBSET SUBSET S
      BY DEF P
  <2> QED
      BY <1>1, <1>2, <2>1, SubsetInduction
<1>4. \E x \in S : \A y \in S : x <= y
    BY <1>3
<1> QED
    BY <1>4 DEF Min

LEMMA MaxOfIntegers ==
    ASSUME NEW S \in SUBSET Int, IsFiniteSet(S), S # {}
    PROVE  Max(S) \in S /\ \A y \in S : Max(S) >= y
<1> DEFINE P == {s \in SUBSET S : s # {} => \E x \in s : \A y \in s : x >= y}
<1>1. {} \in P
    OBVIOUS
<1>2. ASSUME NEW s \in P, NEW z \in S \ s PROVE s \union {z} \in P
  <2>1. CASE s = {}
      BY <2>1
  <2>2. CASE s # {}
    <3>1. PICK x \in s : \A y \in s : x >= y
        BY <2>2
    <3>2. s \in SUBSET Int /\ x \in Int /\ z \in Int
        OBVIOUS
    <3>3. CASE x >= z
        BY <3>1, <3>2, <3>3
    <3>4. CASE z >= x
      <4>1. \A y \in s \union {z} : z >= y
          BY <3>1, <3>2, <3>4
      <4> QED
          BY <4>1
    <3> QED
        BY <3>2, <3>3, <3>4
  <2> QED
      BY <2>1, <2>2
<1>3. S \in P
  <2> HIDE DEF P
  <2>1. P \in SUBSET SUBSET S
      BY DEF P
  <2> QED
      BY <1>1, <1>2, <2>1, SubsetInduction
<1>4. \E x \in S : \A y \in S : x >= y
    BY <1>3
<1> QED
    BY <1>4 DEF Max

\* Of a finite set in a strict total order, exactly n elements have fewer than n
\* before them, unless there are not so many.
LEMMA FirstOfOrder ==
    ASSUME NEW S, IsFiniteSet(S), NEW before \in [S -> SUBSET S],
           \A x \in S : x \notin before[x],
           \A x, y \in S : x \in before[y] => before[x] \subseteq before[y],
           \A x, y \in S : x # y => x \in before[y] \/ y \in before[x],
           NEW n \in Nat, n <= Cardinality(S)
    PROVE  Cardinality({x \in S : Cardinality(before[x]) < n}) = n
<1> DEFINE rank(x) == Cardinality(before[x])
           First(m) == {x \in S : rank(x) < m}
           N == {m \in Nat : m <= Cardinality(S) => Cardinality(First(m)) = m}
<1>1. \A s \in SUBSET S : IsFiniteSet(s) /\ Cardinality(s) \in Nat
    BY FS_Subset, FS_CardinalityType
<1>2. \A x \in S : before[x] \in SUBSET S /\ rank(x) \in Nat
    BY <1>1
<1>3. ASSUME NEW x \in S, NEW y \in S, x \in before[y]
      PROVE  rank(x) < rank(y)
  <2>1. before[x] \subseteq before[y] /\ before[x] # before[y]
      BY <1>3
  <2>2. IsFiniteSet(before[y])
      BY <1>1, <1>2
  <2> QED
      BY <2>1, <2>2, <1>2, FS_Subset
<1> HIDE DEF rank
<1>4. 0 \in N
  <2>1. First(0) = {}
      BY <1>2
  <2> QED
      BY <2>1, FS_EmptySet
<1>5. ASSUME NEW m \in N PROVE m + 1 \in N
  <2> SUFFICES ASSUME m + 1 <= Cardinality(S) PROVE Cardinality(First(m + 1)) = m + 1
      OBVIOUS
  <2>1. Cardinality(First(m)) = m /\ Cardinality(S) \in Nat
      BY <1>1
  <2>2. S \ First(m) # {}
    <3>1. m < Cardinality(S)
        BY <2>1
    <3>2. First(m) # S
      <4> HIDE DEF First
      <4> QED
          BY <2>1, <3>1
    <3> QED
        BY <3>2
  <2>3. PICK x \in S \ First(m) : \A y \in S \ First(m) : rank(x) <= rank(y)
    <3> DEFINE R == {rank(y) : y \in S \ First(m)}
    <3>1. R \in SUBSET Nat /\ R # {}
        BY <1>2, <2>2
    <3>2. PICK r \in R : \A q \in R : r <= q
      <4> HIDE DEF R
      <4> QED
          BY <3>1, LeastNatural
    <3> QED
        BY <3>2
  <2>4. before[x] = First(m)
    <3>1. ASSUME NEW y \in before[x] PROVE y \in First(m)
      <4>1. y \in S /\ rank(y) < rank(x) /\ rank(y) \in Nat /\ rank(x) \in Nat
          BY <1>2, <1>3
      <4> QED
          BY <2>3, <4>1
    <3>2. ASSUME NEW y \in First(m) PROVE y \in before[x]
      <4>1. y \in S /\ rank(y) < m /\ ~(rank(x) < m) /\ rank(y) \in Nat /\ rank(x) \in Nat
          BY <1>2
      <4>2. ~(rank(x) < rank(y))
          BY <4>1
      <4>3. x \notin before[y] /\ x # y
          BY <1>3, <4>1, <4>2
      <4> QED
          BY <4>1, <4>3
    <3> QED
        BY <1>2, <3>1, <3>2
  <2>5. rank(x) = m
      BY <2>1, <2>4 DEF rank
  <2>6. First(m + 1) = First(m) \union {x}
    <3>1. ASSUME NEW y \in First(m + 1), y \notin First(m), y # x PROVE FALSE
      <4>1. y \in S /\ rank(y) = m
          BY <1>2, <3>1
      <4>2. x \in before[y] \/ y \in before[x]
          BY <3>1, <4>1
      <4>3. rank(x) < rank(y) \/ rank(y) < rank(x)
          BY <1>3, <4>1, <4>2
      <4> QED
          BY <2>5, <4>1, <4>3
    <3>2. First(m) \subseteq First(m + 1) /\ x \in First(m + 1)
        BY <1>2, <2>5
    <3> QED
        BY <3>1, <3>2
  <2>7. IsFiniteSet(First(m)) /\ x \notin First(m)
      BY <1>1
  <2> HIDE DEF First, N
  <2>8. Cardinality(First(m) \union {x}) = Cardinality(First(m)) + 1
      BY <2>7, FS_AddElement
  <2> QED
      BY <2>1, <2>6, <2>8
<1>6. N = Nat
  <2> HIDE DEF N
  <2>1. N \in SUBSET Nat
      BY DEF N
  <2> QED
      BY <1>4, <1>5, <2>1, SetInduction
<1>7. Cardinality(First(n)) = n
    BY <1>6
<1> QED
    BY <1>7 DEF rank
-----------------------------------------------------------------------------
(* Sums *)

\* The sums of f over the subsets of S, as MapThenSumSet computes them.
Some(s) == CHOOSE x \in s : TRUE
SumStep(g, f, s) == IF s = {} THEN 0 ELSE f[Some(s)] + g[s \ {Some(s)}]
AreSums(g, f, S) == g = [s \in SUBSET S |-> SumStep(g, f, s)]

\* The element that is taken out is one of the set.
LEMMA SomeElement == \A s : s # {} => Some(s) \in s
BY DEF Some

\* There are such sums: those of sets of at most n elements give those of one more.
LEMMA SumsExist ==
    ASSUME NEW S, IsFiniteSet(S), NEW f
    PROVE  \E g : AreSums(g, f, S)
<1> DEFINE Upto(n) == {s \in SUBSET S : Cardinality(s) <= n}
           Defined(n) == \E g : g = [s \in Upto(n) |-> SumStep(g, f, s)]
           N == {n \in Nat : Defined(n)}
<1>1. \A s \in SUBSET S : IsFiniteSet(s) /\ Cardinality(s) \in Nat /\ Cardinality(s) <= Cardinality(S)
    BY FS_Subset, FS_CardinalityType
<1>2. 0 \in N
  <2> DEFINE g == [s \in Upto(0) |-> 0]
  <2>1. \A s \in Upto(0) : s = {}
      BY <1>1, FS_EmptySet
  <2>2. g = [s \in Upto(0) |-> SumStep(g, f, s)]
      BY <2>1 DEF SumStep
  <2> QED
      BY <2>2
<1>3. ASSUME NEW n \in N PROVE n + 1 \in N
  <2>1. PICK g : g = [s \in Upto(n) |-> SumStep(g, f, s)]
      OBVIOUS
  <2> DEFINE h == [s \in Upto(n + 1) |-> SumStep(g, f, s)]
  <2>2. Upto(n) \subseteq Upto(n + 1)
      BY <1>1
  <2>3. \A s \in Upto(n) : h[s] = g[s]
      BY <2>1, <2>2
  <2>4. ASSUME NEW s \in Upto(n + 1), s # {} PROVE s \ {Some(s)} \in Upto(n)
    <3>1. Some(s) \in s
        BY <2>4, SomeElement
    <3>2. Cardinality(s \ {Some(s)}) = Cardinality(s) - 1
        BY <1>1, <3>1, FS_RemoveElement
    <3>3. s \ {Some(s)} \in SUBSET S
        OBVIOUS
    <3> QED
        BY <1>1, <3>2, <3>3
  <2>5. \A s \in Upto(n + 1) : SumStep(g, f, s) = SumStep(h, f, s)
      BY <2>3, <2>4 DEF SumStep
  <2>6. h = [s \in Upto(n + 1) |-> SumStep(h, f, s)]
      BY <2>5
  <2>7. Defined(n + 1)
    <3> HIDE DEF h
    <3> QED
        BY <2>6
  <2> HIDE DEF Defined
  <2> QED
      BY <2>7
<1>4. N = Nat
  <2> HIDE DEF N
  <2>1. N \in SUBSET Nat
      BY DEF N
  <2> QED
      BY <1>2, <1>3, <2>1, SetInduction
<1>5. Defined(Cardinality(S))
    BY <1>1, <1>4
<1>6. Upto(Cardinality(S)) = SUBSET S
    BY <1>1
<1> QED
    BY <1>5, <1>6 DEF AreSums

\* Sums are integers, and any element may be taken out first.
LEMMA SumsRemove ==
    ASSUME NEW S, IsFiniteSet(S), NEW f, \A x \in S : f[x] \in Int, NEW g, AreSums(g, f, S)
    PROVE  /\ g[{}] = 0
           /\ \A s \in SUBSET S : g[s] \in Int
           /\ \A s \in SUBSET S : \A x \in s : g[s] = f[x] + g[s \ {x}]
<1> DEFINE Good(s) == g[s] \in Int /\ \A x \in s : g[s] = f[x] + g[s \ {x}]
           Done(n) == \A s \in SUBSET S : Cardinality(s) <= n => Good(s)
           N == {n \in Nat : Done(n)}
<1>1. \A s \in SUBSET S : IsFiniteSet(s) /\ Cardinality(s) \in Nat /\ Cardinality(s) <= Cardinality(S)
    BY FS_Subset, FS_CardinalityType
<1>2. \A s \in SUBSET S : g[s] = SumStep(g, f, s)
    BY DEF AreSums
<1>3. g[{}] = 0
    BY <1>2 DEF SumStep
<1>4. 0 \in N
    BY <1>1, <1>3, FS_EmptySet
<1>5. ASSUME NEW n \in N PROVE n + 1 \in N
  <2> SUFFICES ASSUME NEW s \in SUBSET S, Cardinality(s) <= n + 1, s # {} PROVE Good(s)
    <3>1. Good({})
        BY <1>3
    <3>2. Done(n + 1) => n + 1 \in N
        OBVIOUS
    <3> HIDE DEF Good, N
    <3> QED
        BY <3>1, <3>2
  <2> DEFINE y == Some(s)
  <2>1. y \in s
      BY SomeElement
  <2>2. g[s] = f[y] + g[s \ {y}]
      BY <1>2, <2>1 DEF SumStep
  <2>3. \A x \in s : Good(s \ {x})
    <3> TAKE x \in s
    <3>1. Cardinality(s \ {x}) = Cardinality(s) - 1
        BY <1>1, FS_RemoveElement
    <3>2. Cardinality(s \ {x}) <= n
        BY <1>1, <3>1
    <3> QED
        BY <3>2
  <2> HIDE DEF y
  <2>4. ASSUME NEW x \in s, x # y PROVE g[s] = f[x] + g[s \ {x}]
    <3>1. g[s \ {y}] = f[x] + g[(s \ {y}) \ {x}]
        BY <2>1, <2>3, <2>4
    <3>2. g[s \ {x}] = f[y] + g[(s \ {x}) \ {y}]
        BY <2>1, <2>3, <2>4
    <3>3. (s \ {y}) \ {x} = (s \ {x}) \ {y}
        OBVIOUS
    <3>4. g[(s \ {y}) \ {x}] \in Int
      <4>1. Cardinality((s \ {y}) \ {x}) <= n
        <5>1. Cardinality(s \ {y}) = Cardinality(s) - 1
            BY <1>1, <2>1, FS_RemoveElement
        <5>2. Cardinality((s \ {y}) \ {x}) = Cardinality(s \ {y}) - 1
          <6>1. IsFiniteSet(s \ {y}) /\ x \in s \ {y}
              BY <1>1, <2>4
          <6> QED
              BY <6>1, FS_RemoveElement
        <5> QED
            BY <1>1, <5>1, <5>2
      <4> QED
          BY <4>1
    <3>5. f[x] \in Int /\ f[y] \in Int
        BY <2>1
    <3>6. f[y] + (f[x] + g[(s \ {y}) \ {x}]) = f[x] + (f[y] + g[(s \ {y}) \ {x}])
        BY <3>4, <3>5
    <3> QED
        BY <2>2, <3>1, <3>2, <3>3, <3>6
  <2>5. g[s] \in Int
    <3>1. f[y] \in Int /\ g[s \ {y}] \in Int
        BY <2>1, <2>3
    <3> QED
        BY <2>2, <3>1
  <2> QED
      BY <2>2, <2>4, <2>5
<1>6. N = Nat
  <2> HIDE DEF N
  <2>1. N \in SUBSET Nat
      BY DEF N
  <2> QED
      BY <1>4, <1>5, <2>1, SetInduction
<1>7. Done(Cardinality(S))
    BY <1>1, <1>6
<1>8. \A s \in SUBSET S : Good(s)
    BY <1>1, <1>7
<1> QED
    BY <1>3, <1>8

\* The sum of f over S, which is what MapThenSumSet computes.
Total(f, S) == (CHOOSE g : AreSums(g, f, S))[S]

\* A sum is the value of such a function of sums.
LEMMA TotalIsChosen ==
    ASSUME NEW S, IsFiniteSet(S), NEW f
    PROVE  \E g : AreSums(g, f, S) /\ Total(f, S) = g[S]
BY SumsExist DEF Total

\* The sums of a set and those of its subsets agree.
LEMMA TotalOfSubset ==
    ASSUME NEW S, IsFiniteSet(S), NEW f, \A x \in S : f[x] \in Int,
           NEW g, AreSums(g, f, S), NEW T \in SUBSET S
    PROVE  Total(f, T) = g[T]
<1>1. IsFiniteSet(T)
    BY FS_Subset
<1>2. PICK h : AreSums(h, f, T) /\ Total(f, T) = h[T]
    BY <1>1, TotalIsChosen
<1> DEFINE P == {s \in SUBSET T : g[s] = h[s]}
<1>3. /\ g[{}] = 0
      /\ \A s \in SUBSET S : \A x \in s : g[s] = f[x] + g[s \ {x}]
    BY SumsRemove
<1>4. /\ h[{}] = 0
      /\ \A s \in SUBSET T : \A x \in s : h[s] = f[x] + h[s \ {x}]
  <2>1. \A x \in T : f[x] \in Int
      OBVIOUS
  <2> HIDE DEF P
  <2> QED
      BY <1>1, <1>2, <2>1, SumsRemove
<1>5. {} \in P
    BY <1>3, <1>4
<1>6. ASSUME NEW s \in P, NEW x \in T \ s PROVE s \union {x} \in P
  <2>1. (s \union {x}) \ {x} = s /\ s \union {x} \in SUBSET T /\ s \union {x} \in SUBSET S
      OBVIOUS
  <2>2. g[s \union {x}] = f[x] + g[s] /\ h[s \union {x}] = f[x] + h[s]
      BY <1>3, <1>4, <2>1
  <2> QED
      BY <2>1, <2>2
<1>7. T \in P
  <2> HIDE DEF P
  <2>1. P \in SUBSET SUBSET T
      BY DEF P
  <2> QED
      BY <1>1, <1>5, <1>6, <2>1, SubsetInduction
<1> QED
    BY <1>2, <1>7

\* Nothing adds up to 0, sums are integers, and one element more adds its value.
LEMMA TotalFacts ==
    ASSUME NEW S, IsFiniteSet(S), NEW f, \A x \in S : f[x] \in Int
    PROVE  /\ Total(f, {}) = 0
           /\ Total(f, S) \in Int
           /\ \A T \in SUBSET S : Total(f, T) \in Int
           /\ \A T \in SUBSET S : \A x \in S \ T : Total(f, T \union {x}) = f[x] + Total(f, T)
<1>1. PICK g : AreSums(g, f, S)
    BY SumsExist
<1>2. \A T \in SUBSET S : Total(f, T) = g[T]
    BY <1>1, TotalOfSubset
<1>3. /\ g[{}] = 0
      /\ \A s \in SUBSET S : g[s] \in Int
      /\ \A s \in SUBSET S : \A x \in s : g[s] = f[x] + g[s \ {x}]
    BY <1>1, SumsRemove
<1>4. ASSUME NEW T \in SUBSET S, NEW x \in S \ T
      PROVE  Total(f, T \union {x}) = f[x] + Total(f, T)
  <2>1. (T \union {x}) \ {x} = T /\ T \union {x} \in SUBSET S
      OBVIOUS
  <2> QED
      BY <1>2, <1>3, <2>1
<1> QED
    BY <1>2, <1>3, <1>4

\* What agrees on S has the same sum over S.
LEMMA TotalSame ==
    ASSUME NEW S, IsFiniteSet(S), NEW f, \A x \in S : f[x] \in Int,
           NEW g, \A x \in S : g[x] = f[x]
    PROVE  Total(g, S) = Total(f, S)
<1> DEFINE P == {s \in SUBSET S : Total(g, s) = Total(f, s)}
<1>1. {} \in P
    BY TotalFacts
<1>2. ASSUME NEW s \in P, NEW x \in S \ s PROVE s \union {x} \in P
  <2>1. Total(f, s \union {x}) = f[x] + Total(f, s) /\ Total(g, s \union {x}) = g[x] + Total(g, s)
      BY TotalFacts
  <2> QED
      BY <2>1
<1> HIDE DEF P
<1>3. P \in SUBSET SUBSET S
    BY DEF P
<1>4. S \in P
    BY <1>1, <1>2, <1>3, SubsetInduction
<1> QED
    BY <1>4 DEF P

\* Zeros add nothing.
LEMMA TotalZero ==
    ASSUME NEW S, IsFiniteSet(S), NEW f, \A x \in S : f[x] = 0
    PROVE  Total(f, S) = 0
<1> DEFINE P == {s \in SUBSET S : Total(f, s) = 0}
<1>1. {} \in P
    BY TotalFacts
<1>2. ASSUME NEW s \in P, NEW x \in S \ s PROVE s \union {x} \in P
  <2>1. Total(f, s \union {x}) = f[x] + Total(f, s)
      BY TotalFacts
  <2> QED
      BY <2>1
<1> HIDE DEF P
<1>3. P \in SUBSET SUBSET S
    BY DEF P
<1>4. S \in P
    BY <1>1, <1>2, <1>3, SubsetInduction
<1> QED
    BY <1>4 DEF P

\* Naturals add up to a natural.
LEMMA TotalIsNatural ==
    ASSUME NEW S, IsFiniteSet(S), NEW f, \A x \in S : f[x] \in Nat
    PROVE  Total(f, S) \in Nat
<1> DEFINE P == {s \in SUBSET S : Total(f, s) \in Nat}
<1>1. {} \in P
    BY TotalFacts
<1>2. ASSUME NEW s \in P, NEW x \in S \ s PROVE s \union {x} \in P
  <2>1. Total(f, s \union {x}) = f[x] + Total(f, s)
      BY TotalFacts
  <2> QED
      BY <2>1
<1> HIDE DEF P
<1>3. P \in SUBSET SUBSET S
    BY DEF P
<1>4. S \in P
    BY <1>1, <1>2, <1>3, SubsetInduction
<1> QED
    BY <1>4 DEF P

\* What is apart adds up.
LEMMA TotalUnion ==
    ASSUME NEW S, IsFiniteSet(S), NEW T, IsFiniteSet(T), S \cap T = {},
           NEW f, \A x \in S \union T : f[x] \in Int
    PROVE  Total(f, S \union T) = Total(f, S) + Total(f, T)
<1> DEFINE P == {t \in SUBSET T : Total(f, S \union t) = Total(f, S) + Total(f, t)}
<1>1. IsFiniteSet(S \union T)
    BY FS_Union
<1>2. Total(f, S) \in Int /\ \A t \in SUBSET T : Total(f, t) \in Int
    BY <1>1, TotalFacts
<1>3. {} \in P
  <2>1. S \union {} = S /\ Total(f, {}) = 0
      BY TotalFacts
  <2> QED
      BY <1>2, <2>1
<1>4. ASSUME NEW t \in P, NEW x \in T \ t PROVE t \union {x} \in P
  <2>1. Total(f, t \union {x}) = f[x] + Total(f, t)
    <3> HIDE DEF P
    <3>1. t \in SUBSET T
        BY DEF P
    <3> QED
        BY <3>1, TotalFacts
  <2>2. Total(f, (S \union t) \union {x}) = f[x] + Total(f, S \union t)
    <3>1. S \union t \in SUBSET (S \union T) /\ x \in (S \union T) \ (S \union t)
        OBVIOUS
    <3> HIDE DEF P
    <3> DEFINE U == S \union T
               s == S \union t
    <3>2. IsFiniteSet(U) /\ (\A y \in U : f[y] \in Int) /\ s \in SUBSET U /\ x \in U \ s
        BY <1>1, <3>1
    <3> HIDE DEF U, s
    <3>3. Total(f, s \union {x}) = f[x] + Total(f, s)
        BY <3>2, TotalFacts
    <3> QED
        BY <3>3 DEF s
  <2>3. S \union (t \union {x}) = (S \union t) \union {x}
      OBVIOUS
  <2>4. f[x] \in Int /\ t \in SUBSET T /\ Total(f, S \union t) = Total(f, S) + Total(f, t)
      OBVIOUS
  <2>5. Total(f, S \union (t \union {x})) = Total(f, S) + Total(f, t \union {x})
      BY <1>2, <2>1, <2>2, <2>3, <2>4
  <2> QED
      BY <2>4, <2>5
<1>5. T \in P
  <2> HIDE DEF P
  <2>1. P \in SUBSET SUBSET T
      BY DEF P
  <2> QED
      BY <1>3, <1>4, <2>1, SubsetInduction
<1> QED
    BY <1>5

\* A part of naturals adds up to no more than the whole.
LEMMA TotalOfPart ==
    ASSUME NEW S, IsFiniteSet(S), NEW f, \A x \in S : f[x] \in Nat, NEW T \in SUBSET S
    PROVE  Total(f, T) <= Total(f, S)
<1> DEFINE R == S \ T
<1>1. IsFiniteSet(T) /\ IsFiniteSet(R)
    BY FS_Subset
<1>2. T \cap R = {} /\ T \union R = S /\ \A x \in T \union R : f[x] \in Int /\ f[x] \in Nat
    OBVIOUS
<1> HIDE DEF R
<1>3. Total(f, T \union R) = Total(f, T) + Total(f, R)
    BY <1>1, <1>2, TotalUnion
<1>4. Total(f, T) \in Nat /\ Total(f, R) \in Nat
    BY <1>1, <1>2, TotalIsNatural
<1>5. Total(f, S) = Total(f, T) + Total(f, R)
    BY <1>2, <1>3
<1> QED
    BY <1>4, <1>5

\* The sums of parts that are apart add up to the sum of all.
LEMMA TotalOfParts ==
    ASSUME NEW S, IsFiniteSet(S), NEW f, \A x \in S : f[x] \in Int,
           NEW K, IsFiniteSet(K), NEW part \in [K -> SUBSET S],
           \A j, k \in K : j # k => part[j] \cap part[k] = {}
    PROVE  Total(f, UNION {part[k] : k \in K}) = Total([k \in K |-> Total(f, part[k])], K)
<1> DEFINE of == [k \in K |-> Total(f, part[k])]
           All(L) == UNION {part[k] : k \in L}
           P == {L \in SUBSET K : Total(f, All(L)) = Total(of, L)}
<1>1. \A s \in SUBSET S : IsFiniteSet(s) /\ Total(f, s) \in Int
    BY FS_Subset, TotalFacts
<1>2. \A k \in K : of[k] \in Int
    BY <1>1
<1> HIDE DEF of
<1>3. {} \in P
  <2>1. All({}) = {}
      OBVIOUS
  <2> QED
      BY <1>2, <2>1, TotalFacts
<1>4. ASSUME NEW L \in P, NEW k \in K \ L PROVE L \union {k} \in P
  <2>1. All(L \union {k}) = All(L) \union part[k] /\ All(L) \cap part[k] = {}
      OBVIOUS
  <2>2. All(L) \in SUBSET S /\ part[k] \in SUBSET S
      OBVIOUS
  <2>3. Total(f, All(L) \union part[k]) = Total(f, All(L)) + Total(f, part[k])
    <3> HIDE DEF All, P
    <3> QED
        BY <1>1, <2>1, <2>2, TotalUnion
  <2>4. Total(of, L \union {k}) = of[k] + Total(of, L) /\ Total(of, L) \in Int
    <3>1. L \in SUBSET K
        OBVIOUS
    <3> HIDE DEF P
    <3> QED
        BY <1>2, <3>1, TotalFacts
  <2>5. of[k] = Total(f, part[k])
      BY DEF of
  <2>6. L \in SUBSET K /\ Total(f, All(L)) = Total(of, L)
      OBVIOUS
  <2>7. Total(f, All(L \union {k})) = Total(of, L \union {k})
    <3> HIDE DEF All, P
    <3>1. of[k] \in Int
        BY <1>2
    <3>2. Total(f, All(L \union {k})) = Total(of, L) + of[k]
        BY <2>1, <2>3, <2>5, <2>6
    <3> QED
        BY <2>4, <3>1, <3>2
  <2> QED
      BY <2>6, <2>7
<1>5. K \in P
  <2> HIDE DEF P
  <2>1. P \in SUBSET SUBSET K
      BY DEF P
  <2> QED
      BY <1>3, <1>4, <2>1, SubsetInduction
<1> QED
    BY <1>5 DEF of

\* A sum over the images of elements is one over the elements, if none coincide.
LEMMA TotalOfImage ==
    ASSUME NEW K, IsFiniteSet(K), NEW h, \A j, k \in K : h[j] = h[k] => j = k,
           NEW f, \A k \in K : f[h[k]] \in Int
    PROVE  /\ IsFiniteSet({h[k] : k \in K})
           /\ Total(f, {h[k] : k \in K}) = Total([k \in K |-> f[h[k]]], K)
<1> DEFINE of == [k \in K |-> f[h[k]]]
           Image(L) == {h[k] : k \in L}
           P == {L \in SUBSET K : IsFiniteSet(Image(L)) /\ Total(f, Image(L)) = Total(of, L)}
<1>1. \A k \in K : of[k] \in Int /\ of[k] = f[h[k]]
    OBVIOUS
<1> HIDE DEF of
<1>2. {} \in P
  <2>1. Image({}) = {}
      OBVIOUS
  <2>2. Total(f, {}) = 0 /\ Total(of, {}) = 0 /\ IsFiniteSet({})
      BY <1>1, TotalFacts, FS_EmptySet
  <2> QED
      BY <2>1, <2>2
<1>3. ASSUME NEW L \in P, NEW k \in K \ L PROVE L \union {k} \in P
  <2>1. Image(L \union {k}) = Image(L) \union {h[k]} /\ h[k] \notin Image(L)
      OBVIOUS
  <2>2. IsFiniteSet(Image(L)) /\ IsFiniteSet(Image(L) \union {h[k]})
      BY FS_AddElement
  <2>3. Total(f, Image(L) \union {h[k]}) = f[h[k]] + Total(f, Image(L))
    <3>1. \A x \in Image(L) \union {h[k]} : f[x] \in Int
        OBVIOUS
    <3>2. Image(L) \in SUBSET (Image(L) \union {h[k]}) /\ h[k] \in (Image(L) \union {h[k]}) \ Image(L)
        BY <2>1
    <3> HIDE DEF Image, P
    <3> QED
        BY <2>2, <3>1, <3>2, TotalFacts
  <2>4. Total(of, L \union {k}) = of[k] + Total(of, L)
    <3>1. L \in SUBSET K
        OBVIOUS
    <3> HIDE DEF P, Image
    <3> QED
        BY <1>1, <3>1, TotalFacts
  <2> QED
      BY <1>1, <2>1, <2>2, <2>3, <2>4
<1>4. K \in P
  <2> HIDE DEF P
  <2>1. P \in SUBSET SUBSET K
      BY DEF P
  <2> QED
      BY <1>2, <1>3, <2>1, SubsetInduction
<1> QED
    BY <1>4 DEF of
-----------------------------------------------------------------------------
(* Quotients *)

\* A quotient lies where its dividend lies between multiples of the divisor.
LEMMA QuotientWithin ==
    ASSUME NEW d \in Nat, d > 0, NEW a \in Int,
           NEW m \in Int, NEW n \in Int, m * d <= a, a <= n * d
    PROVE  a \div d \in m .. n
<1> DEFINE q == a \div d
<1>1. d * q <= a
    OBVIOUS
<1>2. a < d * q + d
    OBVIOUS
<1>3. q \in Int
    OBVIOUS
<1> HIDE DEF q
<1>4. q <= n
  <2> SUFFICES ASSUME q >= n + 1 PROVE FALSE
      BY <1>3
  <2>1. d * q >= d * (n + 1)
      BY <1>3
  <2> QED
      BY <1>1, <1>3, <2>1
<1>5. q >= m
  <2> SUFFICES ASSUME q + 1 <= m PROVE FALSE
      BY <1>3
  <2>1. d * (q + 1) <= d * m
      BY <1>3
  <2> QED
      BY <1>2, <1>3, <2>1
<1> QED
    BY <1>3, <1>4, <1>5 DEF q
-----------------------------------------------------------------------------
(* Coinbase *)

Output == [value : 0 .. MaxSats, script : Nat]
Outputs == Seq(Output)
Values(outputs) == [i \in DOMAIN outputs |-> outputs[i].value]

\* The values of outputs are integers, and there are finitely many.
LEMMA OutputValues ==
    ASSUME NEW outputs \in Outputs
    PROVE  /\ IsFiniteSet(DOMAIN outputs)
           /\ \A i \in DOMAIN outputs :
                 /\ Values(outputs)[i] = outputs[i].value
                 /\ Values(outputs)[i] \in Nat
                 /\ outputs[i].script \in Nat
<1>1. DOMAIN outputs = 1 .. Len(outputs) /\ Len(outputs) \in Nat
    BY DEF Outputs
<1>2. \A i \in DOMAIN outputs : outputs[i] \in Output
    BY DEF Outputs
<1>3. \A i \in DOMAIN outputs : outputs[i].value \in Nat /\ outputs[i].script \in Nat
    BY <1>2, WordAssumption DEF Output
<1>4. IsFiniteSet(DOMAIN outputs)
    BY <1>1, FS_Interval
<1> QED
    BY <1>3, <1>4 DEF Values

\* Sats adds up values.
LEMMA SatsAreTotals ==
    ASSUME NEW outputs \in Outputs, NEW I \in SUBSET DOMAIN outputs
    PROVE  /\ Sats(outputs, I) = Total(Values(outputs), I)
           /\ Sats(outputs, I) \in Nat
<1> DEFINE f == Values(outputs)
           IsIter(g) == g = [s \in SUBSET I |->
                               IF s = {} THEN 0
                               ELSE outputs[CHOOSE x \in s : TRUE].value
                                      + g[s \ {CHOOSE x \in s : TRUE}]]
<1>1. /\ IsFiniteSet(I)
      /\ \A i \in I : f[i] = outputs[i].value /\ f[i] \in Int /\ f[i] >= 0
    BY OutputValues, FS_Subset
<1>2. \A s \in SUBSET I : s # {} => Some(s) \in I
    BY SomeElement
<1> HIDE DEF f
<1>3. \A g : IsIter(g) <=> AreSums(g, f, I)
    BY <1>1, <1>2 DEF AreSums, SumStep, Some
<1>4. \E g : IsIter(g)
  <2> HIDE DEF IsIter
  <2> QED
      BY <1>1, <1>3, SumsExist
<1>5. Sats(outputs, I) = (CHOOSE g : IsIter(g))[I]
    BY DEF Sats, MapThenSumSet, MapThenFoldSet
<1> HIDE DEF IsIter
<1>6. AreSums(CHOOSE g : IsIter(g), f, I)
    BY <1>3, <1>4
<1>7. Total(f, I) = Sats(outputs, I)
    BY <1>1, <1>5, <1>6, TotalOfSubset
<1> QED
    BY <1>1, <1>7, TotalIsNatural DEF f

\* Worth adds up the values of destinations.
Value(D) == [d \in D |-> d.value]

LEMMA WorthIsTotal ==
    ASSUME NEW D, IsFiniteSet(D), \A d \in D : d.value \in Nat, NEW E \in SUBSET D
    PROVE  /\ Worth(E) = Total(Value(D), E)
           /\ Worth(E) \in Nat
<1> DEFINE f == Value(D)
           IsIter(g) == g = [s \in SUBSET E |->
                               IF s = {} THEN 0
                               ELSE (CHOOSE x \in s : TRUE).value
                                      + g[s \ {CHOOSE x \in s : TRUE}]]
<1>1. /\ IsFiniteSet(E)
      /\ \A d \in E : f[d] = d.value /\ f[d] \in Nat /\ f[d] \in Int
    BY FS_Subset DEF Value
<1>2. \A s \in SUBSET E : s # {} => Some(s) \in E
    BY SomeElement
<1> HIDE DEF f
<1>3. \A g : IsIter(g) <=> AreSums(g, f, E)
    BY <1>1, <1>2 DEF AreSums, SumStep, Some
<1>4. \E g : IsIter(g)
  <2> HIDE DEF IsIter
  <2> QED
      BY <1>1, <1>3, SumsExist
<1>5. Worth(E) = (CHOOSE g : IsIter(g))[E]
    BY DEF Worth, MapThenSumSet, MapThenFoldSet
<1> HIDE DEF IsIter
<1>6. AreSums(CHOOSE g : IsIter(g), f, E)
    BY <1>3, <1>4
<1>7. Total(f, E) = Worth(E)
    BY <1>1, <1>5, <1>6, TotalOfSubset
<1> QED
    BY <1>1, <1>7, TotalIsNatural DEF f

\* Destinations are finitely many, one for each script but the worker's, and are
\* worth what is paid to all these scripts together.
LEMMA DestinationsAreWorth ==
    ASSUME NEW outputs \in Outputs
    PROVE  /\ IsFiniteSet(Destinations(outputs))
           /\ \A d \in Destinations(outputs) :
                 d \in [script : Nat, value : Nat] /\ d.script # Worker
           /\ \A c, d \in Destinations(outputs) : c.script = d.script => c = d
           /\ Worth(Destinations(outputs))
                = Sats(outputs, Paying(outputs) \ PaidTo(outputs, Worker))
<1> DEFINE D == DOMAIN outputs
           K == {outputs[i].script : i \in Paying(outputs)} \ {Worker}
           part == [s \in K |-> PaidTo(outputs, s)]
           f == Values(outputs)
           h == [s \in K |-> [script |-> s, value |-> Sats(outputs, part[s])]]
           all == Destinations(outputs)
<1>1. IsFiniteSet(D) /\ \A i \in D : f[i] \in Int /\ outputs[i].script \in Nat
    BY OutputValues
<1>2. Paying(outputs) \in SUBSET D /\ \A s : PaidTo(outputs, s) \in SUBSET D
    BY DEF Paying, PaidTo
<1>3. IsFiniteSet(K) /\ K \in SUBSET Nat
  <2>1. IsFiniteSet(Paying(outputs))
      BY <1>1, <1>2, FS_Subset
  <2>2. IsFiniteSet({outputs[i].script : i \in Paying(outputs)})
    <3> DEFINE I == Paying(outputs)
               g == [i \in I |-> outputs[i].script]
    <3>1. {outputs[i].script : i \in I} = {g[i] : i \in I}
        OBVIOUS
    <3>2. g \in [I -> Nat] /\ IsFiniteSet(I)
        BY <1>1, <1>2, <2>1
    <3> HIDE DEF g, I
    <3>3. IsFiniteSet({g[i] : i \in I})
        BY <3>2, ImageIsFinite
    <3> QED
        BY <3>1, <3>3 DEF I
  <2> QED
      BY <1>1, <1>2, <2>2, FS_Subset
<1>4. part \in [K -> SUBSET D]
    BY <1>2
<1>5. \A j, k \in K : j # k => part[j] \cap part[k] = {}
    BY DEF PaidTo
<1>6. UNION {part[s] : s \in K} = Paying(outputs) \ PaidTo(outputs, Worker)
  <2>1. \A s \in K : part[s] \subseteq Paying(outputs) \ PaidTo(outputs, Worker)
      BY DEF PaidTo
  <2>2. \A i \in Paying(outputs) \ PaidTo(outputs, Worker) :
           outputs[i].script \in K /\ i \in part[outputs[i].script]
      BY DEF PaidTo
  <2> HIDE DEF K, part
  <2> QED
      BY <2>1, <2>2
<1>7. \A s \in K : Sats(outputs, part[s]) = Total(f, part[s]) /\ Sats(outputs, part[s]) \in Nat
    BY <1>4, SatsAreTotals
<1>8. all = {h[s] : s \in K}
    BY DEF Destinations
<1>9. \A s \in K : h[s].script = s /\ h[s].value = Sats(outputs, part[s])
                   /\ h[s] \in [script : Nat, value : Nat]
    BY <1>3, <1>7
<1> HIDE DEF D, part, f, h, all
<1>10. \A j, k \in K : h[j] = h[k] => j = k
    BY <1>9
<1>11. \A s \in K : Value(all)[h[s]] = Total(f, part[s]) /\ Value(all)[h[s]] \in Int
    BY <1>7, <1>8, <1>9 DEF Value
<1>12. IsFiniteSet(all) /\ Total(Value(all), all) = Total([s \in K |-> Value(all)[h[s]]], K)
  <2> DEFINE v == Value(all)
  <2>1. IsFiniteSet(K) /\ \A s \in K : v[h[s]] \in Int
      BY <1>3, <1>11
  <2> HIDE DEF K, v
  <2>2. IsFiniteSet({h[s] : s \in K}) /\ Total(v, {h[s] : s \in K}) = Total([s \in K |-> v[h[s]]], K)
      BY <1>10, <2>1, TotalOfImage
  <2> QED
      BY <1>8, <2>2 DEF v
<1>13. [s \in K |-> Value(all)[h[s]]] = [s \in K |-> Total(f, part[s])]
    BY <1>11
<1>14. Total(f, UNION {part[s] : s \in K}) = Total([s \in K |-> Total(f, part[s])], K)
  <2> HIDE DEF K
  <2> QED
      BY <1>1, <1>3, <1>4, <1>5, TotalOfParts
<1>15. Worth(all) = Total(Value(all), all)
    BY <1>8, <1>9, <1>12, WorthIsTotal
<1>16. Total(f, UNION {part[s] : s \in K}) = Sats(outputs, Paying(outputs) \ PaidTo(outputs, Worker))
  <2>1. Paying(outputs) \ PaidTo(outputs, Worker) \in SUBSET DOMAIN outputs
      BY <1>2 DEF D
  <2> QED
      BY <1>6, <2>1, SatsAreTotals DEF f
<1>17. Worth(all) = Sats(outputs, Paying(outputs) \ PaidTo(outputs, Worker))
    BY <1>12, <1>13, <1>14, <1>15, <1>16
<1> QED
    BY <1>8, <1>9, <1>12, <1>17 DEF all

\* What is not the worker's goes to destinations, outputs without a value apart.
LEMMA TotalIsShared ==
    ASSUME NEW outputs \in Outputs
    PROVE  Sats(outputs, DOMAIN outputs)
             = Sats(outputs, PaidTo(outputs, Worker)) + Worth(Destinations(outputs))
<1> DEFINE f == Values(outputs)
           D == DOMAIN outputs
           W == PaidTo(outputs, Worker)
           R == Paying(outputs) \ W
           Z == D \ Paying(outputs)
<1>1. IsFiniteSet(D) /\ \A i \in D : f[i] = outputs[i].value /\ f[i] \in Nat /\ f[i] \in Int
    BY OutputValues
<1>2. /\ W \in SUBSET D /\ R \in SUBSET D /\ Z \in SUBSET D /\ Paying(outputs) \in SUBSET D
      /\ W \union R = Paying(outputs) /\ W \cap R = {}
      /\ Paying(outputs) \union Z = D /\ Paying(outputs) \cap Z = {}
    BY DEF Paying, PaidTo
<1>3. IsFiniteSet(W) /\ IsFiniteSet(R) /\ IsFiniteSet(Z) /\ IsFiniteSet(Paying(outputs))
    BY <1>1, <1>2, FS_Subset
<1>4. \A i \in Z : f[i] = 0
    BY <1>1 DEF Paying
<1>5. \A I \in SUBSET D : Sats(outputs, I) = Total(f, I) /\ Total(f, I) \in Nat
    BY SatsAreTotals
<1>6. Worth(Destinations(outputs)) = Sats(outputs, R)
    BY DestinationsAreWorth
<1> HIDE DEF f, D, W, R, Z
<1>7. Total(f, Paying(outputs) \union Z) = Total(f, Paying(outputs)) + Total(f, Z)
    BY <1>1, <1>2, <1>3, TotalUnion
<1>8. Total(f, W \union R) = Total(f, W) + Total(f, R)
    BY <1>1, <1>2, <1>3, TotalUnion
<1>9. Total(f, Z) = 0
    BY <1>3, <1>4, TotalZero
<1>10. Sats(outputs, D) = Sats(outputs, W) + Worth(Destinations(outputs))
  <2>1. Sats(outputs, D) = Total(f, D) /\ Sats(outputs, W) = Total(f, W)
        /\ Worth(Destinations(outputs)) = Total(f, R)
      BY <1>2, <1>5, <1>6
  <2>2. Total(f, W) \in Nat /\ Total(f, R) \in Nat
      BY <1>2, <1>5
  <2>3. Total(f, Paying(outputs)) = Total(f, W) + Total(f, R)
      BY <1>2, <1>8
  <2>4. Total(f, D) = Total(f, Paying(outputs)) + 0
      BY <1>2, <1>7, <1>9
  <2>5. Total(f, D) = Total(f, W) + Total(f, R)
      BY <2>2, <2>3, <2>4
  <2> QED
      BY <2>1, <2>5
<1> QED
    BY <1>10 DEF D, W

\* Destinations are kept while there is room, the largest of them.
LEMMA StoredFillsRoom ==
    ASSUME NEW outputs \in Outputs
    PROVE  LET all == Destinations(outputs) IN
           \/ Stored(all) = all
           \/ Cardinality(Stored(all)) = MaxStored
<1> DEFINE all == Destinations(outputs)
           before == [d \in all |-> {c \in all : Before(c, d)}]
<1>1. /\ IsFiniteSet(all) /\ \A d \in all : d.script \in Nat /\ d.value \in Nat
      /\ \A c, d \in all : c.script = d.script => c = d
    BY DestinationsAreWorth
<1> HIDE DEF all
<1>2. before \in [all -> SUBSET all] /\ \A d \in all : d \notin before[d]
    BY <1>1 DEF Before
<1>3. \A c, d \in all : c \in before[d] => before[c] \subseteq before[d]
    BY <1>1 DEF Before
<1>4. \A c, d \in all : c # d => c \in before[d] \/ d \in before[c]
  <2> TAKE c, d \in all
  <2> HAVE c # d
  <2>1. c.script # d.script /\ c.script \in Nat /\ d.script \in Nat /\ c.value \in Nat /\ d.value \in Nat
      BY <1>1
  <2> QED
      BY <2>1 DEF Before
<1>5. Stored(all) = {d \in all : Cardinality(before[d]) < MaxStored}
    BY DEF Stored
<1> HIDE DEF before
<1>6. CASE MaxStored <= Cardinality(all)
  <2>1. Cardinality({d \in all : Cardinality(before[d]) < MaxStored}) = MaxStored
      BY <1>1, <1>2, <1>3, <1>4, <1>6, WordAssumption, FirstOfOrder
  <2> QED
      BY <1>5, <2>1 DEF all
<1>7. CASE Cardinality(all) < MaxStored
  <2>1. \A d \in all : Cardinality(before[d]) <= Cardinality(all) /\ Cardinality(before[d]) \in Nat
      BY <1>1, <1>2, FS_Subset, FS_CardinalityType
  <2>2. \A d \in all : Cardinality(before[d]) < MaxStored
      BY <1>1, <1>7, <2>1, FS_CardinalityType, WordAssumption
  <2> QED
      BY <1>5, <2>2 DEF all
<1>8. Cardinality(all) \in Nat
    BY <1>1, FS_CardinalityType
<1> QED
    BY <1>6, <1>7, <1>8, WordAssumption

\* Evidence accounts for every sat of its coinbase.
LEMMA AnalysisConserves ==
    ASSUME NEW coinbase \in Coinbases, analyzeCoinbase(coinbase).decoded
    PROVE  Conserved(analyzeCoinbase(coinbase))
<1> DEFINE outputs == coinbase.outputs
           all == Destinations(outputs)
           evidence == analyzeCoinbase(coinbase)
<1>1. outputs \in Outputs
    BY DEF Coinbases, Outputs, Output
<1>2. /\ evidence.total = Sats(outputs, DOMAIN outputs)
      /\ evidence.worker = Sats(outputs, PaidTo(outputs, Worker))
      /\ evidence.stored = Stored(all)
      /\ evidence.omitted = Worth(all \ Stored(all))
    BY DEF analyzeCoinbase, Unreadable, Omitted
<1>3. /\ IsFiniteSet(all)
      /\ \A d \in all : d.value \in Nat /\ d.script # Worker
    BY <1>1, DestinationsAreWorth
<1>4. Stored(all) \in SUBSET all
    BY DEF Stored
<1>5. evidence.total = evidence.worker + Worth(all)
    BY <1>1, <1>2, TotalIsShared
<1>6. evidence.worker \in Nat
  <2>1. PaidTo(outputs, Worker) \in SUBSET DOMAIN outputs
      BY DEF PaidTo, Paying
  <2> QED
      BY <1>1, <1>2, <2>1, SatsAreTotals
<1>7. Stored(all) = all \/ Cardinality(Stored(all)) = MaxStored
    BY <1>1, StoredFillsRoom
<1> HIDE DEF outputs, all, evidence
<1>8. /\ Worth(all) = Total(Value(all), all)
      /\ Worth(Stored(all)) = Total(Value(all), Stored(all)) /\ Worth(Stored(all)) \in Nat
      /\ Worth(all \ Stored(all)) = Total(Value(all), all \ Stored(all)) /\ Worth(all \ Stored(all)) \in Nat
    BY <1>3, <1>4, WorthIsTotal
<1>9. Worth(all) = Worth(Stored(all)) + Worth(all \ Stored(all))
  <2>1. all = Stored(all) \union (all \ Stored(all)) /\ Stored(all) \cap (all \ Stored(all)) = {}
      BY <1>4
  <2>2. IsFiniteSet(Stored(all)) /\ IsFiniteSet(all \ Stored(all))
      BY <1>3, <1>4, FS_Subset
  <2>3. \A d \in Stored(all) \union (all \ Stored(all)) : Value(all)[d] \in Int
      BY <1>3, <2>1 DEF Value
  <2>4. Total(Value(all), Stored(all) \union (all \ Stored(all)))
          = Total(Value(all), Stored(all)) + Total(Value(all), all \ Stored(all))
      BY <2>1, <2>2, <2>3, TotalUnion
  <2> QED
      BY <1>8, <2>1, <2>4
<1>10. evidence.total = evidence.worker + evidence.omitted + Worth(evidence.stored)
    BY <1>2, <1>5, <1>6, <1>8, <1>9
<1>11. evidence.omitted > 0 => Cardinality(evidence.stored) = MaxStored
  <2>1. CASE Stored(all) = all
    <3>1. all \ Stored(all) = {}
        BY <2>1
    <3>2. Total(Value(all), {}) = 0
      <4>1. \A d \in all : Value(all)[d] \in Int
          BY <1>3 DEF Value
      <4> QED
          BY <1>3, <4>1, TotalFacts
    <3> QED
        BY <1>2, <1>8, <3>1, <3>2
  <2> QED
      BY <1>2, <1>7, <2>1
<1>12. \A d \in evidence.stored : d.script # Worker
    BY <1>2, <1>3, <1>4
<1> QED
    BY <1>10, <1>11, <1>12 DEF Conserved, evidence
\* No sum that is made of a coinbase passes 64 bits once its total does not, so that
\* the checks of the worker's and the destinations' sums never fail; and a fee is a
\* share.
THEOREM SumsFit ==
    ASSUME NEW coinbase \in Coinbases, analyzeCoinbase(coinbase).decoded
    PROVE  LET evidence == analyzeCoinbase(coinbase)
               outputs  == coinbase.outputs
           IN  /\ evidence.total <= MaxSats
               /\ evidence.worker <= evidence.total
               /\ \A script \in Nat : Sats(outputs, PaidTo(outputs, script)) <= evidence.total
               /\ evidence.omitted <= evidence.total
               /\ evidence.fee \subseteq 0 .. 10000
<1> DEFINE outputs == coinbase.outputs
           evidence == analyzeCoinbase(coinbase)
           all == Destinations(outputs)
           total == Sats(outputs, DOMAIN outputs)
           worker == Sats(outputs, PaidTo(outputs, Worker))
           omitted == Worth(all \ Stored(all))
<1>1. outputs \in Outputs
    BY DEF Coinbases, Outputs, Output
<1>2. /\ evidence.total = total /\ ~(total > MaxSats)
      /\ evidence.worker = worker /\ evidence.omitted = omitted
      /\ evidence.fee = IF PaidTo(outputs, Worker) # {} THEN {(10000 * (total - worker)) \div total} ELSE {}
    BY DEF analyzeCoinbase, Unreadable, Omitted
<1>3. \A script : PaidTo(outputs, script) \in SUBSET DOMAIN outputs
    BY DEF PaidTo, Paying
<1>4. ASSUME NEW script PROVE Sats(outputs, PaidTo(outputs, script)) <= total
  <2> DEFINE f == Values(outputs)
             I == PaidTo(outputs, script)
             D == DOMAIN outputs
  <2>1. IsFiniteSet(D) /\ (\A i \in D : f[i] \in Nat) /\ I \in SUBSET D
      BY <1>1, <1>3, OutputValues
  <2>2. Sats(outputs, I) = Total(f, I) /\ total = Total(f, D)
      BY <1>1, <1>3, SatsAreTotals
  <2> HIDE DEF f, I, D
  <2>3. Total(f, I) <= Total(f, D)
      BY <2>1, TotalOfPart
  <2>4. Sats(outputs, I) <= total
      BY <2>2, <2>3
  <2> QED
      BY <2>4 DEF I
<1>5. total \in Nat /\ worker \in Nat /\ worker <= total
    BY <1>1, <1>3, <1>4, SatsAreTotals
<1>6. omitted <= total
  <2>1. Worth(all) = total - worker
    <3>1. total = worker + Worth(all) /\ Worth(all) \in Nat
        BY <1>1, TotalIsShared, DestinationsAreWorth, WorthIsTotal
    <3> QED
        BY <1>5, <3>1
  <2>2. IsFiniteSet(all) /\ (\A d \in all : d.value \in Nat) /\ all \ Stored(all) \in SUBSET all
      BY <1>1, DestinationsAreWorth
  <2>3. omitted = Total(Value(all), all \ Stored(all)) /\ Worth(all) = Total(Value(all), all)
    <3> HIDE DEF all
    <3> QED
        BY <2>2, WorthIsTotal
  <2>4. Total(Value(all), all \ Stored(all)) <= Total(Value(all), all)
    <3>1. \A d \in all : Value(all)[d] \in Nat
        BY <2>2 DEF Value
    <3> HIDE DEF all
    <3> QED
        BY <2>2, <3>1, TotalOfPart
  <2>5. omitted \in Nat
    <3> HIDE DEF all
    <3> QED
        BY <2>2, WorthIsTotal
  <2> HIDE DEF total, worker, omitted, all
  <2>6. omitted <= total - worker
      BY <2>1, <2>3, <2>4
  <2> QED
      BY <1>5, <2>5, <2>6
<1>7. evidence.fee \subseteq 0 .. 10000
  <2>1. CASE PaidTo(outputs, Worker) # {}
    <3>1. PICK i \in PaidTo(outputs, Worker) : TRUE
        BY <2>1
    <3>2. total > 0
      <4> DEFINE f == Values(outputs)
                 D == DOMAIN outputs
      <4>1. i \in D /\ f[i] > 0 /\ f[i] \in Nat
          BY <1>1, <3>1, OutputValues DEF PaidTo, Paying
      <4>2. IsFiniteSet(D) /\ (\A j \in D : f[j] \in Nat) /\ total = Total(f, D) /\ {i} \in SUBSET D
          BY <1>1, <4>1, OutputValues, SatsAreTotals
      <4> HIDE DEF f, D
      <4>3. Total(f, {i}) <= Total(f, D)
          BY <4>2, TotalOfPart
      <4>4. Total(f, {i}) = f[i] + 0
        <5>1. (\A j \in D : f[j] \in Int) /\ {} \in SUBSET D /\ i \in D \ {} /\ {} \union {i} = {i}
            BY <4>1, <4>2
        <5>2. Total(f, {} \union {i}) = f[i] + Total(f, {}) /\ Total(f, {}) = 0
            BY <4>2, <5>1, TotalFacts
        <5> QED
            BY <5>1, <5>2
      <4> HIDE DEF total
      <4> QED
          BY <1>5, <4>1, <4>2, <4>3, <4>4
    <3> HIDE DEF total, worker
    <3>3. 10000 * (total - worker) >= 0 /\ 10000 * (total - worker) <= 10000 * total
        BY <1>5
    <3> DEFINE share == (10000 * (total - worker)) \div total
    <3>4. share \in 0 .. 10000
        BY <1>5, <3>2, <3>3, QuotientWithin
    <3>5. evidence.fee = {share}
        BY <1>2, <2>1
    <3> HIDE DEF evidence, share
    <3> QED
        BY <3>4, <3>5
  <2>2. CASE PaidTo(outputs, Worker) = {}
      BY <1>2, <2>2
  <2> QED
      BY <2>1, <2>2
<1> HIDE DEF evidence, total, worker, omitted
<1>8. /\ evidence.total <= MaxSats
      /\ evidence.worker <= evidence.total
      /\ evidence.omitted <= evidence.total
    BY <1>2, <1>5, <1>6, WordAssumption
<1>9. \A script \in Nat : Sats(outputs, PaidTo(outputs, script)) <= evidence.total
    BY <1>2, <1>4
<1> QED
    BY <1>7, <1>8, <1>9 DEF evidence
=============================================================================
