------------------------------ MODULE CafeLemmas ------------------------------
(***************************************************************************)
(* What the proofs about the tables and the log share: sums over finite    *)
(* sets, and what each call of client.c preserves, as facts about one      *)
(* record: the result has the record's type and is well formed if the      *)
(* argument was.                                                           *)
(***************************************************************************)
EXTENDS ClientRecord, FiniteSetTheorems, WellFoundedInduction, TLAPS

-----------------------------------------------------------------------------
(* Sums *)

\* A set of natural numbers that is not empty has a least one.
LEMMA LeastNat ==
  ASSUME NEW D \in SUBSET Nat, D # {}
  PROVE  \E n \in D : \A k \in D : n <= k
<1>1. IsWellFoundedOn({p \in Nat \X Nat : p[1] < p[2]}, Nat)
  BY NatLessThanWellFounded DEF OpToRel
<1>2. PICK n \in D : \A k \in D : <<k, n>> \notin {p \in Nat \X Nat : p[1] < p[2]}
  BY <1>1, WFMin, Zenon
<1>3. ASSUME NEW k \in D PROVE n <= k
  <2>1. k \in Nat /\ n \in Nat /\ ~(k < n)
    BY <1>2
  <2> QED
    BY <2>1
<1> QED
  BY <1>3

\* The element that a sum takes first
First(T) == CHOOSE x \in T : TRUE

LEMMA FirstIn == ASSUME NEW T, T # {} PROVE First(T) \in T
  BY DEF First

\* What is asked of the sums g of f over the subsets of S that are in Q
AddsUp(f, g, Q) ==
  \A T \in Q : g[T] = IF T = {} THEN 0 ELSE f[First(T)] + g[T \ {First(T)}]

Small(S, n) == {T \in SUBSET S : Cardinality(T) <= n}

LEMMA OneLess ==
  ASSUME NEW T, IsFiniteSet(T), T # {}
  PROVE  /\ IsFiniteSet(T \ {First(T)})
         /\ Cardinality(T) \in Nat \ {0}
         /\ Cardinality(T \ {First(T)}) = Cardinality(T) - 1
<1>1. First(T) \in T
  BY FirstIn
<1> QED
  BY <1>1, FS_RemoveElement, FS_CardinalityType, FS_EmptySet

\* The definition of a sum by recursion has a solution.
LEMMA SumsExist ==
  ASSUME NEW f, NEW S, IsFiniteSet(S)
  PROVE  \E g : AddsUp(f, g, SUBSET S)
<1> DEFINE D == {n \in Nat : ~\E g : AddsUp(f, g, Small(S, n))}
<1>1. \A T \in SUBSET S : IsFiniteSet(T) /\ Cardinality(T) \in Nat
                          /\ Cardinality(T) <= Cardinality(S)
  BY FS_Subset, FS_CardinalityType
<1>2. Cardinality(S) \in Nat
  BY FS_CardinalityType
<1>3. ASSUME D # {} PROVE FALSE
  <2>1. PICK n \in D : \A k \in D : n <= k
    BY <1>3, LeastNat
  <2>2. n # 0
    <3> DEFINE g == [T \in SUBSET S |-> 0]
    <3>1. \A T \in Small(S, 0) : T = {}
      BY <1>1, FS_EmptySet DEF Small
    <3>2. \A T \in Small(S, 0) : T \in SUBSET S
      BY DEF Small
    <3>3. AddsUp(f, g, Small(S, 0))
      BY <3>1, <3>2 DEF AddsUp
    <3> HIDE DEF g
    <3> QED
      BY <3>3
  <2>3. n - 1 \in Nat /\ n - 1 \notin D
    BY <2>1, <2>2
  <2>4. PICK g : AddsUp(f, g, Small(S, n - 1))
    BY <2>3
  <2> DEFINE h == [T \in SUBSET S |->
                     IF Cardinality(T) <= n - 1 THEN g[T]
                     ELSE f[First(T)] + g[T \ {First(T)}]]
  <2>5. ASSUME NEW T \in Small(S, n)
        PROVE  h[T] = IF T = {} THEN 0 ELSE f[First(T)] + h[T \ {First(T)}]
    <3>1. T \in SUBSET S /\ Cardinality(T) \in Nat /\ Cardinality(T) <= n /\ IsFiniteSet(T)
      BY <1>1 DEF Small
    <3>2. CASE T = {}
      <4>1. Cardinality(T) = 0
        BY <3>2, FS_EmptySet
      <4>2. T \in Small(S, n - 1) /\ Cardinality(T) <= n - 1
        BY <2>3, <3>1, <4>1 DEF Small
      <4> QED
        BY <2>4, <3>1, <3>2, <4>2 DEF AddsUp
    <3>3. CASE T # {}
      <4> DEFINE rest == T \ {First(T)}
      <4>1. /\ Cardinality(T) \in Nat \ {0}
            /\ Cardinality(rest) = Cardinality(T) - 1
        BY <3>1, <3>3, OneLess
      <4>2. rest \in SUBSET S /\ Cardinality(rest) <= n - 1
        BY <2>3, <3>1, <4>1
      <4>3. h[rest] = g[rest]
        BY <4>2
      <4>4. h[T] = f[First(T)] + g[rest]
        <5>1. CASE Cardinality(T) <= n - 1
          <6>1. T \in Small(S, n - 1)
            BY <3>1, <5>1 DEF Small
          <6>2. g[T] = f[First(T)] + g[rest]
            BY <2>4, <3>3, <6>1 DEF AddsUp
          <6> QED
            BY <3>1, <5>1, <6>2
        <5>2. CASE ~(Cardinality(T) <= n - 1)
          BY <3>1, <5>2
        <5> QED
          BY <5>1, <5>2
      <4> HIDE DEF h, rest
      <4> QED
        BY <3>3, <4>3, <4>4 DEF rest
    <3> QED
      BY <3>2, <3>3
  <2>6. AddsUp(f, h, Small(S, n))
    BY <2>5 DEF AddsUp
  <2> HIDE DEF h
  <2> QED
    BY <2>1, <2>6
<1>4. PICK g : AddsUp(f, g, Small(S, Cardinality(S)))
  BY <1>2, <1>3
<1>5. Small(S, Cardinality(S)) = SUBSET S
  BY <1>1 DEF Small
<1> QED
  BY <1>4, <1>5

\* Two solutions agree where both are asked for, and where f and e agree.
LEMMA SumsAgree ==
  ASSUME NEW f, NEW e, NEW S, IsFiniteSet(S), NEW g, NEW h,
         AddsUp(f, g, SUBSET S), AddsUp(e, h, SUBSET S), \A x \in S : f[x] = e[x]
  PROVE  g[S] = h[S]
<1> DEFINE D == {n \in Nat : \E T \in SUBSET S : Cardinality(T) = n /\ g[T] # h[T]}
<1>1. \A T \in SUBSET S : IsFiniteSet(T) /\ Cardinality(T) \in Nat
  BY FS_Subset, FS_CardinalityType
<1>2. ASSUME D # {} PROVE FALSE
  <2>1. PICK n \in D : \A k \in D : n <= k
    BY <1>2, LeastNat
  <2>2. PICK T \in SUBSET S : Cardinality(T) = n /\ g[T] # h[T]
    BY <2>1
  <2>3. T # {}
    BY <2>2 DEF AddsUp
  <2> DEFINE rest == T \ {First(T)}
  <2>4. First(T) \in T /\ rest \in SUBSET S /\ Cardinality(rest) = n - 1 /\ n # 0
    BY <1>1, <2>2, <2>3, OneLess, FirstIn
  <2>5. g[rest] = h[rest]
    <3>1. n - 1 \in Nat /\ n - 1 \notin D
      BY <2>1, <2>4
    <3> QED
      BY <2>4, <3>1
  <2>6. g[T] = f[First(T)] + g[rest] /\ h[T] = e[First(T)] + h[rest]
    BY <2>3 DEF AddsUp
  <2> QED
    BY <2>2, <2>4, <2>5, <2>6
<1>3. Cardinality(S) \notin D
  BY <1>2
<1> QED
  BY <1>1, <1>3

\* SumFunctionOnSet is such a solution.
LEMMA SumSolves ==
  ASSUME NEW f, NEW S, IsFiniteSet(S)
  PROVE  \E g : AddsUp(f, g, SUBSET S) /\ SumFunctionOnSet(f, S) = g[S]
<1> DEFINE Step(g) == [T \in SUBSET S |->
                         IF T = {} THEN 0 ELSE f[First(T)] + g[T \ {First(T)}]]
           iter == CHOOSE g : g = Step(g)
<1>1. SumFunctionOnSet(f, S) = iter[S]
  BY DEF SumFunctionOnSet, FoldFunctionOnSet, MapThenFoldSet, First
<1>2. PICK g : AddsUp(f, g, SUBSET S)
  BY SumsExist
<1> DEFINE h == [T \in SUBSET S |-> g[T]]
<1>3. h = Step(h)
  <2>1. ASSUME NEW T \in SUBSET S
        PROVE  g[T] = IF T = {} THEN 0 ELSE f[First(T)] + h[T \ {First(T)}]
    <3>1. T \ {First(T)} \in SUBSET S
      OBVIOUS
    <3> QED
      BY <1>2, <3>1 DEF AddsUp
  <2> QED
    BY <2>1
<1> HIDE DEF h
<1>4. \E k : k = Step(k)
  BY <1>3
<1>5. iter = Step(iter)
  <2> HIDE DEF Step
  <2> QED
    BY <1>4
<1> HIDE DEF iter
<1>6. AddsUp(f, iter, SUBSET S)
  <2> SUFFICES ASSUME NEW T \in SUBSET S
               PROVE  iter[T] = IF T = {} THEN 0 ELSE f[First(T)] + iter[T \ {First(T)}]
    BY DEF AddsUp
  <2> QED
    BY <1>5
<1> QED
  BY <1>1, <1>6

\* A sum over no elements is 0, any other that of one element and the rest.
LEMMA SumStep ==
  ASSUME NEW f, NEW S, IsFiniteSet(S)
  PROVE  SumFunctionOnSet(f, S) = IF S = {} THEN 0
           ELSE f[First(S)] + SumFunctionOnSet(f, S \ {First(S)})
<1> DEFINE rest == S \ {First(S)}
<1>1. PICK g : AddsUp(f, g, SUBSET S) /\ SumFunctionOnSet(f, S) = g[S]
  BY SumSolves
<1>2. CASE S = {}
  BY <1>1, <1>2 DEF AddsUp
<1>3. CASE S # {}
  <2>1. IsFiniteSet(rest) /\ rest \in SUBSET S
    BY <1>3, OneLess
  <2>2. PICK h : AddsUp(f, h, SUBSET rest) /\ SumFunctionOnSet(f, rest) = h[rest]
    BY <2>1, SumSolves
  <2>3. AddsUp(f, g, SUBSET rest)
    BY <1>1, <2>1 DEF AddsUp
  <2>4. g[rest] = h[rest]
    BY <2>1, <2>2, <2>3, SumsAgree
  <2>5. g[S] = f[First(S)] + g[rest]
    BY <1>1, <1>3 DEF AddsUp
  <2> QED
    BY <1>1, <1>3, <2>2, <2>4, <2>5
<1> QED
  BY <1>2, <1>3

LEMMA SumOfNone == ASSUME NEW f PROVE SumFunctionOnSet(f, {}) = 0
  BY SumStep, FS_EmptySet

\* A sum depends on the summands only.
LEMMA SumSame ==
  ASSUME NEW f, NEW e, NEW S, IsFiniteSet(S), \A x \in S : f[x] = e[x]
  PROVE  SumFunctionOnSet(f, S) = SumFunctionOnSet(e, S)
<1>1. PICK g : AddsUp(f, g, SUBSET S) /\ SumFunctionOnSet(f, S) = g[S]
  BY SumSolves
<1>2. PICK h : AddsUp(e, h, SUBSET S) /\ SumFunctionOnSet(e, S) = h[S]
  BY SumSolves
<1> QED
  BY <1>1, <1>2, SumsAgree

\* A sum of integers is an integer, and of natural numbers a natural number.
LEMMA SumTyped ==
  ASSUME NEW f, NEW S, IsFiniteSet(S), NEW R \in {Nat, Int}, \A x \in S : f[x] \in R
  PROVE  SumFunctionOnSet(f, S) \in R
<1> DEFINE D == {n \in Nat : \E T \in SUBSET S : Cardinality(T) = n
                                                 /\ SumFunctionOnSet(f, T) \notin R}
<1>1. \A T \in SUBSET S : IsFiniteSet(T) /\ Cardinality(T) \in Nat
  BY FS_Subset, FS_CardinalityType
<1>2. 0 \in R /\ \A a, b \in R : a + b \in R
  OBVIOUS
<1>3. ASSUME D # {} PROVE FALSE
  <2>1. PICK n \in D : \A k \in D : n <= k
    BY <1>3, LeastNat
  <2>2. PICK T \in SUBSET S : Cardinality(T) = n /\ SumFunctionOnSet(f, T) \notin R
    BY <2>1
  <2>3. T # {}
    BY <1>2, <2>2, SumOfNone
  <2> DEFINE rest == T \ {First(T)}
  <2>4. First(T) \in T /\ rest \in SUBSET S /\ Cardinality(rest) = n - 1 /\ n # 0
    BY <1>1, <2>2, <2>3, OneLess, FirstIn
  <2>5. SumFunctionOnSet(f, rest) \in R
    <3>1. n - 1 \in Nat /\ n - 1 \notin D
      BY <2>1, <2>4
    <3> QED
      BY <2>4, <3>1
  <2>6. SumFunctionOnSet(f, T) = f[First(T)] + SumFunctionOnSet(f, rest)
    BY <1>1, <2>3, SumStep
  <2> QED
    BY <1>2, <2>2, <2>4, <2>5, <2>6
<1>4. Cardinality(S) \notin D
  BY <1>3
<1> QED
  BY <1>1, <1>4

\* Which element is taken first does not matter.
LEMMA SumWithout ==
  ASSUME NEW f, NEW S, IsFiniteSet(S), \A x \in S : f[x] \in Int, NEW x \in S
  PROVE  SumFunctionOnSet(f, S) = f[x] + SumFunctionOnSet(f, S \ {x})
<1> DEFINE Sum(T) == SumFunctionOnSet(f, T)
           Odd(T) == \E y \in T : Sum(T) # f[y] + Sum(T \ {y})
           D == {n \in Nat : \E T \in SUBSET S : Cardinality(T) = n /\ Odd(T)}
<1>1. \A T \in SUBSET S : IsFiniteSet(T) /\ Cardinality(T) \in Nat /\ Sum(T) \in Int
  BY FS_Subset, FS_CardinalityType, SumTyped
<1>2. \A T \in SUBSET S : T # {} => Sum(T) = f[First(T)] + Sum(T \ {First(T)})
  BY <1>1, SumStep
<1> HIDE DEF Sum
<1>3. ASSUME D # {} PROVE FALSE
  <2>1. PICK n \in D : \A k \in D : n <= k
    BY <1>3, LeastNat
  <2>0. PICK T \in SUBSET S : Cardinality(T) = n /\ Odd(T)
    BY <2>1
  <2>2. PICK y \in T : Cardinality(T) = n /\ Sum(T) # f[y] + Sum(T \ {y})
    BY <2>0
  <2> DEFINE z == First(T)
  <2>3. z \in T /\ y # z
    BY <1>2, <2>2, FirstIn
  <2>4. Sum(T) = f[z] + Sum(T \ {z})
    BY <1>2, <2>2
  <2> HIDE DEF z
  <2>5. /\ n # 0 /\ Cardinality(T \ {z}) = n - 1 /\ Cardinality(T \ {y}) = n - 1
        /\ T \ {z} \in SUBSET S /\ T \ {y} \in SUBSET S
    BY <1>1, <2>2, <2>3, FS_RemoveElement, FS_EmptySet
  <2>6. n - 1 \in Nat /\ n - 1 \notin D
    BY <2>1, <2>5
  <2>7. Sum(T \ {z}) = f[y] + Sum((T \ {z}) \ {y})
    BY <2>2, <2>3, <2>5, <2>6
  <2>8. Sum(T \ {y}) = f[z] + Sum((T \ {y}) \ {z})
    BY <2>2, <2>3, <2>5, <2>6
  <2>9. (T \ {z}) \ {y} = (T \ {y}) \ {z} /\ (T \ {z}) \ {y} \in SUBSET S
    OBVIOUS
  <2> DEFINE R == Sum((T \ {z}) \ {y})
  <2>10. R \in Int /\ f[y] \in Int /\ f[z] \in Int
    BY <1>1, <2>3, <2>9
  <2>11. Sum(T \ {z}) = f[y] + R /\ Sum(T \ {y}) = f[z] + R
    BY <2>7, <2>8, <2>9
  <2> HIDE DEF R
  <2>12. f[z] + (f[y] + R) = f[y] + (f[z] + R)
    BY <2>10
  <2>13. Sum(T) = f[y] + Sum(T \ {y})
    BY <2>4, <2>11, <2>12
  <2> QED
    BY <2>2, <2>13
<1>4. Cardinality(S) \notin D
  BY <1>3
<1> QED
  BY <1>1, <1>4 DEF Sum

\* One summand more
LEMMA SumWith ==
  ASSUME NEW f, NEW S, IsFiniteSet(S), NEW x, x \notin S, \A y \in S \cup {x} : f[y] \in Int
  PROVE  SumFunctionOnSet(f, S \cup {x}) = SumFunctionOnSet(f, S) + f[x]
<1>1. IsFiniteSet(S \cup {x})
  BY FS_AddElement
<1>2. (S \cup {x}) \ {x} = S
  OBVIOUS
<1>3. SumFunctionOnSet(f, S \cup {x}) = f[x] + SumFunctionOnSet(f, S)
  BY <1>1, <1>2, SumWithout
<1>4. SumFunctionOnSet(f, S) \in Int
  BY SumTyped
<1> QED
  BY <1>3, <1>4

\* One summand changed by d
LEMMA SumChanged ==
  ASSUME NEW f, NEW e, NEW S, IsFiniteSet(S), \A y \in S : f[y] \in Int,
         NEW x \in S, NEW d \in Int, e[x] = f[x] + d, \A y \in S : y # x => e[y] = f[y]
  PROVE  SumFunctionOnSet(e, S) = SumFunctionOnSet(f, S) + d
<1>1. \A y \in S : e[y] \in Int
  OBVIOUS
<1>2. SumFunctionOnSet(f, S) = f[x] + SumFunctionOnSet(f, S \ {x})
  BY SumWithout
<1>3. SumFunctionOnSet(e, S) = e[x] + SumFunctionOnSet(e, S \ {x})
  BY <1>1, SumWithout
<1>4. IsFiniteSet(S \ {x}) /\ SumFunctionOnSet(e, S \ {x}) = SumFunctionOnSet(f, S \ {x})
  BY FS_RemoveElement, SumSame
<1>5. SumFunctionOnSet(f, S \ {x}) \in Int
  BY <1>4, SumTyped
<1> QED
  BY <1>2, <1>3, <1>4, <1>5

\* Lengths of intervals that follow each other add up to no more than the span
\* from the start of the first to the end of the last.
Following(n, b, e, f) ==
  /\ \A i \in 1..n : b[i] \in Int /\ e[i] \in Int /\ f[i] = e[i] - b[i]
  /\ \A i \in 1..n : i # n => e[i] <= b[i + 1]

LEMMA SumSpan ==
  ASSUME NEW n \in Nat \ {0}, NEW b, NEW e, NEW f, Following(n, b, e, f)
  PROVE  SumFunctionOnSet(f, 1..n) <= e[n] - b[1]
<1> DEFINE Sum(k) == SumFunctionOnSet(f, 1..k)
           D == {k \in 1..n : ~(Sum(k) <= e[k] - b[1])}
<1>1. ASSUME NEW k \in 1..n
      PROVE  IsFiniteSet(1..k) /\ \A i \in 1..k : f[i] \in Int
  <2>1. k \in Int /\ 1..k \subseteq 1..n
    OBVIOUS
  <2>2. IsFiniteSet(1..k)
    BY <2>1, FS_Interval
  <2>3. \A i \in 1..n : f[i] \in Int
    BY DEF Following
  <2> QED
    BY <2>1, <2>2, <2>3
<1>2. \A k \in 1..n : Sum(k) \in Int
  <2>1. Int \in {Nat, Int}
    OBVIOUS
  <2> QED
    BY <1>1, <2>1, SumTyped
<1>3. ASSUME NEW k \in 1..n
      PROVE  Sum(k) = SumFunctionOnSet(f, (1..k) \ {k}) + f[k]
  <2> DEFINE S == (1..k) \ {k}
  <2>1. S \cup {k} = 1..k /\ k \notin S
    OBVIOUS
  <2>2. IsFiniteSet(S)
    BY <1>1, FS_Subset
  <2>3. \A i \in S \cup {k} : f[i] \in Int
    BY <1>1, <2>1
  <2> HIDE DEF S
  <2>4. SumFunctionOnSet(f, S \cup {k}) = SumFunctionOnSet(f, S) + f[k]
    BY <2>1, <2>2, <2>3, SumWith
  <2> QED
    BY <2>1, <2>4 DEF S
<1>4. Sum(1) = e[1] - b[1]
  <2>1. 1 \in 1..n /\ (1..1) \ {1} = {}
    OBVIOUS
  <2>2. Sum(1) = 0 + f[1]
    BY <1>3, <2>1, SumOfNone
  <2>3. f[1] \in Int
    BY <1>1, <2>1
  <2> QED
    BY <2>1, <2>2, <2>3 DEF Following
<1>5. ASSUME NEW k \in 1..n, k # 1
      PROVE  Sum(k) = Sum(k - 1) + f[k]
  <2>1. (1..k) \ {k} = 1..(k - 1)
    BY <1>5
  <2>2. Sum(k) = SumFunctionOnSet(f, (1..k) \ {k}) + f[k]
    BY <1>3
  <2> QED
    BY <2>1, <2>2
<1> HIDE DEF Sum
<1>6. ASSUME D # {} PROVE FALSE
  <2>0. D \in SUBSET Nat
    OBVIOUS
  <2> HIDE DEF D
  <2>1. PICK k \in D : \A j \in D : k <= j
    BY <1>6, <2>0, LeastNat
  <2> USE DEF D
  <2>2. k # 1
    BY <1>4, <2>1 DEF Following
  <2>3. k - 1 \in 1..n /\ k - 1 \notin D /\ k - 1 # n
    BY <2>1, <2>2
  <2>4. Sum(k - 1) <= e[k - 1] - b[1]
    BY <2>3
  <2>5. e[k - 1] <= b[(k - 1) + 1] /\ (k - 1) + 1 = k
    BY <2>3 DEF Following
  <2>6. Sum(k) = Sum(k - 1) + (e[k] - b[k]) /\ Sum(k - 1) \in Int
    BY <1>2, <1>5, <2>2, <2>3 DEF Following
  <2>7. b[k] \in Int /\ e[k] \in Int /\ b[1] \in Int /\ e[k - 1] \in Int
    BY <2>3 DEF Following
  <2> QED
    BY <2>1, <2>4, <2>5, <2>6, <2>7
<1>7. n \in 1..n /\ n \notin D
  BY <1>6
<1> QED
  BY <1>7 DEF Sum

\* A finite set of numbers that is not empty has a greatest one.
LEMMA GreatestNat ==
  ASSUME NEW S \in SUBSET Nat, IsFiniteSet(S), S # {}
  PROVE  \E m \in S : \A k \in S : k <= m
<1> DEFINE Topped(T) == \E m \in T : \A k \in T : k <= m
           D == {n \in Nat : \E T \in SUBSET S : Cardinality(T) = n /\ T # {} /\ ~Topped(T)}
<1>1. \A T \in SUBSET S : IsFiniteSet(T) /\ Cardinality(T) \in Nat
  BY FS_Subset, FS_CardinalityType
<1>2. ASSUME D # {} PROVE FALSE
  <2>1. PICK n \in D : \A k \in D : n <= k
    BY <1>2, LeastNat
  <2>2. PICK T \in SUBSET S : Cardinality(T) = n /\ T # {} /\ ~Topped(T)
    BY <2>1
  <2>3. PICK x \in T : TRUE
    BY <2>2
  <2> DEFINE rest == T \ {x}
  <2>4. n # 0 /\ Cardinality(rest) = n - 1 /\ rest \in SUBSET S
    BY <1>1, <2>2, <2>3, FS_RemoveElement, FS_EmptySet
  <2>5. n - 1 \in Nat /\ n - 1 \notin D
    BY <2>1, <2>4
  <2>6. rest = {} \/ Topped(rest)
    BY <2>4, <2>5
  <2>7. \A k \in T : k \in Nat
    OBVIOUS
  <2>8. CASE rest = {}
    BY <2>2, <2>3, <2>7, <2>8
  <2>9. CASE Topped(rest)
    <3>1. PICK m \in rest : \A k \in rest : k <= m
      BY <2>9
    <3>2. CASE x <= m
      BY <2>2, <2>7, <3>1, <3>2
    <3>3. CASE ~(x <= m)
      BY <2>2, <2>3, <2>7, <3>1, <3>3
    <3> QED
      BY <3>2, <3>3
  <2> QED
    BY <2>6, <2>8, <2>9
<1>3. Cardinality(S) \notin D
  BY <1>2
<1> QED
  BY <1>1, <1>3

LEMMA MaxTyped ==
  ASSUME NEW S \in SUBSET Nat, IsFiniteSet(S), S # {}
  PROVE  Max(S) \in S /\ \A k \in S : k <= Max(S)
  BY GreatestNat DEF Max

LEMMA ImageFinite ==
  ASSUME NEW f, NEW S, IsFiniteSet(S)
  PROVE  IsFiniteSet({f[x] : x \in S})
<1> DEFINE T == {f[x] : x \in S}
           g == [x \in S |-> f[x]]
<1>1. g \in Surjection(S, T)
  BY DEF Surjection
<1> HIDE DEF g, T
<1>2. IsFiniteSet(T)
  BY <1>1, FS_Surjection
<1> QED
  BY <1>2 DEF T

\* 1 + _highest_logged_session_id() is the id of no row.
LEMMA NextIdIsNew ==
  ASSUME NEW rows, IsFiniteSet(rows), \A row \in rows : row.id \in Nat
  PROVE  /\ 1 + Max({row.id : row \in rows} \cup {0}) \in Nat
         /\ \A r \in rows : r.id < 1 + Max({row.id : row \in rows} \cup {0})
<1> DEFINE ids == {row.id : row \in rows}
           S == ids \cup {0}
           f == [row \in rows |-> row.id]
<1>1. ids \in SUBSET Nat /\ \A row \in rows : row.id \in S
  OBVIOUS
<1>2. IsFiniteSet(ids)
  <2>1. ids = {f[row] : row \in rows}
    OBVIOUS
  <2> HIDE DEF ids, f
  <2>2. QED
    BY <2>1, ImageFinite
<1> HIDE DEF ids
<1>3. S \in SUBSET Nat /\ IsFiniteSet(S) /\ S # {}
  BY <1>1, <1>2, FS_AddElement
<1> HIDE DEF S
<1>4. Max(S) \in Nat /\ \A k \in S : k <= Max(S)
  BY <1>3, MaxTyped
<1>5. \A row \in rows : row.id < 1 + Max(S)
  BY <1>1, <1>3, <1>4
<1>6. 1 + Max(S) \in Nat
  BY <1>4
<1> QED
  BY <1>5, <1>6 DEF S, ids

-----------------------------------------------------------------------------
(* The records of client.c *)

Good(r, members, now) == r \in Record(members) /\ WellFormed(r, now)

\* Closing or reopening the last interval keeps the others.
LEMMA EndLastShape ==
  ASSUME NEW s \in Seq(Interval), s # <<>>, NEW t \in Nat
  PROVE  /\ EndLast(s, t) \in Seq(Interval)
         /\ Len(EndLast(s, t)) = Len(s)
         /\ EndLast(s, t)[Len(s)] = [stime |-> s[Len(s)].stime, etime |-> t]
         /\ \A i \in 1..Len(s) : i # Len(s) => EndLast(s, t)[i] = s[i]
  <1> DEFINE n == Len(s)
             last == [s[n] EXCEPT !.etime = t]
             e == [s EXCEPT ![n] = last]
  <1>1. n \in Nat /\ n \in 1..n /\ s \in [1..n -> Interval]
    OBVIOUS
  <1>2. EndLast(s, t) = e
    BY DEF EndLast
  <1>3. last = [stime |-> s[n].stime, etime |-> t] /\ last \in Interval
    <2>1. s[n] \in Interval
      BY <1>1
    <2>2. QED
      BY <2>1 DEF Interval
  <1> HIDE DEF last
  <1>4. e \in [1..n -> Interval] /\ e[n] = last
    BY <1>1, <1>3
  <1>5. \A i \in 1..n : i # n => e[i] = s[i]
    BY <1>1
  <1>6. e \in Seq(Interval) /\ Len(e) = n
    BY <1>1, <1>4
  <1>7. QED
    BY <1>2, <1>3, <1>4, <1>5, <1>6

\* The intervals of a record are a sequence of pairs of times.
LEMMA IntervalsTyped ==
  ASSUME NEW members, NEW r \in Record(members)
  PROVE  /\ r.intervals \in Seq(Interval)
         /\ Len(r.intervals) \in Nat
         /\ \A i \in 1..Len(r.intervals) :
              r.intervals[i].stime \in Nat /\ r.intervals[i].etime \in Nat
  <1>1. r.intervals \in Seq(Interval)
    BY DEF Record
  <1>2. \A i \in 1..Len(r.intervals) : r.intervals[i] \in Interval
    BY <1>1
  <1>3. QED
    BY <1>1, <1>2 DEF Interval

\* CCL_client_reset
LEMMA EmptyGood == ASSUME NEW members, NEW now PROVE Good(EmptyRecord, members, now)
  BY DEF Good, EmptyRecord, Record, Status, WellFormed, RunningIffActive,
         UsedHasIntervals, IntervalsInOrder, HasSession

\* CCL_client_start appends a running interval to closed ones.
LEMMA AppendGood ==
  ASSUME NEW members, NEW now \in Nat, now > 0,
         NEW r \in Record(members), WellFormed(r, now), r.status # "ACTIVE"
  PROVE  Good([r EXCEPT !.status = "ACTIVE", !.intervals = Append(@, NewInterval(now))],
              members, now)
  <1> DEFINE a == Append(r.intervals, NewInterval(now))
             q == [r EXCEPT !.status = "ACTIVE", !.intervals = Append(@, NewInterval(now))]
  <1>1. NewInterval(now) \in Interval
    BY DEF NewInterval, Interval, Running
  <1>2. r.intervals \in Seq(Interval)
    BY DEF Record
  <1>3. /\ a \in Seq(Interval) /\ Len(a) = Len(r.intervals) + 1
        /\ a[Len(a)] = NewInterval(now)
        /\ \A i \in 1..Len(r.intervals) : a[i] = r.intervals[i]
    BY <1>1, <1>2
  <1>4. q \in Record(members) /\ q.status = "ACTIVE" /\ q.intervals = a
    BY <1>3 DEF Record, Status
  <1>5. WellFormed(q, now)
    <2>1. RunningIffActive(q)
      BY <1>2, <1>3, <1>4 DEF RunningIffActive, WellFormed, NewInterval, Running
    <2>2. UsedHasIntervals(q)
      BY <1>3, <1>4 DEF UsedHasIntervals, HasSession
    <2>3. IntervalsInOrder(q, now)
      <3>1. /\ \A i \in 1..Len(r.intervals) :
                 r.intervals[i].stime \in Nat /\ r.intervals[i].etime \in Nat
            /\ IntervalsInOrder(r, now) /\ Len(r.intervals) \in Nat
        BY IntervalsTyped DEF WellFormed
      <3>2. \A i \in 1..Len(a) :
              a[i] = IF i = Len(a) THEN [stime |-> now, etime |-> 0] ELSE r.intervals[i]
        BY <1>3, <3>1 DEF NewInterval, Running
      <3> HIDE DEF a, q
      <3>3. \A i \in 1..Len(a) : i # Len(a) => i \in 1..Len(r.intervals)
        BY <1>3, <3>1
      <3>4. ASSUME NEW i \in 1..Len(a)
            PROVE  /\ 0 < a[i].stime /\ a[i].stime <= now
                   /\ a[i].etime <= now
                   /\ a[i].etime # Running => a[i].stime <= a[i].etime
        BY <3>1, <3>2, <3>3 DEF IntervalsInOrder, Running
      <3>5. ASSUME NEW i \in 1..Len(a), NEW j \in 1..Len(a), i < j
            PROVE  a[i].etime <= a[j].stime
        <4>1. i \in 1..Len(r.intervals) /\ a[i] = r.intervals[i]
          BY <1>3, <3>1, <3>5
        <4>2. CASE j = Len(a)
          BY <4>1, <4>2, <3>1, <3>2 DEF IntervalsInOrder
        <4>3. CASE j # Len(a)
          BY <4>1, <4>3, <3>1, <3>2, <3>3, <3>5 DEF IntervalsInOrder
        <4>4. QED
          BY <4>2, <4>3
      <3>6. QED
        BY <1>4, <3>4, <3>5 DEF IntervalsInOrder
    <2>4. QED
      BY <2>1, <2>2, <2>3 DEF WellFormed
  <1>6. QED
    BY <1>4, <1>5 DEF Good

\* CCL_client_start
LEMMA StartGood ==
  ASSUME NEW members, NEW now \in Nat, now > 0, NEW sid \in Nat,
         NEW r \in Record(members), WellFormed(r, now)
  PROVE  Good(StartRecord(r, now, sid), members, now)
  <1>1. CASE r.status = "INACTIVE"
    <2> DEFINE base == [EmptyRecord EXCEPT !.session = sid]
    <2>1. base \in Record(members) /\ WellFormed(base, now) /\ base.status = "INACTIVE"
      <3>1. base = [status |-> "INACTIVE", intervals |-> <<>>, timeout |-> 0,
                    member |-> 0, session |-> sid]
        BY DEF EmptyRecord
      <3> HIDE DEF base
      <3>2. QED
        BY <3>1 DEF Record, Status, WellFormed, RunningIffActive,
                    UsedHasIntervals, IntervalsInOrder, HasSession
    <2> HIDE DEF base
    <2>2. Good([base EXCEPT !.status = "ACTIVE",
                            !.intervals = Append(@, NewInterval(now))], members, now)
      BY <2>1, AppendGood
    <2>3. QED
      BY <1>1, <2>2 DEF StartRecord, ResetRecord, base
  <1>2. CASE r.status = "PAUSED"
    BY <1>2, AppendGood DEF StartRecord
  <1>3. CASE r.status \notin {"INACTIVE", "PAUSED"}
    BY <1>3 DEF StartRecord, Good
  <1>4. QED
    BY <1>1, <1>2, <1>3

\* CCL_client_stop and CCL_client_pause close the running interval.
LEMMA CloseGood ==
  ASSUME NEW members, NEW now \in Nat, now > 0,
         NEW r \in Record(members), WellFormed(r, now), HasSession(r),
         r.status = "ACTIVE", NEW st \in {"INACTIVE", "PAUSED"}
  PROVE  Good([r EXCEPT !.status = st, !.intervals = EndLast(@, now)], members, now)
  <1> DEFINE e == EndLast(r.intervals, now)
             q == [r EXCEPT !.status = st, !.intervals = EndLast(@, now)]
  <1>1. r.intervals \in Seq(Interval) /\ r.intervals # <<>>
    BY DEF Record, HasSession
  <1>2. /\ e \in Seq(Interval) /\ Len(e) = Len(r.intervals)
        /\ e[Len(r.intervals)] = [stime |-> r.intervals[Len(r.intervals)].stime, etime |-> now]
        /\ \A i \in 1..Len(r.intervals) : i # Len(r.intervals) => e[i] = r.intervals[i]
    BY <1>1, EndLastShape
  <1> HIDE DEF e
  <1>3. q \in Record(members) /\ q.status = st /\ q.intervals = e
    BY <1>2 DEF Record, Status, e
  <1> HIDE DEF q
  <1>4. Len(r.intervals) \in Nat /\ Len(r.intervals) > 0
    BY <1>1
  <1>5. RunningIffActive(q)
    BY <1>2, <1>3, <1>4 DEF RunningIffActive, WellFormed, Running
  <1>6. UsedHasIntervals(q)
    BY <1>2, <1>3, <1>4 DEF UsedHasIntervals, HasSession
  <1>7. IntervalsInOrder(q, now)
    <2>1. /\ \A i \in 1..Len(r.intervals) :
               r.intervals[i].stime \in Nat /\ r.intervals[i].etime \in Nat
          /\ IntervalsInOrder(r, now)
      BY IntervalsTyped DEF WellFormed
    <2>2. \A i \in 1..Len(e) :
            /\ e[i].stime = r.intervals[i].stime
            /\ e[i].etime = IF i = Len(e) THEN now ELSE r.intervals[i].etime
      BY <1>2, <1>4
    <2>3. QED
      BY <1>2, <1>3, <1>4, <2>1, <2>2 DEF IntervalsInOrder, Running
  <1>8. QED
    BY <1>3, <1>5, <1>6, <1>7 DEF Good, WellFormed, q

\* CCL_client_unstop and CCL_client_unpause reopen the last interval.
LEMMA ReopenGood ==
  ASSUME NEW members, NEW now \in Nat, now > 0,
         NEW r \in Record(members), WellFormed(r, now), HasSession(r),
         r.status # "ACTIVE"
  PROVE  Good([r EXCEPT !.status = "ACTIVE", !.intervals = EndLast(@, Running)],
              members, now)
  <1> DEFINE e == EndLast(r.intervals, Running)
             q == [r EXCEPT !.status = "ACTIVE", !.intervals = EndLast(@, Running)]
  <1>1. r.intervals \in Seq(Interval) /\ r.intervals # <<>> /\ Running \in Nat
    BY DEF Record, HasSession, Running
  <1>2. /\ e \in Seq(Interval) /\ Len(e) = Len(r.intervals)
        /\ e[Len(r.intervals)] = [stime |-> r.intervals[Len(r.intervals)].stime, etime |-> Running]
        /\ \A i \in 1..Len(r.intervals) : i # Len(r.intervals) => e[i] = r.intervals[i]
    BY <1>1, EndLastShape
  <1> HIDE DEF e
  <1>3. q \in Record(members) /\ q.status = "ACTIVE" /\ q.intervals = e
    BY <1>2 DEF Record, Status, e
  <1> HIDE DEF q
  <1>4. Len(r.intervals) \in Nat /\ Len(r.intervals) > 0
    BY <1>1
  <1>5. RunningIffActive(q)
    BY <1>2, <1>3, <1>4 DEF RunningIffActive, WellFormed, Running
  <1>6. UsedHasIntervals(q)
    BY <1>2, <1>3, <1>4 DEF UsedHasIntervals, HasSession
  <1>7. IntervalsInOrder(q, now)
    <2>1. /\ \A i \in 1..Len(r.intervals) :
               r.intervals[i].stime \in Nat /\ r.intervals[i].etime \in Nat
          /\ IntervalsInOrder(r, now)
      BY IntervalsTyped DEF WellFormed
    <2>2. \A i \in 1..Len(e) :
            /\ e[i].stime = r.intervals[i].stime
            /\ e[i].etime = IF i = Len(e) THEN Running ELSE r.intervals[i].etime
      BY <1>2, <1>4
    <2>3. QED
      BY <1>2, <1>3, <1>4, <2>1, <2>2 DEF IntervalsInOrder, Running
  <1>8. QED
    BY <1>3, <1>5, <1>6, <1>7 DEF Good, WellFormed, q

\* CCL_client_stop and CCL_client_pause, with their guards
LEMMA StopGood ==
  ASSUME NEW members, NEW now \in Nat, now > 0,
         NEW r \in Record(members), WellFormed(r, now)
  PROVE  /\ Good(StopRecord(r, now), members, now)
         /\ Good(PauseRecord(r, now), members, now)
  BY CloseGood DEF StopRecord, PauseRecord, Good

\* CCL_client_timeout_set and CCL_client_member_set leave the session alone.
LEMMA SettersGood ==
  ASSUME NEW members, NEW now,
         NEW r \in Record(members), WellFormed(r, now),
         NEW t \in Int, NEW m \in members \cup {0}
  PROVE  /\ Good(TimeoutRecord(r, t), members, now)
         /\ Good(MemberRecord(r, m), members, now)
  <1>1. /\ TimeoutRecord(r, t) \in Record(members)
        /\ TimeoutRecord(r, t).status = r.status
        /\ TimeoutRecord(r, t).intervals = r.intervals
    BY DEF TimeoutRecord, Record
  <1>2. /\ MemberRecord(r, m) \in Record(members)
        /\ MemberRecord(r, m).status = r.status
        /\ MemberRecord(r, m).intervals = r.intervals
    BY DEF MemberRecord, Record
  <1>3. QED
    BY <1>1, <1>2 DEF Good, WellFormed, RunningIffActive, UsedHasIntervals,
                      IntervalsInOrder, HasSession

\* CCL_client_unstop and CCL_client_unpause, with their guards
LEMMA UnstopGood ==
  ASSUME NEW members, NEW now \in Nat, now > 0,
         NEW r \in Record(members), WellFormed(r, now)
  PROVE  /\ Good(UnstopRecord(r, now), members, now)
         /\ Good(UnpauseRecord(r), members, now)
  <1>1. Good(UnpauseRecord(r), members, now)
    BY ReopenGood DEF UnpauseRecord, Good
  <1>2. Good(UnstopRecord(r, now), members, now)
    <2> DEFINE kept == IF TimeUsed(r, now) > r.timeout THEN TimeoutRecord(r, 0) ELSE r
    <2>1. Good(kept, members, now) /\ kept.status = r.status /\ kept.intervals = r.intervals
      <3>1. Good(TimeoutRecord(r, 0), members, now)
        BY SettersGood
      <3>2. /\ TimeoutRecord(r, 0).status = r.status
            /\ TimeoutRecord(r, 0).intervals = r.intervals
        BY DEF TimeoutRecord, Record
      <3>3. QED
        BY <3>1, <3>2 DEF Good
    <2> HIDE DEF kept
    <2>2. CASE r.status = "INACTIVE" /\ HasSession(r)
      <3>1. Good([kept EXCEPT !.status = "ACTIVE", !.intervals = EndLast(@, Running)],
                 members, now)
        BY <2>1, <2>2, ReopenGood DEF Good, HasSession
      <3>2. QED
        BY <2>2, <3>1 DEF UnstopRecord, kept
    <2>3. CASE ~(r.status = "INACTIVE" /\ HasSession(r))
      BY <2>3 DEF UnstopRecord, Good
    <2>4. QED
      BY <2>2, <2>3
  <1>3. QED
    BY <1>1, <1>2

\* Time passing does not disturb a record.
LEMMA LaterGood ==
  ASSUME NEW members, NEW now \in Nat, NEW r \in Record(members), WellFormed(r, now)
  PROVE  WellFormed(r, now + 1)
  BY IntervalsTyped DEF WellFormed, IntervalsInOrder

-----------------------------------------------------------------------------
(* The time a record is charged for (CCL_client_time_used)                 *)

Lengths(r, now) == [i \in 1..Len(r.intervals) |-> Length(r.intervals[i], now)]

LEMMA UsedSum ==
  ASSUME NEW members, NEW r \in Record(members), NEW now \in Nat
  PROVE  /\ TimeUsed(r, now) = SumFunctionOnSet(Lengths(r, now), 1..Len(r.intervals))
         /\ IsFiniteSet(1..Len(r.intervals))
         /\ \A i \in 1..Len(r.intervals) :
              /\ Lengths(r, now)[i] = Length(r.intervals[i], now)
              /\ Lengths(r, now)[i] \in Int
  <1>1. DOMAIN r.intervals = 1..Len(r.intervals) /\ Len(r.intervals) \in Nat
    BY IntervalsTyped
  <1>2. TimeUsed(r, now) = SumFunction(Lengths(r, now))
    BY <1>1 DEF TimeUsed, Lengths
  <1>3. DOMAIN Lengths(r, now) = 1..Len(r.intervals)
    BY DEF Lengths
  <1>4. TimeUsed(r, now) = SumFunctionOnSet(Lengths(r, now), 1..Len(r.intervals))
    BY <1>2, <1>3 DEF SumFunction
  <1>5. IsFiniteSet(1..Len(r.intervals))
    BY <1>1, FS_Interval
  <1>6. \A i \in 1..Len(r.intervals) :
          /\ Lengths(r, now)[i] = Length(r.intervals[i], now)
          /\ Lengths(r, now)[i] \in Int
    BY IntervalsTyped DEF Lengths, Length
  <1>7. QED
    BY <1>4, <1>5, <1>6

\* A well formed record is never charged for less than no time.
LEMMA UsedTyped ==
  ASSUME NEW members, NEW r \in Record(members), NEW now \in Nat
  PROVE  TimeUsed(r, now) \in Int /\ (WellFormed(r, now) => TimeUsed(r, now) \in Nat)
  <1> DEFINE f == Lengths(r, now)
             S == 1..Len(r.intervals)
  <1>1. TimeUsed(r, now) = SumFunctionOnSet(f, S) /\ IsFiniteSet(S)
        /\ \A i \in S : f[i] = Length(r.intervals[i], now) /\ f[i] \in Int
    BY UsedSum
  <1>2. Nat \in {Nat, Int} /\ Int \in {Nat, Int}
    OBVIOUS
  <1>3. ASSUME WellFormed(r, now) PROVE \A i \in S : f[i] \in Nat
    <2> SUFFICES ASSUME NEW i \in S PROVE f[i] \in Nat
      OBVIOUS
    <2>1. Length(r.intervals[i], now) \in Nat
      <3>1. r.intervals[i].stime \in Nat /\ r.intervals[i].etime \in Nat
        BY IntervalsTyped
      <3>2. /\ r.intervals[i].stime <= now
            /\ r.intervals[i].etime # 0 => r.intervals[i].stime <= r.intervals[i].etime
        BY <1>3 DEF WellFormed, IntervalsInOrder, Running
      <3>3. QED
        BY <3>1, <3>2 DEF Length
    <2>2. f[i] = Length(r.intervals[i], now)
      BY <1>1
    <2> HIDE DEF f
    <2>3. QED
      BY <2>1, <2>2
  <1> HIDE DEF f, S
  <1>4. SumFunctionOnSet(f, S) \in Int
    BY <1>1, <1>2, SumTyped
  <1>5. ASSUME WellFormed(r, now) PROVE SumFunctionOnSet(f, S) \in Nat
    BY <1>1, <1>2, <1>3, <1>5, SumTyped
  <1>6. QED
    BY <1>1, <1>4, <1>5

\* At time u the intervals of q are those of r at time t, the last one longer
\* by d.
LongerBy(q, u, r, t, d) ==
  LET n == Len(r.intervals)
  IN  /\ n > 0
      /\ Len(q.intervals) = n
      /\ \A i \in 1..n : i # n =>
           Length(q.intervals[i], u) = Length(r.intervals[i], t)
      /\ Length(q.intervals[n], u) = Length(r.intervals[n], t) + d

LEMMA UsedLonger ==
  ASSUME NEW members, NEW q \in Record(members), NEW r \in Record(members),
         NEW u \in Nat, NEW t \in Nat, NEW d \in Int, LongerBy(q, u, r, t, d)
  PROVE  TimeUsed(q, u) = TimeUsed(r, t) + d
  <1> DEFINE e == Lengths(q, u)
             f == Lengths(r, t)
             n == Len(r.intervals)
             S == 1..n
  <1>1. n \in Nat /\ n > 0 /\ Len(q.intervals) = n
    BY IntervalsTyped DEF LongerBy
  <1>2. TimeUsed(r, t) = SumFunctionOnSet(f, S) /\ IsFiniteSet(S)
        /\ \A i \in S : f[i] = Length(r.intervals[i], t) /\ f[i] \in Int
    BY UsedSum
  <1>3. TimeUsed(q, u) = SumFunctionOnSet(e, S)
        /\ \A i \in S : e[i] = Length(q.intervals[i], u)
    BY <1>1, UsedSum
  <1>4. n \in S
    BY <1>1
  <1>5. e[n] = f[n] + d /\ \A i \in S : i # n => e[i] = f[i]
    BY <1>2, <1>3, <1>4 DEF LongerBy
  <1> HIDE DEF e, f, S
  <1>6. SumFunctionOnSet(e, S) = SumFunctionOnSet(f, S) + d
    BY <1>2, <1>4, <1>5, SumChanged
  <1>7. QED
    BY <1>2, <1>3, <1>6

\* A new interval has no length yet.
LEMMA UsedAppend ==
  ASSUME NEW members, NEW q \in Record(members), NEW r \in Record(members),
         NEW now \in Nat, q.intervals = Append(r.intervals, NewInterval(now))
  PROVE  TimeUsed(q, now) = TimeUsed(r, now)
  <1> DEFINE e == Lengths(q, now)
             f == Lengths(r, now)
             n == Len(r.intervals)
             S == 1..n
  <1>1. /\ n \in Nat /\ Len(q.intervals) = n + 1
        /\ q.intervals[n + 1] = NewInterval(now)
        /\ \A i \in 1..n : q.intervals[i] = r.intervals[i]
    BY IntervalsTyped
  <1>2. TimeUsed(r, now) = SumFunctionOnSet(f, S) /\ IsFiniteSet(S)
        /\ \A i \in S : f[i] = Length(r.intervals[i], now) /\ f[i] \in Int
    BY UsedSum
  <1>3. TimeUsed(q, now) = SumFunctionOnSet(e, 1..(n + 1))
        /\ \A i \in 1..(n + 1) : e[i] = Length(q.intervals[i], now) /\ e[i] \in Int
    BY <1>1, UsedSum
  <1>4. 1..(n + 1) = S \cup {n + 1} /\ n + 1 \notin S
    BY <1>1
  <1>5. \A i \in S : e[i] = f[i]
    BY <1>1, <1>2, <1>3
  <1>6. e[n + 1] = 0
    BY <1>1, <1>3 DEF Length, NewInterval, Running
  <1> HIDE DEF e, f, S
  <1>7. SumFunctionOnSet(e, S \cup {n + 1}) = SumFunctionOnSet(e, S) + e[n + 1]
    BY <1>2, <1>3, <1>4, SumWith
  <1>8. SumFunctionOnSet(e, S) = SumFunctionOnSet(f, S)
    BY <1>2, <1>5, SumSame
  <1>9. TimeUsed(r, now) \in Int
    BY UsedTyped
  <1>10. TimeUsed(q, now) = SumFunctionOnSet(e, S) + 0
    BY <1>3, <1>4, <1>6, <1>7
  <1>11. QED
    BY <1>2, <1>8, <1>9, <1>10

\* Stop and pause close the interval at the moment up to which it was counted.
LEMMA UsedClose ==
  ASSUME NEW members, NEW now \in Nat, now > 0,
         NEW r \in Record(members), WellFormed(r, now)
  PROVE  /\ TimeUsed(StopRecord(r, now), now) = TimeUsed(r, now)
         /\ TimeUsed(PauseRecord(r, now), now) = TimeUsed(r, now)
  <1>1. ASSUME NEW q \in Record(members), HasSession(r), r.status = "ACTIVE",
               q.intervals = EndLast(r.intervals, now)
        PROVE  TimeUsed(q, now) = TimeUsed(r, now)
    <2>1. r.intervals \in Seq(Interval) /\ r.intervals # <<>> /\ Len(r.intervals) > 0
      BY <1>1, IntervalsTyped DEF HasSession
    <2>2. r.intervals[Len(r.intervals)].etime = 0
      BY <1>1, <2>1 DEF WellFormed, RunningIffActive, Running
    <2>3. LongerBy(q, now, r, now, 0)
      <3>1. /\ Len(q.intervals) = Len(r.intervals)
            /\ q.intervals[Len(r.intervals)]
                 = [stime |-> r.intervals[Len(r.intervals)].stime, etime |-> now]
            /\ \A i \in 1..Len(r.intervals) :
                 i # Len(r.intervals) => q.intervals[i] = r.intervals[i]
        BY <1>1, <2>1, EndLastShape
      <3>2. r.intervals[Len(r.intervals)].stime \in Nat
        BY <2>1, IntervalsTyped
      <3>3. /\ \A i \in 1..Len(r.intervals) : i # Len(r.intervals) =>
                 Length(q.intervals[i], now) = Length(r.intervals[i], now)
            /\ Length(q.intervals[Len(r.intervals)], now)
                 = Length(r.intervals[Len(r.intervals)], now) + 0
        BY <2>2, <3>1, <3>2 DEF Length
      <3>4. QED
        BY <2>1, <3>1, <3>3 DEF LongerBy
    <2>4. TimeUsed(q, now) = TimeUsed(r, now) + 0
      BY <2>3, UsedLonger
    <2>5. TimeUsed(r, now) \in Int
      BY UsedTyped
    <2>6. QED
      BY <2>4, <2>5
  <1>2. StopRecord(r, now) \in Record(members) /\ PauseRecord(r, now) \in Record(members)
    BY StopGood DEF Good
  <1>3. CASE r.status = "ACTIVE" /\ HasSession(r)
    <2>1. /\ StopRecord(r, now).intervals = EndLast(r.intervals, now)
          /\ PauseRecord(r, now).intervals = EndLast(r.intervals, now)
      BY <1>3 DEF StopRecord, PauseRecord, Record
    <2>2. QED
      BY <1>1, <1>2, <1>3, <2>1
  <1>4. CASE ~(r.status = "ACTIVE" /\ HasSession(r))
    BY <1>4 DEF StopRecord, PauseRecord
  <1>5. QED
    BY <1>3, <1>4

\* Unstop and unpause count the time since the stop as well.
LEMMA UsedReopen ==
  ASSUME NEW members, NEW now \in Nat, now > 0,
         NEW r \in Record(members), WellFormed(r, now)
  PROVE  /\ TimeUsed(UnstopRecord(r, now), now) >= TimeUsed(r, now)
         /\ TimeUsed(UnpauseRecord(r), now) >= TimeUsed(r, now)
  <1>0. TimeUsed(r, now) \in Int
    BY UsedTyped
  <1>1. ASSUME NEW q \in Record(members), HasSession(r), r.status # "ACTIVE",
               q.intervals = EndLast(r.intervals, Running)
        PROVE  TimeUsed(q, now) >= TimeUsed(r, now)
    <2> DEFINE l == r.intervals[Len(r.intervals)]
    <2>1. r.intervals \in Seq(Interval) /\ r.intervals # <<>> /\ Len(r.intervals) > 0
      BY <1>1, IntervalsTyped DEF HasSession
    <2>2. l.etime \in Nat /\ l.etime # 0 /\ l.etime <= now /\ l.stime \in Nat
      BY <1>1, <2>1, IntervalsTyped
         DEF WellFormed, RunningIffActive, IntervalsInOrder, Running
    <2>3. LongerBy(q, now, r, now, now - l.etime)
      <3>1. /\ Len(q.intervals) = Len(r.intervals)
            /\ q.intervals[Len(r.intervals)] = [stime |-> l.stime, etime |-> 0]
            /\ \A i \in 1..Len(r.intervals) :
                 i # Len(r.intervals) => q.intervals[i] = r.intervals[i]
        BY <1>1, <2>1, EndLastShape DEF Running
      <3>2. /\ \A i \in 1..Len(r.intervals) : i # Len(r.intervals) =>
                 Length(q.intervals[i], now) = Length(r.intervals[i], now)
            /\ Length(q.intervals[Len(r.intervals)], now)
                 = Length(l, now) + (now - l.etime)
        <4>1. \A i \in 1..Len(r.intervals) : i # Len(r.intervals) =>
                 Length(q.intervals[i], now) = Length(r.intervals[i], now)
          BY <3>1
        <4>2. Length([stime |-> l.stime, etime |-> 0], now)
                = Length(l, now) + (now - l.etime)
          <5> HIDE DEF l
          <5>1. QED
            BY <2>2 DEF Length
        <4>3. QED
          BY <3>1, <4>1, <4>2
      <3>3. QED
        BY <2>1, <3>1, <3>2 DEF LongerBy
    <2>4. TimeUsed(q, now) = TimeUsed(r, now) + (now - l.etime)
      BY <2>2, <2>3, UsedLonger
    <2>5. QED
      BY <1>0, <2>2, <2>4
  <1>2. UnstopRecord(r, now) \in Record(members) /\ UnpauseRecord(r) \in Record(members)
    BY UnstopGood DEF Good
  <1>3. TimeUsed(r, now) >= TimeUsed(r, now)
    BY <1>0
  <1>4. TimeUsed(UnpauseRecord(r), now) >= TimeUsed(r, now)
    <2>1. CASE r.status = "PAUSED" /\ HasSession(r)
      <3>1. UnpauseRecord(r).intervals = EndLast(r.intervals, Running)
        BY <2>1 DEF UnpauseRecord, Record
      <3>2. QED
        BY <1>1, <1>2, <2>1, <3>1
    <2>2. QED
      BY <1>3, <2>1 DEF UnpauseRecord
  <1>5. TimeUsed(UnstopRecord(r, now), now) >= TimeUsed(r, now)
    <2>1. CASE r.status = "INACTIVE" /\ HasSession(r)
      <3>1. UnstopRecord(r, now).intervals = EndLast(r.intervals, Running)
        BY <2>1 DEF UnstopRecord, TimeoutRecord, Record
      <3>2. QED
        BY <1>1, <1>2, <2>1, <3>1
    <2>2. QED
      BY <1>3, <2>1 DEF UnstopRecord
  <1>6. QED
    BY <1>4, <1>5

\* A suspended session goes on where it was.
LEMMA UsedStart ==
  ASSUME NEW members, NEW now \in Nat, now > 0, NEW sid \in Nat,
         NEW r \in Record(members), WellFormed(r, now), r.status # "INACTIVE"
  PROVE  TimeUsed(StartRecord(r, now, sid), now) = TimeUsed(r, now)
  <1>1. StartRecord(r, now, sid) \in Record(members)
    BY StartGood DEF Good
  <1>2. CASE r.status = "PAUSED"
    <2>1. StartRecord(r, now, sid).intervals = Append(r.intervals, NewInterval(now))
      BY <1>2 DEF StartRecord, Record
    <2>2. QED
      BY <1>1, <2>1, UsedAppend
  <1>3. QED
    BY <1>2 DEF StartRecord, Record, Status

\* Time passing does not take time from a session.
LEMMA UsedLater ==
  ASSUME NEW members, NEW now \in Nat, NEW r \in Record(members), WellFormed(r, now)
  PROVE  TimeUsed(r, now + 1) >= TimeUsed(r, now)
  <1> DEFINE n == Len(r.intervals)
             d == IF r.intervals[n].etime > 0 THEN 0 ELSE 1
  <1>1. n \in Nat /\ \A i \in 1..n : r.intervals[i].stime \in Nat
                                     /\ r.intervals[i].etime \in Nat
    BY IntervalsTyped
  <1>2. CASE n = 0
    <2>1. /\ TimeUsed(r, now) = SumFunctionOnSet(Lengths(r, now), {})
          /\ TimeUsed(r, now + 1) = SumFunctionOnSet(Lengths(r, now + 1), {})
      <3>1. 1..n = {}
        BY <1>2
      <3>2. QED
        BY <3>1, UsedSum
    <2>2. QED
      BY <2>1, SumOfNone
  <1>3. CASE n > 0
    <2>1. \A i \in 1..n : i # n => r.intervals[i].etime > 0
      BY <1>1 DEF WellFormed, RunningIffActive, Running
    <2>2. LongerBy(r, now + 1, r, now, d)
      BY <1>1, <1>3, <2>1 DEF LongerBy, Length
    <2>3. d \in Int /\ d >= 0
      OBVIOUS
    <2> HIDE DEF d
    <2>4. TimeUsed(r, now + 1) = TimeUsed(r, now) + d
      BY <2>2, <2>3, UsedLonger
    <2>5. QED
      BY <2>3, <2>4, UsedTyped
  <1>4. QED
    BY <1>1, <1>2, <1>3

\* A session was charged for no more time than has passed since the clock
\* began; one that is over, for no more than from its first start to its last end.
LEMMA UsedWithinSpan ==
  ASSUME NEW members, NEW now \in Nat, NEW r \in Record(members), WellFormed(r, now)
  PROVE  /\ TimeUsed(r, now) \in Nat /\ TimeUsed(r, now) <= now
         /\ r.status = "INACTIVE" =>
              TimeUsed(r, now) <= ETime(r) - STime(r) /\ ETime(r) <= now
  <1> DEFINE n == Len(r.intervals)
             b == [i \in 1..n |-> r.intervals[i].stime]
             e == [i \in 1..n |-> IF r.intervals[i].etime > 0 THEN r.intervals[i].etime
                                  ELSE now]
             f == Lengths(r, now)
  <1>1. n \in Nat /\ r.intervals \in Seq(Interval)
        /\ \A i \in 1..n : r.intervals[i].stime \in Nat /\ r.intervals[i].etime \in Nat
    BY IntervalsTyped
  <1>2. TimeUsed(r, now) \in Nat
    BY UsedTyped
  <1>3. TimeUsed(r, now) = SumFunctionOnSet(f, 1..n)
        /\ \A i \in 1..n : f[i] = Length(r.intervals[i], now)
    BY UsedSum
  <1>4. CASE n = 0
    <2>1. 1..n = {} /\ r.intervals = <<>>
      BY <1>1, <1>4
    <2>2. TimeUsed(r, now) = 0
      BY <1>3, <2>1, SumOfNone
    <2>3. QED
      BY <2>1, <2>2 DEF ETime, STime, HasSession
  <1>5. CASE n > 0
    <2>1. Following(n, b, e, f)
      <3>1. \A i \in 1..n : i # n => r.intervals[i].etime > 0
        BY <1>1 DEF WellFormed, RunningIffActive, Running
      <3>2. \A i \in 1..n : f[i] = e[i] - b[i] /\ b[i] \in Int /\ e[i] \in Int
        BY <1>1, <1>3 DEF Length
      <3>3. \A i \in 1..n : i # n => e[i] <= b[i + 1]
        BY <1>1, <3>1 DEF WellFormed, IntervalsInOrder
      <3> HIDE DEF b, e, f
      <3>4. QED
        BY <3>2, <3>3 DEF Following
    <2>2. /\ STime(r) = b[1] /\ b[1] \in Nat /\ e[n] \in Nat /\ e[n] <= now
          /\ r.status = "INACTIVE" => ETime(r) = e[n]
      <3>1. /\ r.intervals # <<>> /\ Last(r.intervals) = r.intervals[n]
            /\ Head(r.intervals) = r.intervals[1]
        BY <1>1, <1>5 DEF Last
      <3>2. b[1] \in Nat /\ e[n] \in Nat /\ e[n] <= now
        BY <1>1, <1>5 DEF WellFormed, IntervalsInOrder
      <3>3. r.status = "INACTIVE" => r.intervals[n].etime > 0
        BY <1>1, <1>5 DEF WellFormed, RunningIffActive, Running
      <3>4. QED
        BY <1>5, <3>1, <3>2, <3>3 DEF ETime, STime, HasSession
    <2> HIDE DEF b, e, f
    <2>3. SumFunctionOnSet(f, 1..n) <= e[n] - b[1]
      BY <1>1, <1>5, <2>1, SumSpan
    <2>4. QED
      BY <1>2, <1>3, <2>2, <2>3
  <1>6. QED
    BY <1>1, <1>4, <1>5

\* The times of a record are natural numbers.
LEMMA TimesTyped ==
  ASSUME NEW members, NEW r \in Record(members)
  PROVE  STime(r) \in Nat /\ ETime(r) \in Nat
  <1>1. CASE HasSession(r)
    <2>1. Len(r.intervals) \in Nat \ {0} /\ r.intervals \in Seq(Interval)
      BY <1>1, IntervalsTyped DEF HasSession
    <2>2. /\ Head(r.intervals) = r.intervals[1]
          /\ Last(r.intervals) = r.intervals[Len(r.intervals)]
      BY <1>1, <2>1 DEF Last, HasSession
    <2>3. QED
      BY <1>1, <2>1, <2>2, IntervalsTyped DEF STime, ETime
  <1>2. QED
    BY <1>1 DEF STime, ETime

-----------------------------------------------------------------------------
(* Which session a record is about, and when it began and ended            *)

\* q is about the session of r, and it is not over.
GoesOn(q, r) ==
  /\ q.session = r.session /\ q.status # "INACTIVE"
  /\ HasSession(r) /\ HasSession(q) /\ STime(q) = STime(r)

\* q is about the session of r, over or not as r is.
SameSession(q, r) ==
  q.session = r.session /\ q.status = r.status /\ q.intervals = r.intervals

LEMMA EndLastTimes ==
  ASSUME NEW s \in Seq(Interval), s # <<>>, NEW t \in Nat
  PROVE  /\ EndLast(s, t) # <<>>
         /\ Head(EndLast(s, t)).stime = Head(s).stime
         /\ Last(EndLast(s, t)).etime = t
  <1> DEFINE n == Len(s)
             e == EndLast(s, t)
  <1>1. n \in Nat /\ n > 0 /\ Head(s) = s[1]
    OBVIOUS
  <1>2. /\ e \in Seq(Interval) /\ Len(e) = n
        /\ e[n] = [stime |-> s[n].stime, etime |-> t]
        /\ \A i \in 1..n : i # n => e[i] = s[i]
    BY EndLastShape
  <1> HIDE DEF e
  <1>3. e # <<>> /\ Head(e) = e[1] /\ Last(e) = e[n]
    BY <1>1, <1>2 DEF Last
  <1>4. e[1].stime = s[1].stime
    <2>1. CASE n = 1
      BY <1>2, <2>1
    <2>2. CASE n # 1
      BY <1>1, <1>2, <2>2
    <2>3. QED
      BY <2>1, <2>2
  <1>5. QED
    BY <1>1, <1>2, <1>3, <1>4 DEF e

\* CCL_client_stop ends the session, now.
LEMMA StopTimes ==
  ASSUME NEW members, NEW t \in Nat, NEW r \in Record(members),
         r.status = "ACTIVE", HasSession(r)
  PROVE  LET q == StopRecord(r, t)
         IN  /\ q.session = r.session /\ q.status = "INACTIVE"
             /\ HasSession(q) /\ STime(q) = STime(r) /\ ETime(q) = t
  <1> DEFINE q == StopRecord(r, t)
  <1>1. q.intervals = EndLast(r.intervals, t) /\ q.session = r.session
        /\ q.status = "INACTIVE"
    BY DEF StopRecord, Record
  <1>2. r.intervals \in Seq(Interval) /\ r.intervals # <<>>
    BY DEF Record, HasSession
  <1> HIDE DEF q
  <1>3. HasSession(q) /\ STime(q) = STime(r) /\ ETime(q) = t
    BY <1>1, <1>2, EndLastTimes DEF HasSession, STime, ETime
  <1>4. QED
    BY <1>1, <1>3 DEF q

\* CCL_client_unstop takes up the session of the record, if it has one.
LEMMA UnstopTimes ==
  ASSUME NEW members, NEW t \in Nat, NEW r \in Record(members)
  PROVE  LET q == UnstopRecord(r, t)
         IN  IF r.status = "INACTIVE" /\ HasSession(r)
             THEN GoesOn(q, r) /\ q.status = "ACTIVE" ELSE q = r
  <1> DEFINE q == UnstopRecord(r, t)
  <1>1. CASE r.status = "INACTIVE" /\ HasSession(r)
    <2>1. q.intervals = EndLast(r.intervals, 0) /\ q.session = r.session
          /\ q.status = "ACTIVE"
      BY <1>1 DEF UnstopRecord, TimeoutRecord, Record, Running
    <2>2. r.intervals \in Seq(Interval) /\ r.intervals # <<>>
      BY <1>1 DEF Record, HasSession
    <2> HIDE DEF q
    <2>3. HasSession(q) /\ STime(q) = STime(r)
      BY <2>1, <2>2, EndLastTimes DEF HasSession, STime
    <2>4. QED
      BY <1>1, <2>1, <2>3 DEF GoesOn, q
  <1>2. QED
    BY <1>1 DEF UnstopRecord

\* CCL_client_pause and CCL_client_unpause: the session stays where it is.
LEMMA PauseTimes ==
  ASSUME NEW members, NEW t \in Nat, NEW r \in Record(members)
  PROVE  /\ PauseRecord(r, t) = r
            \/ (GoesOn(PauseRecord(r, t), r) /\ r.status = "ACTIVE")
         /\ UnpauseRecord(r) = r
            \/ /\ GoesOn(UnpauseRecord(r), r) /\ r.status = "PAUSED"
               /\ UnpauseRecord(r).status = "ACTIVE"
  <1>1. ASSUME NEW q, NEW u \in Nat, HasSession(r), q.intervals = EndLast(r.intervals, u),
               q.session = r.session, q.status # "INACTIVE"
        PROVE  GoesOn(q, r)
    <2>1. r.intervals \in Seq(Interval) /\ r.intervals # <<>>
      BY <1>1 DEF Record, HasSession
    <2>2. HasSession(q) /\ STime(q) = STime(r)
      BY <1>1, <2>1, EndLastTimes DEF HasSession, STime
    <2>3. QED
      BY <1>1, <2>2 DEF GoesOn
  <1>2. CASE r.status = "ACTIVE" /\ HasSession(r)
    <2>1. /\ PauseRecord(r, t).intervals = EndLast(r.intervals, t)
          /\ PauseRecord(r, t).session = r.session /\ PauseRecord(r, t).status = "PAUSED"
      BY <1>2 DEF PauseRecord, Record
    <2>2. GoesOn(PauseRecord(r, t), r)
      BY <1>1, <1>2, <2>1
    <2>3. UnpauseRecord(r) = r
      BY <1>2 DEF UnpauseRecord
    <2>4. QED
      BY <1>2, <2>2, <2>3
  <1>3. CASE r.status = "PAUSED" /\ HasSession(r)
    <2>1. /\ UnpauseRecord(r).intervals = EndLast(r.intervals, 0)
          /\ UnpauseRecord(r).session = r.session /\ UnpauseRecord(r).status = "ACTIVE"
      BY <1>3 DEF UnpauseRecord, Record, Running
    <2>2. GoesOn(UnpauseRecord(r), r)
      BY <1>1, <1>3, <2>1
    <2>3. PauseRecord(r, t) = r
      BY <1>3 DEF PauseRecord
    <2>4. QED
      BY <1>3, <2>1, <2>2, <2>3
  <1>4. QED
    BY <1>2, <1>3 DEF PauseRecord, UnpauseRecord

\* CCL_client_start: a new session from INACTIVE, otherwise the one that is there.
LEMMA StartTimes ==
  ASSUME NEW members, NEW t \in Nat, NEW n \in Nat, NEW r \in Record(members),
         r.status # "INACTIVE" => HasSession(r)
  PROVE  LET q == StartRecord(r, t, n)
         IN  /\ r.status # "INACTIVE" => GoesOn(q, r)
             /\ r.status = "INACTIVE" =>
                  q.session = n /\ HasSession(q) /\ STime(q) = t /\ q.status = "ACTIVE"
  <1> DEFINE q == StartRecord(r, t, n)
  <1>1. CASE r.status = "INACTIVE"
    <2>1. q.session = n /\ q.intervals = Append(<<>>, NewInterval(t)) /\ q.status = "ACTIVE"
      BY <1>1 DEF StartRecord, ResetRecord, EmptyRecord
    <2>2. q.intervals # <<>> /\ Head(q.intervals) = NewInterval(t)
      BY <2>1
    <2> HIDE DEF q
    <2>3. HasSession(q) /\ STime(q) = t
      BY <2>2 DEF HasSession, STime, NewInterval
    <2>4. QED
      BY <1>1, <2>1, <2>3 DEF q
  <1>2. CASE r.status = "PAUSED"
    <2>1. q.session = r.session /\ q.intervals = Append(r.intervals, NewInterval(t))
          /\ q.status = "ACTIVE"
      BY <1>2 DEF StartRecord, Record
    <2>2. r.intervals \in Seq(Interval) /\ r.intervals # <<>>
      BY <1>2 DEF Record, HasSession
    <2>3. q.intervals # <<>> /\ Head(q.intervals) = Head(r.intervals)
      BY <2>1, <2>2
    <2> HIDE DEF q
    <2>4. GoesOn(q, r)
      BY <1>2, <2>1, <2>3 DEF GoesOn, HasSession, STime
    <2>5. QED
      BY <1>2, <2>4 DEF q
  <1>3. CASE r.status = "ACTIVE"
    BY <1>3 DEF StartRecord, GoesOn
  <1>4. QED
    BY <1>1, <1>2, <1>3 DEF Record, Status

\* The timeout and the member are no part of that.
LEMMA SetTimes ==
  ASSUME NEW members, NEW r \in Record(members), NEW m, NEW t
  PROVE  SameSession(MemberRecord(r, m), r) /\ SameSession(TimeoutRecord(r, t), r)
  BY DEF MemberRecord, TimeoutRecord, SameSession, Record
=============================================================================
