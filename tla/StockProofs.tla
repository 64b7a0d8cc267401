---------------------------- MODULE StockProofs ----------------------------
(* Theorems about Stock, for any number of consumers, rows and units, and    *)
(* any bounds.                                                               *)
EXTENDS Stock, FiniteSetTheorems, WellFoundedInduction, TLAPS

---------------------------------------------------------------------------
(* Sums of units over rows: what the community operator SumFunctionOnSet     *)
(* computes.  It is a fold, defined by CHOOSE of a function that satisfies   *)
(* its equation.  Such a function exists and is unique: a set for which it   *)
(* were not, of the fewest elements, leads to a contradiction (Smallest).    *)

\* A set of naturals has a least element.
LEMMA Smallest ==
    ASSUME NEW T \in SUBSET Nat, T # {}
    PROVE  \E n \in T : \A m \in T : n <= m
<1> DEFINE R == {ss \in Nat \X Nat : ss[1] < ss[2]}
<1>1. IsWellFoundedOn(R, Nat)
  BY NatLessThanWellFounded DEF OpToRel
<1>2. PICK n \in T : \A m \in T : ~ (<<m, n>> \in R)
  <2> HIDE DEF R
  <2> QED BY <1>1, WFMin
<1>3. ASSUME NEW m \in T PROVE n <= m
  <2>1. n \in Nat /\ m \in Nat /\ ~(<<m, n>> \in R)
    BY <1>2
  <2>2. ~(m < n)
    BY <2>1
  <2> QED BY <2>1, <2>2
<1> QED BY <1>3

\* The element a fold takes first.
Ch(t) == CHOOSE x \in t : TRUE

\* h adds f up over the subsets of S, one element after the other.
Adds(h, f, S) ==
    \A t \in SUBSET S : h[t] = IF t = {} THEN 0 ELSE f[Ch(t)] + h[t \ {Ch(t)}]

\* It is one of the elements.
LEMMA Chosen == ASSUME NEW t, t # {} PROVE Ch(t) \in t
BY DEF Ch

\* Such a function exists for every finite S.
LEMMA AddsExists ==
    ASSUME NEW S, IsFiniteSet(S), NEW f \in [S -> Int]
    PROVE  \E h \in [SUBSET S -> Int] : Adds(h, f, S)
<1> DEFINE UpTo(h, n) == \A t \in SUBSET S : Cardinality(t) <= n =>
               h[t] = IF t = {} THEN 0 ELSE f[Ch(t)] + h[t \ {Ch(t)}]
           Bad == {n \in Nat : ~ \E h \in [SUBSET S -> Int] : UpTo(h, n)}
<1>0. ASSUME NEW t \in SUBSET S
      PROVE  /\ IsFiniteSet(t) /\ Cardinality(t) \in Nat /\ Cardinality(t) <= Cardinality(S)
             /\ Cardinality(t) = 0 <=> t = {}
             /\ t # {} => /\ Ch(t) \in S /\ t \ {Ch(t)} \in SUBSET S
                          /\ Cardinality(t \ {Ch(t)}) = Cardinality(t) - 1
  <2>1. IsFiniteSet(t) /\ Cardinality(t) <= Cardinality(S)
    BY FS_Subset
  <2>2. Cardinality(t) \in Nat
    BY <2>1, FS_CardinalityType
  <2>3. Cardinality(t) = 0 <=> t = {}
    BY <2>1, FS_EmptySet
  <2>4. t # {} => Ch(t) \in t
    BY Chosen
  <2>5. t # {} => Cardinality(t \ {Ch(t)}) = Cardinality(t) - 1
    BY <2>1, <2>4, FS_RemoveElement
  <2> QED BY <2>1, <2>2, <2>3, <2>4, <2>5
<1>1. Bad = {}
  <2> SUFFICES ASSUME Bad # {} PROVE FALSE
    OBVIOUS
  <2>1. PICK m \in Bad : \A k \in Bad : m <= k
    BY Smallest
  <2>2. m \in Nat /\ ~ \E h \in [SUBSET S -> Int] : UpTo(h, m)
    OBVIOUS
  <2>3. m # 0
    <3>1. SUFFICES ASSUME m = 0 PROVE FALSE
      OBVIOUS
    <3> DEFINE g == [t \in SUBSET S |-> 0]
    <3>2. g \in [SUBSET S -> Int]
      OBVIOUS
    <3>3. UpTo(g, m)
      <4> SUFFICES ASSUME NEW t \in SUBSET S, Cardinality(t) <= m
                   PROVE  g[t] = IF t = {} THEN 0 ELSE f[Ch(t)] + g[t \ {Ch(t)}]
        OBVIOUS
      <4>1. Cardinality(t) \in Nat /\ (Cardinality(t) = 0 => t = {})
        BY <1>0
      <4>2. Cardinality(t) <= 0
        BY <3>1
      <4>3. t = {}
        BY <4>1, <4>2
      <4> QED BY <4>3
    <3> HIDE DEF g
    <3> QED BY <2>2, <3>2, <3>3
  <2>4. m - 1 \in Nat /\ m - 1 < m
    BY <2>2, <2>3
  <2>4a. m - 1 \notin Bad
    <3> SUFFICES ASSUME m - 1 \in Bad PROVE FALSE
      OBVIOUS
    <3>1. m <= m - 1
      <4> HIDE DEF Bad
      <4> QED BY <2>1
    <3> QED BY <3>1, <2>2
  <2>5. PICK h \in [SUBSET S -> Int] : UpTo(h, m - 1)
    BY <2>4, <2>4a
  <2> DEFINE g == [t \in SUBSET S |-> IF Cardinality(t) <= m - 1 THEN h[t]
                                     ELSE f[Ch(t)] + h[t \ {Ch(t)}]]
  <2>6. g \in [SUBSET S -> Int]
    <3> SUFFICES ASSUME NEW t \in SUBSET S
                 PROVE (IF Cardinality(t) <= m - 1 THEN h[t] ELSE f[Ch(t)] + h[t \ {Ch(t)}]) \in Int
      OBVIOUS
    <3>1. CASE Cardinality(t) <= m - 1
      BY <3>1
    <3>2. CASE ~(Cardinality(t) <= m - 1)
      <4>0. Cardinality(t) \in Nat /\ (t = {} => Cardinality(t) = 0)
        BY <1>0
      <4>1. t # {}
        BY <3>2, <4>0, <2>4
      <4>2. Ch(t) \in S /\ t \ {Ch(t)} \in SUBSET S
        BY <4>1, <1>0
      <4> QED BY <3>2, <4>2
    <3> QED BY <3>1, <3>2
  <2>7. UpTo(g, m)
    <3> SUFFICES ASSUME NEW t \in SUBSET S, Cardinality(t) <= m
                 PROVE  g[t] = IF t = {} THEN 0 ELSE f[Ch(t)] + g[t \ {Ch(t)}]
      OBVIOUS
    <3> HIDE DEF Bad
    <3>1. Cardinality(t) \in Nat
      BY <1>0
    <3>2. CASE t = {}
      <4>1. Cardinality(t) = 0
        BY <1>0, <3>2
      <4>2. g[t] = h[t]
        BY <4>1, <2>4
      <4>3. h[t] = 0
        BY <2>5, <4>1, <2>4, <3>2
      <4> QED BY <3>2, <4>2, <4>3
    <3>3. CASE t # {}
      <4> DEFINE u == t \ {Ch(t)}
      <4>1. u \in SUBSET S /\ Cardinality(u) = Cardinality(t) - 1
        BY <1>0, <3>3
      <4>2. g[u] = h[u]
        BY <4>1, <3>1, <2>2
      <4>3. g[t] = f[Ch(t)] + h[u]
        <5>1. CASE Cardinality(t) <= m - 1
          <6>1. g[t] = h[t]
            BY <5>1
          <6> QED BY <5>1, <6>1, <2>5, <3>3
        <5>2. CASE ~(Cardinality(t) <= m - 1)
          BY <5>2
        <5> QED BY <5>1, <5>2
      <4> QED BY <4>2, <4>3, <3>3
    <3> QED BY <3>2, <3>3
  <2> QED BY <2>2, <2>6, <2>7
<1>2. Cardinality(S) \in Nat
  BY FS_CardinalityType
<1>3. PICK h \in [SUBSET S -> Int] : UpTo(h, Cardinality(S))
  BY <1>1, <1>2
<1>4. Adds(h, f, S)
  BY <1>0, <1>3 DEF Adds
<1> QED BY <1>4

\* Any element of T may be the one that is added last.
AnyLast(h, f, T) == \A x \in T : h[T] = f[x] + h[T \ {x}]

\* The order in which the elements are added makes no difference.
LEMMA AddsStep ==
    ASSUME NEW S, IsFiniteSet(S), NEW f, \A x \in S : f[x] \in Int,
           NEW h, \A t \in SUBSET S : h[t] \in Int, Adds(h, f, S)
    PROVE  \A T \in SUBSET S : AnyLast(h, f, T)
<1> DEFINE Wrong(t) == ~AnyLast(h, f, t)
           Sizes == {n \in Nat : \E t \in SUBSET S : Cardinality(t) = n /\ Wrong(t)}
<1>0. ASSUME NEW t \in SUBSET S
      PROVE  IsFiniteSet(t) /\ Cardinality(t) \in Nat
  <2>1. IsFiniteSet(t)
    BY FS_Subset
  <2> QED BY <2>1, FS_CardinalityType
<1>1. SUFFICES Sizes = {}
  BY <1>0
<1> SUFFICES ASSUME Sizes # {} PROVE FALSE
  OBVIOUS
<1>2. PICK m \in Sizes : \A k \in Sizes : m <= k
  BY Smallest
<1>3. PICK t \in SUBSET S : Cardinality(t) = m /\ Wrong(t)
  OBVIOUS
<1>4. PICK y \in t : h[t] # f[y] + h[t \ {y}]
  BY <1>3 DEF AnyLast
<1> DEFINE z == Ch(t)
<1>5. z \in t
  BY <1>4, Chosen
<1>6. h[t] = f[z] + h[t \ {z}]
  BY <1>4 DEF Adds
<1>7. y # z
  BY <1>4, <1>6
<1>8. ASSUME NEW u \in SUBSET S, NEW w \in u, Cardinality(u) < m
      PROVE  h[u] = f[w] + h[u \ {w}]
  <2> SUFFICES ASSUME Wrong(u) PROVE FALSE
    BY DEF AnyLast
  <2>1. Cardinality(u) \in Nat /\ m \in Nat
    BY <1>0
  <2>2. Cardinality(u) \in Sizes
    BY <2>1
  <2>3. m <= Cardinality(u)
    <3> HIDE DEF Sizes
    <3> QED BY <2>2, <1>2
  <2> QED BY <2>1, <2>3, <1>8
<1>9. Cardinality(t \ {y}) < m /\ Cardinality(t \ {z}) < m
  <2>1. Cardinality(t \ {y}) = Cardinality(t) - 1 /\ Cardinality(t \ {z}) = Cardinality(t) - 1
    BY <1>0, <1>4, <1>5, FS_RemoveElement
  <2>2. m \in Nat
    BY <1>2
  <2> QED BY <2>1, <2>2, <1>3
<1> HIDE DEF Sizes, Wrong, z
<1>10. h[t \ {y}] = f[z] + h[(t \ {y}) \ {z}]
  BY <1>5, <1>7, <1>8, <1>9
<1>11. h[t \ {z}] = f[y] + h[(t \ {z}) \ {y}]
  BY <1>4, <1>7, <1>8, <1>9
<1>12. (t \ {y}) \ {z} = (t \ {z}) \ {y}
  OBVIOUS
<1>13. f[y] \in Int /\ f[z] \in Int /\ h[(t \ {z}) \ {y}] \in Int
  BY <1>4, <1>5
<1>14. h[t] = f[z] + (f[y] + h[(t \ {z}) \ {y}]) /\ h[t \ {y}] = f[z] + h[(t \ {z}) \ {y}]
  BY <1>6, <1>10, <1>11, <1>12
<1>15. h[t] = f[y] + h[t \ {y}]
  BY <1>13, <1>14
<1> QED BY <1>4, <1>15

\* Two of them agree on what both add, even over different sets.
LEMMA AddsAgree ==
    ASSUME NEW S, IsFiniteSet(S), NEW R, NEW f, NEW g, NEW h, NEW k,
           Adds(h, f, S), Adds(k, g, R),
           NEW T \in SUBSET S, T \subseteq R, \A x \in T : f[x] = g[x]
    PROVE  h[T] = k[T]
<1> DEFINE Sizes == {n \in Nat : \E t \in SUBSET T : Cardinality(t) = n /\ h[t] # k[t]}
<1>0. ASSUME NEW t \in SUBSET T
      PROVE  IsFiniteSet(t) /\ Cardinality(t) \in Nat
  <2>1. IsFiniteSet(t)
    BY FS_Subset
  <2> QED BY <2>1, FS_CardinalityType
<1>1. SUFFICES Sizes = {}
  BY <1>0
<1> SUFFICES ASSUME Sizes # {} PROVE FALSE
  OBVIOUS
<1>2. PICK m \in Sizes : \A n \in Sizes : m <= n
  BY Smallest
<1>3. PICK t \in SUBSET T : Cardinality(t) = m /\ h[t] # k[t]
  OBVIOUS
<1>4. t \in SUBSET S /\ t \in SUBSET R
  OBVIOUS
<1>5. t # {}
  BY <1>3, <1>4 DEF Adds
<1> DEFINE z == Ch(t)
           u == t \ {z}
<1>6. z \in t
  BY <1>5, Chosen
<1>7. h[t] = f[z] + h[u] /\ k[t] = g[z] + k[u]
  BY <1>4, <1>5 DEF Adds
<1>8. h[u] # k[u]
  BY <1>3, <1>6, <1>7
<1>9. Cardinality(u) = m - 1 /\ Cardinality(u) \in Nat /\ m \in Nat
  <2>1. Cardinality(u) = Cardinality(t) - 1
    BY <1>0, <1>6, FS_RemoveElement
  <2>2. Cardinality(u) \in Nat
    BY <1>0
  <2> QED BY <2>1, <2>2, <1>3, <1>2
<1>10. Cardinality(u) \in Sizes
  BY <1>8, <1>9
<1>11. m <= Cardinality(u)
  <2> HIDE DEF Sizes, u
  <2> QED BY <1>2, <1>10
<1> QED BY <1>9, <1>11

---------------------------------------------------------------------------
\* The sum of a function is what such a function says of the whole set.
LEMMA SumAdds ==
    ASSUME NEW S, IsFiniteSet(S), NEW f, \A x \in S : f[x] \in Int
    PROVE  \E h \in [SUBSET S -> Int] :
             Adds(h, [x \in S |-> f[x]], S) /\ SumFunctionOnSet(f, S) = h[S]
<1> DEFINE g == [x \in S |-> f[x]]
           Sums(it) == it = [s \in SUBSET S |-> IF s = {} THEN 0
                               ELSE f[CHOOSE x \in s : TRUE] + it[s \ {CHOOSE x \in s : TRUE}]]
           iter == CHOOSE it : Sums(it)
<1>1. PICK h \in [SUBSET S -> Int] : Adds(h, g, S)
  BY AddsExists
<1>2. Sums(h)
  <2> SUFFICES ASSUME NEW s \in SUBSET S
               PROVE  h[s] = IF s = {} THEN 0
                             ELSE f[CHOOSE x \in s : TRUE] + h[s \ {CHOOSE x \in s : TRUE}]
    OBVIOUS
  <2>1. h[s] = IF s = {} THEN 0 ELSE g[Ch(s)] + h[s \ {Ch(s)}]
    BY <1>1 DEF Adds
  <2>2. s # {} => Ch(s) \in S
    BY Chosen
  <2>3. h[s] = IF s = {} THEN 0 ELSE f[Ch(s)] + h[s \ {Ch(s)}]
    BY <2>1, <2>2
  <2> QED BY <2>3 DEF Ch
<1>3. Sums(iter)
  <2> HIDE DEF Sums
  <2> QED BY <1>2
<1>4. iter = h
  <2>1. Adds(iter, g, S)
    <3> SUFFICES ASSUME NEW s \in SUBSET S
                 PROVE  iter[s] = IF s = {} THEN 0 ELSE g[Ch(s)] + iter[s \ {Ch(s)}]
      BY DEF Adds
    <3>1. iter[s] = IF s = {} THEN 0 ELSE f[Ch(s)] + iter[s \ {Ch(s)}]
      <4> HIDE DEF iter
      <4> QED BY <1>3 DEF Ch
    <3>2. s # {} => Ch(s) \in S
      BY Chosen
    <3> HIDE DEF iter
    <3> QED BY <3>1, <3>2
  <2>2. iter = [s \in SUBSET S |-> iter[s]]
    <3> HIDE DEF iter
    <3> QED BY <1>3
  <2>3. ASSUME NEW s \in SUBSET S PROVE iter[s] = h[s]
    <3> HIDE DEF iter
    <3> QED BY <1>1, <2>1, AddsAgree
  <2> HIDE DEF iter
  <2> QED BY <2>2, <2>3
<1>5. SumFunctionOnSet(f, S) = iter[S]
  BY DEF SumFunctionOnSet, FoldFunctionOnSet, MapThenFoldSet
<1> QED BY <1>1, <1>4, <1>5

\* A sum of integers is an integer.
LEMMA SumType ==
    ASSUME NEW S, IsFiniteSet(S), NEW f, \A x \in S : f[x] \in Int
    PROVE  SumFunctionOnSet(f, S) \in Int
<1>1. PICK h \in [SUBSET S -> Int] :
             Adds(h, [x \in S |-> f[x]], S) /\ SumFunctionOnSet(f, S) = h[S]
  BY SumAdds
<1>2. h[S] \in Int
  OBVIOUS
<1> QED BY <1>1, <1>2

\* Over no element the sum is zero.
LEMMA SumEmpty ==
    ASSUME NEW f
    PROVE  SumFunctionOnSet(f, {}) = 0
<1>1. IsFiniteSet({})
  BY FS_EmptySet
<1>2. PICK h \in [SUBSET {} -> Int] :
             Adds(h, [x \in {} |-> f[x]], {}) /\ SumFunctionOnSet(f, {}) = h[{}]
  BY <1>1, SumAdds
<1> QED BY <1>2 DEF Adds

\* A sum depends on nothing but the values it adds.
LEMMA SumAgree ==
    ASSUME NEW S, IsFiniteSet(S), NEW f, NEW g,
           \A x \in S : f[x] \in Int /\ g[x] = f[x]
    PROVE  SumFunctionOnSet(g, S) = SumFunctionOnSet(f, S)
<1> DEFINE ff == [x \in S |-> f[x]]
           gg == [x \in S |-> g[x]]
<1>1. PICK h \in [SUBSET S -> Int] : Adds(h, ff, S) /\ SumFunctionOnSet(f, S) = h[S]
  BY SumAdds
<1>2. PICK k \in [SUBSET S -> Int] : Adds(k, gg, S) /\ SumFunctionOnSet(g, S) = k[S]
  BY SumAdds
<1>3. \A x \in S : ff[x] = gg[x]
  OBVIOUS
<1>4. S \in SUBSET S
  OBVIOUS
<1> HIDE DEF ff, gg
<1>5. h[S] = k[S]
  BY <1>1, <1>2, <1>3, <1>4, AddsAgree
<1> QED BY <1>1, <1>2, <1>5

\* An element of the set can be taken out,
LEMMA SumSplit ==
    ASSUME NEW S, IsFiniteSet(S), NEW f, \A x \in S : f[x] \in Int, NEW x \in S
    PROVE  SumFunctionOnSet(f, S) = f[x] + SumFunctionOnSet(f, S \ {x})
<1> DEFINE R == S \ {x}
           ff == [y \in S |-> f[y]]
           gg == [y \in R |-> f[y]]
<1>1. IsFiniteSet(R)
  BY FS_Subset
<1>2. PICK h \in [SUBSET S -> Int] : Adds(h, ff, S) /\ SumFunctionOnSet(f, S) = h[S]
  BY SumAdds
<1>3. PICK k \in [SUBSET R -> Int] : Adds(k, gg, R) /\ SumFunctionOnSet(f, R) = k[R]
  <2> HIDE DEF R
  <2>1. \A y \in R : f[y] \in Int
    BY DEF R
  <2> QED BY <1>1, <2>1, SumAdds
<1>4. R \in SUBSET S /\ S \in SUBSET S /\ R \in SUBSET R /\ ff \in [S -> Int] /\ ff[x] = f[x]
  OBVIOUS
<1>5. \A y \in R : ff[y] = gg[y]
  OBVIOUS
<1>6. h[S] = ff[x] + h[R]
  <2>1. Adds(h, ff, S) /\ ff[x] = f[x]
    BY <1>2
  <2>2. (\A y \in S : ff[y] \in Int) /\ \A t \in SUBSET S : h[t] \in Int
    OBVIOUS
  <2> HIDE DEF ff
  <2>3. AnyLast(h, ff, S)
    BY <2>1, <2>2, AddsStep
  <2> QED BY <2>3 DEF AnyLast
<1>7. h[R] = k[R]
  <2> HIDE DEF ff, gg, R
  <2> QED BY <1>2, <1>3, <1>4, <1>5, AddsAgree
<1> QED BY <1>2, <1>3, <1>4, <1>6, <1>7

\* or one added to it.
LEMMA SumAdd ==
    ASSUME NEW S, IsFiniteSet(S), NEW f, NEW x, x \notin S,
           \A y \in S \cup {x} : f[y] \in Int
    PROVE  SumFunctionOnSet(f, S \cup {x}) = f[x] + SumFunctionOnSet(f, S)
<1> DEFINE R == S \cup {x}
<1>1. IsFiniteSet(R)
  BY FS_AddElement
<1>2. x \in R /\ R \ {x} = S
  OBVIOUS
<1> HIDE DEF R
<1>3. \A y \in R : f[y] \in Int
  BY DEF R
<1>4. SumFunctionOnSet(f, R) = f[x] + SumFunctionOnSet(f, R \ {x})
  BY <1>1, <1>2, <1>3, SumSplit
<1> QED BY <1>2, <1>4 DEF R

---------------------------------------------------------------------------
(* Operators                                                               *)

\* The key of the next row is one that is free.
LEMMA FreeRow ==
  ASSUME Free # {}
  PROVE  Min(Free) \in Free
  <1>1. Free \subseteq Nat BY ParametersAssumption DEF Free
  <1>2. \E n \in Free : \A m \in Free : n <= m BY <1>1, Smallest
  <1> HIDE DEF Free
  <1> QED BY <1>2 DEF Min

\* max of two numbers.
LEMMA MaxOfTwo ==
  ASSUME NEW a \in Int, NEW b \in Int
  PROVE  Max({a, b}) \in Int /\ Max({a, b}) >= a /\ Max({a, b}) >= b
         /\ Max({a, b}) \in {a, b}
  <1>1. CASE a >= b
    <2>1. \A x \in {a, b} : (\A y \in {a, b} : x >= y) => x = a BY <1>1
    <2>2. a \in {a, b} /\ \A y \in {a, b} : a >= y BY <1>1
    <2>3. Max({a, b}) = a BY <2>1, <2>2 DEF Max
    <2> QED BY <1>1, <2>3
  <1>2. CASE ~(a >= b)
    <2>1. \A x \in {a, b} : (\A y \in {a, b} : x >= y) => x = b BY <1>2
    <2>2. b \in {a, b} /\ \A y \in {a, b} : b >= y BY <1>2
    <2>3. Max({a, b}) = b BY <2>1, <2>2 DEF Max
    <2> QED BY <1>2, <2>3
  <1> QED BY <1>1, <1>2

\* A movement in Full or in Galpão keeps the balances numbers.
LEMMA TinyType ==
  ASSUME NEW t \in Readings, NEW n \in Int
  PROVE  /\ [t EXCEPT !.g = n] \in Readings
         /\ [t EXCEPT !.f = n] \in Readings
  BY DEF Readings

\* A message that waits holds a well-formed item, whatever step it is at.
LEMMA HandType ==
  ASSUME NEW h \in Hands
  PROVE  /\ \A step \in {"idle", "fetch", "store", "previous", "record"}, ml \in Int :
              [h EXCEPT !.step = step, !.ml = ml] \in Hands
         /\ \A prev \in Readings : [h EXCEPT !.step = "record", !.prev = prev] \in Hands
         /\ \A p \in {"no", "read", "done"} : [h EXCEPT !.passed = p] \in Hands
         /\ [h EXCEPT !.after = FALSE] \in Hands
  BY DEF Hands

LEMMA IdleHandType == IdleHand \in Hands
  BY DEF IdleHand, Hands, NoReading, Readings

LEMMA CreateType ==
  ASSUME TypeOK, NEW qty \in Nat, NEW src \in {"api", "tiny_webhook"}, Create(qty, src)
  PROVE  row' \in [Ids -> Transfers]
  <1>1. [status |-> "pending", qty |-> qty, got |-> 0, fresh |-> TRUE, src |-> src]
          \in Transfers
    BY DEF Transfers
  <1> QED BY <1>1 DEF Create, TypeOK

\* What is in transit is a number.
LEMMA InTransitType == TypeOK => InTransit \in Int
  <1> SUFFICES ASSUME TypeOK PROVE InTransit \in Int
    OBVIOUS
  <1> DEFINE f == [i \in Ids |-> Net(i)]
  <1>1. IsFiniteSet(Pending) BY ParametersAssumption, FS_Subset DEF Pending
  <1>2. \A i \in Pending : f[i] \in Int BY DEF Pending, Net, TypeOK, Transfers
  <1>3. SumFunctionOnSet(f, Pending) \in Int
    <2> HIDE DEF f
    <2> QED BY <1>1, <1>2, SumType
  <1> QED BY <1>3 DEF InTransit

\* Units left of a budget.
LEMMA LeftType ==
  ASSUME NEW l \in Bounds
  PROVE  /\ l.items > 0 => [l EXCEPT !.items = @ - 1] \in Bounds
         /\ l.requests > 0 => [l EXCEPT !.requests = @ - 1] \in Bounds
         /\ l.events > 0 => [l EXCEPT !.events = @ - 1] \in Bounds
         /\ l.arrivals > 0 => [l EXCEPT !.arrivals = @ - 1] \in Bounds
         /\ l.faults > 0 => [l EXCEPT !.faults = @ - 1] \in Bounds
         /\ l.crashes > 0 => [l EXCEPT !.crashes = @ - 1] \in Bounds
  BY DEF Bounds

LEMMA FaultType == TypeOK /\ Fault => left' \in Bounds
  BY LeftType DEF TypeOK, Fault

---------------------------------------------------------------------------
(* Types                                                                   *)

\* What an action leaves alone keeps its type.
LEMMA TypeOfItem ==
  ASSUME TypeOK, NEW c \in Consumers,
         GetStock(c) \/ Consume(c) \/ RecordFails(c) \/ ItemFails(c)
  PROVE  TypeOK'
  <1>0. hand \in [Consumers -> Hands] /\ hand[c] \in Hands BY DEF TypeOK
  <1>1. CASE GetStock(c)
    <2> DEFINE taken == [IdleHand EXCEPT !.step = "fetch",
                                         !.read = [g |-> Floor(tiny.g), f |-> Floor(tiny.f)],
                                         !.after = TRUE]
    <2>1. taken \in Hands
      <3> DEFINE r == [g |-> Floor(tiny.g), f |-> Floor(tiny.f)]
      <3>1. Floor(tiny.g) \in Int /\ Floor(tiny.f) \in Int BY DEF TypeOK, Readings, Floor
      <3>2. r \in Readings BY <3>1 DEF Readings
      <3> HIDE DEF r
      <3>3. [IdleHand EXCEPT !.step = "fetch", !.read = r, !.after = TRUE] \in Hands
        BY <3>2, IdleHandType DEF Hands
      <3> QED BY <3>3 DEF r
    <2>2. \A d \in Consumers : [hand[d] EXCEPT !.passed = "read"] \in Hands
      BY <1>0, HandType
    <2>3. hand' \in [Consumers -> Hands]
      <3> HIDE DEF taken
      <3> QED BY <1>0, <1>1, <2>1, <2>2 DEF GetStock, taken
    <2>4. left' \in Bounds BY <1>1, LeftType DEF GetStock, TypeOK
    <2> QED BY <1>1, <2>3, <2>4 DEF GetStock, TypeOK, books, tables, others, history
  <1>2. CASE FetchFull(c)
    <2>1. hand' \in [Consumers -> Hands]
      <3>1. PICK ml \in Int : SetHand(c, [hand[c] EXCEPT !.step = "store", !.ml = ml])
        <4>1. full \in Int BY DEF TypeOK
        <4>2. (IF kind = "full" THEN full ELSE 0) \in Int /\ 0 \in Int BY <4>1
        <4>3. \/ SetHand(c, [hand[c] EXCEPT !.step = "store",
                                            !.ml = IF kind = "full" THEN full ELSE 0])
              \/ SetHand(c, [hand[c] EXCEPT !.step = "store", !.ml = 0])
          BY <1>2, Zenon DEF FetchFull
        <4> QED BY <4>2, <4>3, Zenon
      <3>2. [hand[c] EXCEPT !.step = "store", !.ml = ml] \in Hands BY <1>0, HandType
      <3> QED BY <1>0, <3>1, <3>2 DEF SetHand
    <2>2. left' \in Bounds BY <1>2, FaultType DEF FetchFull, TypeOK
    <2> QED BY <1>2, <2>1, <2>2 DEF FetchFull, TypeOK, books, tables, others, history
  <1>3. CASE StoreDeposits(c)
    <2>1. hand' \in [Consumers -> Hands]
      <3>1. [hand[c] EXCEPT !.step = "previous", !.ml = 0] \in Hands
        <4>1. \A ml \in Int : [hand[c] EXCEPT !.step = "previous", !.ml = ml] \in Hands
          BY <1>0 DEF Hands
        <4>2. 0 \in Int OBVIOUS
        <4> QED BY <4>1, <4>2, Zenon
      <3> QED BY <1>0, <1>3, <3>1 DEF StoreDeposits, SetHand
    <2>2. deposit' \in Int BY <1>0, <1>3 DEF StoreDeposits, Hands
    <2> QED BY <1>3, <2>1, <2>2 DEF StoreDeposits, TypeOK, books, others, history
  <1>4. CASE ReadSnapshot(c)
    <2>1. hand' \in [Consumers -> Hands]
      <3>1. [hand[c] EXCEPT !.step = "record", !.prev = snap] \in Hands
        BY <1>0, HandType DEF TypeOK
      <3> QED BY <1>0, <1>4, <3>1 DEF ReadSnapshot, SetHand
    <2> QED BY <1>4, <2>1 DEF ReadSnapshot, TypeOK, books, tables, others, history
  <1>5. CASE RecordDelta(c)
    <2>0. PICK infers \in BOOLEAN :
            /\ Recorded(c, infers)
            /\ IF infers THEN Create(Shipped(hand[c].prev, hand[c].read), "tiny_webhook")
               ELSE UNCHANGED row
            /\ infers => Corroborated(hand[c].prev, hand[c].read)
      BY <1>5 DEF RecordDelta
    <2>1. hand' \in [Consumers -> Hands]
      <3>1. \A d \in Consumers : [hand[d] EXCEPT !.passed = "done"] \in Hands
        BY <1>0, HandType
      <3> QED BY <1>0, <2>0, <3>1, IdleHandType DEF Recorded
    <2>2. row' \in [Ids -> Transfers]
      <3>1. CASE infers
        <4> DEFINE old == hand[c].prev
                   new == hand[c].read
        <4>1. old \in Readings /\ new \in Readings BY <1>0 DEF Hands
        <4>2. new.f - old.f \in Int /\ old.g - new.g \in Int BY <4>1 DEF Readings
        <4>3. Shipped(old, new) \in Nat
          <5>1. new.f - old.f > 0 BY <2>0, <3>1, <4>1 DEF Corroborated, Readings
          <5>2. Shipped(old, new) \in Int /\ Shipped(old, new) >= new.f - old.f
            BY <4>2, MaxOfTwo DEF Shipped
          <5> QED BY <4>2, <5>1, <5>2
        <4>4. Create(Shipped(old, new), "tiny_webhook") BY <2>0, <3>1
        <4> QED BY <4>3, <4>4, CreateType
      <3>2. CASE ~infers BY <2>0, <3>2 DEF TypeOK
      <3> QED BY <3>1, <3>2
    <2>3. snap' \in Readings BY <1>0, <2>0 DEF Recorded, Hands
    <2>4. unread' \in BOOLEAN BY <2>0 DEF Recorded
    <2>5. blame' \subseteq Blames BY <2>0 DEF Recorded, Blames, TypeOK
    <2> QED BY <1>5, <2>1, <2>2, <2>3, <2>4, <2>5 DEF RecordDelta, TypeOK, books, others
  <1>6. CASE RecordFails(c) \/ ItemFails(c)
    <2>1. hand' \in [Consumers -> Hands]
      BY <1>0, <1>6, IdleHandType DEF RecordFails, ItemFails, SetHand
    <2>2. left' \in Bounds BY <1>6, FaultType DEF RecordFails, ItemFails
    <2> QED BY <1>6, <2>1, <2>2
          DEF RecordFails, ItemFails, TypeOK, books, tables, others, history
  <1> QED BY <1>1, <1>2, <1>3, <1>4, <1>5, <1>6 DEF Consume

\* The steps of the endpoint.
LEMMA TypeOfRequest ==
  ASSUME TypeOK, (\E qty \in 1..MaxQty : CheckStock(qty)) \/ Serve \/ MovementResent \/ RequestFails
  PROVE  TypeOK'
  <1>0. /\ request.qty \in Nat /\ tiny \in Readings /\ tiny.f \in Int /\ tiny.g \in Int
        /\ out \in Nat /\ way \in Nat
    BY DEF TypeOK, Readings
  <1>1. ASSUME NEW qty \in 1..MaxQty, CheckStock(qty) PROVE TypeOK'
    <2>1. request' \in [step : {"idle", "exit", "entry", "row"}, qty : Nat]
      BY <1>1, ParametersAssumption DEF CheckStock
    <2>2. left' \in Bounds BY <1>1, LeftType DEF CheckStock, TypeOK
    <2> QED BY <1>1, <2>1, <2>2
          DEF CheckStock, TypeOK, books, tables, requesting, history
  <1>2. Exit => tiny' \in Readings /\ out' \in Nat /\ hand' = hand /\ unread' = unread
    BY <1>0 DEF Exit, Readings
  <1>3. Entry => tiny' \in Readings /\ out' = out /\ hand' \in [Consumers -> Hands]
                 /\ unread' \in BOOLEAN
    <2> SUFFICES ASSUME Entry
                 PROVE  tiny' \in Readings /\ out' = out /\ hand' \in [Consumers -> Hands]
                        /\ unread' \in BOOLEAN
      OBVIOUS
    <2>1. \A c \in Consumers : [hand[c] EXCEPT !.after = FALSE] \in Hands
      BY HandType DEF TypeOK
    <2>2. tiny' \in Readings BY <1>0 DEF Entry, Readings
    <2> QED BY <2>1, <2>2 DEF Entry
  <1>4. CASE PostExit
    <2>1. request' \in [step : {"idle", "exit", "entry", "row"}, qty : Nat]
      BY <1>4 DEF PostExit, TypeOK
    <2> QED BY <1>2, <1>4, <2>1 DEF PostExit, TypeOK, tables
  <1>5. CASE PostEntry
    <2>1. request' \in [step : {"idle", "exit", "entry", "row"}, qty : Nat]
      BY <1>5 DEF PostEntry, TypeOK
    <2>2. way' \in Nat BY <1>0, <1>5 DEF PostEntry
    <2> QED BY <1>3, <1>5, <2>1, <2>2 DEF PostEntry, TypeOK, tables
  <1>6. CASE RecordTransfer
    <2>1. row' \in [Ids -> Transfers] BY <1>0, <1>6, CreateType DEF RecordTransfer
    <2> QED BY <1>6, <2>1 DEF RecordTransfer, TypeOK, books, requesting, history, IdleRequest
  <1>7. CASE MovementResent
    <2>1. left' \in Bounds BY <1>7, FaultType DEF MovementResent
    <2>2. CASE Exit
      BY <1>2, <1>7, <2>1, <2>2 DEF MovementResent, TypeOK, tables
    <2>3. CASE Entry
      BY <1>3, <1>7, <2>1, <2>3 DEF MovementResent, TypeOK, tables
    <2> QED BY <1>7, <2>2, <2>3 DEF MovementResent
  <1>8. CASE RequestFails
    <2>1. left' \in Bounds BY <1>8, FaultType DEF RequestFails
    <2> QED BY <1>8, <2>1 DEF RequestFails, TypeOK, books, tables, requesting, history, IdleRequest
  <1> QED BY <1>1, <1>4, <1>5, <1>6, <1>7, <1>8 DEF Serve

\* The steps of the refresh and of the correction.
LEMMA TypeOfPass ==
  ASSUME TypeOK, SweepFetch \/ SweepStore \/ Correct \/ PostFails \/ LogFails
  PROVE  TypeOK'
  <1> DEFINE Passes == [step : {"idle", "saldo", "post", "log"}, ml : Int, delta : Int]
  <1>0. /\ tiny \in Readings /\ tiny.f \in Int /\ full \in Int /\ deposit \in Int
        /\ pass \in Passes /\ pass.ml \in Int /\ pass.delta \in Int /\ IdlePass \in Passes
    BY DEF TypeOK, Readings, IdlePass
  <1>1. CASE SweepFetch
    BY <1>0, <1>1 DEF SweepFetch, TypeOK, books, tables, history
  <1>2. CASE SweepStore
    BY <1>2 DEF SweepStore, TypeOK, books, history, IdleSweep
  <1>3. CASE LoadCandidate
    <2>1. deposit + InTransit \in Int BY <1>0, InTransitType
    <2>2. pass' = [step |-> "saldo", ml |-> deposit + InTransit, delta |-> 0]
      BY <1>3 DEF LoadCandidate, IdlePass
    <2>3. pass' \in Passes BY <2>1, <2>2
    <2> QED BY <1>3, <2>3 DEF LoadCandidate, TypeOK, books, tables, passing, history
  <1>4. CASE ReadSaldo
    <2>1. pass' \in Passes
      <3> DEFINE delta == pass.ml - tiny.f
      <3>1. delta \in Int BY <1>0
      <3> HIDE DEF delta
      <3>2. [pass EXCEPT !.step = "post", !.delta = delta] \in Passes BY <1>0, <3>1
      <3>3. pass' \in {IdlePass, [pass EXCEPT !.step = "post", !.delta = delta]}
        BY <1>4 DEF ReadSaldo, delta
      <3> QED BY <1>0, <3>2, <3>3
    <2> QED BY <1>4, <2>1 DEF ReadSaldo, TypeOK, books, tables, passing, history
  <1>5. CASE PostBalance
    <2>1. pass' \in Passes BY <1>0, <1>5 DEF PostBalance
    <2>2. tiny' \in Readings BY <1>0, <1>5, TinyType DEF PostBalance
    <2> QED BY <1>5, <2>1, <2>2 DEF PostBalance, TypeOK, tables, passing, history
  <1>6. CASE LogCorrection
    <2>1. fix' \in [delta : Int, age : {"none", "new", "mid"}] BY <1>0, <1>6 DEF LogCorrection
    <2>2. pass' \in Passes BY <1>0, <1>6 DEF LogCorrection
    <2> QED BY <1>6, <2>1, <2>2 DEF LogCorrection, TypeOK, books, passing, history
  <1>7. CASE PostFails
    <2>1. left' \in Bounds BY <1>7, FaultType DEF PostFails
    <2>2. tiny' \in Readings BY <1>0, <1>7, TinyType DEF PostFails
    <2>3. pass' \in Passes BY <1>0, <1>7 DEF PostFails
    <2> QED BY <1>7, <2>1, <2>2, <2>3 DEF PostFails, TypeOK, tables, passing, history
  <1>8. CASE LogFails
    <2>1. left' \in Bounds BY <1>8, FaultType DEF LogFails
    <2>2. pass' \in Passes BY <1>0, <1>8 DEF LogFails
    <2> QED BY <1>8, <2>1, <2>2 DEF LogFails, TypeOK, books, tables, passing, history
  <1> QED BY <1>1, <1>2, <1>3, <1>4, <1>5, <1>6, <1>7, <1>8 DEF Correct

\* What the scan credits, or cancels.
LEMMA CreditType ==
  ASSUME NEW r \in Transfers
  PROVE  /\ Credited(r) \in Transfers
         /\ [r EXCEPT !.status = "cancelled"] \in Transfers
         /\ [r EXCEPT !.fresh = FALSE] \in Transfers
  <1>1. Credited(r) \in Transfers
    <2>1. r.got + 1 \in Nat BY DEF Transfers
    <2> DEFINE st == IF r.got + 1 = r.qty THEN "received" ELSE r.status
    <2>2. st \in {"none", "pending", "received", "cancelled"} BY DEF Transfers
    <2> HIDE DEF st
    <2>3. \A n \in Nat : [r EXCEPT !.got = n, !.status = st] \in Transfers
      BY <2>2 DEF Transfers
    <2>4. [r EXCEPT !.got = r.got + 1, !.status = st] \in Transfers BY <2>1, <2>3, Zenon
    <2> QED BY <2>4 DEF Credited, st
  <1>2. [r EXCEPT !.status = "cancelled"] \in Transfers BY DEF Transfers
  <1>3. [r EXCEPT !.fresh = FALSE] \in Transfers BY DEF Transfers
  <1> QED BY <1>1, <1>2, <1>3

\* What other people do.
LEMMA TypeOfEvent ==
  ASSUME TypeOK, NEW qty \in Nat,
         LeaveGalpao(qty) \/ EnterFull(qty) \/ Return \/ SellFromFull \/ BookSale \/ Arrive
  PROVE  TypeOK'
  <1>0. /\ tiny \in Readings /\ tiny.f \in Int /\ tiny.g \in Int /\ qty \in Nat
        /\ out \in Nat /\ way \in Nat /\ full \in Nat /\ owed \in Nat /\ arrived \in Nat
    BY DEF TypeOK, Readings
  <1>1. CASE LeaveGalpao(qty)
    <2>1. tiny' \in Readings BY <1>0, <1>1 DEF LeaveGalpao, Readings
    <2>2. left' \in Bounds BY <1>1, LeftType DEF LeaveGalpao, Event, TypeOK
    <2>3. out' \in Nat BY <1>0, <1>1 DEF LeaveGalpao
    <2> QED BY <1>1, <2>1, <2>2, <2>3 DEF LeaveGalpao, TypeOK, tables, running
  <1>2. CASE EnterFull(qty)
    <2>1. tiny' \in Readings BY <1>0, <1>2 DEF EnterFull, Readings
    <2>2. left' \in Bounds BY <1>2, LeftType DEF EnterFull, Event, TypeOK
    <2>3. way' \in Nat BY <1>0, <1>2 DEF EnterFull
    <2> QED BY <1>2, <2>1, <2>2, <2>3 DEF EnterFull, TypeOK, tables, running, history
  <1>3. CASE Return
    <2>1. tiny' \in Readings BY <1>0, <1>3 DEF Return, Readings
    <2>2. left' \in Bounds BY <1>3, LeftType DEF Return, Event, TypeOK
    <2> QED BY <1>3, <2>1, <2>2 DEF Return, TypeOK, tables, running, history
  <1>4. CASE SellFromFull
    <2>1. left' \in Bounds BY <1>4, LeftType DEF SellFromFull, Event, TypeOK
    <2>2. full' \in Nat /\ owed' \in Nat BY <1>0, <1>4 DEF SellFromFull
    <2> QED BY <1>4, <2>1, <2>2 DEF SellFromFull, TypeOK, tables, running, history
  <1>5. CASE BookSale
    <2>1. tiny' \in Readings BY <1>0, <1>5 DEF BookSale, Readings
    <2>2. owed' \in Nat BY <1>0, <1>5 DEF BookSale
    <2> QED BY <1>5, <2>1, <2>2 DEF BookSale, TypeOK, tables, running, history
  <1>6. CASE Arrive
    <2>1. left' \in Bounds BY <1>6, LeftType DEF Arrive, TypeOK
    <2>2. way' \in Nat /\ full' \in Nat /\ arrived' \in Nat BY <1>0, <1>6 DEF Arrive
    <2> QED BY <1>6, <2>1, <2>2 DEF Arrive, TypeOK, tables, running, history
  <1> QED BY <1>1, <1>2, <1>3, <1>4, <1>5, <1>6

\* What the reception scan does to a row.
LEMMA TypeOfRow ==
  ASSUME TypeOK, NEW i \in Ids, CreditRow(i) \/ DrainRow(i)
  PROVE  TypeOK'
  <1>0. row \in [Ids -> Transfers] /\ row[i] \in Transfers /\ arrived \in Nat
    BY DEF TypeOK
  <1>1. CASE CreditRow(i)
    <2>1. row' \in [Ids -> Transfers] BY <1>0, <1>1, CreditType DEF CreditRow
    <2>2. arrived' \in Nat BY <1>0, <1>1 DEF CreditRow
    <2> QED BY <1>1, <2>1, <2>2 DEF CreditRow, TypeOK, running, history
  <1>2. CASE DrainRow(i)
    <2>1. row' \in [Ids -> Transfers]
      <3>1. [row[i] EXCEPT !.status = "cancelled"] \in Transfers BY <1>0, CreditType
      <3> QED BY <1>0, <1>2, <3>1 DEF DrainRow
    <2> QED BY <1>2, <2>1 DEF DrainRow, TypeOK, books, running, history
  <1> QED BY <1>1, <1>2

\* Time goes by.
LEMMA TypeOfTime ==
  ASSUME TypeOK, NEW span, TimePasses(span)
  PROVE  TypeOK'
  <1>1. row' \in [Ids -> Transfers]
    <2>1. \A i \in Ids : [row[i] EXCEPT !.fresh = FALSE] \in Transfers
      BY CreditType DEF TypeOK
    <2> QED BY <2>1 DEF TimePasses
  <1>2. busy' \in BOOLEAN BY DEF TimePasses
  <1>3. fix' \in [delta : Int, age : {"none", "new", "mid"}]
    <2> DEFINE Fixes == [delta : Int, age : {"none", "new", "mid"}]
    <2>1. fix \in Fixes BY DEF TypeOK
    <2>2. NoFix \in Fixes BY DEF NoFix
    <2>3. [fix EXCEPT !.age = "mid"] \in Fixes BY <2>1
    <2>4. fix' \in {fix, NoFix, [fix EXCEPT !.age = "mid"]} BY DEF TimePasses
    <2> QED BY <2>1, <2>2, <2>3, <2>4
  <1>4. blame' \subseteq Blames BY DEF TimePasses, TypeOK, Blames
  <1> QED BY <1>1, <1>2, <1>3, <1>4 DEF TimePasses, TypeOK, running

LEMMA TypeOfCrash ==
  ASSUME TypeOK, Crash
  PROVE  TypeOK'
  <1>1. left' \in Bounds BY LeftType DEF Crash, TypeOK
  <1>2. hand' \in [Consumers -> Hands] BY IdleHandType DEF Crash
  <1>3. /\ request' \in [step : {"idle", "exit", "entry", "row"}, qty : Nat]
        /\ sweep' \in [step : {"idle", "store"}, ml : Int]
        /\ pass' \in [step : {"idle", "saldo", "post", "log"}, ml : Int, delta : Int]
    BY DEF Crash, IdleRequest, IdleSweep, IdlePass
  <1> QED BY <1>1, <1>2, <1>3 DEF Crash, TypeOK, books, tables, history

LEMMA TypeInit == Init => TypeOK
  <1> SUFFICES ASSUME Init PROVE TypeOK
    OBVIOUS
  <1>1. tiny \in Readings /\ snap \in Readings
    BY ParametersAssumption DEF Init, Readings, NoReading
  <1>2. row \in [Ids -> Transfers] BY DEF Init, NoRow, Transfers
  <1>3. hand \in [Consumers -> Hands] BY IdleHandType DEF Init
  <1>4. left \in Bounds BY ParametersAssumption DEF Init
  <1>5. /\ request \in [step : {"idle", "exit", "entry", "row"}, qty : Nat]
        /\ sweep \in [step : {"idle", "store"}, ml : Int]
        /\ pass \in [step : {"idle", "saldo", "post", "log"}, ml : Int, delta : Int]
        /\ fix \in [delta : Int, age : {"none", "new", "mid"}]
    BY DEF Init, IdleRequest, IdleSweep, IdlePass, NoFix
  <1>6. /\ full \in Nat /\ way \in Nat /\ arrived \in Nat /\ owed \in Nat
        /\ deposit \in Int /\ out \in Nat
    BY DEF Init
  <1>7. kind \in Kinds /\ busy \in BOOLEAN /\ unread \in BOOLEAN /\ blame \subseteq Blames
    BY DEF Init
  <1> QED BY <1>1, <1>2, <1>3, <1>4, <1>5, <1>6, <1>7 DEF TypeOK

LEMMA TypeStep == TypeOK /\ [Next]_vars => TypeOK'
  <1> SUFFICES ASSUME TypeOK, [Next]_vars PROVE TypeOK'
    OBVIOUS
  <1>1. CASE UNCHANGED vars BY <1>1 DEF vars, TypeOK
  <1>2. CASE Next
    <2>1. ASSUME NEW c \in Consumers,
                 GetStock(c) \/ Consume(c) \/ RecordFails(c) \/ ItemFails(c)
          PROVE  TypeOK'
      BY <2>1, TypeOfItem
    <2>2. ASSUME NEW qty \in 1..MaxQty, CheckStock(qty) \/ LeaveGalpao(qty) \/ EnterFull(qty)
          PROVE  TypeOK'
      <3>1. qty \in Nat BY ParametersAssumption
      <3> QED BY <2>2, <3>1, TypeOfRequest, TypeOfEvent
    <2>3. CASE Return \/ SellFromFull \/ BookSale \/ Arrive
      <3>1. 0 \in Nat OBVIOUS
      <3> QED BY <2>3, <3>1, TypeOfEvent
    <2> QED BY <1>2, <2>1, <2>2, <2>3, TypeOfRequest, TypeOfPass, TypeOfRow, TypeOfTime,
               TypeOfCrash
          DEF Next
  <1> QED BY <1>1, <1>2

\* Every row, reading and movement has its type: no unit is counted below zero,
\* and what a delta books is a positive number of units.
THEOREM TypeCorrect == Spec => []TypeOK
  BY TypeInit, TypeStep, PTL DEF Spec

---------------------------------------------------------------------------
(* The ledger                                                              *)

\* What is booked is a positive number of units; a row that was never booked is
\* blank, and one that is pending lacks some of its units.
LedgerInv ==
    /\ \A i \in Ids :
         /\ row[i].status = "none" => row[i].qty = 0 /\ row[i].got = 0
         /\ row[i].status = "pending" => row[i].got < row[i].qty
    /\ request.step # "idle" => request.qty > 0

\* A delta that calls for a row is of some units.
LEMMA ShippedType ==
  ASSUME NEW old \in Readings, NEW new \in Readings, Corroborated(old, new)
  PROVE  /\ Shipped(old, new) \in Nat /\ Shipped(old, new) > 0
         /\ 80 * Shipped(old, new) <= 100 * (old.g - new.g)
  <1>1. /\ new.f - old.f \in Int /\ old.g - new.g \in Int /\ new.f - old.f > 0
        /\ 100 * (old.g - new.g) + 1 >= 80 * (new.f - old.f)
    BY DEF Corroborated, Readings
  <1> DEFINE a == new.f - old.f
             b == old.g - new.g
  <1>2. /\ Shipped(old, new) \in Int /\ Shipped(old, new) >= a
        /\ Shipped(old, new) \in {a, b}
    BY <1>1, MaxOfTwo DEF Shipped
  <1>3. a \in Int /\ b \in Int /\ a > 0 /\ 100 * b + 1 >= 80 * a BY <1>1
  <1> HIDE DEF a, b
  <1>4. 80 * Shipped(old, new) <= 100 * b
    <2>1. CASE Shipped(old, new) = a BY <1>3, <2>1
    <2>2. CASE Shipped(old, new) = b BY <1>2, <1>3, <2>2
    <2> QED BY <1>2, <2>1, <2>2
  <1> QED BY <1>2, <1>3, <1>4 DEF b

\* The actions that write the table.
Writes == \/ \E qty \in Nat, src \in {"api", "tiny_webhook"} : qty > 0 /\ Create(qty, src)
          \/ \E i \in Ids : CreditRow(i) \/ DrainRow(i)
          \/ \E span \in {"half hour", "half day", "two days"} : TimePasses(span)
          \/ row' = row

\* Whatever a step does, it writes the table in one of these ways.
LEMMA StepWrites ==
  ASSUME TypeOK, LedgerInv, [Next]_vars
  PROVE  Writes
  <1>1. ASSUME NEW c \in Consumers, RecordDelta(c) PROVE Writes
    <2> DEFINE old == hand[c].prev
               new == hand[c].read
    <2>0. old \in Readings /\ new \in Readings BY DEF TypeOK, Hands
    <2>1. CASE Corroborated(old, new) /\ Tracked /\ ~HasRecentPending
      <3>1. Create(Shipped(old, new), "tiny_webhook") BY <1>1, <2>1 DEF RecordDelta
      <3>2. Shipped(old, new) \in Nat /\ Shipped(old, new) > 0 BY <2>0, <2>1, ShippedType
      <3> QED BY <3>1, <3>2 DEF Writes
    <2>2. CASE ~(Corroborated(old, new) /\ Tracked /\ ~HasRecentPending)
      BY <1>1, <2>2 DEF RecordDelta, Writes
    <2> QED BY <2>1, <2>2
  <1>2. CASE RecordTransfer
    <2>1. request.qty \in Nat /\ request.qty > 0
      BY <1>2 DEF RecordTransfer, LedgerInv, TypeOK
    <2> QED BY <1>2, <2>1 DEF RecordTransfer, Writes
  <1>3. CASE UNCHANGED vars BY <1>3 DEF vars, Writes
  <1>4. CASE Next
    <2>1. ASSUME NEW c \in Consumers,
                 GetStock(c) \/ Consume(c) \/ RecordFails(c) \/ ItemFails(c)
          PROVE  Writes
      BY <1>1, <2>1 DEF GetStock, Consume, FetchFull, StoreDeposits, ReadSnapshot, RecordFails,
           ItemFails, tables, Writes
    <2>2. ASSUME NEW qty \in 1..MaxQty, CheckStock(qty) \/ LeaveGalpao(qty) \/ EnterFull(qty)
          PROVE  Writes
      BY <2>2 DEF CheckStock, LeaveGalpao, EnterFull, tables, Writes
    <2>3. CASE Serve \/ MovementResent \/ RequestFails
      BY <1>2, <2>3 DEF Serve, PostExit, PostEntry, MovementResent, RequestFails, tables, Writes
    <2>4. CASE SweepFetch \/ SweepStore \/ Correct \/ PostFails \/ LogFails
      BY <2>4 DEF SweepFetch, SweepStore, Correct, LoadCandidate, ReadSaldo, PostBalance,
           LogCorrection, PostFails, LogFails, tables, Writes
    <2>5. CASE Return \/ SellFromFull \/ BookSale \/ Arrive \/ Crash
      BY <2>5 DEF Return, SellFromFull, BookSale, Arrive, Crash, tables, Writes
    <2>6. CASE (\E i \in Ids : CreditRow(i) \/ DrainRow(i))
               \/ \E span \in {"half hour", "half day", "two days"} : TimePasses(span)
      BY <2>6 DEF Writes
    <2> QED BY <1>4, <2>1, <2>2, <2>3, <2>4, <2>5, <2>6 DEF Next
  <1> QED BY <1>3, <1>4

\* A new row: the others stay, it was free.
LEMMA CreateRow ==
  ASSUME TypeOK, NEW qty \in Nat, NEW src \in {"api", "tiny_webhook"}, Create(qty, src)
  PROVE  \E k \in Ids :
           /\ row[k].status = "none"
           /\ row'[k] = [status |-> "pending", qty |-> qty, got |-> 0, fresh |-> TRUE, src |-> src]
           /\ \A j \in Ids \ {k} : row'[j] = row[j]
  <1> DEFINE k == Min(Free)
             x == [status |-> "pending", qty |-> qty, got |-> 0, fresh |-> TRUE, src |-> src]
  <1>1. Free # {} /\ row' = [row EXCEPT ![k] = x] BY DEF Create
  <1>2. k \in Free BY <1>1, FreeRow
  <1>3. k \in Ids /\ row[k].status = "none" BY <1>2 DEF Free
  <1>4. row \in [Ids -> Transfers] BY DEF TypeOK
  <1> HIDE DEF k, x
  <1>5. row'[k] = x /\ \A j \in Ids \ {k} : row'[j] = row[j] BY <1>1, <1>3, <1>4
  <1> QED BY <1>1, <1>3, <1>5 DEF x

\* What a write does to a row, column by column.
Books(i) ==
    /\ row[i].status = "none"
    /\ row'[i].status = "pending" /\ row'[i].qty \in Nat /\ row'[i].qty > 0 /\ row'[i].got = 0
Credits(i) ==
    /\ row[i].status = "pending" /\ row'[i].qty = row[i].qty /\ row'[i].got = row[i].got + 1
    /\ row'[i].status = IF row'[i].got = row[i].qty THEN "received" ELSE "pending"
Cancels(i) ==
    /\ row[i].status = "pending" /\ row'[i].status = "cancelled"
    /\ row'[i].qty = row[i].qty /\ row'[i].got = row[i].got
Keeps(i) ==
    row'[i].status = row[i].status /\ row'[i].qty = row[i].qty /\ row'[i].got = row[i].got

LEMMA WrittenRow ==
  ASSUME TypeOK, Writes, NEW i \in Ids
  PROVE  Books(i) \/ Credits(i) \/ Cancels(i) \/ Keeps(i)
  <1>0. row \in [Ids -> Transfers] /\ row[i] \in Transfers BY DEF TypeOK
  <1>1. ASSUME NEW qty \in Nat, NEW src \in {"api", "tiny_webhook"}, qty > 0, Create(qty, src)
        PROVE  Books(i) \/ Keeps(i)
    <2>1. PICK k \in Ids :
            /\ row[k].status = "none"
            /\ row'[k] = [status |-> "pending", qty |-> qty, got |-> 0, fresh |-> TRUE,
                          src |-> src]
            /\ \A j \in Ids \ {k} : row'[j] = row[j]
      BY <1>1, CreateRow
    <2>2. CASE i = k BY <1>1, <2>1, <2>2 DEF Books
    <2>3. CASE i # k BY <2>1, <2>3 DEF Keeps
    <2> QED BY <2>2, <2>3
  <1>2. ASSUME NEW k \in Ids, CreditRow(k) PROVE Credits(i) \/ Keeps(i)
    <2>1. CASE i = k
      <3>1. row[i].status = "pending" /\ row'[i] = Credited(row[i])
        BY <1>0, <1>2, <2>1 DEF CreditRow, Pending
      <3>2. /\ Credited(row[i]).qty = row[i].qty
            /\ Credited(row[i]).got = row[i].got + 1
            /\ Credited(row[i]).status = IF row[i].got + 1 = row[i].qty THEN "received"
                                         ELSE row[i].status
        BY <1>0 DEF Credited, Transfers
      <3> QED BY <3>1, <3>2 DEF Credits
    <2>2. CASE i # k BY <1>0, <1>2, <2>2 DEF CreditRow, Keeps
    <2> QED BY <2>1, <2>2
  <1>3. ASSUME NEW k \in Ids, DrainRow(k) PROVE Cancels(i) \/ Keeps(i)
    <2>1. CASE i = k
      <3>1. row[i].status = "pending" /\ row'[i] = [row[i] EXCEPT !.status = "cancelled"]
        BY <1>0, <1>3, <2>1 DEF DrainRow, Pending
      <3> QED BY <1>0, <3>1 DEF Cancels, Transfers
    <2>2. CASE i # k BY <1>0, <1>3, <2>2 DEF DrainRow, Keeps
    <2> QED BY <2>1, <2>2
  <1>4. ASSUME NEW span, TimePasses(span) PROVE Keeps(i)
    BY <1>0, <1>4 DEF TimePasses, Keeps, Transfers
  <1>5. CASE row' = row BY <1>5 DEF Keeps
  <1> QED BY <1>1, <1>2, <1>3, <1>4, <1>5 DEF Writes

LEMMA LedgerInit == Init => LedgerInv
  BY DEF Init, LedgerInv, NoRow, IdleRequest

LEMMA LedgerStep == TypeOK /\ LedgerInv /\ [Next]_vars => LedgerInv'
  <1> SUFFICES ASSUME TypeOK, LedgerInv, [Next]_vars PROVE LedgerInv'
    OBVIOUS
  <1>1. ASSUME NEW i \in Ids
        PROVE  /\ row'[i].status = "none" => row'[i].qty = 0 /\ row'[i].got = 0
               /\ row'[i].status = "pending" => row'[i].got < row'[i].qty
    <2>1. Books(i) \/ Credits(i) \/ Cancels(i) \/ Keeps(i) BY StepWrites, WrittenRow
    <2>2. /\ row[i].qty \in Nat /\ row[i].got \in Nat
          /\ row[i].status = "none" => row[i].qty = 0 /\ row[i].got = 0
          /\ row[i].status = "pending" => row[i].got < row[i].qty
      BY DEF LedgerInv, TypeOK, Transfers
    <2> QED BY <2>1, <2>2 DEF Books, Credits, Cancels, Keeps
  <1>2. request'.step # "idle" => request'.qty > 0
    <2>0. request \in [step : {"idle", "exit", "entry", "row"}, qty : Nat]
          /\ (request.step # "idle" => request.qty > 0)
      BY DEF LedgerInv, TypeOK
    <2>1. ASSUME NEW qty \in 1..MaxQty, CheckStock(qty) PROVE request'.qty > 0
      BY <2>1, ParametersAssumption DEF CheckStock
    <2>2. CASE PostExit \/ PostEntry
      BY <2>0, <2>2 DEF PostExit, PostEntry
    <2>3. CASE RecordTransfer \/ RequestFails \/ Crash
      BY <2>3 DEF RecordTransfer, RequestFails, Crash, IdleRequest
    <2>4. CASE UNCHANGED request BY <2>0, <2>4
    <2>5. CASE UNCHANGED vars BY <2>4, <2>5 DEF vars
    <2>6. ASSUME NEW c \in Consumers,
                 GetStock(c) \/ Consume(c) \/ RecordFails(c) \/ ItemFails(c)
          PROVE  UNCHANGED request
      BY <2>6 DEF GetStock, Consume, FetchFull, StoreDeposits, ReadSnapshot, RecordDelta,
           RecordFails, ItemFails, others
    <2>7. ASSUME NEW qty \in 1..MaxQty, LeaveGalpao(qty) \/ EnterFull(qty)
          PROVE  UNCHANGED request
      BY <2>7 DEF LeaveGalpao, EnterFull, running
    <2>8. CASE MovementResent BY <2>4, <2>8 DEF MovementResent
    <2>9. CASE SweepFetch \/ SweepStore \/ Correct \/ PostFails \/ LogFails
      BY <2>4, <2>9 DEF SweepFetch, SweepStore, Correct, LoadCandidate, ReadSaldo, PostBalance,
           LogCorrection, PostFails, LogFails, passing
    <2>10. CASE Return \/ SellFromFull \/ BookSale \/ Arrive
      BY <2>4, <2>10 DEF Return, SellFromFull, BookSale, Arrive, running
    <2>11. ASSUME NEW i \in Ids, CreditRow(i) \/ DrainRow(i) PROVE UNCHANGED request
      BY <2>11 DEF CreditRow, DrainRow, running
    <2>12. ASSUME NEW span, TimePasses(span) PROVE UNCHANGED request
      BY <2>12 DEF TimePasses, running
    <2> QED BY <2>1, <2>2, <2>3, <2>4, <2>5, <2>6, <2>7, <2>8, <2>9, <2>10, <2>11, <2>12
          DEF Next, Serve
  <1> QED BY <1>1, <1>2 DEF LedgerInv

\* The table of transfers as TransferLedger sees it.
View == [i \in Ids |-> [status |-> row[i].status, qty |-> row[i].qty, got |-> row[i].got]]

\* The rows written by the endpoint and by the deltas, credited and drained by
\* the reception scan while consumers book others, keep the promises of
\* TransferLedger: whatever interleaves, fails or dies, a row is booked once with
\* some units, and what was settled stays settled.
THEOREM LedgerImplemented == Spec => LedgerKept
  <1>1. Init => Ledger!Init
    BY DEF Init, NoRow, Ledger!Init, Ledger!Blank
  <1>2. TypeOK /\ LedgerInv /\ [Next]_vars => [Ledger!Next]_View
    <2> SUFFICES ASSUME TypeOK, LedgerInv, [Next]_vars
                 PROVE  Ledger!Next
      OBVIOUS
    <2> SUFFICES ASSUME NEW i \in Ids
                 PROVE  Ledger!Book(i) \/ Ledger!Credit(i) \/ Ledger!Cancel(i) \/ Ledger!Keep(i)
      BY DEF Ledger!Next
    <2>1. Books(i) \/ Credits(i) \/ Cancels(i) \/ Keeps(i) BY StepWrites, WrittenRow
    <2>2. /\ View[i] = [status |-> row[i].status, qty |-> row[i].qty, got |-> row[i].got]
          /\ View'[i] = [status |-> row'[i].status, qty |-> row'[i].qty, got |-> row'[i].got]
      BY DEF View
    <2>3. /\ row[i].qty \in Nat /\ row[i].got \in Nat
          /\ row[i].status = "none" => row[i].qty = 0 /\ row[i].got = 0
          /\ row[i].status = "pending" => row[i].got < row[i].qty
      BY DEF LedgerInv, TypeOK, Transfers
    <2>4. Books(i) => Ledger!Book(i)
      BY <2>2, <2>3 DEF View, Books, Ledger!Book, Ledger!Blank
    <2>5. Credits(i) => Ledger!Credit(i)
      BY <2>2, <2>3 DEF View, Credits, Ledger!Credit
    <2>6. Cancels(i) => Ledger!Cancel(i)
      BY <2>2, <2>3 DEF View, Cancels, Ledger!Cancel
    <2>7. Keeps(i) => Ledger!Keep(i)
      BY <2>2, <2>3 DEF View, Keeps, Ledger!Keep
    <2> QED BY <2>1, <2>4, <2>5, <2>6, <2>7
  <1> QED BY TypeInit, TypeStep, LedgerInit, LedgerStep, <1>1, <1>2, PTL
        DEF Spec, LedgerKept, Ledger!Spec, View

---------------------------------------------------------------------------
(* Deltas                                                                  *)

\* Only a consumer that records its reading moves the snapshot.
LEMMA SnapshotKept ==
  ASSUME [Next]_vars, ~ \E c \in Consumers : RecordDelta(c)
  PROVE  snap' = snap
  <1>1. CASE UNCHANGED vars BY <1>1 DEF vars
  <1>2. CASE Next
    <2>1. ASSUME NEW c \in Consumers,
                 GetStock(c) \/ Consume(c) \/ RecordFails(c) \/ ItemFails(c)
          PROVE  snap' = snap
      BY <2>1 DEF GetStock, Consume, FetchFull, StoreDeposits, ReadSnapshot, RecordFails,
           ItemFails, tables
    <2>2. ASSUME NEW qty \in 1..MaxQty, CheckStock(qty) \/ LeaveGalpao(qty) \/ EnterFull(qty)
          PROVE  snap' = snap
      BY <2>2 DEF CheckStock, LeaveGalpao, EnterFull, tables
    <2>3. CASE Serve \/ MovementResent \/ RequestFails
      BY <2>3 DEF Serve, PostExit, PostEntry, RecordTransfer, MovementResent, RequestFails, tables
    <2>4. CASE SweepFetch \/ SweepStore \/ Correct \/ PostFails \/ LogFails
      BY <2>4 DEF SweepFetch, SweepStore, Correct, LoadCandidate, ReadSaldo, PostBalance,
           LogCorrection, PostFails, LogFails, tables
    <2>5. CASE Return \/ SellFromFull \/ BookSale \/ Arrive \/ Crash
      BY <2>5 DEF Return, SellFromFull, BookSale, Arrive, Crash, tables
    <2>6. ASSUME NEW i \in Ids, CreditRow(i) \/ DrainRow(i) PROVE snap' = snap
      BY <2>6 DEF CreditRow, DrainRow
    <2>7. ASSUME NEW span, TimePasses(span) PROVE snap' = snap
      BY <2>7 DEF TimePasses
    <2> QED BY <1>2, <2>1, <2>2, <2>3, <2>4, <2>5, <2>6, <2>7 DEF Next
  <1> QED BY <1>1, <1>2

\* The upsert of the snapshot and the insert of the row are one transaction: where
\* the consumer compares with the snapshot it replaces, a shipment that the new
\* reading shows is booked, or one was booked a moment ago.
THEOREM DeltaKept == Spec => DeltaNotSwallowed
  <1> DEFINE A == snap' # snap /\ Corroborated(snap, snap') /\ Tracked
                    /\ (\A c \in Consumers : Current(c))
                    => row' # row \/ HasRecentPending
  <1>1. TypeOK /\ [Next]_vars => A
    <2> SUFFICES ASSUME TypeOK, [Next]_vars, snap' # snap, Corroborated(snap, snap'), Tracked,
                        \A c \in Consumers : Current(c), ~HasRecentPending
                 PROVE  row' # row
      OBVIOUS
    <2>1. PICK c \in Consumers : RecordDelta(c) BY SnapshotKept
    <2>2. hand[c].prev = snap /\ snap' = hand[c].read
      BY <2>1 DEF Current, RecordDelta, Recorded
    <2>3. Create(Shipped(snap, snap'), "tiny_webhook") BY <2>1, <2>2 DEF RecordDelta
    <2>4. snap \in Readings /\ snap' \in Readings BY <2>2 DEF TypeOK, Hands
    <2>5. Shipped(snap, snap') \in Nat BY <2>4, ShippedType
    <2>6. PICK k \in Ids :
            /\ row[k].status = "none"
            /\ row'[k] = [status |-> "pending", qty |-> Shipped(snap, snap'), got |-> 0,
                          fresh |-> TRUE, src |-> "tiny_webhook"]
      BY <2>3, <2>5, CreateRow
    <2>7. row'[k].status = "pending" BY <2>6
    <2> QED BY <2>6, <2>7
  <1> QED BY TypeInit, TypeStep, <1>1, PTL DEF Spec, DeltaNotSwallowed

---------------------------------------------------------------------------
(* Shipments booked once                                                   *)

\* Units booked, and some more, left Galpão by the time x units had.
Covered(x, more) == 80 * (Units + more) <= 100 * x

\* Units that the request at the endpoint will book, once they left Galpão, and
\* once they entered Full.
Held == IF request.step \in {"entry", "row"} THEN request.qty ELSE 0
Posted == IF request.step = "row" THEN request.qty ELSE 0

RecentRequest == \E i \in Pending : row[i].fresh /\ row[i].src = "api"

Active(c) == ~At(c, "idle")
Open(c) == Active(c) /\ hand[c].passed # "done"

\* What relates a reading to the moment it was taken: o[c] is the number of units
\* that had left Galpão when c took the one it holds, s when that of the snapshot
\* was taken, from[c] when that of the snapshot c compares with was.
SnapSince(s) == s <= out /\ snap.g - Floor(tiny.g) <= out - s
ReadSince(o) ==
    \A c \in Consumers :
        Active(c) => o[c] <= out /\ hand[c].read.g - Floor(tiny.g) <= out - o[c]
\* A reading that no other has overtaken is later than the snapshot's,
SnapBefore(o, s) ==
    \A c \in Consumers : Open(c) => s <= o[c] /\ snap.g - hand[c].read.g <= o[c] - s
\* and the last that was taken is later than the others.
LastTaken(o) ==
    \A c, d \in Consumers :
        Active(c) /\ Active(d) /\ c # d /\ hand[c].passed = "no" =>
            o[d] <= o[c] /\ hand[d].read.g - hand[c].read.g <= o[c] - o[d]

\* What was booked, and what the endpoint posted, left before the reading that
\* shows the endpoint's last entry was taken,
AfterCovered(o) ==
    \A c \in Consumers : Open(c) /\ hand[c].after => Covered(o[c], Posted)
\* and before the snapshot's was, but for the row of an entry not seen yet.
SnapCovered(s) ==
    /\ Covered(s, 0) \/ (unread /\ RecentRequest)
    /\ unread \/ Covered(s, Posted)
\* A consumer about to record finds no more missing from Galpão than what left
\* between the two readings, and all that was booked left before the first.
PrevCovered(o, from) ==
    \A c \in Consumers : At(c, "record") /\ Open(c) =>
        /\ hand[c].prev.g - hand[c].read.g <= o[c] - from[c]
        /\ from[c] <= o[c]
        /\ Covered(from[c], 0) \/ HasRecentPending

\* The inductive invariant.
Moments(o, from, s) ==
    /\ Covered(out, Held)
    /\ SnapSince(s) /\ ReadSince(o) /\ SnapBefore(o, s) /\ LastTaken(o)
    /\ AfterCovered(o) /\ SnapCovered(s) /\ PrevCovered(o, from)

BookedInv ==
    blame = {} => \E o, from \in [Consumers -> Nat], s \in Nat : Moments(o, from, s)

\* Units and the number of rows are numbers.
LEMMA UnitsType ==
  ASSUME TypeOK
  PROVE  Units \in Int /\ IsFiniteSet(Booked)
  <1>1. Booked \subseteq Ids BY DEF Booked
  <1>2. IsFiniteSet(Booked)
    BY <1>1, ParametersAssumption, FS_Subset
  <1> DEFINE f == [i \in Ids |-> row[i].qty]
  <1>4. \A i \in Booked : f[i] \in Int BY <1>1 DEF TypeOK, Transfers
  <1> HIDE DEF f
  <1>5. SumFunctionOnSet(f, Booked) \in Int BY <1>2, <1>4, SumType
  <1> QED BY <1>2, <1>5 DEF Units, f

\* Where no row is booked and no quantity changes, neither do they.
LEMMA UnitsKept ==
  ASSUME TypeOK, \A i \in Ids : ~Books(i) /\ (Credits(i) \/ Cancels(i) \/ Keeps(i))
  PROVE  Units' = Units /\ Booked' = Booked
  <1>1. \A i \in Ids : row'[i].qty = row[i].qty
                       /\ (row'[i].status = "none" <=> row[i].status = "none")
    BY DEF Credits, Cancels, Keeps
  <1>2. Booked' = Booked BY <1>1 DEF Booked
  <1> DEFINE f == [i \in Ids |-> row[i].qty]
             g == [i \in Ids |-> row'[i].qty]
  <1>3. f = g BY <1>1
  <1>4. Units' = SumFunctionOnSet(g, Booked') /\ Units = SumFunctionOnSet(f, Booked)
    BY DEF Units
  <1> HIDE DEF f, g
  <1> QED BY <1>2, <1>3, <1>4

\* A new row adds its units, and is one more.
LEMMA UnitsCreate ==
  ASSUME TypeOK, NEW qty \in Nat, NEW src \in {"api", "tiny_webhook"}, Create(qty, src)
  PROVE  Units' = Units + qty
         /\ HasRecentPending' /\ (src = "api" => RecentRequest')
  <1>1. PICK k \in Ids :
          /\ row[k].status = "none"
          /\ row'[k] = [status |-> "pending", qty |-> qty, got |-> 0, fresh |-> TRUE, src |-> src]
          /\ \A i \in Ids \ {k} : row'[i] = row[i]
    BY CreateRow
  <1>2. k \notin Booked /\ Booked' = Booked \cup {k}
    <2>1. row'[k].status # "none" BY <1>1
    <2> QED BY <1>1, <2>1 DEF Booked
  <1>3. IsFiniteSet(Booked) BY UnitsType
  <1> DEFINE f == [i \in Ids |-> row[i].qty]
             g == [i \in Ids |-> row'[i].qty]
  <1>5. Booked \subseteq Ids BY DEF Booked
  <1>6. \A i \in Booked : f[i] \in Int /\ g[i] = f[i]
    BY <1>1, <1>2, <1>5 DEF TypeOK, Transfers
  <1>7. g[k] = qty BY <1>1
  <1>8. Units' = SumFunctionOnSet(g, Booked') /\ Units = SumFunctionOnSet(f, Booked)
    BY DEF Units
  <1>9. SumFunctionOnSet(g, Booked \cup {k}) = g[k] + SumFunctionOnSet(g, Booked)
    <2> HIDE DEF f, g
    <2>1. \A i \in Booked \cup {k} : g[i] \in Int BY <1>6, <1>7
    <2> QED BY <1>2, <1>3, <2>1, SumAdd
  <1>10. SumFunctionOnSet(g, Booked) = SumFunctionOnSet(f, Booked)
    <2> HIDE DEF f, g
    <2> QED BY <1>3, <1>6, SumAgree
  <1>11. Units' = Units + qty
    <2>1. Units \in Int BY UnitsType
    <2> HIDE DEF f, g
    <2> QED BY <1>2, <1>7, <1>8, <1>9, <1>10, <2>1
  <1>12. HasRecentPending' /\ (src = "api" => RecentRequest')
    <2>1. k \in Pending' /\ row'[k].fresh /\ row'[k].src = src BY <1>1 DEF Pending
    <2> QED BY <2>1 DEF HasRecentPending, RecentRequest
  <1> QED BY <1>11, <1>12

\* What the steps have in common that take or record no reading and book no row.
Steady(k) ==
    /\ snap' = snap /\ Units' = Units /\ Booked' = Booked
    /\ out' = out + k /\ Floor(tiny'.g) >= Floor(tiny.g) - k
    /\ Held' <= Held + k
    /\ unread => unread'
    /\ unread' \/ Posted' <= Posted
    /\ \A c \in Consumers : Active(c)' =>
         /\ Active(c)
         /\ hand'[c].read = hand[c].read /\ hand'[c].passed = hand[c].passed
         /\ hand'[c].after => hand[c].after /\ Posted' <= Posted
         /\ hand'[c].step = "record" => hand[c].step = "record" /\ hand'[c].prev = hand[c].prev
                                        /\ (HasRecentPending => HasRecentPending')
    /\ unread /\ RecentRequest => RecentRequest'

\* The numbers that the invariant relates.
LEMMA HeldType ==
  ASSUME TypeOK
  PROVE  Held \in Nat /\ Posted \in Nat /\ Posted <= Held /\ Floor(tiny.g) \in Nat
  <1>1. request.qty \in Nat /\ tiny.g \in Int BY DEF TypeOK, Readings
  <1> QED BY <1>1 DEF Held, Posted, Floor

LEMMA ReadType ==
  ASSUME TypeOK, NEW c \in Consumers
  PROVE  hand[c].read.g \in Int /\ hand[c].prev.g \in Int /\ snap.g \in Int /\ out \in Nat
  BY DEF TypeOK, Hands, Readings

LEMMA FewerUnits ==
  ASSUME NEW u \in Int, NEW p \in Nat, NEW q \in Nat, q <= p, NEW x \in Nat,
         80 * (u + p) <= 100 * x
  PROVE  80 * (u + q) <= 100 * x
  OBVIOUS

\* More units that left cover no less, and so do fewer that are to be booked.
LEMMA CoveredMore ==
  ASSUME TypeOK, NEW x \in Nat, NEW y \in Nat, x <= y, NEW m \in Nat, NEW n \in Nat, n <= m,
         Covered(x, m)
  PROVE  Covered(y, n)
  BY UnitsType DEF Covered

LEMMA MoreUnits ==
  ASSUME NEW u \in Int, NEW h \in Nat, NEW hh \in Nat, NEW x \in Nat, NEW n \in Nat,
         hh <= h + n, 80 * (u + h) <= 100 * x
  PROVE  80 * (u + hh) <= 100 * (x + n)
  OBVIOUS

LEMMA SteadyStep ==
  ASSUME TypeOK, TypeOK', NEW k \in Nat, Steady(k),
         NEW o \in [Consumers -> Nat], NEW from \in [Consumers -> Nat], NEW s \in Nat,
         Moments(o, from, s)
  PROVE  Moments(o, from, s)'
  <1>0. /\ Held \in Nat /\ Posted \in Nat /\ Held' \in Nat /\ Posted' \in Nat
        /\ Floor(tiny.g) \in Nat /\ Floor(tiny'.g) \in Nat /\ Posted <= Held
    <2>1. request.qty \in Nat /\ request'.qty \in Nat /\ tiny.g \in Int /\ tiny'.g \in Int
      BY DEF TypeOK, Readings
    <2> QED BY <2>1 DEF Held, Posted, Floor
  <1>1. Units \in Int /\ Units' = Units
    BY UnitsType DEF Steady
  <1>2. out \in Nat /\ out' = out + k /\ snap' = snap /\ snap.g \in Int
    BY DEF Steady, TypeOK, Readings
  <1>3. \A x \in Nat : /\ Covered(x, 0) => Covered(x, 0)'
                       /\ Posted' <= Posted /\ Covered(x, Posted) => Covered(x, Posted)'
    <2> SUFFICES ASSUME NEW x \in Nat
                 PROVE  /\ Covered(x, 0) => Covered(x, 0)'
                        /\ Posted' <= Posted /\ Covered(x, Posted) => Covered(x, Posted)'
      OBVIOUS
    <2>1. Covered(x, 0) => Covered(x, 0)' BY <1>1 DEF Covered
    <2>2. ASSUME Posted' <= Posted, 80 * (Units + Posted) <= 100 * x
          PROVE  80 * (Units + Posted') <= 100 * x
      <3>1. Units \in Int /\ Posted \in Nat /\ Posted' \in Nat BY <1>0, <1>1
      <3> QED BY <2>2, <3>1, FewerUnits
    <2>3. Posted' <= Posted /\ Covered(x, Posted) => Covered(x, Posted)'
      BY <1>1, <2>2 DEF Covered
    <2> QED BY <2>1, <2>3
  <1>4. Covered(out, Held)'
    <2>1. 80 * (Units + Held) <= 100 * out
      BY DEF Moments, Covered
    <2>2. Held' <= Held + k BY DEF Steady
    <2>3. 80 * (Units + Held') <= 100 * (out + k)
      <3>1. Units \in Int /\ Held \in Nat /\ Held' \in Nat /\ out \in Nat BY <1>0, <1>1, <1>2
      <3> QED BY <2>1, <2>2, <3>1, MoreUnits
    <2> QED BY <1>1, <1>2, <2>3 DEF Covered
  <1>5. SnapSince(s)'
    <2>1. s <= out /\ snap.g - Floor(tiny.g) <= out - s BY DEF Moments, SnapSince
    <2>2. Floor(tiny'.g) >= Floor(tiny.g) - k BY DEF Steady
    <2> QED BY <1>0, <1>2, <2>1, <2>2 DEF SnapSince
  <1>6. ReadSince(o)'
    <2> SUFFICES ASSUME NEW c \in Consumers, Active(c)'
                 PROVE  o[c] <= out' /\ hand'[c].read.g - Floor(tiny'.g) <= out' - o[c]
      BY DEF ReadSince
    <2>1. Active(c) /\ hand'[c].read = hand[c].read BY DEF Steady
    <2>2. o[c] <= out /\ hand[c].read.g - Floor(tiny.g) <= out - o[c]
      BY <2>1 DEF Moments, ReadSince
    <2>3. Floor(tiny'.g) >= Floor(tiny.g) - k BY DEF Steady
    <2>4. o[c] \in Nat /\ hand[c].read.g \in Int BY ReadType
    <2> QED BY <1>0, <1>2, <2>1, <2>2, <2>3, <2>4
  <1>7. \A c \in Consumers : Open(c)' => Open(c) /\ hand'[c].read = hand[c].read
                                         /\ (hand'[c].after => hand[c].after /\ Posted' <= Posted)
    BY DEF Steady, Open, Active, At
  <1>8. SnapBefore(o, s)'
    BY <1>2, <1>7 DEF Moments, SnapBefore
  <1>9. LastTaken(o)'
    BY DEF Moments, LastTaken, Steady
  <1>10. AfterCovered(o)'
    <2> SUFFICES ASSUME NEW c \in Consumers, Open(c)', hand'[c].after PROVE Covered(o[c], Posted)'
      BY DEF AfterCovered
    <2>1. Covered(o[c], Posted) /\ Posted' <= Posted BY <1>7 DEF Moments, AfterCovered
    <2>2. o[c] \in Nat OBVIOUS
    <2> QED BY <1>3, <2>1, <2>2
  <1>11. SnapCovered(s)'
    <2>1. Covered(s, 0) \/ (unread /\ RecentRequest) BY DEF Moments, SnapCovered
    <2>2. unread \/ Covered(s, Posted) BY DEF Moments, SnapCovered
    <2>3. Covered(s, 0)' \/ (unread' /\ RecentRequest') BY <1>3, <2>1 DEF Steady
    <2>4. unread' \/ Covered(s, Posted)' BY <1>3, <2>2 DEF Steady
    <2> QED BY <2>3, <2>4 DEF SnapCovered
  <1>12. PrevCovered(o, from)'
    <2> SUFFICES ASSUME NEW c \in Consumers, hand'[c].step = "record", Open(c)'
                 PROVE  /\ hand'[c].prev.g - hand'[c].read.g <= o[c] - from[c]
                        /\ from[c] <= o[c]
                        /\ Covered(from[c], 0)' \/ HasRecentPending'
      BY DEF PrevCovered, At
    <2>1. Open(c) /\ hand'[c].read = hand[c].read BY <1>7
    <2>2. At(c, "record") /\ hand'[c].prev = hand[c].prev
          /\ (HasRecentPending => HasRecentPending')
      BY DEF Steady, Open, At
    <2>3. /\ hand[c].prev.g - hand[c].read.g <= o[c] - from[c]
          /\ from[c] <= o[c]
          /\ Covered(from[c], 0) \/ HasRecentPending
      BY <2>1, <2>2 DEF Moments, PrevCovered
    <2>4. from[c] \in Nat OBVIOUS
    <2> QED BY <1>3, <2>1, <2>2, <2>3, <2>4
  <1> QED BY <1>4, <1>5, <1>6, <1>8, <1>9, <1>10, <1>11, <1>12 DEF Moments

\* A reading is taken: it is the last.
LEMMA GetStockMoves ==
  ASSUME TypeOK, NEW c \in Consumers, GetStock(c),
         NEW o \in [Consumers -> Nat], NEW from \in [Consumers -> Nat], NEW s \in Nat,
         Moments(o, from, s)
  PROVE  \E o2, from2 \in [Consumers -> Nat], s2 \in Nat : Moments(o2, from2, s2)'
  <1>0. /\ out \in Nat /\ Floor(tiny.g) \in Nat /\ Held \in Nat /\ Posted \in Nat /\ Posted <= Held
        /\ hand \in [Consumers -> Hands]
    BY HeldType DEF TypeOK
  <1>1. PICK o2 \in [Consumers -> Nat] : o2 = [o EXCEPT ![c] = out] BY <1>0
  <1>2. o2[c] = out /\ \A d \in Consumers \ {c} : o2[d] = o[d] BY <1>1
  <1>3. /\ hand'[c].step = "fetch" /\ hand'[c].read.g = Floor(tiny.g)
        /\ hand'[c].passed = "no"
    BY DEF GetStock, IdleHand
  <1>4. \A d \in Consumers \ {c} :
          /\ hand'[d].step = hand[d].step /\ hand'[d].read = hand[d].read
          /\ hand'[d].prev = hand[d].prev /\ hand'[d].after = hand[d].after
          /\ hand'[d].passed = IF Active(d) /\ hand[d].passed = "no" THEN "read"
                               ELSE hand[d].passed
    <2> SUFFICES ASSUME NEW d \in Consumers \ {c}
                 PROVE  /\ hand'[d].step = hand[d].step /\ hand'[d].read = hand[d].read
                        /\ hand'[d].prev = hand[d].prev /\ hand'[d].after = hand[d].after
                        /\ hand'[d].passed = IF Active(d) /\ hand[d].passed = "no" THEN "read"
                                             ELSE hand[d].passed
      OBVIOUS
    <2>1. hand'[d] = IF Active(d) /\ hand[d].passed = "no" THEN [hand[d] EXCEPT !.passed = "read"]
                     ELSE hand[d]
      BY DEF GetStock, Active
    <2>2. hand[d] \in Hands BY <1>0
    <2> QED BY <2>1, <2>2 DEF Hands
  <1>5. /\ tiny' = tiny /\ out' = out /\ snap' = snap /\ row' = row /\ request' = request
        /\ unread' = unread
    BY DEF GetStock, books, tables, others, history
  <1>6. /\ Units' = Units /\ Booked' = Booked /\ Held' = Held /\ Posted' = Posted
        /\ (RecentRequest' <=> RecentRequest) /\ (HasRecentPending' <=> HasRecentPending)
    BY <1>5 DEF Units, Booked, Held, Posted, RecentRequest, HasRecentPending, Pending
  <1>7. \A x \in Nat : /\ Covered(x, 0)' <=> Covered(x, 0)
                       /\ Covered(x, Posted)' <=> Covered(x, Posted)
    BY <1>6 DEF Covered
  <1>8. Covered(out, Held)' BY <1>5, <1>6 DEF Covered, Moments
  <1>9. \A d \in Consumers \ {c} : (Active(d)' <=> Active(d)) /\ (Open(d)' <=> Open(d))
    BY <1>4 DEF Active, Open, At
  <1>10. SnapSince(s)' BY <1>5 DEF Moments, SnapSince
  <1>11. ReadSince(o2)'
    <2> SUFFICES ASSUME NEW d \in Consumers, Active(d)'
                 PROVE  o2[d] <= out /\ hand'[d].read.g - Floor(tiny.g) <= out - o2[d]
      BY <1>5 DEF ReadSince
    <2>1. CASE d = c BY <1>0, <1>2, <1>3, <2>1
    <2>2. CASE d # c BY <1>2, <1>4, <1>9, <2>2 DEF Moments, ReadSince
    <2> QED BY <2>1, <2>2
  <1>12. SnapBefore(o2, s)'
    <2> SUFFICES ASSUME NEW d \in Consumers, Open(d)'
                 PROVE  s <= o2[d] /\ snap.g - hand'[d].read.g <= o2[d] - s
      BY <1>5 DEF SnapBefore
    <2>1. CASE d = c BY <1>2, <1>3, <2>1 DEF Moments, SnapSince
    <2>2. CASE d # c BY <1>2, <1>4, <1>9, <2>2 DEF Moments, SnapBefore
    <2> QED BY <2>1, <2>2
  <1>13. LastTaken(o2)'
    <2> SUFFICES ASSUME NEW a \in Consumers, NEW d \in Consumers, Active(a)', Active(d)', a # d,
                        hand'[a].passed = "no"
                 PROVE  o2[d] <= o2[a] /\ hand'[d].read.g - hand'[a].read.g <= o2[a] - o2[d]
      BY DEF LastTaken
    <2>1. a = c BY <1>4, <1>9
    <2>2. Active(d) /\ hand'[d].read = hand[d].read /\ o2[d] = o[d] BY <1>2, <1>4, <1>9, <2>1
    <2>3. o[d] <= out /\ hand[d].read.g - Floor(tiny.g) <= out - o[d]
      BY <2>2 DEF Moments, ReadSince
    <2> QED BY <1>2, <1>3, <2>1, <2>2, <2>3
  <1>14. AfterCovered(o2)'
    <2> SUFFICES ASSUME NEW d \in Consumers, Open(d)', hand'[d].after PROVE Covered(o2[d], Posted)'
      BY DEF AfterCovered
    <2>1. CASE d = c
      <3>1. Covered(out, Posted) BY <1>0, CoveredMore DEF Moments
      <3> QED BY <1>0, <1>2, <1>7, <2>1, <3>1
    <2>2. CASE d # c
      <3>1. Covered(o[d], Posted) BY <1>4, <1>9, <2>2 DEF Moments, AfterCovered
      <3>2. o[d] \in Nat /\ o2[d] = o[d] BY <1>2, <2>2
      <3> QED BY <1>7, <3>1, <3>2
    <2> QED BY <2>1, <2>2
  <1>15. SnapCovered(s)'
    BY <1>5, <1>6, <1>7 DEF Moments, SnapCovered
  <1>16. PrevCovered(o2, from)'
    <2> SUFFICES ASSUME NEW d \in Consumers, hand'[d].step = "record", Open(d)'
                 PROVE  /\ hand'[d].prev.g - hand'[d].read.g <= o2[d] - from[d]
                        /\ from[d] <= o2[d]
                        /\ Covered(from[d], 0)' \/ HasRecentPending'
      BY DEF PrevCovered, At
    <2>1. d # c BY <1>3
    <2>2. At(d, "record") /\ Open(d) BY <1>4, <1>9, <2>1 DEF At
    <2>3. from[d] \in Nat OBVIOUS
    <2> QED BY <1>2, <1>4, <1>6, <1>7, <2>1, <2>2, <2>3 DEF Moments, PrevCovered
  <1>17. Moments(o2, from, s)'
    BY <1>8, <1>10, <1>11, <1>12, <1>13, <1>14, <1>15, <1>16 DEF Moments
  <1> QED BY <1>17

\* A consumer reads the snapshot that it will compare with.
LEMMA ReadSnapshotMoves ==
  ASSUME TypeOK, NEW c \in Consumers, ReadSnapshot(c),
         NEW o \in [Consumers -> Nat], NEW from \in [Consumers -> Nat], NEW s \in Nat,
         Moments(o, from, s)
  PROVE  \E o2, from2 \in [Consumers -> Nat], s2 \in Nat : Moments(o2, from2, s2)'
  <1>1. PICK f2 \in [Consumers -> Nat] : f2 = [from EXCEPT ![c] = s] OBVIOUS
  <1>2. f2[c] = s /\ \A d \in Consumers \ {c} : f2[d] = from[d] BY <1>1
  <1>3. hand[c] \in Hands /\ hand \in [Consumers -> Hands] BY DEF TypeOK
  <1>4. /\ hand'[c].step = "record" /\ hand'[c].read = hand[c].read
        /\ hand'[c].passed = hand[c].passed /\ hand'[c].prev = snap
        /\ hand'[c].after = hand[c].after
        /\ \A d \in Consumers \ {c} : hand'[d] = hand[d]
    BY <1>3 DEF ReadSnapshot, SetHand, Hands
  <1>5. hand[c].step = "previous" BY DEF ReadSnapshot, At
  <1>6. /\ tiny' = tiny /\ out' = out /\ snap' = snap /\ row' = row /\ request' = request
        /\ unread' = unread
    BY DEF ReadSnapshot, books, tables, others, history
  <1>7. /\ Units' = Units /\ Booked' = Booked /\ Held' = Held /\ Posted' = Posted
        /\ (RecentRequest' <=> RecentRequest) /\ (HasRecentPending' <=> HasRecentPending)
    BY <1>6 DEF Units, Booked, Held, Posted, RecentRequest, HasRecentPending, Pending
  <1>8. \A x \in Nat : /\ Covered(x, 0)' <=> Covered(x, 0)
                       /\ Covered(x, Posted)' <=> Covered(x, Posted)
    BY <1>7 DEF Covered
  <1>9. \A d \in Consumers : /\ (Active(d)' <=> Active(d)) /\ (Open(d)' <=> Open(d))
                             /\ hand'[d].read = hand[d].read
                             /\ hand'[d].passed = hand[d].passed
                             /\ hand'[d].after = hand[d].after
    BY <1>4, <1>5 DEF Active, Open, At
  <1>10. Covered(out, Held)' /\ SnapSince(s)' /\ ReadSince(o)' /\ SnapBefore(o, s)'
    BY <1>6, <1>7, <1>9 DEF Moments, Covered, SnapSince, ReadSince, SnapBefore
  <1>11. LastTaken(o)' BY <1>9 DEF Moments, LastTaken
  <1>12. AfterCovered(o)' BY <1>8, <1>9 DEF Moments, AfterCovered
  <1>13. SnapCovered(s)' BY <1>6, <1>7, <1>8 DEF Moments, SnapCovered
  <1>14. PrevCovered(o, f2)'
    <2> SUFFICES ASSUME NEW d \in Consumers, hand'[d].step = "record", Open(d)'
                 PROVE  /\ hand'[d].prev.g - hand'[d].read.g <= o[d] - f2[d]
                        /\ f2[d] <= o[d]
                        /\ Covered(f2[d], 0)' \/ HasRecentPending'
      BY DEF PrevCovered, At
    <2>1. CASE d = c
      <3>1. s <= o[c] /\ snap.g - hand[c].read.g <= o[c] - s
        BY <1>9, <2>1 DEF Moments, SnapBefore
      <3>2. Covered(s, 0) \/ HasRecentPending
        BY DEF Moments, SnapCovered, RecentRequest, HasRecentPending
      <3> QED BY <1>2, <1>4, <1>7, <1>8, <2>1, <3>1, <3>2
    <2>2. CASE d # c
      <3>1. At(d, "record") /\ Open(d) /\ hand'[d].prev = hand[d].prev
        BY <1>4, <1>9, <2>2 DEF At
      <3>2. from[d] \in Nat /\ f2[d] = from[d] BY <1>2, <2>2
      <3> QED BY <1>7, <1>8, <1>9, <3>1, <3>2 DEF Moments, PrevCovered
    <2> QED BY <2>1, <2>2
  <1>15. Moments(o, f2, s)'
    BY <1>10, <1>11, <1>12, <1>13, <1>14 DEF Moments
  <1> QED BY <1>15

\* The endpoint's row is booked: what it held, and no more.
LEMMA RecordTransferMoves ==
  ASSUME TypeOK, RecordTransfer,
         NEW o \in [Consumers -> Nat], NEW from \in [Consumers -> Nat], NEW s \in Nat,
         Moments(o, from, s)
  PROVE  Moments(o, from, s)'
  <1>0. request.qty \in Nat /\ Held = request.qty /\ Posted = request.qty
        /\ Held' = 0 /\ Posted' = 0
    BY DEF TypeOK, RecordTransfer, IdleRequest, Held, Posted
  <1>1. /\ Units' = Units + request.qty
        /\ HasRecentPending' /\ RecentRequest'
    BY <1>0, UnitsCreate DEF RecordTransfer
  <1>2. Units \in Int BY UnitsType
  <1>3. /\ tiny' = tiny /\ out' = out /\ snap' = snap /\ hand' = hand /\ unread' = unread
        /\ out \in Nat
    BY DEF RecordTransfer, books, requesting, history, TypeOK
  <1>4. \A x \in Nat : Covered(x, Posted) => Covered(x, 0)' /\ Covered(x, Posted)'
    BY <1>0, <1>1, <1>2 DEF Covered
  <1>5. Covered(out, Held)'
    <2>1. Covered(out, Posted) BY <1>0 DEF Moments
    <2> QED BY <1>0, <1>1, <1>2, <1>3, <2>1 DEF Covered
  <1>6. SnapSince(s)' /\ ReadSince(o)' /\ SnapBefore(o, s)' /\ LastTaken(o)'
    BY <1>3 DEF Moments, SnapSince, ReadSince, SnapBefore, LastTaken, Active, Open, At
  <1>7. AfterCovered(o)'
    BY <1>3, <1>4 DEF Moments, AfterCovered, Active, Open, At
  <1>8. SnapCovered(s)'
    BY <1>1, <1>3, <1>4 DEF Moments, SnapCovered
  <1>9. PrevCovered(o, from)'
    BY <1>1, <1>3 DEF Moments, PrevCovered, Active, Open, At
  <1> QED BY <1>5, <1>6, <1>7, <1>8, <1>9 DEF Moments

\* A reading is recorded, neither after a later one nor while the endpoint posts.
LEMMA RecordDeltaMoves ==
  ASSUME TypeOK, NEW c \in Consumers, RecordDelta(c), blame' = {},
         NEW o \in [Consumers -> Nat], NEW from \in [Consumers -> Nat], NEW s \in Nat,
         Moments(o, from, s)
  PROVE  \E o2, from2 \in [Consumers -> Nat], s2 \in Nat : Moments(o2, from2, s2)'
  <1> DEFINE old == hand[c].prev
             new == hand[c].read
             infers == Corroborated(old, new) /\ Tracked /\ ~HasRecentPending
             qty == Shipped(old, new)
             t == o[c]
  <1>0. /\ hand \in [Consumers -> Hands] /\ old \in Readings /\ new \in Readings
        /\ old.g \in Int /\ new.g \in Int
        /\ Held \in Nat /\ Posted \in Nat /\ Floor(tiny.g) \in Nat /\ out \in Nat
    BY HeldType DEF TypeOK, Hands, Readings
  <1>1. /\ At(c, "record") /\ Recorded(c, infers)
        /\ IF infers THEN Create(qty, "tiny_webhook") ELSE row' = row
        /\ tiny' = tiny /\ out' = out /\ request' = request
    BY DEF RecordDelta, books, others
  <1> HIDE DEF infers, qty
  <1>2. Open(c) /\ Active(c)
    BY <1>1 DEF Recorded, Open, Active, At
  <1>3. infers => Held = 0 /\ Posted = 0
    BY <1>1 DEF Recorded, Held, Posted
  <1>4. Held' = Held /\ Posted' = Posted BY <1>1 DEF Held, Posted
  <1>5. snap' = new /\ unread' = (unread /\ ~hand[c].after) BY <1>1 DEF Recorded
  <1>6. \A d \in Consumers : Active(d)' =>
          /\ d # c /\ Active(d) /\ hand'[d].step = hand[d].step
          /\ hand'[d].read = hand[d].read /\ hand'[d].prev = hand[d].prev
          /\ hand'[d].after = hand[d].after
          /\ (hand'[d].passed # "done" => hand[d].passed = "no")
          /\ (hand'[d].passed = "no" => hand[d].passed = "no")
    <2> SUFFICES ASSUME NEW d \in Consumers, Active(d)'
                 PROVE  /\ d # c /\ Active(d) /\ hand'[d].step = hand[d].step
                        /\ hand'[d].read = hand[d].read /\ hand'[d].prev = hand[d].prev
                        /\ hand'[d].after = hand[d].after
                        /\ (hand'[d].passed # "done" => hand[d].passed = "no")
                        /\ (hand'[d].passed = "no" => hand[d].passed = "no")
      OBVIOUS
    <2>1. hand'[d] = IF d = c THEN IdleHand
                     ELSE IF hand[d].passed = "read" THEN [hand[d] EXCEPT !.passed = "done"]
                          ELSE hand[d]
      BY <1>1 DEF Recorded
    <2>2. d # c BY <2>1 DEF Active, At, IdleHand
    <2>3. hand[d] \in Hands BY <1>0
    <2> QED BY <2>1, <2>2, <2>3 DEF Hands, Active, At
  <1>7. /\ s <= t /\ snap.g - new.g <= t - s
        /\ t <= out /\ new.g - Floor(tiny.g) <= out - t /\ t \in Nat
    BY <1>2 DEF Moments, SnapBefore, ReadSince
  <1>8. /\ old.g - new.g <= t - from[c] /\ from[c] <= t /\ from[c] \in Nat
        /\ Covered(from[c], 0) \/ HasRecentPending
    BY <1>1, <1>2 DEF Moments, PrevCovered
  <1>9. Units \in Int BY UnitsType
  <1>10. ASSUME infers
         PROVE  /\ HasRecentPending'
                /\ \A x \in Nat : x >= t => Covered(x, 0)'
    <2>1. qty \in Nat /\ 80 * qty <= 100 * (old.g - new.g)
      BY <1>0, <1>10, ShippedType DEF infers, qty
    <2>2. Units' = Units + qty /\ HasRecentPending'
      BY <1>1, <1>10, <2>1, UnitsCreate
    <2>3. Covered(from[c], 0) BY <1>8, <1>10 DEF infers
    <2>4. 80 * (Units + 0) <= 100 * from[c] BY <2>3 DEF Covered
    <2>5. 80 * qty <= 100 * (t - from[c])
      <3> HIDE DEF old, new, t
      <3> QED BY <1>0, <1>7, <1>8, <2>1
    <2>6. \A x \in Nat : x >= t => 80 * (Units' + 0) <= 100 * x
      <3> HIDE DEF t
      <3> QED BY <1>7, <1>8, <1>9, <2>1, <2>2, <2>4, <2>5
    <2> QED BY <2>2, <2>6 DEF Covered
  <1>11. ASSUME ~infers
         PROVE  /\ Units' = Units /\ Booked' = Booked
                /\ (RecentRequest' <=> RecentRequest)
                /\ (HasRecentPending' <=> HasRecentPending)
                /\ \A x \in Nat : /\ Covered(x, 0)' <=> Covered(x, 0)
                                  /\ Covered(x, Posted)' <=> Covered(x, Posted)
    <2>1. row' = row BY <1>1, <1>11
    <2>2. Units' = Units /\ Booked' = Booked BY <2>1 DEF Units, Booked
    <2> QED BY <1>4, <2>1, <2>2 DEF Covered, RecentRequest, HasRecentPending, Pending
  <1>12. Covered(out, Held)'
    <2>1. CASE infers
      BY <1>0, <1>1, <1>3, <1>4, <1>7, <1>10, <2>1 DEF Covered
    <2>2. CASE ~infers
      BY <1>1, <1>4, <1>11, <2>2 DEF Moments, Covered
    <2> QED BY <2>1, <2>2
  <1>13. SnapSince(t)' BY <1>1, <1>5, <1>7 DEF SnapSince
  <1>14. ReadSince(o)' BY <1>1, <1>6 DEF Moments, ReadSince
  <1>15. SnapBefore(o, t)'
    <2> SUFFICES ASSUME NEW d \in Consumers, Open(d)'
                 PROVE  t <= o[d] /\ new.g - hand'[d].read.g <= o[d] - t
      BY <1>5 DEF SnapBefore
    <2>1. d # c /\ Active(d) /\ hand[d].passed = "no" /\ hand'[d].read = hand[d].read
      BY <1>6 DEF Open
    <2> QED BY <1>2, <2>1 DEF Moments, LastTaken
  <1>16. LastTaken(o)' BY <1>6 DEF Moments, LastTaken
  <1>17. \A d \in Consumers : Open(d)' => o[d] >= t /\ o[d] \in Nat
    <2> SUFFICES ASSUME NEW d \in Consumers, Open(d)' PROVE o[d] >= t
      OBVIOUS
    <2>1. t <= o[d] BY <1>15 DEF SnapBefore
    <2> QED BY <2>1
  <1>18. AfterCovered(o)'
    <2> SUFFICES ASSUME NEW d \in Consumers, Open(d)', hand'[d].after PROVE Covered(o[d], Posted)'
      BY DEF AfterCovered
    <2>1. CASE infers
      <3>1. Covered(o[d], 0)' BY <1>10, <1>17, <2>1
      <3> QED BY <1>3, <1>4, <2>1, <3>1 DEF Covered
    <2>2. CASE ~infers
      <3>1. Open(d) /\ hand[d].after BY <1>6 DEF Open
      <3>2. Covered(o[d], Posted) BY <3>1 DEF Moments, AfterCovered
      <3> QED BY <1>11, <1>17, <2>2, <3>2
    <2> QED BY <2>1, <2>2
  <1>19. SnapCovered(t)'
    <2>1. CASE infers
      <3>1. Covered(t, 0)' BY <1>7, <1>10, <2>1
      <3>2. Covered(t, Posted)' BY <1>3, <1>4, <2>1, <3>1 DEF Covered
      <3> QED BY <3>1, <3>2 DEF SnapCovered
    <2>2. CASE ~infers /\ hand[c].after
      <3>1. Covered(t, Posted) BY <1>2, <2>2 DEF Moments, AfterCovered
      <3>2. Covered(t, 0) BY <1>0, <1>7, <3>1, CoveredMore
      <3> QED BY <1>7, <1>11, <2>2, <3>1, <3>2 DEF SnapCovered
    <2>3. CASE ~infers /\ ~hand[c].after
      <3>1. Covered(s, 0) => Covered(t, 0) BY <1>0, <1>7, CoveredMore
      <3>2. Covered(s, Posted) => Covered(t, Posted) BY <1>0, <1>7, CoveredMore
      <3> QED BY <1>5, <1>7, <1>11, <2>3, <3>1, <3>2 DEF Moments, SnapCovered
    <2> QED BY <2>1, <2>2, <2>3
  <1>20. PrevCovered(o, from)'
    <2> SUFFICES ASSUME NEW d \in Consumers, hand'[d].step = "record", Open(d)'
                 PROVE  /\ hand'[d].prev.g - hand'[d].read.g <= o[d] - from[d]
                        /\ from[d] <= o[d]
                        /\ Covered(from[d], 0)' \/ HasRecentPending'
      BY DEF PrevCovered, At
    <2>1. /\ At(d, "record") /\ Open(d) /\ hand'[d].prev = hand[d].prev
          /\ hand'[d].read = hand[d].read
      BY <1>6 DEF At, Open
    <2>2. from[d] \in Nat OBVIOUS
    <2>3. CASE infers BY <1>10, <2>1, <2>3 DEF Moments, PrevCovered
    <2>4. CASE ~infers BY <1>11, <2>1, <2>2, <2>4 DEF Moments, PrevCovered
    <2> QED BY <2>3, <2>4
  <1>21. Moments(o, from, t)'
    BY <1>12, <1>13, <1>14, <1>15, <1>16, <1>18, <1>19, <1>20 DEF Moments
  <1> QED BY <1>7, <1>21

\* A step that leaves the rows alone, or gives the scan one, books no units.
LEMMA RowsSteady ==
  ASSUME TypeOK,
         \/ row' = row
         \/ \E i \in Ids : CreditRow(i) \/ DrainRow(i)
         \/ \E span : TimePasses(span)
  PROVE  Units' = Units /\ Booked' = Booked
  <1>1. CASE row' = row BY <1>1 DEF Units, Booked
  <1>2. ASSUME NEW k \in Ids, CreditRow(k) \/ DrainRow(k)
        PROVE  Units' = Units /\ Booked' = Booked
    <2>1. Writes BY <1>2 DEF Writes
    <2>2. ASSUME NEW i \in Ids PROVE ~Books(i)
      <3>1. row \in [Ids -> Transfers] BY DEF TypeOK
      <3>2. row[k].status = "pending" BY <1>2 DEF CreditRow, DrainRow, Pending
      <3>3. i # k => row'[i] = row[i] BY <1>2, <3>1 DEF CreditRow, DrainRow
      <3> QED BY <3>2, <3>3 DEF Books
    <2> QED BY <2>1, <2>2, WrittenRow, UnitsKept
  <1>3. ASSUME NEW span, TimePasses(span)
        PROVE  Units' = Units /\ Booked' = Booked
    <2>1. ASSUME NEW i \in Ids PROVE Keeps(i) /\ ~Books(i)
      <3>1. row[i] \in Transfers /\ row'[i] = [row[i] EXCEPT !.fresh = FALSE]
        BY <1>3 DEF TypeOK, TimePasses
      <3> QED BY <3>1 DEF Keeps, Books, Transfers
    <2> QED BY <2>1, UnitsKept
  <1> QED BY <1>1, <1>2, <1>3

\* A consumer's other steps, and those that fail.
LEMMA ItemSteady ==
  ASSUME TypeOK, NEW c \in Consumers,
         FetchFull(c) \/ StoreDeposits(c) \/ RecordFails(c) \/ ItemFails(c)
  PROVE  Steady(0)
  <1>0. hand \in [Consumers -> Hands] /\ hand[c] \in Hands /\ out \in Nat
        /\ Held \in Nat /\ Posted \in Nat /\ Floor(tiny.g) \in Nat
    BY HeldType DEF TypeOK
  <1>1. /\ tiny' = tiny /\ out' = out /\ snap' = snap /\ row' = row /\ request' = request
        /\ unread' = unread
    BY DEF FetchFull, StoreDeposits, RecordFails, ItemFails, books, tables, others, history
  <1>2. /\ Held' = Held /\ Posted' = Posted
        /\ (RecentRequest' <=> RecentRequest) /\ (HasRecentPending' <=> HasRecentPending)
    BY <1>1 DEF Held, Posted, RecentRequest, HasRecentPending, Pending
  <1>3. Units' = Units /\ Booked' = Booked BY <1>1, RowsSteady
  <1>4. \A d \in Consumers : Active(d)' =>
          /\ Active(d)
          /\ hand'[d].read = hand[d].read /\ hand'[d].passed = hand[d].passed
          /\ hand'[d].after => hand[d].after
          /\ hand'[d].step = "record" => hand[d].step = "record" /\ hand'[d].prev = hand[d].prev
    <2> SUFFICES ASSUME NEW d \in Consumers, Active(d)'
                 PROVE  /\ Active(d)
                        /\ hand'[d].read = hand[d].read /\ hand'[d].passed = hand[d].passed
                        /\ hand'[d].after => hand[d].after
                        /\ hand'[d].step = "record"
                             => hand[d].step = "record" /\ hand'[d].prev = hand[d].prev
      OBVIOUS
    <2>1. CASE d # c
      <3>1. hand'[d] = hand[d]
        BY <1>0, <2>1 DEF FetchFull, StoreDeposits, RecordFails, ItemFails, SetHand
      <3> QED BY <3>1 DEF Active, At
    <2>2. CASE d = c /\ (RecordFails(c) \/ ItemFails(c))
      <3>1. hand'[c] = IdleHand BY <1>0, <2>2 DEF RecordFails, ItemFails, SetHand
      <3> QED BY <2>2, <3>1 DEF Active, At, IdleHand
    <2>3. CASE d = c /\ FetchFull(c)
      <3>1. hand'[c].step = "store" /\ hand'[c].read = hand[c].read
            /\ hand'[c].passed = hand[c].passed /\ hand'[c].after = hand[c].after
        <4>1. PICK ml : SetHand(c, [hand[c] EXCEPT !.step = "store", !.ml = ml])
          BY <2>3, Zenon DEF FetchFull
        <4> QED BY <1>0, <4>1 DEF SetHand, Hands
      <3> QED BY <2>3, <3>1 DEF Active, At, FetchFull
    <2>4. CASE d = c /\ StoreDeposits(c)
      <3>1. hand'[c].step = "previous" /\ hand'[c].read = hand[c].read
            /\ hand'[c].passed = hand[c].passed /\ hand'[c].after = hand[c].after
        BY <1>0, <2>4 DEF StoreDeposits, SetHand, Hands
      <3> QED BY <2>4, <3>1 DEF Active, At, StoreDeposits
    <2> QED BY <2>1, <2>2, <2>3, <2>4
  <1> QED BY <1>0, <1>1, <1>2, <1>3, <1>4 DEF Steady

\* Hands that a step leaves alone.
LEMMA HandsKept ==
  ASSUME hand' = hand, Posted' <= Posted, HasRecentPending => HasRecentPending'
  PROVE  \A c \in Consumers : Active(c)' =>
           /\ Active(c)
           /\ hand'[c].read = hand[c].read /\ hand'[c].passed = hand[c].passed
           /\ hand'[c].after => hand[c].after /\ Posted' <= Posted
           /\ hand'[c].step = "record" => hand[c].step = "record" /\ hand'[c].prev = hand[c].prev
                                          /\ (HasRecentPending => HasRecentPending')
  BY DEF Active, At

\* The endpoint's other steps, and units that leave Galpão otherwise.
LEMMA RequestSteady ==
  ASSUME TypeOK, NEW qty \in Nat,
         \/ CheckStock(qty) \/ LeaveGalpao(qty)
         \/ PostExit \/ PostEntry \/ MovementResent \/ RequestFails
  PROVE  \E k \in Nat : Steady(k)
  <1>0. /\ request.qty \in Nat /\ out \in Nat /\ tiny \in Readings /\ tiny.g \in Int
        /\ Held \in Nat /\ Posted \in Nat /\ Posted <= Held
    BY HeldType DEF TypeOK, Readings
  <1>1. row' = row /\ snap' = snap
    BY DEF CheckStock, LeaveGalpao, PostExit, PostEntry, MovementResent, RequestFails, tables
  <1>2. Units' = Units /\ Booked' = Booked BY <1>1, RowsSteady
  <1>3. (RecentRequest' <=> RecentRequest) /\ (HasRecentPending' <=> HasRecentPending)
    BY <1>1 DEF RecentRequest, HasRecentPending, Pending
  <1>4. \A n \in Nat : Floor(tiny.g - n) >= Floor(tiny.g) - n BY <1>0 DEF Floor
  <1>5. CASE CheckStock(qty) \/ RequestFails
    <2>1. /\ Held' = 0 /\ Posted' = 0 /\ tiny' = tiny /\ out' = out /\ hand' = hand
          /\ unread' = unread
      BY <1>5 DEF CheckStock, RequestFails, Held, Posted, IdleRequest, books, requesting, history
    <2>2. Floor(tiny'.g) >= Floor(tiny.g) - 0 BY <1>0, <2>1 DEF Floor
    <2>3. Steady(0)
      BY <1>0, <1>1, <1>2, <1>3, <2>1, <2>2, HandsKept DEF Steady
    <2> QED BY <2>3
  <1>6. CASE LeaveGalpao(qty)
    <2>1. /\ Held' = Held /\ Posted' = Posted /\ tiny'.g = tiny.g - qty /\ out' = out + qty
          /\ hand' = hand /\ unread' = unread
      BY <1>0, <1>6 DEF LeaveGalpao, Held, Posted, running, Readings
    <2>2. Steady(qty)
      BY <1>0, <1>1, <1>2, <1>3, <1>4, <2>1, HandsKept DEF Steady
    <2> QED BY <2>2
  <1>7. CASE Exit /\ request.step = "exit" /\ request' \in {request, [request EXCEPT !.step = "entry"]}
    <2>1. /\ Posted' = 0 /\ Posted = 0 /\ Held' <= request.qty /\ Held' \in Nat
          /\ tiny'.g = tiny.g - request.qty
          /\ out' = out + request.qty /\ hand' = hand /\ unread' = unread
      <3>1. request \in [step : {"idle", "exit", "entry", "row"}, qty : Nat] BY DEF TypeOK
      <3>2. request'.qty = request.qty /\ request'.step \in {"exit", "entry"} BY <1>7, <3>1
      <3>3. Posted' = 0 /\ Posted = 0 /\ Held' <= request.qty /\ Held' \in Nat
        BY <1>0, <1>7, <3>2 DEF Held, Posted
      <3> QED BY <1>0, <1>7, <3>3 DEF Exit, Readings
    <2>2. Steady(request.qty)
      BY <1>0, <1>1, <1>2, <1>3, <1>4, <2>1, HandsKept DEF Steady
    <2> QED BY <1>0, <2>2
  <1>8. CASE Entry /\ request.step = "entry" /\ request' \in {request, [request EXCEPT !.step = "row"]}
    <2>1. /\ Held' = Held /\ tiny'.g = tiny.g /\ out' = out /\ unread'
          /\ hand' = [c \in Consumers |-> [hand[c] EXCEPT !.after = FALSE]]
      <3>1. request \in [step : {"idle", "exit", "entry", "row"}, qty : Nat] BY DEF TypeOK
      <3>2. request'.qty = request.qty /\ request'.step \in {"entry", "row"} BY <1>8, <3>1
      <3>3. Held' = Held BY <1>8, <3>2 DEF Held
      <3> QED BY <1>0, <1>8, <3>3 DEF Entry, Readings
    <2>2. Floor(tiny'.g) >= Floor(tiny.g) - 0 BY <1>0, <2>1 DEF Floor
    <2>3. \A c \in Consumers : Active(c)' =>
            /\ Active(c)
            /\ hand'[c].read = hand[c].read /\ hand'[c].passed = hand[c].passed
            /\ ~hand'[c].after
            /\ hand'[c].step = hand[c].step /\ hand'[c].prev = hand[c].prev
      <3> SUFFICES ASSUME NEW c \in Consumers, Active(c)'
                   PROVE  /\ Active(c)
                          /\ hand'[c].read = hand[c].read /\ hand'[c].passed = hand[c].passed
                          /\ ~hand'[c].after
                          /\ hand'[c].step = hand[c].step /\ hand'[c].prev = hand[c].prev
        OBVIOUS
      <3>1. hand[c] \in Hands /\ hand'[c] = [hand[c] EXCEPT !.after = FALSE]
        BY <2>1 DEF TypeOK
      <3> QED BY <3>1 DEF Hands, Active, At
    <2>4. Steady(0)
      BY <1>0, <1>1, <1>2, <1>3, <2>1, <2>2, <2>3 DEF Steady
    <2> QED BY <2>4
  <1>9. CASE PostExit \/ PostEntry BY <1>7, <1>8, <1>9 DEF PostExit, PostEntry
  <1>10. CASE MovementResent BY <1>7, <1>8, <1>10 DEF MovementResent
  <1> QED BY <1>5, <1>6, <1>9, <1>10

\* What moves neither Galpão nor a row: Full's balance, the mirror, the corrections.
LEMMA ElsewhereSteady ==
  ASSUME TypeOK, NEW qty \in Nat,
         \/ EnterFull(qty) \/ Return \/ SellFromFull \/ BookSale \/ Arrive
         \/ SweepFetch \/ SweepStore \/ Correct \/ PostFails \/ LogFails
  PROVE  Steady(0)
  <1>0. /\ tiny \in Readings /\ tiny.g \in Int /\ out \in Nat
        /\ Held \in Nat /\ Posted \in Nat /\ Floor(tiny.g) \in Nat
    BY HeldType DEF TypeOK, Readings
  <1>1. /\ row' = row /\ snap' = snap /\ hand' = hand /\ request' = request
        /\ out' = out /\ unread' = unread
    BY DEF EnterFull, Return, SellFromFull, BookSale, Arrive, SweepFetch, SweepStore, Correct,
       LoadCandidate, ReadSaldo, PostBalance, LogCorrection, PostFails, LogFails,
       tables, running, passing, history
  <1>2. Units' = Units /\ Booked' = Booked BY <1>1, RowsSteady
  <1>3. /\ Held' = Held /\ Posted' = Posted
        /\ (RecentRequest' <=> RecentRequest) /\ (HasRecentPending' <=> HasRecentPending)
    BY <1>1 DEF Held, Posted, RecentRequest, HasRecentPending, Pending
  <1>4. tiny'.g \in Int /\ tiny'.g >= tiny.g
    <2>1. CASE EnterFull(qty) \/ BookSale BY <1>0, <2>1 DEF EnterFull, BookSale, Readings
    <2>2. CASE Return BY <1>0, <2>2 DEF Return, Readings
    <2>3. CASE PostBalance \/ PostFails BY <1>0, <2>3 DEF PostBalance, PostFails, Readings
    <2>4. CASE UNCHANGED tiny BY <1>0, <2>4
    <2>5. CASE \/ SellFromFull \/ Arrive \/ SweepFetch \/ SweepStore
               \/ LoadCandidate \/ ReadSaldo \/ LogCorrection \/ LogFails
      BY <2>4, <2>5 DEF SellFromFull, Arrive, SweepFetch, SweepStore, LoadCandidate, ReadSaldo,
         LogCorrection, LogFails, books
    <2> QED BY <2>1, <2>2, <2>3, <2>5 DEF Correct
  <1>5. Floor(tiny'.g) >= Floor(tiny.g) - 0 BY <1>0, <1>4 DEF Floor
  <1> QED BY <1>0, <1>1, <1>2, <1>3, <1>5, HandsKept DEF Steady

\* The scan touches no row that is new.
LEMMA RowSteady ==
  ASSUME TypeOK, NEW i \in Ids, CreditRow(i) \/ DrainRow(i)
  PROVE  Steady(0)
  <1>0. /\ out \in Nat /\ Held \in Nat /\ Posted \in Nat /\ Floor(tiny.g) \in Nat
        /\ row \in [Ids -> Transfers]
    BY HeldType DEF TypeOK
  <1>1. /\ tiny' = tiny /\ out' = out /\ snap' = snap /\ hand' = hand /\ request' = request
        /\ unread' = unread
    BY DEF CreditRow, DrainRow, books, running, history
  <1>2. Units' = Units /\ Booked' = Booked BY RowsSteady
  <1>3. ~row[i].fresh /\ \A j \in Ids \ {i} : row'[j] = row[j]
    BY <1>0 DEF CreditRow, DrainRow
  <1>4. \A j \in Pending : row[j].fresh => j \in Pending' /\ row'[j] = row[j]
    BY <1>3 DEF Pending
  <1>5. (RecentRequest => RecentRequest') /\ (HasRecentPending => HasRecentPending')
    BY <1>4 DEF RecentRequest, HasRecentPending
  <1>6. Held' = Held /\ Posted' = Posted BY <1>1 DEF Held, Posted
  <1> QED BY <1>0, <1>1, <1>2, <1>5, <1>6, HandsKept DEF Steady

\* When time passes no consumer is about to record, and the endpoint's last row
\* is not waiting for a reading, or a reading is late.
LEMMA TimeSteady ==
  ASSUME TypeOK, NEW span, TimePasses(span), blame' = {}
  PROVE  Steady(0)
  <1>0. /\ out \in Nat /\ Held \in Nat /\ Posted \in Nat /\ Floor(tiny.g) \in Nat
    BY HeldType DEF TypeOK
  <1>1. /\ tiny' = tiny /\ out' = out /\ snap' = snap /\ hand' = hand /\ request' = request
        /\ unread' = unread
    BY DEF TimePasses, running
  <1>2. Units' = Units /\ Booked' = Booked BY RowsSteady
  <1>3. ~(unread /\ RecentRequest) BY DEF TimePasses, RecentRequest
  <1>4. \A c \in Consumers : hand[c].step # "record" BY DEF TimePasses, At
  <1>5. Held' = Held /\ Posted' = Posted BY <1>1 DEF Held, Posted
  <1>6. \A c \in Consumers : Active(c)' => Active(c) BY <1>1 DEF Active, At
  <1> QED BY <1>0, <1>1, <1>2, <1>3, <1>4, <1>5, <1>6 DEF Steady

LEMMA CrashSteady ==
  ASSUME TypeOK, Crash
  PROVE  Steady(0)
  <1>0. /\ out \in Nat /\ Held \in Nat /\ Posted \in Nat /\ Floor(tiny.g) \in Nat
    BY HeldType DEF TypeOK
  <1>1. /\ tiny' = tiny /\ out' = out /\ snap' = snap /\ row' = row /\ unread' = unread
        /\ Held' = 0 /\ Posted' = 0
    BY DEF Crash, books, tables, history, Held, Posted, IdleRequest
  <1>2. Units' = Units /\ Booked' = Booked BY <1>1, RowsSteady
  <1>3. RecentRequest' <=> RecentRequest BY <1>1 DEF RecentRequest, Pending
  <1>4. \A c \in Consumers : ~Active(c)' BY DEF Crash, Active, At, IdleHand
  <1> QED BY <1>0, <1>1, <1>2, <1>3, <1>4 DEF Steady

LEMMA BookedInit == Init => BookedInv
  <1> SUFFICES ASSUME Init PROVE \E o, from \in [Consumers -> Nat], s \in Nat : Moments(o, from, s)
    BY DEF BookedInv
  <1> DEFINE z == [c \in Consumers |-> 0]
  <1>1. z \in [Consumers -> Nat] /\ 0 \in Nat OBVIOUS
  <1>2. Booked = {} BY DEF Init, Booked, NoRow
  <1>3. Units = 0 BY <1>2, SumEmpty DEF Units
  <1>4. out = 0 /\ Held = 0 /\ Posted = 0 BY DEF Init, Held, Posted, IdleRequest
  <1>5. Covered(0, 0) BY <1>3 DEF Covered
  <1>6. \A c \in Consumers : ~Active(c) BY DEF Init, Active, At, IdleHand
  <1>7. SnapSince(0)
    <2>1. tiny.g = Stocked /\ snap.g \in {-1, Stocked}
      BY DEF Init, NoReading
    <2> QED BY <1>4, <2>1, ParametersAssumption DEF SnapSince, Floor
  <1>8. ReadSince(z) /\ SnapBefore(z, 0) /\ LastTaken(z) /\ AfterCovered(z) /\ PrevCovered(z, z)
    BY <1>6 DEF ReadSince, SnapBefore, LastTaken, AfterCovered, PrevCovered, Open
  <1>9. SnapCovered(0) BY <1>4, <1>5 DEF SnapCovered
  <1>10. Moments(z, z, 0)
    <2> HIDE DEF z
    <2> QED BY <1>4, <1>5, <1>7, <1>8, <1>9 DEF Moments
  <1> QED BY <1>1, <1>10

LEMMA BookedStep == TypeOK /\ TypeOK' /\ BookedInv /\ [Next]_vars => BookedInv'
  <1> SUFFICES ASSUME TypeOK, TypeOK', BookedInv, [Next]_vars, blame' = {}
               PROVE  \E o, from \in [Consumers -> Nat], s \in Nat : Moments(o, from, s)'
    BY DEF BookedInv
  <1>1. blame = {}
    BY DEF Next, vars, GetStock, Consume, FetchFull, StoreDeposits, ReadSnapshot, RecordDelta,
       Recorded, RecordFails, ItemFails, CheckStock, LeaveGalpao, EnterFull, Serve, PostExit,
       PostEntry, RecordTransfer, MovementResent, RequestFails, SweepFetch, SweepStore, Correct,
       LoadCandidate, ReadSaldo, PostBalance, LogCorrection, PostFails, LogFails, Return,
       SellFromFull, BookSale, Arrive, CreditRow, DrainRow, TimePasses, Crash, history
  <1>2. PICK o \in [Consumers -> Nat], from \in [Consumers -> Nat], s \in Nat : Moments(o, from, s)
    BY <1>1 DEF BookedInv
  <1>3. ASSUME NEW k \in Nat, Steady(k)
        PROVE  \E o2, from2 \in [Consumers -> Nat], s2 \in Nat : Moments(o2, from2, s2)'
    BY <1>2, <1>3, SteadyStep
  <1>4. CASE UNCHANGED vars
    <2>1. Moments(o, from, s)'
      BY <1>2, <1>4 DEF vars, Moments, Covered, Units, Booked, Held, SnapSince, ReadSince,
         SnapBefore, LastTaken, AfterCovered, SnapCovered, PrevCovered, Active, Open, At, Posted,
         RecentRequest, HasRecentPending, Pending
    <2> QED BY <2>1
  <1>5. ASSUME NEW c \in Consumers,
               GetStock(c) \/ Consume(c) \/ RecordFails(c) \/ ItemFails(c)
        PROVE  \E o2, from2 \in [Consumers -> Nat], s2 \in Nat : Moments(o2, from2, s2)'
    <2>1. CASE GetStock(c) BY <1>2, <2>1, GetStockMoves
    <2>2. CASE ReadSnapshot(c) BY <1>2, <2>2, ReadSnapshotMoves
    <2>3. CASE RecordDelta(c) BY <1>2, <2>3, RecordDeltaMoves
    <2>4. CASE FetchFull(c) \/ StoreDeposits(c) \/ RecordFails(c) \/ ItemFails(c)
      BY <1>3, <2>4, ItemSteady
    <2> QED BY <1>5, <2>1, <2>2, <2>3, <2>4 DEF Consume
  <1>6. ASSUME NEW qty \in 1..MaxQty, CheckStock(qty) \/ LeaveGalpao(qty) \/ EnterFull(qty)
        PROVE  \E o2, from2 \in [Consumers -> Nat], s2 \in Nat : Moments(o2, from2, s2)'
    <2>1. qty \in Nat BY ParametersAssumption
    <2> QED BY <1>3, <1>6, <2>1, RequestSteady, ElsewhereSteady
  <1>7. CASE RecordTransfer BY <1>2, <1>7, RecordTransferMoves
  <1>8. CASE PostExit \/ PostEntry \/ MovementResent \/ RequestFails
    <2>1. 0 \in Nat OBVIOUS
    <2> QED BY <1>3, <1>8, <2>1, RequestSteady
  <1>9. CASE \/ Return \/ SellFromFull \/ BookSale \/ Arrive
             \/ SweepFetch \/ SweepStore \/ Correct \/ PostFails \/ LogFails
    <2>1. 0 \in Nat OBVIOUS
    <2> QED BY <1>3, <1>9, <2>1, ElsewhereSteady
  <1>10. ASSUME NEW i \in Ids, CreditRow(i) \/ DrainRow(i) PROVE Steady(0)
    BY <1>10, RowSteady
  <1>11. ASSUME NEW span, TimePasses(span) PROVE Steady(0)
    BY <1>11, TimeSteady
  <1>12. CASE Next
    <2>1. 0 \in Nat OBVIOUS
    <2> QED BY <1>3, <1>5, <1>6, <1>7, <1>8, <1>9, <1>10, <1>11, <1>12, <2>1, CrashSteady
          DEF Next, Serve
  <1> QED BY <1>4, <1>12

\* The bookkeeping of shipments: what two consumers infer from deltas and the
\* endpoint records never comes to more than left Galpão, but for the tolerance
\* of the corroboration, where no reading was recorded after a later one, while
\* the endpoint posted, or half an hour after the endpoint's row.
THEOREM BookedOnce == Spec => []BookedLeftGalpao
  <1>1. TypeOK /\ BookedInv => BookedLeftGalpao
    <2> SUFFICES ASSUME TypeOK, BookedInv, blame = {}
                 PROVE  80 * Units <= 100 * out
      BY DEF BookedLeftGalpao
    <2>1. Covered(out, Held) BY DEF BookedInv, Moments
    <2>2. Held \in Nat /\ out \in Nat BY HeldType DEF TypeOK
    <2> QED BY <2>1, <2>2, UnitsType DEF Covered
  <1> QED BY TypeInit, TypeStep, BookedInit, BookedStep, <1>1, PTL DEF Spec
=============================================================================
