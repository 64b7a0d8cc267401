--------------------- MODULE FulfillmentReceptionProofs ---------------------
(* What a matching of transfers with events does, for all of them, and what the *)
(* scans then do to the rows, for any number of rows, units and days: the sums   *)
(* of units, the matching, the columns of a row, one scan at a time, and scans   *)
(* that overlap.  Then, of the other functions that MCAlgorithms enumerates, the  *)
(* price of a decision and the caps.                                            *)
EXTENDS MCFulfillmentReception, MCAlgorithms, FiniteSetTheorems, SequenceTheorems, TLAPS

---------------------------------------------------------------------------
(* Induction over finite sets, and folds                                   *)

\* A set of naturals has a least element.
LEMMA Smallest ==
    ASSUME NEW T \in SUBSET Nat, T # {}
    PROVE  \E n \in T : \A m \in T : n <= m
<1> DEFINE R == {ss \in Nat \X Nat : ss[1] < ss[2]}
<1>1. IsWellFoundedOn(R, Nat)
  BY NatLessThanWellFounded DEF OpToRel
<1>2. PICK n \in T : \A m \in T : ~ (<<m, n>> \in R)
  <2> HIDE DEF R
  <2> QED BY <1>1, WFMin
<1>3. ASSUME NEW m \in T PROVE n <= m
  <2>1. n \in Nat /\ m \in Nat /\ ~(<<m, n>> \in R)
    BY <1>2
  <2>2. ~(m < n)
    BY <2>1
  <2> QED BY <2>1, <2>2
<1> QED BY <1>3

\* What holds of a set as soon as it holds of the set without any one of its members
\* holds of every finite set.
LEMMA SetInduction ==
    ASSUME NEW D, IsFiniteSet(D), NEW P,
           \A s \in SUBSET D : (\A x \in s : s \ {x} \in P) => s \in P
    PROVE  \A s \in SUBSET D : s \in P
<1> DEFINE B == {s \in SUBSET D : s \notin P}
           T == {Cardinality(s) : s \in B}
<1>1. \A s \in SUBSET D : IsFiniteSet(s) /\ Cardinality(s) \in Nat
  BY FS_Subset, FS_CardinalityType
<1>2. SUFFICES ASSUME B # {} PROVE FALSE
  OBVIOUS
<1>3. T \in SUBSET Nat /\ T # {}
  BY <1>1, <1>2
<1>4. PICK n \in T : \A m \in T : n <= m
  <2> HIDE DEF T
  <2> QED BY <1>3, Smallest
<1>5. PICK s \in B : Cardinality(s) = n
  OBVIOUS
<1>6. ASSUME NEW x \in s PROVE s \ {x} \in P
  <2>1. Cardinality(s \ {x}) = Cardinality(s) - 1
    BY <1>1, FS_RemoveElement
  <2>2. ~ (n <= n - 1)
    BY <1>1, <1>5
  <2>3. s \ {x} \in SUBSET D
    OBVIOUS
  <2> QED BY <1>4, <1>5, <2>1, <2>2, <2>3
<1> QED BY <1>5, <1>6

\* g[s] is the fold of F over s: c takes one member after the other.
IsFold(g, D, base, c, F) ==
    \A s \in SUBSET D : g[s] = IF s = {} THEN base ELSE F[c[s]][g[s \ {c[s]}]]

\* A fold over a finite set has a value; the values are of A.
LEMMA FoldExists ==
    ASSUME NEW D, IsFiniteSet(D), NEW A, NEW base \in A, NEW c, NEW F,
           \A s \in SUBSET D : s # {} => c[s] \in s,
           \A x \in D, a \in A : F[x][a] \in A
    PROVE  \E g \in [SUBSET D -> A] : IsFold(g, D, base, c, F)
<1> DEFINE New(h) == [s \in SUBSET D |-> IF s = {} THEN base ELSE F[c[s]][h[s \ {c[s]}]]]
           Good(n) == \E h \in [SUBSET D -> A] : \A s \in SUBSET D :
                         Cardinality(s) <= n => h[s] = New(h)[s]
           T == {n \in Nat : ~Good(n)}
<1>1. \A s \in SUBSET D : IsFiniteSet(s) /\ Cardinality(s) \in Nat
  BY FS_Subset, FS_CardinalityType
<1>2. ASSUME NEW h \in [SUBSET D -> A] PROVE New(h) \in [SUBSET D -> A]
  <2>1. \A s \in SUBSET D : s # {} => c[s] \in D /\ s \ {c[s]} \in SUBSET D
    OBVIOUS
  <2>2. \A s \in SUBSET D : s # {} => F[c[s]][h[s \ {c[s]}]] \in A
    BY <2>1
  <2> QED BY <2>2
<1>3. Good(0)
  <2> DEFINE h == New([s \in SUBSET D |-> base])
  <2>1. h \in [SUBSET D -> A] BY <1>2
  <2>2. \A s \in SUBSET D : Cardinality(s) <= 0 => s = {} BY <1>1, FS_EmptySet
  <2>3. h[{}] = base OBVIOUS
  <2>4. New(h)[{}] = base OBVIOUS
  <2> QED BY <2>1, <2>2, <2>3, <2>4
<1>4. ASSUME NEW n \in Nat, Good(n) PROVE Good(n + 1)
  <2>1. PICK h \in [SUBSET D -> A] : \A s \in SUBSET D : Cardinality(s) <= n => h[s] = New(h)[s]
    BY <1>4
  <2> DEFINE k == New(h)
  <2>2. k \in [SUBSET D -> A] BY <1>2
  <2>3. ASSUME NEW s \in SUBSET D, Cardinality(s) <= n + 1 PROVE k[s] = New(k)[s]
    <3>1. CASE s = {} BY <3>1
    <3>2. CASE s # {}
      <4>1. c[s] \in s BY <3>2
      <4>2. s \ {c[s]} \in SUBSET D OBVIOUS
      <4>3. Cardinality(s \ {c[s]}) = Cardinality(s) - 1 BY <1>1, <4>1, FS_RemoveElement
      <4>4. Cardinality(s \ {c[s]}) <= n BY <1>1, <2>3, <4>2, <4>3
      <4>5. h[s \ {c[s]}] = k[s \ {c[s]}] BY <2>1, <4>2, <4>4
      <4> QED BY <3>2, <4>5
    <3> QED BY <3>1, <3>2
  <2> HIDE DEF k
  <2> QED BY <2>2, <2>3
<1> HIDE DEF Good
<1>5. T = {}
  <2>1. SUFFICES ASSUME T # {} PROVE FALSE OBVIOUS
  <2>2. PICK n \in T : \A m \in T : n <= m BY <2>1, Smallest
  <2>3. n \in Nat /\ n # 0 /\ ~Good(n) BY <1>3
  <2>4. n - 1 \in Nat /\ ~(n <= n - 1) /\ (n - 1) + 1 = n BY <2>3
  <2>5. Good(n - 1) BY <2>2, <2>4
  <2> QED BY <1>4, <2>3, <2>4, <2>5
<1>6. Good(Cardinality(D)) BY <1>1, <1>5
<1>7. PICK h \in [SUBSET D -> A] : \A s \in SUBSET D :
         Cardinality(s) <= Cardinality(D) => h[s] = New(h)[s]
  BY <1>6 DEF Good
<1>8. \A s \in SUBSET D : Cardinality(s) <= Cardinality(D) BY FS_Subset
<1> QED BY <1>7, <1>8 DEF IsFold

---------------------------------------------------------------------------
(* Sums                                                                    *)

\* The units of S, one by one: where f says how many each member has.
Slots(f, S) == {p \in S \X Nat : p[2] < f[p[1]]}

LEMMA SlotsOfOne ==
    ASSUME NEW f, NEW x, f[x] \in Nat
    PROVE  IsFiniteSet(Slots(f, {x})) /\ Cardinality(Slots(f, {x})) = f[x]
<1> DEFINE n == f[x]
           B == [i \in 0..(n - 1) |-> <<x, i>>]
<1>1. 0..(n - 1) = {i \in Nat : i < n} BY DEF n
<1>2. IsFiniteSet(0..(n - 1)) /\ Cardinality(0..(n - 1)) = n
  <2>1. n \in Nat /\ n - 1 \in Int /\ 0 \in Int BY DEF n
  <2> HIDE DEF n
  <2>2. IsFiniteSet(0..(n - 1)) /\ Cardinality(0..(n - 1)) = IF 0 > n - 1 THEN 0 ELSE (n - 1) - 0 + 1
    BY <2>1, FS_Interval
  <2> QED BY <2>1, <2>2
<1>3. Slots(f, {x}) = {<<x, i>> : i \in 0..(n - 1)} BY <1>1 DEF Slots
<1>4. B \in Bijection(0..(n - 1), Slots(f, {x}))
  <2>1. B \in [0..(n - 1) -> Slots(f, {x})] BY <1>3
  <2>2. \A i, j \in 0..(n - 1) : B[i] = B[j] => i = j OBVIOUS
  <2>3. \A p \in Slots(f, {x}) : \E i \in 0..(n - 1) : B[i] = p BY <1>3
  <2> QED BY <2>1, <2>2, <2>3 DEF Bijection, Injection, Surjection, IsInjective
<1> HIDE DEF B
<1> QED BY <1>2, <1>4, FS_Bijection DEF ExistsBijection

LEMMA SlotsAdd ==
    ASSUME NEW f, NEW S, NEW x \in S, f[x] \in Nat, IsFiniteSet(Slots(f, S \ {x}))
    PROVE  /\ IsFiniteSet(Slots(f, S))
           /\ Cardinality(Slots(f, S)) = f[x] + Cardinality(Slots(f, S \ {x}))
<1> DEFINE A == Slots(f, {x})
           B == Slots(f, S \ {x})
<1>1. Slots(f, S) = A \cup B /\ A \cap B = {} BY DEF Slots
<1>2. IsFiniteSet(A) /\ Cardinality(A) = f[x] BY SlotsOfOne
<1>3. Cardinality(A \cap B) = 0 BY <1>1, FS_EmptySet
<1>4. Cardinality(B) \in Nat BY FS_CardinalityType
<1> HIDE DEF A, B
<1>5. IsFiniteSet(A \cup B) /\ Cardinality(A \cup B) = Cardinality(A) + Cardinality(B) - Cardinality(A \cap B)
  BY <1>2, FS_Union DEF A, B
<1> QED BY <1>1, <1>2, <1>3, <1>4, <1>5 DEF A, B

LEMMA SlotsFinite ==
    ASSUME NEW S, IsFiniteSet(S), NEW f, \A x \in S : f[x] \in Nat
    PROVE  \A s \in SUBSET S : IsFiniteSet(Slots(f, s))
<1> DEFINE P == {s \in SUBSET S : IsFiniteSet(Slots(f, s))}
<1>1. ASSUME NEW s \in SUBSET S, \A x \in s : s \ {x} \in P PROVE s \in P
  <2>1. CASE s = {}
    <3>1. Slots(f, s) = {} BY <2>1 DEF Slots
    <3> QED BY <3>1, FS_EmptySet
  <2>2. CASE s # {}
    BY <1>1, <2>2, SlotsAdd
  <2> QED BY <2>1, <2>2
<1> HIDE DEF P
<1>2. \A s \in SUBSET S : s \in P BY <1>1, SetInduction
<1> QED BY <1>2 DEF P

\* The sum is how many units there are.
LEMMA SumIsCount ==
    ASSUME NEW S, IsFiniteSet(S), NEW f, \A x \in S : f[x] \in Nat
    PROVE  SumFunctionOnSet(f, S) = Cardinality(Slots(f, S))
<1>1. \A s \in SUBSET S : IsFiniteSet(Slots(f, s)) BY SlotsFinite
<1>2. ASSUME NEW s \in SUBSET S, NEW x \in s
      PROVE  Cardinality(Slots(f, s)) = f[x] + Cardinality(Slots(f, s \ {x}))
  <2>1. f[x] \in Nat /\ IsFiniteSet(Slots(f, s \ {x})) BY <1>1
  <2> QED BY <2>1, SlotsAdd
<1> DEFINE IsSum(g) ==
             g = [s \in SUBSET S |-> IF s = {} THEN 0
                                     ELSE LET x == CHOOSE x \in s : TRUE IN f[x] + g[s \ {x}]]
           sum == CHOOSE g : IsSum(g)
           count == [s \in SUBSET S |-> Cardinality(Slots(f, s))]
<1>3. Cardinality(Slots(f, {})) = 0
  <2>1. Slots(f, {}) = {} BY DEF Slots
  <2> QED BY <2>1, FS_EmptySet
<1>4. \A s \in SUBSET S : count[s] =
         IF s = {} THEN 0 ELSE LET x == CHOOSE x \in s : TRUE IN f[x] + count[s \ {x}]
  BY <1>2, <1>3
<1>5. IsSum(count) BY <1>4
<1>6. IsSum(sum) BY <1>5
<1>7. SumFunctionOnSet(f, S) = sum[S]
  BY DEF SumFunctionOnSet, FoldFunctionOnSet, MapThenFoldSet
<1> HIDE DEF count, sum
<1> DEFINE P == {s \in SUBSET S : sum[s] = count[s]}
<1>8. \A s \in SUBSET S : (\A x \in s : s \ {x} \in P) => s \in P
  <2>1. \A s \in SUBSET S : sum[s] =
           IF s = {} THEN 0 ELSE LET x == CHOOSE x \in s : TRUE IN f[x] + sum[s \ {x}]
    BY <1>6
  <2> QED BY <1>4, <2>1
<1> HIDE DEF P
<1>9. S \in SUBSET S /\ \A s \in SUBSET S : s \in P BY <1>8, SetInduction
<1> QED BY <1>7, <1>9 DEF P, count

LEMMA SumNat ==
    ASSUME NEW S, IsFiniteSet(S), NEW f, \A x \in S : f[x] \in Nat
    PROVE  SumFunctionOnSet(f, S) \in Nat
BY SumIsCount, SlotsFinite, FS_CardinalityType

LEMMA SumSplit ==
    ASSUME NEW S, IsFiniteSet(S), NEW f, \A x \in S : f[x] \in Nat, NEW x \in S
    PROVE  SumFunctionOnSet(f, S) = f[x] + SumFunctionOnSet(f, S \ {x})
<1>1. IsFiniteSet(S \ {x}) /\ \A y \in S \ {x} : f[y] \in Nat BY FS_Subset
<1>2. SumFunctionOnSet(f, S) = Cardinality(Slots(f, S)) BY SumIsCount
<1>3. SumFunctionOnSet(f, S \ {x}) = Cardinality(Slots(f, S \ {x})) BY <1>1, SumIsCount
<1>4. IsFiniteSet(Slots(f, S \ {x})) BY <1>1, SlotsFinite
<1>5. f[x] \in Nat OBVIOUS
<1>6. Cardinality(Slots(f, S)) = f[x] + Cardinality(Slots(f, S \ {x})) BY <1>4, <1>5, SlotsAdd
<1> QED BY <1>2, <1>3, <1>6

LEMMA SumGrows ==
    ASSUME NEW S, IsFiniteSet(S), NEW T \in SUBSET S, NEW f, NEW g,
           \A x \in S : g[x] \in Nat, \A x \in T : f[x] \in Nat /\ f[x] <= g[x]
    PROVE  SumFunctionOnSet(f, T) <= SumFunctionOnSet(g, S)
<1>1. IsFiniteSet(T) BY FS_Subset
<1>2. /\ SumFunctionOnSet(f, T) = Cardinality(Slots(f, T))
      /\ SumFunctionOnSet(g, S) = Cardinality(Slots(g, S))
  BY <1>1, SumIsCount
<1>3. Slots(f, T) \subseteq Slots(g, S)
  <2>1. \A x \in T : \A n \in Nat : n < f[x] => n < g[x] OBVIOUS
  <2> QED BY <2>1 DEF Slots
<1>4. IsFiniteSet(Slots(g, S)) BY SlotsFinite
<1> QED BY <1>2, <1>3, <1>4, FS_Subset

LEMMA SumSame ==
    ASSUME NEW S, IsFiniteSet(S), NEW f, NEW g, \A x \in S : f[x] \in Nat /\ f[x] = g[x]
    PROVE  SumFunctionOnSet(f, S) = SumFunctionOnSet(g, S)
<1>1. /\ SumFunctionOnSet(f, S) = Cardinality(Slots(f, S))
      /\ SumFunctionOnSet(g, S) = Cardinality(Slots(g, S))
  BY SumIsCount
<1>2. Slots(f, S) = Slots(g, S) BY DEF Slots
<1> QED BY <1>1, <1>2

LEMMA SumZero ==
    ASSUME NEW S, IsFiniteSet(S), NEW f, \A x \in S : f[x] = 0
    PROVE  SumFunctionOnSet(f, S) = 0
<1>1. SumFunctionOnSet(f, S) = Cardinality(Slots(f, S)) BY SumIsCount
<1>2. Slots(f, S) = {} BY DEF Slots
<1> QED BY <1>1, <1>2, FS_EmptySet

LEMMA SumUnion ==
    ASSUME NEW S, IsFiniteSet(S), NEW T, IsFiniteSet(T), S \cap T = {},
           NEW f, \A x \in S \cup T : f[x] \in Nat
    PROVE  SumFunctionOnSet(f, S \cup T) = SumFunctionOnSet(f, S) + SumFunctionOnSet(f, T)
<1>1. IsFiniteSet(S \cup T) BY FS_Union
<1>2. /\ SumFunctionOnSet(f, S) = Cardinality(Slots(f, S))
      /\ SumFunctionOnSet(f, T) = Cardinality(Slots(f, T))
      /\ SumFunctionOnSet(f, S \cup T) = Cardinality(Slots(f, S \cup T))
  BY <1>1, SumIsCount
<1>3. /\ IsFiniteSet(Slots(f, S)) /\ IsFiniteSet(Slots(f, T))
      /\ Cardinality(Slots(f, S)) \in Nat /\ Cardinality(Slots(f, T)) \in Nat
  BY SlotsFinite, FS_CardinalityType
<1>4. Slots(f, S \cup T) = Slots(f, S) \cup Slots(f, T) /\ Slots(f, S) \cap Slots(f, T) = {}
  BY DEF Slots
<1>5. Cardinality(Slots(f, S) \cap Slots(f, T)) = 0 BY <1>4, FS_EmptySet
<1>6. Cardinality(Slots(f, S) \cup Slots(f, T))
        = Cardinality(Slots(f, S)) + Cardinality(Slots(f, T))
          - Cardinality(Slots(f, S) \cap Slots(f, T))
  BY <1>3, FS_Union
<1>7. Cardinality(Slots(f, S \cup T)) = Cardinality(Slots(f, S) \cup Slots(f, T)) BY <1>4, Zenon
<1> QED BY <1>2, <1>3, <1>5, <1>6, <1>7

\* A sum of which one term changes.
LEMMA SumChange ==
    ASSUME NEW S, IsFiniteSet(S), NEW f, NEW g, NEW x \in S,
           \A y \in S : f[y] \in Nat /\ g[y] \in Nat, \A y \in S \ {x} : f[y] = g[y]
    PROVE  SumFunctionOnSet(g, S) = SumFunctionOnSet(f, S) + g[x] - f[x]
<1>1. IsFiniteSet(S \ {x}) BY FS_Subset
<1>2. /\ SumFunctionOnSet(f, S) = f[x] + SumFunctionOnSet(f, S \ {x})
      /\ SumFunctionOnSet(g, S) = g[x] + SumFunctionOnSet(g, S \ {x})
  BY SumSplit
<1>3. SumFunctionOnSet(f, S \ {x}) = SumFunctionOnSet(g, S \ {x}) BY <1>1, SumSame
<1>4. SumFunctionOnSet(f, S \ {x}) \in Nat BY <1>1, SumNat
<1>5. f[x] \in Nat /\ g[x] \in Nat OBVIOUS
<1> QED BY <1>2, <1>3, <1>4, <1>5

---------------------------------------------------------------------------
(* The last of a set                                                       *)

LEMMA LatestIs ==
    ASSUME NEW s, NEW S, IsFiniteSet(S), S # {}, \A i \in S : i \in Int /\ s[i].at \in Int
    PROVE  Latest(s, S) \in S /\ \A j \in S : s[j].at <= s[Latest(s, S)].at
<1> DEFINE Before(j, i) == s[j].at < s[i].at \/ (s[j].at = s[i].at /\ j <= i)
           P == {u \in SUBSET S : u # {} => \E i \in u : \A j \in u : Before(j, i)}
<1>1. ASSUME NEW u \in SUBSET S, \A x \in u : u \ {x} \in P PROVE u \in P
  <2>1. SUFFICES ASSUME u # {} PROVE \E i \in u : \A j \in u : Before(j, i)
    OBVIOUS
  <2>2. PICK x \in u : TRUE BY <2>1
  <2>3. CASE u \ {x} = {}
    <3>1. \A j \in u : j = x BY <2>3
    <3>2. Before(x, x) OBVIOUS
    <3> QED BY <3>1, <3>2
  <2>4. CASE u \ {x} # {}
    <3>1. u \ {x} \in P BY <1>1
    <3>2. PICK i \in u \ {x} : \A j \in u \ {x} : Before(j, i) BY <2>4, <3>1
    <3>3. CASE Before(x, i)
      <4>1. \A j \in u : Before(j, i) BY <3>2, <3>3
      <4> QED BY <4>1
    <3>4. CASE ~Before(x, i)
      <4>1. Before(i, x) BY <3>4
      <4>2. \A j \in u : Before(j, x) BY <3>2, <4>1
      <4> QED BY <4>2
    <3> QED BY <3>3, <3>4
  <2> QED BY <2>3, <2>4
<1> HIDE DEF P
<1>2. S \in SUBSET S /\ \A u \in SUBSET S : u \in P BY <1>1, SetInduction
<1>3. \E i \in S : \A j \in S : Before(j, i) BY <1>2 DEF P
<1>4. Latest(s, S) \in S /\ \A j \in S : Before(j, Latest(s, S)) BY <1>3 DEF Latest
<1> QED BY <1>4

LEMMA MinOfTwo ==
    ASSUME NEW a \in Int, NEW b \in Int
    PROVE  Min({a, b}) = IF a <= b THEN a ELSE b
<1>1. CASE a <= b
  <2>1. a \in {a, b} /\ \A y \in {a, b} : a =< y
    BY <1>1
  <2>2. \A x \in {a, b} : (\A y \in {a, b} : x =< y) => x = a
    BY <1>1
  <2> QED BY <1>1, <2>1, <2>2 DEF Min
<1>2. CASE ~(a <= b)
  <2>1. b \in {a, b} /\ \A y \in {a, b} : b =< y
    BY <1>2
  <2>2. \A x \in {a, b} : (\A y \in {a, b} : x =< y) => x = b
    BY <1>2
  <2> QED BY <1>2, <2>1, <2>2 DEF Min
<1> QED BY <1>1, <1>2

---------------------------------------------------------------------------
(* One transfer against the events                                         *)

IsTransfer(t) == t.at \in Int /\ t.last \in Int /\ t.qty \in Int /\ t.got \in Int
IsEvents(E) ==
    /\ IsFiniteSet(DOMAIN E)
    /\ \A k \in DOMAIN E : k \in Int /\ E[k].at \in Int /\ E[k].qty \in Nat

\* What a credit is while events are still to come.
Credits(D) == [out : Nat, delta : Nat, last : Int, rem : [D -> Nat]]

\* The events of a set from a time on.
From(E, s, time) == {k \in s : E[k].at >= time}

\* Once the events of s have been offered to t: what remains of each, and that t took
\* the last units from an event it may use.
AfterOffer(t, E, rem, s, acc) ==
    /\ acc \in Credits(DOMAIN E)
    /\ acc.out + acc.delta = Outstanding(t)
    /\ \A k \in DOMAIN E : acc.rem[k] <= rem[k] /\ (k \notin s => acc.rem[k] = rem[k])
    /\ (\E k \in s : E[k].at >= Floor(t) /\ acc.rem[k] > 0) => acc.out = 0
    /\ acc.delta > 0 => \E k \in s : E[k].at >= Floor(t) /\ rem[k] > 0 /\ acc.last = E[k].at
    /\ acc.delta <= SumFunctionOnSet(rem, {k \in s : E[k].at >= Floor(t) /\ E[k].at <= acc.last})

\* And what remains of the events from a time on.
Conserved(t, E, rem, s, acc, time) ==
    LET before == SumFunctionOnSet(rem, From(E, DOMAIN E, time))
        after == SumFunctionOnSet(acc.rem, From(E, DOMAIN E, time))
    IN  /\ after <= before /\ before <= after + acc.delta
        /\ Floor(t) >= time => before = after + acc.delta
        /\ (\E k \in s : E[k].at >= Floor(t) /\ E[k].at < time /\ acc.rem[k] > 0)
              => before = after

LEMMA EligibleFrom ==
    ASSUME NEW t, IsTransfer(t), NEW e, e.at \in Int
    PROVE  Floor(t) \in Int /\ (Eligible(t, e) <=> e.at >= Floor(t))
BY DEF IsTransfer, Floor, Eligible, Never

LEMMA OutstandingNat ==
    ASSUME NEW t, IsTransfer(t)
    PROVE  Outstanding(t) \in Nat
BY DEF IsTransfer, Outstanding

\* What Take does.
LEMMA TakeIs ==
    ASSUME NEW t, IsTransfer(t), NEW E, IsEvents(E), NEW acc \in Credits(DOMAIN E),
           NEW x \in DOMAIN E
    PROVE  LET now1 == Take(t, E[x], acc, x)
               take == IF acc.out <= acc.rem[x] THEN acc.out ELSE acc.rem[x]
           IN  /\ take \in Nat /\ now1 \in Credits(DOMAIN E)
               /\ E[x].at >= Floor(t) /\ take > 0 =>
                    /\ now1.out = acc.out - take /\ now1.delta = acc.delta + take
                    /\ now1.last = E[x].at
                    /\ \A k \in DOMAIN E :
                          now1.rem[k] = IF k = x THEN acc.rem[x] - take ELSE acc.rem[k]
               /\ ~(E[x].at >= Floor(t) /\ take > 0) => now1 = acc
<1> DEFINE now1 == Take(t, E[x], acc, x)
           take == IF acc.out <= acc.rem[x] THEN acc.out ELSE acc.rem[x]
<1>1. acc.out \in Nat /\ acc.delta \in Nat /\ acc.rem \in [DOMAIN E -> Nat]
      /\ acc.rem[x] \in Nat /\ E[x].at \in Int
  BY DEF Credits, IsEvents
<1>2. take = Min({acc.out, acc.rem[x]})
  <2>1. acc.out \in Int /\ acc.rem[x] \in Int BY <1>1
  <2> QED BY <2>1, MinOfTwo
<1>3. take \in Nat /\ take <= acc.out /\ take <= acc.rem[x] BY <1>1
<1>4. Eligible(t, E[x]) <=> E[x].at >= Floor(t) BY <1>1, EligibleFrom
<1> HIDE DEF take
<1>5. now1 = IF E[x].at >= Floor(t) /\ take > 0
             THEN [out |-> acc.out - take, delta |-> acc.delta + take, last |-> E[x].at,
                   rem |-> [acc.rem EXCEPT ![x] = @ - take]]
             ELSE acc
  BY <1>2, <1>4 DEF Take
<1> DEFINE rem == [acc.rem EXCEPT ![x] = @ - take]
<1>6. /\ rem \in [DOMAIN E -> Nat]
      /\ \A k \in DOMAIN E : rem[k] = IF k = x THEN acc.rem[x] - take ELSE acc.rem[k]
  BY <1>1, <1>3
<1>7. acc.out - take \in Nat /\ acc.delta + take \in Nat BY <1>1, <1>3
<1> HIDE DEF now1, rem
<1>8. CASE E[x].at >= Floor(t) /\ take > 0
  <2>1. now1 = [out |-> acc.out - take, delta |-> acc.delta + take, last |-> E[x].at, rem |-> rem]
    BY <1>5, <1>8 DEF rem
  <2>2. now1 \in Credits(DOMAIN E) BY <1>1, <1>6, <1>7, <2>1 DEF Credits
  <2> QED BY <1>3, <1>6, <1>8, <2>1, <2>2 DEF now1, take
<1>9. CASE ~(E[x].at >= Floor(t) /\ take > 0)
  BY <1>3, <1>5, <1>9 DEF now1, take
<1> QED BY <1>8, <1>9

\* To offer one event more, not older than the others.
LEMMA AfterOfferStep ==
    ASSUME NEW t, IsTransfer(t), NEW E, IsEvents(E), NEW rem \in [DOMAIN E -> Nat],
           NEW s \in SUBSET DOMAIN E, NEW x \in s, \A j \in s : E[j].at <= E[x].at,
           NEW acc, AfterOffer(t, E, rem, s \ {x}, acc)
    PROVE  AfterOffer(t, E, rem, s, Take(t, E[x], acc, x))
<1> DEFINE new == Take(t, E[x], acc, x)
           take == IF acc.out <= acc.rem[x] THEN acc.out ELSE acc.rem[x]
           F == Floor(t)
           Used(u, last) == {k \in u : E[k].at >= F /\ E[k].at <= last}
<1>1. acc \in Credits(DOMAIN E) /\ x \in DOMAIN E BY DEF AfterOffer
<1>2. /\ take \in Nat /\ new \in Credits(DOMAIN E)
      /\ E[x].at >= F /\ take > 0 =>
           /\ new.out = acc.out - take /\ new.delta = acc.delta + take
           /\ new.last = E[x].at
           /\ \A k \in DOMAIN E :
                 new.rem[k] = IF k = x THEN acc.rem[x] - take ELSE acc.rem[k]
      /\ ~(E[x].at >= F /\ take > 0) => new = acc
  BY <1>1, TakeIs
<1>3. /\ acc.out \in Nat /\ acc.delta \in Nat /\ acc.last \in Int /\ F \in Int
      /\ \A k \in DOMAIN E : acc.rem[k] \in Nat /\ rem[k] \in Nat /\ E[k].at \in Int
  <2>1. F \in Int BY EligibleFrom, <1>1 DEF IsEvents
  <2> QED BY <1>1, <2>1 DEF Credits, IsEvents
<1>4. /\ take <= acc.out /\ take <= acc.rem[x] /\ (take = acc.out \/ take = acc.rem[x])
  BY <1>1, <1>3
<1>5. /\ acc.out + acc.delta = Outstanding(t)
      /\ \A k \in DOMAIN E : acc.rem[k] <= rem[k] /\ (k \notin s \ {x} => acc.rem[k] = rem[k])
      /\ (\E k \in s \ {x} : E[k].at >= F /\ acc.rem[k] > 0) => acc.out = 0
      /\ acc.delta > 0 => \E k \in s \ {x} : E[k].at >= F /\ rem[k] > 0 /\ acc.last = E[k].at
      /\ acc.delta <= SumFunctionOnSet(rem, Used(s \ {x}, acc.last))
  BY DEF AfterOffer
<1>6. Outstanding(t) \in Nat BY OutstandingNat
<1>7. \A u, last : u \in SUBSET s =>
         /\ IsFiniteSet(Used(u, last)) /\ Used(u, last) \in SUBSET DOMAIN E
         /\ SumFunctionOnSet(rem, Used(u, last)) \in Nat
  <2> SUFFICES ASSUME NEW u \in SUBSET s, NEW last
               PROVE /\ IsFiniteSet(Used(u, last)) /\ Used(u, last) \in SUBSET DOMAIN E
                     /\ SumFunctionOnSet(rem, Used(u, last)) \in Nat
    OBVIOUS
  <2>1. Used(u, last) \in SUBSET DOMAIN E OBVIOUS
  <2> HIDE DEF Used
  <2>2. IsFiniteSet(Used(u, last)) BY <2>1, FS_Subset DEF IsEvents
  <2>3. \A k \in Used(u, last) : rem[k] \in Nat BY <2>1
  <2> QED BY <2>1, <2>2, <2>3, SumNat
<1>8. CASE E[x].at >= F /\ take > 0
  <2> HIDE DEF new, take
  <2>1. /\ new.out = acc.out - take /\ new.delta = acc.delta + take /\ new.last = E[x].at
        /\ \A k \in DOMAIN E : new.rem[k] = IF k = x THEN acc.rem[x] - take ELSE acc.rem[k]
    BY <1>2, <1>8
  <2>2. new.out + new.delta = Outstanding(t) BY <1>2, <1>3, <1>5, <1>6, <2>1
  <2>3. \A k \in DOMAIN E : new.rem[k] <= rem[k] /\ (k \notin s => new.rem[k] = rem[k])
    <3> SUFFICES ASSUME NEW k \in DOMAIN E
                 PROVE  new.rem[k] <= rem[k] /\ (k \notin s => new.rem[k] = rem[k])
      OBVIOUS
    <3>1. new.rem[k] = IF k = x THEN acc.rem[x] - take ELSE acc.rem[k] BY <2>1
    <3>2. acc.rem[k] <= rem[k] /\ acc.rem[k] \in Nat /\ rem[k] \in Nat BY <1>3, <1>5
    <3>3. CASE k = x BY <1>2, <3>1, <3>2, <3>3
    <3>4. CASE k # x
      <4>1. new.rem[k] = acc.rem[k] BY <3>1, <3>4
      <4>2. k \notin s => acc.rem[k] = rem[k] BY <1>5
      <4> QED BY <3>2, <4>1, <4>2
    <3> QED BY <3>3, <3>4
  <2>4. (\E k \in s : E[k].at >= F /\ new.rem[k] > 0) => new.out = 0
    <3> SUFFICES ASSUME NEW k \in s, E[k].at >= F, new.rem[k] > 0 PROVE new.out = 0
      OBVIOUS
    <3>1. CASE k = x BY <1>1, <1>2, <1>3, <1>4, <2>1, <3>1
    <3>2. CASE k # x
      <4>1. acc.rem[k] > 0 BY <2>1, <3>2
      <4>2. acc.out = 0 BY <1>5, <3>2, <4>1
      <4> QED BY <1>2, <1>3, <1>4, <1>8, <4>2
    <3> QED BY <3>1, <3>2
  <2>5. E[x].at >= F /\ rem[x] > 0 /\ new.last = E[x].at
    BY <1>1, <1>2, <1>3, <1>4, <1>5, <1>8, <2>1
  <2>6. new.delta <= SumFunctionOnSet(rem, Used(s, new.last))
    <3>1. x \in Used(s, new.last) BY <1>1, <1>3, <1>8, <2>1
    <3>2. Used(s \ {x}, acc.last) \in SUBSET (Used(s, new.last) \ {x})
      BY <1>3, <2>1
    <3> DEFINE U == Used(s, new.last)
               V == Used(s \ {x}, acc.last)
    <3> HIDE DEF Used
    <3>3. IsFiniteSet(U) /\ \A k \in U : rem[k] \in Nat BY <1>7
    <3> HIDE DEF U, V
    <3>4. IsFiniteSet(U \ {x}) /\ V \in SUBSET (U \ {x}) /\ x \in U
      BY <3>1, <3>2, <3>3, FS_Subset DEF U, V
    <3>5. SumFunctionOnSet(rem, U) = rem[x] + SumFunctionOnSet(rem, U \ {x})
      BY <3>3, <3>4, SumSplit
    <3>6. SumFunctionOnSet(rem, V) <= SumFunctionOnSet(rem, U \ {x})
      <4>1. /\ \A k \in U \ {x} : rem[k] \in Nat
            /\ \A k \in V : rem[k] \in Nat /\ rem[k] <= rem[k]
        BY <3>3, <3>4
      <4> QED BY <3>4, <4>1, SumGrows
    <3>7. SumFunctionOnSet(rem, U \ {x}) \in Nat BY <3>3, <3>4, SumNat
    <3>8. acc.delta <= SumFunctionOnSet(rem, V) /\ SumFunctionOnSet(rem, V) \in Nat
      BY <1>5, <1>7 DEF V
    <3>9. take <= rem[x] /\ rem[x] \in Nat BY <1>1, <1>2, <1>3, <1>4, <1>5
    <3> QED BY <1>2, <1>3, <2>1, <3>5, <3>6, <3>7, <3>8, <3>9 DEF U
  <2> QED BY <1>2, <2>2, <2>3, <2>4, <2>5, <2>6 DEF AfterOffer, new
<1>9. CASE ~(E[x].at >= F /\ take > 0)
  <2>1. new = acc BY <1>2, <1>9
  <2>2. \A k \in DOMAIN E : acc.rem[k] <= rem[k] /\ (k \notin s => acc.rem[k] = rem[k])
    BY <1>5
  <2>3. (\E k \in s : E[k].at >= F /\ acc.rem[k] > 0) => acc.out = 0
    <3> SUFFICES ASSUME NEW k \in s, E[k].at >= F, acc.rem[k] > 0 PROVE acc.out = 0
      OBVIOUS
    <3>1. CASE k = x
      <4>1. ~(take > 0) /\ acc.rem[x] > 0 BY <1>9, <3>1
      <4> HIDE DEF take
      <4> QED BY <1>2, <1>3, <1>4, <4>1
    <3>2. CASE k # x BY <1>5, <3>2
    <3> QED BY <3>1, <3>2
  <2>4. acc.delta > 0 => \E k \in s : E[k].at >= F /\ rem[k] > 0 /\ acc.last = E[k].at
    BY <1>5
  <2>5. acc.delta <= SumFunctionOnSet(rem, Used(s, acc.last))
    <3> DEFINE U == Used(s, acc.last)
               V == Used(s \ {x}, acc.last)
    <3>1. V \in SUBSET U OBVIOUS
    <3> HIDE DEF Used
    <3>2. IsFiniteSet(U) /\ \A k \in U : rem[k] \in Nat BY <1>7
    <3>3. SumFunctionOnSet(rem, U) \in Nat /\ SumFunctionOnSet(rem, V) \in Nat
          /\ acc.delta <= SumFunctionOnSet(rem, V)
      BY <1>5, <1>7
    <3> HIDE DEF U, V
    <3>4. SumFunctionOnSet(rem, V) <= SumFunctionOnSet(rem, U)
      <4>1. \A k \in V : rem[k] \in Nat /\ rem[k] <= rem[k] BY <3>1, <3>2
      <4> QED BY <3>1, <3>2, <4>1, SumGrows
    <3> QED BY <1>3, <3>3, <3>4 DEF U
  <2> HIDE DEF new
  <2>6. AfterOffer(t, E, rem, s, acc)
    BY <1>1, <1>5, <2>2, <2>3, <2>4, <2>5 DEF AfterOffer
  <2> QED BY <2>1, <2>6 DEF new
<1> QED BY <1>8, <1>9

LEMMA ConservedStep ==
    ASSUME NEW t, IsTransfer(t), NEW E, IsEvents(E), NEW rem \in [DOMAIN E -> Nat],
           NEW s \in SUBSET DOMAIN E, NEW x \in s, \A j \in s : E[j].at <= E[x].at,
           NEW acc, AfterOffer(t, E, rem, s \ {x}, acc),
           NEW time \in Int, Conserved(t, E, rem, s \ {x}, acc, time)
    PROVE  Conserved(t, E, rem, s, Take(t, E[x], acc, x), time)
<1> DEFINE new == Take(t, E[x], acc, x)
           take == IF acc.out <= acc.rem[x] THEN acc.out ELSE acc.rem[x]
           F == Floor(t)
           Late == From(E, DOMAIN E, time)
           before == SumFunctionOnSet(rem, Late)
           after == SumFunctionOnSet(acc.rem, Late)
           then == SumFunctionOnSet(new.rem, Late)
<1>1. acc \in Credits(DOMAIN E) /\ x \in DOMAIN E BY DEF AfterOffer
<1>2. /\ take \in Nat /\ new \in Credits(DOMAIN E)
      /\ E[x].at >= F /\ take > 0 =>
           /\ new.out = acc.out - take /\ new.delta = acc.delta + take
           /\ new.last = E[x].at
           /\ \A k \in DOMAIN E :
                 new.rem[k] = IF k = x THEN acc.rem[x] - take ELSE acc.rem[k]
      /\ ~(E[x].at >= F /\ take > 0) => new = acc
  BY <1>1, TakeIs
<1>3. /\ acc.out \in Nat /\ acc.delta \in Nat /\ F \in Int
      /\ \A k \in DOMAIN E : acc.rem[k] \in Nat /\ rem[k] \in Nat /\ E[k].at \in Int
  <2>1. F \in Int BY EligibleFrom, <1>1 DEF IsEvents
  <2> QED BY <1>1, <2>1 DEF Credits, IsEvents
<1>4. /\ take <= acc.out /\ take <= acc.rem[x] /\ (take = acc.out \/ take = acc.rem[x])
  BY <1>1, <1>3
<1>5. /\ \A k \in DOMAIN E : k \notin s \ {x} => acc.rem[k] = rem[k]
      /\ (\E k \in s \ {x} : E[k].at >= F /\ acc.rem[k] > 0) => acc.out = 0
  BY DEF AfterOffer
<1>6. /\ after <= before /\ before <= after + acc.delta
      /\ F >= time => before = after + acc.delta
      /\ (\E k \in s \ {x} : E[k].at >= F /\ E[k].at < time /\ acc.rem[k] > 0)
            => before = after
  BY DEF Conserved
<1>7. /\ Late \in SUBSET DOMAIN E /\ IsFiniteSet(Late)
      /\ \A k \in DOMAIN E : k \in Late <=> E[k].at >= time
  <2>1. Late \in SUBSET DOMAIN E BY DEF From
  <2>2. IsFiniteSet(Late) BY <2>1, FS_Subset DEF IsEvents
  <2> QED BY <2>1, <2>2 DEF From
<1> HIDE DEF Late
<1>8. \A k \in Late : acc.rem[k] \in Nat /\ rem[k] \in Nat /\ new.rem[k] \in Nat
  <2>1. \A k \in DOMAIN E : new.rem[k] \in Nat BY <1>2 DEF Credits
  <2> QED BY <1>3, <1>7, <2>1
<1>9. before \in Nat /\ after \in Nat
  <2>1. before \in Nat BY <1>7, <1>8, SumNat
  <2>2. after \in Nat BY <1>7, <1>8, SumNat
  <2> QED BY <2>1, <2>2
<1>10. E[x].at < time => before = after
  <2> SUFFICES ASSUME E[x].at < time PROVE before = after
    OBVIOUS
  <2>1. \A k \in Late : rem[k] \in Nat /\ rem[k] = acc.rem[k]
    <3> SUFFICES ASSUME NEW k \in Late PROVE rem[k] \in Nat /\ rem[k] = acc.rem[k]
      OBVIOUS
    <3>1. k \in DOMAIN E /\ E[k].at >= time BY <1>7
    <3>2. k \notin s BY <1>1, <1>3, <3>1
    <3> QED BY <1>3, <1>5, <3>1, <3>2
  <2> QED BY <1>7, <2>1, SumSame
<1>11. CASE E[x].at >= F /\ take > 0
  <2> HIDE DEF new, take
  <2>1. /\ new.delta = acc.delta + take /\ new.rem[x] = acc.rem[x] - take
        /\ \A k \in DOMAIN E : k # x => new.rem[k] = acc.rem[k]
    BY <1>1, <1>2, <1>11
  <2>2. ~\E k \in s \ {x} : E[k].at >= F /\ acc.rem[k] > 0
    BY <1>2, <1>3, <1>4, <1>5, <1>11
  <2>3. CASE E[x].at >= time
    <3>1. x \in Late BY <1>1, <1>7, <2>3
    <3>2. \A k \in Late : acc.rem[k] \in Nat /\ new.rem[k] \in Nat BY <1>8
    <3>3. \A k \in Late \ {x} : acc.rem[k] = new.rem[k] BY <1>7, <2>1
    <3>4. then = after + new.rem[x] - acc.rem[x]
      <4> DEFINE f == acc.rem
                 g == new.rem
      <4>1. /\ \A y \in Late : f[y] \in Nat /\ g[y] \in Nat
            /\ \A y \in Late \ {x} : f[y] = g[y]
        BY <3>2, <3>3
      <4> HIDE DEF f, g
      <4>2. IsFiniteSet(Late) BY <1>7
      <4>3. SumFunctionOnSet(g, Late) = SumFunctionOnSet(f, Late) + g[x] - f[x]
        BY <3>1, <4>1, <4>2, SumChange
      <4> QED BY <4>3 DEF f, g
    <3>5. then = after - take BY <1>1, <1>2, <1>3, <1>9, <2>1, <3>4
    <3>6. ~\E k \in s : E[k].at >= F /\ E[k].at < time /\ new.rem[k] > 0
      <4> SUFFICES ASSUME NEW k \in s, E[k].at >= F, E[k].at < time, new.rem[k] > 0
                   PROVE  FALSE
        OBVIOUS
      <4>1. k # x BY <1>1, <1>3, <2>3
      <4> QED BY <2>1, <2>2, <4>1
    <3>7. /\ then <= before /\ before <= then + new.delta
          /\ F >= time => before = then + new.delta
      <4> HIDE DEF then, after, before
      <4> QED BY <1>2, <1>3, <1>6, <1>9, <2>1, <3>5
    <3> QED BY <3>6, <3>7 DEF Conserved, Late, new
  <2>4. CASE ~(E[x].at >= time)
    <3>1. E[x].at < time BY <1>1, <1>3, <2>4
    <3>2. \A k \in Late : acc.rem[k] \in Nat /\ acc.rem[k] = new.rem[k]
      <4>1. x \notin Late BY <1>1, <1>7, <2>4
      <4> QED BY <1>7, <1>8, <2>1, <4>1
    <3>3. after = then BY <1>7, <3>2, SumSame
    <3>4. /\ then <= before /\ before <= then + new.delta /\ before = then
          /\ ~(F >= time)
      <4> HIDE DEF then, after, before
      <4> QED BY <1>1, <1>2, <1>3, <1>9, <1>10, <1>11, <2>1, <3>1, <3>3
    <3> QED BY <3>4 DEF Conserved, Late, new
  <2> QED BY <2>3, <2>4
<1>12. CASE ~(E[x].at >= F /\ take > 0)
  <2>1. new = acc BY <1>2, <1>12
  <2>2. (\E k \in s : E[k].at >= F /\ E[k].at < time /\ acc.rem[k] > 0) => before = after
    <3> SUFFICES ASSUME NEW k \in s, E[k].at >= F, E[k].at < time, acc.rem[k] > 0
                 PROVE  before = after
      OBVIOUS
    <3>1. CASE k = x BY <1>10, <3>1
    <3>2. CASE k # x BY <1>6, <3>2
    <3> QED BY <3>1, <3>2
  <2> HIDE DEF new
  <2>3. Conserved(t, E, rem, s, acc, time) BY <1>6, <2>2 DEF Conserved, Late
  <2> QED BY <2>1, <2>3 DEF new
<1> QED BY <1>11, <1>12

\* A transfer against every event.
LEMMA CreditIs ==
    ASSUME NEW t, IsTransfer(t), NEW E, IsEvents(E), NEW rem \in [DOMAIN E -> Nat]
    PROVE  /\ AfterOffer(t, E, rem, DOMAIN E, Credit(t, E, rem))
           /\ \A time \in Int : Conserved(t, E, rem, DOMAIN E, Credit(t, E, rem), time)
<1> DEFINE D == DOMAIN E
           base == [out |-> Outstanding(t), delta |-> 0, last |-> Never, rem |-> rem]
           Folds(g) == g = [s \in SUBSET D |->
               IF s = {} THEN base
               ELSE LET x == Latest(E, s) IN Take(t, E[x], g[s \ {x}], x)]
           fold == CHOOSE g : Folds(g)
           c == [s \in SUBSET D |-> Latest(E, s)]
           F == [x \in D |-> [a \in Credits(D) |-> Take(t, E[x], a, x)]]
<1>1. IsFiniteSet(D) BY DEF IsEvents
<1>2. base \in Credits(D)
  BY OutstandingNat DEF Credits, Never
<1>3. \A s \in SUBSET D : s # {} =>
         c[s] = Latest(E, s) /\ Latest(E, s) \in s /\ \A j \in s : E[j].at <= E[Latest(E, s)].at
  <2> SUFFICES ASSUME NEW s \in SUBSET D, s # {}
               PROVE  Latest(E, s) \in s /\ \A j \in s : E[j].at <= E[Latest(E, s)].at
    OBVIOUS
  <2>1. IsFiniteSet(s) /\ \A i \in s : i \in Int /\ E[i].at \in Int
    BY <1>1, FS_Subset DEF IsEvents
  <2> QED BY <2>1, LatestIs
<1>4. \A x \in D, a \in Credits(D) : F[x][a] = Take(t, E[x], a, x) /\ F[x][a] \in Credits(D)
  BY TakeIs
<1>5. Credit(t, E, rem) = fold[D] BY DEF Credit, MapThenFoldSet
<1>6. \E g \in [SUBSET D -> Credits(D)] : Folds(g)
  <2> HIDE DEF base, c, F
  <2>1. PICK g \in [SUBSET D -> Credits(D)] : \A s \in SUBSET D :
              g[s] = IF s = {} THEN base ELSE F[c[s]][g[s \ {c[s]}]]
    <3>1. /\ \A s \in SUBSET D : s # {} => c[s] \in s
          /\ \A x \in D, a \in Credits(D) : F[x][a] \in Credits(D)
      BY <1>3, <1>4
    <3> DEFINE A == Credits(D)
    <3>2. IsFiniteSet(D) /\ base \in A BY <1>1, <1>2
    <3>3. \A s \in SUBSET D : s # {} => c[s] \in s BY <3>1
    <3>5. \A x \in D, a \in A : F[x][a] \in A BY <3>1
    <3>6. IsFiniteSet(D) BY <3>2
    <3>7. base \in A BY <3>2
    <3> HIDE DEF D, A
    <3>4. \E g \in [SUBSET D -> A] : IsFold(g, D, base, c, F)
      BY <3>6, <3>7, <3>3, <3>5, FoldExists
    <3> QED BY <3>4 DEF A, IsFold
  <2>2. \A s \in SUBSET D : g[s] = IF s = {} THEN base
               ELSE LET x == Latest(E, s) IN Take(t, E[x], g[s \ {x}], x)
    <3> SUFFICES ASSUME NEW s \in SUBSET D, s # {}
                 PROVE  g[s] = Take(t, E[Latest(E, s)], g[s \ {Latest(E, s)}], Latest(E, s))
      BY <2>1
    <3>1. c[s] = Latest(E, s) /\ c[s] \in D BY <1>3
    <3>2. g[s \ {c[s]}] \in Credits(D) OBVIOUS
    <3>3. g[s] = F[c[s]][g[s \ {c[s]}]] BY <2>1
    <3> QED BY <1>4, <3>1, <3>2, <3>3
  <2>3. g = [s \in SUBSET D |-> g[s]] OBVIOUS
  <2> QED BY <2>2, <2>3
<1>7. Folds(fold) BY <1>6
<1> HIDE DEF fold
<1>8. \A s \in SUBSET D : fold[s] = IF s = {} THEN base
               ELSE LET x == Latest(E, s) IN Take(t, E[x], fold[s \ {x}], x)
  BY <1>7
<1> DEFINE P == {s \in SUBSET D : /\ AfterOffer(t, E, rem, s, fold[s])
                                  /\ \A time \in Int : Conserved(t, E, rem, s, fold[s], time)}
<1>9. ASSUME NEW s \in SUBSET D, \A x \in s : s \ {x} \in P PROVE s \in P
  <2>1. CASE s = {}
    <3>1. fold[s] = base BY <1>8, <2>1
    <3>2. AfterOffer(t, E, rem, {}, base)
      <4>1. \A k \in DOMAIN E : base.rem[k] <= rem[k] /\ base.rem[k] = rem[k] OBVIOUS
      <4>2. {k \in {} : E[k].at >= Floor(t) /\ E[k].at <= base.last} = {} OBVIOUS
      <4>3. SumFunctionOnSet(rem, {}) = 0 BY SumZero, FS_EmptySet
      <4>4. base.out + base.delta = Outstanding(t) BY OutstandingNat
      <4>5. base.delta = 0 OBVIOUS
      <4> HIDE DEF base
      <4> QED BY <1>2, <4>1, <4>2, <4>3, <4>4, <4>5 DEF AfterOffer
    <3>3. ASSUME NEW time \in Int PROVE Conserved(t, E, rem, {}, base, time)
      <4>1. SumFunctionOnSet(rem, From(E, D, time)) \in Nat
        <5>1. From(E, D, time) \in SUBSET D BY DEF From
        <5>2. IsFiniteSet(From(E, D, time)) BY <1>1, <5>1, FS_Subset
        <5> QED BY <5>1, <5>2, SumNat
      <4> QED BY <4>1 DEF Conserved
    <3> HIDE DEF base
    <3> QED BY <2>1, <3>1, <3>2, <3>3
  <2>2. CASE s # {}
    <3> DEFINE x == Latest(E, s)
    <3>1. x \in s /\ \A j \in s : E[j].at <= E[x].at BY <1>3, <2>2
    <3>2. s \ {x} \in P BY <1>9, <3>1
    <3>3. fold[s] = Take(t, E[x], fold[s \ {x}], x) BY <1>8, <2>2
    <3> HIDE DEF x
    <3> DEFINE acc == fold[s \ {x}]
    <3>4. AfterOffer(t, E, rem, s \ {x}, acc)
          /\ \A time \in Int : Conserved(t, E, rem, s \ {x}, acc, time)
      BY <3>2
    <3> HIDE DEF P, acc
    <3>5. AfterOffer(t, E, rem, s, Take(t, E[x], acc, x)) BY <3>1, <3>4, AfterOfferStep
    <3>6. ASSUME NEW time \in Int PROVE Conserved(t, E, rem, s, Take(t, E[x], acc, x), time)
      BY <3>1, <3>4, ConservedStep
    <3> QED BY <3>3, <3>5, <3>6 DEF P, acc
  <2> QED BY <2>1, <2>2
<1> HIDE DEF P
<1>10. D \in SUBSET D /\ \A s \in SUBSET D : s \in P BY <1>1, <1>9, SetInduction
<1> QED BY <1>5, <1>10 DEF P

---------------------------------------------------------------------------
(* Every transfer in turn                                                  *)

IsTransfers(T) ==
    IsFiniteSet(DOMAIN T) /\ \A i \in DOMAIN T : i \in Int /\ IsTransfer(T[i])

Decisions == [delta : Nat, last : Int, full : BOOLEAN]
Matchings(T, E) == [rem : [DOMAIN E -> Nat], out : [DOMAIN T -> Decisions]]

\* The transfers of a set that may use only events from a time on.
Due(T, s, time) == {i \in s : Floor(T[i]) >= time}

\* After the transfers of s: nobody has more than it lacks, nor more than the events
\* it may use brought up to the last it took from.
Bounded(T, E, s, acc) ==
    /\ acc \in Matchings(T, E)
    /\ \A k \in DOMAIN E : acc.rem[k] <= E[k].qty
    /\ \A i \in DOMAIN T :
          /\ acc.out[i].delta <= Outstanding(T[i])
          /\ i \notin s => acc.out[i].delta = 0
          /\ acc.out[i].delta > 0 =>
                \E k \in DOMAIN E : E[k].at >= Floor(T[i]) /\ acc.out[i].last = E[k].at
          /\ acc.out[i].delta <= SumFunctionOnSet(Quantities(E),
                {k \in DOMAIN E : E[k].at >= Floor(T[i]) /\ E[k].at <= acc.out[i].last})

\* What was credited to those who may use only events from a time on, and what is
\* left of these events; all that arrived is one or the other when no older transfer
\* had to reach into these events.
Balanced(T, E, s, acc, time) ==
    LET given == SumFunctionOnSet(Deltas(acc.out), Due(T, s, time))
        left == SumFunctionOnSet(acc.rem, From(E, DOMAIN E, time))
        all == SumFunctionOnSet(Quantities(E), From(E, DOMAIN E, time))
    IN  /\ given + left <= all
        /\ (\A i \in s : Floor(T[i]) < time =>
               \E k \in DOMAIN E : E[k].at >= Floor(T[i]) /\ E[k].at < time /\ acc.rem[k] > 0)
             => given + left = all

\* Who is still short has left nothing, and no younger one had it.
Served(T, E, s, acc) ==
    /\ \A i \in s : acc.out[i].delta < Outstanding(T[i]) =>
          \A k \in DOMAIN E : E[k].at >= Floor(T[i]) => acc.rem[k] = 0
    /\ \A i, j \in s :
          T[i].at < T[j].at /\ acc.out[i].delta < Outstanding(T[i]) /\ acc.out[j].delta > 0
          => acc.out[j].last < Floor(T[i])

\* What MatchStep does: the offer to x of what is left.
LEMMA MatchStepIs ==
    ASSUME NEW T, IsTransfers(T), NEW E, IsEvents(E), NEW x \in DOMAIN T,
           NEW acc \in Matchings(T, E)
    PROVE  LET credit == Credit(T[x], E, acc.rem)
               now1 == MatchStep(T, E, x, acc)
           IN  /\ now1 \in Matchings(T, E)
               /\ credit.delta \in Nat /\ credit.rem \in [DOMAIN E -> Nat]
               /\ now1.rem = credit.rem
               /\ now1.out[x].delta = credit.delta /\ now1.out[x].last = credit.last
               /\ \A i \in DOMAIN T : i # x => now1.out[i] = acc.out[i]
               /\ AfterOffer(T[x], E, acc.rem, DOMAIN E, credit)
               /\ \A time \in Int : Conserved(T[x], E, acc.rem, DOMAIN E, credit, time)
<1> DEFINE credit == Credit(T[x], E, acc.rem)
           decision == Decision(T[x], credit)
<1>1. acc.rem \in [DOMAIN E -> Nat] /\ acc.out \in [DOMAIN T -> Decisions] BY DEF Matchings
<1>2. IsTransfer(T[x]) BY DEF IsTransfers
<1>3. /\ AfterOffer(T[x], E, acc.rem, DOMAIN E, credit)
      /\ \A time \in Int : Conserved(T[x], E, acc.rem, DOMAIN E, credit, time)
  BY <1>1, <1>2, CreditIs
<1> HIDE DEF credit
<1>4. credit.delta \in Nat /\ credit.last \in Int /\ credit.rem \in [DOMAIN E -> Nat]
  BY <1>3 DEF AfterOffer, Credits
<1>5. decision \in Decisions /\ decision.delta = credit.delta /\ decision.last = credit.last
  BY <1>4 DEF Decision, Decisions
<1> HIDE DEF decision
<1>6. MatchStep(T, E, x, acc) = [rem |-> credit.rem, out |-> [acc.out EXCEPT ![x] = decision]]
  BY DEF MatchStep, credit, decision
<1>7. /\ [acc.out EXCEPT ![x] = decision] \in [DOMAIN T -> Decisions]
      /\ [acc.out EXCEPT ![x] = decision][x] = decision
      /\ \A i \in DOMAIN T : i # x => [acc.out EXCEPT ![x] = decision][i] = acc.out[i]
  BY <1>1, <1>5
<1>8. MatchStep(T, E, x, acc) \in Matchings(T, E)
  BY <1>4, <1>6, <1>7 DEF Matchings
<1>9. /\ MatchStep(T, E, x, acc).rem = credit.rem
      /\ MatchStep(T, E, x, acc).out = [acc.out EXCEPT ![x] = decision]
  BY <1>6
<1> QED BY <1>3, <1>4, <1>5, <1>7, <1>8, <1>9 DEF credit

LEMMA BoundedStep ==
    ASSUME NEW T, IsTransfers(T), NEW E, IsEvents(E), NEW s \in SUBSET DOMAIN T,
           NEW x \in s, NEW acc, Bounded(T, E, s \ {x}, acc)
    PROVE  Bounded(T, E, s, MatchStep(T, E, x, acc))
<1> DEFINE credit == Credit(T[x], E, acc.rem)
           new == MatchStep(T, E, x, acc)
           Upto(last) == {k \in DOMAIN E : E[k].at >= Floor(T[x]) /\ E[k].at <= last}
<1>1. acc \in Matchings(T, E) /\ x \in DOMAIN T BY DEF Bounded
<1>2. /\ new \in Matchings(T, E)
      /\ credit.delta \in Nat /\ new.rem = credit.rem
      /\ new.out[x].delta = credit.delta /\ new.out[x].last = credit.last
      /\ \A i \in DOMAIN T : i # x => new.out[i] = acc.out[i]
      /\ AfterOffer(T[x], E, acc.rem, DOMAIN E, credit)
  BY <1>1, MatchStepIs
<1>3. /\ acc.rem \in [DOMAIN E -> Nat]
      /\ \A k \in DOMAIN E : acc.rem[k] \in Nat /\ acc.rem[k] <= E[k].qty
      /\ \A k \in DOMAIN E : E[k].qty \in Nat /\ Quantities(E)[k] = E[k].qty
  BY <1>1 DEF Matchings, Bounded, IsEvents, Quantities
<1> HIDE DEF credit, new
<1>4. /\ credit.out \in Nat /\ credit.out + credit.delta = Outstanding(T[x])
      /\ \A k \in DOMAIN E : credit.rem[k] \in Nat /\ credit.rem[k] <= acc.rem[k]
      /\ credit.delta > 0 =>
            \E k \in DOMAIN E : E[k].at >= Floor(T[x]) /\ acc.rem[k] > 0 /\ credit.last = E[k].at
      /\ credit.delta <= SumFunctionOnSet(acc.rem, Upto(credit.last))
  BY <1>2 DEF AfterOffer, Credits
<1>5. Outstanding(T[x]) \in Nat BY <1>1, OutstandingNat DEF IsTransfers
<1>6. \A k \in DOMAIN E : new.rem[k] <= E[k].qty
  <2> SUFFICES ASSUME NEW k \in DOMAIN E PROVE new.rem[k] <= E[k].qty
    OBVIOUS
  <2>1. new.rem[k] = credit.rem[k] BY <1>2
  <2> QED BY <1>3, <1>4, <2>1
<1>7. credit.delta <= SumFunctionOnSet(Quantities(E), Upto(credit.last))
  <2> DEFINE U == Upto(credit.last)
             f == acc.rem
             g == Quantities(E)
  <2>1. U \in SUBSET DOMAIN E OBVIOUS
  <2>2. IsFiniteSet(U)
    <3> HIDE DEF U
    <3> QED BY <2>1, FS_Subset DEF IsEvents
  <2>3. \A k \in DOMAIN E : g[k] \in Nat /\ f[k] \in Nat /\ f[k] <= g[k] BY <1>3
  <2> HIDE DEF U, f, g
  <2>4. SumFunctionOnSet(f, U) <= SumFunctionOnSet(g, U) BY <2>1, <2>2, <2>3, SumGrows
  <2>5. SumFunctionOnSet(f, U) \in Nat /\ SumFunctionOnSet(g, U) \in Nat
    <3>1. SumFunctionOnSet(f, U) \in Nat BY <2>1, <2>2, <2>3, SumNat
    <3>2. SumFunctionOnSet(g, U) \in Nat BY <2>1, <2>2, <2>3, SumNat
    <3> QED BY <3>1, <3>2
  <2>6. credit.delta <= SumFunctionOnSet(f, U) BY <1>4 DEF f, U
  <2> QED BY <1>2, <2>4, <2>5, <2>6 DEF g, U
<1>8. ASSUME NEW i \in DOMAIN T
      PROVE  /\ new.out[i].delta <= Outstanding(T[i])
             /\ i \notin s => new.out[i].delta = 0
             /\ new.out[i].delta > 0 =>
                   \E k \in DOMAIN E : E[k].at >= Floor(T[i]) /\ new.out[i].last = E[k].at
             /\ new.out[i].delta <= SumFunctionOnSet(Quantities(E),
                   {k \in DOMAIN E : E[k].at >= Floor(T[i]) /\ E[k].at <= new.out[i].last})
  <2>1. CASE i = x
    <3>1. new.out[i].delta <= Outstanding(T[i]) BY <1>2, <1>4, <1>5, <2>1
    <3>2. new.out[i].delta > 0 =>
             \E k \in DOMAIN E : E[k].at >= Floor(T[i]) /\ new.out[i].last = E[k].at
      BY <1>2, <1>4, <2>1
    <3>3. new.out[i].delta <= SumFunctionOnSet(Quantities(E),
             {k \in DOMAIN E : E[k].at >= Floor(T[i]) /\ E[k].at <= new.out[i].last})
      BY <1>2, <1>7, <2>1
    <3> QED BY <2>1, <3>1, <3>2, <3>3
  <2>2. CASE i # x
    <3>1. new.out[i] = acc.out[i] BY <1>2, <2>2
    <3>2. /\ acc.out[i].delta <= Outstanding(T[i])
          /\ i \notin s \ {x} => acc.out[i].delta = 0
          /\ acc.out[i].delta > 0 =>
                \E k \in DOMAIN E : E[k].at >= Floor(T[i]) /\ acc.out[i].last = E[k].at
          /\ acc.out[i].delta <= SumFunctionOnSet(Quantities(E),
                {k \in DOMAIN E : E[k].at >= Floor(T[i]) /\ E[k].at <= acc.out[i].last})
      BY DEF Bounded
    <3> QED BY <2>2, <3>1, <3>2
  <2> QED BY <2>1, <2>2
<1> QED BY <1>2, <1>6, <1>8 DEF Bounded, new

LEMMA DueIs ==
    ASSUME NEW T, IsTransfers(T), NEW s \in SUBSET DOMAIN T, NEW time,
           NEW f, \A i \in DOMAIN T : f[i] \in Nat
    PROVE  /\ Due(T, s, time) \in SUBSET s /\ IsFiniteSet(Due(T, s, time))
           /\ SumFunctionOnSet(f, Due(T, s, time)) \in Nat
<1>1. Due(T, s, time) \in SUBSET s BY DEF Due
<1>2. IsFiniteSet(Due(T, s, time)) BY <1>1, FS_Subset DEF IsTransfers
<1>3. \A i \in Due(T, s, time) : f[i] \in Nat BY <1>1
<1> QED BY <1>1, <1>2, <1>3, SumNat

LEMMA FromIs ==
    ASSUME NEW E, IsEvents(E), NEW time, NEW f, \A k \in DOMAIN E : f[k] \in Nat
    PROVE  SumFunctionOnSet(f, From(E, DOMAIN E, time)) \in Nat
<1>1. From(E, DOMAIN E, time) \in SUBSET DOMAIN E BY DEF From
<1>2. IsFiniteSet(From(E, DOMAIN E, time)) BY <1>1, FS_Subset DEF IsEvents
<1>3. \A k \in From(E, DOMAIN E, time) : f[k] \in Nat BY <1>1
<1> QED BY <1>2, <1>3, SumNat

LEMMA BalancedStep ==
    ASSUME NEW T, IsTransfers(T), NEW E, IsEvents(E), NEW s \in SUBSET DOMAIN T,
           NEW x \in s, NEW acc, Bounded(T, E, s \ {x}, acc),
           NEW time \in Int, Balanced(T, E, s \ {x}, acc, time)
    PROVE  Balanced(T, E, s, MatchStep(T, E, x, acc), time)
<1> DEFINE credit == Credit(T[x], E, acc.rem)
           new == MatchStep(T, E, x, acc)
           F == Floor(T[x])
           old == s \ {x}
           delta == Deltas(acc.out)
           delta1 == Deltas(new.out)
           given == SumFunctionOnSet(delta, Due(T, old, time))
           given1 == SumFunctionOnSet(delta1, Due(T, s, time))
           left == SumFunctionOnSet(acc.rem, From(E, DOMAIN E, time))
           left1 == SumFunctionOnSet(new.rem, From(E, DOMAIN E, time))
           all == SumFunctionOnSet(Quantities(E), From(E, DOMAIN E, time))
<1>1. acc \in Matchings(T, E) /\ x \in DOMAIN T BY DEF Bounded
<1>2. /\ new \in Matchings(T, E)
      /\ credit.delta \in Nat /\ new.rem = credit.rem
      /\ new.out[x].delta = credit.delta
      /\ \A i \in DOMAIN T : i # x => new.out[i] = acc.out[i]
      /\ AfterOffer(T[x], E, acc.rem, DOMAIN E, credit)
      /\ Conserved(T[x], E, acc.rem, DOMAIN E, credit, time)
  BY <1>1, MatchStepIs
<1>3. F \in Int
  <2>1. IsTransfer(T[x]) BY <1>1 DEF IsTransfers
  <2> QED BY <2>1 DEF IsTransfer, Floor, Never
<1> HIDE DEF credit, new
<1>4. /\ left1 <= left /\ left <= left1 + credit.delta
      /\ F >= time => left = left1 + credit.delta
      /\ (\E k \in DOMAIN E : E[k].at >= F /\ E[k].at < time /\ new.rem[k] > 0)
            => left = left1
  BY <1>2 DEF Conserved
<1>5. /\ \A k \in DOMAIN E : acc.rem[k] \in Nat /\ new.rem[k] \in Nat /\ new.rem[k] <= acc.rem[k]
      /\ \A k \in DOMAIN E : Quantities(E)[k] \in Nat
  BY <1>1, <1>2 DEF AfterOffer, Matchings, Quantities, IsEvents
<1>6. /\ \A i \in DOMAIN T : delta[i] = acc.out[i].delta /\ delta[i] \in Nat
      /\ \A i \in DOMAIN T : delta1[i] = new.out[i].delta /\ delta1[i] \in Nat
  BY <1>1, <1>2 DEF Matchings, Deltas, Decisions
<1> HIDE DEF delta, delta1
<1>7. /\ delta1[x] = credit.delta
      /\ \A i \in DOMAIN T : i # x => delta1[i] = delta[i]
  BY <1>1, <1>2, <1>6
<1>8. given \in Nat /\ given1 \in Nat /\ left \in Nat /\ left1 \in Nat /\ all \in Nat
  <2>1. given \in Nat /\ given1 \in Nat
    <3>1. old \in SUBSET DOMAIN T OBVIOUS
    <3>2. given \in Nat BY <1>6, <3>1, DueIs
    <3>3. given1 \in Nat BY <1>6, DueIs
    <3> QED BY <3>2, <3>3
  <2>2. left \in Nat BY <1>5, FromIs
  <2>3. left1 \in Nat BY <1>5, FromIs
  <2>4. all \in Nat BY <1>5, FromIs
  <2> QED BY <2>1, <2>2, <2>3, <2>4
<1>9. /\ given + left <= all
      /\ (\A i \in old : Floor(T[i]) < time =>
             \E k \in DOMAIN E : E[k].at >= Floor(T[i]) /\ E[k].at < time /\ acc.rem[k] > 0)
           => given + left = all
  BY DEF Balanced, delta
<1>10. SumFunctionOnSet(delta1, Due(T, old, time)) = given
  <2> DEFINE U == Due(T, old, time)
  <2>1. U \in SUBSET old /\ IsFiniteSet(U)
    <3>1. old \in SUBSET DOMAIN T OBVIOUS
    <3> QED BY <1>6, <3>1, DueIs
  <2> HIDE DEF U
  <2>2. \A i \in U : delta1[i] \in Nat /\ delta1[i] = delta[i] BY <1>6, <1>7, <2>1
  <2>3. SumFunctionOnSet(delta1, U) = SumFunctionOnSet(delta, U) BY <2>1, <2>2, SumSame
  <2> QED BY <2>3 DEF U
<1>11. given1 = IF F >= time THEN given + credit.delta ELSE given
  <2>1. CASE F >= time
    <3> DEFINE U == Due(T, s, time)
    <3>1. x \in U /\ U \ {x} = Due(T, old, time) BY <2>1 DEF Due
    <3>2. IsFiniteSet(U) /\ \A i \in U : delta1[i] \in Nat
      <4>1. U \in SUBSET s /\ IsFiniteSet(U) BY <1>6, DueIs
      <4> QED BY <1>6, <4>1
    <3> HIDE DEF U
    <3>3. SumFunctionOnSet(delta1, U) = delta1[x] + SumFunctionOnSet(delta1, U \ {x})
      BY <3>1, <3>2, SumSplit
    <3>4. SumFunctionOnSet(delta1, U \ {x}) = given BY <1>10, <3>1
    <3>5. SumFunctionOnSet(delta1, U) = given1 BY DEF U
    <3> HIDE DEF given, given1
    <3> QED BY <1>2, <1>7, <1>8, <2>1, <3>3, <3>4, <3>5
  <2>2. CASE ~(F >= time)
    <3>1. Due(T, s, time) = Due(T, old, time) BY <2>2 DEF Due
    <3> QED BY <1>10, <2>2, <3>1
  <2> QED BY <2>1, <2>2
<1> HIDE DEF given, given1, left, left1, all
<1>12. given1 + left1 <= all
  BY <1>2, <1>4, <1>8, <1>9, <1>11
<1>13. ASSUME \A i \in s : Floor(T[i]) < time =>
                 \E k \in DOMAIN E : E[k].at >= Floor(T[i]) /\ E[k].at < time /\ new.rem[k] > 0
       PROVE  given1 + left1 = all
  <2>1. \A i \in old : Floor(T[i]) < time =>
             \E k \in DOMAIN E : E[k].at >= Floor(T[i]) /\ E[k].at < time /\ acc.rem[k] > 0
    <3> SUFFICES ASSUME NEW i \in old, Floor(T[i]) < time
                 PROVE \E k \in DOMAIN E : E[k].at >= Floor(T[i]) /\ E[k].at < time /\ acc.rem[k] > 0
      OBVIOUS
    <3>1. PICK k \in DOMAIN E : E[k].at >= Floor(T[i]) /\ E[k].at < time /\ new.rem[k] > 0
      BY <1>13
    <3>2. acc.rem[k] > 0 BY <1>5, <3>1
    <3> QED BY <3>1, <3>2
  <2>2. given + left = all BY <1>9, <2>1
  <2>3. CASE F >= time
    <3>1. given1 = given + credit.delta BY <1>11, <2>3
    <3>2. left = left1 + credit.delta BY <1>4, <2>3
    <3>3. credit.delta \in Nat BY <1>2
    <3> QED BY <1>8, <2>2, <3>1, <3>2, <3>3
  <2>4. CASE ~(F >= time)
    <3>1. F < time BY <1>3, <2>4
    <3>2. \E k \in DOMAIN E : E[k].at >= F /\ E[k].at < time /\ new.rem[k] > 0
      BY <1>13, <3>1
    <3>3. left = left1 BY <1>4, <3>2
    <3> QED BY <1>11, <2>2, <2>4, <3>3
  <2> QED BY <2>3, <2>4
<1> QED BY <1>12, <1>13 DEF Balanced, given1, left1, all, delta1, new

LEMMA ServedStep ==
    ASSUME NEW T, IsTransfers(T), NEW E, IsEvents(E), NEW s \in SUBSET DOMAIN T,
           NEW x \in s, \A j \in s : T[j].at <= T[x].at,
           NEW acc, Bounded(T, E, s \ {x}, acc), Served(T, E, s \ {x}, acc)
    PROVE  Served(T, E, s, MatchStep(T, E, x, acc))
<1> DEFINE credit == Credit(T[x], E, acc.rem)
           new == MatchStep(T, E, x, acc)
<1>1. acc \in Matchings(T, E) /\ x \in DOMAIN T BY DEF Bounded
<1>2. /\ credit.delta \in Nat /\ new.rem = credit.rem
      /\ new.out[x].delta = credit.delta /\ new.out[x].last = credit.last
      /\ \A i \in DOMAIN T : i # x => new.out[i] = acc.out[i]
      /\ AfterOffer(T[x], E, acc.rem, DOMAIN E, credit)
  BY <1>1, MatchStepIs
<1> HIDE DEF credit, new
<1>3. /\ credit.out \in Nat /\ credit.out + credit.delta = Outstanding(T[x])
      /\ \A k \in DOMAIN E : credit.rem[k] \in Nat /\ credit.rem[k] <= acc.rem[k]
      /\ (\E k \in DOMAIN E : E[k].at >= Floor(T[x]) /\ credit.rem[k] > 0) => credit.out = 0
      /\ credit.delta > 0 =>
            \E k \in DOMAIN E : E[k].at >= Floor(T[x]) /\ acc.rem[k] > 0 /\ credit.last = E[k].at
  BY <1>2 DEF AfterOffer, Credits
<1>4. /\ \A k \in DOMAIN E : acc.rem[k] \in Nat /\ E[k].at \in Int
      /\ \A i \in DOMAIN T : T[i].at \in Int /\ Floor(T[i]) \in Int
  <2>1. \A i \in DOMAIN T : IsTransfer(T[i]) BY DEF IsTransfers
  <2> QED BY <1>1, <2>1 DEF Matchings, IsEvents, IsTransfer, Floor, Never
<1>5. /\ \A i \in s \ {x} : acc.out[i].delta < Outstanding(T[i]) =>
            \A k \in DOMAIN E : E[k].at >= Floor(T[i]) => acc.rem[k] = 0
      /\ \A i, j \in s \ {x} :
            T[i].at < T[j].at /\ acc.out[i].delta < Outstanding(T[i]) /\ acc.out[j].delta > 0
            => acc.out[j].last < Floor(T[i])
  BY DEF Served
<1>6. ASSUME NEW i \in s, new.out[i].delta < Outstanding(T[i]),
             NEW k \in DOMAIN E, E[k].at >= Floor(T[i])
      PROVE  new.rem[k] = 0
  <2>1. CASE i = x
    <3>1. credit.out # 0 BY <1>2, <1>3, <1>6, <2>1
    <3>2. ~(credit.rem[k] > 0) BY <1>3, <1>6, <2>1, <3>1
    <3> QED BY <1>2, <1>3, <3>2
  <2>2. CASE i # x
    <3>1. acc.out[i].delta < Outstanding(T[i]) BY <1>2, <1>6, <2>2
    <3>2. acc.rem[k] = 0 BY <1>5, <1>6, <2>2, <3>1
    <3> QED BY <1>2, <1>3, <1>4, <3>2
  <2> QED BY <2>1, <2>2
<1>7. ASSUME NEW i \in s, NEW j \in s, T[i].at < T[j].at,
             new.out[i].delta < Outstanding(T[i]), new.out[j].delta > 0
      PROVE  new.out[j].last < Floor(T[i])
  <2>1. i # x
    <3>1. T[j].at <= T[x].at /\ T[i].at \in Int /\ T[j].at \in Int /\ T[x].at \in Int
      BY <1>1, <1>4
    <3> QED BY <1>7, <3>1
  <2>2. acc.out[i].delta < Outstanding(T[i]) BY <1>2, <1>7, <2>1
  <2>3. CASE j = x
    <3>1. credit.delta > 0 BY <1>2, <1>7, <2>3
    <3>2. PICK k \in DOMAIN E : acc.rem[k] > 0 /\ credit.last = E[k].at BY <1>3, <3>1
    <3>3. ~(E[k].at >= Floor(T[i])) BY <1>4, <1>5, <2>1, <2>2, <3>2
    <3> QED BY <1>2, <1>4, <2>3, <3>2, <3>3
  <2>4. CASE j # x
    <3>1. new.out[j] = acc.out[j] BY <1>2, <2>4
    <3> QED BY <1>5, <1>7, <2>1, <2>2, <2>4, <3>1
  <2> QED BY <2>3, <2>4
<1> QED BY <1>6, <1>7 DEF Served, new

\* What holds after every transfer's turn.
LEMMA MatchingIs ==
    ASSUME NEW T, IsTransfers(T), NEW E, IsEvents(E)
    PROVE  \E acc \in Matchings(T, E) :
              /\ Match(T, E) = acc.out
              /\ Bounded(T, E, DOMAIN T, acc) /\ Served(T, E, DOMAIN T, acc)
              /\ \A time \in Int : Balanced(T, E, DOMAIN T, acc, time)
<1> DEFINE D == DOMAIN T
           A == Matchings(T, E)
           undecided == [delta |-> 0, last |-> Never, full |-> FALSE]
           base == [rem |-> Quantities(E), out |-> [i \in DOMAIN T |-> undecided]]
           Folds(g) == g = [s \in SUBSET D |->
               IF s = {} THEN base
               ELSE LET x == Latest(T, s) IN MatchStep(T, E, x, g[s \ {x}])]
           fold == CHOOSE g : Folds(g)
           c == [s \in SUBSET D |-> Latest(T, s)]
           F == [x \in D |-> [a \in A |-> MatchStep(T, E, x, a)]]
<1>1. IsFiniteSet(D) BY DEF IsTransfers
<1>2. base \in A
  <2>1. undecided \in Decisions BY DEF Decisions, Never
  <2>2. Quantities(E) \in [DOMAIN E -> Nat] BY DEF Quantities, IsEvents
  <2> HIDE DEF undecided
  <2> QED BY <2>1, <2>2 DEF Matchings
<1>3. \A s \in SUBSET D : s # {} =>
         c[s] = Latest(T, s) /\ Latest(T, s) \in s /\ \A j \in s : T[j].at <= T[Latest(T, s)].at
  <2> SUFFICES ASSUME NEW s \in SUBSET D, s # {}
               PROVE  Latest(T, s) \in s /\ \A j \in s : T[j].at <= T[Latest(T, s)].at
    OBVIOUS
  <2>1. IsFiniteSet(s) /\ \A i \in s : i \in Int /\ T[i].at \in Int
    BY <1>1, FS_Subset DEF IsTransfers, IsTransfer
  <2> QED BY <2>1, LatestIs
<1>4. \A x \in D, a \in A : F[x][a] = MatchStep(T, E, x, a) /\ F[x][a] \in A
  BY MatchStepIs
<1>5. Match(T, E) = fold[D].out BY DEF Match, MapThenFoldSet
<1>6. \E g \in [SUBSET D -> A] : Folds(g)
  <2> HIDE DEF base, c, F
  <2>1. \E g \in [SUBSET D -> A] : IsFold(g, D, base, c, F)
    <3>1. \A s \in SUBSET D : s # {} => c[s] \in s BY <1>3
    <3>2. \A x \in D, a \in A : F[x][a] \in A BY <1>4
    <3> HIDE DEF D, A
    <3> QED BY <1>1, <1>2, <3>1, <3>2, FoldExists
  <2>2. PICK g \in [SUBSET D -> A] : \A s \in SUBSET D :
              g[s] = IF s = {} THEN base ELSE F[c[s]][g[s \ {c[s]}]]
    BY <2>1 DEF IsFold
  <2>3. \A s \in SUBSET D : g[s] = IF s = {} THEN base
               ELSE LET x == Latest(T, s) IN MatchStep(T, E, x, g[s \ {x}])
    <3> SUFFICES ASSUME NEW s \in SUBSET D, s # {}
                 PROVE  g[s] = MatchStep(T, E, Latest(T, s), g[s \ {Latest(T, s)}])
      BY <2>2
    <3>1. c[s] = Latest(T, s) /\ c[s] \in D BY <1>3
    <3>2. g[s \ {c[s]}] \in A OBVIOUS
    <3>3. g[s] = F[c[s]][g[s \ {c[s]}]] BY <2>2
    <3> QED BY <1>4, <3>1, <3>2, <3>3
  <2>4. g = [s \in SUBSET D |-> g[s]] OBVIOUS
  <2> QED BY <2>3, <2>4
<1>7. Folds(fold) BY <1>6
<1> HIDE DEF fold
<1>8. \A s \in SUBSET D : fold[s] = IF s = {} THEN base
               ELSE LET x == Latest(T, s) IN MatchStep(T, E, x, fold[s \ {x}])
  BY <1>7
<1>9. /\ \A i \in DOMAIN T : IsTransfer(T[i]) /\ Outstanding(T[i]) \in Nat
      /\ \A k \in DOMAIN E : E[k].qty \in Nat /\ Quantities(E)[k] = E[k].qty
  <2>1. \A i \in DOMAIN T : IsTransfer(T[i]) BY DEF IsTransfers
  <2>2. \A i \in DOMAIN T : Outstanding(T[i]) \in Nat BY <2>1, OutstandingNat
  <2> QED BY <2>1, <2>2 DEF IsEvents, Quantities
<1> DEFINE Good(s) == /\ Bounded(T, E, s, fold[s]) /\ Served(T, E, s, fold[s])
                      /\ \A time \in Int : Balanced(T, E, s, fold[s], time)
           P == {s \in SUBSET D : Good(s)}
<1>10. ASSUME NEW s \in SUBSET D, \A x \in s : s \ {x} \in P PROVE Good(s)
  <2>1. CASE s = {}
    <3>1. fold[s] = base BY <1>8, <2>1
    <3>2. Bounded(T, E, {}, base)
      <4>1. /\ base.rem = Quantities(E)
            /\ \A i \in DOMAIN T : base.out[i].delta = 0 /\ base.out[i].last = Never
        OBVIOUS
      <4> HIDE DEF base
      <4>2. ASSUME NEW i \in DOMAIN T
            PROVE 0 <= SumFunctionOnSet(Quantities(E),
                {k \in DOMAIN E : E[k].at >= Floor(T[i]) /\ E[k].at <= base.out[i].last})
        <5> DEFINE U == {k \in DOMAIN E : E[k].at >= Floor(T[i]) /\ E[k].at <= base.out[i].last}
                   q == Quantities(E)
        <5>1. U \in SUBSET DOMAIN E OBVIOUS
        <5>2. \A k \in DOMAIN E : q[k] \in Nat BY <1>9
        <5> HIDE DEF U, q
        <5>3. IsFiniteSet(U) /\ \A k \in U : q[k] \in Nat
          BY <5>1, <5>2, FS_Subset DEF IsEvents
        <5>4. SumFunctionOnSet(q, U) \in Nat BY <5>3, SumNat
        <5>5. 0 <= SumFunctionOnSet(q, U) BY <5>4
        <5> QED BY <5>5 DEF q, U
      <4>3. \A k \in DOMAIN E : base.rem[k] <= E[k].qty BY <1>9, <4>1
      <4>4. ASSUME NEW i \in DOMAIN T
            PROVE /\ base.out[i].delta <= Outstanding(T[i])
                  /\ base.out[i].delta = 0
                  /\ ~(base.out[i].delta > 0)
                  /\ base.out[i].delta <= SumFunctionOnSet(Quantities(E),
                      {k \in DOMAIN E : E[k].at >= Floor(T[i]) /\ E[k].at <= base.out[i].last})
        BY <1>9, <4>1, <4>2
      <4> QED BY <1>2, <4>3, <4>4 DEF Bounded
    <3>3. Served(T, E, {}, base) BY DEF Served
    <3>4. ASSUME NEW time \in Int PROVE Balanced(T, E, {}, base, time)
      <4>1. Due(T, {}, time) = {} BY DEF Due
      <4>2. SumFunctionOnSet(Deltas(base.out), {}) = 0 BY SumZero, FS_EmptySet
      <4>3. SumFunctionOnSet(Quantities(E), From(E, DOMAIN E, time)) \in Nat
        <5>1. \A k \in DOMAIN E : Quantities(E)[k] \in Nat BY <1>9
        <5> QED BY <5>1, FromIs
      <4>4. base.rem = Quantities(E) OBVIOUS
      <4> HIDE DEF base
      <4> QED BY <4>1, <4>2, <4>3, <4>4 DEF Balanced
    <3> HIDE DEF base
    <3> QED BY <2>1, <3>1, <3>2, <3>3, <3>4
  <2>2. CASE s # {}
    <3> DEFINE x == Latest(T, s)
    <3>1. x \in s /\ \A j \in s : T[j].at <= T[x].at BY <1>3, <2>2
    <3>2. s \ {x} \in P BY <1>10, <3>1
    <3>3. fold[s] = MatchStep(T, E, x, fold[s \ {x}]) BY <1>8, <2>2
    <3> HIDE DEF x
    <3> DEFINE acc == fold[s \ {x}]
    <3>4. /\ Bounded(T, E, s \ {x}, acc) /\ Served(T, E, s \ {x}, acc)
          /\ \A time \in Int : Balanced(T, E, s \ {x}, acc, time)
      BY <3>2
    <3> HIDE DEF P, acc
    <3>5. Bounded(T, E, s, MatchStep(T, E, x, acc)) BY <3>1, <3>4, BoundedStep
    <3>6. Served(T, E, s, MatchStep(T, E, x, acc)) BY <3>1, <3>4, ServedStep
    <3>7. ASSUME NEW time \in Int PROVE Balanced(T, E, s, MatchStep(T, E, x, acc), time)
      BY <3>1, <3>4, BalancedStep
    <3> QED BY <3>3, <3>5, <3>6, <3>7 DEF acc
  <2> QED BY <2>1, <2>2
<1> HIDE DEF Good
<1>11. \A s \in SUBSET D : (\A x \in s : s \ {x} \in P) => s \in P BY <1>10
<1> HIDE DEF P
<1>12. D \in SUBSET D /\ \A s \in SUBSET D : s \in P BY <1>1, <1>11, SetInduction
<1>13. Good(D) BY <1>12 DEF P
<1>14. fold[D] \in Matchings(T, E) BY <1>13 DEF Good, Bounded
<1> QED BY <1>5, <1>13, <1>14 DEF Good

\* A member of a finite set at which f is least.
LEMMA LeastIs ==
    ASSUME NEW S \in SUBSET Int, IsFiniteSet(S), S # {}, NEW f, \A i \in S : f[i] \in Int
    PROVE  \E m \in S : \A j \in S : f[m] <= f[j]
<1> DEFINE s == [i \in S |-> [at |-> 0 - f[i]]]
<1>1. \A i \in S : s[i].at = 0 - f[i] OBVIOUS
<1>2. \A i \in S : i \in Int /\ s[i].at \in Int BY <1>1
<1> HIDE DEF s
<1>3. Latest(s, S) \in S /\ \A j \in S : s[j].at <= s[Latest(s, S)].at BY <1>2, LatestIs
<1>4. \A j \in S : 0 - f[j] <= 0 - f[Latest(s, S)] BY <1>1, <1>3
<1>5. \A j \in S : f[Latest(s, S)] <= f[j]
  <2> DEFINE m == Latest(s, S)
  <2>1. m \in S /\ \A j \in S : 0 - f[j] <= 0 - f[m] BY <1>3, <1>4
  <2> HIDE DEF m
  <2>2. \A j \in S : f[m] <= f[j] BY <2>1
  <2> QED BY <2>2 DEF m
<1> QED BY <1>3, <1>5

\* _fifo_match_with_chronology is the first-in-first-out matching of all rows with all
\* events: it uses no unit twice and none that a row may not use, no other assignment
\* credits more units, and a younger row takes none that an older one could have had.
THEOREM MatchFifo ==
    ASSUME NEW T, IsTransfers(T), NEW E, IsEvents(E)
    PROVE  Fifo(T, E, Match(T, E))
<1> DEFINE D == DOMAIN T
           out == Match(T, E)
           delta == Deltas(out)
           lacking == Lacking(T)
<1>1. PICK acc \in Matchings(T, E) :
         /\ out = acc.out
         /\ Bounded(T, E, D, acc) /\ Served(T, E, D, acc)
         /\ \A time \in Int : Balanced(T, E, D, acc, time)
  BY MatchingIs
<1> HIDE DEF out
<1>2. /\ IsFiniteSet(D)
      /\ \A i \in D : i \in Int /\ IsTransfer(T[i]) /\ Outstanding(T[i]) \in Nat
                      /\ Floor(T[i]) \in Int /\ lacking[i] = Outstanding(T[i])
  <2>1. \A i \in D : IsTransfer(T[i]) /\ i \in Int BY DEF IsTransfers
  <2>2. \A i \in D : Outstanding(T[i]) \in Nat BY <2>1, OutstandingNat
  <2>3. \A i \in D : Floor(T[i]) \in Int BY <2>1 DEF IsTransfer, Floor, Never
  <2> QED BY <2>1, <2>2, <2>3 DEF IsTransfers, Lacking
<1>3. /\ DOMAIN out = D
      /\ \A i \in D : /\ delta[i] = out[i].delta /\ delta[i] \in Nat
                      /\ delta[i] <= Outstanding(T[i])
  BY <1>1 DEF Matchings, Decisions, Deltas, Bounded
<1> HIDE DEF delta, lacking
<1>4. /\ \A k \in DOMAIN E : acc.rem[k] \in Nat /\ E[k].at \in Int
      /\ \A k \in DOMAIN E : Quantities(E)[k] \in Nat
  BY DEF Matchings, IsEvents, Quantities
<1>5. ASSUME NEW time \in Int
      PROVE  /\ SumFunctionOnSet(delta, Due(T, D, time)) \in Nat
             /\ SumFunctionOnSet(acc.rem, From(E, DOMAIN E, time)) \in Nat
             /\ SumFunctionOnSet(Quantities(E), From(E, DOMAIN E, time)) \in Nat
             /\ ArrivedFrom(E, time) = SumFunctionOnSet(Quantities(E), From(E, DOMAIN E, time))
             /\ IsFiniteSet(Due(T, D, time)) /\ Due(T, D, time) \in SUBSET D
  <2>1. /\ SumFunctionOnSet(delta, Due(T, D, time)) \in Nat
        /\ IsFiniteSet(Due(T, D, time)) /\ Due(T, D, time) \in SUBSET D
    BY <1>3, DueIs
  <2>2. SumFunctionOnSet(acc.rem, From(E, DOMAIN E, time)) \in Nat BY <1>4, FromIs
  <2>3. SumFunctionOnSet(Quantities(E), From(E, DOMAIN E, time)) \in Nat BY <1>4, FromIs
  <2>4. ArrivedFrom(E, time) = SumFunctionOnSet(Quantities(E), From(E, DOMAIN E, time))
    BY DEF ArrivedFrom, From
  <2> QED BY <2>1, <2>2, <2>3, <2>4
<1>6. ASSUME NEW time \in Int
      PROVE  SumFunctionOnSet(delta, Due(T, D, time))
               + SumFunctionOnSet(acc.rem, From(E, DOMAIN E, time)) <= ArrivedFrom(E, time)
  <2>1. Balanced(T, E, D, acc, time) BY <1>1
  <2> QED BY <1>1, <1>5, <2>1 DEF Balanced, delta
<1>7. NoUnitTwice(T, E, out)
  <2> SUFFICES ASSUME NEW i \in D
               PROVE  /\ out[i].delta \in 0..Outstanding(T[i])
                      /\ SumFunctionOnSet(delta, Due(T, D, Floor(T[i])))
                           <= ArrivedFrom(E, Floor(T[i]))
    BY DEF NoUnitTwice, Due, delta
  <2>1. out[i].delta \in 0..Outstanding(T[i]) BY <1>2, <1>3
  <2>2. Floor(T[i]) \in Int BY <1>2
  <2> DEFINE time == Floor(T[i])
             given == SumFunctionOnSet(delta, Due(T, D, time))
             left == SumFunctionOnSet(acc.rem, From(E, DOMAIN E, time))
             all == ArrivedFrom(E, time)
  <2>3. given \in Nat /\ left \in Nat /\ all \in Nat BY <1>5, <2>2
  <2>4. given + left <= all BY <1>6, <2>2
  <2> HIDE DEF given, left, all
  <2>5. given <= all BY <2>3, <2>4
  <2> QED BY <2>1, <2>5 DEF given, all
<1>8. CreditsAllItCan(T, E, out)
  <2> DEFINE Dry(i) == \A k \in DOMAIN E : E[k].at >= Floor(T[i]) => acc.rem[k] = 0
             total == SumFunctionOnSet(delta, D)
  <2>1. \A i \in D : ~Dry(i) => delta[i] = lacking[i]
    <3> SUFFICES ASSUME NEW i \in D, ~Dry(i) PROVE delta[i] = lacking[i]
      OBVIOUS
    <3>1. acc.out[i].delta < Outstanding(T[i]) => Dry(i) BY <1>1 DEF Served
    <3> HIDE DEF Dry
    <3>2. ~(delta[i] < Outstanding(T[i])) BY <1>1, <1>3, <3>1
    <3> QED BY <1>2, <1>3, <3>2
  <2>2. CASE \A i \in D : ~Dry(i)
    <3> HIDE DEF Dry
    <3>1. \A i \in D : delta[i] \in Nat /\ delta[i] = lacking[i] BY <1>3, <2>1, <2>2
    <3> HIDE DEF D
    <3>2. SumFunctionOnSet(delta, D) = SumFunctionOnSet(lacking, D) BY <1>2, <3>1, SumSame
    <3> QED BY <3>2 DEF CreditsAllItCan, D, delta, lacking
  <2>3. CASE \E i \in D : Dry(i)
    <3> DEFINE S == {i \in D : Dry(i)}
               f == [i \in D |-> Floor(T[i])]
    <3>1. S \in SUBSET Int /\ S \in SUBSET D /\ S # {} /\ \A i \in S : f[i] \in Int
      BY <1>2, <2>3
    <3>2. PICK m \in S : \A j \in S : f[m] <= f[j]
      <4> HIDE DEF S, f
      <4>1. IsFiniteSet(S) BY <1>2, <3>1, FS_Subset
      <4> QED BY <3>1, <4>1, LeastIs
    <3> DEFINE time == Floor(T[m])
               Early == {j \in D : Floor(T[j]) < Floor(T[m])}
               Late == Due(T, D, time)
    <3>3. m \in D /\ Dry(m) /\ time \in Int BY <1>2
    <3>4. \A j \in Early : ~Dry(j)
      <4> SUFFICES ASSUME NEW j \in Early, Dry(j) PROVE FALSE
        OBVIOUS
      <4>1. j \in S OBVIOUS
      <4>2. f[m] <= f[j] BY <3>2, <4>1
      <4>3. Floor(T[m]) <= Floor(T[j]) BY <3>3, <4>1, <4>2
      <4> QED BY <1>2, <3>3, <4>3
    <3>5. SumFunctionOnSet(acc.rem, From(E, DOMAIN E, time)) = 0
      <4> DEFINE U == From(E, DOMAIN E, time)
                 r == acc.rem
      <4>1. U \in SUBSET DOMAIN E /\ \A k \in U : r[k] = 0 BY <3>3 DEF From
      <4> HIDE DEF U, r
      <4>2. IsFiniteSet(U) BY <4>1, FS_Subset DEF IsEvents
      <4>3. SumFunctionOnSet(r, U) = 0 BY <4>1, <4>2, SumZero
      <4> QED BY <4>3 DEF U, r
    <3>6. SumFunctionOnSet(delta, Late) = ArrivedFrom(E, time)
      <4>1. \A i \in D : Floor(T[i]) < time =>
               \E k \in DOMAIN E : E[k].at >= Floor(T[i]) /\ E[k].at < time /\ acc.rem[k] > 0
        <5> SUFFICES ASSUME NEW i \in D, Floor(T[i]) < time
                     PROVE \E k \in DOMAIN E :
                              E[k].at >= Floor(T[i]) /\ E[k].at < time /\ acc.rem[k] > 0
          OBVIOUS
        <5>1. ~Dry(i) BY <3>4
        <5>2. PICK k \in DOMAIN E : E[k].at >= Floor(T[i]) /\ acc.rem[k] # 0 BY <5>1
        <5>3. ~(E[k].at >= time) BY <3>3, <5>2
        <5>4. E[k].at < time /\ acc.rem[k] > 0 BY <1>4, <3>3, <5>2, <5>3
        <5> QED BY <5>2, <5>4
      <4>2. Balanced(T, E, D, acc, time) BY <1>1, <3>3
      <4> HIDE DEF time
      <4>3. SumFunctionOnSet(delta, Late) + SumFunctionOnSet(acc.rem, From(E, DOMAIN E, time))
              = SumFunctionOnSet(Quantities(E), From(E, DOMAIN E, time))
        BY <1>1, <4>1, <4>2 DEF Balanced, delta
      <4> QED BY <1>5, <3>3, <3>5, <4>3
    <3>7. IsFiniteSet(Early) /\ IsFiniteSet(Late) /\ Early \cap Late = {} /\ Early \cup Late = D
      <4>1. Early \in SUBSET D OBVIOUS
      <4>2. IsFiniteSet(Early)
        <5> HIDE DEF Early
        <5> QED BY <1>2, <4>1, FS_Subset
      <4>3. IsFiniteSet(Late) BY <1>5, <3>3
      <4>4. Early \cap Late = {} /\ Early \cup Late = D BY <1>2, <3>3 DEF Due
      <4> QED BY <4>2, <4>3, <4>4
    <3>8. \A j \in Early : delta[j] \in Nat /\ delta[j] = lacking[j]
      <4> HIDE DEF Dry
      <4> QED BY <1>3, <2>1, <3>4
    <3> HIDE DEF Early, Late, Dry, S, f
    <3>9. SumFunctionOnSet(delta, Early) = SumFunctionOnSet(lacking, Early)
      BY <3>7, <3>8, SumSame
    <3>10. SumFunctionOnSet(delta, D)
             = SumFunctionOnSet(delta, Early) + SumFunctionOnSet(delta, Late)
      <4>1. \A i \in Early \cup Late : delta[i] \in Nat BY <1>3, <3>7
      <4>2. SumFunctionOnSet(delta, Early \cup Late)
             = SumFunctionOnSet(delta, Early) + SumFunctionOnSet(delta, Late)
        BY <3>7, <4>1, SumUnion
      <4> QED BY <3>7, <4>2
    <3>11. SumFunctionOnSet(delta, D)
             = SumFunctionOnSet(lacking, Early) + ArrivedFrom(E, time)
      BY <3>6, <3>9, <3>10
    <3> QED BY <3>3, <3>11 DEF CreditsAllItCan, Early, delta, lacking
  <2> QED BY <2>2, <2>3
<1>9. OldestFirst(T, out)
  <2>1. \A i, j \in D :
          T[i].at < T[j].at /\ acc.out[i].delta < Outstanding(T[i]) /\ acc.out[j].delta > 0
          => acc.out[j].last < Floor(T[i])
    BY <1>1 DEF Served
  <2> QED BY <1>1, <2>1 DEF OldestFirst
<1> QED BY <1>7, <1>8, <1>9 DEF Fifo, out

---------------------------------------------------------------------------
(* The rows, the events and what the scans have read                       *)

Columns == {"status", "qty", "at", "got", "last"}
Locals == {"step", "doomed", "seen", "evs", "cutoff", "sourced", "stock"}

RowOK(r) ==
    /\ DOMAIN r = Columns
    /\ r.qty \in 0..MaxQty /\ r.got \in 0..r.qty /\ r.at \in Nat /\ r.last \in Int
    /\ r.status \in {"none", "pending", "received", "cancelled"}
    /\ r.status = "received" => r.got = r.qty
    /\ r.status = "pending" => r.got < r.qty

\* What a scan holds is such that Match can be asked for its decisions.
LocalOK(c) ==
    /\ DOMAIN c = Locals
    /\ DOMAIN c.seen \subseteq Ids /\ IsTransfers(c.seen) /\ IsEvents(c.evs)

\* The inductive invariant of Ledger.
LedgerInv ==
    /\ now \in Nat
    /\ events \in Seq([at : Nat, qty : Nat])
    /\ DOMAIN row = Ids /\ \A i \in Ids : RowOK(row[i])
    /\ DOMAIN scan = Scans /\ \A s \in Scans : LocalOK(scan[s])

\* The decisions over what a scan holds.
LEMMA DecisionsAre ==
    ASSUME NEW c, LocalOK(c)
    PROVE  /\ DOMAIN Match(c.seen, c.evs) = DOMAIN c.seen
           /\ \A i \in DOMAIN c.seen :
                 LET d == Match(c.seen, c.evs)[i] IN
                 /\ d.delta \in Nat /\ d.last \in Int
                 /\ d.delta <= SumFunctionOnSet(Quantities(c.evs),
                       {k \in DOMAIN c.evs : c.evs[k].at >= Floor(c.seen[i])
                                              /\ c.evs[k].at <= d.last})
                 /\ d.delta > 0 => /\ d.last >= Floor(c.seen[i])
                                  /\ \E k \in DOMAIN c.evs : d.last = c.evs[k].at
<1> DEFINE T == c.seen
           E == c.evs
<1>1. IsTransfers(T) /\ IsEvents(E) BY DEF LocalOK
<1> HIDE DEF T, E
<1>2. PICK acc \in Matchings(T, E) : Match(T, E) = acc.out /\ Bounded(T, E, DOMAIN T, acc)
  BY <1>1, MatchingIs
<1>3. acc.out \in [DOMAIN T -> Decisions] BY DEF Matchings
<1>4. \A i \in DOMAIN T :
         /\ acc.out[i].delta \in Nat /\ acc.out[i].last \in Int
         /\ acc.out[i].delta > 0 =>
               \E k \in DOMAIN E : E[k].at >= Floor(T[i]) /\ acc.out[i].last = E[k].at
         /\ acc.out[i].delta <= SumFunctionOnSet(Quantities(E),
               {k \in DOMAIN E : E[k].at >= Floor(T[i]) /\ E[k].at <= acc.out[i].last})
  BY <1>2, <1>3 DEF Bounded, Decisions
<1>5. \A i \in DOMAIN T : acc.out[i].delta > 0 =>
         acc.out[i].last >= Floor(T[i]) /\ \E k \in DOMAIN E : acc.out[i].last = E[k].at
  BY <1>4
<1> QED BY <1>2, <1>3, <1>4, <1>5 DEF T, E

\* An UPDATE of apply_partial_reception keeps the columns of any row in order.
LEMMA ReceivedOK ==
    ASSUME NEW r, RowOK(r), NEW units \in Nat, units > 0, NEW at \in Int
    PROVE  LET x == Received(r, units, at) IN
           /\ RowOK(x)
           /\ x.qty = r.qty /\ x.at = r.at /\ x.last = at /\ x.got <= r.got + units
           /\ r.status = "pending" => x.status \in {"pending", "received"}
<1> USE ParametersAssumption
<1> DEFINE x == Received(r, units, at)
<1>1. r.qty \in Int /\ r.got \in Int /\ units \in Int /\ r.got <= r.qty
  BY DEF RowOK
<1>2. Min({r.qty, r.got + units})
        = IF r.qty <= r.got + units THEN r.qty ELSE r.got + units
  BY <1>1, MinOfTwo
<1>3. /\ DOMAIN x = Columns
      /\ x.qty = r.qty /\ x.at = r.at /\ x.last = at
      /\ x.got = Min({r.qty, r.got + units})
      /\ x.status = IF r.got + units >= r.qty THEN "received" ELSE r.status
  BY DEF RowOK, Received, Columns
<1> HIDE DEF x
<1>4. x.got <= r.got + units BY <1>1, <1>2, <1>3
<1>5. RowOK(x) BY <1>1, <1>2, <1>3 DEF RowOK
<1>6. r.status = "pending" => x.status \in {"pending", "received"} BY <1>3
<1> QED BY <1>3, <1>4, <1>5, <1>6 DEF x

\* mark_cancelled, on whatever rows.
LEMMA CancelledOK ==
    ASSUME LedgerInv, NEW ids
    PROVE  /\ DOMAIN Cancelled(ids) = Ids
           /\ \A i \in Ids :
                 LET x == Cancelled(ids)[i] IN
                 /\ RowOK(x)
                 /\ x.qty = row[i].qty /\ x.at = row[i].at /\ x.got = row[i].got
                 /\ x.last = row[i].last
                 /\ IF i \in ids THEN x.status = "cancelled" ELSE x = row[i]
<1>1. DOMAIN Cancelled(ids) = Ids BY DEF Cancelled
<1>2. ASSUME NEW i \in Ids, i \in ids
      PROVE  LET x == Cancelled(ids)[i] IN
             /\ RowOK(x)
             /\ x.qty = row[i].qty /\ x.at = row[i].at /\ x.got = row[i].got
             /\ x.last = row[i].last /\ x.status = "cancelled"
  <2> DEFINE x == [row[i] EXCEPT !.status = "cancelled"]
  <2>1. Cancelled(ids)[i] = x BY <1>2 DEF Cancelled
  <2>2. RowOK(row[i]) BY DEF LedgerInv
  <2>3. DOMAIN x = Columns /\ x.qty = row[i].qty /\ x.got = row[i].got
          /\ x.at = row[i].at /\ x.last = row[i].last /\ x.status = "cancelled"
    BY <2>2 DEF RowOK, Columns
  <2> HIDE DEF x
  <2> QED BY <2>1, <2>2, <2>3 DEF RowOK
<1>3. ASSUME NEW i \in Ids, i \notin ids
      PROVE  Cancelled(ids)[i] = row[i] /\ RowOK(row[i])
  BY <1>3 DEF Cancelled, LedgerInv
<1> QED BY <1>1, <1>2, <1>3

\* list_all: the rows it returns are those of the table.
LEMMA ListingIs ==
    ASSUME LedgerInv, NEW ids \in SUBSET Ids
    PROVE  /\ DOMAIN Listing(ids) \subseteq ids /\ IsTransfers(Listing(ids))
           /\ \A i \in DOMAIN Listing(ids) : Listing(ids)[i] = row[i]
<1>1. /\ DOMAIN Listing(ids) \subseteq ids
      /\ \A i \in DOMAIN Listing(ids) : Listing(ids)[i] = row[i]
  BY DEF Listing
<1>2. IsFiniteSet(DOMAIN Listing(ids)) BY <1>1, FS_Subset, ParametersAssumption
<1>3. \A i \in DOMAIN Listing(ids) : i \in Int /\ IsTransfer(Listing(ids)[i])
  <2> SUFFICES ASSUME NEW i \in DOMAIN Listing(ids)
               PROVE  i \in Int /\ IsTransfer(row[i])
    BY <1>1
  <2>1. i \in Ids /\ RowOK(row[i]) BY <1>1 DEF LedgerInv
  <2> QED BY <2>1, ParametersAssumption DEF RowOK, IsTransfer
<1> QED BY <1>1, <1>2, <1>3 DEF IsTransfers

LEMMA EventsAre ==
    ASSUME LedgerInv
    PROVE  /\ DOMAIN events = 1..Len(events) /\ Len(events) \in Nat
           /\ \A k \in DOMAIN events : events[k].at \in Nat /\ events[k].qty \in Nat
<1> DEFINE A == [at : Nat, qty : Nat]
<1>1. events \in Seq(A) BY DEF LedgerInv
<1>2. \A e \in A : e.at \in Nat /\ e.qty \in Nat OBVIOUS
<1> HIDE DEF A
<1>3. DOMAIN events = 1..Len(events) /\ Len(events) \in Nat BY <1>1
<1>4. \A k \in DOMAIN events : events[k] \in A BY <1>1
<1> QED BY <1>2, <1>3, <1>4

\* _fetch_inbound_events: the events it returns are those that arrived.
LEMMA InboundIs ==
    ASSUME LedgerInv, NEW time
    PROVE  LET evs == InboundSince(time) IN
           /\ IsEvents(evs) /\ DOMAIN evs \subseteq DOMAIN events
           /\ \A k \in DOMAIN evs : evs[k] = events[k]
<1> DEFINE evs == InboundSince(time)
<1>1. DOMAIN evs \subseteq DOMAIN events /\ \A k \in DOMAIN evs : evs[k] = events[k]
  BY DEF InboundSince
<1>2. /\ DOMAIN events = 1..Len(events) /\ Len(events) \in Nat
      /\ \A k \in DOMAIN events : events[k].at \in Nat /\ events[k].qty \in Nat
  BY EventsAre
<1>3. IsFiniteSet(1..Len(events)) BY <1>2, FS_Interval
<1> HIDE DEF evs
<1>4. IsFiniteSet(DOMAIN evs)
  <2>1. DOMAIN evs \subseteq 1..Len(events) BY <1>1, <1>2
  <2> QED BY <1>3, <2>1, FS_Subset
<1>5. \A k \in DOMAIN evs : k \in Int /\ evs[k].at \in Int /\ evs[k].qty \in Nat
  BY <1>1, <1>2
<1> QED BY <1>1, <1>4, <1>5 DEF IsEvents, evs

LEMMA EmptyOK == IsTransfers(<<>>) /\ IsEvents(<<>>)
<1>1. DOMAIN <<>> = {} OBVIOUS
<1>2. IsFiniteSet({}) BY FS_EmptySet
<1> QED BY <1>1, <1>2 DEF IsTransfers, IsEvents

LEMMA LedgerInit == Init => LedgerInv
<1> SUFFICES ASSUME Init PROVE LedgerInv
  OBVIOUS
<1>1. now \in Nat /\ events \in Seq([at : Nat, qty : Nat]) BY DEF Init
<1>2. DOMAIN row = Ids /\ \A i \in Ids : RowOK(row[i])
  BY ParametersAssumption DEF Init, RowOK, NoRow, Columns, Never
<1>3. LocalOK(Idle) BY EmptyOK DEF LocalOK, Idle, Locals
<1>4. DOMAIN scan = Scans /\ \A s \in Scans : LocalOK(scan[s]) BY <1>3 DEF Init
<1> QED BY <1>1, <1>2, <1>4 DEF LedgerInv

\* A scan that goes on with other local variables.
LEMMA SetOK ==
    ASSUME LedgerInv, NEW s \in Scans, NEW c, LocalOK(c), Set(s, c)
    PROVE  /\ DOMAIN scan' = Scans /\ \A t \in Scans : LocalOK(scan'[t])
           /\ scan'[s] = c /\ \A t \in Scans : t # s => scan'[t] = scan[t]
BY DEF LedgerInv, Set

LEMMA GotoOK ==
    ASSUME NEW step
    PROVE  LET c == [Idle EXCEPT !.step = step] IN
           /\ LocalOK(c) /\ c.step = step /\ c.doomed = {} /\ c.seen = <<>> /\ c.evs = <<>>
BY EmptyOK DEF LocalOK, Idle, Locals

\* What every step of a scan that does not write does to its local variables.
LEMMA LocalStep ==
    ASSUME LedgerInv, NEW s \in Scans, Start(s) \/ Continue(s) \/ Abort(s)
    PROVE  \E c : LocalOK(c) /\ Set(s, c)
<1> USE GotoOK
<1>0. LocalOK(Idle) BY EmptyOK DEF LocalOK, Idle, Locals
<1>1. CASE Start(s) BY <1>1 DEF Start, Goto
<1>2. CASE SelectNonFulfillment(s)
  <2>1. \A ids : LocalOK([Idle EXCEPT !.step = "cancel", !.doomed = ids])
    BY EmptyOK DEF LocalOK, Idle, Locals
  <2> QED BY <1>2, <2>1 DEF SelectNonFulfillment
<1>3. CASE CancelNonFulfillment(s) BY <1>3 DEF CancelNonFulfillment, Goto
<1>4. CASE ReadPending(s)
  <2> DEFINE seen == Listing(Pending)
             c == [Idle EXCEPT !.step = "fetch", !.seen = seen]
  <2>1. DOMAIN seen \subseteq Ids /\ IsTransfers(seen) BY ListingIs DEF Pending
  <2> HIDE DEF seen
  <2>2. LocalOK(c) BY <2>1, EmptyOK DEF LocalOK, Idle, Locals
  <2>3. Set(s, IF DOMAIN seen = {} \/ ~Sourced THEN [Idle EXCEPT !.step = "drain"] ELSE c)
    BY <1>4 DEF ReadPending, seen
  <2> QED BY <2>2, <2>3
<1>5. CASE FetchEvents(s)
  <2> DEFINE seen == scan[s].seen
             evs == InboundSince(Min(Since(seen)))
             c == [Idle EXCEPT !.step = "apply", !.seen = seen, !.evs = evs]
  <2>1. DOMAIN seen \subseteq Ids /\ IsTransfers(seen) BY DEF LedgerInv, LocalOK
  <2>2. IsEvents(evs) BY InboundIs
  <2> HIDE DEF seen, evs
  <2>3. LocalOK(c) BY <2>1, <2>2 DEF LocalOK, Idle, Locals
  <2>4. Set(s, IF DOMAIN evs = {} THEN [Idle EXCEPT !.step = "drain"] ELSE c)
    BY <1>5 DEF FetchEvents, seen, evs
  <2> QED BY <2>3, <2>4
<1>6. CASE FetchFails(s) BY <1>6 DEF FetchFails, Goto
<1>7. CASE Apply(s) BY <1>7 DEF Apply, Goto
<1>8. CASE DrainRead(s)
  <2> DEFINE seen == Listing(Pending)
             c == [Idle EXCEPT !.seen = seen, !.cutoff = now - Grace, !.sourced = Sourced]
             d == [c EXCEPT !.step = "stock"]
             stale == {i \in DOMAIN c.seen : Stale(c, c.seen[i]) /\ Net(c.seen[i]) > 0}
  <2>1. DOMAIN seen \subseteq Ids /\ IsTransfers(seen) BY ListingIs DEF Pending
  <2> HIDE DEF seen
  <2>2. LocalOK(d) BY <2>1, EmptyOK DEF LocalOK, Idle, Locals
  <2>3. Set(s, IF stale = {} THEN Idle ELSE d) BY <1>8 DEF DrainRead, seen
  <2> HIDE DEF c, d, stale
  <2> QED BY <1>0, <2>2, <2>3
<1>9. CASE ReadStock(s)
  <2>1. PICK shown : Set(s, [scan[s] EXCEPT !.step = "settle", !.stock = shown])
    BY <1>9 DEF ReadStock
  <2> DEFINE c == [scan[s] EXCEPT !.step = "settle", !.stock = shown]
  <2>2. LocalOK(scan[s]) BY DEF LedgerInv
  <2>3. LocalOK(c) BY <2>2 DEF LocalOK, Locals
  <2> QED BY <2>1, <2>3
<1>10. CASE StockFails(s) BY <1>0, <1>10 DEF StockFails
<1>11. CASE DrainApply(s) BY <1>0, <1>11 DEF DrainApply
<1>12. CASE Abort(s) BY <1>0, <1>12 DEF Abort
<1> QED BY <1>1, <1>2, <1>3, <1>4, <1>5, <1>6, <1>7, <1>8, <1>9, <1>10, <1>11, <1>12
        DEF Continue

\* The rows after the credits of Apply.
LEMMA ApplyIs ==
    ASSUME LedgerInv, NEW s \in Scans, Apply(s), NEW i \in Ids
    PROVE  LET seen == scan[s].seen
               evs == scan[s].evs
               d == Match(seen, evs)[i]
           IN  /\ DOMAIN row' = Ids /\ RowOK(row'[i]) /\ RowOK(row[i])
               /\ \/ row'[i] = row[i]
                  \/ /\ i \in DOMAIN seen
                     /\ d.delta \in Nat /\ d.delta > 0 /\ d.last \in Int
                     /\ d.last >= Floor(seen[i]) /\ \E k \in DOMAIN evs : d.last = evs[k].at
                     /\ d.delta <= SumFunctionOnSet(Quantities(evs),
                           {k \in DOMAIN evs : evs[k].at >= Floor(seen[i])
                                                /\ evs[k].at <= d.last})
                     /\ row'[i].at = row[i].at /\ row'[i].last = d.last
                     /\ row'[i].got <= row[i].got + d.delta
                     /\ row[i].status = "pending"
                           => row'[i].status \in {"pending", "received"}
<1> DEFINE seen == scan[s].seen
           evs == scan[s].evs
           decisions == Match(seen, evs)
           d == decisions[i]
<1>1. LocalOK(scan[s]) /\ RowOK(row[i]) BY DEF LedgerInv
<1>2. /\ DOMAIN decisions = DOMAIN seen
      /\ i \in DOMAIN seen =>
           /\ d.delta \in Nat /\ d.last \in Int
           /\ d.delta <= SumFunctionOnSet(Quantities(evs),
                 {k \in DOMAIN evs : evs[k].at >= Floor(seen[i]) /\ evs[k].at <= d.last})
           /\ d.delta > 0 => /\ d.last >= Floor(seen[i])
                            /\ \E k \in DOMAIN evs : d.last = evs[k].at
  BY <1>1, DecisionsAre
<1> HIDE DEF seen, evs, decisions
<1>3. /\ DOMAIN row' = Ids
      /\ row'[i] = IF i \in DOMAIN decisions /\ d.delta > 0
                   THEN Received(row[i], d.delta, d.last) ELSE row[i]
  BY DEF Apply, seen, evs, decisions
<1> HIDE DEF d
<1>4. CASE i \in DOMAIN decisions /\ d.delta > 0
  <2> DEFINE x == Received(row[i], d.delta, d.last)
  <2>1. /\ RowOK(x)
        /\ x.qty = row[i].qty /\ x.at = row[i].at /\ x.last = d.last
        /\ x.got <= row[i].got + d.delta
        /\ row[i].status = "pending" => x.status \in {"pending", "received"}
    BY <1>1, <1>2, <1>4, ReceivedOK
  <2>2. row'[i] = x BY <1>3, <1>4
  <2> HIDE DEF x
  <2> QED BY <1>1, <1>2, <1>3, <1>4, <2>1, <2>2 DEF d, decisions, seen, evs
<1>5. CASE ~(i \in DOMAIN decisions /\ d.delta > 0)
  BY <1>1, <1>3, <1>5
<1> QED BY <1>4, <1>5

\* A row that NewRow writes.
LEMMA NewRowIs ==
    ASSUME LedgerInv, NEW qty \in 1..MaxQty, NewRow(qty)
    PROVE  /\ now' = now + 1 /\ now' \in Nat /\ DOMAIN row' = Ids
           /\ \E i \in Ids :
                 /\ row[i].status = "none" /\ row'[i].status = "pending"
                 /\ RowOK(row'[i]) /\ row'[i].got = 0 /\ row'[i].qty = qty
                 /\ row'[i].at = now + 1 /\ row'[i].last = Never
                 /\ \A j \in Ids : j # i => row'[j] = row[j]
<1> USE ParametersAssumption
<1> DEFINE x == [status |-> "pending", qty |-> qty, at |-> now + 1,
                 got |-> 0, last |-> Never]
<1>1. now' = now + 1 /\ now \in Nat BY DEF NewRow, LedgerInv
<1>2. PICK i \in Ids : row[i].status = "none" /\ row' = [row EXCEPT ![i] = x]
  BY DEF NewRow
<1>3. /\ RowOK(x) /\ x.got = 0 /\ x.status = "pending" /\ x.qty = qty
      /\ x.at = now + 1 /\ x.last = Never
  BY <1>1 DEF RowOK, Columns, Never
<1> HIDE DEF x
<1>4. DOMAIN row' = Ids /\ row'[i] = x /\ \A j \in Ids : j # i => row'[j] = row[j]
  BY <1>2 DEF LedgerInv
<1> QED BY <1>1, <1>2, <1>3, <1>4

LEMMA LedgerStep == LedgerInv /\ [Next]_vars => LedgerInv'
<1> SUFFICES ASSUME LedgerInv, [Next]_vars PROVE LedgerInv'
  OBVIOUS
<1> USE ParametersAssumption
<1> DEFINE ClockThen == now' \in Nat
           EventsThen == events' \in Seq([at : Nat, qty : Nat])
           RowsThen == DOMAIN row' = Ids /\ \A i \in Ids : RowOK(row'[i])
           ScansThen == DOMAIN scan' = Scans /\ \A s \in Scans : LocalOK(scan'[s])
<1>0. ClockThen /\ EventsThen /\ RowsThen /\ ScansThen => LedgerInv' BY DEF LedgerInv
<1>1. UNCHANGED now => ClockThen BY DEF LedgerInv
<1>2. UNCHANGED events => EventsThen BY DEF LedgerInv
<1>3. UNCHANGED row => RowsThen BY DEF LedgerInv
<1>4. UNCHANGED scan => ScansThen BY DEF LedgerInv
<1>5. \A ids : row' = Cancelled(ids) => RowsThen BY CancelledOK
<1>6. ASSUME NEW s \in Scans, Start(s) \/ Continue(s) \/ Abort(s) PROVE LedgerInv'
  <2>1. ScansThen
    <3>1. PICK c : LocalOK(c) /\ Set(s, c) BY <1>6, LocalStep
    <3> QED BY <3>1, SetOK
  <2>2. UNCHANGED <<now, events>>
    BY <1>6 DEF Start, Continue, Abort, SelectNonFulfillment, CancelNonFulfillment, ReadPending,
         FetchEvents, FetchFails, Apply, DrainRead, ReadStock, StockFails, DrainApply, world
  <2>3. RowsThen
    <3>1. CASE CancelNonFulfillment(s) BY <1>5, <3>1 DEF CancelNonFulfillment
    <3>2. CASE DrainApply(s) BY <1>5, <3>2 DEF DrainApply
    <3>3. CASE Apply(s)
      <4>1. \A i \in Ids : RowOK(row'[i]) BY <3>3, ApplyIs
      <4>2. DOMAIN row' = Ids BY <3>3 DEF Apply
      <4> QED BY <4>1, <4>2
    <3>4. CASE \/ Start(s) \/ SelectNonFulfillment(s) \/ ReadPending(s)
               \/ FetchEvents(s) \/ FetchFails(s) \/ DrainRead(s)
               \/ ReadStock(s) \/ StockFails(s) \/ Abort(s)
      <4> HIDE DEF RowsThen
      <4> QED BY <1>3, <3>4 DEF Start, SelectNonFulfillment, ReadPending, FetchEvents,
           FetchFails, DrainRead, ReadStock, StockFails, Abort
    <3> QED BY <1>6, <3>1, <3>2, <3>3, <3>4 DEF Continue
  <2> HIDE DEF ClockThen, EventsThen, RowsThen, ScansThen
  <2> QED BY <1>0, <1>1, <1>2, <2>1, <2>2, <2>3
<1>7. ASSUME NEW qty \in 1..MaxQty, Ship(qty) \/ RecordPhantom(qty) PROVE LedgerInv'
  <2>1. NewRow(qty) /\ UNCHANGED <<events, scan>> BY <1>7 DEF Ship, RecordPhantom
  <2>2. ClockThen /\ RowsThen
    <3>1. now' \in Nat /\ DOMAIN row' = Ids BY <2>1, NewRowIs
    <3>2. PICK i \in Ids : RowOK(row'[i]) /\ \A j \in Ids : j # i => row'[j] = row[j]
      BY <2>1, NewRowIs
    <3>3. \A j \in Ids : RowOK(row[j]) BY DEF LedgerInv
    <3> QED BY <3>1, <3>2, <3>3
  <2> HIDE DEF ClockThen, EventsThen, RowsThen, ScansThen
  <2> QED BY <1>0, <1>2, <1>4, <2>1, <2>2
<1>8. ASSUME NEW qty \in 1..MaxQty, Arrive(qty) PROVE LedgerInv'
  <2>1. /\ now' = now + 1 /\ UNCHANGED <<row, scan>>
        /\ events' = Append(events, [at |-> now + 1, qty |-> qty])
    BY <1>8 DEF Arrive
  <2>2. ClockThen BY <2>1 DEF LedgerInv
  <2>3. EventsThen
    <3> DEFINE A == [at : Nat, qty : Nat]
               e == [at |-> now + 1, qty |-> qty]
    <3>1. events \in Seq(A) /\ e \in A BY DEF LedgerInv
    <3> HIDE DEF A, e
    <3>2. Append(events, e) \in Seq(A) BY <3>1
    <3> QED BY <2>1, <3>2 DEF A, e
  <2> HIDE DEF ClockThen, EventsThen, RowsThen, ScansThen
  <2> QED BY <1>0, <1>3, <1>4, <2>1, <2>2, <2>3
<1>9. CASE Delist \/ Relist \/ Tick
  <2>1. ClockThen BY <1>1, <1>9 DEF Delist, Relist, Tick, LedgerInv
  <2>2. UNCHANGED <<row, events, scan>> BY <1>9 DEF Delist, Relist, Tick
  <2> HIDE DEF ClockThen, EventsThen, RowsThen, ScansThen
  <2> QED BY <1>0, <1>2, <1>3, <1>4, <2>1, <2>2
<1>10. CASE UNCHANGED vars
  <2> HIDE DEF ClockThen, EventsThen, RowsThen, ScansThen
  <2> QED BY <1>0, <1>1, <1>2, <1>3, <1>4, <1>10 DEF vars
<1> QED BY <1>6, <1>7, <1>8, <1>9, <1>10 DEF Next

\* However many scans overlap, a received row has all its units and a pending one
\* lacks some: the single UPDATE of apply_partial_reception, with its LEAST and
\* its CASE on the row as it is, needs no lock for that.
THEOREM LedgerHolds == Spec => []Ledger
<1>1. LedgerInv => Ledger
  <2> SUFFICES ASSUME LedgerInv, NEW i \in Ids
               PROVE  /\ row[i].got <= row[i].qty
                      /\ row[i].status = "received" => row[i].got = row[i].qty
                      /\ row[i].status = "pending" => row[i].got < row[i].qty
    BY DEF Ledger
  <2>1. RowOK(row[i])
    BY DEF LedgerInv
  <2> QED BY <2>1, ParametersAssumption DEF RowOK
<1> QED BY LedgerInit, LedgerStep, <1>1, PTL DEF Spec

---------------------------------------------------------------------------
(* One scan at a time                                                      *)

OneScan == \A s, t \in Scans : s = t

Between(E, first, last) == {k \in DOMAIN E : first <= E[k].at /\ E[k].at <= last}

\* The events that a row has been credited with are among these.
Counted(r) == Between(events, r.at, r.last)

\* What a scan holds is what is still there: nobody else writes.
InHand(c) ==
    /\ \A k \in DOMAIN c.evs : k \in DOMAIN events /\ c.evs[k] = events[k]
    /\ \A i \in DOMAIN c.seen : c.seen[i] = row[i] /\ row[i].status = "pending"
    /\ \A i \in c.doomed : i \in Ids /\ row[i].status = "pending"

\* The inductive invariant of RowCreditedOnce and FinalStatus.
SerialInv ==
    /\ LedgerInv
    /\ \A k \in DOMAIN events : events[k].at >= 1
    /\ \A i \in Ids : row[i].got <= Units(Counted(row[i]))
    /\ \A s \in Scans : InHand(scan[s])

\* A drain settles only rows that it has read.
LEMMA DrainedIn ==
    ASSUME NEW c, LocalOK(c), \A i \in DOMAIN c.seen : RowOK(c.seen[i])
    PROVE  Drained(c) \subseteq DOMAIN c.seen
<1> DEFINE D == DOMAIN c.seen
           A == [net : Int, ids : SUBSET D]
           base == [net |-> NetOf(c.seen, D), ids |-> {}]
           Folds(g) == g = [s \in SUBSET D |->
               IF s = {} THEN base
               ELSE LET x == Latest(c.seen, s) IN DrainStep(c, x, g[s \ {x}])]
           fold == CHOOSE g : Folds(g)
           ch == [s \in SUBSET D |-> Latest(c.seen, s)]
           F == [x \in D |-> [a \in A |-> DrainStep(c, x, a)]]
<1>1. IsFiniteSet(D) /\ \A i \in D : i \in Int /\ c.seen[i].at \in Int
  BY DEF LocalOK, IsTransfers, IsTransfer
<1>2. \A i \in D : Net(c.seen[i]) \in Nat BY ParametersAssumption DEF RowOK, Net
<1>3. base \in A
  <2> DEFINE f == [i \in D |-> Net(c.seen[i])]
  <2>1. \A i \in D : f[i] \in Nat BY <1>2
  <2> HIDE DEF f, D
  <2>2. SumFunctionOnSet(f, D) \in Nat BY <1>1, <2>1, SumNat
  <2>3. NetOf(c.seen, D) \in Nat BY <2>2 DEF NetOf, f, D
  <2> QED BY <2>3
<1>4. \A s \in SUBSET D : s # {} => ch[s] = Latest(c.seen, s) /\ ch[s] \in s
  <2> SUFFICES ASSUME NEW s \in SUBSET D, s # {} PROVE Latest(c.seen, s) \in s
    OBVIOUS
  <2>1. IsFiniteSet(s) /\ \A i \in s : i \in Int /\ c.seen[i].at \in Int
    BY <1>1, FS_Subset
  <2> QED BY <2>1, LatestIs
<1>5. \A x \in D, a \in A : F[x][a] = DrainStep(c, x, a) /\ F[x][a] \in A
  <2> SUFFICES ASSUME NEW x \in D, NEW a \in A PROVE DrainStep(c, x, a) \in A
    OBVIOUS
  <2>1. a.net - Net(c.seen[x]) \in Int /\ a.ids \cup {x} \in SUBSET D BY <1>2
  <2>2. [net |-> a.net - Net(c.seen[x]), ids |-> a.ids \cup {x}] \in A BY <2>1
  <2> HIDE DEF A
  <2> QED BY <2>2 DEF DrainStep
<1>6. Drained(c) = fold[D].ids BY DEF Drained, MapThenFoldSet
<1>7. \E g \in [SUBSET D -> A] : Folds(g)
  <2> HIDE DEF base, ch, F
  <2>1. \E g \in [SUBSET D -> A] : IsFold(g, D, base, ch, F)
    <3>1. \A s \in SUBSET D : s # {} => ch[s] \in s BY <1>4
    <3>2. \A x \in D, a \in A : F[x][a] \in A BY <1>5
    <3> HIDE DEF D, A
    <3> QED BY <1>1, <1>3, <3>1, <3>2, FoldExists
  <2> HIDE DEF A
  <2>2. PICK g \in [SUBSET D -> A] : \A s \in SUBSET D :
              g[s] = IF s = {} THEN base ELSE F[ch[s]][g[s \ {ch[s]}]]
    BY <2>1 DEF IsFold
  <2>3. \A s \in SUBSET D : g[s] = IF s = {} THEN base
               ELSE LET x == Latest(c.seen, s) IN DrainStep(c, x, g[s \ {x}])
    <3> SUFFICES ASSUME NEW s \in SUBSET D, s # {}
                 PROVE  g[s] = DrainStep(c, Latest(c.seen, s), g[s \ {Latest(c.seen, s)}])
      BY <2>2
    <3>1. ch[s] = Latest(c.seen, s) /\ ch[s] \in D BY <1>4
    <3>2. g[s \ {ch[s]}] \in A OBVIOUS
    <3>3. g[s] = F[ch[s]][g[s \ {ch[s]}]] BY <2>2
    <3> QED BY <1>5, <3>1, <3>2, <3>3
  <2>4. g = [s \in SUBSET D |-> g[s]] OBVIOUS
  <2> QED BY <2>3, <2>4
<1>8. Folds(fold) BY <1>7
<1> HIDE DEF fold
<1>9. \A s \in SUBSET D : fold[s] = IF s = {} THEN base
               ELSE LET x == Latest(c.seen, s) IN DrainStep(c, x, fold[s \ {x}])
  BY <1>8
<1> DEFINE P == {s \in SUBSET D : fold[s] \in A}
<1> HIDE DEF base, F, A, ch
<1>10. ASSUME NEW s \in SUBSET D, \A x \in s : s \ {x} \in P PROVE s \in P
  <2>1. CASE s = {} BY <1>3, <1>9, <2>1
  <2>2. CASE s # {}
    <3> DEFINE x == Latest(c.seen, s)
    <3>1. x \in s BY <1>4, <2>2
    <3>2. s \ {x} \in P BY <1>10, <3>1
    <3>3. fold[s] = DrainStep(c, x, fold[s \ {x}]) BY <1>9, <2>2
    <3> HIDE DEF x
    <3> QED BY <1>5, <3>1, <3>2, <3>3
  <2> QED BY <2>1, <2>2
<1> HIDE DEF P
<1>11. D \in SUBSET D /\ \A s \in SUBSET D : s \in P BY <1>1, <1>10, SetInduction
<1>12. fold[D] \in A BY <1>11 DEF P
<1> QED BY <1>6, <1>12 DEF A

LEMMA BetweenIs ==
    ASSUME NEW E, IsEvents(E), NEW first, NEW last
    PROVE  /\ Between(E, first, last) \subseteq DOMAIN E
           /\ IsFiniteSet(Between(E, first, last))
           /\ \A k \in DOMAIN E : Quantities(E)[k] \in Nat /\ Quantities(E)[k] = E[k].qty
           /\ SumFunctionOnSet(Quantities(E), Between(E, first, last)) \in Nat
<1>1. Between(E, first, last) \subseteq DOMAIN E BY DEF Between
<1>2. IsFiniteSet(Between(E, first, last)) BY <1>1, FS_Subset DEF IsEvents
<1>3. \A k \in DOMAIN E : Quantities(E)[k] \in Nat /\ Quantities(E)[k] = E[k].qty
  BY DEF IsEvents, Quantities
<1>4. \A k \in Between(E, first, last) : Quantities(E)[k] \in Nat BY <1>1, <1>3
<1>5. SumFunctionOnSet(Quantities(E), Between(E, first, last)) \in Nat BY <1>2, <1>4, SumNat
<1> QED BY <1>1, <1>2, <1>3, <1>5

\* More events, more units.
LEMMA UnitsGrow ==
    ASSUME NEW E, IsEvents(E), NEW G, IsEvents(G),
           \A k \in DOMAIN E : k \in DOMAIN G /\ G[k] = E[k],
           NEW first, NEW last
    PROVE  SumFunctionOnSet(Quantities(E), Between(E, first, last))
             <= SumFunctionOnSet(Quantities(G), Between(G, first, last))
<1> DEFINE f == Quantities(E)
           g == Quantities(G)
           U == Between(E, first, last)
           V == Between(G, first, last)
<1>1. U \in SUBSET V BY DEF Between
<1>2. IsFiniteSet(V) /\ \A k \in V : g[k] \in Nat
  BY BetweenIs
<1>3. \A k \in U : f[k] \in Nat /\ f[k] <= g[k]
  <2> SUFFICES ASSUME NEW k \in U PROVE f[k] \in Nat /\ f[k] <= g[k]
    OBVIOUS
  <2>1. k \in DOMAIN E /\ k \in DOMAIN G /\ G[k] = E[k] BY DEF Between
  <2>2. f[k] \in Nat /\ f[k] = E[k].qty BY <2>1, BetweenIs
  <2>3. g[k] = G[k].qty BY <2>1, BetweenIs
  <2>4. f[k] = g[k] BY <2>1, <2>2, <2>3
  <2> HIDE DEF f, g, U
  <2> QED BY <2>2, <2>4
<1> HIDE DEF f, g, U, V
<1>4. SumFunctionOnSet(f, U) <= SumFunctionOnSet(g, V) BY <1>1, <1>2, <1>3, SumGrows
<1> QED BY <1>4 DEF f, g, U, V

\* What a transfer may still be credited it was not credited before.
LEMMA CreditFits ==
    ASSUME NEW E, IsEvents(E), \A k \in DOMAIN E : E[k].at >= 1,
           NEW t, IsTransfer(t), NEW last \in Int, last >= Floor(t)
    PROVE  SumFunctionOnSet(Quantities(E), Between(E, t.at, t.last))
             + SumFunctionOnSet(Quantities(E), Between(E, Floor(t), last))
             <= SumFunctionOnSet(Quantities(E), Between(E, t.at, last))
<1> DEFINE f == Quantities(E)
           A == Between(E, t.at, t.last)
           B == Between(E, Floor(t), last)
           C == Between(E, t.at, last)
<1>1. t.at \in Int /\ t.last \in Int /\ \A k \in DOMAIN E : E[k].at \in Int
  BY DEF IsTransfer, IsEvents
<1>2. IsFiniteSet(A) /\ IsFiniteSet(B) /\ IsFiniteSet(C) BY BetweenIs
<1>3. \A k \in A : t.last # Never /\ t.last >= t.at
  BY <1>1 DEF Between, Never
<1>4. A \cap B = {} /\ A \cup B \in SUBSET C
  BY <1>1, <1>3 DEF Between, Floor
<1>5. \A k \in C : f[k] \in Nat /\ f[k] <= f[k]
  <2>1. \A k \in C : f[k] \in Nat BY BetweenIs
  <2> HIDE DEF f, C
  <2> QED BY <2>1
<1> HIDE DEF f, A, B, C
<1>6. SumFunctionOnSet(f, A \cup B) = SumFunctionOnSet(f, A) + SumFunctionOnSet(f, B)
  BY <1>2, <1>4, <1>5, SumUnion
<1>7. SumFunctionOnSet(f, A \cup B) <= SumFunctionOnSet(f, C)
  <2> DEFINE U == A \cup B
  <2>1. U \in SUBSET C BY <1>4
  <2>2. \A k \in U : f[k] \in Nat /\ f[k] <= f[k] BY <1>5, <2>1
  <2> HIDE DEF U
  <2>3. SumFunctionOnSet(f, U) <= SumFunctionOnSet(f, C) BY <1>2, <1>5, <2>1, <2>2, SumGrows
  <2> QED BY <2>3 DEF U
<1> QED BY <1>6, <1>7 DEF f, A, B, C

LEMMA EventsOK == ASSUME LedgerInv PROVE IsEvents(events)
<1>1. /\ DOMAIN events = 1..Len(events) /\ Len(events) \in Nat
      /\ \A k \in DOMAIN events : events[k].at \in Nat /\ events[k].qty \in Nat
  BY EventsAre
<1>2. IsFiniteSet(DOMAIN events) BY <1>1, FS_Interval
<1> QED BY <1>1, <1>2 DEF IsEvents

---------------------------------------------------------------------------

Empty(c) == c.doomed = {} /\ c.seen = <<>> /\ c.evs = <<>>

\* A step of the scan leaves it with what it read in that step or before, of rows
\* that the step did not write, or with nothing.
LEMMA HandStep ==
    ASSUME SerialInv, NEW s \in Scans, Start(s) \/ Continue(s) \/ Abort(s)
    PROVE  \E c : Set(s, c) /\ (Empty(c) \/ (InHand(c) /\ UNCHANGED row))
<1> USE GotoOK
<1>0. Empty(Idle) BY DEF Empty, Idle
<1>1. \A step : Empty([Idle EXCEPT !.step = step]) BY DEF Empty, Idle
<1>2. LedgerInv /\ InHand(scan[s]) BY DEF SerialInv
<1>3. CASE Start(s) BY <1>1, <1>3 DEF Start, Goto
<1>4. CASE SelectNonFulfillment(s)
  <2> DEFINE doomed == IF listed THEN {} ELSE Pending
             c == [Idle EXCEPT !.step = "cancel", !.doomed = doomed]
  <2>1. Set(s, IF doomed = {} THEN [Idle EXCEPT !.step = "read"] ELSE c) /\ UNCHANGED row
    BY <1>4 DEF SelectNonFulfillment
  <2>2. \A i \in doomed : i \in Ids /\ row[i].status = "pending" BY DEF Pending
  <2> HIDE DEF doomed
  <2>3. InHand(c) BY <2>2 DEF InHand, Idle
  <2> QED BY <1>1, <2>1, <2>3
<1>5. CASE CancelNonFulfillment(s) BY <1>1, <1>5 DEF CancelNonFulfillment, Goto
<1>6. CASE ReadPending(s)
  <2> DEFINE seen == Listing(Pending)
             c == [Idle EXCEPT !.step = "fetch", !.seen = seen]
  <2>1. \A i \in DOMAIN seen : seen[i] = row[i] /\ row[i].status = "pending"
    BY <1>2, ListingIs DEF Pending
  <2> HIDE DEF seen
  <2>2. InHand(c) BY <2>1 DEF InHand, Idle
  <2>3. Set(s, IF DOMAIN seen = {} \/ ~Sourced THEN [Idle EXCEPT !.step = "drain"] ELSE c)
        /\ UNCHANGED row
    BY <1>6 DEF ReadPending, seen
  <2> QED BY <1>1, <2>2, <2>3
<1>7. CASE FetchEvents(s)
  <2> DEFINE seen == scan[s].seen
             evs == InboundSince(Min(Since(seen)))
             c == [Idle EXCEPT !.step = "apply", !.seen = seen, !.evs = evs]
  <2>1. \A i \in DOMAIN seen : seen[i] = row[i] /\ row[i].status = "pending"
    BY <1>2 DEF InHand
  <2>2. \A k \in DOMAIN evs : k \in DOMAIN events /\ evs[k] = events[k] BY <1>2, InboundIs
  <2> HIDE DEF seen, evs
  <2>3. InHand(c) BY <2>1, <2>2 DEF InHand, Idle
  <2>4. Set(s, IF DOMAIN evs = {} THEN [Idle EXCEPT !.step = "drain"] ELSE c)
        /\ UNCHANGED row
    BY <1>7 DEF FetchEvents, seen, evs
  <2> QED BY <1>1, <2>3, <2>4
<1>8. CASE FetchFails(s) BY <1>1, <1>8 DEF FetchFails, Goto
<1>9. CASE Apply(s) BY <1>1, <1>9 DEF Apply, Goto
<1>10. CASE DrainRead(s)
  <2> DEFINE seen == Listing(Pending)
             c == [Idle EXCEPT !.seen = seen, !.cutoff = now - Grace, !.sourced = Sourced]
             d == [c EXCEPT !.step = "stock"]
             stale == {i \in DOMAIN c.seen : Stale(c, c.seen[i]) /\ Net(c.seen[i]) > 0}
  <2>1. \A i \in DOMAIN seen : seen[i] = row[i] /\ row[i].status = "pending"
    BY <1>2, ListingIs DEF Pending
  <2> HIDE DEF seen
  <2>2. InHand(d) BY <2>1 DEF InHand, Idle
  <2>3. Set(s, IF stale = {} THEN Idle ELSE d) /\ UNCHANGED row
    BY <1>10 DEF DrainRead, seen
  <2> HIDE DEF c, d, stale
  <2> QED BY <1>0, <2>2, <2>3
<1>11. CASE ReadStock(s)
  <2>1. PICK shown : Set(s, [scan[s] EXCEPT !.step = "settle", !.stock = shown])
    BY <1>11 DEF ReadStock
  <2> DEFINE c == [scan[s] EXCEPT !.step = "settle", !.stock = shown]
  <2>2. DOMAIN scan[s] = Locals BY <1>2 DEF LedgerInv, LocalOK
  <2>3. c.doomed = scan[s].doomed /\ c.seen = scan[s].seen /\ c.evs = scan[s].evs
    BY <2>2 DEF Locals
  <2>4. UNCHANGED row BY <1>11 DEF ReadStock
  <2> HIDE DEF c
  <2>5. InHand(c) BY <1>2, <2>3 DEF InHand
  <2> QED BY <2>1, <2>4, <2>5 DEF c
<1>12. CASE StockFails(s) BY <1>0, <1>12 DEF StockFails
<1>13. CASE DrainApply(s) BY <1>0, <1>13 DEF DrainApply
<1>14. CASE Abort(s) BY <1>0, <1>14 DEF Abort
<1> QED BY <1>3, <1>4, <1>5, <1>6, <1>7, <1>8, <1>9, <1>10, <1>11, <1>12, <1>13, <1>14
        DEF Continue

\* The rows that a drain gives up are pending.
LEMMA DrainedPending ==
    ASSUME SerialInv, NEW s \in Scans
    PROVE  \A i \in Drained(scan[s]) : i \in Ids /\ row[i].status = "pending"
<1>1. LedgerInv /\ LocalOK(scan[s]) /\ InHand(scan[s]) BY DEF SerialInv, LedgerInv
<1>2. \A i \in DOMAIN scan[s].seen :
         i \in Ids /\ scan[s].seen[i] = row[i] /\ row[i].status = "pending"
  BY <1>1 DEF LocalOK, InHand
<1>3. \A i \in DOMAIN scan[s].seen : RowOK(scan[s].seen[i]) BY <1>1, <1>2 DEF LedgerInv
<1>4. Drained(scan[s]) \subseteq DOMAIN scan[s].seen BY <1>1, <1>3, DrainedIn
<1> QED BY <1>2, <1>4

LEMMA SerialInit == Init => SerialInv
<1> SUFFICES ASSUME Init PROVE SerialInv
  OBVIOUS
<1>1. LedgerInv BY LedgerInit
<1>2. DOMAIN events = {} BY DEF Init
<1>3. ASSUME NEW i \in Ids PROVE row[i].got <= Units(Counted(row[i]))
  <2>1. row[i].got = 0 BY DEF Init, NoRow
  <2>2. IsEvents(events) BY <1>1, EventsOK
  <2>3. Units(Counted(row[i])) \in Nat BY <2>2, BetweenIs DEF Units, Counted
  <2> QED BY <2>1, <2>3
<1>4. \A s \in Scans : InHand(scan[s]) BY DEF Init, InHand, Idle
<1> QED BY <1>1, <1>2, <1>3, <1>4 DEF SerialInv

\* The credits of one scan: they do not count an event twice.
LEMMA ApplyCredits ==
    ASSUME SerialInv, NEW s \in Scans, Apply(s), NEW i \in Ids
    PROVE  row'[i].got <= SumFunctionOnSet(Quantities(events),
                                Between(events, row'[i].at, row'[i].last))
<1> DEFINE seen == scan[s].seen
           evs == scan[s].evs
           d == Match(seen, evs)[i]
           f == Quantities(events)
<1>1. LedgerInv /\ LocalOK(scan[s]) /\ InHand(scan[s]) BY DEF SerialInv, LedgerInv
<1>2. /\ RowOK(row'[i]) /\ RowOK(row[i])
      /\ \/ row'[i] = row[i]
         \/ /\ i \in DOMAIN seen
            /\ d.delta \in Nat /\ d.last \in Int /\ d.last >= Floor(seen[i])
            /\ d.delta <= SumFunctionOnSet(Quantities(evs),
                  {k \in DOMAIN evs : evs[k].at >= Floor(seen[i]) /\ evs[k].at <= d.last})
            /\ row'[i].at = row[i].at /\ row'[i].last = d.last
            /\ row'[i].got <= row[i].got + d.delta
  BY <1>1, ApplyIs
<1>3. row[i].got <= SumFunctionOnSet(f, Between(events, row[i].at, row[i].last))
  BY DEF SerialInv, Units, Counted
<1>4. CASE row'[i] = row[i] BY <1>3, <1>4
<1>5. CASE row'[i] # row[i]
  <2>1. i \in DOMAIN seen /\ seen[i] = row[i] BY <1>1, <1>2, <1>5 DEF InHand
  <2> HIDE DEF d, seen, evs
  <2>2. /\ d.delta \in Nat /\ d.last \in Int /\ d.last >= Floor(row[i])
        /\ d.delta <= SumFunctionOnSet(Quantities(evs), Between(evs, Floor(row[i]), d.last))
        /\ row'[i].at = row[i].at /\ row'[i].last = d.last
        /\ row'[i].got <= row[i].got + d.delta
    <3>1. {k \in DOMAIN evs : evs[k].at >= Floor(row[i]) /\ evs[k].at <= d.last}
            = Between(evs, Floor(row[i]), d.last)
      <4>1. /\ Floor(row[i]) \in Int /\ d.last \in Int /\ \A k \in DOMAIN evs : evs[k].at \in Int
        BY <1>1, <1>2, <1>5, ParametersAssumption DEF LocalOK, IsEvents, RowOK, Floor, evs
      <4> QED BY <4>1 DEF Between
    <3> QED BY <1>2, <1>5, <2>1, <3>1
  <2>3. IsEvents(events) /\ IsEvents(evs) BY <1>1, EventsOK DEF LocalOK, evs
  <2>4. SumFunctionOnSet(Quantities(evs), Between(evs, Floor(row[i]), d.last))
          <= SumFunctionOnSet(f, Between(events, Floor(row[i]), d.last))
    <3>1. \A k \in DOMAIN evs : k \in DOMAIN events /\ events[k] = evs[k]
      BY <1>1 DEF InHand, evs
    <3> QED BY <2>3, <3>1, UnitsGrow
  <2>5. IsTransfer(row[i]) BY <1>2, ParametersAssumption DEF RowOK, IsTransfer
  <2>6. SumFunctionOnSet(f, Between(events, row[i].at, row[i].last))
          + SumFunctionOnSet(f, Between(events, Floor(row[i]), d.last))
          <= SumFunctionOnSet(f, Between(events, row[i].at, d.last))
    <3>1. \A k \in DOMAIN events : events[k].at >= 1 BY DEF SerialInv
    <3> QED BY <2>2, <2>3, <2>5, <3>1, CreditFits
  <2> DEFINE before == SumFunctionOnSet(f, Between(events, row[i].at, row[i].last))
             given == SumFunctionOnSet(f, Between(events, Floor(row[i]), d.last))
             found == SumFunctionOnSet(Quantities(evs), Between(evs, Floor(row[i]), d.last))
             after == SumFunctionOnSet(f, Between(events, row[i].at, d.last))
  <2>7. before \in Nat /\ given \in Nat /\ found \in Nat /\ after \in Nat
    BY <2>3, BetweenIs
  <2>8. /\ row[i].got \in Nat /\ row'[i].got \in Nat
    BY <1>2, ParametersAssumption DEF RowOK
  <2>9. row'[i].got <= after
    <3>1. /\ row[i].got <= before /\ d.delta <= found /\ found <= given
          /\ before + given <= after /\ row'[i].got <= row[i].got + d.delta
          /\ d.delta \in Nat
      BY <1>3, <2>2, <2>4, <2>6
    <3> HIDE DEF before, given, found, after
    <3> QED BY <2>7, <2>8, <3>1
  <2> QED BY <2>2, <2>9
<1> QED BY <1>4, <1>5

LEMMA SerialStep == OneScan /\ SerialInv /\ [Next]_vars => SerialInv'
<1> SUFFICES ASSUME OneScan, SerialInv, [Next]_vars PROVE SerialInv'
  OBVIOUS
<1> DEFINE TimesOK == \A k \in DOMAIN events' : events'[k].at >= 1
           CreditsOK == \A i \in Ids : row'[i].got <= SumFunctionOnSet(Quantities(events'),
                                          Between(events', row'[i].at, row'[i].last))
           HandsOK == \A s \in Scans : InHand(scan[s])'
<1>0. /\ LedgerInv /\ LedgerInv'
      /\ \A k \in DOMAIN events : events[k].at >= 1
      /\ \A i \in Ids : row[i].got <= SumFunctionOnSet(Quantities(events),
                                          Between(events, row[i].at, row[i].last))
      /\ \A s \in Scans : InHand(scan[s])
  BY LedgerStep DEF SerialInv, Units, Counted
<1>1. TimesOK /\ CreditsOK /\ HandsOK => SerialInv'
  BY <1>0 DEF SerialInv, Units, Counted
<1>2. IsEvents(events) BY <1>0, EventsOK
<1>3. UNCHANGED events => TimesOK BY <1>0
<1>4. UNCHANGED <<row, events>> => CreditsOK BY <1>0
<1>5. UNCHANGED <<row, events, scan>> => HandsOK BY <1>0 DEF InHand
<1>6. ASSUME NEW s \in Scans, Start(s) \/ Continue(s) \/ Abort(s) PROVE SerialInv'
  <2>1. UNCHANGED events
    BY <1>6 DEF Start, Continue, Abort, SelectNonFulfillment, CancelNonFulfillment, ReadPending,
         FetchEvents, FetchFails, Apply, DrainRead, ReadStock, StockFails, DrainApply, world
  <2>2. HandsOK
    <3>1. PICK c : Set(s, c) /\ (Empty(c) \/ (InHand(c) /\ UNCHANGED row))
      BY <1>6, HandStep
    <3>2. scan'[s] = c /\ \A t \in Scans : t = s BY <1>0, <3>1 DEF Set, LedgerInv, OneScan
    <3>3. InHand(c)'
      <4>1. CASE Empty(c) BY <4>1 DEF Empty, InHand
      <4>2. CASE InHand(c) /\ UNCHANGED row BY <2>1, <4>2 DEF InHand
      <4> QED BY <3>1, <4>1, <4>2
    <3> SUFFICES ASSUME NEW t \in Scans PROVE InHand(scan[t])'
      OBVIOUS
    <3>4. scan'[t] = c BY <3>2
    <3> QED BY <3>3, <3>4 DEF InHand
  <2>3. CreditsOK
    <3>1. ASSUME NEW ids, row' = Cancelled(ids) PROVE CreditsOK
      <4>1. \A i \in Ids : row'[i].got = row[i].got /\ row'[i].at = row[i].at
                           /\ row'[i].last = row[i].last
        BY <1>0, <3>1, CancelledOK
      <4> QED BY <1>0, <2>1, <4>1
    <3>2. CASE CancelNonFulfillment(s) BY <3>1, <3>2 DEF CancelNonFulfillment
    <3>3. CASE DrainApply(s) BY <3>1, <3>3 DEF DrainApply
    <3>4. CASE Apply(s) BY <2>1, <3>4, ApplyCredits
    <3>5. CASE \/ Start(s) \/ SelectNonFulfillment(s) \/ ReadPending(s)
               \/ FetchEvents(s) \/ FetchFails(s) \/ DrainRead(s)
               \/ ReadStock(s) \/ StockFails(s) \/ Abort(s)
      <4>1. UNCHANGED row
        BY <3>5 DEF Start, SelectNonFulfillment, ReadPending, FetchEvents,
           FetchFails, DrainRead, ReadStock, StockFails, Abort
      <4> HIDE DEF CreditsOK
      <4> QED BY <1>4, <2>1, <4>1
    <3> HIDE DEF CreditsOK
    <3> QED BY <1>6, <3>2, <3>3, <3>4, <3>5 DEF Continue
  <2> HIDE DEF TimesOK, CreditsOK, HandsOK
  <2> QED BY <1>1, <1>3, <2>1, <2>2, <2>3
<1>7. ASSUME NEW qty \in 1..MaxQty, Ship(qty) \/ RecordPhantom(qty) PROVE SerialInv'
  <2>1. NewRow(qty) /\ UNCHANGED <<events, scan>> BY <1>7 DEF Ship, RecordPhantom
  <2>2. PICK i \in Ids : /\ row[i].status = "none" /\ row'[i].got = 0
                         /\ \A j \in Ids : j # i => row'[j] = row[j]
    BY <1>0, <2>1, NewRowIs
  <2>3. CreditsOK
    <3> SUFFICES ASSUME NEW j \in Ids
                 PROVE  row'[j].got <= SumFunctionOnSet(Quantities(events),
                                          Between(events, row'[j].at, row'[j].last))
      BY <2>1
    <3>1. CASE j = i
      <4>1. SumFunctionOnSet(Quantities(events), Between(events, row'[j].at, row'[j].last)) \in Nat
        BY <1>2, BetweenIs
      <4> QED BY <2>2, <3>1, <4>1
    <3>2. CASE j # i BY <1>0, <2>2, <3>2
    <3> QED BY <3>1, <3>2
  <2>4. HandsOK
    <3> SUFFICES ASSUME NEW s \in Scans PROVE InHand(scan[s])'
      OBVIOUS
    <3>1. InHand(scan[s]) /\ scan'[s] = scan[s] /\ LocalOK(scan[s])
      BY <1>0, <2>1 DEF LedgerInv
    <3>2. \A j \in DOMAIN scan[s].seen : row'[j] = row[j]
      BY <2>2, <3>1 DEF InHand, LocalOK
    <3>3. \A j \in scan[s].doomed : row'[j] = row[j]
      BY <2>2, <3>1 DEF InHand
    <3> QED BY <2>1, <3>1, <3>2, <3>3 DEF InHand
  <2> HIDE DEF TimesOK, CreditsOK, HandsOK
  <2> QED BY <1>1, <1>3, <2>1, <2>3, <2>4
<1>8. ASSUME NEW qty \in 1..MaxQty, Arrive(qty) PROVE SerialInv'
  <2> DEFINE e == [at |-> now + 1, qty |-> qty]
  <2>1. UNCHANGED <<row, scan>> /\ events' = Append(events, e) BY <1>8 DEF Arrive
  <2>2. e.at \in Int /\ e.at >= 1 /\ e.qty \in Nat BY <1>0 DEF LedgerInv
  <2> HIDE DEF e
  <2>3. /\ DOMAIN events' = DOMAIN events \cup {Len(events) + 1}
        /\ events'[Len(events) + 1] = e
        /\ \A k \in DOMAIN events : events'[k] = events[k]
    <3> DEFINE A == [at : Nat, qty : Nat]
               B == A \cup {e}
    <3>1. events \in Seq(A) BY <1>0 DEF LedgerInv
    <3> HIDE DEF A
    <3>2. events \in Seq(B) /\ e \in B BY <3>1
    <3> HIDE DEF B
    <3>3. /\ DOMAIN events = 1..Len(events) /\ Len(events) \in Nat
          /\ DOMAIN Append(events, e) = 1..(Len(events) + 1)
          /\ \A k \in 1..Len(events) : Append(events, e)[k] = events[k]
          /\ Append(events, e)[Len(events) + 1] = e
      BY <3>2
    <3> QED BY <2>1, <3>3
  <2>4. TimesOK BY <1>0, <2>2, <2>3
  <2>5. IsEvents(events')
    <3>1. IsFiniteSet(DOMAIN events') BY <1>2, <2>3, FS_AddElement DEF IsEvents
    <3>2. Len(events) \in Nat BY <1>0, EventsAre
    <3> QED BY <1>2, <2>2, <2>3, <3>1, <3>2 DEF IsEvents
  <2>6. CreditsOK
    <3> SUFFICES ASSUME NEW i \in Ids
                 PROVE  row[i].got <= SumFunctionOnSet(Quantities(events'),
                                          Between(events', row[i].at, row[i].last))
      BY <2>1
    <3> DEFINE old == SumFunctionOnSet(Quantities(events),
                          Between(events, row[i].at, row[i].last))
               new == SumFunctionOnSet(Quantities(events'),
                          Between(events', row[i].at, row[i].last))
    <3>1. old <= new
      <4>1. \A k \in DOMAIN events : k \in DOMAIN events' /\ events'[k] = events[k] BY <2>3
      <4> QED BY <1>2, <2>5, <4>1, UnitsGrow
    <3>2. old \in Nat /\ new \in Nat BY <1>2, <2>5, BetweenIs
    <3>3. row[i].got <= old /\ row[i].got \in Nat
      BY <1>0, ParametersAssumption DEF LedgerInv, RowOK
    <3> HIDE DEF old, new
    <3>4. row[i].got <= new BY <3>1, <3>2, <3>3
    <3> QED BY <3>4 DEF new
  <2>7. HandsOK BY <1>0, <2>1, <2>3 DEF InHand
  <2> HIDE DEF TimesOK, CreditsOK, HandsOK
  <2> QED BY <1>1, <2>4, <2>6, <2>7
<1>9. CASE Delist \/ Relist \/ Tick \/ UNCHANGED vars
  <2>1. UNCHANGED <<row, events, scan>> BY <1>9 DEF Delist, Relist, Tick, vars
  <2> HIDE DEF TimesOK, CreditsOK, HandsOK
  <2> QED BY <1>1, <1>3, <1>4, <1>5, <2>1
<1> QED BY <1>6, <1>7, <1>8, <1>9 DEF Next

\* One scan at a time credits no event to a row twice: whatever fails or aborts
\* between its sessions, and however often it runs, a row never has more units than
\* arrived since it was recorded, because what it was given so far arrived no later
\* than its last_credited_event_date and what it will be given arrived after.
THEOREM SerialCredits == OneScan => (Spec => []RowCreditedOnce)
<1>1. SerialInv => RowCreditedOnce
  <2> SUFFICES ASSUME SerialInv, NEW i \in Ids
               PROVE  row[i].got <= Units({k \in DOMAIN events : events[k].at >= row[i].at})
    BY DEF RowCreditedOnce
  <2> DEFINE f == Quantities(events)
             U == Counted(row[i])
             V == {k \in DOMAIN events : events[k].at >= row[i].at}
  <2>1. LedgerInv /\ IsEvents(events) /\ RowOK(row[i]) BY EventsOK DEF SerialInv, LedgerInv
  <2>2. row[i].got <= SumFunctionOnSet(f, U) BY DEF SerialInv, Units
  <2>3. U \in SUBSET V /\ V \in SUBSET DOMAIN events
    BY <2>1 DEF Counted, Between, RowOK, IsEvents
  <2>4. \A k \in DOMAIN events : f[k] \in Nat BY <2>1, BetweenIs
  <2> HIDE DEF f, U, V
  <2>5. IsFiniteSet(V) BY <2>1, <2>3, FS_Subset DEF IsEvents
  <2>6. IsFiniteSet(U) BY <2>3, <2>5, FS_Subset
  <2>7. (\A k \in V : f[k] \in Nat) /\ (\A k \in U : f[k] \in Nat /\ f[k] <= f[k])
    BY <2>3, <2>4
  <2>8. SumFunctionOnSet(f, U) <= SumFunctionOnSet(f, V) BY <2>3, <2>5, <2>7, SumGrows
  <2>9. SumFunctionOnSet(f, U) \in Nat /\ SumFunctionOnSet(f, V) \in Nat
    <3>1. SumFunctionOnSet(f, U) \in Nat BY <2>6, <2>7, SumNat
    <3>2. SumFunctionOnSet(f, V) \in Nat BY <2>5, <2>7, SumNat
    <3> QED BY <3>1, <3>2
  <2>10. row[i].got \in Nat BY <2>1, ParametersAssumption DEF RowOK
  <2>11. row[i].got <= SumFunctionOnSet(f, V) BY <2>2, <2>8, <2>9, <2>10
  <2> QED BY <2>11 DEF f, V, Units
<1> SUFFICES ASSUME OneScan PROVE Spec => []RowCreditedOnce
  OBVIOUS
<1>2. SerialInv /\ [Next]_vars => SerialInv' BY SerialStep
<1> QED BY SerialInit, <1>1, <1>2, PTL DEF Spec

\* One scan at a time leaves a settled row as it is: mark_cancelled and the credits
\* do not ask for the status again, but nobody has changed it since it was read.
THEOREM SerialFinal == OneScan => (Spec => FinalStatus)
<1> SUFFICES ASSUME OneScan PROVE Spec => FinalStatus
  OBVIOUS
<1> DEFINE Kept1 == \A i \in Ids : row[i].status \in {"received", "cancelled"}
                                    => row'[i].status = row[i].status
<1>1. ASSUME SerialInv, [Next]_vars PROVE Kept1
  <2>1. LedgerInv BY <1>1 DEF SerialInv
  <2>2. UNCHANGED row => Kept1 OBVIOUS
  <2>3. ASSUME NEW ids, row' = Cancelled(ids),
               \A i \in ids : i \in Ids /\ row[i].status = "pending"
        PROVE  Kept1
    BY <2>1, <2>3, CancelledOK
  <2>4. ASSUME NEW s \in Scans, Start(s) \/ Continue(s) \/ Abort(s) PROVE Kept1
    <3>1. CASE CancelNonFulfillment(s)
      <4>1. \A i \in scan[s].doomed : i \in Ids /\ row[i].status = "pending"
        BY <1>1 DEF SerialInv, InHand
      <4> QED BY <2>3, <3>1, <4>1 DEF CancelNonFulfillment
    <3>2. CASE DrainApply(s)
      <4>1. \A i \in Drained(scan[s]) : i \in Ids /\ row[i].status = "pending"
        BY <1>1, DrainedPending
      <4> QED BY <2>3, <3>2, <4>1 DEF DrainApply
    <3>3. CASE Apply(s)
      <4> SUFFICES ASSUME NEW i \in Ids, row[i].status \in {"received", "cancelled"}
                   PROVE  row'[i].status = row[i].status
        OBVIOUS
      <4>1. row'[i] = row[i] \/ i \in DOMAIN scan[s].seen BY <2>1, <3>3, ApplyIs
      <4>2. i \notin DOMAIN scan[s].seen BY <1>1 DEF SerialInv, InHand
      <4> QED BY <4>1, <4>2
    <3>4. CASE \/ Start(s) \/ SelectNonFulfillment(s) \/ ReadPending(s)
               \/ FetchEvents(s) \/ FetchFails(s) \/ DrainRead(s)
               \/ ReadStock(s) \/ StockFails(s) \/ Abort(s)
      <4>1. UNCHANGED row
        BY <3>4 DEF Start, SelectNonFulfillment, ReadPending, FetchEvents,
           FetchFails, DrainRead, ReadStock, StockFails, Abort
      <4> QED BY <2>2, <4>1
    <3> HIDE DEF Kept1
    <3> QED BY <2>4, <3>1, <3>2, <3>3, <3>4 DEF Continue
  <2>5. ASSUME NEW qty \in 1..MaxQty, Ship(qty) \/ RecordPhantom(qty) PROVE Kept1
    <3>1. NewRow(qty) BY <2>5 DEF Ship, RecordPhantom
    <3>2. PICK i \in Ids : /\ row[i].status = "none"
                           /\ \A j \in Ids : j # i => row'[j] = row[j]
      BY <2>1, <3>1, NewRowIs
    <3> QED BY <3>2
  <2>6. ASSUME NEW qty \in 1..MaxQty, Arrive(qty) PROVE Kept1
    BY <2>2, <2>6 DEF Arrive
  <2>7. CASE Delist \/ Relist \/ Tick \/ UNCHANGED vars
    BY <2>2, <2>7 DEF Delist, Relist, Tick, vars
  <2> HIDE DEF Kept1
  <2> QED BY <1>1, <2>4, <2>5, <2>6, <2>7 DEF Next
<1>2. SerialInv /\ [Next]_vars => SerialInv' BY SerialStep
<1>3. SerialInv /\ [Next]_vars => [Kept1]_vars BY <1>1
<1> HIDE DEF Kept1
<1>4. Spec => [][Kept1]_vars BY SerialInit, <1>2, <1>3, PTL DEF Spec
<1> QED BY <1>4 DEF FinalStatus, Kept1

---------------------------------------------------------------------------
(* What the pending rows still lack                                        *)

LEMMA SumAdd ==
    ASSUME NEW S, IsFiniteSet(S), NEW f, NEW g, NEW h,
           \A x \in S : f[x] \in Nat /\ g[x] \in Nat /\ h[x] = f[x] + g[x]
    PROVE  SumFunctionOnSet(h, S) = SumFunctionOnSet(f, S) + SumFunctionOnSet(g, S)
<1> DEFINE P == {s \in SUBSET S : SumFunctionOnSet(h, s)
                                    = SumFunctionOnSet(f, s) + SumFunctionOnSet(g, s)}
<1>1. ASSUME NEW s \in SUBSET S, \A x \in s : s \ {x} \in P PROVE s \in P
  <2>1. CASE s = {}
    <3>1. /\ SumFunctionOnSet(f, {}) = 0 /\ SumFunctionOnSet(g, {}) = 0
          /\ SumFunctionOnSet(h, {}) = 0
      BY SumZero, FS_EmptySet
    <3> QED BY <2>1, <3>1
  <2>2. CASE s # {}
    <3>1. PICK x \in s : TRUE BY <2>2
    <3>2. SumFunctionOnSet(h, s \ {x})
            = SumFunctionOnSet(f, s \ {x}) + SumFunctionOnSet(g, s \ {x})
      BY <1>1, <3>1
    <3>3. IsFiniteSet(s) /\ IsFiniteSet(s \ {x}) BY FS_Subset
    <3>4. /\ \A y \in s : f[y] \in Nat /\ g[y] \in Nat /\ h[y] \in Nat
          /\ h[x] = f[x] + g[x] /\ f[x] \in Nat /\ g[x] \in Nat
      OBVIOUS
    <3>5. SumFunctionOnSet(f, s) = f[x] + SumFunctionOnSet(f, s \ {x})
      BY <3>1, <3>3, <3>4, SumSplit
    <3>6. SumFunctionOnSet(g, s) = g[x] + SumFunctionOnSet(g, s \ {x})
      BY <3>1, <3>3, <3>4, SumSplit
    <3>7. SumFunctionOnSet(h, s) = h[x] + SumFunctionOnSet(h, s \ {x})
      BY <3>1, <3>3, <3>4, SumSplit
    <3>8. SumFunctionOnSet(f, s \ {x}) \in Nat BY <3>3, <3>4, SumNat
    <3>9. SumFunctionOnSet(g, s \ {x}) \in Nat BY <3>3, <3>4, SumNat
    <3>10. SumFunctionOnSet(h, s) = SumFunctionOnSet(f, s) + SumFunctionOnSet(g, s)
      BY <3>2, <3>4, <3>5, <3>6, <3>7, <3>8, <3>9
    <3> QED BY <3>10
  <2> QED BY <2>1, <2>2
<1> HIDE DEF P
<1>2. S \in SUBSET S /\ \A s \in SUBSET S : s \in P BY <1>1, SetInduction
<1> QED BY <1>2 DEF P

\* The oldest time among the rows.
LEMMA MinSince ==
    ASSUME NEW T, IsTransfers(T), DOMAIN T # {}
    PROVE  Min(Since(T)) \in Int /\ \A i \in DOMAIN T : Min(Since(T)) <= T[i].at
<1> DEFINE f == [i \in DOMAIN T |-> T[i].at]
           D == DOMAIN T
<1>1. D \in SUBSET Int /\ IsFiniteSet(D) /\ D # {} /\ \A i \in D : f[i] \in Int
  BY DEF IsTransfers, IsTransfer
<1>2. PICK m \in D : \A j \in D : f[m] <= f[j]
  <2> HIDE DEF f, D
  <2> QED BY <1>1, LeastIs
<1>3. T[m].at \in Since(T) /\ \A y \in Since(T) : T[m].at =< y
  BY <1>2 DEF Since
<1>4. Min(Since(T)) \in Since(T) /\ \A y \in Since(T) : Min(Since(T)) =< y
  BY <1>3 DEF Min
<1>5. \A i \in DOMAIN T : T[i].at \in Since(T) BY DEF Since
<1>6. Min(Since(T)) \in Int BY <1>1, <1>4 DEF Since
<1> QED BY <1>4, <1>5, <1>6

Owed(rows) ==
    [i \in Ids |-> IF rows[i].status = "pending" THEN Outstanding(rows[i]) ELSE 0]
OwedAll(rows) == SumFunctionOnSet(Owed(rows), Ids)
OwedFrom(rows, time) == SumFunctionOnSet(Owed(rows), {i \in Ids : Floor(rows[i]) >= time})

RowsOK(rows) == DOMAIN rows = Ids /\ \A i \in Ids : RowOK(rows[i])

LEMMA OwedIs ==
    ASSUME NEW rows, RowsOK(rows)
    PROVE  /\ \A i \in Ids : IsTransfer(rows[i]) /\ Floor(rows[i]) \in Int
           /\ \A i \in Ids : Owed(rows)[i] \in Nat
           /\ OwedAll(rows) \in Nat
           /\ \A time : OwedFrom(rows, time) \in Nat /\ OwedFrom(rows, time) <= OwedAll(rows)
<1> USE ParametersAssumption
<1>1. \A i \in Ids : IsTransfer(rows[i]) BY DEF RowsOK, RowOK, IsTransfer
<1>2. \A i \in Ids : Floor(rows[i]) \in Int BY <1>1 DEF IsTransfer, Floor, Never
<1>3. \A i \in Ids : Outstanding(rows[i]) \in Nat BY <1>1, OutstandingNat
<1>4. \A i \in Ids : Owed(rows)[i] \in Nat BY <1>3 DEF Owed
<1>5. OwedAll(rows) \in Nat BY <1>4, SumNat DEF OwedAll
<1>6. ASSUME NEW time
      PROVE  OwedFrom(rows, time) \in Nat /\ OwedFrom(rows, time) <= OwedAll(rows)
  <2> DEFINE U == {i \in Ids : Floor(rows[i]) >= time}
             f == Owed(rows)
  <2>1. U \in SUBSET Ids OBVIOUS
  <2> HIDE DEF U
  <2>2. IsFiniteSet(U) BY <2>1, FS_Subset
  <2>3. (\A i \in Ids : f[i] \in Nat) /\ \A i \in U : f[i] \in Nat /\ f[i] <= f[i]
    BY <1>4, <2>1
  <2> HIDE DEF f
  <2>4. SumFunctionOnSet(f, U) \in Nat BY <2>2, <2>3, SumNat
  <2>5. SumFunctionOnSet(f, U) <= SumFunctionOnSet(f, Ids) BY <2>1, <2>3, SumGrows
  <2> QED BY <2>4, <2>5 DEF OwedFrom, OwedAll, U, f
<1> QED BY <1>1, <1>2, <1>4, <1>5, <1>6

LEMMA OwedShrinks ==
    ASSUME NEW rows, RowsOK(rows), NEW rows1, RowsOK(rows1),
           \A i \in Ids : Owed(rows1)[i] <= Owed(rows)[i]
    PROVE  OwedAll(rows1) <= OwedAll(rows)
<1> DEFINE f == Owed(rows1)
           g == Owed(rows)
<1>1. \A i \in Ids : f[i] \in Nat /\ g[i] \in Nat /\ f[i] <= g[i] BY OwedIs
<1> HIDE DEF f, g
<1>2. SumFunctionOnSet(f, Ids) <= SumFunctionOnSet(g, Ids)
  BY <1>1, SumGrows, ParametersAssumption
<1> QED BY <1>2 DEF OwedAll, f, g

LEMMA ArrivedNat ==
    ASSUME NEW E, IsEvents(E), NEW time
    PROVE  ArrivedFrom(E, time) \in Nat
<1>1. \A k \in DOMAIN E : Quantities(E)[k] \in Nat BY DEF Quantities, IsEvents
<1>2. SumFunctionOnSet(Quantities(E), From(E, DOMAIN E, time)) \in Nat BY <1>1, FromIs
<1> QED BY <1>2 DEF ArrivedFrom, From

\* What a scan credits to a row, the row then lacks less.
LEMMA ReceivedOwes ==
    ASSUME NEW r, RowOK(r), NEW units \in Nat, units > 0, NEW at \in Int
    PROVE  LET x == Received(r, units, at) IN
           /\ r.status # "pending" => x.status # "pending"
           /\ r.status = "pending" =>
                /\ x.status = "pending" => Outstanding(x) = Outstanding(r) - units
                /\ x.status # "pending" => Outstanding(r) <= units
<1> USE ParametersAssumption
<1> DEFINE x == Received(r, units, at)
<1>1. /\ DOMAIN x = Columns
      /\ x.qty = r.qty /\ x.got = Min({r.qty, r.got + units})
      /\ x.status = IF r.got + units >= r.qty THEN "received" ELSE r.status
  BY DEF RowOK, Received, Columns
<1>2. r.qty \in Int /\ r.got \in Int BY DEF RowOK
<1>3. Min({r.qty, r.got + units}) = IF r.qty <= r.got + units THEN r.qty ELSE r.got + units
  BY <1>2, MinOfTwo
<1> HIDE DEF x
<1>4. r.status # "pending" => x.status # "pending" BY <1>1
<1>5. ASSUME r.status = "pending", x.status = "pending"
      PROVE  Outstanding(x) = Outstanding(r) - units
  <2>1. r.got + units < r.qty BY <1>1, <1>2, <1>5
  <2>2. x.got = r.got + units BY <1>1, <1>2, <1>3, <2>1
  <2> QED BY <1>1, <1>2, <2>1, <2>2 DEF Outstanding
<1>6. ASSUME r.status = "pending", x.status # "pending" PROVE Outstanding(r) <= units
  <2>1. r.got + units >= r.qty BY <1>1, <1>6
  <2> QED BY <1>2, <2>1 DEF Outstanding
<1> QED BY <1>4, <1>5, <1>6 DEF x

\* What is zero need not be counted.
LEMMA SumSupport ==
    ASSUME NEW S, IsFiniteSet(S), NEW T \in SUBSET S, NEW f, \A x \in S : f[x] \in Nat,
           \A x \in S \ T : f[x] = 0
    PROVE  SumFunctionOnSet(f, S) = SumFunctionOnSet(f, T)
<1> DEFINE R == S \ T
<1>1. T \cup R = S /\ T \cap R = {} OBVIOUS
<1>2. \A x \in R : f[x] = 0 OBVIOUS
<1>3. R \in SUBSET S OBVIOUS
<1> HIDE DEF R
<1>4. IsFiniteSet(T) /\ IsFiniteSet(R) BY <1>3, FS_Subset
<1>5. SumFunctionOnSet(f, R) = 0 BY <1>2, <1>4, SumZero
<1>6. \A x \in T \cup R : f[x] \in Nat BY <1>1
<1>7. SumFunctionOnSet(f, S) = SumFunctionOnSet(f, T) + SumFunctionOnSet(f, R)
  <2>1. SumFunctionOnSet(f, T \cup R) = SumFunctionOnSet(f, T) + SumFunctionOnSet(f, R)
    BY <1>1, <1>4, <1>6, SumUnion
  <2> QED BY <1>1, <2>1
<1>8. SumFunctionOnSet(f, T) \in Nat
  <2>1. \A x \in T : f[x] \in Nat OBVIOUS
  <2> QED BY <1>4, <2>1, SumNat
<1> QED BY <1>5, <1>7, <1>8

\* What the rows of T lack after the credits of a matching, when from every time on
\* what they lack is on its way or has arrived: no more than what is on its way.
LEMMA MatchClears ==
    ASSUME NEW T, IsTransfers(T), NEW E, IsEvents(E), NEW units \in Nat,
           \A i \in DOMAIN T :
              SumFunctionOnSet(Lacking(T), Due(T, DOMAIN T, Floor(T[i])))
                <= units + ArrivedFrom(E, Floor(T[i])),
           NEW rest,
           \A i \in DOMAIN T : rest[i] = Outstanding(T[i]) - Match(T, E)[i].delta
    PROVE  /\ \A i \in DOMAIN T : rest[i] \in Nat
           /\ SumFunctionOnSet(rest, DOMAIN T) <= units
<1> DEFINE S == DOMAIN T
           D == Match(T, E)
           f == Deltas(D)
           g == Lacking(T)
<1>1. IsFiniteSet(S) BY DEF IsTransfers
<1>2. NoUnitTwice(T, E, D) /\ CreditsAllItCan(T, E, D) BY MatchFifo DEF Fifo
<1>3. DOMAIN D = S
  <2>1. PICK acc \in Matchings(T, E) : Match(T, E) = acc.out BY MatchingIs
  <2> QED BY <2>1 DEF Matchings
<1>4. \A i \in S : IsTransfer(T[i]) /\ Outstanding(T[i]) \in Nat
  BY OutstandingNat DEF IsTransfers
<1>5. \A i \in S : D[i].delta \in 0..Outstanding(T[i]) BY <1>2 DEF NoUnitTwice
<1> HIDE DEF D
<1>6. \A i \in S : f[i] = D[i].delta /\ g[i] = Outstanding(T[i])
  BY <1>3 DEF Deltas, Lacking
<1> HIDE DEF f, g, S
<1>7. \A i \in S : f[i] \in Nat /\ g[i] \in Nat /\ rest[i] \in Nat /\ g[i] = f[i] + rest[i]
  BY <1>4, <1>5, <1>6 DEF D, S
<1>8. SumFunctionOnSet(g, S) = SumFunctionOnSet(f, S) + SumFunctionOnSet(rest, S)
  BY <1>1, <1>7, SumAdd
<1>9. /\ SumFunctionOnSet(f, S) \in Nat /\ SumFunctionOnSet(rest, S) \in Nat
      /\ SumFunctionOnSet(g, S) \in Nat
  <2>1. SumFunctionOnSet(f, S) \in Nat BY <1>1, <1>7, SumNat
  <2>2. SumFunctionOnSet(rest, S) \in Nat BY <1>1, <1>7, SumNat
  <2>3. SumFunctionOnSet(g, S) \in Nat BY <1>1, <1>7, SumNat
  <2> QED BY <2>1, <2>2, <2>3
<1>10. CASE SumFunctionOnSet(f, S) = SumFunctionOnSet(g, S)
  BY <1>7, <1>8, <1>9, <1>10 DEF S
<1>11. CASE SumFunctionOnSet(f, S) # SumFunctionOnSet(g, S)
  <2>1. PICK i \in S : SumFunctionOnSet(f, S)
                         = SumFunctionOnSet(g, {j \in S : Floor(T[j]) < Floor(T[i])})
                             + ArrivedFrom(E, Floor(T[i]))
    BY <1>2, <1>11 DEF CreditsAllItCan, f, g, S
  <2> DEFINE early == {j \in S : Floor(T[j]) < Floor(T[i])}
             late == Due(T, S, Floor(T[i]))
  <2>2. \A j \in S : Floor(T[j]) \in Int BY <1>4 DEF IsTransfer, Floor, Never
  <2>3. early \in SUBSET S /\ late \in SUBSET S /\ early \cap late = {} /\ early \cup late = S
    BY <2>2 DEF Due
  <2>4. SumFunctionOnSet(f, S) = SumFunctionOnSet(g, early) + ArrivedFrom(E, Floor(T[i]))
    BY <2>1
  <2>5. SumFunctionOnSet(g, late) <= units + ArrivedFrom(E, Floor(T[i])) BY DEF S, g
  <2> HIDE DEF early, late
  <2>6. IsFiniteSet(early) /\ IsFiniteSet(late) BY <1>1, <2>3, FS_Subset
  <2>7. \A j \in early \cup late : g[j] \in Nat BY <1>7, <2>3
  <2>8. SumFunctionOnSet(g, S) = SumFunctionOnSet(g, early) + SumFunctionOnSet(g, late)
    <3>1. SumFunctionOnSet(g, early \cup late)
            = SumFunctionOnSet(g, early) + SumFunctionOnSet(g, late)
      BY <2>3, <2>6, <2>7, SumUnion
    <3> QED BY <2>3, <3>1
  <2>9. SumFunctionOnSet(g, early) \in Nat /\ SumFunctionOnSet(g, late) \in Nat
    <3>1. SumFunctionOnSet(g, early) \in Nat BY <2>6, <2>7, SumNat
    <3>2. SumFunctionOnSet(g, late) \in Nat BY <2>6, <2>7, SumNat
    <3> QED BY <3>1, <3>2
  <2>10. ArrivedFrom(E, Floor(T[i])) \in Nat BY ArrivedNat
  <2>11. SumFunctionOnSet(rest, S) <= units
    BY <1>8, <1>9, <2>4, <2>5, <2>8, <2>9, <2>10
  <2> QED BY <1>7, <2>11 DEF S
<1> QED BY <1>10, <1>11

---------------------------------------------------------------------------
(* What the rows owe and what is to come                                   *)

\* When all that the rows owe is on its way, it is so from every time on.
LEMMA ClearedCovers ==
    ASSUME NEW rows, RowsOK(rows), NEW E, IsEvents(E), NEW units \in Nat,
           OwedAll(rows) <= units
    PROVE  \A time \in Int : OwedFrom(rows, time) <= units + ArrivedFrom(E, time)
<1> SUFFICES ASSUME NEW time \in Int
             PROVE  OwedFrom(rows, time) <= units + ArrivedFrom(E, time)
  OBVIOUS
<1>1. OwedAll(rows) \in Nat /\ OwedFrom(rows, time) \in Nat
      /\ OwedFrom(rows, time) <= OwedAll(rows)
  BY OwedIs
<1>2. ArrivedFrom(E, time) \in Nat BY ArrivedNat
<1> QED BY <1>1, <1>2

PendingOf(rows) == {i \in Ids : rows[i].status = "pending"}

\* What the rows owe is what the pending ones of them lack.
LEMMA PendingOwe ==
    ASSUME NEW rows, RowsOK(rows), NEW T, DOMAIN T = PendingOf(rows),
           \A i \in DOMAIN T : T[i] = rows[i]
    PROVE  /\ IsTransfers(T)
           /\ \A i \in Ids : Owed(rows)[i]
                               = IF i \in DOMAIN T THEN Outstanding(T[i]) ELSE 0
           /\ OwedAll(rows) = SumFunctionOnSet(Lacking(T), DOMAIN T)
           /\ \A time : OwedFrom(rows, time)
                          = SumFunctionOnSet(Lacking(T), Due(T, DOMAIN T, time))
<1> USE ParametersAssumption
<1> DEFINE f == Owed(rows)
           g == Lacking(T)
           S == DOMAIN T
<1>1. S \in SUBSET Ids BY DEF PendingOf
<1>2. \A i \in Ids : f[i] = IF i \in S THEN Outstanding(T[i]) ELSE 0 BY DEF Owed, PendingOf
<1>3. \A i \in S : g[i] = Outstanding(T[i]) BY DEF Lacking
<1>4. \A i \in Ids : f[i] \in Nat BY OwedIs
<1> HIDE DEF f, g
<1>5. IsTransfers(T)
  <2>1. IsFiniteSet(DOMAIN T) BY <1>1, FS_Subset
  <2>2. \A i \in Ids : i \in Int /\ IsTransfer(rows[i])
    <3>1. \A i \in Ids : IsTransfer(rows[i]) BY OwedIs
    <3> QED BY <3>1, ParametersAssumption
  <2>3. ASSUME NEW i \in DOMAIN T PROVE i \in Int /\ IsTransfer(T[i])
    <3>1. i \in Ids /\ T[i] = rows[i] BY <1>1
    <3> QED BY <2>2, <3>1
  <2> QED BY <2>1, <2>3 DEF IsTransfers
<1>6. IsFiniteSet(S) BY <1>1, FS_Subset
<1> HIDE DEF S
<1>7. SumFunctionOnSet(f, Ids) = SumFunctionOnSet(g, S)
  <2>1. SumFunctionOnSet(f, Ids) = SumFunctionOnSet(f, S)
    <3>1. \A i \in Ids \ S : f[i] = 0 BY <1>2
    <3> QED BY <1>1, <1>4, <3>1, SumSupport
  <2>2. \A i \in S : f[i] \in Nat /\ f[i] = g[i] BY <1>1, <1>2, <1>3, <1>4
  <2>3. SumFunctionOnSet(f, S) = SumFunctionOnSet(g, S) BY <1>6, <2>2, SumSame
  <2> QED BY <2>1, <2>3
<1>8. ASSUME NEW time
      PROVE  SumFunctionOnSet(f, {i \in Ids : Floor(rows[i]) >= time})
               = SumFunctionOnSet(g, Due(T, S, time))
  <2> DEFINE U == {i \in Ids : Floor(rows[i]) >= time}
             V == Due(T, S, time)
  <2>1. V = U \cap S /\ U \in SUBSET Ids BY <1>1 DEF Due, S
  <2> HIDE DEF U, V
  <2>2. V \in SUBSET U /\ V \in SUBSET S BY <2>1
  <2>3. IsFiniteSet(U) /\ IsFiniteSet(V) BY <1>6, <2>1, <2>2, FS_Subset
  <2>4. (\A i \in U : f[i] \in Nat) /\ (\A i \in U \ V : f[i] = 0) BY <1>2, <1>4, <2>1
  <2>5. SumFunctionOnSet(f, U) = SumFunctionOnSet(f, V) BY <2>2, <2>3, <2>4, SumSupport
  <2>6. \A i \in V : f[i] \in Nat /\ f[i] = g[i] BY <1>1, <1>2, <1>3, <1>4, <2>2
  <2>7. SumFunctionOnSet(f, V) = SumFunctionOnSet(g, V) BY <2>3, <2>6, SumSame
  <2>8. SumFunctionOnSet(f, U) = SumFunctionOnSet(g, V) BY <2>5, <2>7
  <2> QED BY <2>8 DEF U, V
<1> QED BY <1>2, <1>5, <1>7, <1>8 DEF OwedAll, OwedFrom, f, g, S

\* What arrived is found among the events that are fetched.
LEMMA InboundAll ==
    ASSUME LedgerInv, NEW first \in Int, NEW time \in Int, first <= time
    PROVE  ArrivedFrom(InboundSince(first), time) = ArrivedFrom(events, time)
<1> DEFINE E == InboundSince(first)
           U == From(events, DOMAIN events, time)
           f == Quantities(events)
           g == Quantities(E)
<1>1. IsEvents(events) BY EventsOK
<1>2. IsEvents(E) /\ DOMAIN E = {k \in DOMAIN events : events[k].at >= first}
      /\ \A k \in DOMAIN E : E[k] = events[k]
  BY InboundIs DEF InboundSince
<1>3. From(E, DOMAIN E, time) = U
  <2>1. \A k \in DOMAIN events : events[k].at \in Int BY <1>1 DEF IsEvents
  <2> HIDE DEF E
  <2> QED BY <1>2, <2>1 DEF From
<1>4. \A k \in U : f[k] \in Nat /\ f[k] = g[k]
  <2>1. \A k \in DOMAIN events : events[k].qty \in Nat BY <1>1 DEF IsEvents
  <2>2. \A k \in U : k \in DOMAIN events /\ k \in DOMAIN E BY <1>3 DEF From
  <2> HIDE DEF E, U
  <2> QED BY <1>2, <2>1, <2>2 DEF Quantities
<1>5. U \in SUBSET DOMAIN events BY DEF From
<1>6. IsFiniteSet(U) BY <1>1, <1>5, FS_Subset DEF IsEvents
<1> HIDE DEF f, g, U
<1>7. SumFunctionOnSet(f, U) = SumFunctionOnSet(g, U) BY <1>4, <1>6, SumSame
<1> QED BY <1>3, <1>7 DEF ArrivedFrom, From, f, g, U

\* list_all returns every pending row when there are no more rows than its limit.
LEMMA ListingAll ==
    ASSUME Cardinality(Ids) <= Limit, LedgerInv
    PROVE  DOMAIN Listing(Pending) = Pending
<1> USE ParametersAssumption
<1>1. ASSUME NEW i \in Pending
      PROVE  Cardinality({j \in Pending : row[j].at > row[i].at}) < Limit
  <2> DEFINE Y == {j \in Pending : row[j].at > row[i].at}
  <2>1. i \in Ids /\ row[i].at \in Nat BY DEF Pending, LedgerInv, RowOK
  <2>2. Y \in SUBSET Ids /\ i \notin Y BY <2>1 DEF Pending
  <2> HIDE DEF Y
  <2>3. IsFiniteSet(Y) /\ Cardinality(Y) <= Cardinality(Ids)
        /\ (Cardinality(Y) = Cardinality(Ids) => Y = Ids)
    BY <2>2, FS_Subset
  <2>4. Cardinality(Y) \in Nat /\ Cardinality(Ids) \in Nat BY <2>3, FS_CardinalityType
  <2>5. Cardinality(Y) < Limit BY <2>1, <2>2, <2>3, <2>4
  <2> QED BY <2>5 DEF Y
<1> QED BY <1>1 DEF Listing

---------------------------------------------------------------------------
(* Nothing that arrived is drained                                         *)

\* Every row was shipped, and no step of a scan has failed.
Calm == phantoms = 0 /\ delistings = 0 /\ failures = 0

\* All that the pending rows lack is on its way.
Cleared == OwedAll(row) <= transit

\* What a scan has read is still all there is.
Fresh(c) ==
    /\ DOMAIN c.seen = Pending /\ \A i \in DOMAIN c.seen : c.seen[i] = row[i]
    /\ c.step = "apply" => c.evs = InboundSince(Min(Since(c.seen)))

\* A scan that has matched leaves nothing due.
Progress(c) ==
    /\ c.step # "cancel"
    /\ c.step \in {"fetch", "apply"} => Cleared \/ Fresh(c)
    /\ c.step \in {"drain", "stock", "settle"} => Cleared
    /\ c.step \in {"stock", "settle"} => transit > 0
    /\ \A k \in DOMAIN c.evs : c.evs[k].at <= now

\* From every time on, what the rows lack is on its way or has arrived.
Accounted ==
    /\ listed /\ transit \in Nat
    /\ \A i \in Ids : row[i].at <= now /\ row[i].last <= now
    /\ \A k \in DOMAIN events : events[k].at <= now
    /\ \A time \in Int : OwedFrom(row, time) <= transit + ArrivedFrom(events, time)
    /\ \A s \in Scans : Progress(scan[s])

\* The inductive invariant of ArrivedNotDrained.
QuietInv ==
    /\ LedgerInv
    /\ phantoms \in Nat /\ delistings \in Nat /\ failures \in Nat
    /\ Calm => Accounted

\* A matching over all the pending rows and all the events they may use leaves to the
\* rows only what is on its way.
LEMMA ApplyClears ==
    ASSUME LedgerInv, Accounted, NEW s \in Scans, Apply(s), Fresh(scan[s])
    PROVE  OwedAll(row') <= transit
<1> DEFINE T == scan[s].seen
           E == scan[s].evs
           D == Match(T, E)
           rest == [i \in DOMAIN T |-> Outstanding(T[i]) - D[i].delta]
<1>1. DOMAIN T = PendingOf(row) /\ \A i \in DOMAIN T : T[i] = row[i]
  BY DEF Fresh, PendingOf, Pending
<1>2. RowsOK(row) /\ IsEvents(E) /\ transit \in Nat
  BY DEF LedgerInv, RowsOK, LocalOK, Accounted
<1>3. E = InboundSince(Min(Since(T))) BY DEF Fresh, Apply, At
<1>4. /\ \A i \in DOMAIN T : i \in DOMAIN D /\ D[i].delta \in Nat /\ D[i].last \in Int
      /\ DOMAIN D = DOMAIN T
  BY DecisionsAre DEF LedgerInv
<1>5. row' = [i \in Ids |-> IF i \in DOMAIN D /\ D[i].delta > 0
                            THEN Received(row[i], D[i].delta, D[i].last) ELSE row[i]]
  BY DEF Apply
<1> HIDE DEF T, E
<1>6. /\ IsTransfers(T)
      /\ \A i \in Ids : Owed(row)[i] = IF i \in DOMAIN T THEN Outstanding(T[i]) ELSE 0
      /\ \A time : OwedFrom(row, time)
                     = SumFunctionOnSet(Lacking(T), Due(T, DOMAIN T, time))
  BY <1>1, <1>2, PendingOwe
<1>7. \A i \in DOMAIN T :
         SumFunctionOnSet(Lacking(T), Due(T, DOMAIN T, Floor(T[i])))
           <= transit + ArrivedFrom(E, Floor(T[i]))
  <2> SUFFICES ASSUME NEW i \in DOMAIN T
               PROVE  SumFunctionOnSet(Lacking(T), Due(T, DOMAIN T, Floor(T[i])))
                        <= transit + ArrivedFrom(E, Floor(T[i]))
    OBVIOUS
  <2> DEFINE first == Min(Since(T))
             time == Floor(T[i])
  <2>1. IsTransfer(T[i]) BY <1>6 DEF IsTransfers
  <2>2. time \in Int /\ T[i].at <= time /\ T[i].at \in Int
    BY <2>1 DEF IsTransfer, Floor, Never
  <2>3. first <= T[i].at /\ first \in Int
    <3>1. first <= T[i].at BY <1>6, MinSince
    <3>2. first \in Int BY <1>6, MinSince
    <3> QED BY <3>1, <3>2
  <2> HIDE DEF first, time
  <2>4. first <= time BY <2>2, <2>3
  <2>5. ArrivedFrom(InboundSince(first), time) = ArrivedFrom(events, time)
    BY <2>2, <2>3, <2>4, InboundAll
  <2>6. OwedFrom(row, time) <= transit + ArrivedFrom(events, time)
    BY <2>2 DEF Accounted
  <2>7. E = InboundSince(first) BY <1>3 DEF first
  <2>8. SumFunctionOnSet(Lacking(T), Due(T, DOMAIN T, time)) <= transit + ArrivedFrom(E, time)
    BY <1>6, <2>5, <2>6, <2>7
  <2> QED BY <2>8 DEF time
<1>8. /\ \A i \in DOMAIN T : rest[i] \in Nat
      /\ SumFunctionOnSet(rest, DOMAIN T) <= transit
  <2>1. \A i \in DOMAIN T : rest[i] = Outstanding(T[i]) - Match(T, E)[i].delta OBVIOUS
  <2> HIDE DEF rest, D
  <2> QED BY <1>2, <1>6, <1>7, <2>1, MatchClears
<1> DEFINE f == Owed(row')
<1>9. \A i \in Ids : IF i \in DOMAIN T THEN f[i] <= rest[i] ELSE f[i] = 0
  <2> SUFFICES ASSUME NEW i \in Ids
               PROVE  IF i \in DOMAIN T THEN f[i] <= rest[i] ELSE f[i] = 0
    OBVIOUS
  <2>1. f[i] = IF row'[i].status = "pending" THEN Outstanding(row'[i]) ELSE 0 BY DEF Owed
  <2> HIDE DEF f, D
  <2>2. CASE i \notin DOMAIN T
    <3>1. row'[i] = row[i] BY <1>4, <1>5, <2>2
    <3>2. row[i].status # "pending" BY <1>1, <2>2 DEF PendingOf
    <3> QED BY <2>1, <2>2, <3>1, <3>2
  <2>3. CASE i \in DOMAIN T /\ D[i].delta > 0
    <3> DEFINE x == Received(row[i], D[i].delta, D[i].last)
    <3>1. row'[i] = x BY <1>4, <1>5, <2>3
    <3>2. T[i] = row[i] /\ row[i].status = "pending" /\ RowOK(row[i])
      BY <1>1, <1>2, <2>3 DEF PendingOf, RowsOK
    <3>3. /\ x.status = "pending" => Outstanding(x) = Outstanding(row[i]) - D[i].delta
          /\ x.status # "pending" => Outstanding(row[i]) <= D[i].delta
      BY <1>4, <2>3, <3>2, ReceivedOwes
    <3>4. rest[i] = Outstanding(row[i]) - D[i].delta /\ rest[i] \in Nat BY <1>8, <2>3, <3>2
    <3> HIDE DEF x, rest
    <3> QED BY <2>1, <2>3, <3>1, <3>3, <3>4
  <2>4. CASE i \in DOMAIN T /\ ~(D[i].delta > 0)
    <3>1. row'[i] = row[i] BY <1>5, <2>4
    <3>2. T[i] = row[i] /\ row[i].status = "pending" BY <1>1, <2>4 DEF PendingOf
    <3>3. D[i].delta = 0 BY <1>4, <2>4
    <3>4. rest[i] = Outstanding(row[i]) - D[i].delta /\ rest[i] \in Nat BY <1>8, <2>4, <3>2
    <3>5. Outstanding(row[i]) \in Int
      <4>1. IsTransfer(T[i]) BY <1>6, <2>4 DEF IsTransfers
      <4> QED BY <3>2, <4>1, OutstandingNat
    <3> HIDE DEF rest
    <3> QED BY <2>1, <2>4, <3>1, <3>2, <3>3, <3>4, <3>5
  <2> QED BY <2>2, <2>3, <2>4
<1>10. \A i \in Ids : f[i] \in Nat
  <2>1. DOMAIN row' = Ids /\ \A i \in Ids : RowOK(row'[i]) BY ApplyIs DEF Apply
  <2>2. RowsOK(row') BY <2>1 DEF RowsOK
  <2> QED BY <2>2, OwedIs
<1> HIDE DEF f, rest
<1>11. SumFunctionOnSet(f, Ids) <= transit
  <2> DEFINE S == DOMAIN T
  <2>1. S \in SUBSET Ids BY <1>1 DEF PendingOf
  <2>2. IsFiniteSet(S) BY <1>6 DEF IsTransfers
  <2>3. /\ \A i \in Ids \ S : f[i] = 0
        /\ \A i \in S : rest[i] \in Nat
        /\ \A i \in S : f[i] \in Nat /\ f[i] <= rest[i]
    BY <1>8, <1>9, <1>10, <2>1
  <2> HIDE DEF S
  <2>4. SumFunctionOnSet(f, Ids) = SumFunctionOnSet(f, S)
    BY <1>10, <2>1, <2>3, SumSupport, ParametersAssumption
  <2>5. SumFunctionOnSet(f, S) <= SumFunctionOnSet(rest, S) BY <2>2, <2>3, SumGrows
  <2>6. SumFunctionOnSet(f, S) \in Nat BY <2>2, <2>3, SumNat
  <2>7. SumFunctionOnSet(rest, S) \in Nat BY <2>2, <2>3, SumNat
  <2>8. SumFunctionOnSet(rest, S) <= transit BY <1>8 DEF S
  <2> QED BY <1>2, <2>4, <2>5, <2>6, <2>7, <2>8
<1> QED BY <1>11 DEF OwedAll, f

\* Whatever a scan has read, what it writes never makes the rows lack more.
LEMMA ApplyShrinks ==
    ASSUME LedgerInv, NEW s \in Scans, Apply(s)
    PROVE  RowsOK(row') /\ OwedAll(row') <= OwedAll(row)
<1> DEFINE D == Match(scan[s].seen, scan[s].evs)
<1>1. \A i \in DOMAIN D : D[i].delta \in Nat /\ D[i].last \in Int
  BY DecisionsAre DEF LedgerInv
<1>2. row' = [i \in Ids |-> IF i \in DOMAIN D /\ D[i].delta > 0
                            THEN Received(row[i], D[i].delta, D[i].last) ELSE row[i]]
  BY DEF Apply
<1> HIDE DEF D
<1>3. DOMAIN row' = Ids /\ \A i \in Ids : RowOK(row'[i]) BY ApplyIs DEF Apply
<1>4. RowsOK(row) /\ RowsOK(row') BY <1>3 DEF LedgerInv, RowsOK
<1>5. \A i \in Ids : Owed(row')[i] <= Owed(row)[i]
  <2> SUFFICES ASSUME NEW i \in Ids PROVE Owed(row')[i] <= Owed(row)[i]
    OBVIOUS
  <2>1. /\ Owed(row)[i] = IF row[i].status = "pending" THEN Outstanding(row[i]) ELSE 0
        /\ Owed(row')[i] = IF row'[i].status = "pending" THEN Outstanding(row'[i]) ELSE 0
    BY DEF Owed
  <2>2. Owed(row)[i] \in Nat /\ Owed(row')[i] \in Nat BY <1>4, OwedIs
  <2>3. CASE i \in DOMAIN D /\ D[i].delta > 0
    <3> DEFINE x == Received(row[i], D[i].delta, D[i].last)
    <3>1. row'[i] = x BY <1>2, <2>3
    <3>2. RowOK(row[i]) BY <1>4 DEF RowsOK
    <3>3. /\ row[i].status # "pending" => x.status # "pending"
          /\ row[i].status = "pending" =>
               (x.status = "pending" => Outstanding(x) = Outstanding(row[i]) - D[i].delta)
      BY <1>1, <2>3, <3>2, ReceivedOwes
    <3>4. D[i].delta \in Nat BY <1>1, <2>3
    <3> HIDE DEF x
    <3> QED BY <2>1, <2>2, <3>1, <3>3, <3>4
  <2>4. CASE ~(i \in DOMAIN D /\ D[i].delta > 0)
    <3>1. row'[i] = row[i] BY <1>2, <2>4
    <3> QED BY <2>1, <2>2, <3>1
  <2> QED BY <2>3, <2>4
<1> QED BY <1>4, <1>5, OwedShrinks

LEMMA CancelledShrinks ==
    ASSUME LedgerInv, NEW ids, row' = Cancelled(ids)
    PROVE  RowsOK(row') /\ OwedAll(row') <= OwedAll(row)
<1>1. /\ DOMAIN row' = Ids
      /\ \A i \in Ids : /\ RowOK(row'[i])
                        /\ IF i \in ids THEN row'[i].status = "cancelled"
                                        ELSE row'[i] = row[i]
  BY CancelledOK
<1>2. RowsOK(row) /\ RowsOK(row') BY <1>1 DEF LedgerInv, RowsOK
<1>3. \A i \in Ids : Owed(row')[i] <= Owed(row)[i]
  <2> SUFFICES ASSUME NEW i \in Ids PROVE Owed(row')[i] <= Owed(row)[i]
    OBVIOUS
  <2>1. /\ Owed(row)[i] = IF row[i].status = "pending" THEN Outstanding(row[i]) ELSE 0
        /\ Owed(row')[i] = IF row'[i].status = "pending" THEN Outstanding(row'[i]) ELSE 0
    BY DEF Owed
  <2>2. Owed(row)[i] \in Nat /\ Owed(row')[i] \in Nat BY <1>2, OwedIs
  <2>3. CASE i \in ids BY <1>1, <2>1, <2>2, <2>3
  <2>4. CASE i \notin ids
    <3>1. row'[i] = row[i] BY <1>1, <2>4
    <3> QED BY <2>1, <2>2, <3>1
  <2> QED BY <2>3, <2>4
<1> QED BY <1>2, <1>3, OwedShrinks

\* With no pending row nothing is due.
LEMMA NothingPending ==
    ASSUME LedgerInv, Pending = {}
    PROVE  OwedAll(row) = 0
<1>1. \A i \in Ids : Owed(row)[i] = 0 BY DEF Pending, Owed
<1> QED BY <1>1, SumZero, ParametersAssumption DEF OwedAll

\* When no event came since the oldest pending row, all it and the others lack is on
\* its way.
LEMMA NothingArrived ==
    ASSUME LedgerInv, Accounted, NEW c, LocalOK(c), Fresh(c),
           DOMAIN InboundSince(Min(Since(c.seen))) = {}
    PROVE  Cleared
<1> DEFINE T == c.seen
           first == Min(Since(T))
<1>0. RowsOK(row) /\ IsEvents(events) /\ transit \in Nat
  BY EventsOK DEF LedgerInv, RowsOK, Accounted
<1>1. DOMAIN T = PendingOf(row) /\ \A i \in DOMAIN T : T[i] = row[i]
  BY DEF Fresh, PendingOf, Pending
<1>2. DOMAIN InboundSince(first) = {} OBVIOUS
<1> HIDE DEF T, first
<1>3. CASE DOMAIN T = {}
  <2>1. OwedAll(row) = 0 BY <1>1, <1>3, NothingPending DEF PendingOf, Pending
  <2> QED BY <1>0, <2>1 DEF Cleared
<1>4. CASE DOMAIN T # {}
  <2>1. /\ IsTransfers(T)
        /\ OwedAll(row) = SumFunctionOnSet(Lacking(T), DOMAIN T)
        /\ OwedFrom(row, first) = SumFunctionOnSet(Lacking(T), Due(T, DOMAIN T, first))
    BY <1>0, <1>1, PendingOwe
  <2>2. first \in Int BY <1>4, <2>1, MinSince DEF first
  <2>3. \A i \in DOMAIN T : first <= T[i].at BY <1>4, <2>1, MinSince DEF first
  <2>4. Due(T, DOMAIN T, first) = DOMAIN T
    <3>1. ASSUME NEW i \in DOMAIN T PROVE Floor(T[i]) >= first
      <4>1. T[i].at \in Int /\ T[i].last \in Int BY <2>1 DEF IsTransfers, IsTransfer
      <4>2. Floor(T[i]) >= T[i].at /\ Floor(T[i]) \in Int BY <4>1 DEF Floor, Never
      <4> QED BY <2>2, <2>3, <4>1, <4>2
    <3> QED BY <3>1 DEF Due
  <2>5. ArrivedFrom(events, first) = 0
    <3>1. From(events, DOMAIN events, first) = {} BY <1>2 DEF From, InboundSince
    <3>2. SumFunctionOnSet(Quantities(events), {}) = 0
      BY FS_EmptySet, SumZero
    <3> QED BY <3>1, <3>2 DEF ArrivedFrom, From
  <2>6. OwedFrom(row, first) <= transit + ArrivedFrom(events, first)
    BY <2>2 DEF Accounted
  <2>7. OwedFrom(row, first) = OwedAll(row) BY <2>1, <2>4
  <2>8. OwedAll(row) <= transit BY <1>0, <2>5, <2>6, <2>7
  <2> QED BY <2>8 DEF Cleared
<1> QED BY <1>3, <1>4

\* A row that lacks something, when all that is lacking is on its way: something is.
LEMMA SomethingOnItsWay ==
    ASSUME LedgerInv, transit \in Nat, Cleared, NEW i \in Pending
    PROVE  transit > 0
<1>1. RowsOK(row) /\ i \in Ids BY DEF LedgerInv, RowsOK, Pending
<1>2. Owed(row)[i] > 0 /\ Owed(row)[i] \in Nat
  <2>1. row[i].got < row[i].qty /\ row[i].got \in Int /\ row[i].qty \in Int
    BY <1>1, ParametersAssumption DEF RowsOK, RowOK, Pending
  <2>2. Owed(row)[i] = Outstanding(row[i]) BY <1>1 DEF Owed, Pending
  <2> QED BY <2>1, <2>2 DEF Outstanding
<1> DEFINE f == Owed(row)
<1>3. \A j \in Ids : f[j] \in Nat BY <1>1, OwedIs
<1>4. OwedAll(row) \in Nat BY <1>1, OwedIs
<1>5. f[i] > 0 /\ f[i] \in Nat BY <1>2
<1> HIDE DEF f
<1>6. SumFunctionOnSet(f, Ids) = f[i] + SumFunctionOnSet(f, Ids \ {i})
  BY <1>1, <1>3, SumSplit, ParametersAssumption
<1>7. SumFunctionOnSet(f, Ids \ {i}) \in Nat
  <2>1. IsFiniteSet(Ids \ {i}) BY FS_Subset, ParametersAssumption
  <2>2. \A j \in Ids \ {i} : f[j] \in Nat BY <1>3
  <2> QED BY <2>1, <2>2, SumNat
<1>8. SumFunctionOnSet(f, Ids) <= transit BY DEF Cleared, OwedAll, f
<1>9. transit > 0 BY <1>5, <1>6, <1>7, <1>8
<1> QED BY <1>9

\* A step of a scan when nothing fails: the rows stay as they are, or what they lack
\* is on its way from now on; and the scan itself goes on in good order.
LEMMA QuietScan ==
    ASSUME Cardinality(Ids) <= Limit, LedgerInv, Accounted, failures \in Nat, Calm, Calm',
           NEW s \in Scans, Start(s) \/ Continue(s) \/ Abort(s)
    PROVE  /\ UNCHANGED world
           /\ UNCHANGED row \/ OwedAll(row') <= transit
           /\ \E c : Set(s, c) /\ Progress(c)'
<1>1. UNCHANGED world
  BY DEF Start, Continue, Abort, SelectNonFulfillment, CancelNonFulfillment, ReadPending,
         FetchEvents, FetchFails, Apply, DrainRead, ReadStock, StockFails, DrainApply, world
<1>2. transit' = transit /\ now' = now /\ events' = events BY <1>1 DEF world
<1>3. Progress(scan[s]) /\ LocalOK(scan[s]) /\ listed /\ transit \in Nat
  BY DEF Accounted, LedgerInv
<1>4. failures' # failures + 1 BY DEF Calm
\* The local variables of the steps that hold no events.
<1>5. \A step : LET c == [Idle EXCEPT !.step = step] IN c.step = step /\ c.evs = <<>>
  BY GotoOK
<1>6. \A step \in {"idle", "select", "read"} : Progress([Idle EXCEPT !.step = step])'
  BY <1>5 DEF Progress
<1>7. OwedAll(row') <= transit => Progress([Idle EXCEPT !.step = "drain"])'
  BY <1>2, <1>5 DEF Progress, Cleared
<1>8. Idle.step = "idle" /\ Idle.evs = <<>> BY DEF Idle
<1>9. Progress(Idle)' BY <1>8 DEF Progress
<1>10. CASE Start(s)
  <2>1. UNCHANGED row /\ Set(s, [Idle EXCEPT !.step = "select"])
    BY <1>10 DEF Start, Goto
  <2> QED BY <1>1, <1>6, <2>1
<1>11. CASE SelectNonFulfillment(s)
  <2>1. UNCHANGED row /\ Set(s, [Idle EXCEPT !.step = "read"])
    BY <1>3, <1>11 DEF SelectNonFulfillment
  <2> QED BY <1>1, <1>6, <2>1
<1>12. CASE CancelNonFulfillment(s)
  BY <1>3, <1>12 DEF CancelNonFulfillment, At, Progress
<1>13. CASE ReadPending(s)
  <2>1. PICK seen : seen = Listing(Pending) OBVIOUS
  <2>2. PICK c : c = [Idle EXCEPT !.step = "fetch", !.seen = seen] OBVIOUS
  <2>3. /\ UNCHANGED row
        /\ Set(s, IF DOMAIN seen = {} THEN [Idle EXCEPT !.step = "drain"] ELSE c)
    BY <1>3, <1>13, <2>1, <2>2 DEF ReadPending, Sourced
  <2>4. DOMAIN seen = Pending /\ \A i \in DOMAIN seen : seen[i] = row[i]
    <3>1. DOMAIN seen = Pending BY <2>1, ListingAll
    <3>2. \A i \in DOMAIN seen : seen[i] = row[i] BY <2>1, ListingIs DEF Pending
    <3> QED BY <3>1, <3>2
  <2>5. c.step = "fetch" /\ c.seen = seen /\ c.evs = <<>> BY <2>2 DEF Idle
  <2>6. CASE DOMAIN seen = {}
    <3>1. OwedAll(row) = 0 BY <2>4, <2>6, NothingPending
    <3>2. OwedAll(row') <= transit BY <1>3, <2>3, <3>1
    <3> QED BY <1>1, <1>7, <2>3, <2>6, <3>2
  <2>7. CASE DOMAIN seen # {}
    <3>1. Fresh(c)' BY <2>3, <2>4, <2>5 DEF Fresh, Pending
    <3>2. Progress(c)' BY <2>5, <3>1 DEF Progress
    <3> QED BY <1>1, <2>3, <2>7, <3>2
  <2> QED BY <2>6, <2>7
<1>14. CASE FetchEvents(s)
  <2>1. PICK seen : seen = scan[s].seen OBVIOUS
  <2>2. PICK evs : evs = InboundSince(Min(Since(seen))) OBVIOUS
  <2>3. PICK c : c = [Idle EXCEPT !.step = "apply", !.seen = seen, !.evs = evs] OBVIOUS
  <2>4. /\ UNCHANGED row /\ scan[s].step = "fetch"
        /\ Set(s, IF DOMAIN evs = {} THEN [Idle EXCEPT !.step = "drain"] ELSE c)
    BY <1>14, <2>1, <2>2, <2>3 DEF FetchEvents, At
  <2>5. Cleared \/ Fresh(scan[s]) BY <1>3, <2>4 DEF Progress
  <2>6. \A k \in DOMAIN evs : evs[k].at <= now BY <2>2 DEF Accounted, InboundSince
  <2>7. c.step = "apply" /\ c.seen = seen /\ c.evs = evs BY <2>3 DEF Idle
  <2>8. CASE DOMAIN evs = {}
    <3>1. Cleared BY <1>3, <2>1, <2>2, <2>5, <2>8, NothingArrived
    <3>2. OwedAll(row') <= transit BY <2>4, <3>1 DEF Cleared
    <3> QED BY <1>1, <1>7, <2>4, <2>8, <3>2
  <2>9. CASE DOMAIN evs # {}
    <3>1. (Cleared \/ Fresh(c))'
      <4>1. CASE Cleared BY <1>2, <2>4, <4>1 DEF Cleared
      <4>2. CASE Fresh(scan[s])
        <5>1. DOMAIN seen = Pending /\ \A i \in DOMAIN seen : seen[i] = row[i]
          BY <2>1, <4>2 DEF Fresh
        <5>2. c.evs = InboundSince(Min(Since(c.seen)))' BY <1>2, <2>2, <2>7 DEF InboundSince
        <5>3. Pending' = Pending BY <2>4 DEF Pending
        <5>4. DOMAIN c.seen = Pending' /\ \A i \in DOMAIN c.seen : c.seen[i] = row'[i]
          BY <2>4, <2>7, <5>1, <5>3
        <5> QED BY <5>2, <5>4 DEF Fresh
      <4> QED BY <2>5, <4>1, <4>2
    <3>2. Progress(c)' BY <1>2, <2>6, <2>7, <3>1 DEF Progress
    <3> QED BY <1>1, <2>4, <2>9, <3>2
  <2> QED BY <2>8, <2>9
<1>15. CASE FetchFails(s) BY <1>4, <1>15 DEF FetchFails
<1>16. CASE Apply(s)
  <2>1. scan[s].step = "apply" /\ Set(s, [Idle EXCEPT !.step = "drain"])
    BY <1>16 DEF Apply, At, Goto
  <2>2. Cleared \/ Fresh(scan[s]) BY <1>3, <2>1 DEF Progress
  <2>3. OwedAll(row') <= transit
    <3>1. CASE Cleared
      <4>1. RowsOK(row) /\ RowsOK(row') /\ OwedAll(row') <= OwedAll(row)
        BY <1>16, ApplyShrinks DEF LedgerInv, RowsOK
      <4>2. OwedAll(row) \in Nat /\ OwedAll(row') \in Nat BY <4>1, OwedIs
      <4> QED BY <1>3, <3>1, <4>1, <4>2 DEF Cleared
    <3>2. CASE Fresh(scan[s]) BY <1>16, <3>2, ApplyClears
    <3> QED BY <2>2, <3>1, <3>2
  <2> QED BY <1>1, <1>7, <2>1, <2>3
<1>17. CASE DrainRead(s)
  <2>1. PICK local : local = [Idle EXCEPT !.seen = Listing(Pending), !.cutoff = now - Grace,
                                          !.sourced = Sourced]
    OBVIOUS
  <2>2. PICK c : c = [local EXCEPT !.step = "stock"] OBVIOUS
  <2>3. PICK stale : stale = {i \in DOMAIN local.seen : Stale(local, local.seen[i])
                                                       /\ Net(local.seen[i]) > 0}
    OBVIOUS
  <2>4. /\ UNCHANGED row /\ scan[s].step = "drain"
        /\ Set(s, IF stale = {} THEN Idle ELSE c)
    BY <1>17, <2>1, <2>2, <2>3 DEF DrainRead, At
  <2>5. Cleared BY <1>3, <2>4 DEF Progress
  <2>6. c.step = "stock" /\ c.evs = <<>> BY <2>1, <2>2 DEF Idle
  <2>7. stale \subseteq Pending
    <3>1. DOMAIN Listing(Pending) \subseteq Pending BY ListingIs DEF Pending
    <3>2. local.seen = Listing(Pending) BY <2>1 DEF Idle
    <3> QED BY <2>3, <3>1, <3>2
  <2>8. CASE stale = {} BY <1>1, <1>9, <2>4, <2>8
  <2>9. CASE stale # {}
    <3>1. transit > 0
      <4>1. PICK i : i \in Pending BY <2>7, <2>9
      <4> QED BY <1>3, <2>5, <4>1, SomethingOnItsWay
    <3>2. Progress(c)' BY <1>2, <2>4, <2>5, <2>6, <3>1 DEF Progress, Cleared
    <3> QED BY <1>1, <2>4, <2>9, <3>2
  <2> QED BY <2>8, <2>9
<1>18. CASE ReadStock(s)
  <2>1. PICK shown : Set(s, [scan[s] EXCEPT !.step = "settle", !.stock = shown])
    BY <1>18 DEF ReadStock
  <2>2. PICK c : c = [scan[s] EXCEPT !.step = "settle", !.stock = shown] OBVIOUS
  <2>3. c.step = "settle" /\ c.evs = scan[s].evs BY <1>3, <2>2 DEF LocalOK, Locals
  <2>4. UNCHANGED row /\ scan[s].step = "stock" BY <1>18 DEF ReadStock, At
  <2>5. Cleared /\ transit > 0 /\ \A k \in DOMAIN scan[s].evs : scan[s].evs[k].at <= now
    BY <1>3, <2>4 DEF Progress
  <2>6. Set(s, c) BY <2>1, <2>2
  <2>7. Progress(c)' BY <1>2, <2>3, <2>4, <2>5 DEF Progress, Cleared
  <2> QED BY <1>1, <2>4, <2>6, <2>7
<1>19. CASE StockFails(s) BY <1>4, <1>19 DEF StockFails
<1>20. CASE DrainApply(s)
  <2>1. scan[s].step = "settle" /\ Set(s, Idle) /\ row' = Cancelled(Drained(scan[s]))
    BY <1>20 DEF DrainApply, At
  <2>2. Cleared BY <1>3, <2>1 DEF Progress
  <2>3. RowsOK(row) /\ RowsOK(row') /\ OwedAll(row') <= OwedAll(row)
    BY <2>1, CancelledShrinks DEF LedgerInv, RowsOK
  <2>4. OwedAll(row) \in Nat /\ OwedAll(row') \in Nat BY <2>3, OwedIs
  <2>5. OwedAll(row') <= transit BY <1>3, <2>2, <2>3, <2>4 DEF Cleared
  <2> QED BY <1>1, <1>9, <2>1, <2>5
<1>21. CASE Abort(s) BY <1>4, <1>21 DEF Abort
<1> QED BY <1>10, <1>11, <1>12, <1>13, <1>14, <1>15, <1>16, <1>17, <1>18, <1>19, <1>20, <1>21
        DEF Continue

\* A step of QuietSpec.
QuietNext ==
    /\ Next
    /\ now' # now => \A s \in Scans : At(s, "idle")
    /\ \A s \in Scans :
         At(s, "stock") /\ At(s, "settle")' /\ scan[s].sourced => scan'[s].stock = transit

LEMMA QuietInit == Init => QuietInv
<1> SUFFICES ASSUME Init PROVE QuietInv
  OBVIOUS
<1>1. LedgerInv BY LedgerInit
<1>2. Accounted
  <2>1. RowsOK(row) /\ IsEvents(events) BY <1>1, EventsOK DEF LedgerInv, RowsOK
  <2>2. Pending = {} BY DEF Init, Pending, NoRow
  <2>3. OwedAll(row) = 0 BY <1>1, <2>2, NothingPending
  <2>4. transit \in Nat /\ OwedAll(row) <= transit BY <2>3 DEF Init
  <2>5. \A time \in Int : OwedFrom(row, time) <= transit + ArrivedFrom(events, time)
    BY <2>1, <2>4, ClearedCovers
  <2>6. \A s \in Scans : Progress(scan[s]) BY DEF Init, Idle, Progress
  <2>7. \A i \in Ids : row[i].at <= now /\ row[i].last <= now
    BY DEF Init, NoRow, Never
  <2>8. listed /\ \A k \in DOMAIN events : events[k].at <= now BY DEF Init
  <2> QED BY <2>4, <2>5, <2>6, <2>7, <2>8 DEF Accounted
<1> QED BY <1>1, <1>2 DEF QuietInv, Init

\* The rows that a scan writes have the times they had, or those of its events.
LEMMA ScanTimes ==
    ASSUME LedgerInv, Accounted, NEW s \in Scans, Start(s) \/ Continue(s) \/ Abort(s)
    PROVE  \A i \in Ids : row'[i].at <= now /\ row'[i].last <= now
<1>1. \A i \in Ids : row[i].at <= now /\ row[i].last <= now BY DEF Accounted
<1>2. ASSUME NEW ids, row' = Cancelled(ids)
      PROVE  \A i \in Ids : row'[i].at <= now /\ row'[i].last <= now
  BY <1>1, <1>2, CancelledOK
<1>3. CASE CancelNonFulfillment(s) BY <1>2, <1>3 DEF CancelNonFulfillment
<1>4. CASE DrainApply(s) BY <1>2, <1>4 DEF DrainApply
<1>5. CASE Apply(s)
  <2> SUFFICES ASSUME NEW i \in Ids PROVE row'[i].at <= now /\ row'[i].last <= now
    OBVIOUS
  <2>1. \/ row'[i] = row[i]
        \/ /\ row'[i].at = row[i].at
           /\ \E k \in DOMAIN scan[s].evs : row'[i].last = scan[s].evs[k].at
    BY <1>5, ApplyIs
  <2>2. \A k \in DOMAIN scan[s].evs : scan[s].evs[k].at <= now
    BY DEF Accounted, Progress
  <2> QED BY <1>1, <2>1, <2>2
<1>6. CASE \/ Start(s) \/ SelectNonFulfillment(s) \/ ReadPending(s)
           \/ FetchEvents(s) \/ FetchFails(s) \/ DrainRead(s)
           \/ ReadStock(s) \/ StockFails(s) \/ Abort(s)
  <2>1. UNCHANGED row
    BY <1>6 DEF Start, SelectNonFulfillment, ReadPending, FetchEvents,
       FetchFails, DrainRead, ReadStock, StockFails, Abort
  <2> QED BY <1>1, <2>1
<1> QED BY <1>3, <1>4, <1>5, <1>6 DEF Continue

\* A row of what is shipped: it owes what is then on its way.
LEMMA ShipCovers ==
    ASSUME LedgerInv, Accounted, NEW qty \in 1..MaxQty, Ship(qty), LedgerInv'
    PROVE  /\ \A i \in Ids : row'[i].at <= now' /\ row'[i].last <= now'
           /\ \A time \in Int : OwedFrom(row', time) <= transit' + ArrivedFrom(events', time)
<1> USE ParametersAssumption
<1>1. NewRow(qty) /\ transit' = transit + qty /\ UNCHANGED events /\ now \in Nat
  BY DEF Ship, LedgerInv
<1>2. now' = now + 1 BY <1>1, NewRowIs
<1>3. PICK i \in Ids :
         /\ row[i].status = "none" /\ row'[i].status = "pending"
         /\ row'[i].got = 0 /\ row'[i].qty = qty
         /\ row'[i].at = now + 1 /\ row'[i].last = Never
         /\ \A j \in Ids : j # i => row'[j] = row[j]
  BY <1>1, NewRowIs
<1>4. \A j \in Ids : row'[j].at <= now' /\ row'[j].last <= now'
  <2> SUFFICES ASSUME NEW j \in Ids PROVE row'[j].at <= now' /\ row'[j].last <= now'
    OBVIOUS
  <2>1. row[j].at <= now /\ row[j].last <= now /\ row[j].at \in Int /\ row[j].last \in Int
    BY DEF Accounted, LedgerInv, RowOK
  <2>2. CASE j = i BY <1>1, <1>2, <1>3, <2>2 DEF Never
  <2>3. CASE j # i
    <3>1. row'[j] = row[j] BY <1>3, <2>3
    <3>2. row'[j].at <= now + 1 /\ row'[j].last <= now + 1 BY <1>1, <2>1, <3>1
    <3> QED BY <1>2, <3>2
  <2> QED BY <2>2, <2>3
<1>5. ASSUME NEW time \in Int
      PROVE  OwedFrom(row', time) <= transit' + ArrivedFrom(events', time)
  <2> DEFINE U == {j \in Ids : Floor(row[j]) >= time}
             V == {j \in Ids : Floor(row'[j]) >= time}
             f == Owed(row)
             g == Owed(row')
  <2>1. RowsOK(row) /\ RowsOK(row') BY DEF LedgerInv, RowsOK
  <2>2. (\A j \in Ids : f[j] \in Nat) /\ (\A j \in Ids : g[j] \in Nat)
    <3>1. \A j \in Ids : f[j] \in Nat BY <2>1, OwedIs
    <3>2. \A j \in Ids : g[j] \in Nat BY <2>1, OwedIs
    <3> QED BY <3>1, <3>2
  <2>3. g[i] = qty /\ \A j \in Ids : j # i => g[j] = f[j]
    <3>1. \A j \in Ids :
             /\ f[j] = IF row[j].status = "pending" THEN Outstanding(row[j]) ELSE 0
             /\ g[j] = IF row'[j].status = "pending" THEN Outstanding(row'[j]) ELSE 0
      BY DEF Owed
    <3> HIDE DEF f, g
    <3>2. Outstanding(row'[i]) = qty BY <1>3 DEF Outstanding
    <3>3. g[i] = qty BY <1>3, <3>1, <3>2
    <3>4. \A j \in Ids : j # i => g[j] = f[j] BY <1>3, <3>1
    <3> QED BY <3>3, <3>4
  <2>4. V \ {i} \subseteq U BY <1>3
  <2>5. U \in SUBSET Ids /\ V \in SUBSET Ids OBVIOUS
  <2> HIDE DEF f, g, U, V
  <2> DEFINE W == V \ {i}
  <2>6. W \in SUBSET U /\ W \in SUBSET Ids /\ i \notin W BY <2>4, <2>5
  <2>7. IsFiniteSet(U) /\ IsFiniteSet(V) /\ IsFiniteSet(W) BY <2>5, <2>6, FS_Subset
  <2>8. SumFunctionOnSet(g, V) <= qty + SumFunctionOnSet(g, W)
    <3>1. SumFunctionOnSet(g, W) \in Nat
      <4>1. \A j \in W : g[j] \in Nat BY <2>2, <2>6
      <4> QED BY <2>7, <4>1, SumNat
    <3>2. CASE i \in V
      <4>1. \A j \in V : g[j] \in Nat BY <2>2, <2>5
      <4>2. SumFunctionOnSet(g, V) = g[i] + SumFunctionOnSet(g, W)
        BY <2>7, <3>2, <4>1, SumSplit
      <4> QED BY <2>3, <3>1, <4>2
    <3>3. CASE i \notin V
      <4>1. W = V BY <3>3
      <4> HIDE DEF W
      <4> QED BY <3>1, <4>1
    <3> QED BY <3>2, <3>3
  <2> HIDE DEF W
  <2>9. SumFunctionOnSet(g, W) <= SumFunctionOnSet(f, U)
    <3>1. \A j \in U : f[j] \in Nat BY <2>2, <2>5
    <3>2. \A j \in W : g[j] \in Nat /\ g[j] <= f[j] BY <2>2, <2>3, <2>6
    <3> QED BY <2>6, <2>7, <3>1, <3>2, SumGrows
  <2>10. /\ SumFunctionOnSet(g, W) \in Nat /\ SumFunctionOnSet(f, U) \in Nat
         /\ SumFunctionOnSet(g, V) \in Nat
    <3>1. SumFunctionOnSet(g, W) \in Nat
      <4>1. \A j \in W : g[j] \in Nat BY <2>2, <2>6
      <4> QED BY <2>7, <4>1, SumNat
    <3>2. SumFunctionOnSet(f, U) \in Nat
      <4>1. \A j \in U : f[j] \in Nat BY <2>2, <2>5
      <4> QED BY <2>7, <4>1, SumNat
    <3>3. SumFunctionOnSet(g, V) \in Nat
      <4>1. \A j \in V : g[j] \in Nat BY <2>2, <2>5
      <4> QED BY <2>7, <4>1, SumNat
    <3> QED BY <3>1, <3>2, <3>3
  <2>11. SumFunctionOnSet(f, U) <= transit + ArrivedFrom(events, time)
    <3>1. OwedFrom(row, time) <= transit + ArrivedFrom(events, time) BY DEF Accounted
    <3> QED BY <3>1 DEF OwedFrom, f, U
  <2>12. ArrivedFrom(events, time) \in Nat BY EventsOK, ArrivedNat
  <2>13. SumFunctionOnSet(g, V) <= transit' + ArrivedFrom(events, time)
    <3>1. transit \in Nat BY DEF Accounted
    <3> QED BY <1>1, <2>8, <2>9, <2>10, <2>11, <2>12, <3>1
  <2>14. OwedFrom(row', time) = SumFunctionOnSet(g, V) BY DEF OwedFrom, g, V
  <2> QED BY <1>1, <2>13, <2>14
<1> QED BY <1>4, <1>5

\* What arrives is no longer on its way.
LEMMA ArriveCovers ==
    ASSUME LedgerInv, Accounted, NEW qty \in 1..MaxQty, Arrive(qty), LedgerInv'
    PROVE  /\ transit' \in Nat
           /\ \A k \in DOMAIN events' : events'[k].at <= now'
           /\ \A time \in Int : OwedFrom(row', time) <= transit' + ArrivedFrom(events', time)
<1> USE ParametersAssumption
<1> DEFINE e == [at |-> now + 1, qty |-> qty]
<1>1. /\ UNCHANGED row /\ transit' = transit - qty /\ qty <= transit /\ now' = now + 1
      /\ events' = Append(events, e) /\ now \in Nat /\ transit \in Nat /\ qty \in Nat
  BY DEF Arrive, LedgerInv, Accounted
<1>2. transit' \in Nat BY <1>1
<1>3. e.at = now + 1 /\ e.qty = qty OBVIOUS
<1> HIDE DEF e
<1> DEFINE n == Len(events) + 1
<1>4. /\ DOMAIN events' = DOMAIN events \cup {n} /\ n \notin DOMAIN events /\ events'[n] = e
      /\ \A k \in DOMAIN events : events'[k] = events[k]
  <2> DEFINE A == [at : Nat, qty : Nat]
             B == A \cup {e}
  <2>1. events \in Seq(A) BY DEF LedgerInv
  <2> HIDE DEF A
  <2>2. events \in Seq(B) /\ e \in B BY <2>1
  <2> HIDE DEF B
  <2>3. /\ DOMAIN events = 1..Len(events) /\ Len(events) \in Nat
        /\ DOMAIN Append(events, e) = 1..(Len(events) + 1)
        /\ \A k \in 1..Len(events) : Append(events, e)[k] = events[k]
        /\ Append(events, e)[Len(events) + 1] = e
    BY <2>2
  <2> QED BY <1>1, <2>3
<1> HIDE DEF n
<1>5. IsEvents(events) /\ IsEvents(events')
  <2>1. IsEvents(events) BY EventsOK
  <2>2. IsFiniteSet(DOMAIN events') BY <1>4, <2>1, FS_AddElement DEF IsEvents
  <2>3. n \in Int BY EventsAre DEF n
  <2>4. \A k \in DOMAIN events' : k \in Int /\ events'[k].at \in Int /\ events'[k].qty \in Nat
    BY <1>1, <1>3, <1>4, <2>1, <2>3 DEF IsEvents
  <2> QED BY <2>1, <2>2, <2>4 DEF IsEvents
<1>6. \A k \in DOMAIN events' : events'[k].at <= now'
  <2> SUFFICES ASSUME NEW k \in DOMAIN events' PROVE events'[k].at <= now + 1
    BY <1>1
  <2>1. CASE k = n BY <1>1, <1>3, <1>4, <2>1
  <2>2. CASE k # n
    <3>1. events'[k] = events[k] /\ k \in DOMAIN events BY <1>4, <2>2
    <3>2. events[k].at \in Int /\ events[k].at <= now BY <1>5, <3>1 DEF IsEvents, Accounted
    <3> QED BY <1>1, <3>1, <3>2
  <2> QED BY <2>1, <2>2
<1>7. ASSUME NEW time \in Int
      PROVE  OwedFrom(row, time) <= transit' + ArrivedFrom(events', time)
  <2>1. RowsOK(row) BY DEF LedgerInv, RowsOK
  <2>2. OwedFrom(row, time) \in Nat BY <2>1, OwedIs
  <2>3. ArrivedFrom(events, time) \in Nat /\ ArrivedFrom(events', time) \in Nat
    BY <1>5, ArrivedNat
  <2>4. CASE time <= now + 1
    <3> DEFINE U == From(events, DOMAIN events, time)
               V == From(events', DOMAIN events', time)
               f == Quantities(events)
               g == Quantities(events')
    <3>1. V = U \cup {n} /\ n \notin U /\ U \in SUBSET DOMAIN events
      BY <1>1, <1>3, <1>4, <2>4 DEF From
    <3>2. \A k \in U : f[k] \in Nat /\ g[k] = f[k]
      BY <1>4, <1>5 DEF From, Quantities, IsEvents
    <3>3. g[n] = qty BY <1>3, <1>4 DEF Quantities
    <3> HIDE DEF U, V, f, g
    <3>4. IsFiniteSet(U) BY <1>5, <3>1, FS_Subset DEF IsEvents
    <3>5. IsFiniteSet(V) BY <3>1, <3>4, FS_AddElement
    <3>6. (\A k \in V : g[k] \in Nat) /\ n \in V BY <1>1, <3>1, <3>2, <3>3
    <3>7. SumFunctionOnSet(g, V) = g[n] + SumFunctionOnSet(g, V \ {n})
      BY <3>5, <3>6, SumSplit
    <3>8. V \ {n} = U BY <3>1
    <3>9. SumFunctionOnSet(f, U) = SumFunctionOnSet(g, U) BY <3>2, <3>4, SumSame
    <3>10. SumFunctionOnSet(g, V) = qty + SumFunctionOnSet(f, U) BY <3>3, <3>7, <3>8, <3>9
    <3>11. ArrivedFrom(events', time) = qty + ArrivedFrom(events, time)
      BY <3>10 DEF ArrivedFrom, From, U, V, f, g
    <3>12. OwedFrom(row, time) <= transit + ArrivedFrom(events, time) BY DEF Accounted
    <3> QED BY <1>1, <2>2, <2>3, <3>11, <3>12
  <2>5. CASE ~(time <= now + 1)
    <3>1. {i \in Ids : Floor(row[i]) >= time} = {}
      <4> SUFFICES ASSUME NEW i \in Ids PROVE ~(Floor(row[i]) >= time)
        OBVIOUS
      <4>1. row[i].at \in Int /\ row[i].last \in Int /\ row[i].at <= now /\ row[i].last <= now
        BY DEF LedgerInv, RowOK, Accounted
      <4>2. Floor(row[i]) \in Int /\ Floor(row[i]) <= now + 1
        BY <1>1, <4>1 DEF Floor, Never
      <4> QED BY <1>1, <2>5, <4>2
    <3>2. SumFunctionOnSet(Owed(row), {}) = 0 BY FS_EmptySet, SumZero
    <3>3. OwedFrom(row, time) = 0 BY <3>1, <3>2 DEF OwedFrom
    <3> QED BY <1>2, <2>3, <3>3
  <2> QED BY <2>4, <2>5
<1> QED BY <1>1, <1>2, <1>6, <1>7

\* A scan that is idle or that only sees the clock move.
LEMMA IdleProgress ==
    ASSUME Accounted, LedgerInv, NEW s \in Scans, At(s, "idle"), UNCHANGED scan,
           now' = now + 1
    PROVE  Progress(scan[s])'
<1>1. scan[s].step = "idle" /\ Progress(scan[s]) /\ LocalOK(scan[s]) /\ now \in Nat
  BY DEF At, Accounted, LedgerInv
<1>2. \A k \in DOMAIN scan[s].evs : scan[s].evs[k].at <= now + 1
  <2> SUFFICES ASSUME NEW k \in DOMAIN scan[s].evs PROVE scan[s].evs[k].at <= now + 1
    OBVIOUS
  <2>1. scan[s].evs[k].at \in Int /\ scan[s].evs[k].at <= now
    BY <1>1 DEF LocalOK, IsEvents, Progress
  <2> QED BY <1>1, <2>1
<1> QED BY <1>1, <1>2 DEF Progress

LEMMA QuietStep ==
    Cardinality(Ids) <= Limit /\ QuietInv /\ [QuietNext]_vars => QuietInv'
<1> SUFFICES ASSUME Cardinality(Ids) <= Limit, QuietInv, [QuietNext]_vars PROVE QuietInv'
  OBVIOUS
<1> DEFINE CountsOK == phantoms' \in Nat /\ delistings' \in Nat /\ failures' \in Nat
           Calmly == Calm' => Accounted'
           RowsThen == \A i \in Ids : row'[i].at <= now' /\ row'[i].last <= now'
           EventsThen == \A k \in DOMAIN events' : events'[k].at <= now'
           CoveredThen == \A time \in Int :
                             OwedFrom(row', time) <= transit' + ArrivedFrom(events', time)
           ProgressThen == \A s \in Scans : Progress(scan[s])'
<1>1. LedgerInv /\ LedgerInv' BY LedgerStep DEF QuietInv, QuietNext
<1>2. phantoms \in Nat /\ delistings \in Nat /\ failures \in Nat BY DEF QuietInv
<1>3. CountsOK /\ Calmly => QuietInv' BY <1>1 DEF QuietInv
<1>4. listed' /\ transit' \in Nat /\ RowsThen /\ EventsThen /\ CoveredThen /\ ProgressThen
        => Accounted'
  BY DEF Accounted
<1>5. Calm => Accounted BY DEF QuietInv
<1> HIDE DEF CountsOK, Calmly, RowsThen, EventsThen, CoveredThen, ProgressThen
<1>6. ASSUME NEW s \in Scans, Start(s) \/ Continue(s) \/ Abort(s) PROVE QuietInv'
  <2>1. UNCHANGED <<phantoms, delistings>> /\ (failures' = failures \/ failures' = failures + 1)
    BY <1>6 DEF Start, Continue, Abort, SelectNonFulfillment, CancelNonFulfillment, ReadPending,
         FetchEvents, FetchFails, Apply, DrainRead, ReadStock, StockFails, DrainApply, bounds
  <2>2. CountsOK BY <1>2, <2>1 DEF CountsOK
  <2>3. ASSUME Calm' PROVE Accounted'
    <3>1. Calm /\ Accounted BY <1>2, <1>5, <2>1, <2>3 DEF Calm
    <3>2. /\ UNCHANGED world
          /\ UNCHANGED row \/ OwedAll(row') <= transit
    BY <1>1, <1>2, <1>6, <2>3, <3>1, QuietScan
    <3>3. PICK c : Set(s, c) /\ Progress(c)'
      BY <1>1, <1>2, <1>6, <2>3, <3>1, QuietScan
    <3>4. now' = now /\ events' = events /\ transit' = transit /\ listed' = listed
      BY <3>2 DEF world
    <3>5. listed' /\ transit' \in Nat /\ EventsThen BY <3>1, <3>4 DEF Accounted, EventsThen
    <3>6. RowsThen BY <1>1, <1>6, <3>1, <3>4, ScanTimes DEF RowsThen
    <3>7. CoveredThen
      <4>1. CASE UNCHANGED row BY <3>1, <3>4, <4>1 DEF Accounted, CoveredThen
      <4>2. CASE OwedAll(row') <= transit
        <5>1. RowsOK(row') /\ IsEvents(events) BY <1>1, EventsOK DEF LedgerInv, RowsOK
        <5>2. \A time \in Int : OwedFrom(row', time) <= transit + ArrivedFrom(events, time)
          BY <3>4, <3>5, <4>2, <5>1, ClearedCovers
        <5> QED BY <3>4, <5>2 DEF CoveredThen
      <4> QED BY <3>2, <4>1, <4>2
    <3>8. ProgressThen
      <4> SUFFICES ASSUME NEW t \in Scans PROVE Progress(scan[t])'
        BY DEF ProgressThen
      <4>1. CASE t = s
        <5>1. scan'[t] = c BY <1>1, <3>3, <4>1 DEF Set, LedgerInv
        <5> QED BY <3>3, <5>1 DEF Progress, Fresh
      <4>2. CASE t # s
        <5>1. scan'[t] = scan[t] BY <1>1, <3>3, <4>2 DEF Set, LedgerInv
        <5>2. Progress(scan[t]) BY <3>1 DEF Accounted
        <5>3. CASE UNCHANGED row
          BY <3>4, <5>1, <5>2, <5>3 DEF Progress, Fresh, Cleared, Pending, InboundSince
        <5>4. CASE OwedAll(row') <= transit
          BY <3>4, <5>1, <5>2, <5>4 DEF Progress, Cleared
        <5> QED BY <3>2, <5>3, <5>4
      <4> QED BY <4>1, <4>2
    <3> QED BY <1>4, <3>5, <3>6, <3>7, <3>8
  <2>4. Calmly BY <2>3 DEF Calmly
  <2> QED BY <1>3, <2>2, <2>4
<1>7. now' = now + 1 /\ QuietNext /\ UNCHANGED scan /\ Accounted => ProgressThen
  <2> SUFFICES ASSUME now' = now + 1, QuietNext, UNCHANGED scan, Accounted, NEW s \in Scans
               PROVE  Progress(scan[s])'
    BY DEF ProgressThen
  <2>1. now' # now BY <1>1 DEF LedgerInv
  <2>2. At(s, "idle") BY <2>1 DEF QuietNext
  <2> QED BY <1>1, <2>2, IdleProgress
<1>8. ASSUME NEW qty \in 1..MaxQty, Ship(qty), QuietNext PROVE QuietInv'
  <2>1. /\ UNCHANGED <<events, listed, scan, bounds>> /\ transit' = transit + qty
        /\ now' = now + 1
    BY <1>8 DEF Ship, NewRow
  <2>2. CountsOK BY <1>2, <2>1 DEF CountsOK, bounds
  <2>3. ASSUME Calm' PROVE Accounted'
    <3>1. Accounted BY <1>5, <2>1, <2>3 DEF Calm, bounds
    <3>2. listed' /\ transit' \in Nat BY <2>1, <3>1, ParametersAssumption DEF Accounted
    <3>3. RowsThen /\ CoveredThen
      BY <1>1, <1>8, <3>1, ShipCovers DEF RowsThen, CoveredThen
    <3>4. EventsThen
      <4>1. \A k \in DOMAIN events : events[k].at \in Nat BY <1>1, EventsAre
      <4>2. \A k \in DOMAIN events : events[k].at <= now + 1
        BY <1>1, <3>1, <4>1 DEF Accounted, LedgerInv
      <4> QED BY <2>1, <4>2 DEF EventsThen
    <3>5. ProgressThen BY <1>7, <1>8, <2>1, <3>1
    <3> QED BY <1>4, <3>2, <3>3, <3>4, <3>5
  <2>4. Calmly BY <2>3 DEF Calmly
  <2> QED BY <1>3, <2>2, <2>4
<1>9. ASSUME NEW qty \in 1..MaxQty, RecordPhantom(qty) PROVE QuietInv'
  <2>1. phantoms' = phantoms + 1 /\ UNCHANGED <<failures, delistings>>
    BY <1>9 DEF RecordPhantom
  <2>2. CountsOK BY <1>2, <2>1 DEF CountsOK
  <2>3. ~Calm' BY <1>2, <2>1 DEF Calm
  <2>4. Calmly BY <2>3 DEF Calmly
  <2> QED BY <1>3, <2>2, <2>4
<1>10. ASSUME NEW qty \in 1..MaxQty, Arrive(qty), QuietNext PROVE QuietInv'
  <2>1. UNCHANGED <<row, listed, scan, bounds>> /\ now' = now + 1 BY <1>10 DEF Arrive
  <2>2. CountsOK BY <1>2, <2>1 DEF CountsOK, bounds
  <2>3. ASSUME Calm' PROVE Accounted'
    <3>1. Accounted BY <1>5, <2>1, <2>3 DEF Calm, bounds
    <3>2. transit' \in Nat /\ EventsThen /\ CoveredThen
      BY <1>1, <1>10, <3>1, ArriveCovers DEF EventsThen, CoveredThen
    <3>3. listed' BY <2>1, <3>1 DEF Accounted
    <3>4. RowsThen
      <4>1. \A i \in Ids : row[i].at \in Nat /\ row[i].last \in Int BY <1>1 DEF LedgerInv, RowOK
      <4>2. \A i \in Ids : row[i].at <= now + 1 /\ row[i].last <= now + 1
        BY <1>1, <3>1, <4>1 DEF Accounted, LedgerInv
      <4> QED BY <2>1, <4>2 DEF RowsThen
    <3>5. ProgressThen BY <1>7, <1>10, <2>1, <3>1
    <3> QED BY <1>4, <3>2, <3>3, <3>4, <3>5
  <2>4. Calmly BY <2>3 DEF Calmly
  <2> QED BY <1>3, <2>2, <2>4
<1>11. CASE Delist
  <2>1. delistings' = delistings + 1 /\ UNCHANGED <<failures, phantoms>>
    BY <1>11 DEF Delist
  <2>2. CountsOK BY <1>2, <2>1 DEF CountsOK
  <2>3. ~Calm' BY <1>2, <2>1 DEF Calm
  <2>4. Calmly BY <2>3 DEF Calmly
  <2> QED BY <1>3, <2>2, <2>4
<1>12. CASE Relist
  <2>1. ~listed /\ UNCHANGED bounds BY <1>12 DEF Relist
  <2>2. CountsOK BY <1>2, <2>1 DEF CountsOK, bounds
  <2>3. ~Calm' BY <1>5, <2>1 DEF Calm, bounds, Accounted
  <2>4. Calmly BY <2>3 DEF Calmly
  <2> QED BY <1>3, <2>2, <2>4
<1>13. CASE Tick /\ QuietNext
  <2>1. UNCHANGED <<row, events, transit, listed, scan, bounds>> /\ now' = now + 1
    BY <1>13 DEF Tick
  <2>2. CountsOK BY <1>2, <2>1 DEF CountsOK, bounds
  <2>3. ASSUME Calm' PROVE Accounted'
    <3>1. Accounted BY <1>5, <2>1, <2>3 DEF Calm, bounds
    <3>2. listed' /\ transit' \in Nat /\ CoveredThen
      BY <2>1, <3>1 DEF Accounted, CoveredThen
    <3>3. RowsThen
      <4>1. \A i \in Ids : row[i].at \in Nat /\ row[i].last \in Int BY <1>1 DEF LedgerInv, RowOK
      <4>2. \A i \in Ids : row[i].at <= now + 1 /\ row[i].last <= now + 1
        BY <1>1, <3>1, <4>1 DEF Accounted, LedgerInv
      <4> QED BY <2>1, <4>2 DEF RowsThen
    <3>4. EventsThen
      <4>1. \A k \in DOMAIN events : events[k].at \in Nat BY <1>1, EventsAre
      <4>2. \A k \in DOMAIN events : events[k].at <= now + 1
        BY <1>1, <3>1, <4>1 DEF Accounted, LedgerInv
      <4> QED BY <2>1, <4>2 DEF EventsThen
    <3>5. ProgressThen BY <1>7, <1>13, <2>1, <3>1
    <3> QED BY <1>4, <3>2, <3>3, <3>4, <3>5
  <2>4. Calmly BY <2>3 DEF Calmly
  <2> QED BY <1>3, <2>2, <2>4
<1>14. CASE UNCHANGED vars
  BY <1>14 DEF QuietInv, vars, Calm, Accounted, LedgerInv, Progress, Fresh, Cleared, Pending,
     InboundSince
<1> QED BY <1>6, <1>8, <1>9, <1>10, <1>11, <1>12, <1>13, <1>14 DEF QuietNext, Next

\* Where the clock stands still during a scan, every row was shipped, the SKU stays on
\* the Full channel and no request fails, a drain leaves the rows alone once all that
\* was shipped has arrived, however many scans overlap and whatever they have read: from
\* any time on, what the rows lack is on its way or has arrived since; a matching of all
\* pending rows credits every unit they may use; a scan drains after it has matched, or
\* had nothing to match.  (list_all must not cut the listing: with more rows than its
\* limit the oldest ones would not be matched.)
THEOREM QuietKeeps == Cardinality(Ids) <= Limit => (QuietSpec => ArrivedNotDrained)
<1> SUFFICES ASSUME Cardinality(Ids) <= Limit PROVE QuietSpec => ArrivedNotDrained
  OBVIOUS
<1> DEFINE Keeps == \A s \in Scans :
                       At(s, "settle") /\ phantoms = 0 /\ delistings = 0 /\ failures = 0 =>
                           row' = row \/ transit > 0
<1>1. QuietInv => Keeps
  BY DEF QuietInv, Calm, Accounted, Progress, At
<1>2. QuietInv /\ [QuietNext]_vars => QuietInv' BY QuietStep
<1>3. QuietSpec => Init /\ [][QuietNext]_vars BY DEF QuietSpec, QuietNext
<1> HIDE DEF Keeps
<1>4. QuietSpec => [][Keeps]_vars BY QuietInit, <1>1, <1>2, <1>3, PTL
<1> QED BY <1>4 DEF ArrivedNotDrained, Keeps

---------------------------------------------------------------------------
(* The matching over the small inputs that TLC gives it                    *)

\* A sequence has a finite domain.
LEMMA SeqOfIs ==
    ASSUME NEW S, NEW n \in Nat, NEW e \in SeqOf(S, n)
    PROVE  /\ IsFiniteSet(DOMAIN e) /\ \A k \in DOMAIN e : k \in Int
           /\ \A k \in DOMAIN e : e[k] \in S
<1>1. PICK m \in 0..n : e \in [1..m -> S] BY DEF SeqOf
<1>2. m \in Int BY <1>1
<1>3. IsFiniteSet(1..m) BY <1>2, FS_Interval
<1>4. DOMAIN e = 1..m BY <1>1
<1>5. \A k \in 1..m : k \in Int /\ e[k] \in S BY <1>1, <1>2
<1> QED BY <1>3, <1>4, <1>5

\* What is matched: rows and events such as those of MatchFifo.
LEMMA ToMatchOK ==
    ASSUME NEW m \in ToMatch
    PROVE  IsTransfers(m.transfers) /\ IsEvents(m.events)
<1> USE CallsAssumption
<1>1. m.transfers \in SeqOf(Transfers, MaxTransfers)
      /\ m.events \in SeqOf([at : Instants, qty : 1..MaxUnits], MaxEvents)
  <2> DEFINE A == {s \in SeqOf(Transfers, MaxTransfers) : Listed(s)}
             B == SeqOf([at : Instants, qty : 1..MaxUnits], MaxEvents)
  <2>1. ToMatch = {[transfers |-> s, events |-> e] : s \in A, e \in B} BY DEF ToMatch
  <2>2. \A s \in A : s \in SeqOf(Transfers, MaxTransfers) OBVIOUS
  <2> HIDE DEF A, B
  <2>3. \E s \in A, e \in B : m = [transfers |-> s, events |-> e] BY <2>1
  <2>4. PICK s \in A, e \in B : m = [transfers |-> s, events |-> e] BY <2>3
  <2>5. m.transfers = s /\ m.events = e BY <2>4
  <2>6. m.events \in B /\ m.transfers \in SeqOf(Transfers, MaxTransfers) BY <2>2, <2>5
  <2> QED BY <2>6 DEF B
<1>2. \A t \in Transfers : IsTransfer(t) BY DEF Transfers, Instants, Never, IsTransfer
<1>3. IsTransfers(m.transfers)
  <2>1. /\ IsFiniteSet(DOMAIN m.transfers) /\ \A k \in DOMAIN m.transfers : k \in Int
        /\ \A k \in DOMAIN m.transfers : m.transfers[k] \in Transfers
    BY <1>1, SeqOfIs
  <2> QED BY <1>2, <2>1 DEF IsTransfers
<1>4. IsEvents(m.events)
  <2> DEFINE A == [at : Instants, qty : 1..MaxUnits]
  <2>1. \A e \in A : e.at \in Int /\ e.qty \in Nat BY DEF Instants
  <2>2. m.events \in SeqOf(A, MaxEvents) BY <1>1
  <2> HIDE DEF A
  <2>3. /\ IsFiniteSet(DOMAIN m.events) /\ \A k \in DOMAIN m.events : k \in Int
        /\ \A k \in DOMAIN m.events : m.events[k] \in A
    BY <2>2, SeqOfIs
  <2> QED BY <2>1, <2>3 DEF IsEvents
<1> QED BY <1>3, <1>4

\* The inductive invariant of MatchIsFifo.
MatchInv ==
    task.kind = "match" =>
        /\ IsTransfers(task.of.transfers) /\ IsEvents(task.of.events)
        /\ answer # Unanswered => answer.is = Match(task.of.transfers, task.of.events)

LEMMA MatchAsked == Ask => MatchInv
<1> SUFFICES ASSUME Ask, task.kind = "match"
             PROVE  IsTransfers(task.of.transfers) /\ IsEvents(task.of.events)
                    /\ answer = Unanswered
  BY DEF MatchInv
<1>1. answer = Unanswered BY DEF Ask
<1>2. \E m \in ToMatch : task = Task("match", m) BY DEF Ask, Task
<1>3. PICK m \in ToMatch : task = Task("match", m) BY <1>2
<1>4. task.of = m BY <1>3 DEF Task
<1> QED BY <1>1, <1>4, ToMatchOK

LEMMA MatchAnswered == MatchInv /\ [Compute]_calls => MatchInv'
<1> SUFFICES ASSUME MatchInv, [Compute]_calls, task'.kind = "match"
             PROVE  /\ IsTransfers(task'.of.transfers) /\ IsEvents(task'.of.events)
                    /\ answer' # Unanswered =>
                          answer'.is = Match(task'.of.transfers, task'.of.events)
  BY DEF MatchInv, Unanswered
<1>1. task' = task BY DEF Compute, Answer, calls
<1>2. task.kind = "match" BY <1>1
<1>3. IsTransfers(task.of.transfers) /\ IsEvents(task.of.events) BY <1>2 DEF MatchInv
<1>4. CASE Answer("match", Match(task.of.transfers, task.of.events))
  BY <1>1, <1>3, <1>4 DEF Answer
<1>5. CASE UNCHANGED calls BY <1>1, <1>2, <1>3, <1>5 DEF calls, MatchInv
<1>6. Compute => Answer("match", Match(task.of.transfers, task.of.events))
  BY <1>2 DEF Compute, Answer
<1> QED BY <1>4, <1>5, <1>6

\* Whatever rows and events _fifo_match_with_chronology is called with, how many there
\* are and whatever their units and days, its decisions are the first-in-first-out ones.
THEOREM MatchesAreFifo == CallsSpec => []MatchIsFifo
<1>1. MatchInv => MatchIsFifo
  <2> SUFFICES ASSUME MatchInv, task.kind = "match", answer # Unanswered
               PROVE  Fifo(task.of.transfers, task.of.events, answer.is)
    BY DEF MatchIsFifo, Answered
  <2>1. /\ IsTransfers(task.of.transfers) /\ IsEvents(task.of.events)
        /\ answer.is = Match(task.of.transfers, task.of.events)
    BY DEF MatchInv
  <2> QED BY <2>1, MatchFifo
<1> QED BY MatchAsked, MatchAnswered, <1>1, PTL DEF CallsSpec

---------------------------------------------------------------------------
(* The price that is decided                                               *)

Amounts == Nat \cup {None}
IsPromo(p) ==
    /\ p.price \in Amounts /\ p.original \in Amounts /\ p.min \in Amounts /\ p.max \in Amounts
    /\ p.suggested \in Amounts /\ p.fixed \in Amounts /\ p.seller \in Amounts /\ p.meli \in Nat
IsPromos(promos) ==
    /\ DOMAIN promos \in SUBSET Nat /\ IsFiniteSet(DOMAIN promos)
    /\ \A i \in DOMAIN promos : IsPromo(promos[i])
IsCosts(costs) ==
    costs = <<>> \/ /\ costs[1].list \in Amounts /\ costs[1].promo \in Amounts
                    /\ costs[1].freight \in Seq([min : Nat, max : Amounts, cost : Nat])

LEMMA QuotientInt ==
    ASSUME NEW n \in Int, NEW d \in Nat, d > 0
    PROVE  Quotient(n, d) \in Int
<1>1. n \div d \in Int OBVIOUS
<1> DEFINE q == n \div d
<1>2. Quotient(n, d) \in {q, q + 1} BY DEF Quotient
<1> HIDE DEF q
<1> QED BY <1>1, <1>2 DEF q

LEMMA LessInt ==
    \A price, pct \in Int : Less(price, pct) \in Int
<1> SUFFICES ASSUME NEW price \in Int, NEW pct \in Int PROVE Less(price, pct) \in Int
  OBVIOUS
<1>1. price * (Whole - pct) \in Int /\ Whole \in Nat /\ Whole > 0 BY DEF Whole
<1> QED BY <1>1, QuotientInt DEF Less

LEMMA DiscountInt ==
    \A list \in Nat, price \in Int : list > 0 => Discount(list, price) \in Int
<1> SUFFICES ASSUME NEW list \in Nat, NEW price \in Int, list > 0
             PROVE  Discount(list, price) \in Int
  OBVIOUS
<1>1. (list - price) * Whole \in Int BY DEF Whole
<1> QED BY <1>1, QuotientInt DEF Discount

\* The largest of two and of three.
LEMMA MaxOfThree ==
    ASSUME NEW a \in Int, NEW b \in Int, NEW c \in Int
    PROVE  /\ Max({a, b}) \in Int /\ Max({a, b}) >= a /\ Max({a, b}) >= b
           /\ Max({a, b, c}) \in Int /\ Max({a, b, c}) >= a
           /\ Max({a, b, c}) >= b /\ Max({a, b, c}) >= c
<1>1. \E x \in {a, b} : \A y \in {a, b} : x >= y OBVIOUS
<1>2. \E x \in {a, b, c} : \A y \in {a, b, c} : x >= y
  <2>1. CASE a >= b /\ a >= c BY <2>1
  <2>2. CASE b >= a /\ b >= c BY <2>2
  <2>3. CASE c >= a /\ c >= b BY <2>3
  <2> QED BY <2>1, <2>2, <2>3
<1>3. Max({a, b}) \in {a, b} /\ \A y \in {a, b} : Max({a, b}) >= y BY <1>1 DEF Max
<1>4. Max({a, b, c}) \in {a, b, c} /\ \A y \in {a, b, c} : Max({a, b, c}) >= y BY <1>2 DEF Max
<1> QED BY <1>3, <1>4

\* What is accepted of a promotion that is not a lightning offer keeps the floor.
LEMMA ScoreKeepsFloor ==
    ASSUME NEW p, IsPromo(p), NEW cap \in Int, NEW margin \in Amounts, NEW list \in Amounts,
           Score(p, cap, margin, list) # <<>>, p.type # "LIGHTNING"
    PROVE  LET plan == Score(p, cap, margin, list)[1]
           IN  /\ plan.price \in Int /\ plan.total \in Int
               /\ plan.accepted => plan.price + 1 >= Or(margin, 0)
<1> DEFINE floor == Or(margin, 0)
           capTotal == cap + p.meli
           original == IF p.original \in {None, 0} THEN list ELSE p.original
<1>1. list \in Nat /\ list > 0 BY DEF Score, Amounts, None
<1>2. floor \in Int /\ capTotal \in Int /\ original \in Nat /\ original > 0
  BY <1>1 DEF Or, Amounts, None, IsPromo
<1>3. ASSUME NEW price \in Int, NEW total \in Int, NEW asked, NEW limit
      PROVE  LET plan == Checked(price, total, p.meli, asked, limit, floor)
             IN  /\ plan.price \in Int /\ plan.total \in Int
                 /\ plan.accepted => plan.price + 1 >= floor
  BY DEF Checked, Plan
<1>4. ASSUME p.min # None
      PROVE  LET plan == Interval(p, capTotal, floor, list)
             IN  /\ plan.price \in Int /\ plan.total \in Int
                 /\ plan.accepted => plan.price + 1 >= floor
  <2> DEFINE lower == Max({p.min, floor, Less(list, capTotal)})
             upper == Or(p.max, list)
             suggested == p.suggested # None /\ lower - 1 <= p.suggested
                            /\ p.suggested <= upper + 1
             price == IF lower <= upper + 1 /\ suggested THEN p.suggested ELSE lower
  <2>1. Less(list, capTotal) \in Int
    <3> HIDE DEF capTotal
    <3> QED BY <1>1, <1>2, LessInt
  <2>2. p.min \in Int /\ p.suggested \in Int BY DEF IsPromo, Amounts, None
  <2>3. lower \in Int /\ lower >= floor BY <1>2, <2>1, <2>2, MaxOfThree
  <2> HIDE DEF lower
  <2>4. price \in Int /\ price + 1 >= floor BY <1>2, <2>2, <2>3
  <2> HIDE DEF price
  <2>5. Discount(list, price) \in Int BY <1>1, <2>4, DiscountInt
  <2>6. Interval(p, capTotal, floor, list) = Plan(lower <= upper + 1, price, Discount(list, price), p.meli)
    BY DEF Interval, lower, price
  <2> QED BY <2>4, <2>5, <2>6 DEF Plan
<1>5. p.fixed \in Int /\ p.suggested \in Int /\ p.price \in Int /\ p.seller \in Int /\ p.meli \in Int
  BY DEF IsPromo, Amounts, None
<1>6. \A price \in Int : Less(list, price) \in Int /\ Less(original, price) \in Int
                        /\ Discount(list, price) \in Int /\ Discount(original, price) \in Int
  <2> HIDE DEF original
  <2> SUFFICES ASSUME NEW price \in Int
               PROVE  /\ Less(list, price) \in Int /\ Less(original, price) \in Int
                      /\ Discount(list, price) \in Int /\ Discount(original, price) \in Int
    OBVIOUS
  <2>1. list \in Int /\ original \in Int BY <1>1, <1>2
  <2>2. Less(list, price) \in Int /\ Less(original, price) \in Int BY <2>1, LessInt
  <2>3. Discount(list, price) \in Int BY <1>1, DiscountInt
  <2>4. Discount(original, price) \in Int BY <1>2, DiscountInt
  <2> QED BY <2>2, <2>3, <2>4
<1> DEFINE ok(plan) == /\ plan.price \in Int /\ plan.total \in Int
                       /\ plan.accepted => plan.price + 1 >= floor
           value == Score(p, cap, margin, list)
<1>7. CASE p.fixed # None
  <2>1. value = <<Checked(Less(list, p.fixed), p.fixed, p.meli, p.fixed, capTotal, floor)>>
    BY <1>1, <1>7 DEF Score, None
  <2>2. ok(Checked(Less(list, p.fixed), p.fixed, p.meli, p.fixed, capTotal, floor))
    BY <1>3, <1>5, <1>6
  <2> QED BY <2>1, <2>2
<1>8. CASE p.fixed = None /\ p.min # None
  <2>1. value = <<Interval(p, capTotal, floor, list)>> BY <1>1, <1>8 DEF Score, None
  <2> QED BY <1>4, <1>8, <2>1
<1>9. CASE p.fixed = None /\ p.min = None /\ p.suggested # None
  <2> DEFINE total == Discount(list, p.suggested)
  <2>1. value = <<Checked(p.suggested, total, p.meli, total, capTotal, floor)>>
    BY <1>1, <1>9 DEF Score, None
  <2>2. ok(Checked(p.suggested, total, p.meli, total, capTotal, floor)) BY <1>3, <1>5, <1>6
  <2> QED BY <2>1, <2>2
<1>10. CASE p.fixed = None /\ p.min = None /\ p.suggested = None /\ p.seller # None
  <2> DEFINE total == p.seller + p.meli
             price == IF p.price # None THEN p.price ELSE Less(original, total)
  <2>1. value = <<Checked(price, total, p.meli, p.seller, cap, floor)>>
    BY <1>1, <1>10 DEF Score, None
  <2>2. total \in Int BY <1>5
  <2> HIDE DEF total, original
  <2>3. price \in Int BY <1>5, <1>6, <2>2
  <2> HIDE DEF price
  <2>4. ok(Checked(price, total, p.meli, p.seller, cap, floor)) BY <1>3, <2>2, <2>3
  <2> QED BY <2>1, <2>4
<1>11. CASE p.fixed = None /\ p.min = None /\ p.suggested = None /\ p.seller = None
  <2> DEFINE total == Discount(p.original, p.price)
  <2>1. p.price # None /\ p.original \notin {None, 0} BY <1>1, <1>11 DEF Score, None
  <2>2. value = <<Checked(p.price, total, p.meli, total, capTotal, floor)>>
    BY <1>1, <1>11, <2>1 DEF Score, None
  <2>3. total \in Int BY <1>5, <1>6, <2>1
  <2>4. ok(Checked(p.price, total, p.meli, total, capTotal, floor)) BY <1>3, <1>5, <2>3
  <2> QED BY <2>2, <2>4
<1> QED BY <1>7, <1>8, <1>9, <1>10, <1>11

\* The first of those that are worth the most.
LEMMA BestIs ==
    ASSUME NEW S \in SUBSET Nat, IsFiniteSet(S), S # {}, NEW f, \A i \in S : f[i] \in Int
    PROVE  \E i \in S : \A j \in S : f[i] > f[j] \/ (f[i] = f[j] /\ i <= j)
<1> DEFINE g == [i \in S |-> 0 - f[i]]
<1>1. S \in SUBSET Int /\ \A i \in S : g[i] \in Int OBVIOUS
<1>2. \E m \in S : \A j \in S : g[m] <= g[j]
  <2> HIDE DEF g
  <2> QED BY <1>1, LeastIs
<1>3. PICK m \in S : \A j \in S : g[m] <= g[j] BY <1>2
<1>4. \A j \in S : f[m] >= f[j] BY <1>3
<1> DEFINE T == {i \in S : f[i] = f[m]}
<1>5. T \in SUBSET Nat /\ T # {} BY <1>3
<1>6. \E n \in T : \A j \in T : n <= j
  <2> HIDE DEF T
  <2> QED BY <1>5, Smallest
<1>7. PICK n \in T : \A j \in T : n <= j BY <1>6
<1>8. ASSUME NEW j \in S PROVE f[n] > f[j] \/ (f[n] = f[j] /\ n <= j)
  <2>1. n \in S /\ f[n] = f[m] /\ f[m] \in Int /\ f[j] \in Int /\ f[m] >= f[j] BY <1>3, <1>4, <1>7
  <2>2. CASE f[j] = f[m] BY <1>7, <2>1, <2>2
  <2>3. CASE f[j] # f[m] BY <2>1, <2>3
  <2> QED BY <2>2, <2>3
<1> QED BY <1>7, <1>8

\* _freight_opt_check moves a price to one that is a number, and only down to the floor.
LEMMA ShavedKeepsFloor ==
    ASSUME NEW price \in Int, NEW costs, IsCosts(costs), NEW floor \in Int, floor # None,
           price + 1 >= floor
    PROVE  Shaved(price, costs, floor) \in Int /\ Shaved(price, costs, floor) + 1 >= floor
<1> DEFINE cheaper == IF costs = <<>> THEN price ELSE Cheaper(price, costs[1].freight)
<1>1. cheaper \in Int
  <2>1. CASE costs = <<>> BY <2>1
  <2>2. CASE costs # <<>>
    <3> DEFINE bands == costs[1].freight
               i == BandOf(price, bands)
               hits == {k \in DOMAIN bands : Within(price, bands[k])}
    <3>1. bands \in Seq([min : Nat, max : Amounts, cost : Nat]) BY <2>2 DEF IsCosts
    <3> HIDE DEF bands
    <3>2. DOMAIN bands = 1..Len(bands) /\ Len(bands) \in Nat BY <3>1
    <3>3. CASE hits = {} BY <3>3 DEF BandOf, Cheaper, bands
    <3>4. CASE hits # {}
      <4>1. hits \in SUBSET Nat BY <3>2
      <4> HIDE DEF hits
      <4>2. \E n \in hits : \A m \in hits : n <= m BY <3>4, <4>1, Smallest
      <4>3. Min(hits) \in hits BY <4>2 DEF Min
      <4>4. i = Min(hits) BY <3>4 DEF BandOf, hits
      <4>5. i \in DOMAIN bands BY <4>3, <4>4 DEF hits
      <4> HIDE DEF i
      <4>6. i \in Nat BY <3>2, <4>5
      <4>7. i > 1 => bands[i - 1].max \in Int
        <5> SUFFICES ASSUME i > 1 PROVE bands[i - 1].max \in Int
          OBVIOUS
        <5>1. i - 1 \in DOMAIN bands BY <3>2, <4>5
        <5>2. \A k \in 1..Len(bands) : bands[k] \in [min : Nat, max : Amounts, cost : Nat]
          BY <3>1, ElementOfSeq
        <5>3. bands[i - 1] \in [min : Nat, max : Amounts, cost : Nat] BY <3>2, <5>1, <5>2
        <5> QED BY <5>3 DEF Amounts, None
      <4>8. Cheaper(price, bands) \in {price} \cup (IF i > 1 THEN {bands[i - 1].max} ELSE {})
        BY <4>6 DEF Cheaper, i
      <4>9. Cheaper(price, bands) \in Int BY <4>7, <4>8
      <4> QED BY <2>2, <4>9 DEF bands
    <3> QED BY <3>3, <3>4
  <2> QED BY <2>1, <2>2
<1>2. Shaved(price, costs, floor) = IF floor = None \/ cheaper >= floor THEN cheaper ELSE price
  BY DEF Shaved
<1> HIDE DEF cheaper
<1> QED BY <1>1, <1>2

\* The list price that decide_for_item takes is a number, or there is none.
LEMMA OriginalIs ==
    ASSUME NEW promos, IsPromos(promos), NEW costs, IsCosts(costs),
           NEW places \in SUBSET DOMAIN promos
    PROVE  Original(promos, places, costs) \in Amounts
<1> DEFINE priced == Priced(promos, places)
<1>1. CASE priced = {} BY <1>1 DEF Original, IsCosts, Amounts
<1>2. CASE priced # {}
  <2>1. priced \in SUBSET Nat /\ priced \subseteq DOMAIN promos BY DEF Priced, IsPromos
  <2>2. Original(promos, places, costs) = promos[Min(priced)].original BY <1>2 DEF Original
  <2> HIDE DEF priced
  <2>3. \E n \in priced : \A m \in priced : n <= m BY <1>2, <2>1, Smallest
  <2>4. Min(priced) \in priced BY <2>3 DEF Min
  <2> QED BY <2>1, <2>2, <2>4 DEF IsPromos, IsPromo
<1> QED BY <1>1, <1>2

\* What a started promotion discounts is a number, or not known.
LEMMA MeasuredIs ==
    ASSUME NEW promos, IsPromos(promos), NEW places \in SUBSET DOMAIN promos, NEW i \in places
    PROVE  Measured(promos, places, i) \in Int
<1> DEFINE before == Priced(promos, {j \in places : j <= i})
           own == promos[i].original
           list == IF own \notin {None, 0} THEN own
                   ELSE IF before = {} THEN None ELSE promos[Min(before)].original
<1>1. list \in Amounts /\ list # 0
  <2>1. CASE own \notin {None, 0} BY <2>1 DEF IsPromos, IsPromo
  <2>2. CASE own \in {None, 0} /\ before = {} BY <2>2 DEF None, Amounts
  <2>3. CASE own \in {None, 0} /\ before # {}
    <3>1. before \in SUBSET Nat /\ before \subseteq DOMAIN promos BY DEF Priced, IsPromos
    <3>2. \A j \in before : promos[j].original # 0 BY DEF Priced
    <3>3. list = promos[Min(before)].original BY <2>3
    <3> HIDE DEF before, list
    <3>4. \E n \in before : \A m \in before : n <= m BY <2>3, <3>1, Smallest
    <3>5. Min(before) \in before BY <3>4 DEF Min
    <3> QED BY <3>1, <3>2, <3>3, <3>5 DEF IsPromos, IsPromo
  <2> QED BY <2>1, <2>2, <2>3
<1>2. Measured(promos, places, i) =
        IF promos[i].price \in {None, 0} \/ list = None THEN None
        ELSE Tenths(list, promos[i].price)
  BY DEF Measured
<1> HIDE DEF list
<1>3. CASE promos[i].price \in {None, 0} \/ list = None BY <1>2, <1>3 DEF None
<1>4. CASE ~(promos[i].price \in {None, 0} \/ list = None)
  <2>1. list \in Nat /\ list > 0 /\ promos[i].price \in Int
    BY <1>1, <1>4 DEF Amounts, None, IsPromos, IsPromo
  <2>2. (list - promos[i].price) * 1000 \in Int BY <2>1
  <2>3. Quotient((list - promos[i].price) * 1000, list) \in Int BY <2>1, <2>2, QuotientInt
  <2> QED BY <1>2, <1>4, <2>3 DEF Tenths
<1> QED BY <1>3, <1>4

\* decide_for_item, "target_price >= max(margin_floor_price, ...)": for any promotions, costs and
\* cap, the price it activates or creates at is no lower than the floor, but for a cent
\* of rounding, unless a lightning offer was among them.
THEOREM PriceKeepsFloor ==
    ASSUME NEW promos, IsPromos(promos), NEW costs, IsCosts(costs), NEW cap \in Nat,
           NEW margin \in Amounts, NEW excluded, NEW winner \in BOOLEAN,
           \A i \in DOMAIN promos : promos[i].type = "LIGHTNING" => "LIGHTNING" \in excluded
    PROVE  LET decision == DecideForItem(promos, costs, cap, margin, excluded, winner)
           IN  decision.price # None /\ decision.floor # None
                 => decision.price + 1 >= decision.floor
<1> DEFINE places == {i \in DOMAIN promos : promos[i].type \notin excluded}
           list == Original(promos, places, costs)
           given == Or(margin, IF costs = <<>> THEN None ELSE costs[1].promo)
           floor == IF given = 0 THEN None ELSE given
           decision == DecideForItem(promos, costs, cap, margin, excluded, winner)
           ScoreOf(i) == Score(promos[i], cap, floor, list)
           fit == {i \in places : /\ promos[i].status = "candidate"
                                  /\ ScoreOf(i) # <<>> /\ ScoreOf(i)[1].accepted
                                  /\ ScoreOf(i)[1].total > 0}
           best == CHOOSE i \in fit : \A j \in fit :
                      ScoreOf(i)[1].total > ScoreOf(j)[1].total
                      \/ (ScoreOf(i)[1].total = ScoreOf(j)[1].total /\ i <= j)
           created == Max({Less(list, cap), Or(floor, 0)})
<1>1. \/ decision.price = None
      \/ decision.floor = None
      \/ /\ decision.floor = floor /\ fit # {}
         /\ decision.price = Shaved(ScoreOf(best)[1].price, costs, floor)
      \/ /\ decision.floor = floor /\ list \notin {None, 0}
         /\ decision.price = Shaved(created, costs, floor)
  BY DEF DecideForItem, Decided, Best
<1> HIDE DEF decision
<1>2. list \in Amounts /\ places \in SUBSET Nat /\ IsFiniteSet(places)
  <2>1. places \in SUBSET DOMAIN promos OBVIOUS
  <2> HIDE DEF places
  <2>2. list \in Amounts BY <2>1, OriginalIs
  <2>3. IsFiniteSet(places) BY <2>1, FS_Subset DEF IsPromos
  <2> QED BY <2>1, <2>2, <2>3 DEF IsPromos
<1>3. floor \in Amounts /\ floor # 0 BY DEF Or, IsCosts, Amounts, None
<1>4. \A i \in places : IsPromo(promos[i]) /\ promos[i].type # "LIGHTNING" BY DEF IsPromos
<1> HIDE DEF list, floor, places
<1>5. ASSUME fit # {}
      PROVE  ScoreOf(best)[1].price \in Int /\ ScoreOf(best)[1].price + 1 >= Or(floor, 0)
  <2>1. \A i \in fit : /\ ScoreOf(i)[1].price \in Int /\ ScoreOf(i)[1].total \in Int
                       /\ ScoreOf(i)[1].price + 1 >= Or(floor, 0)
    <3> SUFFICES ASSUME NEW i \in fit
                 PROVE  /\ ScoreOf(i)[1].price \in Int /\ ScoreOf(i)[1].total \in Int
                        /\ ScoreOf(i)[1].price + 1 >= Or(floor, 0)
      OBVIOUS
    <3>1. ScoreOf(i) # <<>> /\ ScoreOf(i)[1].accepted /\ i \in places OBVIOUS
    <3>2. cap \in Int OBVIOUS
    <3> QED BY <1>2, <1>3, <1>4, <3>1, <3>2, ScoreKeepsFloor
  <2> DEFINE f == [i \in fit |-> ScoreOf(i)[1].total]
  <2>2. fit \in SUBSET Nat /\ IsFiniteSet(fit)
    <3>1. fit \in SUBSET places OBVIOUS
    <3> HIDE DEF fit
    <3> QED BY <1>2, <3>1, FS_Subset
  <2>3. \A i \in fit : f[i] = ScoreOf(i)[1].total /\ f[i] \in Int BY <2>1
  <2> HIDE DEF f, fit
  <2>4. \E i \in fit : \A j \in fit : f[i] > f[j] \/ (f[i] = f[j] /\ i <= j)
    BY <1>5, <2>2, <2>3, BestIs
  <2> HIDE DEF ScoreOf
  <2>5. \E i \in fit : \A j \in fit : ScoreOf(i)[1].total > ScoreOf(j)[1].total
                      \/ (ScoreOf(i)[1].total = ScoreOf(j)[1].total /\ i <= j)
    BY <2>3, <2>4
  <2>6. best \in fit BY <2>5
  <2> QED BY <2>1, <2>6
<1>6. ASSUME list \notin {None, 0}
      PROVE  created \in Int /\ created + 1 >= Or(floor, 0)
  <2>1. list \in Int /\ cap \in Int /\ Or(floor, 0) \in Int BY <1>2, <1>3 DEF Amounts, None, Or
  <2>2. Less(list, cap) \in Int BY <2>1, LessInt
  <2> DEFINE a == Less(list, cap)
             b == Or(floor, 0)
  <2>3. a \in Int /\ b \in Int BY <2>1, <2>2
  <2> HIDE DEF a, b
  <2>4. Max({a, b}) \in Int /\ Max({a, b}) >= b BY <2>3, MaxOfThree
  <2>5. Max({a, b}) + 1 >= b BY <2>3, <2>4
  <2> QED BY <2>4, <2>5 DEF a, b
<1>7. SUFFICES ASSUME floor # None
               PROVE  /\ fit # {} => Shaved(ScoreOf(best)[1].price, costs, floor) + 1 >= floor
                      /\ list \notin {None, 0} => Shaved(created, costs, floor) + 1 >= floor
  BY <1>1 DEF decision
<1>8. floor \in Int /\ Or(floor, 0) = floor BY <1>3, <1>7 DEF Amounts, None, Or
<1> HIDE DEF created, best, ScoreOf, fit
<1>9. ASSUME fit # {} PROVE Shaved(ScoreOf(best)[1].price, costs, floor) + 1 >= floor
  BY <1>5, <1>7, <1>8, <1>9, ShavedKeepsFloor
<1>10. ASSUME list \notin {None, 0} PROVE Shaved(created, costs, floor) + 1 >= floor
  BY <1>6, <1>7, <1>8, <1>10, ShavedKeepsFloor
<1> QED BY <1>9, <1>10

---------------------------------------------------------------------------
(* What one recomputation of caps leaves for the next decision             *)

\* calc_cap_from_active_promo, "by construction the active promo never trips an alert":
\* decided on with the cap and the floor that were just made from them, whatever the
\* costs, promotions that run, and name their prices, raise none.
THEOREM ActiveIsNoAlert ==
    ASSUME NEW promos, IsPromos(promos), NEW snap, ~snap.error, NEW calib, NEW costs,
           NEW excluded, NEW winner,
           \A i \in DOMAIN promos : promos[i].status = "started"
               => promos[i].original \in Nat \ {0} /\ promos[i].price \in Nat \ {0}
    PROVE  LET cap == CapOf(snap, calib, <<promos>>)
           IN  ~DecideForItem(promos, costs, cap.cap, cap.floor, excluded, winner).violated
<1> DEFINE cap == CapOf(snap, calib, <<promos>>)
           places == {i \in DOMAIN promos : promos[i].type \notin excluded}
           given == Or(cap.floor, IF costs = <<>> THEN None ELSE costs[1].promo)
           floor == IF given = 0 THEN None ELSE given
           Of(i) == Measured(promos, places, i)
           active == {i \in places : promos[i].status = "started" /\ Of(i) # None}
           best == CHOOSE i \in active : \A j \in active :
                      Of(i) > Of(j) \/ (Of(i) = Of(j) /\ i <= j)
           prices == {p.price : p \in Usable(promos)}
<1> SUFFICES ASSUME DecideForItem(promos, costs, cap.cap, cap.floor, excluded, winner).violated
             PROVE  FALSE
  OBVIOUS
<1>1. active # {} /\ floor # None /\ promos[best].price < floor
  BY DEF DecideForItem, Decided, Best
<1>2. \A i \in places : Of(i) \in Int
  <2>1. places \in SUBSET DOMAIN promos OBVIOUS
  <2> HIDE DEF places
  <2> QED BY <2>1, MeasuredIs
<1>3. best \in active
  <2> DEFINE f == [i \in active |-> Of(i)]
  <2>1. active \in SUBSET DOMAIN promos /\ active \subseteq places OBVIOUS
  <2> HIDE DEF Of
  <2>2. \A i \in active : f[i] = Of(i) /\ f[i] \in Int BY <1>2
  <2> HIDE DEF f, active
  <2>3. active \in SUBSET Nat /\ IsFiniteSet(active) BY <2>1, FS_Subset DEF IsPromos
  <2>4. \E i \in active : \A j \in active : f[i] > f[j] \/ (f[i] = f[j] /\ i <= j)
    BY <1>1, <2>2, <2>3, BestIs
  <2>5. \E i \in active : \A j \in active : Of(i) > Of(j) \/ (Of(i) = Of(j) /\ i <= j)
    BY <2>2, <2>4
  <2> QED BY <2>5
<1>4. best \in DOMAIN promos /\ promos[best].status = "started" BY <1>3
<1> HIDE DEF best, active, Of
<1>5. promos[best] \in Usable(promos)
  BY <1>4 DEF Usable, Started, ToSet
<1>6. prices \in SUBSET Nat /\ promos[best].price \in prices /\ \A n \in prices : n > 0
  BY <1>5 DEF Usable, Started, ToSet
<1>7. cap.floor = Min(prices)
  BY <1>5 DEF CapOf, CapOfActive, Cap, Baseline
<1> HIDE DEF prices, cap
<1>8. Min(prices) \in prices /\ Min(prices) <= promos[best].price
  <2>1. \E n \in prices : \A m \in prices : n <= m BY <1>6, Smallest
  <2> QED BY <1>6, <2>1 DEF Min
<1>9. floor = Min(prices) BY <1>6, <1>7, <1>8 DEF Or, None
<1> HIDE DEF floor
<1>10. PICK n \in Nat, m \in Nat : n = promos[best].price /\ m = Min(prices)
  BY <1>6, <1>8
<1> QED BY <1>1, <1>8, <1>9, <1>10

Snapshots(Mlb, Sku, List, Fee) ==
    [mlb : Mlb, sku : Sku, error : BOOLEAN, list : List, fees : Fee]

\* The complete snapshots of a listing, once twins have inherited theirs.
Complete(snaps, active, mlb) ==
    {s \in ToSet(snaps) \cup Inherited(snaps, active) :
        s.sku # "none" /\ HasCost(s) /\ s.mlb = mlb}

LEMMA OneIsOne ==
    ASSUME NEW S, NEW x \in S, \A y \in S : y = x
    PROVE  Cardinality(S) = 1
<1>1. S = {x} OBVIOUS
<1> QED BY <1>1, FS_Singleton

\* _build_inherited_snapshots, "every active MLB without its own complete snapshot": of
\* any snapshots, one for each listing at most, and any active listings, each one of a
\* product with costs has exactly one complete snapshot then, its own or a twin's.
THEOREM TwinsCosted ==
    ASSUME NEW Mlb, NEW Sku, NEW List, NEW Fee,
           NEW snaps \in Seq(Snapshots(Mlb, Sku, List, Fee)),
           \A i, j \in DOMAIN snaps : i # j => snaps[i].mlb # snaps[j].mlb,
           NEW active, \A a, b \in active : a.mlb = b.mlb => a = b,
           \A a \in active : a.mlb \in Mlb,
           NEW a \in active, a.sku # "none", Donor(snaps, a.sku) # 0,
           ~\E s \in ToSet(snaps) : s.mlb = a.mlb /\ s.sku = "none" /\ HasCost(s)
    PROVE  Cardinality(Complete(snaps, active, a.mlb)) = 1
<1> DEFINE Snaps == Snapshots(Mlb, Sku, List, Fee)
           own == {s \in ToSet(snaps) : s.mlb = a.mlb /\ HasCost(s)}
           Lacks(b) == \A s \in ToSet(snaps) : HasCost(s) => s.mlb # b.mlb
           Lent(b) == [snaps[Donor(snaps, b.sku)] EXCEPT !.mlb = b.mlb]
           S == Complete(snaps, active, a.mlb)
<1>1. /\ ToSet(snaps) \in SUBSET Snaps /\ DOMAIN snaps = 1..Len(snaps)
      /\ \A k \in 1..Len(snaps) : snaps[k] \in Snaps
      /\ Len(snaps) \in Nat
  <2>1. \A k \in 1..Len(snaps) : snaps[k] \in Snaps BY ElementOfSeq
  <2>2. DOMAIN snaps = 1..Len(snaps) /\ Len(snaps) \in Nat OBVIOUS
  <2> QED BY <2>1, <2>2 DEF ToSet
<1>2. \A s, t \in ToSet(snaps) : s.mlb = t.mlb => s = t BY DEF ToSet
<1>3. ASSUME NEW b \in active, b.sku # "none", Donor(snaps, b.sku) # 0
      PROVE  /\ Lent(b).mlb = b.mlb /\ Lent(b).sku = b.sku /\ HasCost(Lent(b))
  <2> DEFINE I == {i \in 1..Len(snaps) : snaps[i].sku = b.sku /\ HasCost(snaps[i])}
             d == Donor(snaps, b.sku)
  <2>1. d = Min(I) /\ I # {} BY <1>3 DEF Donor, SelectInSeq
  <2>2. I \in SUBSET Nat BY <1>1
  <2> HIDE DEF I
  <2>3. \E n \in I : \A m \in I : n <= m BY <2>1, <2>2, Smallest
  <2>4. d \in I BY <2>1, <2>3 DEF Min
  <2> HIDE DEF d
  <2>5. snaps[d] \in Snaps /\ snaps[d].sku = b.sku /\ HasCost(snaps[d]) BY <1>1, <2>4 DEF I
  <2>6. PICK x \in Snaps : x = snaps[d] BY <2>5
  <2> DEFINE y == [x EXCEPT !.mlb = b.mlb]
  <2>7. /\ y.mlb = b.mlb /\ y.sku = x.sku /\ y.error = x.error /\ y.list = x.list
        /\ y.fees = x.fees
    BY DEF Snapshots
  <2>8. Lent(b) = y BY <2>6 DEF d
  <2> HIDE DEF y
  <2>9. HasCost(y) BY <2>5, <2>6, <2>7 DEF HasCost
  <2> QED BY <2>5, <2>6, <2>7, <2>8, <2>9
<1>4. Inherited(snaps, active) =
        {Lent(b) : b \in {b \in active : b.sku # "none" /\ Donor(snaps, b.sku) # 0 /\ Lacks(b)}}
  BY DEF Inherited
<1> HIDE DEF Lent
<1>5. \A s \in Inherited(snaps, active) :
         \E b \in active : /\ s = Lent(b) /\ s.mlb = b.mlb /\ s.sku = b.sku /\ HasCost(s)
                           /\ b.sku # "none" /\ Donor(snaps, b.sku) # 0 /\ Lacks(b)
  BY <1>3, <1>4
<1>6. CASE Lacks(a)
  <2>1. Lent(a) \in Inherited(snaps, active) BY <1>4, <1>6
  <2>2. Lent(a) \in S BY <1>3, <2>1 DEF Complete
  <2>3. ASSUME NEW s \in S PROVE s = Lent(a)
    <3>1. s \notin ToSet(snaps) BY <1>6 DEF Complete
    <3>2. s \in Inherited(snaps, active) /\ s.mlb = a.mlb BY <3>1 DEF Complete
    <3>3. PICK b \in active : s = Lent(b) /\ s.mlb = b.mlb BY <1>5, <3>2
    <3> QED BY <3>2, <3>3
  <2> HIDE DEF S
  <2>4. Cardinality(S) = 1 BY <2>2, <2>3, OneIsOne
  <2> QED BY <2>4 DEF S
<1>7. CASE ~Lacks(a)
  <2>1. PICK x \in ToSet(snaps) : HasCost(x) /\ x.mlb = a.mlb BY <1>7
  <2>2. x \in S
    <3>1. x.sku # "none" BY <2>1
    <3> QED BY <2>1, <3>1 DEF Complete
  <2>3. ASSUME NEW s \in S PROVE s = x
    <3>1. CASE s \in ToSet(snaps) BY <1>2, <2>1, <3>1 DEF Complete
    <3>2. CASE s \notin ToSet(snaps)
      <4>1. s \in Inherited(snaps, active) /\ s.mlb = a.mlb BY <3>2 DEF Complete
      <4>2. PICK b \in active : s.mlb = b.mlb /\ Lacks(b) BY <1>5, <4>1
      <4>3. b = a BY <4>1, <4>2
      <4> QED BY <1>7, <4>2, <4>3
    <3> QED BY <3>1, <3>2
  <2> HIDE DEF S
  <2>4. Cardinality(S) = 1 BY <2>2, <2>3, OneIsOne
  <2> QED BY <2>4 DEF S
<1> QED BY <1>6, <1>7

---------------------------------------------------------------------------
(* These over the small inputs that TLC gives them                         *)

LEMMA PromosOK ==
    ASSUME NEW promos \in Promos
    PROVE  /\ IsPromos(promos)
           /\ \A i \in DOMAIN promos : promos[i].status = "started"
                => promos[i].original \in Nat \ {0} /\ promos[i].price \in Nat \ {0}
<1> USE CallsAssumption
<1> DEFINE Fine(p) == IsPromo(p) /\ (p.status = "started" => p.original \in Nat \ {0}
                                                            /\ p.price \in Nat \ {0})
<1>1. IsPromo(Promo) /\ Promo.status = "candidate" BY DEF Promo, IsPromo, Amounts, None
<1>2. ASSUME NEW p \in Running PROVE Fine(p)
  <2> DEFINE Runs(x, o, m) ==
         [Promo EXCEPT !.status = "started", !.price = x, !.original = o, !.meli = m]
  <2>1. \E x \in {7900, 8500}, o \in {10000, 11000}, m \in {0, 800} :
           p = Runs(x, o, m)
    BY <1>2 DEF Running
  <2> HIDE DEF Runs
  <2>2. PICK x \in {7900, 8500}, o \in {10000, 11000}, m \in {0, 800} : p = Runs(x, o, m)
    BY <2>1
  <2> QED BY <2>2 DEF Runs, Promo, IsPromo, Amounts, None
<1>3. ASSUME NEW p \in Offered PROVE Fine(p)
  <2> DEFINE Shapes == {[Promo EXCEPT !.min = l, !.max = h, !.suggested = s] :
                          l \in {7000, 8200}, h \in {None, 8000}, s \in {None, 7895}}
  <2>1. ASSUME p \in Shapes PROVE Fine(p)
    <3>1. \E l \in {7000, 8200}, h \in {None, 8000}, s \in {None, 7895} :
             p = [Promo EXCEPT !.min = l, !.max = h, !.suggested = s]
      BY <2>1
    <3> QED BY <3>1 DEF Promo, IsPromo, Amounts, None
  <2>2. p \in Shapes \/ p \in Offered \ Shapes OBVIOUS
  <2>3. ASSUME p \notin Shapes PROVE Fine(p)
    <3> USE DEF Promo, IsPromo, Amounts, None
    <3>1. Fine([Promo EXCEPT !.suggested = 8000]) OBVIOUS
    <3>2. Fine([Promo EXCEPT !.fixed = 1500]) OBVIOUS
    <3>3. Fine([Promo EXCEPT !.type = "LIGHTNING", !.price = 6000, !.min = 5000]) OBVIOUS
    <3>4. Fine([Promo EXCEPT !.type = "SMART", !.price = 7950, !.seller = 1500, !.meli = 550]) OBVIOUS
    <3>5. Fine([Promo EXCEPT !.type = "SMART", !.seller = 2000, !.meli = 300]) OBVIOUS
    <3>6. Fine([Promo EXCEPT !.price = 8400]) OBVIOUS
    <3>7. Fine([Promo EXCEPT !.original = None]) OBVIOUS
    <3> HIDE DEF Promo, IsPromo, Amounts, None, Fine
    <3> QED BY <2>3, <3>1, <3>2, <3>3, <3>4, <3>5, <3>6, <3>7 DEF Offered
  <2> QED BY <2>1, <2>3
<1>4. \A p \in Running \cup Offered : Fine(p) BY <1>2, <1>3
<1>5. /\ IsFiniteSet(DOMAIN promos)
      /\ \A k \in DOMAIN promos : promos[k] \in Running \cup Offered
  BY SeqOfIs DEF Promos
<1>6. PICK m \in 0..MaxPromos : promos \in [1..m -> Running \cup Offered] BY DEF Promos, SeqOf
<1>7. DOMAIN promos \in SUBSET Nat BY <1>6
<1> QED BY <1>4, <1>5, <1>7 DEF IsPromos

LEMMA BooksOK == IsCosts(<<Books>>)
<1> DEFINE B == [min : Nat, max : Amounts, cost : Nat]
           x == [min |-> 0, max |-> 7899, cost |-> 500]
           y == [min |-> 7900, max |-> None, cost |-> 900]
<1>1. x \in B /\ y \in B BY DEF Amounts, None
<1>2. Books.freight = <<x, y>> /\ Books.list = 10000 /\ Books.promo = None BY DEF Books, Freight
<1> HIDE DEF x, y, B
<1>3. <<x, y>> \in Seq(B) BY <1>1
<1>4. 10000 \in Amounts /\ None \in Amounts BY DEF Amounts
<1>5. (<<Books>>)[1] = Books OBVIOUS
<1>6. Books.freight \in Seq(B) /\ Books.list \in Amounts /\ Books.promo \in Amounts
  BY <1>2, <1>3, <1>4
<1> QED BY <1>5, <1>6 DEF IsCosts, B

\* The inductive invariant of NeverBelowFloor and CapsAgree.
CapsInv ==
    /\ task.kind = "decide" =>
          /\ task.of \in Deciding
          /\ answer # Unanswered => answer.is = DecisionOn(task.of)
    /\ task.kind = "recompute" =>
          /\ task.of \in Recomputing
          /\ answer # Unanswered =>
               answer.is = AfterRecompute(task.of.promos, task.of.snap, task.of.calib)
    /\ task.kind = "inherit" =>
          /\ task.of \in Twins
          /\ answer # Unanswered => answer.is = Inherited(task.of.snaps, task.of.active)

LEMMA CapsAsked == Ask => CapsInv
<1> SUFFICES ASSUME Ask
             PROVE  /\ answer = Unanswered
                    /\ task.kind = "decide" => task.of \in Deciding
                    /\ task.kind = "recompute" => task.of \in Recomputing
                    /\ task.kind = "inherit" => task.of \in Twins
  BY DEF CapsInv
<1>1. answer = Unanswered BY DEF Ask
<1>2. ASSUME task.kind = "decide" PROVE task.of \in Deciding
  <2>1. \E d \in Deciding : task = Task("decide", d) BY <1>2 DEF Ask, Task
  <2> QED BY <2>1 DEF Task
<1>3. ASSUME task.kind = "recompute" PROVE task.of \in Recomputing
  <2>1. \E r \in Recomputing : task = Task("recompute", r) BY <1>3 DEF Ask, Task
  <2> QED BY <2>1 DEF Task
<1>4. ASSUME task.kind = "inherit" PROVE task.of \in Twins
  <2>1. \E t \in Twins : task = Task("inherit", t) BY <1>4 DEF Ask, Task
  <2> QED BY <2>1 DEF Task
<1> QED BY <1>1, <1>2, <1>3, <1>4

LEMMA CapsAnswered == CapsInv /\ [Compute]_calls => CapsInv'
<1> SUFFICES ASSUME CapsInv, [Compute]_calls PROVE CapsInv'
  OBVIOUS
<1>1. task' = task BY DEF Compute, Answer, calls
<1>2. CASE UNCHANGED calls
  <2>1. UNCHANGED <<task, answer>> BY <1>2 DEF calls
  <2> QED BY <2>1 DEF CapsInv, Unanswered
<1>3. CASE Compute
  <2>1. ASSUME task.kind = "decide"
        PROVE  answer'.is = DecisionOn(task.of)
    BY <1>3, <2>1 DEF Compute, Answer
  <2>2. ASSUME task.kind = "recompute"
        PROVE  answer'.is = AfterRecompute(task.of.promos, task.of.snap, task.of.calib)
    BY <1>3, <2>2 DEF Compute, Answer
  <2>3. ASSUME task.kind = "inherit"
        PROVE  answer'.is = Inherited(task.of.snaps, task.of.active)
    BY <1>3, <2>3 DEF Compute, Answer
  <2> QED BY <1>1, <2>1, <2>2, <2>3 DEF CapsInv, Unanswered
<1> QED BY <1>2, <1>3

\* Every decision that the run computes, with any number of promotions offered: the price
\* keeps the floor.
THEOREM PricesKeepFloor == CallsSpec => []NeverBelowFloor
<1>1. CapsInv => NeverBelowFloor
  <2> SUFFICES ASSUME CapsInv, task.kind = "decide", answer # Unanswered,
                      answer.is.price # None, answer.is.floor # None,
                      \A p \in ToSet(task.of.promos) : p.type # "LIGHTNING"
               PROVE  answer.is.price + 1 >= answer.is.floor
    BY DEF NeverBelowFloor, Answered
  <2>1. task.of \in Deciding /\ answer.is = DecisionOn(task.of) BY DEF CapsInv
  <2>2. ASSUME NEW d \in Deciding, \A p \in ToSet(d.promos) : p.type # "LIGHTNING",
               DecisionOn(d).price # None, DecisionOn(d).floor # None
        PROVE  DecisionOn(d).price + 1 >= DecisionOn(d).floor
    <3> DEFINE costs == <<Books>>
    <3>1. \E p \in Promos, c \in {0, 1800, 2500}, m \in {None, 7895, 8100} :
             d = [promos |-> p, costs |-> costs, cap |-> c, margin |-> m]
      BY DEF Deciding
    <3>2. IsCosts(costs) BY BooksOK
    <3> HIDE DEF costs
    <3>3. /\ d.promos \in Promos /\ d.costs = costs /\ d.cap \in {0, 1800, 2500}
          /\ d.margin \in {None, 7895, 8100}
      BY <3>1
    <3>4. d.cap \in Nat /\ d.margin \in Amounts BY <3>3 DEF Amounts
    <3>5. IsPromos(d.promos) /\ IsCosts(d.costs) BY <3>2, <3>3, PromosOK
    <3>6. \A i \in DOMAIN d.promos : d.promos[i].type = "LIGHTNING" => "LIGHTNING" \in {}
      BY <2>2 DEF ToSet
    <3>7. FALSE \in BOOLEAN OBVIOUS
    <3>8. LET decision == DecideForItem(d.promos, d.costs, d.cap, d.margin, {}, FALSE)
          IN  decision.price # None /\ decision.floor # None
                => decision.price + 1 >= decision.floor
      BY <3>4, <3>5, <3>6, <3>7, PriceKeepsFloor, Zenon
    <3> QED BY <2>2, <3>8 DEF DecisionOn
  <2> QED BY <2>1, <2>2
<1> QED BY CapsAsked, CapsAnswered, <1>1, PTL DEF CallsSpec

LEMMA TwinsOne ==
    ASSUME NEW t \in Twins, NEW a \in t.active, a.sku # "none", Donor(t.snaps, a.sku) # 0,
           ~\E s \in ToSet(t.snaps) : s.mlb = a.mlb /\ s.sku = "none" /\ HasCost(s)
    PROVE  Cardinality(Complete(t.snaps, t.active, a.mlb)) = 1
<1> DEFINE T == {SnapOf(m, k, e) : m \in Mlbs, k \in Skus, e \in BOOLEAN}
           Fee == {SnapOf(m, k, e).fees : m \in Mlbs, k \in Skus, e \in BOOLEAN}
           R == [mlb : Mlbs, sku : Skus, error : BOOLEAN, list : {10000}, fees : Fee]
           Distinct(s) == \A i, j \in DOMAIN s : i # j => s[i].mlb # s[j].mlb
           A == {s \in SeqOf(T, 2) : Distinct(s)}
           Of(sku) == {[mlb |-> m, sku |-> sku[m]] : m \in Mlbs}
<1>1. \E s \in A, sku \in [Mlbs -> Skus] : t = [snaps |-> s, active |-> Of(sku)]
  <2>1. Twins = {[snaps |-> s, active |-> Of(sku)] : s \in A, sku \in [Mlbs -> Skus]}
    BY DEF Twins
  <2> HIDE DEF A, Of
  <2> QED BY <2>1
<1> HIDE DEF Of
<1> HIDE DEF A
<1>2. PICK s \in A, sku \in [Mlbs -> Skus] : t = [snaps |-> s, active |-> Of(sku)] BY <1>1
<1>3. t.snaps = s /\ t.active = Of(sku) BY <1>2
<1>4. T \subseteq R
  <2> SUFFICES ASSUME NEW m \in Mlbs, NEW k \in Skus, NEW e \in BOOLEAN PROVE SnapOf(m, k, e) \in R
    OBVIOUS
  <2>1. SnapOf(m, k, e).fees \in Fee OBVIOUS
  <2> HIDE DEF Fee
  <2> QED BY <2>1 DEF SnapOf
<1>5. s \in Seq(R)
  <2>1. s \in SeqOf(T, 2) BY DEF A
  <2> HIDE DEF T, R
  <2>2. PICK n \in 0..2 : s \in [1..n -> T] BY <2>1 DEF SeqOf
  <2>3. n \in Nat /\ \A i \in 1..n : s[i] \in R BY <1>4, <2>2
  <2>4. s = [i \in 1..n |-> s[i]] BY <2>2
  <2> QED BY <2>3, <2>4, IsASeq
<1>6. Distinct(s) BY DEF A
<1>7. \A x, y \in Of(sku) : (x.mlb = y.mlb => x = y) /\ x.mlb \in Mlbs BY DEF Of
<1> DEFINE List == {10000}
<1>8. s \in Seq(Snapshots(Mlbs, Skus, List, Fee)) BY <1>5 DEF Snapshots
<1>9. /\ t.snaps \in Seq(Snapshots(Mlbs, Skus, List, Fee))
      /\ \A i, j \in DOMAIN t.snaps : i # j => t.snaps[i].mlb # t.snaps[j].mlb
      /\ \A x, y \in t.active : x.mlb = y.mlb => x = y
      /\ \A x \in t.active : x.mlb \in Mlbs
  BY <1>3, <1>6, <1>7, <1>8
<1> HIDE DEF Of, A, T, Fee, R, List
<1> QED BY <1>9, TwinsCosted

\* recompute_all_caps, "by construction the active promo never trips an alert" and "every
\* active MLB without its own complete snapshot": with any number of promotions offered.
THEOREM CapsDoAgree == CallsSpec => []CapsAgree
<1>1. CapsInv => ActiveRaisesNoAlert
  <2> SUFFICES ASSUME CapsInv, task.kind = "recompute", answer # Unanswered
               PROVE  ~answer.is.violated
    BY DEF ActiveRaisesNoAlert, Answered
  <2>1. /\ task.of \in Recomputing
        /\ answer.is = AfterRecompute(task.of.promos, task.of.snap, task.of.calib)
    BY DEF CapsInv
  <2>2. \E p \in Promos, l \in {"unknown", "fulfillment", "flex"}, c \in {<<>>, <<Calibration>>} :
           task.of = [promos |-> p, snap |-> Stored(l), calib |-> c]
    BY <2>1 DEF Recomputing
  <2>3. PICK p \in Promos, l \in {"unknown", "fulfillment", "flex"}, c \in {<<>>, <<Calibration>>} :
           task.of = [promos |-> p, snap |-> Stored(l), calib |-> c]
    BY <2>2
  <2>4. ~Stored(l).error BY DEF Stored
  <2>5. ~AfterRecompute(p, Stored(l), c).violated
    BY <2>4, PromosOK, ActiveIsNoAlert DEF AfterRecompute
  <2> QED BY <2>1, <2>3, <2>5
<1>2. CapsInv => EveryTwinCosted
  <2> SUFFICES ASSUME CapsInv, task.kind = "inherit", answer # Unanswered,
                      NEW a \in task.of.active, a.sku # "none", Donor(task.of.snaps, a.sku) # 0,
                      ~\E s \in ToSet(task.of.snaps) :
                          s.mlb = a.mlb /\ s.sku = "none" /\ HasCost(s)
               PROVE  Cardinality({s \in Processed : s.mlb = a.mlb}) = 1
    BY DEF EveryTwinCosted, Answered
  <2>1. task.of \in Twins /\ answer.is = Inherited(task.of.snaps, task.of.active)
    BY DEF CapsInv
  <2>2. {s \in Processed : s.mlb = a.mlb} = Complete(task.of.snaps, task.of.active, a.mlb)
    BY <2>1 DEF Processed, Complete
  <2> QED BY <2>1, <2>2, TwinsOne
<1>3. CapsInv => CapsAgree BY <1>1, <1>2 DEF CapsAgree
<1> QED BY CapsAsked, CapsAnswered, <1>3, PTL DEF CallsSpec
=============================================================================
