----------------------------- MODULE PagesProofs -----------------------------
(***************************************************************************)
(* What the pages that show ratings promise: a scenario stays with the     *)
(* charts it was made for and lowers nothing, songs of one name are told   *)
(* apart, and the server's lists and the simulator add up to the same.  Of *)
(* the song browser: songs are in the order asked for, and the pages hold  *)
(* all of them.                                                            *)
(***************************************************************************)
EXTENDS RatingPages, SongCatalog, FiniteSetTheorems, FunctionTheorems, SequenceTheorems, TLAPS

-----------------------------------------------------------------------------
(* Sets of numbers and what is picked from a sequence. *)

\* A set of natural numbers has a least one.
LEMMA LeastOf ==
    ASSUME NEW S, S \subseteq Nat, S # {}
    PROVE  \E x \in S : \A y \in S : x <= y
<1> DEFINE R == OpToRel(<, Nat)
<1>1. \E x \in S : \A y \in S : ~(<<y, x>> \in R)
  <2>1. IsWellFoundedOn(R, Nat)
    BY NatLessThanWellFounded
  <2> HIDE DEF R
  <2>2. QED
    BY <2>1, WFMin
<1>2. \A x, y \in S : <<y, x>> \in R <=> y < x
  BY DEF OpToRel
<1> HIDE DEF R
<1>3. PICK x \in S : \A y \in S : ~(<<y, x>> \in R)
  BY <1>1
<1>4. ASSUME NEW y \in S PROVE x <= y
  <2>1. ~(y < x) /\ x \in Nat /\ y \in Nat
    BY <1>2, <1>3
  <2>2. QED
    BY <2>1
<1>5. QED
  BY <1>4

\* One of numbers up to n has a greatest one, too.
LEMMA GreatestOf ==
    ASSUME NEW n \in Nat, NEW S, S \subseteq 1..n, S # {}
    PROVE  \E x \in S : \A y \in S : y <= x
<1> DEFINE T == {n - y : y \in S}
<1>1. T \subseteq Nat /\ T # {}
  <2>1. \A y \in 1..n : n - y \in Nat
    OBVIOUS
  <2>2. QED
    BY <2>1
<1>2. PICK z \in T : \A y \in T : z <= y
  BY <1>1, LeastOf
<1>3. PICK x \in S : z = n - x
  BY <1>2
<1>4. ASSUME NEW y \in S PROVE y <= x
  <2>1. n - x <= n - y
    BY <1>2, <1>3
  <2>2. x \in Int /\ y \in Int
    OBVIOUS
  <2>3. QED
    BY <2>1, <2>2
<1>5. QED
  BY <1>4

\* Below a number of a set of them are as many as its place says.
LEMMA NthExists ==
    ASSUME NEW n \in Nat, NEW S, S \subseteq 1..n
    PROVE  /\ Cardinality(S) \in Nat
           /\ \A k \in 1..Cardinality(S) : Nth(S, k) \in S
           /\ \A i \in S : \E k \in 1..Cardinality(S) : Nth(S, k) = i
           /\ \A k, l \in 1..Cardinality(S) : Nth(S, k) = Nth(S, l) => k = l
<1> DEFINE c == Cardinality(S)
           Below(i) == {j \in S : j < i}
           f == [i \in S |-> Cardinality(Below(i)) + 1]
<1>1. IsFiniteSet(S) /\ c \in Nat
  <2>1. IsFiniteSet(1..n)
    BY FS_Interval
  <2>2. S \in SUBSET (1..n)
    OBVIOUS
  <2>3. IsFiniteSet(S)
    BY <2>1, <2>2, FS_Subset
  <2>4. QED
    BY <2>3, FS_CardinalityType
<1>2. \A i \in S : IsFiniteSet(Below(i)) /\ Cardinality(Below(i)) \in Nat /\ Cardinality(Below(i)) < c
  <2> TAKE i \in S
  <2>1. Below(i) \in SUBSET S /\ i \notin Below(i) /\ i \in Nat
    OBVIOUS
  <2>2. IsFiniteSet(Below(i)) /\ Cardinality(Below(i)) <= c /\ (c = Cardinality(Below(i)) => S = Below(i))
    BY <1>1, <2>1, FS_Subset
  <2>3. Cardinality(Below(i)) \in Nat
    BY <2>2, FS_CardinalityType
  <2> HIDE DEF c, Below
  <2>4. QED
    BY <1>1, <2>1, <2>2, <2>3
<1>3. \A i, j \in S : i < j => Cardinality(Below(i)) < Cardinality(Below(j))
  <2> TAKE i, j \in S
  <2> HAVE i < j
  <2>1. Below(i) \in SUBSET Below(j) /\ i \in Below(j) /\ i \notin Below(i)
    <3>1. i \in Nat /\ j \in Nat /\ \A k \in S : k \in Nat
      OBVIOUS
    <3>2. \A k \in S : k < i => k < j
      BY <3>1
    <3>3. Below(i) \in SUBSET Below(j)
      BY <3>2
    <3>4. QED
      BY <3>1, <3>3
  <2>2. Cardinality(Below(i)) <= Cardinality(Below(j))
        /\ (Cardinality(Below(j)) = Cardinality(Below(i)) => Below(j) = Below(i))
    BY <1>2, <2>1, FS_Subset
  <2> HIDE DEF Below
  <2>3. QED
    BY <1>2, <2>1, <2>2
<1>4. f \in Injection(S, 1..c)
  <2>1. f \in [S -> 1..c]
    <3> SUFFICES ASSUME NEW i \in S PROVE Cardinality(Below(i)) + 1 \in 1..c
      OBVIOUS
    <3> HIDE DEF Below, c
    <3>1. QED
      BY <1>1, <1>2
  <2>2. ASSUME NEW i \in S, NEW j \in S, f[i] = f[j] PROVE i = j
    <3>1. Cardinality(Below(i)) = Cardinality(Below(j))
      BY <1>2, <2>2
    <3>2. i \in Nat /\ j \in Nat
      OBVIOUS
    <3> HIDE DEF Below
    <3>3. QED
      BY <1>2, <1>3, <3>1, <3>2
  <2>3. QED
    BY <2>1, <2>2 DEF Injection, IsInjective
<1>5. f \in Surjection(S, 1..c)
  <2>1. IsFiniteSet(1..c) /\ Cardinality(1..c) = c
    BY <1>1, FS_Interval
  <2> HIDE DEF c, f
  <2>2. QED
    BY <1>4, <2>1, FS_Injection DEF c
<1>6. ASSUME NEW k \in 1..c PROVE \E i \in S : Cardinality(Below(i)) = k - 1
  <2>1. PICK i \in S : f[i] = k
    BY <1>5 DEF Surjection
  <2>2. Cardinality(Below(i)) + 1 = k /\ Cardinality(Below(i)) \in Nat
    BY <1>2, <2>1
  <2> HIDE DEF Below
  <2>3. QED
    BY <2>2
<1>7. ASSUME NEW k \in 1..c PROVE Nth(S, k) \in S /\ Cardinality(Below(Nth(S, k))) = k - 1
  BY <1>6 DEF Nth
<1>8. ASSUME NEW i \in S PROVE \E k \in 1..c : Nth(S, k) = i
  <2> DEFINE k == f[i]
  <2>1. k \in 1..c /\ k = Cardinality(Below(i)) + 1 /\ Cardinality(Below(i)) \in Nat
    BY <1>2, <1>4 DEF Injection
  <2> HIDE DEF k, Below, f, c
  <2>2. PICK m \in S : m = Nth(S, k) /\ Cardinality(Below(m)) = Cardinality(Below(i))
    <3>1. k - 1 = Cardinality(Below(i))
      BY <2>1
    <3>2. Nth(S, k) \in S /\ Cardinality(Below(Nth(S, k))) = k - 1
      BY <1>7, <2>1
    <3>3. QED
      BY <3>1, <3>2
  <2>3. m \in Int /\ i \in Int
    OBVIOUS
  <2>4. ~(m < i) /\ ~(i < m)
    <3>1. m < i => Cardinality(Below(m)) < Cardinality(Below(i))
      BY <1>3
    <3>2. i < m => Cardinality(Below(i)) < Cardinality(Below(m))
      BY <1>3
    <3>3. QED
      BY <1>2, <2>2, <3>1, <3>2
  <2>5. m = i
    BY <2>3, <2>4
  <2>6. QED
    BY <2>1, <2>2, <2>5
<1>9. ASSUME NEW k \in 1..c, NEW l \in 1..c, Nth(S, k) = Nth(S, l) PROVE k = l
  <2>1. k - 1 = l - 1
    BY <1>7, <1>9
  <2> HIDE DEF c
  <2>2. k \in Int /\ l \in Int
    OBVIOUS
  <2>3. QED
    BY <2>1, <2>2
<1>10. QED
  BY <1>1, <1>7, <1>8, <1>9

\* A set is as big as the numbers it is counted by.
LEMMA CountedBy ==
    ASSUME NEW X, NEW m \in Nat, NEW g \in [X -> 1..m],
           \A x, y \in X : g[x] = g[y] => x = y,
           \A k \in 1..m : \E x \in X : g[x] = k
    PROVE  IsFiniteSet(X) /\ Cardinality(X) = m
<1>1. g \in Injection(X, 1..m)
  BY Fun_IsInj
<1>2. g \in Surjection(X, 1..m)
  BY DEF Surjection
<1>3. IsFiniteSet(1..m) /\ Cardinality(1..m) = m
  BY FS_Interval
<1>4. QED
  BY <1>1, <1>2, <1>3, FS_Injection

\* In a strict order, given by what is ahead of each number, there is one for
\* every place.
LEMMA RanksOf ==
    ASSUME NEW n \in Nat, NEW A \in [1..n -> SUBSET (1..n)],
           \A i \in 1..n : i \notin A[i],
           \A i, j \in 1..n : i = j \/ i \in A[j] \/ j \in A[i],
           \A i, j, k \in 1..n : i \in A[j] /\ j \in A[k] => i \in A[k]
    PROVE  /\ \A i \in 1..n : Cardinality(A[i]) \in Nat
           /\ \A i, j \in 1..n : i \in A[j] => Cardinality(A[i]) < Cardinality(A[j])
           /\ \A k \in 1..n : \E i \in 1..n : Cardinality(A[i]) = k - 1
<1> DEFINE D == 1..n
           at == [i \in D |-> Cardinality(A[i]) + 1]
<1>1. IsFiniteSet(D) /\ Cardinality(D) = n
  BY FS_Interval
<1>2. ASSUME NEW i \in D
      PROVE  IsFiniteSet(A[i]) /\ Cardinality(A[i]) \in Nat /\ Cardinality(A[i]) < n
  <2>1. A[i] \in SUBSET D /\ A[i] # D
    OBVIOUS
  <2>2. IsFiniteSet(A[i]) /\ Cardinality(A[i]) <= Cardinality(D) /\ Cardinality(A[i]) # Cardinality(D)
    BY <1>1, <2>1, FS_Subset
  <2>3. Cardinality(A[i]) \in Nat
    BY <2>2, FS_CardinalityType
  <2>4. QED
    BY <1>1, <2>2, <2>3
<1>3. ASSUME NEW i \in D, NEW j \in D, i \in A[j]
      PROVE  Cardinality(A[i]) < Cardinality(A[j])
  <2>1. A[i] \in SUBSET A[j] /\ A[i] # A[j]
    BY <1>3
  <2>2. Cardinality(A[i]) <= Cardinality(A[j]) /\ Cardinality(A[i]) # Cardinality(A[j])
    BY <1>2, <2>1, FS_Subset
  <2>3. QED
    BY <1>2, <2>2
<1>4. at \in [D -> 1..n]
  <2>1. \A i \in D : Cardinality(A[i]) + 1 \in 1..n
    BY <1>2
  <2>2. QED
    BY <2>1
<1>5. ASSUME NEW i \in D, NEW j \in D, at[i] = at[j] PROVE i = j
  <2>1. Cardinality(A[i]) = Cardinality(A[j])
    BY <1>2, <1>5
  <2>2. i \notin A[j] /\ j \notin A[i]
    BY <1>2, <1>3, <2>1
  <2>3. QED
    BY <2>2
<1>6. at \in Injection(D, 1..n)
  <2> HIDE DEF at
  <2>1. QED
    BY <1>4, <1>5, Fun_IsInj
<1>7. at \in Surjection(D, 1..n)
  <2> HIDE DEF at
  <2>1. at \in Injection(D, D)
    BY <1>6
  <2>2. at \in Surjection(D, D)
    BY <1>1, <2>1, FS_Injection
  <2>3. QED
    BY <2>2
<1>8. ASSUME NEW k \in D PROVE \E i \in D : Cardinality(A[i]) = k - 1
  <2>1. PICK i \in D : at[i] = k
    BY <1>7 DEF Surjection
  <2>2. Cardinality(A[i]) + 1 = k /\ Cardinality(A[i]) \in Nat
    BY <1>2, <2>1
  <2>3. QED
    BY <2>2
<1>9. QED
  BY <1>2, <1>3, <1>8

\* P is a sequence of what s has at the places S, and of all of it.
IsPicked(P, s, S) ==
    /\ IsSequence(P)
    /\ \A k \in DOMAIN P : \E i \in S : P[k] = s[i]
    /\ \A i \in S : \E k \in DOMAIN P : P[k] = s[i]

LEMMA PickedFacts ==
    ASSUME NEW n \in Nat, NEW S, S \subseteq 1..n, NEW s
    PROVE  IsPicked(Picked(s, S), s, S)
<1> DEFINE c == Cardinality(S)
<1>1. c \in Nat /\ (\A k \in 1..c : Nth(S, k) \in S) /\ \A i \in S : \E k \in 1..c : Nth(S, k) = i
  BY NthExists
<1>2. Picked(s, S) = [k \in 1..c |-> s[Nth(S, k)]]
  BY DEF Picked
<1> HIDE DEF c
<1>3. Picked(s, S) \in [1..c -> {s[i] : i \in S}]
  BY <1>1, <1>2
<1>4. Picked(s, S) \in Seq({s[i] : i \in S}) /\ Len(Picked(s, S)) = c
  BY <1>1, <1>3
<1>5. QED
  BY <1>1, <1>2, <1>4 DEF IsPicked, IsSequence

LEMMA PickedTypes ==
    ASSUME NEW n \in Nat, NEW S, S \subseteq 1..n, NEW s, NEW T, \A i \in S : s[i] \in T
    PROVE  Picked(s, S) \in Seq(T)
<1> DEFINE c == Cardinality(S)
<1>1. c \in Nat /\ \A k \in 1..c : Nth(S, k) \in S
  BY NthExists
<1>2. Picked(s, S) = [k \in 1..c |-> s[Nth(S, k)]]
  BY DEF Picked
<1> HIDE DEF c
<1>3. Picked(s, S) \in [1..c -> T]
  BY <1>1, <1>2
<1>4. QED
  BY <1>1, <1>3

-----------------------------------------------------------------------------
(* Sums.  A sum of numbers counts units, so that what is known of finite   *)
(* sets and injections is known of sums.                                   *)

Units(f, S) == {u \in S \X Nat : 1 <= u[2] /\ u[2] <= f[u[1]]}

\* A finite set of finite sets that is not empty has a smallest member.
LEMMA SmallestOf ==
    ASSUME NEW S, IsFiniteSet(S), NEW Bad, Bad \subseteq SUBSET S, Bad # {}
    PROVE  \E T \in Bad : \A x \in T : T \ {x} \notin Bad
<1> DEFINE sizes == {Cardinality(T) : T \in Bad}
<1>1. \A T \in Bad : IsFiniteSet(T) /\ Cardinality(T) \in Nat
  BY FS_Subset, FS_CardinalityType
<1>2. sizes \subseteq Nat /\ sizes # {}
  BY <1>1
<1>3. PICK c \in sizes : \A d \in sizes : c <= d
  BY <1>2, LeastOf
<1>4. PICK T \in Bad : c = Cardinality(T)
  BY <1>3
<1>5. ASSUME NEW x \in T, T \ {x} \in Bad PROVE FALSE
  <2>1. Cardinality(T \ {x}) = Cardinality(T) - 1
    BY <1>1, FS_RemoveElement
  <2>2. Cardinality(T) <= Cardinality(T \ {x})
    BY <1>3, <1>4, <1>5
  <2>3. Cardinality(T) \in Nat
    BY <1>1
  <2>4. QED
    BY <2>1, <2>2, <2>3
<1>6. QED
  BY <1>5

\* The units of a set are those of one member and those of the others.
LEMMA UnitsSplit ==
    ASSUME NEW T, NEW x \in T, NEW f, f[x] \in Nat, IsFiniteSet(Units(f, T \ {x}))
    PROVE  /\ IsFiniteSet(Units(f, T))
           /\ Cardinality(Units(f, T)) = f[x] + Cardinality(Units(f, T \ {x}))
<1> DEFINE n == f[x]
           own == {x} \X (1..n)
           e == [k \in 1..n |-> <<x, k>>]
<1>1. IsFiniteSet(own) /\ Cardinality(own) = n
  <2>1. IsFiniteSet(1..n) /\ Cardinality(1..n) = n
    BY FS_Interval
  <2>2. e \in Bijection(1..n, own)
    <3>1. e \in [1..n -> own]
      OBVIOUS
    <3>2. \A k, l \in 1..n : e[k] = e[l] => k = l
      OBVIOUS
    <3>3. \A u \in own : \E k \in 1..n : e[k] = u
      OBVIOUS
    <3> HIDE DEF e, own
    <3>4. QED
      BY <3>1, <3>2, <3>3, Fun_IsBij
  <2>3. ExistsBijection(1..n, own)
    BY <2>2 DEF ExistsBijection
  <2>4. QED
    BY <2>1, <2>3, FS_Bijection
<1>2. Units(f, T) = Units(f, T \ {x}) \cup own
  <2>1. \A u : u \in Units(f, T) <=> u \in Units(f, T \ {x}) \/ u \in own
    BY DEF Units
  <2>2. QED
    BY <2>1
<1>3. Units(f, T \ {x}) \cap own = {}
  BY DEF Units
<1>4. Cardinality(Units(f, T \ {x})) \in Nat
  BY FS_CardinalityType
<1> HIDE DEF own
<1>5. Cardinality(Units(f, T \ {x}) \cap own) = 0
  BY <1>3, FS_EmptySet
<1>6. /\ IsFiniteSet(Units(f, T \ {x}) \cup own)
      /\ Cardinality(Units(f, T \ {x}) \cup own)
             = Cardinality(Units(f, T \ {x})) + n - Cardinality(Units(f, T \ {x}) \cap own)
  BY <1>1, FS_Union
<1>7. QED
  BY <1>2, <1>4, <1>5, <1>6

LEMMA UnitsFinite ==
    ASSUME NEW S, IsFiniteSet(S), NEW f, \A i \in S : f[i] \in Nat
    PROVE  IsFiniteSet(Units(f, S))
<1> DEFINE Bad == {T \in SUBSET S : ~IsFiniteSet(Units(f, T))}
<1>1. SUFFICES ASSUME Bad # {} PROVE FALSE
  OBVIOUS
<1>2. PICK T \in Bad : \A x \in T : T \ {x} \notin Bad
  BY <1>1, SmallestOf
<1>3. CASE T = {}
  <2>1. Units(f, T) = {}
    BY <1>3 DEF Units
  <2>2. QED
    BY <2>1, FS_EmptySet
<1>4. CASE T # {}
  <2>1. PICK x : x \in T
    BY <1>4
  <2>2. IsFiniteSet(Units(f, T \ {x})) /\ f[x] \in Nat
    BY <1>2, <2>1
  <2>3. QED
    BY <2>1, <2>2, UnitsSplit
<1>5. QED
  BY <1>3, <1>4

\* SumOf by its recursion: what is summed first does not matter.
SumStep(f, S, sum) ==
    sum = [T \in SUBSET S |-> IF T = {} THEN 0
                              ELSE f[CHOOSE x \in T : TRUE] + sum[T \ {CHOOSE x \in T : TRUE}]]

LEMMA SumIsFold ==
    ASSUME NEW f, NEW S
    PROVE  SumOf(f, S) = (CHOOSE sum : SumStep(f, S, sum))[S]
BY DEF SumOf, MapThenSumSet, MapThenFoldSet, SumStep

LEMMA SumCounts ==
    ASSUME NEW S, IsFiniteSet(S), NEW f, \A i \in S : f[i] \in Nat
    PROVE  SumOf(f, S) = Cardinality(Units(f, S))
<1> DEFINE count == [T \in SUBSET S |-> Cardinality(Units(f, T))]
           sum == CHOOSE g : SumStep(f, S, g)
<1>1. \A T \in SUBSET S : IsFiniteSet(Units(f, T))
  BY FS_Subset, UnitsFinite
<1>2. ASSUME NEW T \in SUBSET S, NEW x \in T
      PROVE  count[T] = f[x] + count[T \ {x}] /\ T \ {x} \in SUBSET S
  BY <1>1, UnitsSplit
<1>3. count[{}] = 0
  <2>1. Units(f, {}) = {}
    BY DEF Units
  <2>2. QED
    BY <2>1, FS_EmptySet
<1>4. SumStep(f, S, count)
  <2>1. ASSUME NEW T \in SUBSET S, T # {}
        PROVE  count[T] = f[CHOOSE x \in T : TRUE] + count[T \ {CHOOSE x \in T : TRUE}]
    <3>1. (CHOOSE x \in T : TRUE) \in T
      BY <2>1
    <3> HIDE DEF count
    <3>2. QED
      BY <1>2, <3>1
  <2>2. count = [T \in SUBSET S |-> count[T]]
    OBVIOUS
  <2> HIDE DEF count
  <2>3. QED
    BY <1>3, <2>1, <2>2 DEF SumStep
<1> HIDE DEF count
<1>5. SumStep(f, S, sum)
  BY <1>4
<1> DEFINE Bad == {T \in SUBSET S : sum[T] # count[T]}
<1> HIDE DEF sum
<1>6. Bad = {}
  <2>1. SUFFICES ASSUME Bad # {} PROVE FALSE
    OBVIOUS
  <2>2. PICK T \in Bad : \A x \in T : T \ {x} \notin Bad
    BY <2>1, SmallestOf
  <2>3. CASE T = {}
    BY <1>3, <1>5, <2>2, <2>3 DEF SumStep
  <2>4. CASE T # {}
    <3> DEFINE x == CHOOSE y \in T : TRUE
    <3>1. x \in T
      BY <2>4
    <3>2. sum[T] = f[x] + sum[T \ {x}]
      BY <1>5, <2>2, <2>4 DEF SumStep
    <3> HIDE DEF x
    <3>3. sum[T \ {x}] = count[T \ {x}]
      BY <2>2, <3>1
    <3>4. QED
      BY <1>2, <2>2, <3>1, <3>2, <3>3
  <2>5. QED
    BY <2>3, <2>4
<1>7. SumOf(f, S) = sum[S]
  BY SumIsFold DEF sum
<1>8. QED
  BY <1>6, <1>7 DEF count

LEMMA SumIsNat ==
    ASSUME NEW S, IsFiniteSet(S), NEW f, \A i \in S : f[i] \in Nat
    PROVE  SumOf(f, S) \in Nat
BY SumCounts, UnitsFinite, FS_CardinalityType

\* Summands that grow, one by one, make the sum grow.
LEMMA SumGrows ==
    ASSUME NEW S, IsFiniteSet(S), NEW T, IsFiniteSet(T), NEW e \in Injection(S, T),
           NEW f, \A i \in S : f[i] \in Nat, NEW g, \A j \in T : g[j] \in Nat,
           \A i \in S : f[i] <= g[e[i]]
    PROVE  SumOf(f, S) <= SumOf(g, T)
<1> DEFINE h == [u \in Units(f, S) |-> <<e[u[1]], u[2]>>]
<1>1. e \in [S -> T] /\ \A i, j \in S : e[i] = e[j] => i = j
  BY Fun_InjectionProperties
<1>2. ASSUME NEW u \in Units(f, S)
      PROVE  /\ <<e[u[1]], u[2]>> \in Units(g, T)
             /\ u = <<u[1], u[2]>> /\ u[1] \in S
  <2>1. PICK i \in S, k \in Nat : u = <<i, k>>
    BY DEF Units
  <2>2. 1 <= k /\ k <= f[i]
    BY <2>1 DEF Units
  <2>3. e[i] \in T /\ f[i] \in Nat /\ g[e[i]] \in Nat /\ f[i] <= g[e[i]]
    BY <1>1
  <2>4. k <= g[e[i]]
    BY <2>2, <2>3
  <2>5. <<e[i], k>> \in Units(g, T)
    BY <2>2, <2>3, <2>4 DEF Units
  <2>6. QED
    BY <2>1, <2>5
<1>3. h \in [Units(f, S) -> Units(g, T)]
  BY <1>2
<1>4. \A u, v \in Units(f, S) : h[u] = h[v] => u = v
  <2> TAKE u, v \in Units(f, S)
  <2> HAVE h[u] = h[v]
  <2>1. e[u[1]] = e[v[1]] /\ u[2] = v[2]
    OBVIOUS
  <2>2. u[1] = v[1]
    BY <1>1, <1>2, <2>1
  <2>3. QED
    BY <1>2, <2>1, <2>2
<1> HIDE DEF h
<1>5. h \in Injection(Units(f, S), Units(g, T))
  BY <1>3, <1>4, Fun_IsInj
<1>6. Cardinality(Units(f, S)) <= Cardinality(Units(g, T))
  BY <1>5, UnitsFinite, FS_Injection
<1>7. QED
  BY <1>6, SumCounts

-----------------------------------------------------------------------------
(* Pools.  Rows of a pool are in a strict order, by rate, tie and place;   *)
(* Top takes those before which fewer than count of them are.              *)

Before(rate, tie, i, j) ==
    \/ rate[i] > rate[j]
    \/ rate[i] = rate[j] /\ tie[i] > tie[j]
    \/ rate[i] = rate[j] /\ tie[i] = tie[j] /\ i < j

Higher(pool, rate, tie, i) == {j \in pool : Before(rate, tie, j, i)}

Ranked(pool, rate, tie) ==
    IsFiniteSet(pool) /\ pool \subseteq Nat /\ \A i \in pool : rate[i] \in Nat /\ tie[i] \in Int

LEMMA TopIs ==
    ASSUME NEW pool, NEW count, NEW rate, NEW tie
    PROVE  Top(pool, count, rate, tie)
               = {i \in pool : Cardinality(Higher(pool, rate, tie, i)) < count}
BY DEF Top, Higher, Before

LEMMA BeforeOrders ==
    ASSUME NEW pool, NEW rate, NEW tie, Ranked(pool, rate, tie),
           NEW i \in pool, NEW j \in pool, NEW k \in pool
    PROVE  /\ ~Before(rate, tie, i, i)
           /\ i # j => Before(rate, tie, i, j) \/ Before(rate, tie, j, i)
           /\ Before(rate, tie, i, j) /\ Before(rate, tie, j, k) => Before(rate, tie, i, k)
           /\ Before(rate, tie, i, j) => rate[j] <= rate[i]
<1>1. /\ rate[i] \in Int /\ rate[j] \in Int /\ rate[k] \in Int /\ tie[i] \in Int /\ tie[j] \in Int
      /\ tie[k] \in Int /\ i \in Int /\ j \in Int /\ k \in Int
  BY DEF Ranked
<1>2. QED
  BY <1>1 DEF Before

\* Each row has a place of its own, and of two the one before has the lower.
LEMMA PlacesOf ==
    ASSUME NEW pool, NEW rate, NEW tie, Ranked(pool, rate, tie)
    PROVE  \A i \in pool :
             /\ IsFiniteSet(Higher(pool, rate, tie, i))
             /\ Cardinality(Higher(pool, rate, tie, i)) \in Nat
             /\ Cardinality(Higher(pool, rate, tie, i)) < Cardinality(pool)
             /\ \A j \in pool : Before(rate, tie, i, j) =>
                    Cardinality(Higher(pool, rate, tie, i)) < Cardinality(Higher(pool, rate, tie, j))
<1> TAKE i \in pool
<1>1. IsFiniteSet(pool) /\ Cardinality(pool) \in Nat
  BY FS_CardinalityType DEF Ranked
<1>2. ASSUME NEW k \in pool
      PROVE  /\ Higher(pool, rate, tie, k) \in SUBSET pool /\ IsFiniteSet(Higher(pool, rate, tie, k))
             /\ Cardinality(Higher(pool, rate, tie, k)) \in Nat
  <2>1. Higher(pool, rate, tie, k) \in SUBSET pool
    BY DEF Higher
  <2>2. QED
    BY <1>1, <2>1, FS_Subset, FS_CardinalityType
<1>3. i \notin Higher(pool, rate, tie, i)
  BY BeforeOrders DEF Higher
<1>4. Cardinality(Higher(pool, rate, tie, i)) < Cardinality(pool)
  <2>1. /\ Cardinality(Higher(pool, rate, tie, i)) <= Cardinality(pool)
        /\ Cardinality(Higher(pool, rate, tie, i)) # Cardinality(pool)
    BY <1>1, <1>2, <1>3, FS_Subset
  <2>2. QED
    BY <1>1, <1>2, <2>1
<1>5. ASSUME NEW j \in pool, Before(rate, tie, i, j)
      PROVE  Cardinality(Higher(pool, rate, tie, i)) < Cardinality(Higher(pool, rate, tie, j))
  <2>1. Higher(pool, rate, tie, i) \in SUBSET Higher(pool, rate, tie, j)
    BY <1>5, BeforeOrders DEF Higher
  <2>2. i \in Higher(pool, rate, tie, j)
    BY <1>5 DEF Higher
  <2>3. /\ Cardinality(Higher(pool, rate, tie, i)) <= Cardinality(Higher(pool, rate, tie, j))
        /\ Cardinality(Higher(pool, rate, tie, i)) # Cardinality(Higher(pool, rate, tie, j))
    BY <1>2, <1>3, <2>1, <2>2, FS_Subset
  <2>4. QED
    BY <1>2, <2>3
<1>6. QED
  BY <1>2, <1>4, <1>5

\* The pool is all counted, or as many of it as count.
LEMMA TopSize ==
    ASSUME NEW pool, NEW rate, NEW tie, Ranked(pool, rate, tie), NEW count \in Nat
    PROVE  /\ Top(pool, count, rate, tie) \subseteq pool
           /\ IsFiniteSet(Top(pool, count, rate, tie))
           /\ Cardinality(Top(pool, count, rate, tie)) \in Nat
           /\ Cardinality(Top(pool, count, rate, tie)) <= count
           /\ Top(pool, count, rate, tie) = pool \/ Cardinality(Top(pool, count, rate, tie)) = count
<1> DEFINE c == Cardinality(pool)
           at == [i \in pool |-> Cardinality(Higher(pool, rate, tie, i)) + 1]
           top == Top(pool, count, rate, tie)
<1>1. IsFiniteSet(pool) /\ c \in Nat
  BY FS_CardinalityType DEF Ranked
<1>2. at \in [pool -> 1..c] /\ (\A i, j \in pool : at[i] = at[j] => i = j) /\ at \in Surjection(pool, 1..c)
  <2>1. \A i \in pool : Cardinality(Higher(pool, rate, tie, i)) \in Nat
                        /\ Cardinality(Higher(pool, rate, tie, i)) < c
    BY PlacesOf
  <2>2. \A i \in pool : Cardinality(Higher(pool, rate, tie, i)) + 1 \in 1..c
    <3> HIDE DEF c
    <3>1. QED
      BY <1>1, <2>1
  <2>3. at \in [pool -> 1..c]
    BY <2>2
  <2>4. ASSUME NEW i \in pool, NEW j \in pool, at[i] = at[j] PROVE i = j
    <3>1. Cardinality(Higher(pool, rate, tie, i)) = Cardinality(Higher(pool, rate, tie, j))
      BY <2>1, <2>4
    <3>2. ~Before(rate, tie, i, j) /\ ~Before(rate, tie, j, i)
      BY <2>1, <3>1, PlacesOf
    <3>3. QED
      BY <3>2, BeforeOrders
  <2> HIDE DEF at
  <2>5. at \in Injection(pool, 1..c)
    BY <2>3, <2>4, Fun_IsInj
  <2>6. IsFiniteSet(1..c) /\ Cardinality(1..c) = c
    BY <1>1, FS_Interval
  <2> HIDE DEF c
  <2>7. at \in Surjection(pool, 1..c)
    BY <2>5, <2>6, FS_Injection DEF c
  <2>8. QED
    BY <2>3, <2>4, <2>7 DEF c
<1>3. top = {i \in pool : at[i] <= count}
  <2>1. \A i \in pool : Cardinality(Higher(pool, rate, tie, i)) \in Nat
    BY PlacesOf
  <2>2. \A i \in pool : at[i] <= count <=> Cardinality(Higher(pool, rate, tie, i)) < count
    BY <2>1
  <2> HIDE DEF at
  <2>3. QED
    BY <2>2, TopIs
<1> HIDE DEF at, top
<1>4. top \in SUBSET pool
  BY <1>3
<1>5. IsFiniteSet(top) /\ Cardinality(top) \in Nat
  BY <1>1, <1>4, FS_Subset, FS_CardinalityType
<1>6. at \in [pool -> 1..c] /\ (\A i, j \in pool : at[i] = at[j] => i = j)
      /\ \A k \in 1..c : \E i \in pool : at[i] = k
  BY <1>2, Fun_SurjectionProperties
<1>7. CASE c <= count
  <2>1. \A i \in pool : at[i] <= count
    <3> HIDE DEF c
    <3>1. \A i \in pool : at[i] \in 1..c
      BY <1>6
    <3>2. QED
      BY <1>1, <1>7, <3>1
  <2>2. top = pool
    BY <1>3, <2>1
  <2>3. QED
    BY <1>4, <1>5, <1>7, <2>2 DEF top
<1>8. CASE count < c
  <2> DEFINE e == [i \in top |-> at[i]]
  <2> HIDE DEF c
  <2>1. \A i \in top : at[i] \in 1..count
    BY <1>1, <1>3, <1>6
  <2>2. e \in [top -> 1..count]
    BY <2>1
  <2>3. \A i, j \in top : e[i] = e[j] => i = j
    BY <1>4, <1>6
  <2>4. \A k \in 1..count : \E i \in top : e[i] = k
    <3> TAKE k \in 1..count
    <3>1. k \in 1..c /\ k <= count
      BY <1>1, <1>8
    <3>2. PICK i \in pool : at[i] = k
      BY <1>6, <3>1
    <3>3. i \in top
      BY <1>3, <3>1, <3>2
    <3>4. QED
      BY <3>2, <3>3
  <2> HIDE DEF e
  <2>5. e \in Bijection(top, 1..count)
    BY <2>2, <2>3, <2>4, Fun_IsBij
  <2>6. ExistsBijection(top, 1..count)
    BY <2>5 DEF ExistsBijection
  <2>7. IsFiniteSet(1..count) /\ Cardinality(1..count) = count
    BY FS_Interval
  <2>8. Cardinality(top) = count
    BY <1>5, <2>6, <2>7, FS_Bijection
  <2>9. QED
    BY <1>4, <1>5, <2>8 DEF top
<1>9. QED
  BY <1>1, <1>7, <1>8

\* No row that is left out is rated higher than one that is counted.
LEMMA TopIsBest ==
    ASSUME NEW pool, NEW rate, NEW tie, Ranked(pool, rate, tie), NEW count \in Nat,
           NEW i \in Top(pool, count, rate, tie), NEW j \in pool \ Top(pool, count, rate, tie)
    PROVE  rate[j] <= rate[i]
<1>1. i \in pool /\ i # j
  BY TopIs
<1>2. Cardinality(Higher(pool, rate, tie, i)) < count /\ ~(Cardinality(Higher(pool, rate, tie, j)) < count)
  BY TopIs
<1>3. ~Before(rate, tie, j, i)
  <2>1. /\ Cardinality(Higher(pool, rate, tie, i)) \in Nat /\ Cardinality(Higher(pool, rate, tie, j)) \in Nat
        /\ Before(rate, tie, j, i) =>
              Cardinality(Higher(pool, rate, tie, j)) < Cardinality(Higher(pool, rate, tie, i))
    BY <1>1, PlacesOf
  <2>2. QED
    BY <1>2, <2>1
<1>4. QED
  BY <1>1, <1>3, BeforeOrders

\* No choice of as many rows has a greater sum.
LEMMA TopIsMaximal ==
    ASSUME NEW pool, NEW rate, NEW tie, Ranked(pool, rate, tie), NEW count \in Nat,
           NEW T \in SUBSET pool, Cardinality(T) <= count
    PROVE  SumOf(rate, T) <= SumOf(rate, Top(pool, count, rate, tie))
<1> DEFINE top == Top(pool, count, rate, tie)
           out == T \ top
           in == top \ T
<1>1. /\ IsFiniteSet(pool) /\ IsFiniteSet(T) /\ IsFiniteSet(top) /\ top \subseteq pool
      /\ Cardinality(T) \in Nat /\ Cardinality(top) \in Nat
      /\ (top = pool \/ Cardinality(top) = count)
  <2>1. IsFiniteSet(pool)
    BY DEF Ranked
  <2>2. IsFiniteSet(T) /\ Cardinality(T) \in Nat
    BY <2>1, FS_Subset, FS_CardinalityType
  <2>3. QED
    BY <2>1, <2>2, TopSize
<1>2. \A i \in pool : rate[i] \in Nat
  BY DEF Ranked
<1>3. \A i \in top, j \in pool \ top : rate[j] <= rate[i]
  BY TopIsBest
<1> HIDE DEF top
<1>4. ExistsInjection(out, in)
  <2>1. Cardinality(out) <= Cardinality(in) /\ IsFiniteSet(out) /\ IsFiniteSet(in)
        /\ Cardinality(out) \in Nat /\ Cardinality(in) \in Nat
    <3>1. /\ IsFiniteSet(out) /\ IsFiniteSet(in) /\ IsFiniteSet(T \cap top)
          /\ Cardinality(out) \in Nat /\ Cardinality(in) \in Nat /\ Cardinality(T \cap top) \in Nat
      <4>1. out \in SUBSET T /\ in \in SUBSET top /\ T \cap top \in SUBSET T
        OBVIOUS
      <4> HIDE DEF out, in
      <4>2. QED
        BY <1>1, <4>1, FS_Subset, FS_CardinalityType
    <3>2. Cardinality(T) = Cardinality(out) + Cardinality(T \cap top)
      <4>1. T = out \cup (T \cap top) /\ out \cap (T \cap top) = {}
        OBVIOUS
      <4> HIDE DEF out
      <4>2. Cardinality(out \cap (T \cap top)) = 0
        BY <4>1, FS_EmptySet
      <4>3. Cardinality(out \cup (T \cap top))
                = Cardinality(out) + Cardinality(T \cap top) - Cardinality(out \cap (T \cap top))
        BY <3>1, FS_Union
      <4>4. Cardinality(T) = Cardinality(out) + Cardinality(T \cap top) - 0
        BY <4>1, <4>2, <4>3, Zenon
      <4>5. QED
        BY <3>1, <4>4
    <3>3. Cardinality(top) = Cardinality(in) + Cardinality(T \cap top)
      <4>1. top = in \cup (T \cap top) /\ in \cap (T \cap top) = {}
        OBVIOUS
      <4> HIDE DEF in
      <4>2. Cardinality(in \cap (T \cap top)) = 0
        BY <4>1, FS_EmptySet
      <4>3. Cardinality(in \cup (T \cap top))
                = Cardinality(in) + Cardinality(T \cap top) - Cardinality(in \cap (T \cap top))
        BY <3>1, FS_Union
      <4>4. Cardinality(top) = Cardinality(in) + Cardinality(T \cap top) - 0
        BY <4>1, <4>2, <4>3, Zenon
      <4>5. QED
        BY <3>1, <4>4
    <3>4. Cardinality(T) <= Cardinality(top)
      <4>1. CASE top = pool
        BY <1>1, <4>1, FS_Subset
      <4>2. CASE Cardinality(top) = count
        BY <4>2
      <4>3. QED
        BY <1>1, <4>1, <4>2
    <3> HIDE DEF out, in
    <3>5. QED
      BY <1>1, <3>1, <3>2, <3>3, <3>4
  <2> HIDE DEF out, in
  <2>2. ExistsBijection(1..Cardinality(out), out) /\ ExistsBijection(1..Cardinality(in), in)
    BY <2>1, FS_CardinalityType
  <2>3. ExistsInjection(out, 1..Cardinality(out)) /\ ExistsInjection(1..Cardinality(in), in)
    BY <2>2, Fun_ExistsBijEquiv
  <2>4. ExistsInjection(1..Cardinality(out), 1..Cardinality(in))
    BY <2>1, Fun_NatInjLeq
  <2>5. QED
    BY <2>3, <2>4, Fun_ExistsInjTransitive
<1>5. PICK swap \in Injection(out, in) : TRUE
  BY <1>4, Fun_ExistsInj
<1>6. swap \in [out -> in] /\ \A i, j \in out : swap[i] = swap[j] => i = j
  BY <1>5, Fun_InjectionProperties
<1> DEFINE e == [i \in T |-> IF i \in top THEN i ELSE swap[i]]
<1>7. ASSUME NEW i \in T PROVE e[i] \in top /\ rate[i] <= rate[e[i]]
  <2>1. CASE i \in top
    <3>1. rate[i] \in Nat
      BY <1>2
    <3>2. QED
      BY <2>1, <3>1
  <2>2. CASE i \notin top
    <3>1. swap[i] \in in
      BY <1>6, <2>2
    <3>2. e[i] = swap[i] /\ e[i] \in top
      BY <2>2, <3>1
    <3>3. QED
      BY <1>3, <2>2, <3>2
  <2>3. QED
    BY <2>1, <2>2
<1>8. \A i, j \in T : e[i] = e[j] => i = j
  BY <1>6
<1>9. e \in [T -> top]
  BY <1>7
<1> HIDE DEF e
<1>10. e \in Injection(T, top)
  BY <1>8, <1>9, Fun_IsInj
<1>11. QED
  BY <1>1, <1>2, <1>7, <1>10, SumGrows DEF top

\* A pool that grows, in rows and in rates, has a top that grows: its sum is
\* not less, and a row leaves it only when it is full.
LEMMA TopGrows ==
    ASSUME NEW P, NEW rate, NEW tie, Ranked(P, rate, tie),
           NEW Q, NEW more, NEW tie2, Ranked(Q, more, tie2), P \subseteq Q,
           \A i \in P : rate[i] <= more[i], NEW count \in Nat
    PROVE  LET out == Top(P, count, rate, tie)  in == Top(Q, count, more, tie2) IN
           /\ SumOf(rate, out) \in Nat /\ SumOf(more, in) \in Nat
           /\ SumOf(rate, out) <= SumOf(more, in)
           /\ out \subseteq in \/ Cardinality(in) = count
<1> DEFINE out == Top(P, count, rate, tie)
           in == Top(Q, count, more, tie2)
           same == [i \in out |-> i]
<1>1. /\ out \subseteq P /\ IsFiniteSet(out) /\ Cardinality(out) <= count
      /\ in \subseteq Q /\ IsFiniteSet(in) /\ (in = Q \/ Cardinality(in) = count)
  BY TopSize
<1>2. (\A i \in P : rate[i] \in Nat) /\ \A i \in Q : more[i] \in Nat
  BY DEF Ranked
<1> HIDE DEF out, in
<1>3. SumOf(rate, out) <= SumOf(more, out)
  <2>1. same \in [out -> out] /\ \A i, j \in out : same[i] = same[j] => i = j
    OBVIOUS
  <2>2. \A i \in out : rate[i] \in Nat /\ more[i] \in Nat /\ rate[i] <= more[same[i]]
    BY <1>1, <1>2
  <2> HIDE DEF same
  <2>3. same \in Injection(out, out)
    BY <2>1, Fun_IsInj
  <2>4. QED
    BY <1>1, <2>2, <2>3, SumGrows
<1>4. SumOf(more, out) <= SumOf(more, in)
  BY <1>1, TopIsMaximal DEF in
<1>5. SumOf(rate, out) \in Nat /\ SumOf(more, out) \in Nat /\ SumOf(more, in) \in Nat
  <2>1. \A i \in out : rate[i] \in Nat /\ more[i] \in Nat
    BY <1>1, <1>2
  <2>2. \A i \in in : more[i] \in Nat
    BY <1>1, <1>2
  <2>3. QED
    BY <1>1, <2>1, <2>2, SumIsNat
<1>6. SumOf(rate, out) <= SumOf(more, in)
  BY <1>3, <1>4, <1>5
<1>7. out \subseteq in \/ Cardinality(in) = count
  BY <1>1
<1>8. QED
  BY <1>5, <1>6, <1>7 DEF out, in

LEMMA SumSplits ==
    ASSUME NEW S, IsFiniteSet(S), NEW f, \A i \in S : f[i] \in Nat, NEW x \in S
    PROVE  SumOf(f, S) = f[x] + SumOf(f, S \ {x})
<1>1. IsFiniteSet(S \ {x}) /\ \A i \in S \ {x} : f[i] \in Nat
  BY FS_RemoveElement
<1>2. IsFiniteSet(Units(f, S \ {x}))
  BY <1>1, UnitsFinite
<1>3. SumOf(f, S) = Cardinality(Units(f, S)) /\ SumOf(f, S \ {x}) = Cardinality(Units(f, S \ {x}))
  BY <1>1, SumCounts
<1>4. f[x] \in Nat
  OBVIOUS
<1>5. QED
  BY <1>2, <1>3, <1>4, UnitsSplit

\* Summands that are the same but for a scale and a slack.
Scaled(f, g, unit, i) ==
    f[i] \in Nat /\ g[i] \in Nat /\ unit * f[i] <= g[i] /\ g[i] <= unit * f[i] + (unit - 1)

LEMMA SumScales ==
    ASSUME NEW S, IsFiniteSet(S), NEW f, NEW g, NEW unit \in {1, Fine},
           \A i \in S : Scaled(f, g, unit, i)
    PROVE  /\ unit * SumOf(f, S) <= SumOf(g, S)
           /\ SumOf(g, S) <= unit * SumOf(f, S) + (unit - 1) * Cardinality(S)
<1> DEFINE Good(T) == /\ unit * SumOf(f, T) <= SumOf(g, T)
                      /\ SumOf(g, T) <= unit * SumOf(f, T) + (unit - 1) * Cardinality(T)
           Bad == {T \in SUBSET S : ~Good(T)}
<1>1. SUFFICES ASSUME Bad # {} PROVE FALSE
  OBVIOUS
<1>2. PICK T \in Bad : \A x \in T : T \ {x} \notin Bad
  BY <1>1, SmallestOf
<1>3. IsFiniteSet(T) /\ T \subseteq S
  BY <1>2, FS_Subset
<1>4. \A i \in T : f[i] \in Nat /\ g[i] \in Nat
  BY <1>3 DEF Scaled
<1>5. CASE T = {}
  <2>1. Units(f, T) = {} /\ Units(g, T) = {}
    BY <1>5 DEF Units
  <2>2. SumOf(f, T) = Cardinality({}) /\ SumOf(g, T) = Cardinality({})
    BY <1>3, <1>4, <2>1, SumCounts
  <2>3. SumOf(f, T) = 0 /\ SumOf(g, T) = 0 /\ Cardinality(T) = 0
    BY <1>5, <2>2, FS_EmptySet
  <2>4. QED
    BY <1>2, <2>3 DEF Fine
<1>6. CASE T # {}
  <2>1. PICK x : x \in T
    BY <1>6
  <2> DEFINE U == T \ {x}
  <2>2. SumOf(f, T) = f[x] + SumOf(f, U) /\ SumOf(g, T) = g[x] + SumOf(g, U)
    BY <1>3, <1>4, <2>1, SumSplits
  <2>3. IsFiniteSet(U) /\ Cardinality(U) = Cardinality(T) - 1 /\ Cardinality(T) \in Nat
    BY <1>3, <2>1, FS_RemoveElement, FS_CardinalityType
  <2>4. SumOf(f, U) \in Nat /\ SumOf(g, U) \in Nat
    <3>1. \A i \in U : f[i] \in Nat /\ g[i] \in Nat
      BY <1>4
    <3> HIDE DEF U
    <3>2. QED
      BY <2>3, <3>1, SumIsNat
  <2>5. Good(U)
    BY <1>2, <2>1
  <2>6. Scaled(f, g, unit, x)
    BY <1>3, <2>1
  <2> HIDE DEF U
  <2>7. CASE unit = 1
    <3>1. Good(T)
      BY <2>2, <2>3, <2>4, <2>5, <2>6, <2>7 DEF Scaled
    <3>2. QED
      BY <1>2, <3>1
  <2>8. CASE unit = Fine
    <3>1. Good(T)
      BY <2>2, <2>3, <2>4, <2>5, <2>6, <2>8 DEF Scaled, Fine
    <3>2. QED
      BY <1>2, <3>1
  <2>9. QED
    BY <2>7, <2>8
<1>7. QED
  BY <1>5, <1>6

\* Two lists whose rates are the same but for a scale and a slack, of which
\* the longer one has rows without a rate besides: their tops agree, whatever
\* decides between rows of one rate.
LEMMA TopsAgree ==
    ASSUME NEW P, NEW rate, NEW tie, Ranked(P, rate, tie),
           NEW Q, NEW fine, NEW tie2, Ranked(Q, fine, tie2),
           NEW e \in Injection(Q, P), NEW unit \in {1, Fine}, NEW count \in Nat,
           \A k \in Q : /\ unit * rate[e[k]] <= fine[k]
                        /\ fine[k] <= unit * rate[e[k]] + (unit - 1),
           \A i \in P : (\E k \in Q : e[k] = i) \/ rate[i] = 0
    PROVE  LET a == SumOf(rate, Top(P, count, rate, tie))
               b == SumOf(fine, Top(Q, count, fine, tie2)) IN
           a \in Nat /\ b \in Nat /\ unit * a <= b /\ b <= unit * a + (unit - 1) * count
<1> DEFINE top == Top(P, count, rate, tie)
           best == Top(Q, count, fine, tie2)
           coarse == [k \in Q |-> rate[e[k]]]
           a == SumOf(rate, top)
           b == SumOf(fine, best)
           hit == {k \in Q : e[k] \in top}
           of == {e[k] : k \in best}
<1>1. e \in [Q -> P] /\ \A k, l \in Q : e[k] = e[l] => k = l
  BY Fun_InjectionProperties
<1>2. /\ top \subseteq P /\ IsFiniteSet(top) /\ Cardinality(top) \in Nat /\ Cardinality(top) <= count
      /\ best \subseteq Q /\ IsFiniteSet(best) /\ Cardinality(best) \in Nat /\ Cardinality(best) <= count
  BY TopSize
<1>3. /\ \A i \in P : rate[i] \in Nat
      /\ \A k \in Q : fine[k] \in Nat /\ coarse[k] = rate[e[k]] /\ coarse[k] \in Nat
  <2>1. (\A i \in P : rate[i] \in Nat) /\ \A k \in Q : fine[k] \in Nat
    BY DEF Ranked
  <2>2. QED
    BY <1>1, <2>1
<1>4. \A k \in Q : Scaled(coarse, fine, unit, k)
  BY <1>3 DEF Scaled
<1>5. /\ \A i \in P : (\E k \in Q : e[k] = i) \/ rate[i] = 0
  OBVIOUS
<1> HIDE DEF top, best, coarse
<1>6. a \in Nat /\ b \in Nat
  BY <1>2, <1>3, SumIsNat
<1>7. b <= unit * a + (unit - 1) * count
  <2>1. b <= unit * SumOf(coarse, best) + (unit - 1) * Cardinality(best)
    BY <1>2, <1>4, SumScales
  <2> DEFINE h == [k \in best |-> e[k]]
  <2>2. of \in SUBSET P
    BY <1>1, <1>2
  <2>3. h \in [best -> of] /\ (\A k, l \in best : h[k] = h[l] => k = l) /\ \A i \in of : \E k \in best : h[k] = i
    BY <1>1, <1>2
  <2>4. \A k \in best : coarse[k] <= rate[h[k]]
    BY <1>1, <1>2, <1>3
  <2>5. (\A k \in best : coarse[k] \in Nat) /\ \A i \in of : rate[i] \in Nat
    BY <1>2, <1>3, <2>2
  <2> HIDE DEF h, of
  <2>6. h \in Injection(best, of) /\ h \in Bijection(best, of)
    BY <2>3, Fun_IsInj, Fun_IsBij
  <2>7. IsFiniteSet(of) /\ Cardinality(of) = Cardinality(best)
    <3>1. ExistsBijection(best, of)
      BY <2>6 DEF ExistsBijection
    <3>2. QED
      BY <1>2, <3>1, FS_Bijection
  <2>8. SumOf(coarse, best) <= SumOf(rate, of)
    BY <1>2, <2>4, <2>5, <2>6, <2>7, SumGrows
  <2>9. SumOf(rate, of) <= a
    BY <1>2, <2>2, <2>7, TopIsMaximal DEF top
  <2>10. SumOf(coarse, best) \in Nat /\ SumOf(rate, of) \in Nat
    BY <1>2, <2>5, <2>7, SumIsNat
  <2> HIDE DEF a, b
  <2>11. CASE unit = 1
    BY <1>2, <1>6, <2>1, <2>8, <2>9, <2>10, <2>11
  <2>12. CASE unit = Fine
    BY <1>2, <1>6, <2>1, <2>8, <2>9, <2>10, <2>12 DEF Fine
  <2>13. QED
    BY <2>11, <2>12
<1>8. unit * a <= b
  <2> DEFINE rated == {e[k] : k \in hit}
             h == [k \in hit |-> e[k]]
             g == [i \in rated |-> CHOOSE k \in hit : e[k] = i]
  <2>1. hit \in SUBSET Q /\ rated \subseteq top
    OBVIOUS
  <2>2. Units(rate, top) = Units(rate, rated)
    <3>1. ASSUME NEW u, u \in Units(rate, top) PROVE u \in Units(rate, rated)
      <4>1. PICK i \in top, n \in Nat : u = <<i, n>>
        BY <3>1 DEF Units
      <4>2. 1 <= n /\ n <= rate[i]
        BY <3>1, <4>1 DEF Units
      <4>3. i \in P /\ rate[i] # 0
        BY <1>2, <4>1, <4>2
      <4>4. PICK k \in Q : e[k] = i
        BY <1>5, <4>3
      <4>5. i \in rated
        BY <4>1, <4>4
      <4> HIDE DEF rated
      <4>6. QED
        BY <4>1, <4>2, <4>5 DEF Units
    <3>2. ASSUME NEW u, u \in Units(rate, rated) PROVE u \in Units(rate, top)
      <4> HIDE DEF rated
      <4>1. QED
        BY <2>1, <3>2 DEF Units
    <3>3. QED
      BY <3>1, <3>2
  <2>3. IsFiniteSet(rated) /\ Cardinality(rated) \in Nat /\ Cardinality(rated) <= Cardinality(top)
    <3> HIDE DEF rated
    <3>1. QED
      BY <1>2, <2>1, FS_Subset, FS_CardinalityType
  <2>4. \A i \in rated : g[i] \in hit /\ e[g[i]] = i
    OBVIOUS
  <2>5. g \in [rated -> hit] /\ (\A i, j \in rated : g[i] = g[j] => i = j)
    <3>1. g \in [rated -> hit]
      BY <2>4
    <3>2. \A i, j \in rated : g[i] = g[j] => i = j
      BY <2>4
    <3>3. QED
      BY <3>1, <3>2
  <2>6. \A k \in hit : \E i \in rated : g[i] = k
    <3> TAKE k \in hit
    <3>1. e[k] \in rated /\ k \in Q
      BY <2>1
    <3>2. g[e[k]] \in hit /\ e[g[e[k]]] = e[k]
      BY <2>4, <3>1
    <3>3. g[e[k]] = k
      BY <1>1, <2>1, <3>1, <3>2
    <3>4. QED
      BY <3>1, <3>3
  <2> HIDE DEF g, rated, hit
  <2>7. g \in Injection(rated, hit) /\ g \in Bijection(rated, hit)
    BY <2>5, <2>6, Fun_IsInj, Fun_IsBij
  <2>8. IsFiniteSet(hit) /\ Cardinality(hit) = Cardinality(rated)
    <3>1. ExistsBijection(rated, hit)
      BY <2>7 DEF ExistsBijection
    <3>2. QED
      BY <2>3, <3>1, FS_Bijection
  <2>9. (\A i \in rated : rate[i] \in Nat) /\ \A k \in hit : coarse[k] \in Nat
    BY <1>2, <1>3, <2>1
  <2>10. a = SumOf(rate, rated)
    BY <1>2, <1>3, <2>2, <2>3, <2>9, SumCounts
  <2>11. \A i \in rated : rate[i] <= coarse[g[i]]
    <3> TAKE i \in rated
    <3>1. g[i] \in Q /\ e[g[i]] = i
      BY <2>1, <2>4
    <3>2. QED
      BY <1>3, <2>9, <3>1
  <2>12. SumOf(rate, rated) <= SumOf(coarse, hit)
    BY <2>3, <2>7, <2>8, <2>9, <2>11, SumGrows
  <2>13. unit * SumOf(coarse, hit) <= SumOf(fine, hit)
    BY <1>4, <2>1, <2>8, SumScales
  <2>14. SumOf(fine, hit) <= b
    <3>1. Cardinality(hit) <= count
      BY <1>2, <2>3, <2>8
    <3>2. QED
      BY <2>1, <3>1, TopIsMaximal DEF best
  <2>15. SumOf(coarse, hit) \in Nat /\ SumOf(fine, hit) \in Nat
    <3>1. \A k \in hit : fine[k] \in Nat
      BY <1>3, <2>1
    <3>2. QED
      BY <2>8, <2>9, <3>1, SumIsNat
  <2> HIDE DEF a, b
  <2>16. CASE unit = 1
    BY <1>6, <2>10, <2>12, <2>13, <2>14, <2>15, <2>16
  <2>17. CASE unit = Fine
    BY <1>6, <2>10, <2>12, <2>13, <2>14, <2>15, <2>17 DEF Fine
  <2>18. QED
    BY <2>16, <2>17
<1>9. QED
  BY <1>6, <1>7, <1>8 DEF top, best

\* A quotient grows with what is divided.
LEMMA QuotientGrows ==
    ASSUME NEW a \in Nat, NEW b \in Nat, a <= b, NEW d \in Nat, d > 0
    PROVE  a \div d <= b \div d
OBVIOUS

-----------------------------------------------------------------------------
(* Rows and constants. *)

\* The rows of the simulator are rows of the snapshot.
LEMMA RowsFacts ==
    ASSUME NEW p \in Payload \cup {NoPayload}
    PROVE  /\ IsSequence(Rows(p))
           /\ \A i \in DOMAIN Rows(p) : /\ p \in Payload /\ IsRow(Rows(p)[i])
                                        /\ \E j \in DOMAIN p.rows : Rows(p)[i] = p.rows[j]
<1>1. CASE p = NoPayload
  BY <1>1 DEF Rows, IsSequence
<1>2. CASE p # NoPayload
  <2>1. /\ p \in Payload /\ Len(p.rows) \in Nat /\ DOMAIN p.rows = 1..Len(p.rows)
        /\ \A j \in DOMAIN p.rows : IsRow(p.rows[j])
    BY <1>2, PagesAssumption DEF IsSequence
  <2>2. PICK S \in SUBSET (DOMAIN p.rows) : Rows(p) = Picked(p.rows, S)
    BY <1>2, Zenon DEF Rows
  <2>3. IsPicked(Rows(p), p.rows, S)
    <3> DEFINE n == Len(p.rows)
    <3>1. n \in Nat
      BY <2>1
    <3>2. S \subseteq 1..n
      BY <2>1
    <3> HIDE DEF n
    <3>3. QED
      BY <2>2, <3>1, <3>2, PickedFacts, Zenon
  <2>4. QED
    BY <2>1, <2>3, Zenon DEF IsPicked
<1>3. QED
  BY <1>1, <1>2

IsConst(c) == c \in Nat \cup {NoConst}

\* The first constant there is, or none.
LEMMA FirstConstFacts ==
    ASSUME NEW a, NEW b, NEW c, IsConst(a), IsConst(b), IsConst(c)
    PROVE  /\ IsConst(FirstConst(<<a, b, c>>))
           /\ a # NoConst => FirstConst(<<a, b, c>>) = a
<1> DEFINE t == <<a, b, c>>
           hits == {i \in DOMAIN t : t[i] # NoConst}
           Least(i) == \A j \in hits : i <= j
<1>1. DOMAIN t = 1..3 /\ t[1] = a /\ t[2] = b /\ t[3] = c
  OBVIOUS
<1>2. hits \subseteq 1..3 /\ \A i \in 1..3 : i \in Nat
  BY <1>1
<1>3. CASE hits = {}
  BY <1>1, <1>3 DEF FirstConst, IsConst
<1>4. CASE hits # {}
  <2>1. hits \subseteq Nat
    BY <1>2
  <2> HIDE DEF hits
  <2>2. \E i \in hits : Least(i)
    BY <1>4, <2>1, LeastOf
  <2>3. PICK i \in hits : Least(i) /\ i = CHOOSE k \in hits : Least(k)
    BY <2>2
  <2>4. FirstConst(t) = t[i]
    BY <1>4, <2>3 DEF FirstConst, hits
  <2>5. i \in 1..3
    BY <1>2
  <2>6. i = 1 \/ i = 2 \/ i = 3
    BY <2>5
  <2>7. IsConst(t[i])
    BY <1>1, <2>6
  <2>8. a # NoConst => i = 1
    <3>1. a # NoConst => 1 \in hits
      BY <1>1 DEF hits
    <3>2. QED
      BY <2>3, <2>5, <3>1
  <2>9. QED
    BY <1>1, <2>4, <2>7, <2>8
<1>5. QED
  BY <1>3, <1>4

LEMMA EntryConst ==
    ASSUME NEW cat, IsCatalogue(cat), NEW id
    PROVE  IsConst(EntryOfId(cat, id).const)
<1> DEFINE hits == {i \in DOMAIN cat : cat[i].id = id /\ id # NoId}
           Greatest(i) == \A j \in hits : j <= i
<1>1. CASE hits = {}
  BY <1>1 DEF EntryOfId, NoEntry, IsConst
<1>2. CASE hits # {}
  <2>1. hits \subseteq 1..Len(cat) /\ Len(cat) \in Nat
    BY DEF IsCatalogue, IsSequence
  <2>2. \A i \in hits : IsConst(cat[i].const)
    BY DEF IsCatalogue, IsConst
  <2>3. EntryOfId(cat, id) = cat[CHOOSE i \in hits : Greatest(i)]
    BY <1>2 DEF EntryOfId
  <2> HIDE DEF hits
  <2>4. \E i \in hits : Greatest(i)
    BY <1>2, <2>1, GreatestOf
  <2>5. QED
    BY <2>2, <2>3, <2>4
<1>3. QED
  BY <1>1, <1>2

LEMMA NameConst ==
    ASSUME NEW cat, IsCatalogue(cat), NEW key
    PROVE  IsConst(IndexedConst(cat, key))
<1> DEFINE hits == {i \in DOMAIN cat : cat[i].key = key /\ HasConst(cat[i])}
           Least(i) == \A j \in hits : i <= j
<1>1. IndexedConst(cat, key) = (IF hits = {} THEN NoEntry ELSE cat[CHOOSE i \in hits : Least(i)]).const
  BY DEF IndexedConst, FirstEntry
<1>2. CASE hits = {}
  BY <1>1, <1>2 DEF NoEntry, IsConst
<1>3. CASE hits # {}
  <2>1. hits \subseteq Nat
    BY DEF IsCatalogue, IsSequence
  <2>2. \A i \in hits : IsConst(cat[i].const)
    BY DEF IsCatalogue, IsConst
  <2> HIDE DEF hits
  <2>3. \E i \in hits : Least(i)
    BY <1>3, <2>1, LeastOf
  <2>4. QED
    BY <1>1, <1>3, <2>2, <2>3
<1>4. QED
  BY <1>2, <1>3

\* What the simulator takes for a row's constant is a number.
LEMMA ResolvedIsNat ==
    ASSUME NEW p, IsCatalogue(p.catalog), NEW m, IsCatalogue(m), NEW r, IsRow(r)
    PROVE  ResolvedConst(p, m, r) \in Nat
<1>1. IsConst(r.const)
  BY DEF IsRow, IsConst
<1>2. IsConst(FirstConst(<<r.const, EntryOfId(p.catalog, r.id).const, IndexedConst(m, r.key)>>))
  BY <1>1, EntryConst, NameConst, FirstConstFacts
<1>3. QED
  BY <1>2 DEF ResolvedConst, AtLeastZero, IsConst, NoConst

-----------------------------------------------------------------------------
(* The formulas grow with what was reached. *)

\* TopScore is a number, and which one.  No step cites both facts about a
\* bound: Zenon does not read numerals as long as this one.
LEMMA TopScoreType == TopScore \in Nat
BY SMT DEF TopScore

LEMMA TopScoreValue == TopScore = 1010000
BY SMT DEF TopScore

\* A score lies between its bounds.
LEMMA ScoreBounds ==
    ASSUME NEW t \in 0..TopScore
    PROVE  t \in Int /\ 0 <= t /\ t <= TopScore
BY TopScoreType, SMT

\* The main rate grows with the score.
LEMMA MainRateGrows ==
    ASSUME NEW c \in Nat, NEW s \in Int, NEW t \in Int, 0 <= s, s <= t, t <= TopScore
    PROVE  MainRate(c, s) <= MainRate(c, t) /\ MainRate(c, s) \in Nat /\ MainRate(c, t) \in Nat
<1>1. \A x \in Int : 0 <= x /\ x <= TopScore => MainRate(c, x) \in Nat
  BY TopScoreValue, SMTT(30) DEF MainRate, AtLeastZero
<1>2. MainRate(c, s) <= MainRate(c, t)
  BY TopScoreValue, SMTT(60) DEF MainRate, AtLeastZero
<1>3. 0 <= t /\ s <= TopScore
  BY TopScoreType, SMT
<1>4. QED
  BY <1>1, <1>2, <1>3, Zenon

\* The bonus for a rank grows with the score.
LEMMA RankBonusGrows ==
    ASSUME NEW s \in Int, NEW t \in Int, s <= t
    PROVE  RankBonus(s) <= RankBonus(t) /\ RankBonus(s) \in Nat /\ RankBonus(t) \in Nat
BY SMTT(30) DEF RankBonus

\* A lamp is worth more with each thing reached.
LEMMA LampBonusGrows ==
    ASSUME NEW s \in Int, NEW t \in Int, s <= t, t <= TopScore,
           NEW fb \in BOOLEAN, NEW fc \in BOOLEAN, NEW ab \in BOOLEAN,
           NEW gb \in BOOLEAN, NEW gc \in BOOLEAN, NEW bb \in BOOLEAN,
           fb => gb, fc => gc, ab => bb
    PROVE  /\ LampBonus(Lamp(s, fb, fc, ab)) <= LampBonus(Lamp(t, gb, gc, bb))
           /\ LampBonus(Lamp(s, fb, fc, ab)) \in Nat
           /\ LampBonus(Lamp(t, gb, gc, bb)) \in Nat
<1>1. s = TopScore => t = TopScore
  BY TopScoreType, SMT
<1>2. QED
  BY <1>1, SMTT(60) DEF Lamp, LampBonus

LEMMA PlatRateGrows ==
    ASSUME NEW c \in Nat, NEW a \in Int, NEW b \in Int, a <= b
    PROVE  PlatRate(c, a) <= PlatRate(c, b) /\ PlatRate(c, a) \in Nat /\ PlatRate(c, b) \in Nat
<1>1. PlatRate(c, a) <= PlatRate(c, b)
  BY SMTT(30) DEF PlatRate
<1>2. ASSUME NEW x \in Int PROVE PlatRate(c, x) \in Nat
  <2> DEFINE s == IF x < 0 THEN 0 ELSE IF x > 5 THEN 5 ELSE x
  <2>1. s \in Nat
    OBVIOUS
  <2>2. PlatRate(c, x) = IF c > 0 THEN (c * c * s) \div 100 ELSE 0
    BY DEF PlatRate
  <2> HIDE DEF s
  <2>3. c * c * s \in Nat
    BY <2>1
  <2>4. (c * c * s) \div 100 \in Nat
    BY <2>3
  <2>5. QED
    BY <2>2, <2>4
<1>3. QED
  BY <1>1, <1>2

-----------------------------------------------------------------------------
(* Patches. *)

Charts == {r.chart : r \in UNION {{p.rows[i] : i \in DOMAIN p.rows} : p \in Payload}}

LEMMA PatchTypeIs ==
    PatchType = [chart : Charts, score : 0..TopScore, star : 0..5, fc : BOOLEAN, ab : BOOLEAN, fb : BOOLEAN]
BY DEF PatchType, Charts

\* A patch whose numbers are as they were entered.
RawPatch == [chart : Charts, score : Int, star : Int, fc : BOOLEAN, ab : BOOLEAN, fb : BOOLEAN]

LEMMA PatchIsRaw == PatchType \subseteq RawPatch
<1>1. 0..TopScore \subseteq Int /\ 0..5 \subseteq Int
  BY TopScoreType
<1> HIDE DEF TopScore
<1>2. ASSUME NEW q \in PatchType PROVE q \in RawPatch
  <2>1. q \in [chart : Charts, score : 0..TopScore, star : 0..5, fc : BOOLEAN, ab : BOOLEAN, fb : BOOLEAN]
    BY PatchTypeIs
  <2>2. QED
    BY <1>1, <2>1 DEF RawPatch
<1>3. QED
  BY <1>2

\* A row is one of a snapshot, so its chart is.
LEMMA RowsCharts ==
    ASSUME NEW p \in Payload \cup {NoPayload}, NEW i \in DOMAIN Rows(p)
    PROVE  Rows(p)[i].chart \in Charts
<1>1. p \in Payload /\ \E j \in DOMAIN p.rows : Rows(p)[i] = p.rows[j]
  BY RowsFacts
<1>2. QED
  BY <1>1 DEF Charts

\* A score and a number of stars within what the game allows.
LEMMA Clamps ==
    /\ \A x \in Int : AtLeastZero(Smaller(TopScore, x)) \in 0..TopScore
    /\ \A x, star \in Int : star <= 5 => Larger(star, Smaller(5, AtLeastZero(x))) \in 0..5
    /\ \A star \in Int : star <= 5 => AtLeastZero(star) \in 0..5
BY TopScoreType DEF AtLeastZero, Smaller, Larger

LEMMA DefaultPatchType ==
    ASSUME NEW r, IsRow(r), r.chart \in Charts
    PROVE  DefaultPatch(r) \in PatchType /\ DefaultPatch(r).chart = r.chart
<1>1. /\ r.score \in 0..TopScore /\ AtLeastZero(r.star) \in 0..5
      /\ r.fb \in BOOLEAN /\ r.ab \in BOOLEAN /\ (r.fc \/ r.ab) \in BOOLEAN
  BY Clamps DEF IsRow
<1>2. QED
  BY <1>1, PatchTypeIs, Zenon DEF DefaultPatch

LEMMA EnteredFacts ==
    ASSUME NEW q \in PatchType, NEW e \in Entered(q)
    PROVE  e \in RawPatch /\ e.chart = q.chart
<1>1. q \in RawPatch
  BY PatchIsRaw
<1>2. ScoreInput \subseteq Int /\ StarInput \subseteq Int
  BY PagesAssumption
<1>3. CASE \E x \in ScoreInput : e = [q EXCEPT !.score = x]
  BY <1>1, <1>2, <1>3 DEF RawPatch
<1>4. CASE \E x \in StarInput : e = [q EXCEPT !.star = x]
  BY <1>1, <1>2, <1>4 DEF RawPatch
<1>5. CASE e \in {[q EXCEPT !.fc = ~@], [q EXCEPT !.ab = ~@], [q EXCEPT !.fb = ~@]}
  BY <1>1, <1>5 DEF RawPatch
<1>6. QED
  BY <1>3, <1>4, <1>5, Zenon DEF Entered

LEMMA UpdatedFacts ==
    ASSUME NEW r, IsRow(r), NEW e \in RawPatch
    PROVE  Updated(r, e) \in PatchType /\ Updated(r, e).chart = e.chart
<1> DEFINE sc == AtLeastZero(Smaller(TopScore, e.score))
           st == Larger(r.star, Smaller(5, AtLeastZero(e.star)))
           c == e.fc \/ r.fc \/ r.ab
           a == e.ab \/ r.ab
           b == e.fb \/ r.fb
<1>1. e.chart \in Charts /\ e.score \in Int /\ e.star \in Int
  BY DEF RawPatch
<1>2. r.star \in Int /\ r.star <= 5
  BY DEF IsRow
<1>3. sc \in 0..TopScore /\ st \in 0..5 /\ c \in BOOLEAN /\ a \in BOOLEAN /\ b \in BOOLEAN
  BY <1>1, <1>2, Clamps
<1>4. Updated(r, e) = [e EXCEPT !.score = sc, !.star = st, !.fc = c, !.ab = a, !.fb = b]
  BY DEF Updated
<1> HIDE DEF sc, st, c, a, b
<1>5. Updated(r, e) = [chart |-> e.chart, score |-> sc, star |-> st, fc |-> c, ab |-> a, fb |-> b]
  BY <1>4 DEF RawPatch
<1> DEFINE new == [chart |-> e.chart, score |-> sc, star |-> st, fc |-> c, ab |-> a, fb |-> b]
<1>6. new \in PatchType
  BY <1>1, <1>3, PatchTypeIs, Zenon
<1>7. new.chart = e.chart
  OBVIOUS
<1>8. QED
  BY <1>5, <1>6, <1>7, Zenon

LEMMA PatchedFacts ==
    ASSUME NEW r, IsRow(r), NEW q \in PatchType
    PROVE  /\ Patched(r, q).score = Larger(r.score, Smaller(TopScore, q.score))
           /\ Patched(r, q).star = Larger(r.star, Smaller(5, AtLeastZero(q.star)))
           /\ Patched(r, q).ab = (r.ab \/ q.ab) /\ Patched(r, q).fb = (r.fb \/ q.fb)
           /\ Patched(r, q).fc = (r.fc \/ r.ab \/ q.fc \/ (r.ab \/ q.ab))
           /\ Patched(r, q).key = r.key /\ Patched(r, q).id = r.id
           /\ Patched(r, q).const = r.const /\ Patched(r, q).version = r.version
           /\ r.plat > 0 => Patched(r, q).plat = Larger(r.plat, 1)
<1>1. DOMAIN r = {"chart", "name", "key", "id", "level", "const", "version", "score",
                  "star", "plat", "fb", "fc", "ab"}
  BY DEF IsRow
<1> HIDE DEF IsRow
<1>2. QED
  BY <1>1, Zenon DEF Patched

-----------------------------------------------------------------------------
(* The scenario, step by step. *)

\* Each patch of s is under the id, and of the chart, of a row of a snapshot
\* of h.
Known(s, h) ==
    \A id \in DOMAIN s : \E p \in h : \E i \in DOMAIN Rows(p) :
        id = RowId(Rows(p), i) /\ s[id].chart = Rows(p)[i].chart

Good(s, h) == IsScenario(s) /\ Known(s, h)

LEMMA EmptyIsGood == \A h : Good(<< >>, h)
BY DEF Good, IsScenario, Known

\* What is good is not mistaken for no scenario.
LEMMA GoodIsSome ==
    ASSUME NEW h \in SUBSET Payload, NEW s, Good(s, h)
    PROVE  s # NoScenario
<1>1. DOMAIN s \subseteq Ids
  BY DEF Good, Known, Ids, RowIds
<1>2. s \in [DOMAIN s -> PatchType]
  BY DEF Good, IsScenario
<1>3. QED
  BY <1>1, <1>2, NoScenarioAssumption

\* More snapshots may come.
LEMMA GoodGrows ==
    ASSUME NEW g, NEW h, g \subseteq h, NEW s, Good(s, g)
    PROVE  Good(s, h)
BY DEF Good, Known

\* Patches may go.
LEMMA RestrictedIsGood ==
    ASSUME NEW h, NEW s, Good(s, h), NEW ids
    PROVE  Good(Restricted(s, ids), h) /\ DOMAIN Restricted(s, ids) = DOMAIN s \cap ids
<1>1. DOMAIN Restricted(s, ids) = DOMAIN s \cap ids
      /\ \A id \in DOMAIN s \cap ids : Restricted(s, ids)[id] = s[id]
  BY DEF Restricted
<1>2. \A id \in DOMAIN s : s[id] \in PatchType
  BY DEF Good, IsScenario
<1>3. Restricted(s, ids) \in [DOMAIN s \cap ids -> PatchType]
  BY <1>2 DEF Restricted
<1>4. IsScenario(Restricted(s, ids))
  BY <1>1, <1>3 DEF IsScenario
<1>5. Known(Restricted(s, ids), h)
  BY <1>1 DEF Good, Known
<1>6. QED
  BY <1>1, <1>4, <1>5 DEF Good

LEMMA PrunedIsGood ==
    ASSUME NEW h, NEW s, Good(s, h), NEW rows
    PROVE  /\ Good(Pruned(s, rows), h)
           /\ \A id \in DOMAIN s \ DOMAIN Pruned(s, rows) : rows # << >> /\ id \notin RowIds(rows)
<1>1. CASE rows = << >>
  BY <1>1 DEF Pruned
<1>2. CASE rows # << >>
  <2> DEFINE t == Restricted(s, RowIds(rows))
  <2>1. Good(t, h) /\ DOMAIN t = DOMAIN s \cap RowIds(rows)
    BY RestrictedIsGood
  <2>2. Pruned(s, rows) = t
    BY <1>2 DEF Pruned
  <2> HIDE DEF t
  <2>3. QED
    BY <1>2, <2>1, <2>2
<1>3. QED
  BY <1>1, <1>2

LEMMA AddedIsGood ==
    ASSUME NEW h \in SUBSET Payload, NEW s, Good(s, h),
           NEW p \in h \cup {NoPayload}, NEW i \in DOMAIN Rows(p),
           NEW t, t = WithPatch(s, RowId(Rows(p), i), DefaultPatch(Rows(p)[i]))
    PROVE  Good(t, h) /\ DOMAIN s \subseteq DOMAIN t
<1> DEFINE id == RowId(Rows(p), i)
           q == DefaultPatch(Rows(p)[i])
<1>1. p \in h /\ IsRow(Rows(p)[i]) /\ Rows(p)[i].chart \in Charts
  BY RowsFacts, RowsCharts, PagesAssumption
<1>2. q \in PatchType /\ q.chart = Rows(p)[i].chart
  BY <1>1, DefaultPatchType
<1>3. id = RowId(Rows(p), i)
  OBVIOUS
<1>4. t = WithPatch(s, id, q)
  OBVIOUS
<1>5. \A x \in DOMAIN s : s[x] \in PatchType
  BY DEF Good, IsScenario
<1> HIDE DEF id, q
<1>6. /\ DOMAIN t = {id} \cup DOMAIN s /\ t[id] = q
      /\ \A x \in DOMAIN s : x # id => t[x] = s[x]
      /\ t = [x \in DOMAIN t |-> t[x]]
  BY <1>4 DEF WithPatch
<1>7. t \in [DOMAIN t -> PatchType]
  BY <1>2, <1>5, <1>6
<1>8. Known(t, h)
  <2> SUFFICES ASSUME NEW x \in DOMAIN t
               PROVE  \E pp \in h : \E j \in DOMAIN Rows(pp) :
                          x = RowId(Rows(pp), j) /\ t[x].chart = Rows(pp)[j].chart
    BY DEF Known
  <2>1. CASE x = id
    BY <1>1, <1>2, <1>3, <1>6, <2>1
  <2>2. CASE x # id
    BY <1>6, <2>2 DEF Good, Known
  <2>3. QED
    BY <2>1, <2>2
<1>9. QED
  BY <1>6, <1>7, <1>8 DEF Good, IsScenario

LEMMA UpdatedIsGood ==
    ASSUME NEW h, NEW s, Good(s, h), NEW id \in DOMAIN s, NEW r, IsRow(r),
           NEW q \in Entered(s[id]), NEW t, t = [s EXCEPT ![id] = Updated(r, q)]
    PROVE  Good(t, h) /\ DOMAIN t = DOMAIN s
<1>1. s[id] \in PatchType /\ s \in [DOMAIN s -> PatchType]
  BY DEF Good, IsScenario
<1>2. Updated(r, q) \in PatchType /\ Updated(r, q).chart = s[id].chart
  BY <1>1, EnteredFacts, UpdatedFacts
<1>3. DOMAIN t = DOMAIN s /\ t[id] = Updated(r, q) /\ \A x \in DOMAIN s : x # id => t[x] = s[x]
  BY <1>1
<1>4. t \in [DOMAIN t -> PatchType]
  BY <1>1, <1>2, <1>3
<1>5. Known(t, h)
  <2>1. \A x \in DOMAIN s : t[x].chart = s[x].chart
    BY <1>2, <1>3
  <2>2. QED
    BY <1>3, <2>1 DEF Good, Known
<1>6. QED
  BY <1>3, <1>4, <1>5 DEF Good, IsScenario

-----------------------------------------------------------------------------
(* The invariant. *)

\* Patches are of rows of snapshots the simulator has had, and what is stored
\* is what it shows, but for its first render.
IInv ==
    /\ TypeOK
    /\ Known(scenario, shown) /\ Known(stored, shown)
    /\ loaded # NoScenario => Known(loaded, shown)
    /\ page = "simulator" => payload \in shown \cup {NoPayload}
    /\ page = "simulator" /\ loaded = NoScenario => stored = scenario
    /\ page = "none" => loaded = NoScenario

LEMMA InitInv == Init => IInv
<1> SUFFICES ASSUME Init PROVE IInv
  OBVIOUS
<1>1. Good(<< >>, {})
  BY EmptyIsGood
<1>2. QED
  BY <1>1 DEF Init, IInv, TypeOK, Good

\* What every step says of the scenarios, once the rest of it is forgotten:
\* they are good, and stored and shown agree where they must.
LEMMA TypesAndScenarios ==
    IInv <=>
      /\ latest \in Payload \cup {NoPayload} /\ catalogue \in Catalogue /\ news \in News
      /\ page \in {"none", "simulator", "board", "targets"}
      /\ waiting \subseteq {"me", "music", "config", "targets"} /\ err \in BOOLEAN
      /\ payload \in Payload \cup {NoPayload}
      /\ music \in Catalogue \cup {<< >>} /\ versions \in News \cup {DefaultNews}
      /\ answered \in [payload : Payload \cup {NoPayload}, catalogue : Catalogue, news : News]
                         \cup {NoPayload}
      /\ shown \subseteq Payload
      /\ Good(scenario, shown) /\ Good(stored, shown)
      /\ loaded # NoScenario => Good(loaded, shown)
      /\ page = "simulator" => payload \in shown \cup {NoPayload}
      /\ page = "simulator" /\ loaded = NoScenario => stored = scenario
      /\ page = "none" => loaded = NoScenario
BY DEF IInv, TypeOK, Good

LEMMA EditsKeep ==
    ASSUME IInv, AddScenarioRow \/ UpdateScenario \/ RemoveScenarioRow \/ ClearScenario
    PROVE  /\ scenario' = stored' /\ Good(scenario', shown)
           /\ DOMAIN stored \subseteq DOMAIN stored' \/ RemoveScenarioRow \/ ClearScenario
           /\ page = "simulator" /\ loaded = NoScenario
           /\ UNCHANGED <<server, page, waiting, err, fetched, loaded>>
<1>1. /\ Good(scenario, shown) /\ Edit /\ shown \subseteq Payload
      /\ payload \in shown \cup {NoPayload} /\ payload \in Payload \cup {NoPayload}
  BY TypesAndScenarios
     DEF Edit, Shows, AddScenarioRow, UpdateScenario, RemoveScenarioRow, ClearScenario
<1>2. page = "simulator" /\ loaded = NoScenario /\ stored = scenario
      /\ UNCHANGED <<server, page, waiting, err, fetched, loaded>>
  BY <1>1, TypesAndScenarios DEF Edit, Shows
<1>3. CASE AddScenarioRow
  <2>1. PICK i \in Selectable :
            SetScenario(WithPatch(scenario, RowId(Rows(payload), i), DefaultPatch(Rows(payload)[i])))
    BY <1>3 DEF AddScenarioRow
  <2>2. i \in DOMAIN Rows(payload)
    BY DEF Selectable
  <2>3. Good(scenario', shown) /\ DOMAIN scenario \subseteq DOMAIN scenario'
    BY <1>1, <2>1, <2>2, AddedIsGood DEF SetScenario
  <2>4. QED
    BY <1>2, <2>1, <2>3 DEF SetScenario
<1>4. CASE UpdateScenario
  <2>1. PICK i \in Entries : \E q \in Entered(scenario[RowId(Rows(payload), i)]) :
            SetScenario([scenario EXCEPT ![RowId(Rows(payload), i)] = Updated(Rows(payload)[i], q)])
    BY <1>4 DEF UpdateScenario
  <2> DEFINE id == RowId(Rows(payload), i)
             r == Rows(payload)[i]
  <2>2. id \in DOMAIN scenario /\ IsRow(r)
    BY <1>1, RowsFacts DEF Entries
  <2>3. PICK q \in Entered(scenario[id]) : SetScenario([scenario EXCEPT ![id] = Updated(r, q)])
    BY <2>1
  <2> HIDE DEF id, r
  <2>4. Good(scenario', shown) /\ DOMAIN scenario = DOMAIN scenario'
    BY <1>1, <2>2, <2>3, UpdatedIsGood DEF SetScenario
  <2>5. QED
    BY <1>2, <2>3, <2>4 DEF SetScenario
<1>5. CASE RemoveScenarioRow
  <2>1. PICK i \in Entries :
            SetScenario(Restricted(scenario, DOMAIN scenario \ {RowId(Rows(payload), i)}))
    BY <1>5 DEF RemoveScenarioRow
  <2>2. Good(scenario', shown) /\ scenario' = stored'
    BY <1>1, <2>1, RestrictedIsGood DEF SetScenario
  <2>3. QED
    BY <1>2, <1>5, <2>2
<1>6. CASE ClearScenario
  <2>1. Good(scenario', shown) /\ scenario' = stored'
    BY <1>6, EmptyIsGood DEF ClearScenario, SetScenario
  <2>2. QED
    BY <1>2, <1>6, <2>1
<1>7. QED
  BY <1>3, <1>4, <1>5, <1>6

\* Every step keeps the invariant.
LEMMA NextInv == IInv /\ [Next]_vars => IInv'
<1> SUFFICES ASSUME IInv, [Next]_vars PROVE IInv'
  OBVIOUS
<1>1. CASE ServerChanges
  BY <1>1, TypesAndScenarios DEF ServerChanges, fetched, IInv, TypeOK
<1>2. CASE \E p \in {"simulator", "board", "targets"} : Open(p)
  <2>1. PICK p \in {"simulator", "board", "targets"} : Open(p)
    BY <1>2
  <2>2. Good(stored, shown) /\ Good(<< >>, shown) /\ shown \subseteq Payload /\ page = "none"
    BY <2>1, TypesAndScenarios, EmptyIsGood DEF Open
  <2>3. Requests(p) \subseteq {"me", "music", "config", "targets"}
    BY DEF Requests
  <2>4. QED
    BY <2>1, <2>2, <2>3, GoodIsSome DEF Open, server, IInv, TypeOK, Good
<1>3. CASE Render
  BY <1>3 DEF Render, SetScenario, server, fetched, IInv, TypeOK
<1>4. CASE Close
  BY <1>4, EmptyIsGood DEF Close, server, IInv, TypeOK, Good
<1>5. CASE AnswerMe
  <2>1. page = "simulator" \/ UNCHANGED <<scenario, stored>>
    BY <1>5 DEF AnswerMe
  <2>2. /\ loaded = NoScenario /\ loaded' = loaded /\ page' = page
        /\ Good(scenario, shown) /\ Good(stored, shown)
        /\ shown \subseteq Payload /\ latest \in Payload \cup {NoPayload}
    BY <1>5, TypesAndScenarios DEF AnswerMe, Settles
  <2>3. /\ shown \subseteq shown' /\ shown' \subseteq Payload
        /\ page = "simulator" => latest \in shown' \cup {NoPayload}
    BY <1>5, <2>2 DEF AnswerMe
  <2>4. Good(scenario, shown') /\ Good(stored, shown')
    BY <2>2, <2>3, GoodGrows
  <2>5. Good(scenario', shown') /\ Good(stored', shown')
        /\ (page = "simulator" => stored' = scenario')
    BY <1>5, <2>1, <2>2, <2>4, PrunedIsGood DEF AnswerMe, SetScenario
  <2>6. QED
    BY <1>5, <2>2, <2>3, <2>5 DEF AnswerMe, server, IInv, TypeOK, Good
<1>6. CASE AnswerTargets
  <2>1. answered' \in [payload : Payload \cup {NoPayload}, catalogue : Catalogue, news : News]
    BY <1>6, TypesAndScenarios DEF AnswerTargets
  <2>2. QED
    BY <1>6, <2>1 DEF AnswerTargets, server, IInv, TypeOK
<1>7. CASE AnswerFails
  BY <1>7 DEF AnswerFails, server, fetched, IInv, TypeOK
<1>8. CASE AnswerMusic
  BY <1>8 DEF AnswerMusic, server, IInv, TypeOK
<1>9. CASE AnswerConfig
  BY <1>9 DEF AnswerConfig, server, IInv, TypeOK
<1>10. CASE AddScenarioRow \/ UpdateScenario \/ RemoveScenarioRow \/ ClearScenario
  BY <1>10, EditsKeep DEF server, fetched, IInv, TypeOK, Good
<1>11. CASE UNCHANGED vars
  BY <1>11 DEF vars, server, fetched, IInv, TypeOK
<1>12. QED
  BY <1>1, <1>2, <1>3, <1>4, <1>5, <1>6, <1>7, <1>8, <1>9, <1>10, <1>11, Zenon DEF Next

\* The invariant holds of every behaviour.
THEOREM Invariance == Spec => []IInv
BY InitInv, NextInv, PTL DEF Spec

\* Every state has the types the model declares; in particular every patch,
\* stored ones included, is a result the game allows (updateScenario).
THEOREM TypeCorrect == Spec => []TypeOK
<1>1. IInv => TypeOK
  BY DEF IInv
<1>2. QED
  BY <1>1, Invariance, PTL

-----------------------------------------------------------------------------
(* Patches and charts. *)

\* Two rows with one id of the scenario have the same id of a song, or none
\* and the same name.
LEMMA IdsOfCharts ==
    ASSUME NEW p \in Payload \cup {NoPayload}, NEW i \in DOMAIN Rows(p),
           NEW q \in Payload \cup {NoPayload}, NEW j \in DOMAIN Rows(q),
           RowId(Rows(p), i) = RowId(Rows(q), j)
    PROVE  /\ Rows(p)[i].id = Rows(q)[j].id
           /\ Rows(p)[i].id = NoId => Rows(p)[i].chart[1] = Rows(q)[j].chart[1]
<1>1. PICK r : /\ r = Rows(p)[i] /\ IsRow(r) /\ p \in Payload /\ \E k \in DOMAIN p.rows : r = p.rows[k]
  BY RowsFacts
<1>2. PICK s : /\ s = Rows(q)[j] /\ IsRow(s) /\ q \in Payload /\ \E k \in DOMAIN q.rows : s = q.rows[k]
  BY RowsFacts
<1>3. r.chart[1] = r.name /\ s.chart[1] = s.name
  BY <1>1, <1>2 DEF IsRow
<1>4. (IF r.id # NoId THEN <<r.id>> ELSE <<r.name, i>>) = (IF s.id # NoId THEN <<s.id>> ELSE <<s.name, j>>)
  BY <1>1, <1>2, Zenon DEF RowId
<1>5. \A a, b, c : <<a>> # <<b, c>> 
  OBVIOUS
<1>6. \/ r.id # NoId /\ s.id # NoId /\ r.id = s.id
      \/ r.id = NoId /\ s.id = NoId /\ r.name = s.name
  <2>1. CASE r.id # NoId
    <3>1. s.id # NoId
      BY <1>4, <1>5, <2>1
    <3>2. <<r.id>> = <<s.id>>
      BY <1>4, <2>1, <3>1
    <3>3. QED
      BY <2>1, <3>1, <3>2
  <2>2. CASE r.id = NoId
    <3>1. s.id = NoId
      BY <1>4, <1>5, <2>2
    <3>2. <<r.name, i>> = <<s.name, j>>
      BY <1>4, <2>2, <3>1
    <3>3. QED
      BY <2>2, <3>1, <3>2
  <2>3. QED
    BY <2>1, <2>2
<1>7. QED
  BY <1>1, <1>2, <1>3, <1>6

\* A patch is applied to the chart it was made for, through every sync, until
\* a snapshot the simulator gets has the id on two charts or on another one;
\* without an id it stays with the name (stableRowID, the prune effect).
THEOREM PatchStaysWithItsChart == Spec => []PatchOfItsChart
<1>1. IInv => PatchOfItsChart
  <2> SUFFICES ASSUME IInv, Shows("simulator"), NEW i \in DOMAIN Rows(payload),
                      RowId(Rows(payload), i) \in DOMAIN scenario
               PROVE  LET r == Rows(payload)[i]  id == RowId(Rows(payload), i) IN
                      /\ r.id = NoId => scenario[id].chart[1] = r.chart[1]
                      /\ r.id # NoId /\ NamesOneChart(r.id) => scenario[id].chart = r.chart
    BY DEF PatchOfItsChart
  <2> DEFINE id == RowId(Rows(payload), i)
             r == Rows(payload)[i]
  <2>1. PICK p \in shown : \E j \in DOMAIN Rows(p) :
            id = RowId(Rows(p), j) /\ scenario[id].chart = Rows(p)[j].chart
    BY DEF IInv, Known
  <2>2. PICK j \in DOMAIN Rows(p) : id = RowId(Rows(p), j) /\ scenario[id].chart = Rows(p)[j].chart
    BY <2>1
  <2>3. /\ payload \in shown \cup {NoPayload} /\ shown \subseteq Payload
        /\ payload \in Payload \cup {NoPayload} /\ p \in Payload \cup {NoPayload}
    BY DEF IInv, TypeOK, Shows
  <2>4. /\ r.id = Rows(p)[j].id
        /\ r.id = NoId => r.chart[1] = Rows(p)[j].chart[1]
    BY <2>2, <2>3, IdsOfCharts
  <2>5. PICK k \in DOMAIN payload.rows : payload \in Payload /\ r = payload.rows[k]
    BY <2>3, RowsFacts
  <2>6. PICK l \in DOMAIN p.rows : Rows(p)[j] = p.rows[l]
    BY <2>3, RowsFacts
  <2>7. payload \in shown
    BY <2>3, <2>5, PagesAssumption
  <2>8. NamesOneChart(r.id) => r.chart = Rows(p)[j].chart
    BY <2>4, <2>5, <2>6, <2>7 DEF NamesOneChart
  <2>9. QED
    BY <2>2, <2>4, <2>8
<1>2. QED
  BY <1>1, Invariance, PTL

\* A step takes a patch away only as PatchesStay allows.
LEMMA StepKeepsPatches ==
    ASSUME IInv, [Next]_vars
    PROVE  [\A id \in DOMAIN Kept \ DOMAIN Kept' :
               \/ RemoveScenarioRow \/ ClearScenario
               \/ AnswerMe /\ Rows(latest) # << >> /\ id \notin RowIds(Rows(latest))
               \/ Close /\ loaded # NoScenario]_vars
<1> SUFFICES ASSUME NEW id \in DOMAIN Kept \ DOMAIN Kept', ~RemoveScenarioRow, ~ClearScenario,
                    ~(Close /\ loaded # NoScenario)
             PROVE  AnswerMe /\ Rows(latest) # << >> /\ id \notin RowIds(Rows(latest))
  OBVIOUS
<1>1. CASE UNCHANGED <<loaded, stored>>
  BY <1>1 DEF Kept
<1>2. CASE \E p \in {"simulator", "board", "targets"} : Open(p)
  <2>1. stored # NoScenario /\ loaded = NoScenario
    BY <1>2, TypesAndScenarios, GoodIsSome DEF Open
  <2>2. QED
    BY <1>2, <2>1 DEF Open, Kept
<1>3. CASE Render
  BY <1>3 DEF Render, SetScenario, Kept
<1>4. CASE Close
  BY <1>4 DEF Close, Kept
<1>5. CASE AnswerMe
  <2>1. CASE page = "simulator"
    <3>1. /\ loaded = NoScenario /\ loaded' = loaded /\ stored = scenario
          /\ stored' = Pruned(scenario, Rows(latest))
      BY <1>5, <2>1, TypesAndScenarios DEF AnswerMe, Settles, SetScenario
    <3>2. Good(scenario, shown)
      BY TypesAndScenarios
    <3>3. QED
      BY <1>5, <3>1, <3>2, PrunedIsGood DEF Kept
  <2>2. CASE page # "simulator"
    BY <1>1, <1>5, <2>2 DEF AnswerMe
  <2>3. QED
    BY <2>1, <2>2
<1>6. CASE AddScenarioRow \/ UpdateScenario \/ RemoveScenarioRow \/ ClearScenario
  <2>1. DOMAIN stored \subseteq DOMAIN stored' /\ loaded = NoScenario /\ loaded' = loaded
    BY <1>6, EditsKeep
  <2>2. QED
    BY <2>1 DEF Kept
<1>7. QED
  BY <1>1, <1>2, <1>3, <1>4, <1>5, <1>6
     DEF Next, vars, ServerChanges, AnswerTargets, AnswerFails, AnswerMusic, AnswerConfig

\* A patch is lost only when the player removes it, when a snapshot with
\* rows has none with its id, or when the page closes between its first two
\* renders (the effects of RatingSimulatorPage).
THEOREM PatchesAreKept == Spec => PatchesStay
<1>1. IInv /\ [Next]_vars =>
        [\A id \in DOMAIN Kept \ DOMAIN Kept' :
             \/ RemoveScenarioRow \/ ClearScenario
             \/ AnswerMe /\ Rows(latest) # << >> /\ id \notin RowIds(Rows(latest))
             \/ Close /\ loaded # NoScenario]_vars
  BY StepKeepsPatches
<1>2. QED
  BY <1>1, Invariance, PTL DEF Spec, PatchesStay

-----------------------------------------------------------------------------
(* The simulation. *)

\* Rates are numbers, and those of s not lower than those of r.
NotLower(c, r, s) ==
    /\ TechRate(c, r) \in Nat /\ TechRate(c, s) \in Nat /\ TechRate(c, r) <= TechRate(c, s)
    /\ PlatRate(c, r.star) \in Nat /\ PlatRate(c, s.star) \in Nat
    /\ PlatRate(c, r.star) <= PlatRate(c, s.star)

\* A row with its patch is rated at least as the row.
LEMMA PatchedIsNotLower ==
    ASSUME NEW r, IsRow(r), NEW q \in PatchType, NEW c \in Nat
    PROVE  NotLower(c, r, Patched(r, q))
<1> DEFINE sc == Larger(r.score, Smaller(TopScore, q.score))
           st == Larger(r.star, Smaller(5, AtLeastZero(q.star)))
           ab == r.ab \/ q.ab
           fb == r.fb \/ q.fb
           fc == r.fc \/ r.ab \/ q.fc \/ ab
           new == Patched(r, q)
<1>1. new.score = sc /\ new.star = st /\ new.ab = ab /\ new.fb = fb /\ new.fc = fc
  BY PatchedFacts
<1>2. q \in [chart : Charts, score : 0..TopScore, star : 0..5, fc : BOOLEAN, ab : BOOLEAN, fb : BOOLEAN]
  BY PatchTypeIs
<1>3. /\ r.score \in 0..TopScore /\ q.score \in 0..TopScore
      /\ r.star \in Int /\ q.star \in 0..5
  BY <1>2 DEF IsRow
<1>4. r.fb \in BOOLEAN /\ r.fc \in BOOLEAN /\ r.ab \in BOOLEAN
  BY DEF IsRow
<1>5. /\ r.score \in Int /\ 0 <= r.score /\ sc \in Int /\ r.score <= sc /\ sc <= TopScore
      /\ st \in Int /\ r.star <= st
  BY <1>3, TopScoreType, SMT DEF Larger, Smaller, AtLeastZero
<1>6. /\ PlatRate(c, r.star) <= PlatRate(c, new.star)
      /\ PlatRate(c, r.star) \in Nat /\ PlatRate(c, new.star) \in Nat
  BY <1>1, <1>3, <1>5, PlatRateGrows
<1>7. MainRate(c, r.score) <= MainRate(c, sc) /\ MainRate(c, r.score) \in Nat /\ MainRate(c, sc) \in Nat
  BY <1>5, MainRateGrows, Zenon
<1>8. RankBonus(r.score) <= RankBonus(sc) /\ RankBonus(r.score) \in Nat /\ RankBonus(sc) \in Nat
  BY <1>5, RankBonusGrows, Zenon
<1>9. /\ LampBonus(Lamp(r.score, r.fb, r.fc \/ r.ab, r.ab)) <= LampBonus(Lamp(sc, fb, fc \/ ab, ab))
      /\ LampBonus(Lamp(r.score, r.fb, r.fc \/ r.ab, r.ab)) \in Nat
      /\ LampBonus(Lamp(sc, fb, fc \/ ab, ab)) \in Nat
  <2> DEFINE fc0 == r.fc \/ r.ab
             fc1 == fc \/ ab
  <2>1. fb \in BOOLEAN /\ fc1 \in BOOLEAN /\ ab \in BOOLEAN /\ fc0 \in BOOLEAN
    OBVIOUS
  <2>2. (r.fb => fb) /\ (fc0 => fc1) /\ (r.ab => ab)
    OBVIOUS
  <2> HIDE DEF fb, fc0, fc1, ab, sc
  <2>3. /\ LampBonus(Lamp(r.score, r.fb, fc0, r.ab)) <= LampBonus(Lamp(sc, fb, fc1, ab))
        /\ LampBonus(Lamp(r.score, r.fb, fc0, r.ab)) \in Nat
        /\ LampBonus(Lamp(sc, fb, fc1, ab)) \in Nat
    BY <1>4, <1>5, <2>1, <2>2, LampBonusGrows, Zenon
  <2>4. QED
    BY <2>3 DEF fc0, fc1
<1>10. RowLampBonus(r) <= RowLampBonus(new) /\ RowLampBonus(r) \in Nat /\ RowLampBonus(new) \in Nat
  <2> HIDE DEF fb, fc, ab, sc, new
  <2>1. RowLampBonus(new) = LampBonus(Lamp(sc, fb, fc \/ ab, ab))
    BY <1>1, Zenon DEF RowLampBonus
  <2>2. RowLampBonus(r) = LampBonus(Lamp(r.score, r.fb, r.fc \/ r.ab, r.ab))
    BY DEF RowLampBonus
  <2>3. QED
    BY <1>9, <2>1, <2>2, Zenon
<1>11. TechRate(c, r) <= TechRate(c, new) /\ TechRate(c, r) \in Nat /\ TechRate(c, new) \in Nat
  <2> HIDE DEF fb, fc, ab, sc, new
  <2>1. TechRate(c, new) = IF c > 0 THEN MainRate(c, sc) + RankBonus(sc) + RowLampBonus(new) ELSE 0
    BY <1>1, Zenon DEF TechRate
  <2>2. QED
    BY <1>7, <1>8, <1>10, <2>1, SMT DEF TechRate
<1>12. QED
  BY <1>6, <1>11, Zenon DEF NotLower

\* A row is not rated below itself, either.
LEMMA RowIsNotLower ==
    ASSUME NEW r, IsRow(r), NEW c \in Nat
    PROVE  NotLower(c, r, r)
<1>1. r.score \in 0..TopScore /\ r.star \in Int
      /\ r.fb \in BOOLEAN /\ r.fc \in BOOLEAN /\ r.ab \in BOOLEAN
  BY DEF IsRow
<1>2. r.score \in Int /\ 0 <= r.score /\ r.score <= TopScore /\ r.score <= r.score
  BY <1>1, TopScoreType, SMT
<1>3. MainRate(c, r.score) \in Nat /\ RankBonus(r.score) \in Nat
  BY <1>2, MainRateGrows, RankBonusGrows, Zenon
<1>4. LampBonus(Lamp(r.score, r.fb, r.fc \/ r.ab, r.ab)) \in Nat
  BY <1>1, <1>2, LampBonusGrows, Zenon
<1>5. TechRate(c, r) \in Nat
  BY <1>3, <1>4, SMT DEF TechRate, RowLampBonus
<1>6. PlatRate(c, r.star) <= PlatRate(c, r.star) /\ PlatRate(c, r.star) \in Nat
  <2>1. r.star <= r.star
    BY <1>1
  <2>2. QED
    BY <1>1, <2>1, PlatRateGrows
<1>7. QED
  BY <1>5, <1>6 DEF NotLower

\* A row of the simulation is of the same song, and rated at least as the
\* row it is of.
LEMMA SimulatedFacts ==
    ASSUME IInv, NEW i \in DOMAIN Rows(payload)
    PROVE  LET r == Rows(payload)[i]  s == Simulated(Rows(payload), scenario)[i] IN
           /\ s.key = r.key /\ s.id = r.id /\ s.const = r.const /\ s.version = r.version
           /\ {r.score, s.score, r.star, s.star} \subseteq Int
           /\ r.plat > 0 => s.plat > 0
           /\ NotLower(ResolvedConst(payload, music, r), r, s)
<1> DEFINE rows == Rows(payload)
           r == rows[i]
           c == ResolvedConst(payload, music, r)
           id == RowId(rows, i)
           s == Simulated(rows, scenario)[i]
<1>1. payload \in Payload \cup {NoPayload} /\ music \in Catalogue \cup {<< >>}
  BY DEF IInv, TypeOK
<1>2. payload \in Payload /\ IsRow(r)
  BY <1>1, RowsFacts
<1>3. IsCatalogue(music)
  <2>1. IsCatalogue(<< >>)
    BY DEF IsCatalogue, IsSequence
  <2>2. QED
    BY <1>1, <2>1, PagesAssumption
<1>4. c \in Nat
  BY <1>2, <1>3, PagesAssumption, ResolvedIsNat
<1>5. s = IF id \in DOMAIN scenario THEN Patched(r, scenario[id]) ELSE r
  BY DEF Simulated
<1>6. id \in DOMAIN scenario => scenario[id] \in PatchType
  BY TypesAndScenarios DEF Good, IsScenario
<1>7. r.score \in 0..TopScore /\ r.star \in Int /\ r.plat \in Nat
  BY <1>2 DEF IsRow
<1>8. r.score \in Int
  BY <1>7, ScoreBounds
<1> HIDE DEF rows, r, c, id, s
<1>9. CASE id \in DOMAIN scenario
  <2> DEFINE q == scenario[id]
  <2>1. q \in PatchType
    BY <1>6, <1>9
  <2>2. s = Patched(r, q)
    BY <1>5, <1>9
  <2> HIDE DEF q
  <2>3. q \in [chart : Charts, score : 0..TopScore, star : 0..5, fc : BOOLEAN, ab : BOOLEAN, fb : BOOLEAN]
    BY <2>1, PatchTypeIs
  <2>4. q.score \in 0..TopScore /\ q.star \in 0..5
    BY <2>3, Zenon
  <2>5. q.score \in Int /\ q.star \in Int
    BY <2>4, ScoreBounds
  <2>6. /\ s.score = Larger(r.score, Smaller(TopScore, q.score))
        /\ s.star = Larger(r.star, Smaller(5, AtLeastZero(q.star)))
        /\ s.key = r.key /\ s.id = r.id /\ s.const = r.const /\ s.version = r.version
        /\ r.plat > 0 => s.plat = Larger(r.plat, 1)
    BY <1>2, <2>1, <2>2, PatchedFacts, Zenon
  <2>7. s.score \in Int /\ s.star \in Int
    BY <1>7, <1>8, <2>5, <2>6, TopScoreType, SMT DEF Larger, Smaller, AtLeastZero
  <2>8. r.plat > 0 => s.plat > 0
    BY <1>7, <2>6, SMT DEF Larger
  <2>9. NotLower(c, r, s)
    BY <1>2, <1>4, <2>1, <2>2, PatchedIsNotLower, Zenon
  <2>10. QED
    BY <1>7, <1>8, <2>6, <2>7, <2>8, <2>9 DEF rows, r, c, s
<1>10. CASE id \notin DOMAIN scenario
  <2>1. s = r
    BY <1>5, <1>10
  <2>2. NotLower(c, r, r)
    BY <1>2, <1>4, RowIsNotLower
  <2>3. QED
    BY <1>7, <1>8, <2>1, <2>2 DEF rows, r, c, s
<1>11. QED
  BY <1>9, <1>10

\* Whatever the player enters, no row of the simulation is rated below the
\* row it is of (simulatedRows, and the steps of calcMainRate).
THEOREM SimulationIsNeverLower == Spec => []RowsNeverLower
<1>1. IInv => RowsNeverLower
  BY SimulatedFacts DEF RowsNeverLower, NotLower
<1>2. QED
  BY <1>1, Invariance, PTL

\* The rows that count, and what they contribute, before and after.
LEMMA SimulatedPools ==
    ASSUME IInv
    PROVE  LET rows == Rows(payload)  sim == Simulated(rows, scenario)
               tech == TechRates(payload, music, rows)  tech2 == TechRates(payload, music, sim)
               plat == PlatRates(payload, music, rows)  plat2 == PlatRates(payload, music, sim)
               out == Pools(payload, music, versions, rows)
               in == Pools(payload, music, versions, sim)
           IN  /\ /\ SumOf(tech, out.new) \in Nat /\ SumOf(tech2, in.new) \in Nat
                  /\ SumOf(tech, out.new) <= SumOf(tech2, in.new)
                  /\ out.new \subseteq in.new \/ Cardinality(in.new) = NewCount
               /\ /\ SumOf(tech, out.old) \in Nat /\ SumOf(tech2, in.old) \in Nat
                  /\ SumOf(tech, out.old) <= SumOf(tech2, in.old)
                  /\ out.old \subseteq in.old \/ Cardinality(in.old) = OldCount
               /\ /\ SumOf(plat, out.plat) \in Nat /\ SumOf(plat2, in.plat) \in Nat
                  /\ SumOf(plat, out.plat) <= SumOf(plat2, in.plat)
                  /\ out.plat \subseteq in.plat \/ Cardinality(in.plat) = PlatCount
<1> DEFINE rows == Rows(payload)
           sim == Simulated(rows, scenario)
           D == DOMAIN rows
           tech == TechRates(payload, music, rows)
           tech2 == TechRates(payload, music, sim)
           plat == PlatRates(payload, music, rows)
           plat2 == PlatRates(payload, music, sim)
           score == [i \in D |-> rows[i].score]
           score2 == [i \in D |-> sim[i].score]
           star == [i \in D |-> rows[i].star]
           star2 == [i \in D |-> sim[i].star]
           new == {i \in D : IsNewRow(payload, music, versions, rows[i])}
           held == {i \in D : rows[i].plat > 0}
           held2 == {i \in D : sim[i].plat > 0}
           out == Pools(payload, music, versions, rows)
           in == Pools(payload, music, versions, sim)
<1>1. IsFiniteSet(D) /\ D \subseteq Nat
  <2>1. Len(rows) \in Nat /\ D = 1..Len(rows)
    BY RowsFacts DEF IInv, TypeOK, IsSequence
  <2>2. IsFiniteSet(1..Len(rows)) /\ 1..Len(rows) \subseteq Nat
    BY <2>1, FS_Interval
  <2>3. QED
    BY <2>1, <2>2
<1>2. DOMAIN sim = D
  BY DEF Simulated
<1>3. ASSUME NEW i \in D
      PROVE  /\ sim[i].key = rows[i].key /\ sim[i].id = rows[i].id
             /\ sim[i].const = rows[i].const /\ sim[i].version = rows[i].version
             /\ {rows[i].score, sim[i].score, rows[i].star, sim[i].star} \subseteq Int
             /\ rows[i].plat > 0 => sim[i].plat > 0
             /\ NotLower(ResolvedConst(payload, music, rows[i]), rows[i], sim[i])
  BY SimulatedFacts
<1> HIDE DEF rows, sim
<1>4. /\ tech = [i \in D |-> TechRate(ResolvedConst(payload, music, rows[i]), rows[i])]
      /\ tech2 = [i \in D |-> TechRate(ResolvedConst(payload, music, sim[i]), sim[i])]
      /\ plat = [i \in D |-> PlatRate(ResolvedConst(payload, music, rows[i]), rows[i].star)]
      /\ plat2 = [i \in D |-> PlatRate(ResolvedConst(payload, music, sim[i]), sim[i].star)]
  BY <1>2 DEF TechRates, PlatRates, Field
<1>5. /\ out = [new |-> Top(new, NewCount, tech, score), old |-> Top(D \ new, OldCount, tech, score),
                plat |-> Top(held, PlatCount, plat, star)]
      /\ in = [new |-> Top({i \in D : IsNewRow(payload, music, versions, sim[i])}, NewCount, tech2, score2),
               old |-> Top(D \ {i \in D : IsNewRow(payload, music, versions, sim[i])}, OldCount, tech2, score2),
               plat |-> Top(held2, PlatCount, plat2, star2)]
  BY <1>2 DEF Pools, Field
<1> HIDE DEF tech, tech2, plat, plat2, out, in, D
<1>6. \A i \in D : /\ ResolvedConst(payload, music, sim[i]) = ResolvedConst(payload, music, rows[i])
                   /\ IsNewRow(payload, music, versions, sim[i])
                          = IsNewRow(payload, music, versions, rows[i])
  BY <1>3 DEF ResolvedConst, IsNewRow, CatalogVersion
<1>7. new = {i \in D : IsNewRow(payload, music, versions, sim[i])}
  BY <1>6
<1>8. \A i \in D : /\ tech[i] \in Nat /\ tech2[i] \in Nat /\ tech[i] <= tech2[i]
                   /\ plat[i] \in Nat /\ plat2[i] \in Nat /\ plat[i] <= plat2[i]
                   /\ {score[i], score2[i], star[i], star2[i]} \subseteq Int
  BY <1>3, <1>4, <1>6 DEF NotLower
<1>9. held \subseteq held2 /\ held2 \subseteq D
  BY <1>3
<1> HIDE DEF new, held, held2, score, score2, star, star2
<1>10. ASSUME NEW P \in SUBSET D
       PROVE  /\ Ranked(P, tech, score) /\ Ranked(P, tech2, score2)
              /\ Ranked(P, plat, star) /\ Ranked(P, plat2, star2)
  BY <1>1, <1>8, FS_Subset DEF Ranked
<1>11. NewCount \in Nat /\ OldCount \in Nat /\ PlatCount \in Nat
  BY CountsAssumption
<1>12. ASSUME NEW P \in SUBSET D, NEW count \in Nat
       PROVE  LET a == Top(P, count, tech, score)  b == Top(P, count, tech2, score2) IN
              /\ SumOf(tech, a) \in Nat /\ SumOf(tech2, b) \in Nat
              /\ SumOf(tech, a) <= SumOf(tech2, b)
              /\ a \subseteq b \/ Cardinality(b) = count
  <2>1. Ranked(P, tech, score) /\ Ranked(P, tech2, score2) /\ \A i \in P : tech[i] <= tech2[i]
    BY <1>8, <1>10
  <2>2. QED
    BY <2>1, TopGrows
<1>13. LET a == Top(held, PlatCount, plat, star)  b == Top(held2, PlatCount, plat2, star2) IN
       /\ SumOf(plat, a) \in Nat /\ SumOf(plat2, b) \in Nat
       /\ SumOf(plat, a) <= SumOf(plat2, b)
       /\ a \subseteq b \/ Cardinality(b) = PlatCount
  <2>1. Ranked(held, plat, star) /\ Ranked(held2, plat2, star2) /\ \A i \in held : plat[i] <= plat2[i]
    BY <1>8, <1>9, <1>10
  <2>2. QED
    BY <1>9, <1>11, <2>1, TopGrows
<1>14. /\ out.new = Top(new, NewCount, tech, score) /\ in.new = Top(new, NewCount, tech2, score2)
       /\ out.old = Top(D \ new, OldCount, tech, score) /\ in.old = Top(D \ new, OldCount, tech2, score2)
       /\ out.plat = Top(held, PlatCount, plat, star) /\ in.plat = Top(held2, PlatCount, plat2, star2)
  BY <1>5, <1>7
<1>15. new \in SUBSET D /\ D \ new \in SUBSET D
  BY DEF new
<1>16. /\ SumOf(tech, out.new) \in Nat /\ SumOf(tech2, in.new) \in Nat
       /\ SumOf(tech, out.new) <= SumOf(tech2, in.new)
       /\ out.new \subseteq in.new \/ Cardinality(in.new) = NewCount
  BY <1>11, <1>12, <1>14, <1>15
<1>17. /\ SumOf(tech, out.old) \in Nat /\ SumOf(tech2, in.old) \in Nat
       /\ SumOf(tech, out.old) <= SumOf(tech2, in.old)
       /\ out.old \subseteq in.old \/ Cardinality(in.old) = OldCount
  BY <1>11, <1>12, <1>14, <1>15
<1>18. QED
  BY <1>13, <1>14, <1>16, <1>17 DEF tech, tech2, plat, plat2, out, in, rows, sim

\* No contribution of the simulation is lower than before, and a row leaves a
\* pool only when that is full (calcTotalRating, targetDiff).
THEOREM TotalsAreNeverLower == Spec => []TotalsNeverLower
<1>1. IInv => TotalsNeverLower
  <2> SUFFICES ASSUME IInv PROVE TotalsNeverLower
    OBVIOUS
  <2> DEFINE rows == Rows(payload)
             sim == Simulated(rows, scenario)
             tech == TechRates(payload, music, rows)
             tech2 == TechRates(payload, music, sim)
             plat == PlatRates(payload, music, rows)
             plat2 == PlatRates(payload, music, sim)
             out == Pools(payload, music, versions, rows)
             in == Pools(payload, music, versions, sim)
             before == Summary(payload, music, versions, rows)
             after == Summary(payload, music, versions, sim)
             size == [new |-> NewCount, old |-> OldCount, plat |-> PlatCount]
  <2>1. /\ before = Contributions(out, tech, plat, 1)
        /\ after = Contributions(in, tech2, plat2, 1)
    BY DEF Summary
  <2>2. /\ SumOf(tech, out.new) \in Nat /\ SumOf(tech2, in.new) \in Nat
        /\ SumOf(tech, out.new) <= SumOf(tech2, in.new)
        /\ out.new \subseteq in.new \/ Cardinality(in.new) = NewCount
    BY SimulatedPools
  <2>3. /\ SumOf(tech, out.old) \in Nat /\ SumOf(tech2, in.old) \in Nat
        /\ SumOf(tech, out.old) <= SumOf(tech2, in.old)
        /\ out.old \subseteq in.old \/ Cardinality(in.old) = OldCount
    BY SimulatedPools
  <2>4. /\ SumOf(plat, out.plat) \in Nat /\ SumOf(plat2, in.plat) \in Nat
        /\ SumOf(plat, out.plat) <= SumOf(plat2, in.plat)
        /\ out.plat \subseteq in.plat \/ Cardinality(in.plat) = PlatCount
    BY SimulatedPools
  <2> HIDE DEF rows, sim, tech, tech2, plat, plat2, out, in, before, after
  <2>5. /\ NewCount * 5 * 1 \in Nat /\ NewCount * 5 * 1 > 0 /\ OldCount * 1 \in Nat /\ OldCount * 1 > 0
        /\ PlatCount \in Nat /\ PlatCount > 0
    BY CountsAssumption
  <2>6. before.new <= after.new
    <3>1. before.new = SumOf(tech, out.new) \div (NewCount * 5 * 1)
      BY <2>1 DEF Contributions
    <3>2. after.new = SumOf(tech2, in.new) \div (NewCount * 5 * 1)
      BY <2>1 DEF Contributions
    <3> DEFINE d == NewCount * 5 * 1
    <3>3. d \in Nat /\ d > 0
      BY <2>5
    <3> HIDE DEF d
    <3>4. SumOf(tech, out.new) \div d <= SumOf(tech2, in.new) \div d
      BY <2>2, <3>3, QuotientGrows
    <3>5. QED
      BY <3>1, <3>2, <3>4 DEF d
  <2>7. before.old <= after.old
    <3>1. before.old = SumOf(tech, out.old) \div (OldCount * 1)
      BY <2>1 DEF Contributions
    <3>2. after.old = SumOf(tech2, in.old) \div (OldCount * 1)
      BY <2>1 DEF Contributions
    <3> DEFINE d == OldCount * 1
    <3>3. d \in Nat /\ d > 0
      BY <2>5
    <3> HIDE DEF d
    <3>4. SumOf(tech, out.old) \div d <= SumOf(tech2, in.old) \div d
      BY <2>3, <3>3, QuotientGrows
    <3>5. QED
      BY <3>1, <3>2, <3>4 DEF d
  <2>8. before.plat <= after.plat
    <3>1. /\ before.plat = SumOf(plat, out.plat) \div PlatCount
          /\ after.plat = SumOf(plat2, in.plat) \div PlatCount
      BY <2>1 DEF Contributions
    <3>2. QED
      BY <2>4, <2>5, <3>1, QuotientGrows
  <2>9. \A f \in {"new", "old", "plat"} :
           before[f] <= after[f] /\ (out[f] \subseteq in[f] \/ Cardinality(in[f]) = size[f])
    BY <2>2, <2>3, <2>4, <2>6, <2>7, <2>8
  <2>10. DOMAIN size = {"new", "old", "plat"}
    OBVIOUS
  <2>11. QED
    BY <2>9, <2>10 DEF TotalsNeverLower, rows, sim, out, in, before, after
<1>2. QED
  BY <1>1, Invariance, PTL

-----------------------------------------------------------------------------
(* The targets. *)

\* The server does not cut a rate to thousandths where the page does.
LEMMA RatesAgree ==
    ASSUME NEW r, IsRow(r), NEW c \in Nat, c > 0
    PROVE  /\ TechRate(c, r) \in Nat /\ ServerTechRate(c, r) \in Nat
           /\ Fine * TechRate(c, r) <= ServerTechRate(c, r)
           /\ ServerTechRate(c, r) <= Fine * TechRate(c, r) + (Fine - 1)
<1>1. r.score \in 0..TopScore /\ r.star \in Int
      /\ r.fb \in BOOLEAN /\ r.fc \in BOOLEAN /\ r.ab \in BOOLEAN
  BY DEF IsRow
<1>2. r.score \in Int /\ 0 <= r.score /\ r.score <= TopScore /\ r.score <= r.score
  BY <1>1, TopScoreType, SMT
<1>3. MainRate(c, r.score) \in Nat /\ RankBonus(r.score) \in Nat
  BY <1>2, MainRateGrows, RankBonusGrows, Zenon
<1>4. RowLampBonus(r) \in Nat
  <2>1. LampBonus(Lamp(r.score, r.fb, r.fc \/ r.ab, r.ab)) \in Nat
    BY <1>1, <1>2, LampBonusGrows, Zenon
  <2>2. QED
    BY <2>1 DEF RowLampBonus
<1>5. ASSUME NEW t \in Int, 0 <= t, t <= TopScore
      PROVE  /\ ServerMainRate(c, t) \in Int
             /\ Fine * MainRate(c, t) <= ServerMainRate(c, t)
             /\ ServerMainRate(c, t) <= Fine * MainRate(c, t) + (Fine - 1)
  BY <1>5, TopScoreValue, SMTT(60) DEF MainRate, ServerMainRate, AtLeastZero, Fine
<1>6. /\ ServerMainRate(c, r.score) \in Int
      /\ Fine * MainRate(c, r.score) <= ServerMainRate(c, r.score)
      /\ ServerMainRate(c, r.score) <= Fine * MainRate(c, r.score) + (Fine - 1)
  BY <1>2, <1>5, Zenon
<1>7. QED
  BY <1>3, <1>4, <1>6, SMT DEF TechRate, ServerTechRate, Fine

\* What is picked at the places T is among what is picked at the places S,
\* and the rest of the latter is at places in S only.
KeptAmong(s, T, S) ==
    \E e \in Injection(DOMAIN Picked(s, T), DOMAIN Picked(s, S)) :
       /\ \A k \in DOMAIN Picked(s, T) : Picked(s, T)[k] = Picked(s, S)[e[k]]
       /\ \A i \in DOMAIN Picked(s, S) : \/ \E k \in DOMAIN Picked(s, T) : e[k] = i
                                        \/ \E j \in S \ T : Picked(s, S)[i] = s[j]

LEMMA PickedWithin ==
    ASSUME NEW n \in Nat, NEW S, S \subseteq 1..n, NEW T, T \subseteq S, NEW s
    PROVE  KeptAmong(s, T, S)
<1> DEFINE A == 1..Cardinality(T)
           B == 1..Cardinality(S)
           e == [k \in A |-> CHOOSE i \in B : Nth(S, i) = Nth(T, k)]
<1>1. /\ \A k \in A : Nth(T, k) \in T
      /\ \A j \in T : \E k \in A : Nth(T, k) = j
      /\ \A k, l \in A : Nth(T, k) = Nth(T, l) => k = l
  <2>1. T \subseteq 1..n
    OBVIOUS
  <2>2. QED
    BY <2>1, NthExists
<1>2. /\ \A i \in B : Nth(S, i) \in S
      /\ \A j \in S : \E i \in B : Nth(S, i) = j
      /\ \A i, j \in B : Nth(S, i) = Nth(S, j) => i = j
  BY NthExists
<1>3. Picked(s, T) = [k \in A |-> s[Nth(T, k)]] /\ Picked(s, S) = [i \in B |-> s[Nth(S, i)]]
  BY DEF Picked
<1> HIDE DEF A, B
<1>4. \A k \in A : e[k] \in B /\ Nth(S, e[k]) = Nth(T, k)
  <2> TAKE k \in A
  <2>1. \E i \in B : Nth(S, i) = Nth(T, k)
    BY <1>1, <1>2
  <2>2. QED
    BY <2>1
<1>5. e \in [A -> B]
  BY <1>4
<1> HIDE DEF e
<1>6. \A k, l \in A : e[k] = e[l] => k = l
  BY <1>1, <1>4
<1>7. e \in Injection(A, B)
  BY <1>5, <1>6, Fun_IsInj
<1>8. \A k \in A : Picked(s, T)[k] = Picked(s, S)[e[k]]
  BY <1>3, <1>4
<1>9. ASSUME NEW i \in B, Nth(S, i) \in T PROVE \E k \in A : e[k] = i
  <2>1. PICK k \in A : Nth(T, k) = Nth(S, i)
    BY <1>1, <1>9
  <2>2. QED
    BY <1>2, <1>4, <2>1
<1>10. ASSUME NEW i \in B, Nth(S, i) \notin T PROVE \E j \in S \ T : Picked(s, S)[i] = s[j]
  BY <1>2, <1>3, <1>10
<1>11. DOMAIN Picked(s, T) = A /\ DOMAIN Picked(s, S) = B
  BY <1>3
<1>12. QED
  BY <1>7, <1>8, <1>9, <1>10, <1>11 DEF KeptAmong

\* Quotients of sums that agree to less than one unit for each row.
LEMMA QuotientsAgree ==
    ASSUME NEW a \in Nat, NEW b \in Nat, NEW d \in Nat, d > 0, NEW count \in Nat, count <= d,
           Fine * a <= b, b <= Fine * a + (Fine - 1) * count
    PROVE  Apart(a \div d, b \div (d * Fine)) <= 1
<1> DEFINE q == a \div d
           x == d * q
           m == b \div (d * Fine)
<1>1. q \in Nat /\ x \in Nat /\ x <= a /\ a <= x + d - 1
  OBVIOUS
<1>2. Fine * x <= b /\ b < Fine * x + 2 * (Fine * d)
  <2> HIDE DEF x, q
  <2>1. QED
    BY <1>1 DEF Fine
<1>3. d * Fine \in Nat /\ d * Fine > 0
  BY DEF Fine
<1>4. m \in Nat /\ (d * Fine) * m <= b /\ b < (d * Fine) * (m + 1)
  <2> DEFINE D == d * Fine
  <2>1. D \in Nat /\ D > 0
    BY <1>3
  <2> HIDE DEF D
  <2>2. b \div D \in Nat /\ D * (b \div D) <= b /\ b < D * ((b \div D) + 1)
    BY <2>1
  <2>3. QED
    BY <2>2 DEF D
<1>5. Fine * x = (d * Fine) * q
  <2> HIDE DEF q
  <2>1. QED
    BY <1>1 DEF Fine
<1> DEFINE D == d * Fine
<1>6. D \in Nat /\ D > 0 /\ D * q <= b /\ b < D * q + 2 * D /\ D * m <= b /\ b < D * (m + 1)
  BY <1>2, <1>3, <1>4, <1>5 DEF Fine
<1> HIDE DEF D, q, x, m
<1>7. q <= m
  BY <1>1, <1>4, <1>6
<1>8. m <= q + 1
  BY <1>1, <1>4, <1>6
<1>9. QED
  BY <1>1, <1>4, <1>7, <1>8 DEF Apart, q, m

\* The lists of the server are of the rows of the page that have a constant.
LEMMA ServerRowsFacts ==
    ASSUME NEW p \in Payload, NEW cat \in Catalogue, NEW ns, SameFound(p, cat, ns)
    PROVE  \E e \in Injection(DOMAIN ServerRows(p, cat), DOMAIN Rows(p)) :
              /\ \A k \in DOMAIN ServerRows(p, cat) :
                    /\ ServerRows(p, cat)[k] = Rows(p)[e[k]]
                    /\ ServerConst(p, cat, Rows(p)[e[k]]) > 0
              /\ \A i \in DOMAIN Rows(p) : \/ \E k \in DOMAIN ServerRows(p, cat) : e[k] = i
                                           \/ ~(ServerConst(p, cat, Rows(p)[i]) > 0)
<1> DEFINE s == p.rows
           n == Len(s)
           S == {i \in DOMAIN s : ~IsBonus(p, s[i])}
           T == {i \in DOMAIN s : ~ServerIsBonus(p, cat, s[i]) /\ ServerConst(p, cat, s[i]) > 0}
<1>1. n \in Nat /\ DOMAIN s = 1..n /\ p # NoPayload
  BY PagesAssumption DEF IsSequence
<1>2. Rows(p) = Picked(s, S)
  BY <1>1 DEF Rows
<1>3. ServerRows(p, cat) = Picked(s, T)
  BY <1>1 DEF ServerRows
<1>4. \A i \in DOMAIN s : ServerConst(p, cat, s[i]) > 0 =>
         (IsBonus(p, s[i]) <=> ServerIsBonus(p, cat, s[i]))
  BY DEF SameFound
<1>5. T \subseteq S /\ S \subseteq 1..n /\ \A j \in S \ T : ~(ServerConst(p, cat, s[j]) > 0)
  BY <1>1, <1>4
<1>6. \A j \in T : ServerConst(p, cat, s[j]) > 0
  OBVIOUS
<1> HIDE DEF n, s, S, T
<1>7. PICK e \in Injection(DOMAIN Picked(s, T), DOMAIN Picked(s, S)) :
              /\ \A k \in DOMAIN Picked(s, T) : Picked(s, T)[k] = Picked(s, S)[e[k]]
              /\ \A i \in DOMAIN Picked(s, S) : \/ \E k \in DOMAIN Picked(s, T) : e[k] = i
                                               \/ \E j \in S \ T : Picked(s, S)[i] = s[j]
  <2>1. n \in Nat /\ S \subseteq 1..n /\ T \subseteq S
    BY <1>1, <1>5
  <2>2. QED
    <3>1. KeptAmong(s, T, S)
      BY <2>1, PickedWithin
    <3>2. QED
      BY <3>1 DEF KeptAmong
<1>8. \A k \in DOMAIN Picked(s, T) : \E j \in T : Picked(s, T)[k] = s[j]
  <2>1. T \subseteq 1..n
    BY <1>5
  <2>2. IsPicked(Picked(s, T), s, T)
    BY <1>1, <2>1, PickedFacts
  <2>3. QED
    BY <2>2 DEF IsPicked
<1>9. ASSUME NEW k \in DOMAIN Picked(s, T)
      PROVE  Picked(s, T)[k] = Picked(s, S)[e[k]] /\ ServerConst(p, cat, Picked(s, S)[e[k]]) > 0
  <2>1. PICK j \in T : Picked(s, T)[k] = s[j]
    BY <1>8
  <2>2. Picked(s, S)[e[k]] = s[j]
    BY <1>7, <2>1
  <2>3. QED
    BY <1>6, <2>1, <2>2
<1>10. ASSUME NEW i \in DOMAIN Picked(s, S), ~\E k \in DOMAIN Picked(s, T) : e[k] = i
       PROVE  ~(ServerConst(p, cat, Picked(s, S)[i]) > 0)
  <2>1. PICK j \in S \ T : Picked(s, S)[i] = s[j]
    BY <1>7, <1>10
  <2>2. QED
    BY <1>5, <2>1
<1>11. QED
  BY <1>2, <1>3, <1>7, <1>9, <1>10

LEMMA PoolsAgree ==
    ASSUME NEW p \in Payload, NEW cat \in Catalogue, NEW ns, SameFound(p, cat, ns)
    PROVE  LET rows == Rows(p)  listed == ServerRows(p, cat)
               pools == Pools(p, cat, ns, rows)  lists == ServerPools(p, cat, ns, listed)
               a(S) == SumOf(TechRates(p, cat, rows), S)
               b(S) == SumOf(ServerTechRates(p, cat, listed), S)
               c(S) == SumOf(PlatRates(p, cat, rows), S)
               d(S) == SumOf(ServerPlatRates(p, cat, listed), S)
           IN  /\ /\ a(pools.new) \in Nat /\ b(lists.new) \in Nat
                  /\ Fine * a(pools.new) <= b(lists.new)
                  /\ b(lists.new) <= Fine * a(pools.new) + (Fine - 1) * NewCount
               /\ /\ a(pools.old) \in Nat /\ b(lists.old) \in Nat
                  /\ Fine * a(pools.old) <= b(lists.old)
                  /\ b(lists.old) <= Fine * a(pools.old) + (Fine - 1) * OldCount
               /\ c(pools.plat) \in Nat /\ c(pools.plat) = d(lists.plat)
<1> DEFINE rows == Rows(p)
           listed == ServerRows(p, cat)
           D == DOMAIN rows
           E == DOMAIN listed
           tech == TechRates(p, cat, rows)
           fine == ServerTechRates(p, cat, listed)
           plat == PlatRates(p, cat, rows)
           plat2 == ServerPlatRates(p, cat, listed)
           score == [i \in D |-> rows[i].score]
           score2 == [k \in E |-> listed[k].score]
           star == [i \in D |-> rows[i].star]
           star2 == [k \in E |-> listed[k].star]
           new == {i \in D : IsNewRow(p, cat, ns, rows[i])}
           new2 == {k \in E : IsNewSong(listed[k].version, ServerVersion(p, cat, listed[k]), ns)}
           held == {i \in D : rows[i].plat > 0}
           held2 == {k \in E : listed[k].plat > 0}
           pools == Pools(p, cat, ns, rows)
           lists == ServerPools(p, cat, ns, listed)
<1>1. PICK e \in Injection(E, D) :
              /\ \A k \in E : listed[k] = rows[e[k]] /\ ServerConst(p, cat, rows[e[k]]) > 0
              /\ \A i \in D : (\E k \in E : e[k] = i) \/ ~(ServerConst(p, cat, rows[i]) > 0)
  BY ServerRowsFacts
<1>2. e \in [E -> D] /\ \A k, l \in E : e[k] = e[l] => k = l
  BY <1>1, Fun_InjectionProperties
<1>3. IsCatalogue(cat) /\ IsCatalogue(p.catalog)
  BY PagesAssumption
<1>4. \A i \in D : IsRow(rows[i])
  BY RowsFacts
<1>5. IsFiniteSet(D) /\ D \subseteq Nat
  <2>1. Len(rows) \in Nat /\ D = 1..Len(rows)
    BY RowsFacts DEF IsSequence
  <2>2. IsFiniteSet(1..Len(rows)) /\ 1..Len(rows) \subseteq Nat
    BY <2>1, FS_Interval
  <2>3. QED
    BY <2>1, <2>2
<1>6. IsFiniteSet(E) /\ E \subseteq Nat
  <2>1. IsFiniteSet(E)
    <3> HIDE DEF E, D
    <3>1. QED
      BY <1>1, <1>5, FS_Injection
  <2>2. E \subseteq Nat
    <3>1. listed = Picked(p.rows, {i \in DOMAIN p.rows :
                                     /\ ~ServerIsBonus(p, cat, p.rows[i])
                                     /\ ServerConst(p, cat, p.rows[i]) > 0})
      BY PagesAssumption DEF ServerRows
    <3>2. \A S : DOMAIN Picked(p.rows, S) \subseteq Nat
      BY DEF Picked
    <3> HIDE DEF listed
    <3>3. QED
      BY <3>1, <3>2
  <2>3. QED
    BY <2>1, <2>2
<1>7. \A i \in D : /\ ServerConst(p, cat, rows[i]) = ResolvedConst(p, cat, rows[i])
                   /\ IsNewRow(p, cat, ns, rows[i])
                        <=> IsNewSong(rows[i].version, ServerVersion(p, cat, rows[i]), ns)
  BY DEF SameFound
<1>8. \A i \in D : ResolvedConst(p, cat, rows[i]) \in Nat
  BY <1>3, <1>4, ResolvedIsNat
<1> HIDE DEF rows, listed
<1>9. /\ tech = [i \in D |-> TechRate(ResolvedConst(p, cat, rows[i]), rows[i])]
      /\ fine = [k \in E |-> ServerTechRate(ServerConst(p, cat, listed[k]), listed[k])]
      /\ plat = [i \in D |-> PlatRate(ResolvedConst(p, cat, rows[i]), rows[i].star)]
      /\ plat2 = [k \in E |-> PlatRate(ServerConst(p, cat, listed[k]), listed[k].star)]
  BY DEF TechRates, PlatRates, ServerTechRates, ServerPlatRates, Field
<1>10. /\ pools = [new |-> Top(new, NewCount, tech, score), old |-> Top(D \ new, OldCount, tech, score),
                   plat |-> Top(held, PlatCount, plat, star)]
       /\ lists = [new |-> Top(new2, NewCount, fine, score2), old |-> Top(E \ new2, OldCount, fine, score2),
                   plat |-> Top(held2, PlatCount, plat2, star2)]
  BY DEF Pools, ServerPools, Field
<1> HIDE DEF tech, fine, plat, plat2, pools, lists, D, E
<1>11. ASSUME NEW i \in D
       PROVE  /\ tech[i] \in Nat /\ plat[i] \in Nat /\ score[i] \in Int /\ star[i] \in Int
              /\ ~(ServerConst(p, cat, rows[i]) > 0) => tech[i] = 0 /\ plat[i] = 0
  <2>1. NotLower(ResolvedConst(p, cat, rows[i]), rows[i], rows[i])
    BY <1>4, <1>8, RowIsNotLower
  <2>2. rows[i].score \in Int /\ rows[i].star \in Int
    <3>1. rows[i].score \in 0..TopScore /\ rows[i].star \in Int
      BY <1>4 DEF IsRow
    <3>2. QED
      BY <3>1, ScoreBounds
  <2>3. ~(ResolvedConst(p, cat, rows[i]) > 0) =>
           TechRate(ResolvedConst(p, cat, rows[i]), rows[i]) = 0
           /\ PlatRate(ResolvedConst(p, cat, rows[i]), rows[i].star) = 0
    BY DEF TechRate, PlatRate
  <2>4. QED
    BY <1>7, <1>9, <2>1, <2>2, <2>3 DEF NotLower
<1>12. ASSUME NEW k \in E
       PROVE  /\ e[k] \in D /\ tech[e[k]] \in Nat /\ plat[e[k]] \in Nat
              /\ fine[k] \in Nat /\ Fine * tech[e[k]] <= fine[k] /\ fine[k] <= Fine * tech[e[k]] + (Fine - 1)
              /\ plat2[k] = plat[e[k]]
              /\ score2[k] \in Int /\ star2[k] \in Int
              /\ k \in new2 <=> e[k] \in new
              /\ k \in held2 <=> e[k] \in held
  <2> DEFINE r == rows[e[k]]
             c == ResolvedConst(p, cat, r)
  <2>1. e[k] \in D /\ listed[k] = r /\ IsRow(r) /\ c \in Nat /\ c > 0 /\ ServerConst(p, cat, r) = c
    BY <1>1, <1>2, <1>4, <1>7, <1>8
  <2>2. tech[e[k]] = TechRate(c, r) /\ fine[k] = ServerTechRate(c, r)
        /\ plat[e[k]] = PlatRate(c, r.star) /\ plat2[k] = PlatRate(c, r.star)
    BY <1>9, <2>1
  <2>3. /\ TechRate(c, r) \in Nat /\ ServerTechRate(c, r) \in Nat
        /\ Fine * TechRate(c, r) <= ServerTechRate(c, r)
        /\ ServerTechRate(c, r) <= Fine * TechRate(c, r) + (Fine - 1)
    <3> HIDE DEF r, c
    <3>1. QED
      BY <2>1, RatesAgree
  <2>4. score2[k] = score[e[k]] /\ star2[k] = star[e[k]]
    BY <2>1
  <2>5. (k \in new2 <=> e[k] \in new) /\ (k \in held2 <=> e[k] \in held)
    BY <1>7, <2>1
  <2>6. score[e[k]] \in Int /\ star[e[k]] \in Int /\ plat[e[k]] \in Nat
    BY <1>11, <2>1
  <2> HIDE DEF r, c, score, score2, star, star2, new, new2, held, held2
  <2>7. QED
    BY <2>1, <2>2, <2>3, <2>4, <2>5, <2>6
<1> HIDE DEF score, score2, star, star2
<1>13. ASSUME NEW P \in SUBSET D, NEW Q \in SUBSET E, \A k \in E : k \in Q <=> e[k] \in P, NEW count \in Nat
       PROVE  LET x == SumOf(tech, Top(P, count, tech, score))
                  y == SumOf(fine, Top(Q, count, fine, score2))
                  v == SumOf(plat, Top(P, count, plat, star))
                  w == SumOf(plat2, Top(Q, count, plat2, star2))
              IN  /\ x \in Nat /\ y \in Nat /\ Fine * x <= y /\ y <= Fine * x + (Fine - 1) * count
                  /\ v \in Nat /\ v = w
  <2> DEFINE h == [k \in Q |-> e[k]]
  <2>1. h \in [Q -> P] /\ \A k, l \in Q : h[k] = h[l] => k = l
    BY <1>2, <1>13
  <2>2. \A k \in Q : h[k] = e[k]
    OBVIOUS
  <2> HIDE DEF h
  <2>3. h \in Injection(Q, P)
    BY <2>1, Fun_IsInj
  <2>4. /\ Ranked(P, tech, score) /\ Ranked(Q, fine, score2)
        /\ Ranked(P, plat, star) /\ Ranked(Q, plat2, star2)
    <3>1. IsFiniteSet(P) /\ IsFiniteSet(Q) /\ P \subseteq Nat /\ Q \subseteq Nat
      BY <1>5, <1>6, FS_Subset
    <3>2. \A i \in P : tech[i] \in Nat /\ plat[i] \in Nat /\ score[i] \in Int /\ star[i] \in Int
      BY <1>11
    <3>3. \A k \in Q : fine[k] \in Nat /\ plat2[k] \in Nat /\ score2[k] \in Int /\ star2[k] \in Int
      BY <1>12
    <3>4. QED
      BY <3>1, <3>2, <3>3 DEF Ranked
  <2>5. \A i \in P : (\E k \in Q : h[k] = i) \/ (tech[i] = 0 /\ plat[i] = 0)
    BY <1>1, <1>11, <1>13, <2>2
  <2>6. \A k \in Q : Fine * tech[h[k]] <= fine[k] /\ fine[k] <= Fine * tech[h[k]] + (Fine - 1)
    BY <1>12, <2>2
  <2>7. \A k \in Q : 1 * plat[h[k]] <= plat2[k] /\ plat2[k] <= 1 * plat[h[k]] + (1 - 1)
    BY <1>12, <2>2
  <2> DEFINE x == SumOf(tech, Top(P, count, tech, score))
             y == SumOf(fine, Top(Q, count, fine, score2))
             v == SumOf(plat, Top(P, count, plat, star))
             w == SumOf(plat2, Top(Q, count, plat2, star2))
  <2>8. x \in Nat /\ y \in Nat /\ Fine * x <= y /\ y <= Fine * x + (Fine - 1) * count
    <3> DEFINE unit == Fine
    <3>1. unit \in {1, Fine}
      OBVIOUS
    <3> HIDE DEF unit
    <3>2. \A k \in Q : unit * tech[h[k]] <= fine[k] /\ fine[k] <= unit * tech[h[k]] + (unit - 1)
      BY <2>6 DEF unit
    <3>3. \A i \in P : (\E k \in Q : h[k] = i) \/ tech[i] = 0
      BY <2>5
    <3>4. x \in Nat /\ y \in Nat /\ unit * x <= y /\ y <= unit * x + (unit - 1) * count
      BY <2>3, <2>4, <3>1, <3>2, <3>3, TopsAgree
    <3>5. QED
      BY <3>4 DEF unit
  <2>9. v \in Nat /\ w \in Nat /\ 1 * v <= w /\ w <= 1 * v + (1 - 1) * count
    <3> DEFINE unit == 1
    <3>1. unit \in {1, Fine}
      OBVIOUS
    <3> HIDE DEF unit
    <3>2. \A k \in Q : unit * plat[h[k]] <= plat2[k] /\ plat2[k] <= unit * plat[h[k]] + (unit - 1)
      BY <2>7 DEF unit
    <3>3. \A i \in P : (\E k \in Q : h[k] = i) \/ plat[i] = 0
      BY <2>5
    <3>4. v \in Nat /\ w \in Nat /\ unit * v <= w /\ w <= unit * v + (unit - 1) * count
      BY <2>3, <2>4, <3>1, <3>2, <3>3, TopsAgree
    <3>5. QED
      BY <3>4 DEF unit
  <2> HIDE DEF x, y, v, w
  <2>10. v = w
    BY <2>9
  <2>11. QED
    BY <2>8, <2>9, <2>10 DEF x, y, v, w
<1>14. NewCount \in Nat /\ OldCount \in Nat /\ PlatCount \in Nat
  BY CountsAssumption
<1>15. /\ new \in SUBSET D /\ D \ new \in SUBSET D /\ held \in SUBSET D
       /\ new2 \in SUBSET E /\ E \ new2 \in SUBSET E /\ held2 \in SUBSET E
  OBVIOUS
<1> HIDE DEF new, new2, held, held2
<1>16. /\ \A k \in E : k \in new2 <=> e[k] \in new
       /\ \A k \in E : k \in E \ new2 <=> e[k] \in D \ new
       /\ \A k \in E : k \in held2 <=> e[k] \in held
  BY <1>12
<1> DEFINE a(S) == SumOf(tech, S)
           b(S) == SumOf(fine, S)
           c(S) == SumOf(plat, S)
           d(S) == SumOf(plat2, S)
<1>17. /\ a(pools.new) \in Nat /\ b(lists.new) \in Nat
       /\ Fine * a(pools.new) <= b(lists.new)
       /\ b(lists.new) <= Fine * a(pools.new) + (Fine - 1) * NewCount
  <2>1. pools.new = Top(new, NewCount, tech, score) /\ lists.new = Top(new2, NewCount, fine, score2)
    BY <1>10
  <2>2. QED
    BY <1>13, <1>14, <1>15, <1>16, <2>1
<1>18. /\ a(pools.old) \in Nat /\ b(lists.old) \in Nat
       /\ Fine * a(pools.old) <= b(lists.old)
       /\ b(lists.old) <= Fine * a(pools.old) + (Fine - 1) * OldCount
  <2>1. pools.old = Top(D \ new, OldCount, tech, score) /\ lists.old = Top(E \ new2, OldCount, fine, score2)
    BY <1>10
  <2>2. QED
    BY <1>13, <1>14, <1>15, <1>16, <2>1
<1>19. c(pools.plat) \in Nat /\ c(pools.plat) = d(lists.plat)
  <2>1. pools.plat = Top(held, PlatCount, plat, star) /\ lists.plat = Top(held2, PlatCount, plat2, star2)
    BY <1>10
  <2>2. /\ SumOf(plat, Top(held, PlatCount, plat, star)) \in Nat
        /\ SumOf(plat, Top(held, PlatCount, plat, star)) = SumOf(plat2, Top(held2, PlatCount, plat2, star2))
    BY <1>13, <1>14, <1>15, <1>16
  <2>3. QED
    BY <2>1, <2>2
<1>20. QED
  BY <1>17, <1>18, <1>19 DEF rows, listed, tech, fine, plat, plat2, pools, lists

\* Once the server has answered, the page of the targets has its lists.
Answer == [payload : Payload \cup {NoPayload}, catalogue : Catalogue, news : News]
Answered == page = "targets" /\ "targets" \notin waiting /\ ~err => answered \in Answer

LEMMA AnsweredOnTargets == Spec => []Answered
<1>1. Init => Answered
  BY DEF Init, Answered
<1>2. IInv /\ Answered /\ [Next]_vars => Answered'
  <2> SUFFICES ASSUME IInv, Answered, [Next]_vars PROVE Answered'
    OBVIOUS
  <2>1. CASE \E p \in {"simulator", "board", "targets"} : Open(p)
    <3>1. PICK p \in {"simulator", "board", "targets"} : Open(p)
      BY <2>1
    <3>2. "targets" \in Requests("targets")
      BY DEF Requests
    <3>3. QED
      BY <3>1, <3>2 DEF Open, Answered
  <2>2. CASE Close
    BY <2>2 DEF Close, Answered
  <2>3. CASE AnswerTargets
    <3>1. answered' \in Answer
      BY <2>3 DEF AnswerTargets, IInv, TypeOK, Answer
    <3>2. QED
      BY <3>1 DEF Answered
  <2>4. CASE AnswerFails
    BY <2>4 DEF AnswerFails, Answered
  <2>5. CASE AnswerMe \/ AnswerMusic \/ AnswerConfig
    BY <2>5 DEF AnswerMe, AnswerMusic, AnswerConfig, Answered
  <2>6. CASE ServerChanges \/ Render \/ UNCHANGED vars
    BY <2>6 DEF ServerChanges, Render, vars, fetched, Answered
  <2>7. CASE AddScenarioRow \/ UpdateScenario \/ RemoveScenarioRow \/ ClearScenario
    BY <2>7 DEF AddScenarioRow, UpdateScenario, RemoveScenarioRow, ClearScenario, Edit,
                fetched, Answered
  <2>8. QED
    BY <2>1, <2>2, <2>3, <2>4, <2>5, <2>6, <2>7, Zenon DEF Next
<1>3. QED
  BY <1>1, <1>2, Invariance, PTL DEF Spec

\* The rating targets and the simulator agree to a thousandth on what each
\* pool contributes, when they found the same bonus tracks, constants and new
\* songs (handleRatingTargets, sumTop, calcTotalRating).
THEOREM TargetsAreAgreed == Spec => []TargetsAgree
<1>1. IInv /\ Answered => TargetsAgree
  <2> DEFINE p == answered.payload
             cat == answered.catalogue
             ns == answered.news
             rows == Rows(p)
             listed == ServerRows(p, cat)
             tech == TechRates(p, cat, rows)
             fine == ServerTechRates(p, cat, listed)
             plat == PlatRates(p, cat, rows)
             plat2 == ServerPlatRates(p, cat, listed)
             pools == Pools(p, cat, ns, rows)
             lists == ServerPools(p, cat, ns, listed)
             mine == Summary(p, cat, ns, rows)
             its == TargetsSummary(answered)
  <2> SUFFICES ASSUME IInv, Answered, Shows("targets"), p # NoPayload, SameFound(p, cat, ns)
               PROVE  \A f \in {"new", "old", "plat"} : Apart(mine[f], its[f]) <= 1
    BY DEF TargetsAgree
  <2>1. p \in Payload /\ cat \in Catalogue
    BY DEF Answered, Answer, Shows
  <2>2. /\ SumOf(tech, pools.new) \in Nat /\ SumOf(fine, lists.new) \in Nat
        /\ Fine * SumOf(tech, pools.new) <= SumOf(fine, lists.new)
        /\ SumOf(fine, lists.new) <= Fine * SumOf(tech, pools.new) + (Fine - 1) * NewCount
    BY <2>1, PoolsAgree
  <2>3. /\ SumOf(tech, pools.old) \in Nat /\ SumOf(fine, lists.old) \in Nat
        /\ Fine * SumOf(tech, pools.old) <= SumOf(fine, lists.old)
        /\ SumOf(fine, lists.old) <= Fine * SumOf(tech, pools.old) + (Fine - 1) * OldCount
    BY <2>1, PoolsAgree
  <2>4. SumOf(plat, pools.plat) \in Nat /\ SumOf(plat, pools.plat) = SumOf(plat2, lists.plat)
    BY <2>1, PoolsAgree
  <2>5. /\ mine = Contributions(pools, tech, plat, 1)
        /\ its = Contributions(lists, fine, plat2, Fine)
    BY DEF Summary, TargetsSummary
  <2> HIDE DEF p, cat, ns, rows, listed, tech, fine, plat, plat2, pools, lists, mine, its
  <2>6. /\ mine.new = SumOf(tech, pools.new) \div (NewCount * 5 * 1)
        /\ its.new = SumOf(fine, lists.new) \div (NewCount * 5 * Fine)
        /\ mine.old = SumOf(tech, pools.old) \div (OldCount * 1)
        /\ its.old = SumOf(fine, lists.old) \div (OldCount * Fine)
        /\ mine.plat = SumOf(plat, pools.plat) \div PlatCount
        /\ its.plat = SumOf(plat2, lists.plat) \div PlatCount
    BY <2>5 DEF Contributions
  <2>7. /\ NewCount \in Nat /\ NewCount > 0 /\ OldCount \in Nat /\ OldCount > 0
        /\ PlatCount \in Nat /\ PlatCount > 0
    BY CountsAssumption
  <2>8. Apart(mine.new, its.new) <= 1
    <3> DEFINE d == NewCount * 5
    <3>1. d \in Nat /\ d > 0 /\ NewCount <= d /\ NewCount * 5 * 1 = d
      BY <2>7
    <3> HIDE DEF d
    <3>2. Apart(SumOf(tech, pools.new) \div d, SumOf(fine, lists.new) \div (d * Fine)) <= 1
      BY <2>2, <2>7, <3>1, QuotientsAgree
    <3>3. QED
      BY <2>6, <3>1, <3>2 DEF d
  <2>9. Apart(mine.old, its.old) <= 1
    <3>1. OldCount * 1 = OldCount /\ OldCount <= OldCount
      BY <2>7
    <3>2. Apart(SumOf(tech, pools.old) \div OldCount, SumOf(fine, lists.old) \div (OldCount * Fine)) <= 1
      BY <2>3, <2>7, <3>1, QuotientsAgree
    <3>3. QED
      BY <2>6, <3>1, <3>2
  <2>10. Apart(mine.plat, its.plat) <= 1
    <3>1. mine.plat \in Int /\ its.plat = mine.plat
      BY <2>4, <2>6, <2>7
    <3>2. QED
      BY <3>1 DEF Apart
  <2>11. QED
    BY <2>8, <2>9, <2>10
<1>2. QED
  BY <1>1, Invariance, AnsweredOnTargets, PTL

-----------------------------------------------------------------------------
(* The board. *)

\* Levels are told apart by their numbers (levelToNumber).
LEMMA LevelsApart ==
    ASSUME NEW a \in [n : Nat, plus : BOOLEAN], NEW b \in [n : Nat, plus : BOOLEAN]
    PROVE  /\ LevelTenths(a) \in Int /\ Apart(LevelTenths(a), LevelTenths(b)) \in Nat
           /\ Apart(LevelTenths(a), LevelTenths(b)) = 0 <=> a = b
<1>1. LevelTenths(a) \in Int /\ LevelTenths(b) \in Int
  BY DEF LevelTenths
<1>2. LevelTenths(a) = LevelTenths(b) <=> a = b
  BY DEF LevelTenths
<1>3. QED
  BY <1>1, <1>2 DEF Apart

\* Of candidates one of which has the level, one with that level is best.
LEMMA BestConstFacts ==
    ASSUME NEW cands, IsSequence(cands), NEW level \in [n : Nat, plus : BOOLEAN],
           \A i \in DOMAIN cands : cands[i].level \in [n : Nat, plus : BOOLEAN] \cup {NoId},
           level # NoId, NEW k \in DOMAIN cands, cands[k].level = level
    PROVE  \E i \in DOMAIN cands : cands[i].level = level /\ BestConst(level, cands) = cands[i].const
<1> DEFINE Levelled == {i \in DOMAIN cands : cands[i].level # NoId}
           Off(i) == Apart(LevelTenths(cands[i].level), LevelTenths(level))
           Best(i) == /\ \A j \in Levelled : Off(i) <= Off(j)
                      /\ \A j \in Levelled : Off(j) = Off(i) => i <= j
           Nearest == {i \in Levelled : Off(i) = 0}
<1>1. k \in Levelled /\ Levelled \subseteq Nat /\ cands # << >>
  BY DEF IsSequence
<1>2. \A i \in Levelled : Off(i) \in Nat /\ (Off(i) = 0 <=> cands[i].level = level)
  BY LevelsApart
<1>3. BestConst(level, cands) = cands[CHOOSE i \in Levelled : Best(i)].const
  BY <1>1 DEF BestConst
<1>4. k \in Nearest /\ Nearest \subseteq Levelled
  BY <1>1, <1>2
<1> HIDE DEF Levelled, Off
<1>5. PICK i \in Nearest : \A j \in Nearest : i <= j
  BY <1>1, <1>4, LeastOf
<1>6. Best(i)
  BY <1>2, <1>4, <1>5
<1>7. \E j \in Levelled : Best(j)
  BY <1>4, <1>5, <1>6
<1>8. PICK j \in Levelled : Best(j) /\ j = CHOOSE x \in Levelled : Best(x)
  BY <1>7
<1>9. Off(j) = 0
  <2>1. Off(j) <= Off(i) /\ Off(i) = 0
    BY <1>4, <1>5, <1>8
  <2>2. QED
    BY <1>2, <1>8, <2>1
<1>10. j \in DOMAIN cands
  BY DEF Levelled
<1>11. QED
  BY <1>2, <1>3, <1>8, <1>9, <1>10

\* The candidates are the entries of the key that have a constant.
LEMMA CandidatesFacts ==
    ASSUME NEW cat, IsSequence(cat), NEW key
    PROVE  /\ IsSequence(Candidates(cat, key))
           /\ \A i \in DOMAIN Candidates(cat, key) : \E j \in DOMAIN cat :
                  cat[j].key = key /\ HasConst(cat[j]) /\ Candidates(cat, key)[i] = cat[j]
           /\ \A j \in DOMAIN cat : cat[j].key = key /\ HasConst(cat[j]) =>
                  \E i \in DOMAIN Candidates(cat, key) : Candidates(cat, key)[i] = cat[j]
<1> DEFINE S == {j \in DOMAIN cat : cat[j].key = key /\ HasConst(cat[j])}
           n == Len(cat)
<1>1. n \in Nat
  BY DEF IsSequence
<1>2. S \subseteq 1..n
  BY DEF IsSequence
<1>3. Candidates(cat, key) = Picked(cat, S)
  BY DEF Candidates
<1> HIDE DEF S, n
<1>4. IsPicked(Candidates(cat, key), cat, S)
  BY <1>1, <1>2, <1>3, PickedFacts, Zenon
<1>5. QED
  BY <1>4, Zenon DEF IsPicked, S

\* The third of four constants counts when it is the first there is.
LEMMA ThirdConst ==
    ASSUME NEW c, NEW d, c # NoConst
    PROVE  FirstConst(<<NoConst, NoConst, c, d>>) = c
<1> DEFINE t == <<NoConst, NoConst, c, d>>
           hits == {i \in DOMAIN t : t[i] # NoConst}
           Least(i) == \A j \in hits : i <= j
<1>1. DOMAIN t = 1..4 /\ t[1] = NoConst /\ t[2] = NoConst /\ t[3] = c /\ t[4] = d
  OBVIOUS
<1>2. 3 \in hits /\ hits \subseteq {3, 4}
  BY <1>1
<1> HIDE DEF hits
<1>3. Least(3) /\ \A i \in hits : Least(i) => i = 3
  BY <1>2
<1>4. (CHOOSE i \in hits : Least(i)) = 3
  BY <1>2, <1>3
<1>5. FirstConst(t) = t[CHOOSE i \in hits : Least(i)]
  BY <1>2 DEF FirstConst, hits
<1>6. QED
  BY <1>1, <1>4, <1>5

\* A song whose row has neither constant nor id gets the constant of an
\* entry of its name with its level, when there is one
\* (pickBestConstCandidate).
THEOREM BoardTellsSongsApart == Spec => []BoardConstFitsLevel
<1>1. IInv => BoardConstFitsLevel
  <2> SUFFICES ASSUME IInv, payload # NoPayload, NEW n \in DOMAIN payload.rows,
                      NEW r, r = payload.rows[n], NEW k \in DOMAIN music,
                      music[k].key = r.key, HasConst(music[k]), music[k].level = r.level,
                      r.const = NoConst, r.id = NoId, r.level # NoId
               PROVE  \E i \in DOMAIN music : /\ music[i].key = r.key /\ HasConst(music[i])
                                              /\ music[i].level = r.level
                                              /\ BoardConst(payload, music, r) = music[i].const
    BY DEF BoardConstFitsLevel
  <2> DEFINE cands == Candidates(music, r.key)
             L == [n : Nat, plus : BOOLEAN]
  <2>1. IsCatalogue(music)
    BY PagesAssumption DEF IInv, TypeOK, IsCatalogue, IsSequence
  <2>2. \A i \in DOMAIN music : music[i].level \in L \cup {NoId}
    BY <2>1 DEF IsCatalogue
  <2>3. r.level \in L
    BY <2>2
  <2>4. /\ IsSequence(cands)
        /\ \A i \in DOMAIN cands : \E j \in DOMAIN music :
               music[j].key = r.key /\ HasConst(music[j]) /\ cands[i] = music[j]
    BY <2>1, CandidatesFacts DEF IsCatalogue
  <2>5. \E i \in DOMAIN cands : cands[i] = music[k]
    <3>1. IsSequence(music)
      BY <2>1 DEF IsCatalogue
    <3> DEFINE key == r.key
    <3>2. music[k].key = key
      OBVIOUS
    <3> HIDE DEF key
    <3>3. \E i \in DOMAIN Candidates(music, key) : Candidates(music, key)[i] = music[k]
      BY <3>1, <3>2, CandidatesFacts
    <3>4. QED
      BY <3>3 DEF key
  <2> HIDE DEF cands, L
  <2>6. PICK i \in DOMAIN cands : /\ cands[i].level = r.level
                                  /\ BestConst(r.level, cands) = cands[i].const
    <3>1. \A i \in DOMAIN cands : cands[i].level \in L \cup {NoId}
      BY <2>2, <2>4
    <3>2. QED
      BY <2>3, <2>4, <2>5, <3>1, BestConstFacts DEF L
  <2>7. PICK j \in DOMAIN music : /\ music[j].key = r.key /\ HasConst(music[j])
                                  /\ cands[i] = music[j]
    BY <2>4
  <2>8. music[j].level = r.level
    BY <2>6, <2>7
  <2>9. EntryOfId(payload.catalog, r.id).const = NoConst
    BY DEF EntryOfId, NoEntry
  <2>10. BoardConst(payload, music, r) = music[j].const
    <3> DEFINE d == IndexedConst(music, r.key)
               c == BestConst(r.level, cands)
    <3>1. c # NoConst /\ c = music[j].const
      BY <2>6, <2>7 DEF HasConst
    <3>2. BoardConst(payload, music, r) = FirstConst(<<NoConst, NoConst, c, d>>)
      BY <2>9 DEF BoardConst, cands
    <3> HIDE DEF c, d
    <3>3. QED
      BY <3>1, <3>2, ThirdConst
  <2>11. QED
    BY <2>7, <2>8, <2>10
<1>2. QED
  BY <1>1, Invariance, PTL

-----------------------------------------------------------------------------
(* The song browser. *)

\* What parsing makes of an entry, whatever its fields are.
MaybeInt == Int \cup {Undefined}
Track == [text : [TextField -> Int], bpm : MaybeInt,
          chart : [Diff -> [level : Int, const : MaybeInt,
                                    notes : MaybeInt, bells : MaybeInt]]]

\* The invariant: what was parsed are songs, and there is a page to show.
SongsOK ==
    /\ tracks \in Seq(Track)
    /\ prefs \in Preference
    /\ pageNumber \in Nat \ {0}

LEMMA BrowserBegins == BrowserInit => SongsOK
BY DEF BrowserInit, SongsOK

LEMMA TrackTypes ==
    ASSUME NEW raw PROVE ParseTrack(raw) \in Track
<1>1. \A x : ToText(x) \in Int /\ ToNumber(x) \in MaybeInt
  BY DEF ToText, ToNumber, MaybeInt
<1>2. QED
  BY <1>1 DEF ParseTrack, Track

\* What songs are sorted by are numbers, a missing one MinusInfinity.
LEMMA KeysAreNumbers ==
    ASSUME NEW t \in Track, NEW p \in Preference
    PROVE  /\ KeyValue(t, p.key) \in Int
           /\ t.text["title"] \in Int
           /\ p.order \in {"asc", "desc"}
<1>1. p \in [mode : {"simple", "detail"}, diff : Diff,
                            key : SimpleKey \cup DetailKey, order : {"asc", "desc"}]
  BY CatalogAssumption
<1>2. p.key \in SimpleKey \cup DetailKey /\ p.order \in {"asc", "desc"}
  BY <1>1
<1>3. /\ \A f \in TextField : t.text[f] \in Int
      /\ t.bpm \in MaybeInt
      /\ \A d \in Diff : /\ t.chart[d].level \in Int
                                 /\ t.chart[d].const \in MaybeInt
                                 /\ t.chart[d].notes \in MaybeInt
                                 /\ t.chart[d].bells \in MaybeInt
  BY DEF Track
<1>4. \A x \in MaybeInt : NumOrSentinel(x) \in Int /\ FiveStarLimit(x) \in MaybeInt
  BY DEF NumOrSentinel, FiveStarLimit, MaybeInt, MinusInfinity
<1>5. KeyValue(t, p.key) \in Int
  <2>1. CASE p.key[1] \in TextField
    <3>1. KeyValue(t, p.key) = t.text[p.key[1]]
      BY <2>1 DEF KeyValue, TextField
    <3>2. QED
      BY <1>3, <2>1, <3>1
  <2>2. CASE p.key[1] = "bpm"
    BY <1>3, <1>4, <2>2 DEF KeyValue, TextField
  <2>3. CASE p.key[1] = "level" /\ p.key[2] \in Diff
    BY <1>3, <1>4, <2>3 DEF KeyValue, TextField
  <2>4. CASE p.key[1] \in {"const", "notes", "bells"} /\ p.key[2] \in Diff
    BY <1>3, <1>4, <2>4 DEF KeyValue, TextField
  <2>5. CASE p.key[1] = "star" /\ p.key[2] \in Diff
    BY <1>3, <1>4, <2>5 DEF KeyValue, TextField
  <2>6. QED
    BY <1>2, <2>1, <2>2, <2>3, <2>4, <2>5 DEF SimpleKey, DetailKey
<1>6. "title" \in TextField
  BY DEF TextField
<1>7. QED
  BY <1>2, <1>3, <1>5, <1>6

\* The comparator, made total by the places that rows have before the sort,
\* is a strict order: by key, then title, then place.
LEMMA OrderOfRows ==
    ASSUME prefs \in Preference, NEW rows,
           \A i \in DOMAIN rows : rows[i] \in Track, DOMAIN rows \subseteq Nat,
           NEW i \in DOMAIN rows, NEW j \in DOMAIN rows, NEW k \in DOMAIN rows
    PROVE  /\ i \notin Ahead(rows, i)
           /\ i = j \/ i \in Ahead(rows, j) \/ j \in Ahead(rows, i)
           /\ i \in Ahead(rows, j) /\ j \in Ahead(rows, k) => i \in Ahead(rows, k)
<1> DEFINE key(x) == KeyValue(rows[x], prefs.key)
           title(x) == rows[x].text["title"]
           goes(x, y) == \/ IF prefs.order = "asc" THEN key(x) < key(y) ELSE key(x) > key(y)
                         \/ key(x) = key(y) /\ key(x) # -1 /\ title(x) < title(y)
           ahead(x, y) == goes(x, y) \/ (~goes(y, x) /\ x < y)
<1>1. \A x, y \in DOMAIN rows : x \in Ahead(rows, y) <=> ahead(x, y)
  BY DEF Ahead, Precedes, MinusInfinity
<1>2. \A x \in DOMAIN rows : key(x) \in Int /\ title(x) \in Int /\ x \in Int
  BY KeysAreNumbers
<1> HIDE DEF key, title
<1>3. ~ahead(i, i) /\ (i = j \/ ahead(i, j) \/ ahead(j, i))
  BY <1>2
<1>4. ahead(i, j) /\ ahead(j, k) => ahead(i, k)
  <2>1. CASE prefs.order = "asc"
    BY <1>2, <2>1
  <2>2. CASE prefs.order # "asc"
    BY <1>2, <2>2
  <2>3. QED
    BY <2>1, <2>2
<1> HIDE DEF ahead
<1>5. QED
  BY <1>1, <1>3, <1>4

\* A sorted list has the rows it was made of, each ahead of the later ones.
LEMMA SortedFacts ==
    ASSUME prefs \in Preference, NEW n \in Nat, NEW rows \in [1..n -> Track]
    PROVE  \E place \in [1..n -> 1..n] :
              /\ Sorted(rows) = [k \in 1..n |-> rows[place[k]]]
              /\ \A k, l \in 1..n : k < l => place[k] \in Ahead(rows, place[l])
<1> DEFINE D == 1..n
           A == [i \in D |-> Ahead(rows, i)]
           place == [k \in DOMAIN rows |->
                       CHOOSE i \in DOMAIN rows : Cardinality(Ahead(rows, i)) = k - 1]
<1>1. A \in [D -> SUBSET D]
  <2>1. \A i \in D : Ahead(rows, i) \subseteq D
    BY DEF Ahead
  <2>2. QED
    BY <2>1
<1>2. \A i \in D : A[i] = Ahead(rows, i)
  OBVIOUS
<1>3. /\ DOMAIN rows = D /\ DOMAIN rows \subseteq Nat
      /\ \A i \in DOMAIN rows : rows[i] \in Track
  OBVIOUS
<1> HIDE DEF A
<1>4. /\ \A i \in D : i \notin A[i]
      /\ \A i, j \in D : i = j \/ i \in A[j] \/ j \in A[i]
      /\ \A i, j, k \in D : i \in A[j] /\ j \in A[k] => i \in A[k]
  <2> HIDE DEF D
  <2>1. QED
    BY <1>2, <1>3, OrderOfRows
<1>5. /\ \A i \in D : Cardinality(A[i]) \in Nat
      /\ \A i, j \in D : i \in A[j] => Cardinality(A[i]) < Cardinality(A[j])
      /\ \A k \in D : \E i \in D : Cardinality(A[i]) = k - 1
  BY <1>1, <1>4, RanksOf
<1>6. \A k \in D : place[k] \in D /\ Cardinality(A[place[k]]) = k - 1
  <2> TAKE k \in D
  <2>1. k \in DOMAIN rows /\ \E i \in DOMAIN rows : Cardinality(Ahead(rows, i)) = k - 1
    BY <1>2, <1>3, <1>5
  <2>2. place[k] \in D /\ Cardinality(Ahead(rows, place[k])) = k - 1
    BY <1>3, <2>1
  <2> HIDE DEF place
  <2>3. QED
    BY <1>2, <2>2
<1>7. Sorted(rows) = [k \in D |-> rows[place[k]]]
  <2>1. Sorted(rows) = [k \in DOMAIN rows |-> rows[place[k]]]
    BY DEF Sorted
  <2> HIDE DEF place
  <2>2. QED
    BY <1>3, <2>1
<1>8. place \in [D -> D]
  BY <1>3, <1>6
<1> HIDE DEF place
<1>9. ASSUME NEW k \in D, NEW l \in D, k < l PROVE place[k] \in Ahead(rows, place[l])
  <2>1. place[k] \in D /\ place[l] \in D
    BY <1>6
  <2>2. Cardinality(A[place[k]]) < Cardinality(A[place[l]])
    BY <1>6, <1>9
  <2>3. Cardinality(A[place[k]]) \in Nat /\ Cardinality(A[place[l]]) \in Nat
    BY <1>5, <2>1
  <2>4. place[k] # place[l] /\ place[l] \notin A[place[k]]
    <3>1. place[l] \in A[place[k]] => Cardinality(A[place[l]]) < Cardinality(A[place[k]])
      BY <1>5, <2>1
    <3>2. QED
      BY <2>2, <2>3, <3>1
  <2>5. place[k] \in A[place[l]]
    BY <1>4, <2>1, <2>4
  <2>6. QED
    BY <1>2, <2>1, <2>5
<1>10. QED
  BY <1>7, <1>8, <1>9

-----------------------------------------------------------------------------
(* The browser, step by step. *)

LEMMA ParsedTypes ==
    ASSUME NEW raws \in SongLists
    PROVE  ParseTracks(raws) \in Seq(Track)
<1> DEFINE all == [i \in DOMAIN raws |-> ParseTrack(raws[i])]
           S == {i \in DOMAIN raws : all[i].text["title"] # 0}
           n == Len(raws)
<1>1. n \in Nat /\ DOMAIN raws = 1..n
  BY CatalogAssumption
<1>2. \A i \in DOMAIN raws : all[i] \in Track
  BY TrackTypes
<1>3. S \subseteq 1..n
  BY <1>1
<1>4. ParseTracks(raws) = Picked(all, S)
  BY DEF ParseTracks
<1> HIDE DEF all, S, n
<1>5. IsPicked(Picked(all, S), all, S)
  BY <1>1, <1>3, PickedFacts
<1>6. QED
  BY <1>1, <1>2, <1>3, <1>4, <1>5, PickedTypes DEF IsPicked

\* What the page keeps of the songs is of songs it parsed.
LEMMA FilteredTypes ==
    ASSUME SongsOK
    PROVE  /\ Len(FilteredRows) \in Nat
           /\ FilteredRows \in [1..Len(FilteredRows) -> Track]
<1> DEFINE S == {i \in DOMAIN tracks : Matches(tracks[i])}
           n == Len(tracks)
<1>1. n \in Nat /\ S \subseteq 1..n /\ \A i \in 1..n : tracks[i] \in Track
  BY DEF SongsOK
<1>2. FilteredRows = Picked(tracks, S)
  BY DEF FilteredRows
<1> HIDE DEF S, n
<1>3. Picked(tracks, S) \in Seq(Track)
  BY <1>1, PickedTypes
<1>4. QED
  BY <1>2, <1>3

LEMMA PageCountType ==
    ASSUME SongsOK
    PROVE  TotalPages \in Nat \ {0}
<1>1. Len(FilteredRows) \in Nat
  BY FilteredTypes
<1>2. RowsPerPage \in Nat \ {0}
  BY CatalogAssumption
<1>3. QED
  BY <1>1, <1>2 DEF TotalPages, PageCount, AtLeast

LEMMA BrowserSteps ==
    SongsOK /\ [BrowserNext]_browserVars => SongsOK'
<1> SUFFICES ASSUME SongsOK, [BrowserNext]_browserVars PROVE SongsOK'
  OBVIOUS
<1>1. TotalPages \in Nat \ {0}
  BY PageCountType
<1>2. CASE OpenBrowser
  BY <1>2 DEF OpenBrowser, SongsOK
<1>3. CASE Load
  <2>1. \A raws \in SongLists : ParseTracks(raws) \in Seq(Track)
    BY ParsedTypes
  <2>2. QED
    BY <1>3, <2>1 DEF Load, SongsOK
<1>4. CASE Effects
  BY <1>1, <1>4 DEF Effects, SongsOK
<1>5. CASE Type \/ Choose \/ TypeLevel \/ TypeBound
  BY <1>5 DEF Type, Choose, TypeLevel, TypeBound,
              Asks, SongsOK
<1>6. CASE Prefer
  BY <1>6 DEF Prefer, Prefers, SongsOK
<1>7. CASE Turn
  <2>1. pageNumber' \in Nat \ {0}
    BY <1>1, <1>7 DEF Turn, AtLeast, AtMost, Buttons, SongsOK
  <2>2. QED
    BY <1>7, <2>1 DEF Turn, SongsOK
<1>8. CASE UNCHANGED browserVars
  BY <1>8 DEF browserVars, SongsOK
<1>9. QED
  BY <1>2, <1>3, <1>4, <1>5, <1>6, <1>7, <1>8 DEF BrowserNext

LEMMA BrowserKeeps == BrowserSpec => []SongsOK
<1>1. SongsOK /\ [BrowserNext]_browserVars => SongsOK'
  BY BrowserSteps
<1>2. QED
  BY <1>1, BrowserBegins, PTL DEF BrowserSpec

\* Songs are in the order of the key, up or down; those that have no value
\* for it come first going up and last going down; equal ones that have are
\* by title in both directions (compareByKey and the stable sort).
THEOREM SongsAreOrdered == BrowserSpec => []Ordered
<1>1. SongsOK => Ordered
  <2> SUFFICES ASSUME SongsOK PROVE Ordered
    OBVIOUS
  <2> DEFINE rows == FilteredRows
             n == Len(rows)
             key(x) == KeyValue(rows[x], prefs.key)
             title(x) == rows[x].text["title"]
  <2>1. n \in Nat /\ rows \in [1..n -> Track] /\ prefs \in Preference
    BY FilteredTypes DEF SongsOK
  <2> HIDE DEF rows, n
  <2>2. PICK place \in [1..n -> 1..n] :
              /\ Sorted(rows) = [k \in 1..n |-> rows[place[k]]]
              /\ \A k, l \in 1..n : k < l => place[k] \in Ahead(rows, place[l])
    BY <2>1, SortedFacts
  <2>3. Filtered = [k \in 1..n |-> rows[place[k]]]
    BY <2>2 DEF Filtered, rows
  <2>4. ASSUME NEW k \in 1..n, NEW l \in 1..n, k < l
        PROVE  /\ prefs.order = "asc" => key(place[k]) <= key(place[l])
               /\ prefs.order = "desc" => key(place[k]) >= key(place[l])
               /\ key(place[k]) = key(place[l]) /\ key(place[k]) # -1
                    => title(place[k]) <= title(place[l])
    <3> DEFINE x == place[k]
               y == place[l]
    <3>1. x \in 1..n /\ y \in 1..n /\ x \in Ahead(rows, y)
      BY <2>2, <2>4
    <3> HIDE DEF x, y
    <3>2. \/ Precedes(rows[x], rows[y])
          \/ ~Precedes(rows[y], rows[x]) /\ x < y
      BY <3>1 DEF Ahead
    <3>3. /\ key(x) \in Int /\ key(y) \in Int /\ title(x) \in Int /\ title(y) \in Int
          /\ prefs.order \in {"asc", "desc"}
      BY <2>1, <3>1, KeysAreNumbers
    <3>4. \A i, j \in {x, y} : Precedes(rows[i], rows[j]) <=>
             \/ IF prefs.order = "asc" THEN key(i) < key(j) ELSE key(i) > key(j)
             \/ key(i) = key(j) /\ key(i) # -1 /\ title(i) < title(j)
      BY DEF Precedes, MinusInfinity
    <3> HIDE DEF key, title
    <3>5. /\ prefs.order = "asc" => key(x) <= key(y)
          /\ prefs.order = "desc" => key(x) >= key(y)
          /\ key(x) = key(y) /\ key(x) # -1 => title(x) <= title(y)
      BY <3>2, <3>3, <3>4
    <3>6. QED
      BY <3>5 DEF x, y
  <2>5. DOMAIN Filtered = 1..n
    BY <2>3
  <2>6. \A k \in 1..n : Filtered[k] = rows[place[k]]
    BY <2>3
  <2>7. QED
    BY <2>4, <2>5, <2>6 DEF Ordered, MinusInfinity
<1>2. QED
  BY <1>1, BrowserKeeps, PTL

-----------------------------------------------------------------------------
(* Pages of r rows each: how many there are, and what is on which. *)

LEMMA Multiples ==
    ASSUME NEW a \in Nat, NEW b \in Nat, NEW r \in Nat
    PROVE  /\ a * r \in Nat
           /\ a <= b => a * r <= b * r
           /\ (a + 1) * r = a * r + r
OBVIOUS

LEMMA Quotients ==
    ASSUME NEW a \in Nat, NEW r \in Nat \ {0}
    PROVE  a \div r \in Nat /\ (a \div r) * r <= a /\ a < (a \div r) * r + r
<1> DEFINE q == a \div r
           x == r * q
<1>1. q \in Nat /\ x \in Nat /\ x <= a /\ a <= x + r - 1 /\ x = q * r
  OBVIOUS
<1> HIDE DEF x
<1>2. QED
  BY <1>1

\* The rows of n that are on the pages 1 to t, as page and place there.
Laid(n, r, t) == {x \in (1..t) \X (1..r) : (x[1] - 1) * r + x[2] <= n}
Number(r, x) == (x[1] - 1) * r + x[2]

\* Enough pages, and no more than that: the last has a row.
Fits(n, r, t) == t \in Nat \ {0} /\ n <= t * r /\ (n = 0 => t = 1) /\ (n > 0 => (t - 1) * r < n)

LEMMA PagesFit ==
    ASSUME NEW n \in Nat
    PROVE  Fits(n, RowsPerPage, PageCount(n))
<1> DEFINE r == RowsPerPage
           a == n + r - 1
           q == a \div r
           t == PageCount(n)
<1>1. r \in Nat \ {0}
  BY CatalogAssumption
<1>2. a \in Nat
  BY <1>1
<1>3. t = IF q < 1 THEN 1 ELSE q
  BY DEF PageCount, AtLeast
<1> HIDE DEF t
<1>4. q \in Nat /\ q * r <= a /\ a < q * r + r
  <2> HIDE DEF a
  <2>1. QED
    BY <1>1, <1>2, Quotients
<1> HIDE DEF q
<1>5. CASE q < 1
  <2>1. q = 0 /\ t = 1
    BY <1>3, <1>4, <1>5
  <2>2. q * r = 0 /\ t * r = r /\ (t - 1) * r = 0
    BY <1>1, <2>1
  <2>3. n = 0
    BY <1>1, <1>4, <2>2
  <2>4. QED
    BY <1>1, <2>1, <2>2, <2>3 DEF Fits, t
<1>6. CASE q >= 1
  <2>1. t = q /\ t - 1 \in Nat /\ t \in Nat \ {0}
    BY <1>3, <1>4, <1>6
  <2>2. q * r = (t - 1) * r + r /\ (t - 1) * r \in Nat
    <3> DEFINE m == t - 1
    <3>1. m \in Nat /\ q = m + 1
      BY <1>4, <2>1
    <3> HIDE DEF m
    <3>2. q * r = m * r + r /\ m * r \in Nat
      BY <1>1, <3>1
    <3>3. QED
      BY <3>2 DEF m
  <2>3. n <= t * r /\ (t - 1) * r < n
    <3> DEFINE y == (t - 1) * r
               z == q * r
    <3>1. z = t * r /\ z = y + r /\ y \in Nat
      BY <2>1, <2>2
    <3>2. z <= a /\ a < z + r
      BY <1>4
    <3> HIDE DEF y, z
    <3>3. n <= z /\ y < n
      BY <1>1, <3>1, <3>2
    <3>4. QED
      BY <3>1, <3>3 DEF y, z
  <2>4. n # 0
    <3> DEFINE y == (t - 1) * r
    <3>1. y \in Nat /\ y < n
      BY <2>2, <2>3
    <3> HIDE DEF y
    <3>2. QED
      BY <3>1
  <2>5. QED
    BY <2>1, <2>3, <2>4 DEF Fits, t
<1>7. QED
  BY <1>4, <1>5, <1>6

\* Rows are laid in the order of their numbers, which run from 1 to n.
LEMMA NumbersOf ==
    ASSUME NEW n \in Nat, NEW r \in Nat \ {0}, NEW t, Fits(n, r, t)
    PROVE  /\ \A x \in Laid(n, r, t) : Number(r, x) \in 1..n
           /\ \A x, y \in Laid(n, r, t) :
                 (y[1] < x[1] \/ (y[1] = x[1] /\ y[2] <= x[2])) <=> Number(r, y) <= Number(r, x)
           /\ \A x, y \in Laid(n, r, t) : Number(r, x) = Number(r, y) => x = y
           /\ \A i \in 1..n : \E x \in Laid(n, r, t) : Number(r, x) = i
<1>1. t \in Nat \ {0} /\ n <= t * r
  BY DEF Fits
<1>2. ASSUME NEW x \in Laid(n, r, t)
      PROVE  /\ x = <<x[1], x[2]>> /\ x[1] \in 1..t /\ x[1] - 1 \in Nat /\ x[2] \in 1..r
             /\ (x[1] - 1) * r \in Nat
             /\ Number(r, x) = (x[1] - 1) * r + x[2] /\ Number(r, x) \in 1..n
  <2>1. x \in (1..t) \X (1..r) /\ (x[1] - 1) * r + x[2] <= n
    BY DEF Laid
  <2>2. x = <<x[1], x[2]>> /\ x[1] \in 1..t /\ x[2] \in 1..r
    BY <2>1
  <2>3. x[1] - 1 \in Nat
    BY <1>1, <2>2
  <2>4. (x[1] - 1) * r \in Nat
    BY <2>3, Multiples
  <2>5. QED
    BY <2>1, <2>2, <2>3, <2>4 DEF Number
<1>3. ASSUME NEW x \in Laid(n, r, t), NEW y \in Laid(n, r, t), y[1] < x[1]
      PROVE  Number(r, y) < Number(r, x)
  <2> DEFINE a == y[1] - 1
             b == x[1] - 1
  <2>1. a \in Nat /\ b \in Nat /\ a + 1 <= b
    BY <1>1, <1>2, <1>3
  <2>2. /\ Number(r, y) = a * r + y[2] /\ Number(r, x) = b * r + x[2]
        /\ y[2] \in 1..r /\ x[2] \in 1..r
    BY <1>2
  <2> HIDE DEF a, b
  <2>3. (a + 1) * r <= b * r /\ (a + 1) * r = a * r + r /\ a * r \in Nat /\ b * r \in Nat
    BY <2>1, Multiples
  <2>4. QED
    BY <2>2, <2>3
<1>4. ASSUME NEW x \in Laid(n, r, t), NEW y \in Laid(n, r, t), y[1] = x[1]
      PROVE  y[2] <= x[2] <=> Number(r, y) <= Number(r, x)
  <2> DEFINE a == (x[1] - 1) * r
  <2>1. Number(r, y) = a + y[2] /\ Number(r, x) = a + x[2] /\ a \in Nat /\ y[2] \in Nat /\ x[2] \in Nat
    BY <1>2, <1>4
  <2> HIDE DEF a
  <2>2. QED
    BY <2>1
<1>5. ASSUME NEW x \in Laid(n, r, t), NEW y \in Laid(n, r, t)
      PROVE  (y[1] < x[1] \/ (y[1] = x[1] /\ y[2] <= x[2])) <=> Number(r, y) <= Number(r, x)
  <2>1. /\ x[1] \in Nat /\ y[1] \in Nat /\ x[2] \in Nat /\ y[2] \in Nat
        /\ Number(r, x) \in Nat /\ Number(r, y) \in Nat
    BY <1>1, <1>2
  <2>2. CASE y[1] < x[1]
    BY <1>3, <2>1, <2>2
  <2>3. CASE y[1] = x[1]
    BY <1>4, <2>1, <2>3
  <2>4. CASE x[1] < y[1]
    <3>1. Number(r, x) < Number(r, y)
      BY <1>3, <2>4
    <3>2. QED
      BY <2>1, <2>4, <3>1
  <2>5. QED
    BY <2>1, <2>2, <2>3, <2>4
<1>6. ASSUME NEW x \in Laid(n, r, t), NEW y \in Laid(n, r, t), Number(r, x) = Number(r, y)
      PROVE  x = y
  <2>1. /\ x[1] \in Nat /\ y[1] \in Nat /\ x[2] \in Nat /\ y[2] \in Nat
        /\ Number(r, x) \in Nat /\ Number(r, y) \in Nat
    BY <1>1, <1>2
  <2>2. /\ y[1] < x[1] \/ (y[1] = x[1] /\ y[2] <= x[2])
        /\ x[1] < y[1] \/ (x[1] = y[1] /\ x[2] <= y[2])
    BY <1>5, <1>6, <2>1
  <2>3. x[1] = y[1] /\ x[2] = y[2]
    BY <2>1, <2>2
  <2>4. QED
    BY <1>2, <2>3
<1>7. ASSUME NEW i \in 1..n PROVE \E x \in Laid(n, r, t) : Number(r, x) = i
  <2> DEFINE a == i - 1
             u == a \div r
             k == i - u * r
             x == <<u + 1, k>>
  <2>1. a \in Nat /\ i = a + 1 /\ i \in Nat /\ i <= n
    OBVIOUS
  <2> HIDE DEF a
  <2>2. u \in Nat /\ u * r <= a /\ a < u * r + r
    BY <2>1, Quotients
  <2> HIDE DEF u
  <2>3. u * r \in Nat
    BY <2>2, Multiples
  <2>4. k \in 1..r /\ u * r + k = i
    <3> DEFINE y == u * r
    <3>1. y \in Nat /\ y <= a /\ a < y + r /\ k = i - y
      BY <2>2, <2>3
    <3> HIDE DEF y, k
    <3>2. k \in 1..r /\ y + k = i
      BY <2>1, <3>1
    <3>3. QED
      BY <3>2 DEF y
  <2>5. u < t
    <3> SUFFICES ASSUME t <= u PROVE FALSE
      BY <1>1, <2>2
    <3>1. t * r <= u * r /\ t * r \in Nat
      BY <1>1, <2>2, Multiples
    <3> DEFINE y == u * r
               z == t * r
    <3>2. z <= y /\ n <= z /\ y <= a /\ y \in Nat /\ z \in Nat
      BY <1>1, <2>2, <2>3, <3>1
    <3> HIDE DEF y, z
    <3>3. QED
      BY <2>1, <3>2
  <2> HIDE DEF k
  <2>6. u + 1 \in 1..t
    BY <1>1, <2>2, <2>5
  <2>7. x \in (1..t) \X (1..r) /\ x[1] - 1 = u /\ x[2] = k
    BY <2>2, <2>4, <2>6
  <2> HIDE DEF x
  <2>8. x \in Laid(n, r, t) /\ Number(r, x) = i
    BY <2>1, <2>4, <2>7 DEF Laid, Number
  <2>9. QED
    BY <2>8
<1>8. QED
  BY <1>2, <1>5, <1>6, <1>7

\* So a row has as many up to it as its number says.
LEMMA LaidInOrder ==
    ASSUME NEW n \in Nat, NEW r \in Nat \ {0}, NEW t, Fits(n, r, t)
    PROVE  /\ Cardinality(Laid(n, r, t)) = n
           /\ \A x \in Laid(n, r, t) :
                Cardinality({y \in Laid(n, r, t) : y[1] < x[1] \/ (y[1] = x[1] /\ y[2] <= x[2])})
                    = Number(r, x)
<1> DEFINE L == Laid(n, r, t)
<1>1. /\ \A x \in L : Number(r, x) \in 1..n
      /\ \A x, y \in L : (y[1] < x[1] \/ (y[1] = x[1] /\ y[2] <= x[2])) <=> Number(r, y) <= Number(r, x)
      /\ \A x, y \in L : Number(r, x) = Number(r, y) => x = y
      /\ \A i \in 1..n : \E x \in L : Number(r, x) = i
  BY NumbersOf
<1> HIDE DEF L
<1>2. ASSUME NEW m \in 0..n, NEW X, X = {x \in L : Number(r, x) <= m} PROVE Cardinality(X) = m
  <2> DEFINE g == [x \in X |-> Number(r, x)]
  <2>1. g \in [X -> 1..m]
    BY <1>1, <1>2
  <2>2. \A x, y \in X : g[x] = g[y] => x = y
    BY <1>1, <1>2
  <2>3. \A k \in 1..m : \E x \in X : g[x] = k
    <3> TAKE k \in 1..m
    <3>1. PICK x \in L : Number(r, x) = k
      BY <1>1
    <3>2. x \in X
      BY <1>2, <3>1
    <3>3. QED
      BY <3>1, <3>2
  <2> HIDE DEF g
  <2>4. m \in Nat
    OBVIOUS
  <2>5. QED
    BY <2>1, <2>2, <2>3, <2>4, CountedBy
<1>3. Cardinality(L) = n
  <2>1. L = {x \in L : Number(r, x) <= n}
    BY <1>1
  <2>2. n \in 0..n
    OBVIOUS
  <2>3. QED
    BY <1>2, <2>1, <2>2
<1>4. ASSUME NEW x \in L
      PROVE  Cardinality({y \in L : y[1] < x[1] \/ (y[1] = x[1] /\ y[2] <= x[2])}) = Number(r, x)
  <2>1. {y \in L : y[1] < x[1] \/ (y[1] = x[1] /\ y[2] <= x[2])} = {y \in L : Number(r, y) <= Number(r, x)}
    BY <1>1
  <2>2. Number(r, x) \in 0..n
    BY <1>1
  <2>3. Cardinality({y \in L : Number(r, y) <= Number(r, x)}) = Number(r, x)
    BY <1>2, <2>2
  <2>4. QED
    BY <2>1, <2>3
<1>5. QED
  BY <1>3, <1>4 DEF L

-----------------------------------------------------------------------------
(* What the browser shows. *)

LEMMA SortedIsSeq ==
    ASSUME SongsOK
    PROVE  LET n == Len(FilteredRows) IN
           n \in Nat /\ Filtered \in Seq(Track) /\ Filtered \in [1..n -> Track]
<1> DEFINE n == Len(FilteredRows)
           list == FilteredRows
<1>1. n \in Nat /\ list \in [1..n -> Track] /\ prefs \in Preference
  BY FilteredTypes DEF SongsOK
<1> HIDE DEF list, n
<1>2. PICK place \in [1..n -> 1..n] : Sorted(list) = [k \in 1..n |-> list[place[k]]]
  BY <1>1, SortedFacts
<1>3. Sorted(list) \in [1..n -> Track]
  BY <1>1, <1>2
<1>4. Sorted(list) \in Seq(Track)
  BY <1>1, <1>3
<1>5. QED
  BY <1>1, <1>3, <1>4 DEF Filtered, list, n

\* On page p are the rows of the places that are laid there.
LEMMA ShownRows ==
    ASSUME SongsOK, NEW p \in 1..TotalPages
    PROVE  LET n == Len(FilteredRows)
               rows == RowsOf(p)
           IN  /\ n \in Nat /\ DOMAIN Filtered = 1..n /\ Len(Filtered) = n
               /\ DOMAIN rows = {k \in 1..RowsPerPage : (p - 1) * RowsPerPage + k <= n}
               /\ \A k \in DOMAIN rows : rows[k] = Filtered[(p - 1) * RowsPerPage + k]
<1> DEFINE r == RowsPerPage
           n == Len(FilteredRows)
           t == TotalPages
           s == Filtered
           rows == RowsOf(p)
           a == (p - 1) * r
           b == AtMost(p * r, n)
<1>1. r \in Nat \ {0} /\ n \in Nat /\ FilteredRows \in [1..n -> Track] /\ prefs \in Preference
  BY FilteredTypes, CatalogAssumption DEF SongsOK
<1>2. Fits(n, r, t)
  BY <1>1, PagesFit DEF TotalPages
<1>3. s \in [1..n -> Track]
  BY SortedIsSeq
<1>4. s \in Seq(Track) /\ Len(s) = n /\ DOMAIN s = 1..n
  BY <1>1, <1>3
<1>5. rows = SubSeq(s, a + 1, b)
  BY <1>4 DEF RowsOf
<1>6. t \in Nat /\ p - 1 \in Nat /\ a \in Nat /\ p * r = a + r /\ a <= n
  <2> DEFINE q == p - 1
             u == t - 1
  <2>1. t \in Nat \ {0}
    BY <1>2 DEF Fits
  <2>2. q \in Nat /\ u \in Nat /\ q <= u /\ p = q + 1
    BY <2>1
  <2>3. u * r <= n
    <3>1. CASE n = 0
      <4>1. u = 0
        BY <1>2, <3>1 DEF Fits
      <4> HIDE DEF u
      <4>2. u * r = 0
        BY <1>1, <4>1
      <4>3. QED
        BY <3>1, <4>2
    <3>2. CASE n > 0
      <4>1. u * r < n /\ u * r \in Nat
        BY <1>1, <1>2, <2>2, <3>2, Multiples DEF Fits
      <4>2. QED
        BY <1>1, <4>1
    <3>3. QED
      BY <1>1, <3>1, <3>2
  <2> HIDE DEF q, u, t
  <2>4. q * r \in Nat /\ q * r <= u * r /\ (q + 1) * r = q * r + r /\ u * r \in Nat
    BY <1>1, <2>2, Multiples
  <2>5. q * r <= n
    BY <1>1, <2>3, <2>4
  <2>6. QED
    BY <2>1, <2>2, <2>4, <2>5 DEF q
<1>7. b = IF a + r > n THEN n ELSE a + r
  BY <1>6 DEF AtMost
<1> HIDE DEF n, t, s, rows, a, b
<1>8. a + 1 \in Int /\ b \in Int /\ b <= n
  BY <1>1, <1>6, <1>7
<1>9. \A i \in (a + 1)..b : s[i] \in Track
  BY <1>1, <1>3, <1>6, <1>8
<1>10. /\ rows \in Seq(Track)
       /\ Len(rows) = IF a + 1 <= b THEN b - (a + 1) + 1 ELSE 0
       /\ \A k \in 1..(b - (a + 1) + 1) : rows[k] = s[a + 1 + k - 1]
  BY <1>5, <1>8, <1>9, SubSeqProperties
<1>11. DOMAIN rows = 1..(b - a)
  <2>1. DOMAIN rows = 1..Len(rows)
    BY <1>10, LenProperties
  <2>2. Len(rows) = b - a
    BY <1>1, <1>6, <1>7, <1>8, <1>10
  <2>3. QED
    BY <2>1, <2>2
<1>12. 1..(b - a) = {k \in 1..r : a + k <= n}
  BY <1>1, <1>6, <1>7
<1>13. \A k \in 1..(b - a) : rows[k] = s[a + k]
  <2> TAKE k \in 1..(b - a)
  <2>1. k \in 1..(b - (a + 1) + 1) /\ a + 1 + k - 1 = a + k
    BY <1>6, <1>8
  <2>2. QED
    BY <1>10, <2>1
<1>14. QED
  BY <1>1, <1>4, <1>11, <1>12, <1>13 DEF n, s, rows, a

\* The pages hold every match once, in order, and the page that is shown is
\* one of them and has rows if there are any, in every render: also in the
\* one before the effects that correct the page number (pageSafe, shown).
THEOREM PagesHoldAll == BrowserSpec => []PagesTile
<1>1. SongsOK => PagesTile
  <2> SUFFICES ASSUME SongsOK PROVE PagesTile
    OBVIOUS
  <2> DEFINE r == RowsPerPage
             n == Len(FilteredRows)
             t == TotalPages
             s == Filtered
             rows(p) == RowsOf(p)
             places == UNION {{p} \X DOMAIN RowsOf(p) : p \in 1..TotalPages}
             upTo(x) == {y \in places : y[1] < x[1] \/ (y[1] = x[1] /\ y[2] <= x[2])}
  <2>1. n \in Nat /\ r \in Nat \ {0}
    BY FilteredTypes, CatalogAssumption
  <2>2. Fits(n, r, t)
    BY <2>1, PagesFit DEF TotalPages
  <2>3. t \in Nat \ {0}
    BY <2>2 DEF Fits
  <2>4. \A p \in 1..t :
           /\ DOMAIN s = 1..n /\ Len(s) = n
           /\ DOMAIN rows(p) = {k \in 1..r : (p - 1) * r + k <= n}
           /\ \A k \in DOMAIN rows(p) : rows(p)[k] = s[(p - 1) * r + k]
    BY ShownRows
  <2>5. DOMAIN s = 1..n /\ Len(s) = n
    <3>1. 1 \in 1..t
      BY <2>3
    <3>2. QED
      BY <2>4, <3>1
  <2>6. places = UNION {{p} \X DOMAIN rows(p) : p \in 1..t}
    OBVIOUS
  <2> HIDE DEF rows, s, t, n, r, places
  <2>7. places = Laid(n, r, t)
    <3>1. \A p, k : <<p, k>> \in places <=> <<p, k>> \in Laid(n, r, t)
      <4>1. \A p, k : <<p, k>> \in places <=> p \in 1..t /\ k \in DOMAIN rows(p)
        BY <2>6
      <4>2. \A p, k : <<p, k>> \in Laid(n, r, t) <=> p \in 1..t /\ k \in 1..r /\ (p - 1) * r + k <= n
        BY DEF Laid
      <4>3. \A p \in 1..t : \A k : k \in DOMAIN rows(p) <=> k \in 1..r /\ (p - 1) * r + k <= n
        BY <2>4
      <4>4. QED
        BY <4>1, <4>2, <4>3
    <3>2. \A x \in places : x = <<x[1], x[2]>>
      BY <2>6
    <3>3. \A x \in Laid(n, r, t) : x = <<x[1], x[2]>>
      BY DEF Laid
    <3>4. QED
      BY <3>1, <3>2, <3>3
  <2>8. Cardinality(places) = n /\ \A x \in places : Cardinality(upTo(x)) = (x[1] - 1) * r + x[2]
    BY <2>1, <2>2, <2>7, LaidInOrder DEF Number
  <2>9. \A x \in places : rows(x[1])[x[2]] = s[Cardinality(upTo(x))]
    <3> TAKE x \in places
    <3>1. x[1] \in 1..t /\ x[2] \in DOMAIN rows(x[1])
      BY <2>6
    <3>2. QED
      BY <2>4, <2>8, <3>1
  <2>10. PageSafe \in 1..t
    BY <2>3 DEF PageSafe, AtMost, SongsOK, t
  <2>11. s # <<>> => rows(PageSafe) # <<>>
    <3> SUFFICES ASSUME s # <<>> PROVE rows(PageSafe) # <<>>
      OBVIOUS
    <3> DEFINE p == PageSafe
    <3>1. n > 0
      <4>1. s \in Seq(Track)
        BY SortedIsSeq DEF s
      <4>2. QED
        BY <2>1, <2>5, <4>1
    <3>2. (p - 1) * r + 1 <= n
      <4> DEFINE q == p - 1
                 u == t - 1
      <4>1. q \in Nat /\ u \in Nat /\ q <= u /\ u * r < n
        BY <2>2, <2>3, <2>10, <3>1 DEF Fits
      <4> HIDE DEF q, u
      <4>2. q * r <= u * r /\ q * r \in Nat /\ u * r \in Nat
        BY <2>1, <4>1, Multiples
      <4>3. q * r + 1 <= n
        BY <2>1, <4>1, <4>2
      <4>4. QED
        BY <4>3 DEF q
    <3>3. 1 \in DOMAIN rows(p)
      <4>1. DOMAIN rows(p) = {k \in 1..r : (p - 1) * r + k <= n}
        BY <2>4, <2>10
      <4>2. 1 \in 1..r
        BY <2>1
      <4> HIDE DEF p
      <4>3. QED
        BY <3>2, <4>1, <4>2
    <3> HIDE DEF p
    <3>4. rows(p) # <<>>
      BY <3>3
    <3>5. QED
      BY <3>4 DEF p
  <2>12. /\ Cardinality(places) = Len(s)
         /\ \A x \in places : rows(x[1])[x[2]] = s[Cardinality(upTo(x))]
    BY <2>5, <2>8, <2>9
  <2>13. QED
    BY <2>10, <2>11, <2>12 DEF PagesTile, rows, s, t, places
<1>2. QED
  BY <1>1, BrowserKeeps, PTL
=============================================================================
