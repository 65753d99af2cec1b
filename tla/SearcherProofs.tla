------------------------------ MODULE SearcherProofs ------------------------------
(***************************************************************************)
(* Searcher for any number of states and merge points and any composition  *)
(* of searchers that Supported admits: no searcher is ever asked for what  *)
(* it cannot do, because each of them holds exactly the states that are    *)
(* neither parked nor paused.                                              *)
(***************************************************************************)
EXTENDS Searcher, FiniteSetTheorems, SequenceTheorems, WellFoundedInduction, TLAPS

-------------------------------------------------------------------------------
(* Finite sets in an order.                                                *)

\* Every set of numbers with an element has a least one.
LEMMA LeastNumber ==
  ASSUME NEW T \in SUBSET Nat, T # {}
  PROVE  \E m \in T : \A k \in T : m <= k
<1> DEFINE Below == {0 .. k : k \in T}
<1>1. Below \subseteq FiniteSubsetsOf(Nat)
  <2>1. ASSUME NEW k \in T PROVE 0 .. k \in SUBSET Nat /\ IsFiniteSet(0 .. k)
    BY FS_Interval
  <2> QED
    BY <2>1 DEF FiniteSubsetsOf
<1>2. PICK B \in Below : \A C \in Below : ~(<<C, B>> \in StrictSubsetOrdering(Nat))
  <2>1. Below # {}
    OBVIOUS
  <2>2. IsWellFoundedOn(StrictSubsetOrdering(Nat), FiniteSubsetsOf(Nat))
    BY FS_StrictSubsetOrderingWellFounded
  <2> HIDE DEF Below
  <2> QED
    BY <1>1, <2>1, <2>2, WFMin
<1>3. PICK m \in T : B = 0 .. m
  OBVIOUS
<1>4. ASSUME NEW k \in T PROVE m <= k
  <2>1. SUFFICES ASSUME k < m PROVE FALSE
    OBVIOUS
  <2>2. 0 .. k \subseteq 0 .. m /\ 0 .. k # 0 .. m /\ 0 .. k \in SUBSET Nat /\ 0 .. m \in SUBSET Nat
    <3>1. m \in 0 .. m /\ m \notin 0 .. k
      BY <2>1
    <3> QED
      BY <2>1, <3>1
  <2>3. 0 .. k \in Below
    OBVIOUS
  <2> QED
    BY <1>2, <1>3, <2>2, <2>3 DEF StrictSubsetOrdering
<1> QED
  BY <1>4

\* q lists every element of S, each once.
OnceEach(q, S) ==
  /\ q \in Seq(S)
  /\ \A x \in S : \E i \in 1 .. Len(q) : q[i] = x
  /\ \A i, j \in 1 .. Len(q) : q[i] = q[j] => i = j

\* R is a strict total order of S.
Orders(R, S) ==
  /\ \A x \in S : <<x, x>> \notin R
  /\ \A x, y, z \in S : <<x, y>> \in R /\ <<y, z>> \in R => <<x, z>> \in R
  /\ \A x, y \in S : x = y \/ <<x, y>> \in R \/ <<y, x>> \in R

InOrder(R, S, q) ==
  /\ q \in [1 .. Cardinality(S) -> S]
  /\ \A i, j \in 1 .. Cardinality(S) : i < j => <<q[i], q[j]>> \in R

\* A finite set with an element has a last one.
LEMMA LastExists ==
  ASSUME NEW S, NEW R, Orders(R, S), NEW U \in SUBSET S, IsFiniteSet(U), U # {}
  PROVE  \E m \in U : \A x \in U : x = m \/ <<x, m>> \in R
<1> DEFINE HasLast(V) == \E m \in V : \A x \in V : x = m \/ <<x, m>> \in R
           Bad == {n \in Nat : \E V \in SUBSET S : /\ IsFiniteSet(V) /\ Cardinality(V) = n
                                                   /\ V # {} /\ ~HasLast(V)}
<1> SUFFICES ASSUME ~HasLast(U) PROVE FALSE
  OBVIOUS
<1>1. Cardinality(U) \in Bad
  BY FS_CardinalityType
<1>2. PICK n \in Bad : \A k \in Bad : n <= k
  <2> HIDE DEF Bad
  <2>1. Bad \in SUBSET Nat
    BY DEF Bad
  <2> QED  BY <1>1, <2>1, LeastNumber
<1>3. PICK V \in SUBSET S : IsFiniteSet(V) /\ Cardinality(V) = n /\ V # {} /\ ~HasLast(V)
  OBVIOUS
<1>4. PICK x \in V : TRUE
  BY <1>3
<1> DEFINE W == V \ {x}
<1>5. IsFiniteSet(W) /\ Cardinality(W) = n - 1 /\ n - 1 \in Nat
  <2>1. IsFiniteSet(W) /\ Cardinality(W) = n - 1
    BY <1>3, <1>4, FS_RemoveElement
  <2> HIDE DEF W
  <2> QED  BY <2>1, FS_CardinalityType
<1>6. CASE W = {}
  <2>1. V = {x}
    BY <1>6, <1>4
  <2> QED  BY <2>1, <1>3
<1>7. CASE W # {}
  <2>1. n - 1 \notin Bad
    BY <1>2, <1>5
  <2>2. HasLast(W)
    <3> HIDE DEF HasLast
    <3> QED  BY <1>5, <1>7, <2>1
  <2>3. PICK m \in W : \A y \in W : y = m \/ <<y, m>> \in R
    BY <2>2
  <2>4. CASE <<x, m>> \in R
    <3>1. \A y \in V : y = m \/ <<y, m>> \in R
      BY <2>3, <2>4
    <3> QED  BY <3>1, <2>3, <1>3
  <2>5. CASE <<m, x>> \in R
    <3>1. \A y \in V : y = x \/ <<y, x>> \in R
      <4> TAKE y \in V
      <4>1. y = x \/ y = m \/ <<y, m>> \in R
        BY <2>3
      <4> QED  BY <4>1, <2>5, <2>3 DEF Orders
    <3> QED  BY <3>1, <1>4, <1>3
  <2> QED  BY <2>3, <2>4, <2>5, <1>4 DEF Orders
<1> QED  BY <1>6, <1>7

\* Every finite set can be listed in a strict total order.
LEMMA OrderExists ==
  ASSUME NEW S, IsFiniteSet(S), NEW R, Orders(R, S)
  PROVE  \E q : InOrder(R, S, q)
<1> DEFINE Bad == {n \in Nat : \E V \in SUBSET S : /\ Cardinality(V) = n
                                                   /\ ~ \E q : InOrder(R, V, q)}
<1> SUFFICES ASSUME ~ \E q : InOrder(R, S, q) PROVE FALSE
  OBVIOUS
<1>1. Cardinality(S) \in Bad
  BY FS_CardinalityType
<1>2. PICK n \in Bad : \A k \in Bad : n <= k
  <2> HIDE DEF Bad
  <2>1. Bad \in SUBSET Nat
    BY DEF Bad
  <2> QED  BY <1>1, <2>1, LeastNumber
<1>3. PICK V \in SUBSET S : Cardinality(V) = n /\ ~ \E q : InOrder(R, V, q)
  OBVIOUS
<1>4. IsFiniteSet(V) /\ n \in Nat
  BY FS_Subset
<1>5. V # {}
  <2> SUFFICES ASSUME V = {} PROVE FALSE
    OBVIOUS
  <2>1. n = 0
    BY <1>3, FS_EmptySet
  <2>2. InOrder(R, V, [i \in 1 .. 0 |-> 0])
    BY <1>3, <2>1 DEF InOrder
  <2> QED  BY <2>2, <1>3
<1>6. PICK m \in V : \A x \in V : x = m \/ <<x, m>> \in R
  BY <1>4, <1>5, LastExists
<1> DEFINE W == V \ {m}
<1>7. Cardinality(W) = n - 1 /\ n - 1 \in Nat /\ W \in SUBSET S
  <2>1. IsFiniteSet(W) /\ Cardinality(W) = n - 1
    BY <1>3, <1>4, FS_RemoveElement
  <2>2. Cardinality(W) \in Nat
    <3> HIDE DEF W
    <3> QED  BY <2>1, FS_CardinalityType
  <2> QED  BY <2>1, <2>2
<1>8. n - 1 \notin Bad
  BY <1>2, <1>7
<1>9. PICK q : InOrder(R, W, q)
  BY <1>7, <1>8
<1>10. /\ q \in [1 .. n - 1 -> W]
       /\ \A i, j \in 1 .. n - 1 : i < j => <<q[i], q[j]>> \in R
  BY <1>7, <1>9 DEF InOrder
<1> DEFINE r == [i \in 1 .. n |-> IF i = n THEN m ELSE q[i]]
<1>11. r \in [1 .. n -> V]
  BY <1>7, <1>10
<1>12. ASSUME NEW i \in 1 .. n, NEW j \in 1 .. n, i < j
       PROVE  <<r[i], r[j]>> \in R
  <2>1. i \in 1 .. n - 1 /\ r[i] = q[i] /\ q[i] \in W
    BY <1>7, <1>10, <1>12
  <2>2. CASE j = n
    BY <2>1, <2>2, <1>6
  <2>3. CASE j # n
    <3>1. j \in 1 .. n - 1 /\ r[j] = q[j]
      BY <2>3, <1>7
    <3> QED  BY <2>1, <3>1, <1>10, <1>12
  <2> QED  BY <2>2, <2>3
<1>13. InOrder(R, V, r)
  <2> HIDE DEF r
  <2> QED  BY <1>3, <1>11, <1>12 DEF InOrder
<1> QED  BY <1>3, <1>13

\* Such a list has every element once.
LEMMA InOrderOnce ==
  ASSUME NEW S, IsFiniteSet(S), NEW R, Orders(R, S), NEW q, InOrder(R, S, q)
  PROVE  OnceEach(q, S) /\ Len(q) = Cardinality(S)
<1> DEFINE n == Cardinality(S)
<1>1. n \in Nat /\ q \in [1 .. n -> S]
  BY FS_CardinalityType DEF InOrder
<1>2. q \in Seq(S) /\ Len(q) = n
  <2> HIDE DEF n
  <2> QED  BY <1>1
<1>3. ASSUME NEW i \in 1 .. n, NEW j \in 1 .. n, q[i] = q[j]
      PROVE  i = j
  <2>1. q[i] \in S
    BY <1>1
  <2>2. ~(i < j) /\ ~(j < i)
    BY <1>3, <2>1 DEF InOrder, Orders
  <2> QED  BY <2>2, <1>1
<1>4. ASSUME NEW x \in S
      PROVE  \E i \in 1 .. n : q[i] = x
  <2> SUFFICES ASSUME \A i \in 1 .. n : q[i] # x PROVE FALSE
    OBVIOUS
  <2> DEFINE T == S \ {x}
             D == 1 .. n
  <2>1. q \in [D -> T]
    BY <1>1
  <2>2. IsFiniteSet(T) /\ Cardinality(T) = n - 1
    BY FS_RemoveElement
  <2>3. IsFiniteSet(D) /\ Cardinality(D) = n
    <3>1. /\ IsFiniteSet(1 .. n)
          /\ Cardinality(1 .. n) = IF 1 > n THEN 0 ELSE n - 1 + 1
      <4> HIDE DEF n
      <4> QED  BY <1>1, FS_Interval
    <3> QED  BY <3>1, <1>1
  <2>4. Cardinality(T) < Cardinality(D)
    BY <2>2, <2>3, <1>1
  <2> HIDE DEF T, D
  <2>5. \E i, j \in D : i # j /\ q[i] = q[j]
    BY <2>1, <2>2, <2>3, <2>4, FS_PigeonHole
  <2> QED  BY <2>5, <1>3 DEF D
<1> QED  BY <1>2, <1>3, <1>4 DEF OnceEach

\* The order of the addresses, and of any other set of numbers.
LEMMA OrderedOnce ==
  ASSUME NEW S \in SUBSET Nat, IsFiniteSet(S)
  PROVE  OnceEach(Ordered(S), S) /\ Len(Ordered(S)) = Cardinality(S)
<1> DEFINE R == {p \in S \X S : p[1] < p[2]}
<1>1. Orders(R, S)
  BY DEF Orders
<1>2. \A q : InOrder(R, S, q) <=>
               /\ q \in [1 .. Cardinality(S) -> S]
               /\ \A i, j \in 1 .. Cardinality(S) : i < j => q[i] < q[j]
  BY DEF InOrder
<1> HIDE DEF R
<1>3. PICK q : InOrder(R, S, q)
  BY <1>1, OrderExists
<1>4. Ordered(S) = CHOOSE p \in [1 .. Cardinality(S) -> S] :
                     \A i, j \in 1 .. Cardinality(S) : i < j => p[i] < p[j]
  BY DEF Ordered, Sorted
<1>5. InOrder(R, S, Ordered(S))
  BY <1>2, <1>3, <1>4
<1> QED  BY <1>1, <1>5, InOrderOnce

\* The order in which the parked states of S are let go.
LEMMA MergeOrderOnce ==
  ASSUME NEW S \in SUBSET Nat, IsFiniteSet(S), \A s \in S : at[s] \in Nat
  PROVE  OnceEach(MergeOrder(S), S)
<1> DEFINE R == {p \in S \X S : \/ at[p[1]] < at[p[2]]
                                \/ at[p[1]] = at[p[2]] /\ p[1] < p[2]}
<1>1. Orders(R, S)
  BY DEF Orders
<1>2. \A q : InOrder(R, S, q) <=>
               /\ q \in [1 .. Cardinality(S) -> S]
               /\ \A i, j \in 1 .. Cardinality(S) :
                    i < j => (at[q[i]] < at[q[j]] \/ (at[q[i]] = at[q[j]] /\ q[i] < q[j]))
  BY DEF InOrder
<1> HIDE DEF R
<1>3. PICK q : InOrder(R, S, q)
  BY <1>1, OrderExists
<1>4. MergeOrder(S) =
        CHOOSE p \in [1 .. Cardinality(S) -> S] :
          \A i, j \in 1 .. Cardinality(S) :
            i < j => (at[p[i]] < at[p[j]] \/ (at[p[i]] = at[p[j]] /\ p[i] < p[j]))
  BY DEF MergeOrder, Sorted
<1>5. InOrder(R, S, MergeOrder(S))
  BY <1>2, <1>3, <1>4
<1> QED  BY <1>1, <1>5, InOrderOnce

-------------------------------------------------------------------------------
(* What the operations on a list of states keep.                           *)

\* erase() leaves every other state where it was.
LEMMA EraseOnce ==
  ASSUME NEW S, NEW q, OnceEach(q, S), NEW X
  PROVE  OnceEach(Erase(q, X), S \ X)
<1> DEFINE K == {i \in DOMAIN q : q[i] \notin X}
           k == Ordered(K)
           e == [n \in DOMAIN k |-> q[k[n]]]
<1>1. q \in Seq(S) /\ Len(q) \in Nat /\ DOMAIN q = 1 .. Len(q)
  BY DEF OnceEach
<1>2. K \in SUBSET Nat /\ IsFiniteSet(K) /\ K \in SUBSET (1 .. Len(q))
  <2>1. K \in SUBSET (1 .. Len(q))
    BY <1>1
  <2>2. IsFiniteSet(1 .. Len(q))
    BY <1>1, FS_Interval
  <2> DEFINE D == 1 .. Len(q)
  <2>3. IsFiniteSet(K)
    <3> HIDE DEF K, D
    <3>1. K \in SUBSET D /\ IsFiniteSet(D)
      BY <2>1, <2>2 DEF D
    <3> QED  BY <3>1, FS_Subset
  <2> HIDE DEF K
  <2> QED  BY <2>1, <2>3, <1>1
<1>3. OnceEach(k, K)
  <2> HIDE DEF K
  <2> QED  BY <1>2, OrderedOnce
<1>4. k \in Seq(K) /\ DOMAIN k = 1 .. Len(k) /\ Len(k) \in Nat
  BY <1>3 DEF OnceEach
<1>5. Erase(q, X) = e
  BY DEF Erase
<1> HIDE DEF k
<1>6. \A n \in 1 .. Len(k) : k[n] \in 1 .. Len(q) /\ q[k[n]] \in S \ X
  BY <1>1, <1>4
<1>7. e \in Seq(S \ X) /\ Len(e) = Len(k)
  <2> DEFINE m == Len(k)
  <2>1. e = [n \in 1 .. m |-> q[k[n]]] /\ m \in Nat
    BY <1>4
  <2> HIDE DEF m, e
  <2>2. e \in [1 .. m -> S \ X]
    BY <2>1, <1>6 DEF m
  <2> QED  BY <2>1, <2>2 DEF m
<1>8. \A n \in 1 .. Len(k) : e[n] = q[k[n]]
  BY <1>4
<1> HIDE DEF e
<1>9. ASSUME NEW x \in S \ X
      PROVE  \E n \in 1 .. Len(e) : e[n] = x
  <2>1. PICK i \in 1 .. Len(q) : q[i] = x
    BY DEF OnceEach
  <2>2. i \in K
    BY <2>1, <1>1
  <2>3. PICK n \in 1 .. Len(k) : k[n] = i
    BY <2>2, <1>3 DEF OnceEach
  <2> QED  BY <2>1, <2>3, <1>7, <1>8
<1>10. ASSUME NEW n \in 1 .. Len(e), NEW m \in 1 .. Len(e), e[n] = e[m]
       PROVE  n = m
  <2>1. n \in 1 .. Len(k) /\ m \in 1 .. Len(k) /\ q[k[n]] = q[k[m]]
    BY <1>7, <1>8, <1>10
  <2>2. k[n] = k[m]
    BY <2>1, <1>6 DEF OnceEach
  <2> QED  BY <2>1, <2>2, <1>3 DEF OnceEach
<1> QED  BY <1>5, <1>7, <1>9, <1>10 DEF OnceEach

\* insert() of other states.
LEMMA JoinOnce ==
  ASSUME NEW S, NEW T, S \intersect T = {}, NEW p, NEW q, OnceEach(p, S), OnceEach(q, T)
  PROVE  OnceEach(p \o q, S \union T)
<1> DEFINE m == Len(p)
           n == Len(q)
           r == p \o q
<1>1. p \in Seq(S) /\ q \in Seq(T) /\ m \in Nat /\ n \in Nat
  BY DEF OnceEach
<1>2. r \in Seq(S \union T) /\ Len(r) = m + n
  <2>1. p \in Seq(S \union T) /\ q \in Seq(S \union T)
    BY <1>1
  <2> QED  BY <2>1, ConcatProperties
<1>3. \A i \in 1 .. m + n : r[i] = IF i <= m THEN p[i] ELSE q[i - m]
  <2>1. p \in Seq(S \union T) /\ q \in Seq(S \union T)
    BY <1>1
  <2> QED  BY <2>1, ConcatProperties
<1>4. /\ \A i \in 1 .. m : p[i] \in S
      /\ \A i \in 1 .. n : q[i] \in T
  BY <1>1
<1> HIDE DEF r
<1>5. ASSUME NEW x \in S \union T
      PROVE  \E i \in 1 .. m + n : r[i] = x
  <2>1. CASE x \in S
    <3>1. PICK i \in 1 .. m : p[i] = x
      BY <2>1 DEF OnceEach
    <3>2. i \in 1 .. m + n /\ r[i] = x
      BY <3>1, <1>1, <1>3
    <3> QED  BY <3>2
  <2>2. CASE x \in T
    <3>1. PICK i \in 1 .. n : q[i] = x
      BY <2>2 DEF OnceEach
    <3>2. m + i \in 1 .. m + n /\ r[m + i] = x
      BY <3>1, <1>1, <1>3
    <3> QED  BY <3>2
  <2> QED  BY <2>1, <2>2
<1>6. ASSUME NEW i \in 1 .. m + n, NEW j \in 1 .. m + n, r[i] = r[j]
      PROVE  i = j
  <2>0. /\ \A a, b \in 1 .. m : p[a] = p[b] => a = b
        /\ \A a, b \in 1 .. n : q[a] = q[b] => a = b
    BY DEF OnceEach
  <2> HIDE DEF m, n
  <2>1. CASE i <= m /\ j <= m
    BY <1>1, <1>3, <1>6, <2>0, <2>1
  <2>2. CASE ~(i <= m) /\ ~(j <= m)
    <3>1. i - m \in 1 .. n /\ j - m \in 1 .. n /\ q[i - m] = q[j - m]
      BY <1>1, <1>3, <1>6, <2>2
    <3>2. i - m = j - m
      BY <3>1, <2>0
    <3> QED  BY <3>2, <1>1
  <2>3. CASE i <= m /\ ~(j <= m)
    <3>1. p[i] \in S /\ q[j - m] \in T /\ p[i] = q[j - m]
      BY <1>1, <1>3, <1>4, <1>6, <2>3
    <3> QED  BY <3>1
  <2>4. CASE ~(i <= m) /\ j <= m
    <3>1. p[j] \in S /\ q[i - m] \in T /\ p[j] = q[i - m]
      BY <1>1, <1>3, <1>4, <1>6, <2>4
    <3> QED  BY <3>1
  <2> QED  BY <2>1, <2>2, <2>3, <2>4
<1> QED  BY <1>2, <1>5, <1>6 DEF OnceEach, r

\* ConcolicDFSSearcher exchanges its last two states.
LEMMA SwapOnce ==
  ASSUME NEW S, NEW q, OnceEach(q, S), Len(q) >= 2
  PROVE  OnceEach(SwapLast(q), S)
<1> DEFINE n == Len(q)
           r == [q EXCEPT ![n] = q[n - 1], ![n - 1] = q[n]]
<1>1. q \in Seq(S) /\ n \in Nat /\ n - 1 \in 1 .. n /\ n \in 1 .. n
  BY DEF OnceEach
<1>2. r \in Seq(S) /\ Len(r) = n
  BY <1>1
<1>3. \A i \in 1 .. n : r[i] = IF i = n THEN q[n - 1] ELSE IF i = n - 1 THEN q[n] ELSE q[i]
  BY <1>1
<1>4. SwapLast(q) = r
  BY DEF SwapLast
<1>5. /\ \A x \in S : \E i \in 1 .. n : q[i] = x
      /\ \A i, j \in 1 .. n : q[i] = q[j] => i = j
  BY DEF OnceEach
<1> HIDE DEF n, r
<1>6. ASSUME NEW x \in S
      PROVE  \E i \in 1 .. n : r[i] = x
  <2>1. PICK i \in 1 .. n : q[i] = x
    BY <1>5
  <2>2. r[n] = q[n - 1] /\ r[n - 1] = q[n] /\ (i # n /\ i # n - 1 => r[i] = q[i])
    BY <1>1, <1>3
  <2> QED  BY <2>1, <2>2, <1>1
<1>7. ASSUME NEW i \in 1 .. n, NEW j \in 1 .. n, r[i] = r[j]
      PROVE  i = j
  BY <1>1, <1>3, <1>5, <1>7
<1> QED  BY <1>2, <1>4, <1>6, <1>7 DEF OnceEach, n

\* The elements of such a list are the set, and it is empty when the set is.
LEMMA RangeOnce ==
  ASSUME NEW S, NEW q, OnceEach(q, S)
  PROVE  Range(q) = S /\ (q = <<>> <=> S = {})
<1>1. q \in Seq(S) /\ DOMAIN q = 1 .. Len(q) /\ \A i \in DOMAIN q : q[i] \in S
  BY DEF OnceEach
<1>2. Range(q) = S
  BY <1>1 DEF Range, OnceEach
<1>3. q = <<>> <=> S = {}
  <2>1. CASE q = <<>>
    <3>1. Len(q) = 0
      BY <2>1
    <3> QED  BY <3>1, <2>1 DEF OnceEach
  <2>2. CASE S = {}
    <3>1. Len(q) = 0
      <4> SUFFICES ASSUME Len(q) # 0 PROVE FALSE
        OBVIOUS
      <4>1. 1 \in DOMAIN q
        BY <1>1
      <4> QED  BY <4>1, <1>1, <2>2
    <3>2. q = <<>>
      <4>1. \A p \in Seq(S) : p = <<>> <=> Len(p) = 0
        BY EmptySeq
      <4> QED  BY <3>1, <4>1, <1>1, Zenon
    <3> QED  BY <3>2, <2>2
  <2> QED  BY <2>1, <2>2
<1> QED  BY <1>2, <1>3

\* The empty list holds the empty set.
LEMMA EmptyOnce == OnceEach(<<>>, {})
BY DEF OnceEach

\* A list of one element holds its singleton.
LEMMA SingleOnce ==
  ASSUME NEW s
  PROVE  OnceEach(<<s>>, {s})
<1>1. <<s>> \in Seq({s}) /\ Len(<<s>>) = 1 /\ <<s>>[1] = s
  OBVIOUS
<1> QED  BY <1>1 DEF OnceEach

\* A list of the states of S has as many entries as S has elements.
LEMMA LengthOnce ==
  ASSUME NEW S, NEW q, OnceEach(q, S)
  PROVE  Len(q) = Cardinality(S)
<1> DEFINE n == Len(q)
           D == 1 .. n
<1>1. q \in Seq(S) /\ n \in Nat /\ q \in [D -> S]
  BY DEF OnceEach
<1>2. q \in Bijection(D, S)
  BY <1>1 DEF OnceEach, Bijection, Injection, Surjection, IsInjective
<1>3. ExistsBijection(D, S)
  BY <1>2 DEF ExistsBijection
<1>4. IsFiniteSet(D) /\ Cardinality(D) = n
  <2>1. /\ IsFiniteSet(1 .. n)
        /\ Cardinality(1 .. n) = IF 1 > n THEN 0 ELSE n - 1 + 1
    <3> HIDE DEF n
    <3> QED  BY <1>1, FS_Interval
  <2> QED  BY <2>1, <1>1
<1> HIDE DEF D
<1>5. Cardinality(S) = Cardinality(D)
  BY <1>3, <1>4, FS_Bijection
<1> QED  BY <1>4, <1>5

\* A set of states is a finite set of numbers, as Sorted needs.
LEMMA StatesAreFinite ==
  ASSUME NEW S \in SUBSET State
  PROVE  S \in SUBSET Nat /\ IsFiniteSet(S)
<1>1. MaxStates \in Nat
  BY SearcherAssumption
<1>2. IsFiniteSet(State)
  BY <1>1, FS_Interval DEF State
<1>3. State \in SUBSET Nat
  BY <1>1 DEF State
<1> QED  BY <1>2, <1>3, FS_Subset, Zenon

-------------------------------------------------------------------------------
(* The searchers inside the wrappers: each holds the states of S.          *)

Holding(cores, b, S) ==
  /\ b \in [lists : [DOMAIN cores -> Seq(State)], index : DOMAIN cores,
            lastState : State \union {NoState}, swapLastState : BOOLEAN]
  /\ \A i \in DOMAIN cores :
       IF cores[i] = "path" THEN b.lists[i] = <<>> ELSE OnceEach(b.lists[i], S)
  /\ b.lastState \in S \union {NoState}

\* One searcher's update(): nothing it asserts fails.
LEMMA CoreUpdates ==
  ASSUME NEW S \in SUBSET State, NEW A \in SUBSET State, S \intersect A = {},
         NEW list, OnceEach(list, S), NEW added, OnceEach(added, A),
         NEW R \in SUBSET (S \union A), NEW cur, cur = NoState \/ cur \in S \/ cur \in R,
         NEW kind, kind # "path", NEW swap \in BOOLEAN,
         swap => S # {} /\ A # {}
  PROVE  OnceEach(UpdateCore(kind, list, swap, cur, added, R), (S \union A) \ R)
<1>1. list \in Seq(State) /\ list # Invalid
  <2>1. list \in Seq(State)
    BY DEF OnceEach
  <2> QED  BY <2>1, SearcherAssumption
<1> DEFINE all == list \o added
<1>2. OnceEach(all, S \union A)
  BY JoinOnce
<1>3. Range(list) = S /\ Range(added) = A /\ Range(all) = S \union A
  BY <1>2, RangeOnce
<1>4. swap => Len(all) >= 2
  <2> SUFFICES ASSUME swap PROVE Len(all) >= 2
    OBVIOUS
  <2>1. list # <<>> /\ added # <<>>
    BY RangeOnce
  <2>2. list \in Seq(State) /\ added \in Seq(State)
    <3>1. added \in Seq(State)
      BY DEF OnceEach
    <3> QED  BY <3>1, <1>1
  <2>3. Len(list) >= 1 /\ Len(added) >= 1
    BY <2>1, <2>2, EmptySeq, LenProperties
  <2>4. Len(all) = Len(list) + Len(added)
    BY <2>2, ConcatProperties
  <2> QED  BY <2>2, <2>3, <2>4
<1>5. Asserts(kind, list, swap, cur, added, R)
  BY <1>3, <1>4 DEF Asserts
<1> DEFINE shown == IF kind = "concolic" /\ swap THEN SwapLast(all) ELSE all
<1>6. OnceEach(shown, S \union A)
  BY <1>2, <1>4, SwapOnce
<1>7. UpdateCore(kind, list, swap, cur, added, R) = Erase(shown, R)
  BY <1>1, <1>5 DEF UpdateCore
<1> HIDE DEF shown
<1> QED  BY <1>6, <1>7, EraseOnce

\* update() of all of them.
LEMMA UpdateHolds ==
  ASSUME NEW S \in SUBSET State, NEW A \in SUBSET State, S \intersect A = {},
         NEW b, Holding(config.cores, b, S), NEW added, OnceEach(added, A),
         NEW R \in SUBSET (S \union A), NEW cur, cur = NoState \/ cur \in S \/ cur \in R,
         b.swapLastState => S # {} /\ A # {}
  PROVE  /\ Holding(config.cores, Update(b, cur, added, R), (S \union A) \ R)
         /\ ~Update(b, cur, added, R).swapLastState
<1> DEFINE lists == [i \in DOMAIN config.cores |->
                       UpdateCore(config.cores[i], b.lists[i], b.swapLastState, cur, added, R)]
           last == ForgetLast(b.lastState, R)
           rest == (S \union A) \ R
           after == Update(b, cur, added, R)
<1>1. b \in [lists : [DOMAIN config.cores -> Seq(State)], index : DOMAIN config.cores,
             lastState : State \union {NoState}, swapLastState : BOOLEAN]
  BY DEF Holding
<1>2. after = [b EXCEPT !.lists = lists, !.swapLastState = FALSE, !.lastState = last]
  BY DEF Update
<1>3. ASSUME NEW i \in DOMAIN config.cores
      PROVE  IF config.cores[i] = "path" THEN lists[i] = <<>> ELSE OnceEach(lists[i], rest)
  <2>1. CASE config.cores[i] = "path"
    BY <2>1 DEF UpdateCore, Holding
  <2>2. CASE config.cores[i] # "path"
    <3>1. OnceEach(b.lists[i], S) /\ b.swapLastState \in BOOLEAN
      BY <2>2, <1>1 DEF Holding
    <3> DEFINE swap == b.swapLastState
               list == b.lists[i]
               kind == config.cores[i]
    <3>2. /\ OnceEach(list, S) /\ swap \in BOOLEAN /\ kind # "path"
          /\ (swap => S # {} /\ A # {})
      BY <3>1, <2>2
    <3> HIDE DEF swap, list, kind
    <3>3. OnceEach(UpdateCore(kind, list, swap, cur, added, R), rest)
      BY <3>2, CoreUpdates
    <3> QED  BY <3>3, <2>2 DEF swap, list, kind
  <2> QED  BY <2>1, <2>2
<1>4. \A i \in DOMAIN config.cores : lists[i] \in Seq(State)
  <2> TAKE i \in DOMAIN config.cores
  <2>1. CASE config.cores[i] = "path"
    <3>1. lists[i] = <<>> /\ <<>> \in Seq(State)
      BY <2>1, <1>3
    <3> QED  BY <3>1
  <2>2. CASE config.cores[i] # "path"
    <3>1. lists[i] \in Seq(rest)
      BY <2>2, <1>3 DEF OnceEach
    <3>2. rest \subseteq State
      OBVIOUS
    <3> HIDE DEF rest, lists
    <3> QED  BY <3>1, <3>2
  <2> QED  BY <2>1, <2>2
<1>5. last \in rest \union {NoState}
  BY DEF ForgetLast, Holding
<1>6. lists \in [DOMAIN config.cores -> Seq(State)] /\ rest \subseteq State
  BY <1>4
<1> HIDE DEF lists, last, rest, after
<1>7. /\ after \in [lists : [DOMAIN config.cores -> Seq(State)], index : DOMAIN config.cores,
                    lastState : State \union {NoState}, swapLastState : BOOLEAN]
      /\ after.lists = lists /\ after.lastState = last /\ after.swapLastState = FALSE
  BY <1>1, <1>2, <1>5, <1>6
<1>8. Holding(config.cores, after, rest)
  BY <1>3, <1>5, <1>7 DEF Holding
<1>9. ~after.swapLastState
  BY <1>7, Zenon
<1> QED  BY <1>8, <1>9 DEF after, rest

\* A searcher told of new states holds them besides its own, each once.
LEMMA AddHolds ==
  ASSUME NEW S \in SUBSET State, NEW A \in SUBSET State, S \intersect A = {},
         NEW b, Holding(config.cores, b, S), ~b.swapLastState, NEW added, OnceEach(added, A)
  PROVE  Holding(config.cores, AddStates(b, added), S \union A) /\ ~AddStates(b, added).swapLastState
<1>1. {} \in SUBSET (S \union A) /\ (S \union A) \ {} = S \union A
  OBVIOUS
<1>2. b.swapLastState => S # {} /\ A # {}
  BY Zenon
<1> DEFINE R == {}
           cur == NoState
<1>3. R \in SUBSET (S \union A) /\ (S \union A) \ R = S \union A /\ cur = NoState
  BY <1>1
<1> HIDE DEF R, cur
<1>4. /\ Holding(config.cores, Update(b, cur, added, R), (S \union A) \ R)
      /\ ~Update(b, cur, added, R).swapLastState
  BY <1>2, <1>3, UpdateHolds
<1> QED  BY <1>3, <1>4 DEF AddStates, R

\* A searcher told that a state is gone holds the others, each once.
LEMMA RemoveHolds ==
  ASSUME NEW S \in SUBSET State, NEW s \in S,
         NEW b, Holding(config.cores, b, S), ~b.swapLastState
  PROVE  Holding(config.cores, RemoveState(b, s), S \ {s}) /\ ~RemoveState(b, s).swapLastState
<1> DEFINE A == {}
           R == {s}
<1>1. A \in SUBSET State /\ S \intersect A = {} /\ R \in SUBSET (S \union A)
      /\ OnceEach(<<>>, A) /\ (S \union A) \ R = S \ {s}
  BY EmptyOnce
<1>2. b.swapLastState => S # {} /\ A # {}
  BY Zenon
<1> DEFINE cur == NoState
           none == <<>>
<1>3. cur = NoState /\ OnceEach(none, A)
  BY <1>1
<1> HIDE DEF A, R, cur, none
<1>4. /\ Holding(config.cores, Update(b, cur, none, R), (S \union A) \ R)
      /\ ~Update(b, cur, none, R).swapLastState
  BY <1>1, <1>2, <1>3, UpdateHolds
<1> QED  BY <1>1, <1>4 DEF RemoveState, R, cur, none

\* No assertion has failed, so the main loop goes on.
LEMMA HoldingContinues ==
  ASSUME NEW S, NEW b, Holding(config.cores, b, S), NEW next
  PROVE  Continue(b, next) <=> phase' = next
<1>1. Invalid \notin Range(b.lists)
  BY SearcherAssumption DEF Holding, Range
<1> QED  BY <1>1 DEF Continue

\* empty(), where random path is not among the searchers.
LEMMA HoldingEmpty ==
  ASSUME NEW S, NEW b, Holding(config.cores, b, S), config \in Config, "path" \notin Range(config.cores)
  PROVE  Empty(b) <=> S = {}
<1>1. config.cores \in Seq(CoreSearchType) /\ config.cores # <<>>
  BY SearcherAssumption DEF ConfigType
<1>2. 1 \in DOMAIN config.cores
  BY <1>1, EmptySeq, LenProperties
<1>3. config.cores[1] # "path"
  BY <1>2 DEF Range
<1>4. OnceEach(b.lists[1], S)
  BY <1>2, <1>3 DEF Holding
<1> QED  BY <1>3, <1>4, RangeOnce DEF Empty

-------------------------------------------------------------------------------
(* The inductive invariant.                                                *)

\* The states that the searchers inside the wrappers hold.
Held == (states \ statesAtMerge) \ pausedStates

\* What a step or a merge may have terminated: merging keeps the states it merged
\* among the parked ones, bump merging shows them to its base searcher again.
Disposable ==
  (IF config.merging = "merge" THEN statesAtMerge
   ELSE IF config.merging = "bump" THEN Held ELSE {})
  \union (IF phase = "ended" THEN {current} ELSE {})

SetsOK ==
  /\ config \in Config
  /\ phase \in {"select", "step", "ended", "done"}
  /\ states \in SUBSET State
  /\ addedStates \in SUBSET (State \ states)
  /\ removedStates \in SUBSET states
  /\ statesAtMerge \in SUBSET states
  /\ pausedStates \in SUBSET (states \ statesAtMerge)
  /\ config.merging = "none" => statesAtMerge = {}
  /\ ~config.deepening => pausedStates = {}
  /\ at \in [states -> MergePoint \union {NoPoint}]

\* What depends on where the main loop is.
LoopOK ==
  /\ phase \in {"step", "ended"} => current \in Held
  /\ phase = "select" => addedStates = {} /\ states \ pausedStates # {}
  /\ removedStates \subseteq Disposable

\* A parked state waits at a merge point, unless it was merged; then nothing parks
\* again before the instruction that follows, and a state that was merged is behind
\* the merge point.
MergeOK ==
  /\ config.merging = "merge" =>
       /\ \A s \in statesAtMerge \ removedStates : at[s] # NoPoint
       /\ phase = "select" /\ removedStates # {} =>
            Held # {} /\ \A s \in Held : at[s] = NoPoint
  /\ config.merging = "bump" /\ phase = "select" =>
       \A s \in removedStates : at[s] = NoPoint

BaseOK ==
  /\ Holding(config.cores, base, Held)
  /\ base.swapLastState => /\ FlagsReach /\ addedStates # {}
                           /\ phase \in {"step", "ended"}

SInv == SetsOK /\ LoopOK /\ MergeOK /\ BaseOK

\* The compositions are those the promise is about.
AllSupported == \A c \in Config : Supported(c)

\* What is known of a supported configuration.
LEMMA ConfigFacts ==
  ASSUME AllSupported, SInv
  PROVE  /\ config.merging \in {"none", "merge", "bump"}
         /\ config.cores \in Seq(CoreSearchType) /\ config.cores # <<>>
         /\ config.merging # "none" => "path" \notin Range(config.cores)
         /\ config.deepening => "path" \notin Range(config.cores) /\ ~config.kills
         /\ config.merging = "bump" => ~config.kills
<1>1. config \in Config /\ config \in ConfigType
  BY SearcherAssumption DEF SInv, SetsOK
<1>2. config.merging \in {"none", "merge", "bump"} /\ config.cores \in Seq(CoreSearchType)
  BY <1>1 DEF ConfigType
<1>3. Supported(config) /\ config.cores # <<>>
      /\ (config.merging = "merge" => "path" \notin Range(config.cores))
  BY <1>1, SearcherAssumption DEF AllSupported
<1> QED  BY <1>2, <1>3 DEF Supported

\* The held states are open, and neither parked nor paused.
LEMMA HeldFacts ==
  ASSUME SInv
  PROVE  /\ Held \in SUBSET State /\ Held \subseteq states
         /\ Held \intersect statesAtMerge = {} /\ Held \intersect pausedStates = {}
         /\ states = (Held \union statesAtMerge) \union pausedStates
BY DEF SInv, SetsOK, Held

\* Where random path is among the searchers, no state is held back.
LEMMA PathSeesAll ==
  ASSUME AllSupported, SInv, "path" \in Range(config.cores)
  PROVE  Held = states
BY ConfigFacts DEF SInv, SetsOK, Held

\* What selectState() of the searchers inside returns is a state they hold.
LEMMA SelectionsHeld ==
  ASSUME AllSupported, SInv, phase = "select", NEW sel \in Selections
  PROVE  /\ sel.state \in Held
         /\ Holding(config.cores, sel.base, Held) /\ ~sel.base.swapLastState
<1> DEFINE n == Len(config.cores)
           i == base.index
<1>1. config.cores \in Seq(CoreSearchType) /\ n \in Nat /\ DOMAIN config.cores = 1 .. n
  BY ConfigFacts
<1>2. Holding(config.cores, base, Held) /\ ~base.swapLastState
  BY DEF SInv, BaseOK
<1>3. base \in [lists : [DOMAIN config.cores -> Seq(State)], index : DOMAIN config.cores,
                lastState : State \union {NoState}, swapLastState : BOOLEAN]
  BY <1>2 DEF Holding
<1>4. i \in 1 .. n /\ NextIndex(i) \in 1 .. n
  BY <1>1, <1>3 DEF NextIndex
<1>5. CASE sel \in {[state |-> s, base |-> base] : s \in {base.lastState} \ {NoState}}
  <2>1. sel.base = base /\ sel.state = base.lastState /\ base.lastState # NoState
    BY <1>5
  <2> QED  BY <2>1, <1>2 DEF Holding
<1>6. ASSUME NEW s \in Candidates(config.cores[i], base.lists[i]),
             sel = [state |-> s,
                    base  |-> [base EXCEPT !.index     = NextIndex(base.index),
                                           !.lastState = IF config.batching THEN s ELSE NoState]]
      PROVE  /\ sel.state \in Held
             /\ Holding(config.cores, sel.base, Held) /\ ~sel.base.swapLastState
  <2> DEFINE kind == config.cores[i]
             list == base.lists[i]
  <2>1. s \in Held
    <3>1. CASE kind = "path"
      <4>1. "path" \in Range(config.cores)
        BY <3>1, <1>1, <1>4 DEF Range
      <4>2. s \in states
        BY <3>1, <1>6 DEF Candidates
      <4> QED  BY <4>1, <4>2, PathSeesAll
    <3>2. CASE kind # "path"
      <4>1. OnceEach(list, Held)
        BY <3>2, <1>1, <1>2, <1>4 DEF Holding
      <4>2. Range(list) = Held /\ list \in Seq(Held)
        BY <4>1, RangeOnce DEF OnceEach
      <4>3. s \in Candidates(kind, list)
        BY <1>6
      <4> HIDE DEF kind, list
      <4>4. list # <<>> => list[Len(list)] \in Held /\ Head(list) \in Held
        <5> SUFFICES ASSUME list # <<>> PROVE list[Len(list)] \in Held /\ Head(list) \in Held
          OBVIOUS
        <5>1. Len(list) \in 1 .. Len(list) /\ 1 \in 1 .. Len(list)
          BY <4>2, EmptySeq, LenProperties
        <5>2. Head(list) = list[1]
          BY <4>2
        <5> QED  BY <5>1, <5>2, <4>2
      <4> QED  BY <3>2, <4>2, <4>3, <4>4 DEF Candidates
    <3> QED  BY <3>1, <3>2
  <2> DEFINE last == IF config.batching THEN s ELSE NoState
             b == [base EXCEPT !.index = NextIndex(base.index), !.lastState = last]
  <2>2. last \in Held \union {NoState} /\ last \in State \union {NoState}
    BY <2>1, HeldFacts
  <2>3. sel.state = s /\ sel.base = b
    BY <1>6
  <2> HIDE DEF last
  <2>4. /\ b \in [lists : [DOMAIN config.cores -> Seq(State)], index : DOMAIN config.cores,
                  lastState : State \union {NoState}, swapLastState : BOOLEAN]
        /\ b.lists = base.lists /\ b.lastState = last
    BY <1>1, <1>3, <1>4, <2>2
  <2>5. b.swapLastState = base.swapLastState
    BY <1>3
  <2>6. ~b.swapLastState
    BY <2>5, <1>2, Zenon
  <2> HIDE DEF b
  <2>7. Holding(config.cores, b, Held)
    BY <2>2, <2>4, <1>2 DEF Holding
  <2>8. ~sel.base.swapLastState
    BY <2>3, <2>6, Zenon
  <2> QED  BY <2>1, <2>3, <2>7, <2>8
<1> QED  BY <1>5, <1>6 DEF Selections

\* There is something to select as long as a state is held.
LEMMA SelectionExists ==
  ASSUME AllSupported, SInv, Held # {}
  PROVE  Selections # {}
<1> DEFINE n == Len(config.cores)
           i == base.index
           kind == config.cores[i]
           list == base.lists[i]
<1>1. config.cores \in Seq(CoreSearchType) /\ n \in Nat /\ DOMAIN config.cores = 1 .. n
  BY ConfigFacts
<1>2. Holding(config.cores, base, Held)
  BY DEF SInv, BaseOK
<1>3. i \in 1 .. n
  BY <1>1, <1>2 DEF Holding
<1>4. Candidates(kind, list) # {}
  <2>1. CASE kind = "path"
    <3>1. states # {}
      BY HeldFacts
    <3> QED  BY <2>1, <3>1 DEF Candidates
  <2>2. CASE kind # "path"
    <3>1. OnceEach(list, Held)
      BY <2>2, <1>1, <1>2, <1>3 DEF Holding
    <3>2. Range(list) = Held /\ list # <<>>
      BY <3>1, RangeOnce
    <3> HIDE DEF kind, list
    <3> QED  BY <2>2, <3>2 DEF Candidates
  <2> QED  BY <2>1, <2>2
<1>5. PICK s \in Candidates(kind, list) : TRUE
  BY <1>4
<1> DEFINE sel == [state |-> s,
                   base  |-> [base EXCEPT !.index     = NextIndex(base.index),
                                          !.lastState = IF config.batching THEN s ELSE NoState]]
<1>6. sel \in Selections
  BY <1>5 DEF Selections
<1> QED  BY <1>6

-------------------------------------------------------------------------------
(* selectState(), an action at a time.                                     *)

\* A selection runs a state the base searcher holds.
LEMMA SelectStep ==
  ASSUME AllSupported, SInv, phase = "select", NEW sel \in Selections, Select(sel)
  PROVE  SInv' /\ current' \in Held
<1>1. /\ current' = sel.state /\ phase' = "step" /\ base' = sel.base
      /\ UNCHANGED <<config, states, addedStates, removedStates, at, statesAtMerge, pausedStates>>
  BY DEF Select
<1>2. /\ sel.state \in Held
      /\ Holding(config.cores, sel.base, Held) /\ ~sel.base.swapLastState
  BY SelectionsHeld
<1>3. Held' = Held
  BY <1>1 DEF Held
<1>4. SetsOK'
  BY <1>1 DEF SInv, SetsOK
<1>5. LoopOK'
  BY <1>1, <1>2, <1>3 DEF SInv, LoopOK, Disposable
<1>6. MergeOK'
  BY <1>1 DEF SInv, MergeOK
<1>7. BaseOK'
  <2>1. ~base'.swapLastState
    BY <1>1, <1>2, Zenon
  <2> QED  BY <1>1, <1>2, <1>3, <2>1 DEF BaseOK
<1> QED  BY <1>1, <1>2, <1>4, <1>5, <1>6, <1>7 DEF SInv

\* A state that reaches its merge point leaves the base searcher and waits.
LEMMA ParkStep ==
  ASSUME AllSupported, SInv, phase = "select", NEW sel \in Selections, Park(sel)
  PROVE  SInv' /\ phase' = "select"
<1> DEFINE s == sel.state
           b == RemoveState(sel.base, s)
<1>1. /\ base' = b /\ Continue(b, "select") /\ statesAtMerge' = statesAtMerge \union {s}
      /\ UNCHANGED <<config, current, states, addedStates, removedStates, at, pausedStates>>
      /\ config.merging # "none" /\ at[s] # NoPoint
  BY DEF Park, AtMerge
<1>2. /\ s \in Held /\ Holding(config.cores, sel.base, Held) /\ ~sel.base.swapLastState
  BY SelectionsHeld
<1> DEFINE c == sel.base
           H == Held \ {s}
<1>3. Holding(config.cores, b, H) /\ ~b.swapLastState
  <2>1. Held \in SUBSET State
    BY HeldFacts
  <2> HIDE DEF s
  <2>2. Holding(config.cores, c, Held) /\ ~c.swapLastState
    BY <1>2
  <2> HIDE DEF c
  <2>3. Holding(config.cores, RemoveState(c, s), H) /\ ~RemoveState(c, s).swapLastState
    BY <1>2, <2>1, <2>2, RemoveHolds
  <2> QED  BY <2>3 DEF c
<1> HIDE DEF b
<1>4. phase' = "select"
  BY <1>1, <1>3, HoldingContinues
<1>5. Held' = H
  BY <1>1 DEF Held
<1>6. s \in states /\ s \notin pausedStates /\ s \notin statesAtMerge
  BY <1>2 DEF Held
<1>7. SetsOK'
  BY <1>1, <1>4, <1>6 DEF SInv, SetsOK
<1>8. config.merging = "merge" => removedStates = {}
  BY <1>1, <1>2 DEF SInv, MergeOK
<1>9. LoopOK'
  <2>1. phase' = "select" /\ addedStates' = {} /\ states' \ pausedStates' # {}
    BY <1>1, <1>4 DEF SInv, LoopOK
  <2>2. removedStates \subseteq Disposable'
    <3>1. CASE config.merging = "merge"
      BY <3>1, <1>8
    <3>2. CASE config.merging # "merge"
      <4>1. config.merging = "bump"
        BY <3>2, <1>1, ConfigFacts
      <4>2. removedStates \subseteq Held
        BY <4>1 DEF SInv, LoopOK, Disposable
      <4>3. s \notin removedStates
        BY <4>1, <1>1 DEF SInv, MergeOK
      <4> QED  BY <4>1, <4>2, <4>3, <1>1, <1>4, <1>5 DEF Disposable
    <3> QED  BY <3>1, <3>2
  <2> QED  BY <2>1, <2>2, <1>1 DEF LoopOK
<1>10. MergeOK'
  BY <1>1, <1>8 DEF SInv, MergeOK
<1>11. BaseOK'
  <2>1. ~base'.swapLastState
    BY <1>1, <1>3, Zenon
  <2> QED  BY <1>1, <1>3, <1>5, <2>1 DEF BaseOK
<1> QED  BY <1>4, <1>7, <1>9, <1>10, <1>11 DEF SInv

\* One state more.
LEMMA AddOneHolds ==
  ASSUME NEW S \in SUBSET State, NEW p \in State, p \notin S,
         NEW b, Holding(config.cores, b, S), ~b.swapLastState
  PROVE  /\ Holding(config.cores, AddStates(b, <<p>>), S \union {p})
         /\ ~AddStates(b, <<p>>).swapLastState
<1> DEFINE A == {p}
           one == <<p>>
<1>1. A \in SUBSET State /\ S \intersect A = {} /\ OnceEach(one, A)
  BY SingleOnce
<1> HIDE DEF A, one
<1>2. Holding(config.cores, AddStates(b, one), S \union A) /\ ~AddStates(b, one).swapLastState
  BY <1>1, AddHolds
<1> QED  BY <1>2 DEF A, one

\* One state out, another in, as bump merging and the merging searcher do.
LEMMA ExchangeHolds ==
  ASSUME AllSupported, SInv, phase = "select", NEW sel \in Selections,
         NEW p \in State, p \notin Held \ {sel.state}
  PROVE  LET b == AddStates(RemoveState(sel.base, sel.state), <<p>>)
         IN  /\ Holding(config.cores, b, (Held \ {sel.state}) \union {p})
             /\ ~b.swapLastState
<1> DEFINE s == sel.state
           c == sel.base
           S == Held \ {s}
           r == RemoveState(c, s)
<1>1. s \in Held /\ Holding(config.cores, c, Held) /\ ~c.swapLastState
      /\ Held \in SUBSET State
  BY SelectionsHeld, HeldFacts
<1> HIDE DEF s, c
<1>2. Holding(config.cores, r, S) /\ ~r.swapLastState
  BY <1>1, RemoveHolds
<1>3. S \in SUBSET State /\ p \notin S
  BY <1>1 DEF s
<1> HIDE DEF r, S
<1>4. Holding(config.cores, AddStates(r, <<p>>), S \union {p}) /\ ~AddStates(r, <<p>>).swapLastState
  BY <1>2, <1>3, AddOneHolds
<1> QED  BY <1>4 DEF s, c, r, S

\* A successful bump merge: the selected state goes out and, spent, comes back.
LEMMA BumpMergeStep ==
  ASSUME AllSupported, SInv, phase = "select", NEW sel \in Selections, BumpMerge(sel)
  PROVE  SInv' /\ phase' = "select"
<1> DEFINE s == sel.state
           b == AddStates(RemoveState(sel.base, s), <<s>>)
<1>1. /\ base' = b /\ Continue(b, "select") /\ removedStates' = removedStates \union {s}
      /\ at' = [x \in states |-> IF x = s THEN NoPoint ELSE at[x]]
      /\ UNCHANGED <<config, current, states, addedStates, statesAtMerge, pausedStates>>
      /\ config.merging = "bump"
  BY DEF BumpMerge, StepPast
<1>2. s \in Held /\ s \in State /\ s \in states
  BY SelectionsHeld, HeldFacts
<1>3. Holding(config.cores, b, Held) /\ ~b.swapLastState
  <2>1. s \in State /\ s \notin Held \ {s}
    BY <1>2
  <2>2. (Held \ {s}) \union {s} = Held
    BY <1>2
  <2>3. Holding(config.cores, b, (Held \ {s}) \union {s}) /\ ~b.swapLastState
    BY <2>1, ExchangeHolds
  <2> HIDE DEF b, s
  <2> QED  BY <2>2, <2>3
<1> HIDE DEF b, s
<1>4. phase' = "select"
  BY <1>1, <1>3, HoldingContinues
<1>5. Held' = Held
  BY <1>1 DEF Held
<1>6. SetsOK'
  BY <1>1, <1>2, <1>4 DEF SInv, SetsOK
<1>7. LoopOK'
  BY <1>1, <1>2, <1>4, <1>5 DEF SInv, LoopOK, Disposable
<1>8. MergeOK'
  BY <1>1, <1>2 DEF SInv, MergeOK, SetsOK
<1>9. BaseOK'
  <2>1. ~base'.swapLastState
    BY <1>1, <1>3, Zenon
  <2> QED  BY <1>1, <1>3, <1>5, <2>1 DEF BaseOK
<1> QED  BY <1>4, <1>6, <1>7, <1>8, <1>9 DEF SInv

\* A failed bump merge: the parked state goes on and the selected one waits.
LEMMA BumpStep ==
  ASSUME AllSupported, SInv, phase = "select", NEW sel \in Selections, Bump(sel)
  PROVE  SInv' /\ phase' = "select"
<1> DEFINE s == sel.state
<1>0. PICK p \in ParkedWith(s) :
        /\ base' = AddStates(RemoveState(sel.base, s), <<p>>)
        /\ statesAtMerge' = (statesAtMerge \ {p}) \union {s}
        /\ at' = StepPast({p})
  BY DEF Bump
<1> DEFINE b == AddStates(RemoveState(sel.base, s), <<p>>)
<1>1. /\ base' = b /\ Continue(b, "select")
      /\ statesAtMerge' = (statesAtMerge \ {p}) \union {s}
      /\ at' = [x \in states |-> IF x = p THEN NoPoint ELSE at[x]]
      /\ UNCHANGED <<config, current, states, addedStates, removedStates, pausedStates>>
      /\ config.merging = "bump" /\ at[s] # NoPoint
  BY <1>0 DEF Bump, StepPast, AtMerge
<1>2. s \in Held /\ s \in State /\ s \in states /\ s \notin statesAtMerge /\ s \notin pausedStates
  BY SelectionsHeld, HeldFacts
<1>3. p \in statesAtMerge /\ p \in State /\ p \in states /\ p \notin Held
      /\ p \notin pausedStates /\ p # s
  BY <1>2, HeldFacts DEF ParkedWith, SInv, SetsOK
<1>4. Holding(config.cores, b, (Held \ {s}) \union {p}) /\ ~b.swapLastState
  BY <1>3, ExchangeHolds
<1> HIDE DEF b, s
<1>5. phase' = "select"
  BY <1>1, <1>4, HoldingContinues
<1>6. Held' = (Held \ {s}) \union {p}
  BY <1>1, <1>2, <1>3 DEF Held
<1>7. SetsOK'
  BY <1>1, <1>2, <1>3, <1>5 DEF SInv, SetsOK
<1>8. s \notin removedStates /\ removedStates \subseteq Held
  BY <1>1 DEF SInv, MergeOK, LoopOK, Disposable
<1>9. LoopOK'
  BY <1>1, <1>5, <1>6, <1>8 DEF SInv, LoopOK, Disposable
<1>10. MergeOK'
  BY <1>1 DEF SInv, MergeOK, SetsOK
<1>11. BaseOK'
  <2>1. ~base'.swapLastState
    BY <1>1, <1>4, Zenon
  <2> QED  BY <1>1, <1>4, <1>6, <2>1 DEF BaseOK
<1> QED  BY <1>5, <1>7, <1>9, <1>10, <1>11 DEF SInv

\* A parked state goes back to the base searcher.
LEMMA PopParkedStep ==
  ASSUME AllSupported, SInv, phase = "select", NEW p \in statesAtMerge, PopParked(p)
  PROVE  SInv' /\ phase' = "select"
<1> DEFINE b == AddStates(base, <<p>>)
<1>1. /\ base' = b /\ Continue(b, "select") /\ statesAtMerge' = statesAtMerge \ {p}
      /\ at' = [x \in states |-> IF x = p THEN NoPoint ELSE at[x]]
      /\ UNCHANGED <<config, current, states, addedStates, removedStates, pausedStates>>
      /\ config.merging = "bump"
  BY DEF PopParked, StepPast
<1>2. p \in State /\ p \in states /\ p \notin Held /\ p \notin pausedStates
      /\ Held \in SUBSET State
  BY HeldFacts DEF SInv, SetsOK
<1>3. Holding(config.cores, b, Held \union {p}) /\ ~b.swapLastState
  <2>1. Holding(config.cores, base, Held) /\ ~base.swapLastState
    BY DEF SInv, BaseOK
  <2> QED  BY <2>1, <1>2, AddOneHolds
<1> HIDE DEF b
<1>4. phase' = "select"
  BY <1>1, <1>3, HoldingContinues
<1>5. Held' = Held \union {p}
  BY <1>1, <1>2 DEF Held
<1>6. SetsOK'
  BY <1>1, <1>2, <1>4 DEF SInv, SetsOK
<1>7. LoopOK'
  BY <1>1, <1>4, <1>5 DEF SInv, LoopOK, Disposable
<1>8. MergeOK'
  BY <1>1 DEF SInv, MergeOK, SetsOK
<1>9. BaseOK'
  <2>1. ~base'.swapLastState
    BY <1>1, <1>3, Zenon
  <2> QED  BY <1>1, <1>3, <1>5, <2>1 DEF BaseOK
<1> QED  BY <1>4, <1>6, <1>7, <1>8, <1>9 DEF SInv

\* With nothing left to select, the parked states are merged and go back.
LEMMA MergeAllStep ==
  ASSUME AllSupported, SInv, phase = "select", NEW merged \in SUBSET statesAtMerge,
         MergeAll(merged)
  PROVE  SInv' /\ phase' = "select"
<1> DEFINE S == statesAtMerge \ merged
           b == AddStates(base, MergeOrder(S))
<1>1. /\ base' = b /\ Continue(b, "select") /\ statesAtMerge' = merged
      /\ removedStates' = removedStates \union merged
      /\ at' = [x \in states |-> IF x \in statesAtMerge THEN NoPoint ELSE at[x]]
      /\ UNCHANGED <<config, current, states, addedStates, pausedStates>>
      /\ config.merging = "merge" /\ Empty(base) /\ statesAtMerge # {}
  BY DEF MergeAll, StepPast
<1>2. Holding(config.cores, base, Held) /\ ~base.swapLastState
  BY DEF SInv, BaseOK
<1>3. Held = {}
  BY <1>1, <1>2, HoldingEmpty, ConfigFacts DEF SInv, SetsOK
<1>4. removedStates = {}
  BY <1>1, <1>3 DEF SInv, MergeOK
<1>5. /\ S \in SUBSET State /\ S \subseteq states
      /\ \A s \in S : at[s] \in Nat
  <2>1. S \in SUBSET State /\ S \subseteq states
    BY DEF SInv, SetsOK
  <2>2. ASSUME NEW s \in S PROVE at[s] \in Nat
    <3>1. at[s] \in MergePoint \union {NoPoint} /\ at[s] # NoPoint
      BY <1>1, <1>4, <2>1 DEF SInv, SetsOK, MergeOK
    <3> QED  BY <3>1, SearcherAssumption
  <2> QED  BY <2>1, <2>2
<1>6. S # {}
  BY <1>1 DEF MergeAll
<1> HIDE DEF S
<1>7. Holding(config.cores, b, S) /\ ~b.swapLastState
  <2> DEFINE q == MergeOrder(S)
  <2>1. OnceEach(q, S)
    BY <1>5, StatesAreFinite, MergeOrderOnce
  <2>2. {} \in SUBSET State /\ {} \intersect S = {} /\ {} \union S = S
    OBVIOUS
  <2> HIDE DEF q
  <2> DEFINE E == {}
  <2>3. /\ E \in SUBSET State /\ E \intersect S = {} /\ E \union S = S
        /\ Holding(config.cores, base, E)
    BY <1>2, <1>3
  <2> HIDE DEF E
  <2>4. Holding(config.cores, AddStates(base, q), E \union S) /\ ~AddStates(base, q).swapLastState
    BY <2>1, <2>3, <1>2, <1>5, AddHolds
  <2> QED  BY <2>3, <2>4 DEF q
<1> HIDE DEF b
<1>8. phase' = "select"
  BY <1>1, <1>7, HoldingContinues
<1>9. Held' = S
  BY <1>1, <1>3 DEF Held, S, SInv, SetsOK
<1>10. SetsOK'
  BY <1>1, <1>8 DEF SInv, SetsOK
<1>11. LoopOK'
  BY <1>1, <1>4, <1>8, <1>9 DEF SInv, LoopOK, Disposable
<1>12. MergeOK'
  BY <1>1, <1>4, <1>5, <1>6, <1>9 DEF MergeOK, S
<1>13. BaseOK'
  <2>1. ~base'.swapLastState
    BY <1>1, <1>7, Zenon
  <2> QED  BY <1>1, <1>7, <1>9, <2>1 DEF BaseOK
<1> QED  BY <1>8, <1>10, <1>11, <1>12, <1>13 DEF SInv

\* A searcher always has a state to offer.
LEMMA NothingStep ==
  ASSUME AllSupported, SInv, phase = "select"
  PROVE  ~SelectNothing
<1>1. Holding(config.cores, base, Held) /\ config \in Config
  BY DEF SInv, BaseOK, SetsOK
<1>2. states \ pausedStates # {}
  BY DEF SInv, LoopOK
<1>3. CASE config.merging # "none" /\ Empty(base)
  <2>1. Held = {}
    BY <1>1, <1>3, HoldingEmpty, ConfigFacts
  <2>2. statesAtMerge # {}
    BY <2>1, <1>2, HeldFacts
  <2> QED  BY <2>2, <1>3 DEF SelectNothing
<1>4. CASE ~(config.merging # "none" /\ Empty(base))
  <2>1. Held # {}
    <3>1. CASE config.merging = "none"
      <4>1. statesAtMerge = {}
        BY <3>1 DEF SInv, SetsOK
      <4> QED  BY <4>1, <1>2, HeldFacts
    <3>2. CASE config.merging # "none"
      BY <3>2, <1>1, <1>4, HoldingEmpty, ConfigFacts
    <3> QED  BY <3>1, <3>2
  <2>2. Selections # {}
    BY <2>1, SelectionExists
  <2> QED  BY <2>2, <1>4 DEF SelectNothing
<1> QED  BY <1>3, <1>4

-------------------------------------------------------------------------------
(* The instruction, and update().                                          *)

\* The flag of the batching searchers is not part of what a searcher holds.
LEMMA FlagHolds ==
  ASSUME SInv, NEW flag \in BOOLEAN
  PROVE  LET b == [base EXCEPT !.swapLastState = flag]
         IN  Holding(config.cores, b, Held) /\ (b.swapLastState <=> flag)
<1> DEFINE b == [base EXCEPT !.swapLastState = flag]
<1>1. Holding(config.cores, base, Held)
  BY DEF SInv, BaseOK
<1>2. base \in [lists : [DOMAIN config.cores -> Seq(State)], index : DOMAIN config.cores,
                lastState : State \union {NoState}, swapLastState : BOOLEAN]
  BY <1>1 DEF Holding
<1>3. /\ b \in [lists : [DOMAIN config.cores -> Seq(State)], index : DOMAIN config.cores,
                lastState : State \union {NoState}, swapLastState : BOOLEAN]
      /\ b.lists = base.lists /\ b.lastState = base.lastState /\ b.swapLastState = flag
  BY <1>2
<1> HIDE DEF b
<1>4. Holding(config.cores, b, Held)
  BY <1>1, <1>3 DEF Holding
<1>5. b.swapLastState <=> flag
  BY <1>3, Zenon
<1> QED  BY <1>4, <1>5 DEF b

\* A fork adds its state to those the searcher will be told of.
LEMMA ForkStep ==
  ASSUME AllSupported, SInv, NEW s \in Active, NEW t \in State,
         NEW newSide \in BOOLEAN, NEW seedTrue \in BOOLEAN, Fork(s, t, newSide, seedTrue)
  PROVE  SInv'
<1> DEFINE set  == FlagsReach /\ seeded = s /\ seedTrue
           flag == base.swapLastState \/ set
           b    == [base EXCEPT !.swapLastState = flag]
<1>1. /\ phase \in {"step", "ended"} /\ t \notin states /\ addedStates' = addedStates \union {t}
      /\ base' = b
      /\ UNCHANGED <<config, phase, current, states, removedStates, at, statesAtMerge,
                     pausedStates>>
  BY DEF Fork
<1>2. flag \in BOOLEAN
  OBVIOUS
<1>3. base.swapLastState => FlagsReach
  BY DEF SInv, BaseOK
<1>4. flag => FlagsReach
  BY <1>3, Zenon
<1> HIDE DEF flag
<1>5. Holding(config.cores, b, Held) /\ (b.swapLastState <=> flag)
  BY <1>2, FlagHolds
<1> HIDE DEF b
<1>6. Held' = Held
  BY <1>1 DEF Held
<1>7. SetsOK'
  BY <1>1 DEF SInv, SetsOK
<1>8. LoopOK'
  BY <1>1, <1>6 DEF SInv, LoopOK, Disposable
<1>9. MergeOK'
  BY <1>1 DEF SInv, MergeOK
<1>10. BaseOK'
  <2>1. base'.swapLastState => FlagsReach' /\ addedStates' # {} /\ phase' \in {"step", "ended"}
    <3>1. FlagsReach' <=> FlagsReach
      BY <1>1 DEF FlagsReach
    <3>2. addedStates' # {} /\ phase' \in {"step", "ended"}
      BY <1>1
    <3>3. base'.swapLastState => flag
      BY <1>1, <1>5, Zenon
    <3> QED  BY <3>1, <3>2, <3>3, <1>4, Zenon
  <2> QED  BY <1>1, <1>5, <1>6, <2>1 DEF BaseOK
<1> QED  BY <1>7, <1>8, <1>9, <1>10 DEF SInv

\* A terminated state joins those the searcher will be told are gone.
LEMMA TerminateStateStep ==
  ASSUME AllSupported, SInv, NEW s \in Active, TerminateState(s)
  PROVE  SInv'
<1>1. /\ phase \in {"step", "ended"}
      /\ UNCHANGED <<config, current, states, at, statesAtMerge, pausedStates>>
  BY DEF TerminateState
<1>2. Held' = Held
  BY <1>1 DEF Held
<1>3. CASE s \in addedStates
  <2> DEFINE flag == base.swapLastState /\ ~FlagsReach
             b    == [base EXCEPT !.swapLastState = flag]
  <2>1. /\ addedStates' = addedStates \ {s} /\ base' = b
        /\ UNCHANGED <<phase, removedStates>>
    BY <1>3 DEF TerminateState
  <2>2. base.swapLastState => FlagsReach
    BY DEF SInv, BaseOK
  <2>3. flag \in BOOLEAN /\ ~flag
    BY <2>2, Zenon
  <2> HIDE DEF flag
  <2>4. Holding(config.cores, b, Held) /\ (b.swapLastState <=> flag)
    BY <2>3, FlagHolds
  <2> HIDE DEF b
  <2>5. SetsOK'
    BY <1>1, <2>1 DEF SInv, SetsOK
  <2>6. LoopOK'
    BY <1>1, <1>2, <2>1 DEF SInv, LoopOK, Disposable
  <2>7. MergeOK'
    BY <1>1, <2>1 DEF SInv, MergeOK
  <2>8. BaseOK'
    <3>1. ~base'.swapLastState
      BY <2>1, <2>3, <2>4, Zenon
    <3> QED  BY <1>1, <1>2, <2>1, <2>4, <3>1 DEF BaseOK
  <2> QED  BY <2>5, <2>6, <2>7, <2>8 DEF SInv
<1>4. CASE s \notin addedStates
  <2>1. /\ phase' = "ended" /\ removedStates' = removedStates \union {s}
        /\ UNCHANGED <<addedStates, base>>
    BY <1>4 DEF TerminateState
  <2>2. s = current /\ phase = "step" /\ current \in Held /\ current \in states
    BY <1>1, <1>4, HeldFacts DEF Active, SInv, LoopOK
  <2>3. SetsOK'
    BY <1>1, <2>1, <2>2 DEF SInv, SetsOK
  <2>4. LoopOK'
    BY <1>1, <1>2, <2>1, <2>2 DEF SInv, LoopOK, Disposable
  <2>5. MergeOK'
    BY <1>1, <2>1 DEF SInv, MergeOK
  <2>6. BaseOK'
    <3>1. FlagsReach' <=> FlagsReach
      BY <1>1 DEF FlagsReach
    <3> QED  BY <1>1, <1>2, <2>1, <3>1 DEF SInv, BaseOK
  <2> QED  BY <2>3, <2>4, <2>5, <2>6 DEF SInv
<1> QED  BY <1>3, <1>4

\* updateStates(): what is removed is held or new, the searchers hold what remains,
\* and paused states come back before the main loop finds nothing to select.
LEMMA UpdateStatesStep ==
  ASSUME AllSupported, SInv, NEW killed \in SUBSET states, NEW elapsed \in BOOLEAN,
         NEW next \in [{current} \union addedStates -> Points],
         UpdateStates(killed, elapsed, next)
  PROVE  SInv'
<1> DEFINE dead    == removedStates \union killed
           parked  == IF config.merging = "merge" THEN statesAtMerge \ dead ELSE statesAtMerge
           new     == Ordered(addedStates)
           R       == BelowMerge(dead \ pausedStates)
           updated == Update(base, current, new, R)
           pause   == elapsed /\ current \notin dead
           paused  == IF pause THEN pausedStates \union {current} ELSE pausedStates
           left    == IF pause THEN RemoveState(updated, current) ELSE updated
           restart == config.deepening /\ Empty(left) /\ parked = {}
           after   == IF restart THEN AddStates(left, Ordered(paused)) ELSE left
           rest    == (states \union addedStates) \ dead
           still   == StillPaused(paused, restart)
           H1      == (rest \ parked) \ pausedStates
           H2      == (rest \ parked) \ paused
<1>1. /\ phase \in {"step", "ended"} /\ (killed # {} => config.kills) /\ (elapsed => config.deepening)
      /\ base' = after /\ statesAtMerge' = parked /\ pausedStates' = still
      /\ states' = rest /\ addedStates' = {} /\ removedStates' = {} /\ config' = config
  BY DEF UpdateStates
<1>2. /\ IF dead \intersect pausedStates = {}
         THEN Continue(after, IF rest = {} THEN "done" ELSE "select")
         ELSE phase' = "failed"
      /\ at' = [s \in rest |-> IF s \in {current} \union addedStates THEN next[s] ELSE at[s]]
  BY DEF UpdateStates
<1>3. /\ current \in Held /\ current \in states /\ current \notin statesAtMerge
      /\ current \notin pausedStates /\ Held \in SUBSET State
  BY <1>1, HeldFacts DEF SInv, LoopOK
<1>4. /\ states \in SUBSET State /\ addedStates \in SUBSET State /\ addedStates \intersect states = {}
      /\ statesAtMerge \subseteq states /\ pausedStates \subseteq states
      /\ statesAtMerge \intersect pausedStates = {}
      /\ removedStates \subseteq states /\ killed \subseteq states
      /\ (config.merging = "none" => statesAtMerge = {})
      /\ (~config.deepening => pausedStates = {})
  BY DEF SInv, SetsOK
<1>5. dead \subseteq states /\ dead \intersect pausedStates = {}
  <2>1. removedStates \intersect pausedStates = {}
    BY <1>3, <1>4, HeldFacts DEF SInv, LoopOK, Disposable
  <2>2. killed \intersect pausedStates = {}
    BY <1>1, <1>4, ConfigFacts
  <2> QED  BY <2>1, <2>2, <1>4
<1>6. /\ R \subseteq Held
      /\ (Held \union addedStates) \ R = H1
      /\ parked \subseteq rest /\ parked \intersect pausedStates = {}
      /\ current \notin parked /\ (config.merging = "none" => parked = {})
  <2>1. dead \ pausedStates = dead
    BY <1>5
  <2>2. CASE config.merging = "merge"
    <3>1. R = dead \ statesAtMerge /\ parked = statesAtMerge \ dead
      BY <2>1, <2>2 DEF BelowMerge
    <3> HIDE DEF R, dead, parked
    <3>2. /\ R \subseteq Held
          /\ (Held \union addedStates) \ R = H1
      BY <3>1, <1>4, <1>5 DEF Held
    <3> QED  BY <3>1, <3>2, <2>2, <1>3, <1>4
  <2>3. CASE config.merging # "merge"
    <3>1. R = dead /\ parked = statesAtMerge
      BY <2>1, <2>3 DEF BelowMerge
    <3>2. dead \intersect statesAtMerge = {}
      <4>1. CASE config.merging = "none"
        BY <4>1, <1>4
      <4>2. CASE config.merging = "bump"
        <5>1. killed = {}
          BY <4>2, <1>1, ConfigFacts
        <5>2. removedStates \subseteq Held
          BY <4>2, <1>3 DEF SInv, LoopOK, Disposable
        <5> QED  BY <5>1, <5>2, HeldFacts
      <4> QED  BY <2>3, <4>1, <4>2, ConfigFacts
    <3> HIDE DEF R, dead, parked
    <3>3. /\ R \subseteq Held
          /\ (Held \union addedStates) \ R = H1
      BY <3>1, <3>2, <1>4, <1>5 DEF Held
    <3> QED  BY <3>1, <3>2, <3>3, <1>3, <1>4
  <2> QED  BY <2>2, <2>3
<1>7. H1 \in SUBSET State /\ H2 \in SUBSET State /\ rest \in SUBSET State
  BY <1>4
<1>8. OnceEach(new, addedStates)
  BY <1>4, StatesAreFinite, OrderedOnce
<1>9. Holding(config.cores, updated, H1) /\ ~updated.swapLastState
  <2>1. Holding(config.cores, base, Held)
    BY DEF SInv, BaseOK
  <2>2. base.swapLastState => Held # {} /\ addedStates # {}
    <3>1. base.swapLastState => addedStates # {}
      BY DEF SInv, BaseOK
    <3>2. Held # {}
      BY <1>3
    <3> QED  BY <3>1, <3>2, Zenon
  <2>3. R \in SUBSET (Held \union addedStates) /\ Held \intersect addedStates = {}
    BY <1>4, <1>6 DEF Held
  <2> HIDE DEF R, new, H1
  <2>4. /\ Holding(config.cores, Update(base, current, new, R), (Held \union addedStates) \ R)
        /\ ~Update(base, current, new, R).swapLastState
    BY <2>1, <2>2, <2>3, <1>3, <1>4, <1>8, UpdateHolds
  <2> QED  BY <2>4, <1>6
<1> HIDE DEF updated, new, R
<1>10. Holding(config.cores, left, H2) /\ ~left.swapLastState
  <2>1. CASE pause
    <3>1. current \in H1 /\ H2 = H1 \ {current}
      BY <2>1, <1>3, <1>6
    <3>2. left = RemoveState(updated, current)
      BY <2>1
    <3> HIDE DEF H1, H2, left
    <3>3. /\ Holding(config.cores, RemoveState(updated, current), H1 \ {current})
          /\ ~RemoveState(updated, current).swapLastState
      BY <3>1, <1>7, <1>9, RemoveHolds
    <3> QED  BY <3>1, <3>2, <3>3
  <2>2. CASE ~pause
    <3>1. H2 = H1 /\ left = updated
      BY <2>2
    <3> QED  BY <3>1, <1>9
  <2> QED  BY <2>1, <2>2
<1>11. /\ paused \subseteq rest /\ paused \in SUBSET State /\ paused \intersect parked = {}
       /\ (~config.deepening => paused = {})
  BY <1>1, <1>3, <1>4, <1>5, <1>6
<1> HIDE DEF left, paused, parked, rest
<1>12. restart => paused \intersect H2 = {} /\ H2 \union paused = rest
  BY <1>11
<1>13. Holding(config.cores, after, (rest \ parked) \ still) /\ ~after.swapLastState
  <2>1. CASE restart
    <3>1. still = {} /\ (rest \ parked) \ still = rest /\ after = AddStates(left, Ordered(paused))
      BY <2>1 DEF StillPaused
    <3>2. H2 \union paused = rest /\ H2 \intersect paused = {}
      BY <2>1, <1>12
    <3> DEFINE q == Ordered(paused)
    <3>3. OnceEach(q, paused)
      BY <1>11, StatesAreFinite, OrderedOnce
    <3> HIDE DEF H2, q, restart, after
    <3>4. /\ Holding(config.cores, AddStates(left, q), H2 \union paused)
          /\ ~AddStates(left, q).swapLastState
      BY <3>2, <3>3, <1>7, <1>10, <1>11, AddHolds
    <3> QED  BY <3>1, <3>2, <3>4 DEF q
  <2>2. CASE ~restart
    <3>1. still = paused /\ after = left
      BY <2>2 DEF StillPaused
    <3> QED  BY <3>1, <1>10
  <2> QED  BY <2>1, <2>2
<1>14. phase' = IF rest = {} THEN "done" ELSE "select"
  <2> DEFINE go == IF rest = {} THEN "done" ELSE "select"
  <2>1. Continue(after, go)
    BY <1>2, <1>5
  <2> HIDE DEF after, go
  <2>2. phase' = go
    BY <2>1, <1>13, HoldingContinues
  <2> QED  BY <2>2 DEF go
<1>15. still \subseteq paused /\ (rest # {} => rest \ still # {})
  <2>1. CASE restart
    BY <2>1 DEF StillPaused
  <2>2. CASE ~restart
    <3>1. still = paused
      BY <2>2 DEF StillPaused
    <3> SUFFICES ASSUME rest # {}, rest \ paused = {} PROVE FALSE
      BY <3>1
    <3>2. H2 = {} /\ parked = {} /\ paused # {}
      BY <1>6, <1>11 DEF rest, parked
    <3>3. config.deepening
      BY <3>2, <1>11
    <3>4. Empty(left)
      BY <3>2, <3>3, <1>10, HoldingEmpty, ConfigFacts DEF SInv, SetsOK
    <3> QED  BY <3>2, <3>3, <3>4, <2>2
  <2> QED  BY <2>1, <2>2
<1> HIDE DEF after, still, restart
<1>16. Held' = (rest \ parked) \ still
  BY <1>1 DEF Held
<1>17. SetsOK'
  <2>1. parked \subseteq rest /\ still \subseteq rest \ parked
    BY <1>6, <1>11, <1>15 DEF parked, rest
  <2>2. at' \in [rest -> MergePoint \union {NoPoint}]
    <3> SUFFICES ASSUME NEW s \in rest
                 PROVE  (IF s \in {current} \union addedStates THEN next[s] ELSE at[s])
                          \in MergePoint \union {NoPoint}
      BY <1>2
    <3>1. CASE s \in {current} \union addedStates
      BY <3>1 DEF Points
    <3>2. CASE s \notin {current} \union addedStates
      BY <3>2 DEF rest, SInv, SetsOK
    <3> QED  BY <3>1, <3>2
  <2>3. (config.merging = "none" => parked = {}) /\ (~config.deepening => still = {})
    BY <1>6, <1>11, <1>15 DEF parked
  <2>4. config \in Config
    BY DEF SInv, SetsOK
  <2> QED  BY <2>1, <2>2, <2>3, <2>4, <1>1, <1>7, <1>14 DEF SetsOK, rest
<1>18. LoopOK'
  BY <1>1, <1>14, <1>15 DEF LoopOK
<1>19. MergeOK'
  <2>1. ASSUME config.merging = "merge", NEW s \in parked PROVE at'[s] # NoPoint
    <3>1. s \in statesAtMerge \ removedStates /\ s \in rest
          /\ s \notin {current} \union addedStates
      BY <2>1, <1>3, <1>4, <1>6 DEF parked, rest
    <3>2. at'[s] = at[s]
      BY <3>1, <1>2
    <3> QED  BY <3>1, <3>2, <2>1 DEF SInv, MergeOK
  <2> QED  BY <2>1, <1>1 DEF MergeOK
<1>20. BaseOK'
  <2>1. ~base'.swapLastState
    BY <1>1, <1>13, Zenon
  <2> QED  BY <1>1, <1>13, <1>16, <2>1 DEF BaseOK
<1> QED  BY <1>17, <1>18, <1>19, <1>20 DEF SInv

\* At first the searcher holds the one initial state.
LEMMA InitSInv ==
  ASSUME AllSupported, Init
  PROVE  SInv
<1>1. PICK s \in State :
        /\ states = {s}
        /\ at = [x \in {s} |-> NoPoint]
        /\ base = [lists |-> [i \in DOMAIN config.cores |->
                               IF config.cores[i] = "path" THEN <<>> ELSE <<s>>],
                   index |-> 1, lastState |-> NoState, swapLastState |-> FALSE]
  BY DEF Init
<1>2. /\ config \in Config /\ phase = "select"
      /\ addedStates = {} /\ removedStates = {} /\ statesAtMerge = {} /\ pausedStates = {}
  BY DEF Init
<1>3. Held = {s}
  BY <1>1, <1>2 DEF Held
<1>4. 1 \in DOMAIN config.cores
  <2>1. config.cores \in Seq(CoreSearchType) /\ config.cores # <<>>
    BY <1>2, SearcherAssumption DEF ConfigType
  <2> QED  BY <2>1, EmptySeq, LenProperties
<1>5. SetsOK
  BY <1>1, <1>2 DEF SetsOK
<1>6. LoopOK
  BY <1>1, <1>2 DEF LoopOK
<1>7. MergeOK
  BY <1>2 DEF MergeOK
<1>8. BaseOK
  <2> DEFINE one == <<s>>
             lists == [i \in DOMAIN config.cores |->
                         IF config.cores[i] = "path" THEN <<>> ELSE one]
  <2>1. OnceEach(one, {s}) /\ one \in Seq(State) /\ <<>> \in Seq(State)
    BY SingleOnce
  <2> HIDE DEF one
  <2>2. lists \in [DOMAIN config.cores -> Seq(State)]
    BY <2>1
  <2>3. \A i \in DOMAIN config.cores :
          IF config.cores[i] = "path" THEN lists[i] = <<>> ELSE OnceEach(lists[i], {s})
    BY <2>1
  <2>4. base = [lists |-> lists, index |-> 1, lastState |-> NoState, swapLastState |-> FALSE]
    BY <1>1 DEF one
  <2> HIDE DEF lists
  <2>5. Holding(config.cores, base, {s})
    BY <2>2, <2>3, <2>4, <1>4 DEF Holding
  <2>6. ~base.swapLastState
    <3>1. base.swapLastState = FALSE
      BY <2>4
    <3> QED  BY <3>1, Zenon
  <2> QED  BY <2>5, <2>6, <1>3 DEF BaseOK
<1> QED  BY <1>5, <1>6, <1>7, <1>8 DEF SInv

\* A step keeps the invariant, and the main loop goes on only with a state held.
LEMMA NextSInv ==
  ASSUME AllSupported, SInv, [Next]_vars
  PROVE  SInv' /\ (phase = "select" /\ phase' = "step" => current' \in Held)
<1>1. CASE UNCHANGED vars
  <2>1. /\ UNCHANGED <<config, phase, current, states, addedStates, removedStates, at,
                       base, statesAtMerge, pausedStates>>
    BY <1>1 DEF vars, executor, searchers
  <2>2. Held' = Held /\ (FlagsReach' <=> FlagsReach)
    BY <2>1 DEF Held, FlagsReach
  <2>3. SetsOK' /\ MergeOK'
    BY <2>1, <2>2 DEF SInv, SetsOK, MergeOK
  <2>4. LoopOK'
    BY <2>1, <2>2 DEF SInv, LoopOK, Disposable
  <2>5. BaseOK'
    BY <2>1, <2>2 DEF SInv, BaseOK
  <2> QED  BY <2>1, <2>3, <2>4, <2>5 DEF SInv
<1>2. CASE SelectState
  <2>1. phase = "select"
    BY <1>2 DEF SelectState
  <2>2. CASE \E p \in statesAtMerge : PopParked(p)
    BY <2>1, <2>2, PopParkedStep
  <2>3. CASE \E merged \in SUBSET statesAtMerge : MergeAll(merged)
    BY <2>1, <2>3, MergeAllStep
  <2>4. CASE SelectNothing
    BY <2>1, <2>4, NothingStep
  <2>5. CASE \E sel \in Selections : Select(sel) \/ Park(sel) \/ BumpMerge(sel) \/ Bump(sel)
    <3>1. PICK sel \in Selections : Select(sel) \/ Park(sel) \/ BumpMerge(sel) \/ Bump(sel)
      BY <2>5
    <3>2. CASE Select(sel)
      BY <2>1, <3>2, SelectStep
    <3>3. CASE Park(sel)
      BY <2>1, <3>3, ParkStep
    <3>4. CASE BumpMerge(sel)
      BY <2>1, <3>4, BumpMergeStep
    <3>5. CASE Bump(sel)
      BY <2>1, <3>5, BumpStep
    <3> QED  BY <3>1, <3>2, <3>3, <3>4, <3>5
  <2> QED  BY <1>2, <2>2, <2>3, <2>4, <2>5 DEF SelectState
<1>3. CASE Step
  <2>1. CASE \E s \in Active : TerminateState(s)
    <3>1. SInv' /\ phase # "select"
      BY <2>1, TerminateStateStep DEF TerminateState
    <3> QED  BY <3>1
  <2>2. CASE \E s \in Active, t \in State, newSide, seedTrue \in BOOLEAN :
               Fork(s, t, newSide, seedTrue)
    <3>1. SInv' /\ phase # "select"
      BY <2>2, ForkStep DEF Fork
    <3> QED  BY <3>1
  <2>3. CASE \E killed \in SUBSET states, elapsed \in BOOLEAN,
               next \in [{current} \union addedStates -> Points] :
               UpdateStates(killed, elapsed, next)
    <3>1. SInv'
      BY <2>3, UpdateStatesStep
    <3>2. phase # "select"
      BY <2>3 DEF UpdateStates
    <3> QED  BY <3>1, <3>2
  <2> QED  BY <1>3, <2>1, <2>2, <2>3 DEF Step
<1> QED  BY <1>1, <1>2, <1>3 DEF Next

-------------------------------------------------------------------------------
(* The theorems.                                                           *)

\* In the compositions that Supported admits, no searcher is asked to remove or
\* update a state it does not hold or to insert one it holds, and none is asked for
\* a state when it has none.
THEOREM SearchersNeverFail ==
  ASSUME AllSupported
  PROVE  Spec => []SearcherOK
<1>1. Init => SInv
  BY InitSInv
<1>2. SInv /\ [Next]_vars => SInv'
  BY NextSInv
<1>3. SInv => SearcherOK
  BY DEF SInv, SetsOK, SearcherOK
<1> QED  BY <1>1, <1>2, <1>3, PTL DEF Spec

\* Each core searcher with states of its own holds each state of the executor once,
\* but for those that a merging searcher parks or the deepening one pauses.
THEOREM EachStateHeldOnce ==
  ASSUME AllSupported
  PROVE  Spec => []HeldOnce
<1>1. Init => SInv
  BY InitSInv
<1>2. SInv /\ [Next]_vars => SInv'
  BY NextSInv
<1>3. SInv => HeldOnce
  <2> SUFFICES ASSUME SInv PROVE HeldOnce
    OBVIOUS
  <2>1. Holding(config.cores, base, Held)
    BY DEF SInv, BaseOK
  <2>2. ASSUME NEW i \in DOMAIN config.cores, config.cores[i] # "path"
        PROVE  Range(base.lists[i]) = Held /\ Len(base.lists[i]) = Cardinality(Held)
    <3>1. OnceEach(base.lists[i], Held)
      BY <2>1, <2>2 DEF Holding
    <3> QED  BY <3>1, RangeOnce, LengthOnce
  <2>3. base.lastState \in Held \union {NoState}
    BY <2>1 DEF Holding
  <2>4. statesAtMerge \union pausedStates \subseteq states
        /\ statesAtMerge \intersect pausedStates = {}
    BY DEF SInv, SetsOK
  <2> QED  BY <2>2, <2>3, <2>4 DEF HeldOnce, Held
<1> QED  BY <1>1, <1>2, <1>3, PTL DEF Spec

\* The main loop never executes a state that is deleted, parked or paused, nor, but for
\* bump merging, one that a merge or the memory cap has terminated.
THEOREM OnlyOpenStatesExecute ==
  ASSUME AllSupported
  PROVE  Spec => ExecutesOpen
<1> DEFINE Opens == phase = "select" /\ phase' = "step"
                      => /\ current' \in (states \ statesAtMerge) \ pausedStates
                         /\ config.merging # "bump" => current' \notin removedStates
<1>1. Init => SInv
  BY InitSInv
<1>2. SInv /\ [Next]_vars => SInv'
  BY NextSInv
<1>3. SInv /\ [Next]_vars => [Opens]_vars
  <2> SUFFICES ASSUME SInv, Next, phase = "select", phase' = "step"
               PROVE  /\ current' \in (states \ statesAtMerge) \ pausedStates
                      /\ config.merging # "bump" => current' \notin removedStates
    OBVIOUS
  <2>1. current' \in Held
    BY NextSInv
  <2>2. config.merging # "bump" => removedStates \intersect Held = {}
    BY HeldFacts DEF SInv, LoopOK, Disposable
  <2> QED  BY <2>1, <2>2 DEF Held
<1> QED  BY <1>1, <1>2, <1>3, PTL DEF Spec, ExecutesOpen
===============================================================================
