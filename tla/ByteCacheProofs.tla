---------------------------- MODULE ByteCacheProofs ----------------------------
(***************************************************************************)
(* The cache invariants of ObjectState, the agreement of its cache with    *)
(* the array behind it, and that the object is an array of bytes: for      *)
(* objects of every size, every stored expression and every external       *)
(* function.                                                               *)
(***************************************************************************)
EXTENDS ByteCache, FiniteSetTheorems, SequenceTheorems, WellFoundedInduction, TLAPS

\* The types of the masks, which the cache invariants rest on.
CacheType ==
  /\ concreteMask \in [Offset -> BOOLEAN] \union {Null}
  /\ flushMask \in [Offset -> BOOLEAN] \union {Null}
  /\ knownSymbolics \in [Offset -> Expr(Byte) \union {Null}]

IInv == CacheType /\ CacheInvariants

\* Null is none of the masks, expressions and arrays: the marking operators
\* tell a missing mask from a mask.
LEMMA NullIsDistinct ==
  /\ Null \notin [Offset -> BOOLEAN]
  /\ Null \notin Expr(Byte)
  /\ \A e \in SymbolicByte : e \in Expr(Byte) /\ e # Null
BY CacheAssumption

\* The masks keep their types under the marking operators
\* (markByteConcrete, markByteSymbolic, markByteUnflushed).
LEMMA MaskTypes ==
  ASSUME CacheType, NEW O
  PROVE  /\ MarkConcrete(O) \in [Offset -> BOOLEAN] \union {Null}
         /\ MarkSymbolic(O) \in [Offset -> BOOLEAN]
         /\ MarkUnflushed(O) \in [Offset -> BOOLEAN] \union {Null}
BY DEF CacheType, MarkConcrete, MarkSymbolic, MarkUnflushed, Mask, AllSet

\* A new object state satisfies the invariant: makeSymbolic flushes every byte,
\* the other constructors leave every byte concrete.
LEMMA InitCache == Init => IInv
<1> SUFFICES ASSUME Init PROVE IInv
  OBVIOUS
<1>1. CacheType
  BY DEF Init, CacheType
<1>2. CacheInvariants
  BY NullIsDistinct DEF Init, CacheInvariants, IsByteConcrete, IsByteFlushed, IsByteKnownSymbolic
<1> QED
  BY <1>1, <1>2 DEF IInv

\* Every operation on the object state preserves it.
LEMMA NextCache == IInv /\ [Next]_vars => IInv'
<1> SUFFICES ASSUME IInv, [Next]_vars PROVE IInv'
  OBVIOUS
<1> USE NullIsDistinct
<1>t. CacheType /\ CacheInvariants
  BY DEF IInv
<1>1. ASSUME NEW o \in Offset, NEW b \in Byte, WriteConcrete(o, b) PROVE IInv'
  <2>1. CacheType'
    BY <1>t, <1>1, MaskTypes DEF WriteConcrete, CacheType
  <2>2. ASSUME NEW p \in Offset
        PROVE  /\ IsByteKnownSymbolic(p)' => ~IsByteConcrete(p)'
               /\ ~IsByteFlushed(p)' => IsByteConcrete(p)' \/ IsByteKnownSymbolic(p)'
    BY <1>t, <1>1 DEF WriteConcrete, CacheType, CacheInvariants, IsByteConcrete, IsByteFlushed,
         IsByteKnownSymbolic, MarkConcrete, MarkUnflushed, Mask
  <2> QED
    BY <2>1, <2>2 DEF IInv, CacheInvariants
<1>2. ASSUME NEW o \in Offset, NEW e \in SymbolicByte, WriteSymbolic(o, e) PROVE IInv'
  <2>1. CacheType'
    BY <1>t, <1>2, MaskTypes DEF WriteSymbolic, CacheType
  <2>2. ASSUME NEW p \in Offset
        PROVE  /\ IsByteKnownSymbolic(p)' => ~IsByteConcrete(p)'
               /\ ~IsByteFlushed(p)' => IsByteConcrete(p)' \/ IsByteKnownSymbolic(p)'
    BY <1>t, <1>2 DEF WriteSymbolic, CacheType, CacheInvariants, IsByteConcrete, IsByteFlushed,
         IsByteKnownSymbolic, MarkSymbolic, MarkUnflushed, Mask, AllSet
  <2> QED
    BY <2>1, <2>2 DEF IInv, CacheInvariants
<1>3. ASSUME NEW i, NEW e, WriteAt(i, e) PROVE IInv'
  <2>1. CacheType'
    BY <1>t, <1>3, MaskTypes DEF WriteAt, EmptyCache, CacheType
  <2>2. ASSUME NEW p \in Offset
        PROVE  ~IsByteKnownSymbolic(p)' /\ IsByteFlushed(p)'
    BY <1>3 DEF WriteAt, EmptyCache, IsByteFlushed, IsByteKnownSymbolic
  <2> QED
    BY <2>1, <2>2 DEF IInv, CacheInvariants
<1>4. CASE UNCHANGED <<concreteMask, flushMask, knownSymbolics>>
  BY <1>t, <1>4 DEF IInv, CacheType, CacheInvariants, IsByteConcrete, IsByteFlushed,
       IsByteKnownSymbolic
<1>5. CASE ReadAt
  <2>1. CacheType'
    BY <1>t, <1>5 DEF ReadAt, CacheType
  <2>2. ASSUME NEW p \in Offset
        PROVE  /\ IsByteKnownSymbolic(p)' => ~IsByteConcrete(p)'
               /\ IsByteFlushed(p)'
    BY <1>t, <1>5 DEF ReadAt, CacheInvariants, IsByteConcrete, IsByteFlushed, IsByteKnownSymbolic
  <2> QED
    BY <2>1, <2>2 DEF IInv, CacheInvariants
<1>6. ASSUME NEW o \in Offset, Read(o) PROVE UNCHANGED <<concreteMask, flushMask, knownSymbolics>>
  BY <1>6 DEF Read
<1>7. ASSUME NEW store, CopyIn(store) PROVE UNCHANGED <<concreteMask, flushMask, knownSymbolics>>
  BY <1>7 DEF CopyIn
<1> QED
  BY <1>1, <1>2, <1>3, <1>4, <1>5, <1>6, <1>7 DEF Next, vars

\* Memory.cpp's "Cache Invariants" hold of every object state at all times: no
\* byte is cached both ways, and the asserts of flushRangeForRead,
\* flushRangeForWrite and read8 on the cache cannot fail.
THEOREM CacheConsistent == Spec => []CacheInvariants
<1>1. IInv => CacheInvariants
  BY DEF IInv
<1> QED
  BY <1>1, InitCache, NextCache, PTL DEF Spec

-------------------------------------------------------------------------------
(* Sets of numbers.                                                        *)

\* Sets of numbers have a least element: getUpdates stops at the first write that
\* is not constant.
LEMMA LeastNumber ==
  ASSUME NEW T \in SUBSET Nat, T # {}
  PROVE  \E m \in T : \A k \in T : m <= k
<1> DEFINE Below == {0 .. k : k \in T}
<1>1. Below \subseteq FiniteSubsetsOf(Nat)
  <2>1. ASSUME NEW k \in T PROVE 0 .. k \in SUBSET Nat /\ IsFiniteSet(0 .. k)
    BY FS_Interval
  <2> QED
    BY <2>1 DEF FiniteSubsetsOf
<1>2. PICK B \in Below : \A C \in Below : ~(<<C, B>> \in StrictSubsetOrdering(Nat))
  <2>1. Below # {}
    OBVIOUS
  <2> HIDE DEF Below
  <2> QED
    BY <1>1, <2>1, WFMin, FS_StrictSubsetOrderingWellFounded
<1>3. PICK m \in T : B = 0 .. m
  OBVIOUS
<1>4. ASSUME NEW k \in T PROVE m <= k
  <2>1. SUFFICES ASSUME k < m PROVE FALSE
    OBVIOUS
  <2>2. 0 .. k \subseteq 0 .. m /\ 0 .. k # 0 .. m /\ 0 .. k \in SUBSET Nat /\ 0 .. m \in SUBSET Nat
    <3>1. m \in 0 .. m /\ m \notin 0 .. k
      BY <2>1
    <3> QED
      BY <2>1, <3>1
  <2>3. 0 .. k \in Below
    OBVIOUS
  <2> QED
    BY <1>2, <1>3, <2>2, <2>3 DEF StrictSubsetOrdering
<1> QED
  BY <1>4

\* A set of numbers up to n has a greatest one: ReadFrom takes the last hit.
LEMMA GreatestNumber ==
  ASSUME NEW n \in Nat, NEW T \in SUBSET (1 .. n), T # {}
  PROVE  \E m \in T : \A k \in T : k <= m
<1> DEFINE Gaps == {n - k : k \in T}
<1>1. Gaps \in SUBSET Nat /\ Gaps # {}
  <2>1. ASSUME NEW k \in T PROVE n - k \in Nat
    <3>1. k \in 1 .. n
      OBVIOUS
    <3> QED
      BY <3>1
  <2> QED
    BY <2>1
<1> HIDE DEF Gaps
<1>2. PICK g \in Gaps : \A h \in Gaps : g <= h
  BY <1>1, LeastNumber
<1> USE DEF Gaps
<1>3. PICK m \in T : g = n - m
  OBVIOUS
<1>4. ASSUME NEW k \in T PROVE k <= m
  <2>1. n - k \in Gaps
    OBVIOUS
  <2>2. n - m <= n - k
    BY <1>2, <1>3, <2>1
  <2> QED
    BY <2>2
<1> QED
  BY <1>4

-------------------------------------------------------------------------------
(* Reading an array behind its updates.                                    *)

Update == [index : Expr(Offset), value : Expr(Byte)]

Hit(w, k, v, o) == w[k].index.of[v] = o
LastHit(w, k, v, o) ==
  /\ k \in DOMAIN w /\ Hit(w, k, v, o)
  /\ \A j \in DOMAIN w : Hit(w, j, v, o) => j <= k
NoHit(w, v, o) == \A k \in DOMAIN w : ~Hit(w, k, v, o)

\* ReadFrom is the value of the last write that hits, or the initial byte.
LEMMA ReadLastHit ==
  ASSUME NEW r, NEW w \in Seq(Update), NEW v, NEW o, NEW k, LastHit(w, k, v, o)
  PROVE  ReadFrom(r, w, v, o) = w[k].value.of[v]
<1> DEFINE hits == {j \in DOMAIN w : w[j].index.of[v] = o}
           last == CHOOSE j \in hits : \A i \in hits : i =< j
<1>1. DOMAIN w \subseteq Int
  <2>1. DOMAIN w = 1 .. Len(w)
    BY LenProperties
  <2> QED
    BY <2>1
<1>2. k \in hits /\ \A i \in hits : i =< k
  BY DEF LastHit, Hit
<1>3. last \in hits /\ \A i \in hits : i =< last
  BY <1>2
<1>4. last = k
  <2>1. last =< k /\ k =< last
    BY Zenon, <1>2, <1>3
  <2>2. last \in Int /\ k \in Int
    BY Zenon, <1>1, <1>2, <1>3
  <2> HIDE DEF last
  <2> QED
    BY <2>1, <2>2
<1> QED
  BY <1>2, <1>4 DEF ReadFrom

\* Without a hit it is the initial byte.
LEMMA ReadNoHit ==
  ASSUME NEW r, NEW w, NEW v, NEW o, NoHit(w, v, o)
  PROVE  ReadFrom(r, w, v, o) = IF r = Null THEN 0 ELSE r[v][o]
BY DEF ReadFrom, NoHit, Hit

\* A list of writes misses an offset, or one of its writes there is the last.
LEMMA HitOrNot ==
  ASSUME NEW w \in Seq(Update), NEW v, NEW o
  PROVE  NoHit(w, v, o) \/ \E k \in DOMAIN w : LastHit(w, k, v, o)
<1>1. Len(w) \in Nat /\ DOMAIN w = 1 .. Len(w)
  BY LenProperties
<1> DEFINE hits == {k \in DOMAIN w : Hit(w, k, v, o)}
<1>2. CASE hits = {}
  BY <1>2 DEF NoHit
<1>3. CASE hits # {}
  <2>1. hits \in SUBSET (1 .. Len(w))
    BY <1>1
  <2> HIDE DEF hits
  <2>2. \E k \in hits : \A j \in hits : j <= k
    BY <1>1, <1>3, <2>1, GreatestNumber
  <2> USE DEF hits
  <2> QED
    BY <2>2 DEF LastHit
<1> QED
  BY <1>2, <1>3

\* The writes of s \o t are those of s and, behind them, those of t.
LEMMA ConcatWrites ==
  ASSUME NEW s \in Seq(Update), NEW t \in Seq(Update)
  PROVE  /\ s \o t \in Seq(Update) /\ DOMAIN (s \o t) \subseteq Int
         /\ Len(s) \in Nat /\ DOMAIN s \subseteq 1 .. Len(s) /\ DOMAIN t \subseteq Nat \ {0}
         /\ \A i \in DOMAIN s : i \in DOMAIN (s \o t) /\ (s \o t)[i] = s[i]
         /\ \A i \in DOMAIN t : i + Len(s) \in DOMAIN (s \o t) /\ (s \o t)[i + Len(s)] = t[i]
         /\ \A i \in DOMAIN (s \o t) :
              \/ i \in DOMAIN s
              \/ i > Len(s) /\ i - Len(s) \in DOMAIN t /\ (s \o t)[i] = t[i - Len(s)]
<1>1. /\ Len(s) \in Nat /\ DOMAIN s = 1 .. Len(s)
      /\ Len(t) \in Nat /\ DOMAIN t = 1 .. Len(t)
  BY LenProperties
<1>2. /\ s \o t \in Seq(Update) /\ Len(s \o t) = Len(s) + Len(t)
      /\ DOMAIN (s \o t) = 1 .. Len(s) + Len(t)
      /\ \A i \in 1 .. Len(s) + Len(t) :
           (s \o t)[i] = IF i <= Len(s) THEN s[i] ELSE t[i - Len(s)]
  BY <1>1, ConcatProperties, LenProperties
<1>3. ASSUME NEW i \in DOMAIN s PROVE i \in DOMAIN (s \o t) /\ (s \o t)[i] = s[i]
  BY <1>1, <1>2
<1>4. ASSUME NEW i \in DOMAIN t
      PROVE  i + Len(s) \in DOMAIN (s \o t) /\ (s \o t)[i + Len(s)] = t[i]
  <2>1. /\ i \in Int /\ i + Len(s) \in 1 .. Len(s) + Len(t)
        /\ ~(i + Len(s) <= Len(s)) /\ (i + Len(s)) - Len(s) = i
    BY <1>1
  <2> QED
    BY <1>2, <2>1
<1>5. ASSUME NEW i \in 1 .. Len(s) + Len(t), i \notin DOMAIN s
      PROVE  i > Len(s) /\ i - Len(s) \in DOMAIN t /\ (s \o t)[i] = t[i - Len(s)]
  <2>1. i > Len(s) /\ ~(i <= Len(s)) /\ i - Len(s) \in 1 .. Len(t)
    BY <1>1, <1>5
  <2> QED
    BY <1>1, <1>2, <2>1
<1>6. DOMAIN (s \o t) \subseteq Int /\ DOMAIN t \subseteq Nat \ {0}
  BY <1>1, <1>2
<1> QED
  BY <1>1, <1>2, <1>3, <1>4, <1>5, <1>6

\* A write hides those before it where it hits.
LEMMA ReadBehind ==
  ASSUME NEW r, NEW s \in Seq(Update), NEW t \in Seq(Update), NEW v, NEW o, NEW k,
         LastHit(t, k, v, o)
  PROVE  ReadFrom(r, s \o t, v, o) = t[k].value.of[v]
<1> DEFINE st == s \o t
           n  == Len(s)
<1>1. /\ st \in Seq(Update) /\ DOMAIN st \subseteq Int /\ n \in Nat /\ DOMAIN t \subseteq Nat \ {0}
      /\ DOMAIN s \subseteq 1 .. n
      /\ \A i \in DOMAIN t : i + n \in DOMAIN st /\ st[i + n] = t[i]
      /\ \A i \in DOMAIN st :
           \/ i \in DOMAIN s
           \/ i > n /\ i - n \in DOMAIN t /\ st[i] = t[i - n]
  BY ConcatWrites
<1> HIDE DEF st, n
<1>2. k \in DOMAIN t /\ Hit(t, k, v, o) /\ k \in Nat \ {0}
  BY <1>1 DEF LastHit
<1>3. k + n \in DOMAIN st /\ Hit(st, k + n, v, o)
  BY <1>1, <1>2 DEF Hit
<1>4. ASSUME NEW j \in DOMAIN st, Hit(st, j, v, o) PROVE j <= k + n
  <2>1. CASE j \in DOMAIN s
    BY <1>1, <1>2, <2>1
  <2>2. CASE j > n /\ j - n \in DOMAIN t /\ st[j] = t[j - n]
    <3>1. j - n <= k
      BY <1>4, <2>2 DEF LastHit, Hit
    <3> QED
      BY <1>1, <1>2, <3>1
  <2> QED
    BY <1>1, <2>1, <2>2
<1>5. LastHit(st, k + n, v, o)
  BY <1>3, <1>4 DEF LastHit
<1>6. ReadFrom(r, st, v, o) = st[k + n].value.of[v]
  BY <1>1, <1>5, ReadLastHit
<1> QED
  BY <1>1, <1>2, <1>6 DEF st

\* And those that miss show what was there before.
LEMMA ReadThrough ==
  ASSUME NEW r, NEW s \in Seq(Update), NEW t \in Seq(Update), NEW v, NEW o, NoHit(t, v, o)
  PROVE  ReadFrom(r, s \o t, v, o) = ReadFrom(r, s, v, o)
<1> DEFINE st == s \o t
<1>1. /\ st \in Seq(Update)
      /\ \A i \in DOMAIN s : i \in DOMAIN st /\ st[i] = s[i]
      /\ \A i \in DOMAIN st : i \in DOMAIN s \/ \E j \in DOMAIN t : st[i] = t[j]
  BY ConcatWrites
<1> HIDE DEF st
<1>2. ASSUME NEW j \in DOMAIN st, Hit(st, j, v, o) PROVE j \in DOMAIN s /\ Hit(s, j, v, o)
  BY <1>1, <1>2 DEF NoHit, Hit
<1>3. CASE NoHit(s, v, o)
  <2>1. NoHit(st, v, o)
    BY <1>2, <1>3 DEF NoHit
  <2> QED
    BY <1>3, <2>1, ReadNoHit DEF st
<1>4. ASSUME NEW k, LastHit(s, k, v, o) PROVE ReadFrom(r, st, v, o) = ReadFrom(r, s, v, o)
  <2>1. k \in DOMAIN st /\ Hit(st, k, v, o) /\ st[k] = s[k]
    BY <1>1, <1>4 DEF LastHit, Hit
  <2>2. ASSUME NEW j \in DOMAIN st, Hit(st, j, v, o) PROVE j <= k
    BY <1>2, <1>4, <2>2 DEF LastHit
  <2>3. LastHit(st, k, v, o)
    BY <2>1, <2>2 DEF LastHit
  <2>4. ReadFrom(r, st, v, o) = st[k].value.of[v]
    BY <1>1, <2>3, ReadLastHit
  <2>5. ReadFrom(r, s, v, o) = s[k].value.of[v]
    BY <1>4, ReadLastHit
  <2> QED
    BY <2>1, <2>4, <2>5
<1> QED
  BY <1>3, <1>4, HitOrNot DEF st

\* flushRangeForWrite's write lands in front of all others.
LEMMA ReadAppended ==
  ASSUME NEW r, NEW w \in Seq(Update), NEW u \in Update, NEW v, NEW o
  PROVE  ReadFrom(r, Append(w, u), v, o) =
           IF u.index.of[v] = o THEN u.value.of[v] ELSE ReadFrom(r, w, v, o)
<1>1. PICK t \in Seq(Update) : DOMAIN t = {1} /\ t[1] = u /\ Append(w, u) = w \o t
  <2>1. <<u>> \in Seq(Update) /\ DOMAIN <<u>> = {1} /\ <<u>>[1] = u
    OBVIOUS
  <2> QED
    BY <2>1, AppendIsConcat
<1>2. CASE u.index.of[v] = o
  <2>1. LastHit(t, 1, v, o)
    BY <1>1, <1>2 DEF LastHit, Hit
  <2> QED
    BY <1>1, <1>2, <2>1, ReadBehind
<1>3. CASE u.index.of[v] # o
  <2>1. NoHit(t, v, o)
    BY <1>1, <1>3 DEF NoHit, Hit
  <2> QED
    BY <1>1, <1>3, <2>1, ReadThrough
<1> QED
  BY <1>2, <1>3

-------------------------------------------------------------------------------
(* getUpdates: the constant writes at the front become an array.           *)

Bytes == [Valuation -> [Offset -> Byte]]

\* The types of what is behind the cache.
DataType ==
  /\ concreteStore \in [Offset -> Byte]
  /\ root \in Bytes \union {Null}
  /\ updates \in Seq(Update)

\* An array holds bytes.
LEMMA ReadType ==
  ASSUME NEW r \in Bytes \union {Null}, NEW w \in Seq(Update), NEW v \in Valuation, NEW o \in Offset
  PROVE  ReadFrom(r, w, v, o) \in Byte
<1>1. CASE NoHit(w, v, o)
  <2>1. 0 \in Byte
    BY CacheAssumption
  <2>2. r # Null => r[v][o] \in Byte
    BY DEF Bytes
  <2> QED
    BY <1>1, <2>1, <2>2, ReadNoHit
<1>2. ASSUME NEW k, LastHit(w, k, v, o) PROVE ReadFrom(r, w, v, o) \in Byte
  <2>1. k \in 1 .. Len(w)
    BY <1>2, LenProperties DEF LastHit
  <2>2. w[k] \in Update
    BY <2>1, ElementOfSeq
  <2>3. w[k].value.of[v] \in Byte
    BY <2>2 DEF Update, Expr
  <2> QED
    BY <1>2, <2>3, ReadLastHit
<1> QED
  BY <1>1, <1>2, HitOrNot

\* getUpdates finds where the constant writes end.
LEMMA PrefixExists ==
  ASSUME NEW w \in Seq(Update)
  PROVE  ConstantPrefix(w) \in 0 .. Len(w)
<1> DEFINE Const(k) == w[k].index.constant /\ w[k].value.constant
           Ends     == {n \in 0 .. Len(w) : n = Len(w) \/ ~Const(n + 1)}
<1>1. Len(w) \in Nat
  BY LenProperties
<1>2. PICK n \in Ends : \A k \in Ends : n <= k
  <2>1. Ends \in SUBSET Nat /\ Len(w) \in Ends
    BY <1>1
  <2> HIDE DEF Ends
  <2> QED
    BY <2>1, LeastNumber
<1>3. ASSUME NEW k \in 1 .. n PROVE Const(k)
  <2>1. k - 1 \in 0 .. Len(w) /\ ~(n <= k - 1) /\ (k - 1) + 1 = k
    BY <1>1
  <2>2. k - 1 \notin Ends
    BY <1>2, <2>1
  <2> HIDE DEF Const
  <2> QED
    BY <2>1, <2>2
<1>4. n \in 0 .. Len(w) /\ (n = Len(w) \/ ~Const(n + 1))
  OBVIOUS
<1> QED
  BY <1>3, <1>4 DEF ConstantPrefix

\* What getUpdates makes of the writes w reads as they do.
LEMMA ReadSplit ==
  ASSUME DataType, NEW w \in Seq(Update)
  PROVE  /\ UpdatesOf(w) \in Seq(Update)
         /\ RootOf(w) \in Bytes
         /\ \A v \in Valuation, o \in Offset :
              ReadFrom(RootOf(w), UpdatesOf(w), v, o) = ReadFrom(root, w, v, o)
<1>1. CASE root # Null
  BY <1>1 DEF DataType, UpdatesOf, RootOf
<1>2. CASE root = Null
  <2> DEFINE n == ConstantPrefix(w)
             s == SubSeq(w, 1, n)
             t == SubSeq(w, n + 1, Len(w))
  <2>1. n \in 0 .. Len(w) /\ Len(w) \in Nat
    BY PrefixExists, LenProperties
  <2> HIDE DEF n
  <2>2. s \in Seq(Update) /\ t \in Seq(Update)
    <3>1. \A i \in 1 .. Len(w) : w[i] \in Update
      BY ElementOfSeq
    <3>2. /\ \A i \in 1 .. n : w[i] \in Update
          /\ \A i \in n + 1 .. Len(w) : w[i] \in Update
          /\ n + 1 \in Int /\ n \in Int /\ Len(w) \in Int
      BY <2>1, <3>1
    <3> QED
      BY <3>2, SubSeqProperties
  <2>3. s \o t = w
    <3>1. /\ 1 \in 1 .. Len(w) + 1 /\ n \in 1 - 1 .. Len(w) /\ Len(w) \in n .. Len(w)
      BY <2>1
    <3>2. SubSeq(w, 1, n) \o SubSeq(w, n + 1, Len(w)) = SubSeq(w, 1, Len(w))
      BY <3>1, ConcatAdjacentSubSeq
    <3> QED
      BY <3>2, SubSeqFull
  <2>4. UpdatesOf(w) = t /\ RootOf(w) = [v \in Valuation |-> [o \in Offset |-> ReadFrom(Null, s, v, o)]]
    BY <1>2 DEF UpdatesOf, RootOf, n
  <2> HIDE DEF s, t
  <2>5. \A v \in Valuation, o \in Offset : ReadFrom(Null, s, v, o) \in Byte
    BY <2>2, ReadType
  <2>6. RootOf(w) \in Bytes
    BY <2>4, <2>5 DEF Bytes
  <2>7. RootOf(w) # Null
    BY <2>6, CacheAssumption DEF Bytes
  <2>8. ASSUME NEW v \in Valuation, NEW o \in Offset
        PROVE  ReadFrom(RootOf(w), t, v, o) = ReadFrom(Null, w, v, o)
    <3>1. CASE NoHit(t, v, o)
      <4>1. ReadFrom(RootOf(w), t, v, o) = RootOf(w)[v][o]
        BY <2>7, <3>1, ReadNoHit
      <4>2. ReadFrom(Null, s \o t, v, o) = ReadFrom(Null, s, v, o)
        BY <2>2, <3>1, ReadThrough
      <4> QED
        BY <2>3, <2>4, <4>1, <4>2
    <3>2. ASSUME NEW k, LastHit(t, k, v, o)
          PROVE  ReadFrom(RootOf(w), t, v, o) = ReadFrom(Null, w, v, o)
      <4>1. ReadFrom(RootOf(w), t, v, o) = t[k].value.of[v]
        BY <2>2, <3>2, ReadLastHit
      <4>2. ReadFrom(Null, s \o t, v, o) = t[k].value.of[v]
        BY <2>2, <3>2, ReadBehind
      <4> QED
        BY <2>3, <4>1, <4>2
    <3> QED
      BY <2>2, <3>1, <3>2, HitOrNot
  <2> QED
    BY <1>2, <2>2, <2>4, <2>6, <2>8
<1> QED
  BY <1>1, <1>2

-------------------------------------------------------------------------------
(* flushRangeForRead, flushRangeForWrite: each unflushed byte is written   *)
(* once.                                                                   *)

\* The place of o among the offsets of U.
Rank(U, o)   == Cardinality({p \in U : p =< o})
ByRank(U, k) == CHOOSE q \in U : Rank(U, q) = k

\* The flush loop meets every offset of U at a place of its own.
LEMMA RankPlaces ==
  ASSUME NEW U \in SUBSET Offset
  PROVE  /\ Cardinality(U) \in Nat
         /\ \A k \in 1 .. Cardinality(U) : ByRank(U, k) \in U /\ Rank(U, ByRank(U, k)) = k
         /\ \A o \in U : Rank(U, o) \in 1 .. Cardinality(U) /\ ByRank(U, Rank(U, o)) = o
<1> DEFINE UpTo(o) == {p \in U : p =< o}
           f == [o \in U |-> Rank(U, o)]
<1>1. Offset \subseteq Int /\ IsFiniteSet(Offset)
  BY CacheAssumption, FS_Interval DEF Offset
<1>2. IsFiniteSet(U) /\ Cardinality(U) \in Nat
  BY <1>1, FS_Subset, FS_CardinalityType
<1>3. ASSUME NEW o \in U
      PROVE  /\ o \in UpTo(o) /\ UpTo(o) \in SUBSET U /\ IsFiniteSet(UpTo(o))
             /\ Rank(U, o) = Cardinality(UpTo(o)) /\ Rank(U, o) \in 1 .. Cardinality(U)
  <2>1. o \in UpTo(o) /\ UpTo(o) \in SUBSET U
    BY <1>1
  <2>2. Rank(U, o) = Cardinality(UpTo(o))
    BY DEF Rank
  <2> HIDE DEF UpTo
  <2>3. /\ IsFiniteSet(UpTo(o)) /\ Cardinality(UpTo(o)) =< Cardinality(U)
        /\ Cardinality(UpTo(o)) \in Nat /\ Cardinality(UpTo(o)) # 0
    BY <1>2, <2>1, FS_Subset, FS_CardinalityType, FS_EmptySet
  <2> QED
    BY <1>2, <2>1, <2>2, <2>3
<1>4. ASSUME NEW o \in U, NEW q \in U, o < q PROVE Rank(U, o) # Rank(U, q)
  <2>1. UpTo(o) \in SUBSET UpTo(q) /\ q \notin UpTo(o) /\ q \in UpTo(q)
    <3>1. o \in Int /\ q \in Int /\ \A p \in U : p \in Int
      BY <1>1
    <3>2. \A p \in U : p =< o => p =< q
      BY <1>4, <3>1
    <3>3. ~(q =< o) /\ q =< q
      BY <1>4, <3>1
    <3> QED
      BY <3>2, <3>3
  <2>2. UpTo(o) # UpTo(q)
    BY <2>1
  <2> HIDE DEF UpTo
  <2> QED
    BY <1>3, <2>1, <2>2, FS_Subset
<1>5. ASSUME NEW o \in U, NEW q \in U, Rank(U, o) = Rank(U, q) PROVE o = q
  BY <1>1, <1>4, <1>5
<1>6. f \in Injection(U, 1 .. Cardinality(U))
  BY <1>3, <1>5 DEF Injection, IsInjective
<1>7. f \in Surjection(U, 1 .. Cardinality(U))
  <2>1. /\ IsFiniteSet(1 .. Cardinality(U))
        /\ Cardinality(1 .. Cardinality(U)) = Cardinality(U)
    BY <1>2, FS_Interval
  <2> HIDE DEF f
  <2> QED
    BY <1>6, <2>1, FS_Injection
<1>8. ASSUME NEW k \in 1 .. Cardinality(U) PROVE \E o \in U : Rank(U, o) = k
  BY <1>7 DEF Surjection
<1> QED
  BY <1>2, <1>3, <1>5, <1>8 DEF ByRank

\* What a flush appends.
Entries ==
  [k \in 1 .. Cardinality(Unflushed) |->
     [index |-> Constant(ByRank(Unflushed, k)), value |-> Cached(ByRank(Unflushed, k))]]

\* The asserts of flushRangeForRead: a byte that is not flushed has a cached value.
LEMMA CachedValue ==
  ASSUME CacheType, DataType, CacheInvariants, NEW o \in Unflushed
  PROVE  /\ Cached(o) \in Expr(Byte)
         /\ \A v \in Valuation : Cached(o).of[v] = Read8(v, o)
<1>1. o \in Offset /\ (IsByteConcrete(o) \/ IsByteKnownSymbolic(o))
  BY DEF Unflushed, CacheInvariants
<1>2. CASE IsByteConcrete(o)
  <2>1. concreteStore[o] \in Byte
    BY <1>1 DEF DataType
  <2> QED
    BY <1>2, <2>1 DEF Cached, Constant, Expr, Read8
<1>3. CASE ~IsByteConcrete(o) /\ IsByteKnownSymbolic(o)
  BY <1>1, <1>3 DEF Cached, CacheType, IsByteKnownSymbolic, Read8
<1> QED
  BY <1>1, <1>2, <1>3

\* The entries of a flush, and where they hit.
LEMMA EntriesHit ==
  ASSUME CacheType, DataType, CacheInvariants
  PROVE  /\ Flushed = updates \o Entries
         /\ Entries \in Seq(Update)
         /\ \A v \in Valuation, o \in Offset :
              IF o \in Unflushed
              THEN \E k : LastHit(Entries, k, v, o) /\ Entries[k].value = Cached(o)
              ELSE NoHit(Entries, v, o)
<1> DEFINE n == Cardinality(Unflushed)
<1>1. /\ Unflushed \in SUBSET Offset /\ n \in Nat
      /\ \A k \in 1 .. n : ByRank(Unflushed, k) \in Unflushed
      /\ \A o \in Unflushed : Rank(Unflushed, o) \in 1 .. n
      /\ \A o \in Unflushed : ByRank(Unflushed, Rank(Unflushed, o)) = o
      /\ \A k \in 1 .. n : Rank(Unflushed, ByRank(Unflushed, k)) = k
  <2>1. Unflushed \in SUBSET Offset
    BY DEF Unflushed
  <2> QED
    BY <2>1, RankPlaces
<1>2. Flushed = updates \o Entries
  BY DEF Flushed, Entries, ByRank, Rank
<1>3. DOMAIN Entries = 1 .. n
  BY DEF Entries
<1>4. ASSUME NEW k \in 1 .. n
      PROVE  /\ Entries[k].index = Constant(ByRank(Unflushed, k))
             /\ Entries[k].value = Cached(ByRank(Unflushed, k))
             /\ Entries[k] = [index |-> Constant(ByRank(Unflushed, k)),
                              value |-> Cached(ByRank(Unflushed, k))]
  BY DEF Entries
<1>5. ASSUME NEW k \in 1 .. n PROVE Entries[k] \in Update
  <2>1. ByRank(Unflushed, k) \in Unflushed /\ ByRank(Unflushed, k) \in Offset
    BY <1>1
  <2>2. Constant(ByRank(Unflushed, k)) \in Expr(Offset)
    BY <2>1 DEF Constant, Expr
  <2>3. Cached(ByRank(Unflushed, k)) \in Expr(Byte)
    BY <2>1, CachedValue
  <2>4. [index |-> Constant(ByRank(Unflushed, k)), value |-> Cached(ByRank(Unflushed, k))] \in Update
    BY <2>2, <2>3 DEF Update
  <2> QED
    BY <1>4, <2>4, Zenon
<1>6. Entries \in Seq(Update)
  <2>1. Entries = [k \in 1 .. n |-> Entries[k]]
    BY DEF Entries
  <2> HIDE DEF n
  <2> QED
    BY <1>1, <1>5, <2>1, IsASeq
<1>7. ASSUME NEW v \in Valuation, NEW o \in Offset, NEW k \in 1 .. n
      PROVE  Hit(Entries, k, v, o) <=> o = ByRank(Unflushed, k)
  <2>1. Entries[k].index = Constant(ByRank(Unflushed, k))
    BY <1>4
  <2>2. Constant(ByRank(Unflushed, k)).of[v] = ByRank(Unflushed, k)
    BY DEF Constant
  <2> QED
    BY <2>1, <2>2 DEF Hit
<1>8. ASSUME NEW v \in Valuation, NEW o \in Unflushed
      PROVE  LastHit(Entries, Rank(Unflushed, o), v, o) /\ Entries[Rank(Unflushed, o)].value = Cached(o)
  <2> DEFINE r == Rank(Unflushed, o)
  <2>1. r \in 1 .. n /\ ByRank(Unflushed, r) = o /\ o \in Offset
    BY <1>1
  <2> HIDE DEF r, n
  <2>2. Hit(Entries, r, v, o) /\ Entries[r].value = Cached(o)
    BY <1>4, <1>7, <2>1
  <2>3. ASSUME NEW j \in DOMAIN Entries, Hit(Entries, j, v, o) PROVE j <= r
    <3>1. j \in 1 .. n /\ ByRank(Unflushed, j) = o
      BY <1>3, <1>7, <2>1, <2>3
    <3>2. j = r
      BY <1>1, <3>1 DEF r
    <3> QED
      BY <2>1, <3>2
  <2> QED
    BY <1>3, <2>1, <2>2, <2>3 DEF LastHit, r
<1>9. ASSUME NEW v \in Valuation, NEW o \in Offset \ Unflushed PROVE NoHit(Entries, v, o)
  <2> HIDE DEF n
  <2> QED
    BY <1>1, <1>3, <1>7 DEF NoHit
<1> QED
  BY <1>2, <1>6, <1>8, <1>9

\* A flush writes what was cached, and hides nothing that was flushed before.
LEMMA FlushReads ==
  ASSUME CacheType, DataType, CacheInvariants
  PROVE  /\ Flushed \in Seq(Update)
         /\ \A v \in Valuation, o \in Offset :
              ReadFrom(root, Flushed, v, o) =
                IF IsByteFlushed(o) THEN ReadFrom(root, updates, v, o) ELSE Read8(v, o)
<1>1. /\ Flushed = updates \o Entries /\ Entries \in Seq(Update) /\ updates \in Seq(Update)
  BY EntriesHit DEF DataType
<1>2. Flushed \in Seq(Update)
  BY <1>1, ConcatProperties
<1>3. ASSUME NEW v \in Valuation, NEW o \in Unflushed
      PROVE  ReadFrom(root, Flushed, v, o) = Read8(v, o)
  <2>1. o \in Offset
    BY DEF Unflushed
  <2>2. PICK k : LastHit(Entries, k, v, o) /\ Entries[k].value = Cached(o)
    BY <2>1, EntriesHit
  <2>3. ReadFrom(root, updates \o Entries, v, o) = Entries[k].value.of[v]
    BY <1>1, <2>2, ReadBehind
  <2>4. Cached(o).of[v] = Read8(v, o)
    BY CachedValue
  <2> QED
    BY <1>1, <2>2, <2>3, <2>4
<1>4. ASSUME NEW v \in Valuation, NEW o \in Offset \ Unflushed
      PROVE  ReadFrom(root, Flushed, v, o) = ReadFrom(root, updates, v, o)
  <2>1. NoHit(Entries, v, o)
    BY EntriesHit
  <2> QED
    BY <1>1, <2>1, ReadThrough
<1> QED
  BY <1>2, <1>3, <1>4 DEF Unflushed

-------------------------------------------------------------------------------
(* What the object holds.                                                  *)

\* The cache and the array behind it, under every valuation.
DataInv == IInv /\ DataType /\ ReadsAgree

\* read8 in the state after a step.
LEMMA ReadNext ==
  \A v, o : Read8(v, o)' = IF IsByteConcrete(o)' THEN concreteStore'[o]
                          ELSE IF IsByteKnownSymbolic(o)' THEN knownSymbolics'[o].of[v]
                          ELSE ReadFrom(root', updates', v, o)
BY DEF Read8

\* Whatever was flushed, a flush writes what read8 finds.
LEMMA FlushKeeps ==
  ASSUME DataInv
  PROVE  /\ Flushed \in Seq(Update)
         /\ \A v \in Valuation, o \in Offset \ External :
              ReadFrom(root, Flushed, v, o) = Read8(v, o)
BY FlushReads DEF DataInv, IInv, ReadsAgree, Agrees

\* Constants are expressions.
LEMMA ConstantType ==
  ASSUME NEW D, NEW c \in D
  PROVE  Constant(c) \in Expr(D) /\ \A v \in Valuation : Constant(c).of[v] = c
BY DEF Constant, Expr

\* The byte at offset p is left alone.
SameByte(p) ==
  /\ IsByteConcrete(p)' <=> IsByteConcrete(p)
  /\ IsByteFlushed(p)' <=> IsByteFlushed(p)
  /\ concreteStore'[p] = concreteStore[p] /\ knownSymbolics'[p] = knownSymbolics[p]

\* A write that leaves all bytes but one alone, and the array behind them, stores there.
LEMMA WriteOne ==
  ASSUME DataInv, NEW o \in Offset, NEW e \in Expr(Byte),
         root' = root, updates' = updates,
         ~IsByteFlushed(o)',
         \A v \in Valuation : Read8(v, o)' = e.of[v],
         \A p \in Offset \ {o} : SameByte(p)
  PROVE  ReadsAgree' /\ Stores(Constant(o), e)
<1>1. ASSUME NEW p \in Offset \ {o}, NEW v \in Valuation PROVE Read8(v, p)' = Read8(v, p)
  BY ReadNext DEF Read8, SameByte, IsByteKnownSymbolic
<1>2. Stores(Constant(o), e)
  BY <1>1, ConstantType DEF Stores
<1>3. ASSUME NEW p \in Offset \ External PROVE Agrees(p)'
  <2>1. CASE p = o
    BY <2>1 DEF Agrees
  <2>2. CASE p # o
    <3>1. Agrees(p) /\ SameByte(p)
      BY <2>2 DEF DataInv, ReadsAgree
    <3> QED
      BY <1>1, <2>2, <3>1 DEF Agrees, SameByte
  <2> QED
    BY <2>1, <2>2
<1> QED
  BY <1>2, <1>3 DEF ReadsAgree

\* write8(unsigned, uint8_t) writes its byte.
LEMMA ConcreteStores ==
  ASSUME DataInv, NEW o \in Offset, NEW b \in Byte, WriteConcrete(o, b)
  PROVE  DataType' /\ ReadsAgree' /\ Stores(Constant(o), Constant(b))
<1>1. DataType'
  BY DEF DataInv, DataType, WriteConcrete
<1>2. /\ IsByteConcrete(o)' /\ ~IsByteFlushed(o)' /\ concreteStore'[o] = b
      /\ root' = root /\ updates' = updates
  BY NullIsDistinct DEF DataInv, IInv, CacheType, DataType, WriteConcrete, MarkConcrete,
       MarkUnflushed, Mask, IsByteConcrete, IsByteFlushed
<1>3. ASSUME NEW p \in Offset \ {o} PROVE SameByte(p)
  BY NullIsDistinct DEF DataInv, IInv, CacheType, DataType, WriteConcrete, MarkConcrete,
       MarkUnflushed, Mask, IsByteConcrete, IsByteFlushed, SameByte
<1>4. Constant(b) \in Expr(Byte) /\ \A v \in Valuation : Read8(v, o)' = Constant(b).of[v]
  BY <1>2, ConstantType, ReadNext
<1> QED
  BY <1>1, <1>2, <1>3, <1>4, WriteOne

\* write8(unsigned, ref<Expr>) writes its byte.
LEMMA SymbolicStores ==
  ASSUME DataInv, NEW o \in Offset, NEW e \in SymbolicByte, WriteSymbolic(o, e)
  PROVE  DataType' /\ ReadsAgree' /\ Stores(Constant(o), e)
<1>1. DataType'
  BY DEF DataInv, DataType, WriteSymbolic
<1>2. e \in Expr(Byte) /\ e # Null
  BY NullIsDistinct
<1>3. /\ ~IsByteConcrete(o)' /\ ~IsByteFlushed(o)' /\ knownSymbolics'[o] = e
      /\ root' = root /\ updates' = updates
  BY NullIsDistinct DEF DataInv, IInv, CacheType, DataType, WriteSymbolic, MarkSymbolic,
       MarkUnflushed, Mask, AllSet, IsByteConcrete, IsByteFlushed
<1>4. ASSUME NEW p \in Offset \ {o} PROVE SameByte(p)
  BY NullIsDistinct DEF DataInv, IInv, CacheType, DataType, WriteSymbolic, MarkSymbolic,
       MarkUnflushed, Mask, AllSet, IsByteConcrete, IsByteFlushed, SameByte
<1>5. \A v \in Valuation : Read8(v, o)' = e.of[v]
  BY <1>2, <1>3, ReadNext DEF IsByteKnownSymbolic
<1> QED
  BY <1>1, <1>2, <1>3, <1>4, <1>5, WriteOne

\* write8(ref<Expr>, ref<Expr>) writes at the offset its index has, and the bytes that
\* its flush moves to the array keep their values.
LEMMA WriteAtStores ==
  ASSUME DataInv, NEW i \in SymbolicOffset, NEW e \in Expr(Byte), WriteAt(i, e)
  PROVE  DataType' /\ ReadsAgree' /\ Stores(i, e)
<1> DEFINE u == [index |-> i, value |-> e]
<1>1. u \in Update /\ u.index = i /\ u.value = e
  BY CacheAssumption DEF Update
<1>2. updates' = Append(Flushed, u) /\ root' = root /\ concreteStore' = concreteStore
  BY DEF WriteAt
<1> HIDE DEF u
<1>3. Flushed \in Seq(Update)
  BY FlushKeeps
<1>4. DataType'
  BY <1>1, <1>2, <1>3, AppendProperties DEF DataInv, DataType
<1>5. ASSUME NEW p \in Offset PROVE ~IsByteConcrete(p)' /\ ~IsByteKnownSymbolic(p)'
  BY NullIsDistinct DEF WriteAt, EmptyCache, MarkSymbolic, Mask, AllSet, IsByteConcrete, IsByteKnownSymbolic
<1>6. ASSUME NEW p \in Offset, NEW v \in Valuation
      PROVE  Read8(v, p)' = ReadFrom(root', updates', v, p)
  BY <1>5, ReadNext
<1>7. ReadsAgree'
  BY <1>6 DEF ReadsAgree, Agrees
<1>8. ASSUME NEW p \in Offset \ External, NEW v \in Valuation
      PROVE  Read8(v, p)' = IF i.of[v] = p THEN e.of[v] ELSE Read8(v, p)
  <2>1. ReadFrom(root, Append(Flushed, u), v, p) =
          IF i.of[v] = p THEN e.of[v] ELSE ReadFrom(root, Flushed, v, p)
    BY <1>1, <1>3, ReadAppended
  <2>2. ReadFrom(root, Flushed, v, p) = Read8(v, p)
    BY FlushKeeps
  <2> QED
    BY <1>2, <1>6, <2>1, <2>2
<1> QED
  BY <1>4, <1>7, <1>8 DEF Stores

\* getUpdates does not change what the object holds.
LEMMA ReadKeeps ==
  ASSUME DataInv, NEW o \in Offset, Read(o)
  PROVE  DataType' /\ ReadsAgree' /\ Keeps
<1>1. /\ root' = RootOf(updates) /\ updates' = UpdatesOf(updates)
      /\ UNCHANGED <<concreteStore, concreteMask, flushMask, knownSymbolics>>
  BY DEF Read
<1>2. /\ RootOf(updates) \in Bytes /\ UpdatesOf(updates) \in Seq(Update)
      /\ \A v \in Valuation, p \in Offset : ReadFrom(root', updates', v, p) = ReadFrom(root, updates, v, p)
  BY <1>1, ReadSplit DEF DataInv, DataType
<1>3. DataType'
  BY <1>1, <1>2 DEF DataInv, DataType
<1>4. ASSUME NEW v \in Valuation, NEW p \in Offset PROVE Read8(v, p)' = Read8(v, p)
  BY <1>1, <1>2, ReadNext DEF Read8, IsByteConcrete, IsByteKnownSymbolic
<1>5. ReadsAgree'
  BY <1>1, <1>2, <1>4 DEF DataInv, ReadsAgree, Agrees, IsByteFlushed
<1> QED
  BY <1>3, <1>4, <1>5 DEF Keeps

\* A read at a symbolic offset flushes and keeps what the object holds.
LEMMA ReadAtKeeps ==
  ASSUME DataInv, ReadAt
  PROVE  DataType' /\ ReadsAgree' /\ Keeps
<1>1. /\ root' = RootOf(Flushed) /\ updates' = UpdatesOf(Flushed)
      /\ UNCHANGED <<concreteStore, concreteMask, knownSymbolics>>
  BY DEF ReadAt
<1>2. /\ RootOf(Flushed) \in Bytes /\ UpdatesOf(Flushed) \in Seq(Update)
      /\ \A v \in Valuation, p \in Offset : ReadFrom(root', updates', v, p) = ReadFrom(root, Flushed, v, p)
  BY <1>1, FlushKeeps, ReadSplit DEF DataInv
<1>3. DataType'
  BY <1>1, <1>2 DEF DataInv, DataType
<1>4. ASSUME NEW v \in Valuation, NEW p \in Offset \ External
      PROVE  ReadFrom(root', updates', v, p) = Read8(v, p)
  BY <1>2, FlushKeeps
<1>5. ASSUME NEW v \in Valuation, NEW p \in Offset \ External PROVE Read8(v, p)' = Read8(v, p)
  BY <1>1, <1>4, ReadNext DEF Read8, IsByteConcrete, IsByteKnownSymbolic
<1>6. ReadsAgree'
  BY <1>4, <1>5 DEF ReadsAgree, Agrees
<1> QED
  BY <1>3, <1>5, <1>6 DEF Keeps

\* copyInConcretes changes only bytes that the external function changed.
LEMMA CopyInKeeps ==
  ASSUME DataInv, NEW store \in [Offset -> Byte], CopyIn(store)
  PROVE  DataType' /\ ReadsAgree' /\ Keeps
<1>1. /\ concreteStore' = store /\ \A p \in Offset \ External : store[p] = concreteStore[p]
      /\ UNCHANGED <<concreteMask, flushMask, knownSymbolics, root, updates>>
  BY DEF CopyIn
<1>2. DataType'
  BY <1>1 DEF DataInv, DataType
<1>3. ASSUME NEW v \in Valuation, NEW p \in Offset \ External PROVE Read8(v, p)' = Read8(v, p)
  BY <1>1, ReadNext DEF Read8, IsByteConcrete, IsByteKnownSymbolic
<1>4. ReadsAgree'
  BY <1>1, <1>3 DEF DataInv, ReadsAgree, Agrees, IsByteFlushed
<1> QED
  BY <1>2, <1>3, <1>4 DEF Keeps

\* What is stored at a symbolic offset is an expression.
LEMMA StoredType == SymbolicByte \union {Constant(b) : b \in Byte} \subseteq Expr(Byte)
BY CacheAssumption, ConstantType

\* A new object agrees with its array: no byte is flushed, or none is cached.
LEMMA InitData == Init => DataInv
<1> SUFFICES ASSUME Init PROVE DataInv
  OBVIOUS
<1>1. IInv
  BY InitCache
<1>2. DataType
  BY CacheAssumption, EmptySeq DEF Init, DataType, Bytes
<1>3. ASSUME NEW o \in Offset, NEW v \in Valuation, IsByteFlushed(o)
      PROVE  ReadFrom(root, updates, v, o) = Read8(v, o)
  BY <1>3, NullIsDistinct DEF Init, IsByteFlushed, IsByteConcrete, IsByteKnownSymbolic, Read8
<1> QED
  BY <1>1, <1>2, <1>3 DEF DataInv, ReadsAgree, Agrees

\* Every operation keeps the cache and the array in step.
LEMMA NextData == DataInv /\ [Next]_vars => DataInv'
<1> SUFFICES ASSUME DataInv, [Next]_vars PROVE DataInv'
  OBVIOUS
<1>1. IInv'
  BY NextCache DEF DataInv
<1>2. DataType' /\ ReadsAgree'
  <2>1. ASSUME NEW o \in Offset, NEW b \in Byte, WriteConcrete(o, b) PROVE DataType' /\ ReadsAgree'
    BY <2>1, ConcreteStores
  <2>2. ASSUME NEW o \in Offset, NEW e \in SymbolicByte, WriteSymbolic(o, e)
        PROVE  DataType' /\ ReadsAgree'
    BY <2>2, SymbolicStores
  <2>3. ASSUME NEW i \in SymbolicOffset, NEW e \in SymbolicByte \union {Constant(b) : b \in Byte},
               WriteAt(i, e)
        PROVE  DataType' /\ ReadsAgree'
    BY <2>3, StoredType, WriteAtStores
  <2>4. ASSUME NEW o \in Offset, Read(o) PROVE DataType' /\ ReadsAgree'
    BY <2>4, ReadKeeps
  <2>5. CASE ReadAt
    BY <2>5, ReadAtKeeps
  <2>6. ASSUME NEW store \in [Offset -> Byte], CopyIn(store) PROVE DataType' /\ ReadsAgree'
    BY <2>6, CopyInKeeps
  <2>7. CASE UNCHANGED vars
    BY <2>7 DEF DataInv, DataType, ReadsAgree, Agrees, Read8, IsByteFlushed, IsByteConcrete,
         IsByteKnownSymbolic, vars
  <2> QED
    BY <2>1, <2>2, <2>3, <2>4, <2>5, <2>6, <2>7 DEF Next
<1> QED
  BY <1>1, <1>2 DEF DataInv

\* A byte outside what external functions modify reads the same from the cache and, once
\* flushed, from the array behind it, for objects of every size and every stored expression.
THEOREM CacheAgrees == Spec => []ReadsAgree
<1>1. DataInv => ReadsAgree
  BY DEF DataInv
<1> QED
  BY <1>1, InitData, NextData, PTL DEF Spec

\* Both together: the cached bytes and the array never contradict each other, whatever
\* was written, flushed and copied in.
THEOREM CacheIsOK == Spec => []CacheOK
<1> QED
  BY CacheConsistent, CacheAgrees, PTL DEF CacheOK

\* Under every valuation the object is an array of bytes: a write changes the byte at its
\* offset and no other, and a read, a flush, the making of an array and a copy from native
\* memory change none.
THEOREM CacheIsArray == Spec => ArrayOfBytes
<1> DEFINE A ==
             /\ \A o \in Offset :
                  /\ \A b \in Byte : WriteConcrete(o, b) => Stores(Constant(o), Constant(b))
                  /\ \A e \in SymbolicByte : WriteSymbolic(o, e) => Stores(Constant(o), e)
                  /\ Read(o) => Keeps
             /\ \A i \in SymbolicOffset, e \in SymbolicByte \union {Constant(b) : b \in Byte} :
                  WriteAt(i, e) => Stores(i, e)
             /\ ReadAt \/ CopyIn(concreteStore') => Keeps
<1>1. ASSUME DataInv, DataInv' PROVE A
  <2>1. ASSUME NEW o \in Offset
        PROVE  /\ \A b \in Byte : WriteConcrete(o, b) => Stores(Constant(o), Constant(b))
               /\ \A e \in SymbolicByte : WriteSymbolic(o, e) => Stores(Constant(o), e)
               /\ Read(o) => Keeps
    BY <1>1, ConcreteStores, SymbolicStores, ReadKeeps
  <2>2. ASSUME NEW i \in SymbolicOffset, NEW e \in SymbolicByte \union {Constant(b) : b \in Byte},
               WriteAt(i, e)
        PROVE  Stores(i, e)
    BY <1>1, <2>2, StoredType, WriteAtStores
  <2>3. ASSUME ReadAt \/ CopyIn(concreteStore') PROVE Keeps
    <3>1. concreteStore' \in [Offset -> Byte]
      BY <1>1 DEF DataInv, DataType
    <3> QED
      BY <1>1, <2>3, <3>1, ReadAtKeeps, CopyInKeeps
  <2> QED
    BY <2>1, <2>2, <2>3
<1>2. ArrayOfBytes <=> [][A]_vars
  BY DEF ArrayOfBytes
<1> HIDE DEF A
<1>3. Spec => [][A]_vars
  BY <1>1, InitData, NextData, PTL DEF Spec
<1> QED
  BY <1>2, <1>3
================================================================================
