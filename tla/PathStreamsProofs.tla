---------------------------- MODULE PathStreamsProofs ----------------------------
(***************************************************************************)
(* PathStreams for every program, number of points and buffer size: what   *)
(* readStream finds in the one file is what each stream was asked to hold, *)
(* and a replayed path leads where its state went.                         *)
(***************************************************************************)
EXTENDS PathStreams, FiniteSetTheorems, SequenceTheorems, WellFoundedInduction, TLAPS

-------------------------------------------------------------------------------
(* FlattenSeq, by the least length for which a fact fails.                 *)

\* Every set of numbers with an element has a least one.
LEMMA LeastNumber ==
  ASSUME NEW T \in SUBSET Nat, T # {}
  PROVE  \E m \in T : \A k \in T : m <= k
<1> DEFINE Below == {0 .. k : k \in T}
<1>1. Below \subseteq FiniteSubsetsOf(Nat)
  <2>1. ASSUME NEW k \in T PROVE 0 .. k \in SUBSET Nat /\ IsFiniteSet(0 .. k)
    BY FS_Interval
  <2> QED
    BY <2>1 DEF FiniteSubsetsOf
<1>2. PICK B \in Below : \A C \in Below : ~(<<C, B>> \in StrictSubsetOrdering(Nat))
  <2>1. Below # {}
    OBVIOUS
  <2>2. IsWellFoundedOn(StrictSubsetOrdering(Nat), FiniteSubsetsOf(Nat))
    BY FS_StrictSubsetOrderingWellFounded
  <2> HIDE DEF Below
  <2> QED
    BY <1>1, <2>1, <2>2, WFMin
<1>3. PICK m \in T : B = 0 .. m
  OBVIOUS
<1>4. ASSUME NEW k \in T PROVE m <= k
  <2>1. SUFFICES ASSUME k < m PROVE FALSE
    OBVIOUS
  <2>2. 0 .. k \subseteq 0 .. m /\ 0 .. k # 0 .. m /\ 0 .. k \in SUBSET Nat /\ 0 .. m \in SUBSET Nat
    <3>1. m \in 0 .. m /\ m \notin 0 .. k
      BY <2>1
    <3> QED
      BY <2>1, <3>1
  <2>3. 0 .. k \in Below
    OBVIOUS
  <2> QED
    BY <1>2, <1>3, <2>2, <2>3 DEF StrictSubsetOrdering
<1> QED
  BY <1>4

\* The function inside FlattenSeq, for the sequences of ss up to the n-th.
Flattens(f, ss, n) ==
  f = [i \in 1 .. n |-> IF i = 1 THEN ss[i] ELSE f[i - 1] \o ss[i]]

\* The equation of that function at a position.
LEMMA FlattensAt ==
  ASSUME NEW f, NEW ss, NEW n \in Nat, Flattens(f, ss, n), NEW i \in 1 .. n
  PROVE  f[i] = IF i = 1 THEN ss[i] ELSE f[i - 1] \o ss[i]
BY Zenon DEF Flattens

\* There is one for every length.
LEMMA FlattensExists ==
  ASSUME NEW ss, NEW n \in Nat
  PROVE  \E f : Flattens(f, ss, n)
<1> DEFINE Bad == {k \in Nat : ~ \E f : Flattens(f, ss, k)}
<1> SUFFICES ASSUME n \in Bad PROVE FALSE
  OBVIOUS
<1>1. PICK m \in Bad : \A k \in Bad : m <= k
  <2>1. Bad \in SUBSET Nat /\ Bad # {}
    OBVIOUS
  <2> HIDE DEF Bad
  <2> QED  BY <2>1, LeastNumber
<1>2. m # 0
  <2> SUFFICES \E f : Flattens(f, ss, 0)
    OBVIOUS
  <2> DEFINE f == [i \in 1 .. 0 |-> <<>>]
  <2>1. Flattens(f, ss, 0)
    BY DEF Flattens
  <2> QED  BY <2>1
<1>3. m - 1 \in Nat /\ m - 1 \notin Bad /\ m \in Nat
  BY <1>1, <1>2
<1>4. PICK g : Flattens(g, ss, m - 1)
  BY <1>3
<1> DEFINE f == [i \in 1 .. m |-> IF i = m THEN IF i = 1 THEN ss[i] ELSE g[i - 1] \o ss[i]
                                  ELSE g[i]]
<1>5. ASSUME NEW i \in 1 .. m
      PROVE  f[i] = IF i = 1 THEN ss[i] ELSE f[i - 1] \o ss[i]
  <2>1. CASE i = m
    <3>1. i # 1 => i - 1 \in 1 .. m /\ i - 1 # m
      BY <2>1, <1>3
    <3>2. i # 1 => f[i - 1] = g[i - 1]
      BY <3>1
    <3> QED  BY <2>1, <3>2
  <2>2. CASE i # m
    <3>1. i \in 1 .. m - 1 /\ f[i] = g[i]
      BY <2>2, <1>3
    <3>2. i # 1 => i - 1 \in 1 .. m /\ i - 1 # m
      BY <2>2, <1>3
    <3>3. i # 1 => f[i - 1] = g[i - 1]
      BY <3>2
    <3>4. g[i] = IF i = 1 THEN ss[i] ELSE g[i - 1] \o ss[i]
      BY <3>1, <1>3, <1>4, FlattensAt
    <3> HIDE DEF f
    <3> QED  BY <3>1, <3>3, <3>4
  <2> QED  BY <2>1, <2>2
<1>6. Flattens(f, ss, m)
  <2>1. f = [i \in 1 .. m |-> f[i]]
    OBVIOUS
  <2> HIDE DEF f
  <2>2. [i \in 1 .. m |-> f[i]] = [i \in 1 .. m |-> IF i = 1 THEN ss[i] ELSE f[i - 1] \o ss[i]]
    BY <1>5
  <2> QED  BY <2>1, <2>2 DEF Flattens
<1> QED  BY <1>6, <1>1

\* f and g agree from 1 to n.
SameUpTo(f, g, n) == \A i \in 1 .. n : f[i] = g[i]

\* Two of them agree as far as the sequences do.
LEMMA FlattensAgree ==
  ASSUME NEW ss, NEW tt, NEW n \in Nat, NEW m \in Nat, n <= m,
         NEW f, Flattens(f, ss, n), NEW g, Flattens(g, tt, m),
         SameUpTo(ss, tt, n)
  PROVE  SameUpTo(f, g, n)
<1> DEFINE Bad == {k \in Nat : k \in 1 .. n /\ f[k] # g[k]}
<1> SUFFICES ASSUME Bad # {} PROVE FALSE
  BY DEF SameUpTo
<1>1. PICK k \in Bad : \A j \in Bad : k <= j
  <2>1. Bad \in SUBSET Nat
    OBVIOUS
  <2> HIDE DEF Bad
  <2> QED  BY <2>1, LeastNumber
<1>2. k \in 1 .. n /\ k \in 1 .. m /\ f[k] # g[k]
  BY <1>1
<1>3. /\ f[k] = IF k = 1 THEN ss[k] ELSE f[k - 1] \o ss[k]
      /\ g[k] = IF k = 1 THEN tt[k] ELSE g[k - 1] \o tt[k]
  BY <1>2, FlattensAt
<1>4. k # 1 => f[k - 1] = g[k - 1]
  <2> SUFFICES ASSUME k # 1 PROVE f[k - 1] = g[k - 1]
    OBVIOUS
  <2>1. k - 1 \in 1 .. n /\ ~(k <= k - 1) /\ k - 1 \in Nat
    BY <1>2
  <2>2. k - 1 \notin Bad
    BY <1>1, <2>1
  <2> QED  BY <2>1, <2>2
<1> QED  BY <1>2, <1>3, <1>4 DEF SameUpTo

\* FlattenSeq of a nonempty sequence is the last value of such a function.
LEMMA FlattenIs ==
  ASSUME NEW S, NEW ss \in Seq(S), Len(ss) > 0
  PROVE  \E f : Flattens(f, ss, Len(ss)) /\ FlattenSeq(ss) = f[Len(ss)]
<1> DEFINE n == Len(ss)
           flatten == CHOOSE f : f = [i \in 1 .. n |-> IF i = 1 THEN ss[i] ELSE f[i - 1] \o ss[i]]
<1>1. n \in Nat /\ n # 0
  BY LenProperties
<1>2. \E f : Flattens(f, ss, n)
  BY <1>1, FlattensExists
<1>3. Flattens(flatten, ss, n)
  BY <1>2 DEF Flattens
<1>4. FlattenSeq(ss) = flatten[n]
  BY <1>1 DEF FlattenSeq
<1> QED  BY <1>3, <1>4

\* No sequences make the empty one.
LEMMA FlattenEmpty == FlattenSeq(<<>>) = <<>>
<1>1. Len(<<>>) = 0
  OBVIOUS
<1> QED  BY <1>1, Zenon DEF FlattenSeq

\* One more sequence is appended to what the others make.
LEMMA FlattenAppend ==
  ASSUME NEW B, NEW ss \in Seq(Seq(B)), FlattenSeq(ss) \in Seq(B), NEW x \in Seq(B)
  PROVE  /\ FlattenSeq(Append(ss, x)) = FlattenSeq(ss) \o x
         /\ FlattenSeq(Append(ss, x)) \in Seq(B)
<1> DEFINE n  == Len(ss)
           m  == n + 1
           tt == Append(ss, x)
<1>1. /\ tt \in Seq(Seq(B)) /\ Len(tt) = m /\ n \in Nat /\ tt[m] = x
      /\ \A i \in 1 .. n : tt[i] = ss[i]
  BY AppendProperties, LenProperties
<1>2. m \in Nat /\ m > 0 /\ m - 1 = n /\ n <= m /\ m \in 1 .. m /\ (m = 1 <=> n = 0)
  BY <1>1
<1>3. (n = 0 => ss = <<>>) /\ (n # 0 => n > 0 /\ n \in 1 .. n) /\ Len(ss) = n
  BY <1>1, EmptySeq
<1>4. FlattenSeq(ss) \o x \in Seq(B) /\ <<>> \o x = x
  BY ConcatProperties
<1>5. Append(ss, x) = tt
  OBVIOUS
<1> HIDE DEF n, m, tt
<1>6. PICK g : Flattens(g, tt, m) /\ FlattenSeq(tt) = g[m]
  <2>1. \E g : Flattens(g, tt, Len(tt)) /\ FlattenSeq(tt) = g[Len(tt)]
    <3>1. Len(tt) > 0
      BY <1>1, <1>2
    <3> QED  BY <3>1, <1>1, FlattenIs
  <2> QED  BY <2>1, <1>1
<1>7. g[m] = IF m = 1 THEN x ELSE g[n] \o x
  <2>1. g[m] = IF m = 1 THEN tt[m] ELSE g[m - 1] \o tt[m]
    BY <1>2, <1>6, FlattensAt
  <2> QED  BY <2>1, <1>1, <1>2
<1>8. CASE n = 0
  <2>1. FlattenSeq(ss) = <<>>
    BY <1>8, <1>3, FlattenEmpty
  <2>2. FlattenSeq(tt) = x
    BY <1>6, <1>7, <1>8, <1>2
  <2> QED  BY <2>1, <2>2, <1>4, <1>5
<1>9. CASE n # 0
  <2>1. PICK f : Flattens(f, ss, n) /\ FlattenSeq(ss) = f[n]
    <3>1. \E f : Flattens(f, ss, Len(ss)) /\ FlattenSeq(ss) = f[Len(ss)]
      BY <1>3, <1>9, FlattenIs
    <3> QED  BY <3>1, <1>3
  <2>2. SameUpTo(f, g, n)
    <3>1. SameUpTo(ss, tt, n)
      BY <1>1 DEF SameUpTo
    <3> QED  BY <2>1, <3>1, <1>1, <1>2, <1>6, FlattensAgree
  <2>3. f[n] = g[n]
    BY <2>2, <1>3, <1>9 DEF SameUpTo
  <2>4. FlattenSeq(tt) = FlattenSeq(ss) \o x
    BY <2>1, <2>3, <1>2, <1>6, <1>7, <1>9
  <2> QED  BY <2>4, <1>4, <1>5
<1> QED  BY <1>8, <1>9

\* FlattenSeq returns a sequence of the elements of its argument.
LEMMA FlattenType ==
  ASSUME NEW B, NEW ss \in Seq(Seq(B))
  PROVE  FlattenSeq(ss) \in Seq(B)
<1> DEFINE n == Len(ss)
<1>1. n \in Nat /\ \A i \in 1 .. n : ss[i] \in Seq(B)
  BY LenProperties, ElementOfSeq
<1>2. CASE n = 0
  <2>1. ss = <<>>
    BY <1>2, EmptySeq
  <2>2. <<>> \in Seq(B)
    OBVIOUS
  <2> QED  BY <2>1, <2>2, FlattenEmpty
<1>3. CASE n # 0
  <2>1. PICK f : Flattens(f, ss, n) /\ FlattenSeq(ss) = f[n]
    <3>1. \E f : Flattens(f, ss, Len(ss)) /\ FlattenSeq(ss) = f[Len(ss)]
      BY <1>1, <1>3, FlattenIs
    <3> QED  BY <3>1
  <2> DEFINE Bad == {i \in Nat : i \in 1 .. n /\ f[i] \notin Seq(B)}
  <2>2. Bad = {}
    <3> SUFFICES ASSUME Bad # {} PROVE FALSE
      OBVIOUS
    <3>1. PICK k \in Bad : \A j \in Bad : k <= j
      <4>1. Bad \in SUBSET Nat
        OBVIOUS
      <4> HIDE DEF Bad
      <4> QED  BY <4>1, LeastNumber
    <3>2. k \in 1 .. n /\ f[k] \notin Seq(B)
      BY <3>1
    <3> HIDE DEF n
    <3>3. f[k] = IF k = 1 THEN ss[k] ELSE f[k - 1] \o ss[k]
      BY <1>1, <2>1, <3>2, FlattensAt
    <3>4. k # 1 => f[k - 1] \in Seq(B)
      <4> SUFFICES ASSUME k # 1 PROVE f[k - 1] \in Seq(B)
        OBVIOUS
      <4>1. k - 1 \in 1 .. n /\ k - 1 \in Nat /\ ~(k <= k - 1)
        BY <1>1, <3>2
      <4>2. k - 1 \notin Bad
        BY <3>1, <4>1
      <4> QED  BY <4>1, <4>2
    <3>5. ss[k] \in Seq(B)
      BY <1>1, <3>2
    <3>6. k # 1 => f[k - 1] \o ss[k] \in Seq(B)
      BY <3>4, <3>5, ConcatProperties
    <3> QED  BY <3>2, <3>3, <3>5, <3>6
  <2>3. n \in 1 .. n
    BY <1>1, <1>3
  <2>4. f[n] \in Seq(B)
    BY <2>2, <2>3, <1>1
  <2> QED  BY <2>1, <2>4
<1> QED  BY <1>2, <1>3

-------------------------------------------------------------------------------
(* The file and the chain from a stream up to the first.                   *)

\* The records a file may hold.
Record == [id : Nat, child : Nat] \cup [id : Nat, data : Seq(BOOLEAN)]

\* n streams were opened, each once and under an earlier one, and all data is theirs.
FileOK(F, n) ==
  /\ F \in Seq(Record) /\ n \in Nat
  /\ \A k \in 1 .. Len(F) : IsFork(F[k]) => F[k].child \in 1 .. n /\ F[k].id < F[k].child
  /\ \A k \in 1 .. Len(F) : ~IsFork(F[k]) => F[k].id \in 1 .. n
  /\ \A c \in 1 .. n : \E k \in 1 .. Len(F) : IsFork(F[k]) /\ F[k].child = c
  /\ \A j, k \in 1 .. Len(F) : IsFork(F[j]) /\ IsFork(F[k]) /\ F[j].child = F[k].child => j = k

\* What the two kinds of records are.
LEMMA Records ==
  /\ \A r \in Record : /\ r.id \in Nat
                       /\ IsFork(r) => r.child \in Nat
                       /\ ~IsFork(r) => r.data \in Seq(BOOLEAN)
  /\ \A p, c \in Nat : /\ OpenRecord(p, c) \in Record /\ IsFork(OpenRecord(p, c))
                       /\ OpenRecord(p, c).id = p /\ OpenRecord(p, c).child = c
  /\ \A i \in Nat, d \in Seq(BOOLEAN) :
       /\ DataRecord(i, d) \in Record /\ ~IsFork(DataRecord(i, d))
       /\ DataRecord(i, d).id = i /\ DataRecord(i, d).data = d
BY DEF Record, IsFork, OpenRecord, DataRecord

\* The stream opened by record k has the record's id as its parent.
LEMMA ParentIs ==
  ASSUME NEW F, NEW n, FileOK(F, n), NEW k \in 1 .. Len(F), IsFork(F[k])
  PROVE  Parent(F, F[k].child) = F[k].id
<1>1. /\ Range(F) = {F[j] : j \in 1 .. Len(F)}
      /\ \A j \in 1 .. Len(F) : IsFork(F[j]) /\ F[j].child = F[k].child => F[j] = F[k]
  BY DEF FileOK, Range
<1>2. \E r \in Range(F) : IsFork(r) /\ r.child = F[k].child
  BY <1>1
<1>3. \A r \in Range(F) : IsFork(r) /\ r.child = F[k].child => r = F[k]
  BY <1>1
<1>4. (CHOOSE r \in Range(F) : IsFork(r) /\ r.child = F[k].child) = F[k]
  BY <1>2, <1>3
<1> QED  BY <1>4, Zenon DEF Parent

\* Parents come first.
LEMMA ParentBelow ==
  ASSUME NEW F, NEW n, FileOK(F, n), NEW c \in 1 .. n
  PROVE  Parent(F, c) \in 0 .. c - 1
<1>1. PICK k \in 1 .. Len(F) : IsFork(F[k]) /\ F[k].child = c
  BY DEF FileOK
<1>2. F[k].id < c /\ F[k].id \in Nat /\ Parent(F, c) = F[k].id
  <2>1. F[k] \in Record
    BY ElementOfSeq, LenProperties DEF FileOK
  <2>2. Parent(F, F[k].child) = F[k].id
    BY <1>1, ParentIs
  <2>3. F[k].id \in Nat
    BY <2>1, Records
  <2>4. F[k].id < F[k].child
    BY <1>1 DEF FileOK
  <2> QED  BY <1>1, <2>2, <2>3, <2>4
<1> QED  BY <1>2 DEF FileOK

\* A record that opens none of the first n streams does not change their parents.
LEMMA ParentKept ==
  ASSUME NEW F, NEW n, FileOK(F, n), NEW r \in Record, IsFork(r) => r.child \notin 1 .. n,
         NEW c \in 1 .. n
  PROVE  Parent(Append(F, r), c) = Parent(F, c)
<1> DEFINE G == Append(F, r)
<1>1. PICK k \in 1 .. Len(F) : IsFork(F[k]) /\ F[k].child = c
  BY DEF FileOK
<1>2. F \in Seq(Record) /\ Len(G) = Len(F) + 1 /\ Len(F) \in Nat /\ G[Len(F) + 1] = r
      /\ (\A j \in 1 .. Len(F) : G[j] = F[j]) /\ G \in Seq(Record)
  BY AppendProperties, LenProperties DEF FileOK
<1>3. \A j \in 1 .. Len(F) : IsFork(F[j]) /\ F[j].child = c => F[j] = F[k]
  BY <1>1 DEF FileOK
<1> HIDE DEF G
<1>4. Range(G) = {G[j] : j \in 1 .. Len(G)}
  BY <1>2, LenProperties DEF Range
<1>5. F[k] \in Range(G)
  BY <1>2, <1>4
<1>6. \A q \in Range(G) : IsFork(q) /\ q.child = c => q = F[k]
  <2> TAKE q \in Range(G)
  <2>1. PICK j \in 1 .. Len(G) : q = G[j]
    BY <1>4
  <2>2. CASE j \in 1 .. Len(F)
    BY <2>1, <2>2, <1>2, <1>3
  <2>3. CASE j \notin 1 .. Len(F)
    <3>1. j = Len(F) + 1
      BY <2>3, <1>2
    <3> QED  BY <3>1, <2>1, <1>2
  <2> QED  BY <2>2, <2>3
<1>7. (CHOOSE q \in Range(G) : IsFork(q) /\ q.child = c) = F[k]
  BY <1>1, <1>5, <1>6
<1>8. Parent(G, c) = F[k].id
  BY <1>7, Zenon DEF Parent
<1>9. Parent(F, c) = F[k].id
  BY <1>1, ParentIs
<1> QED  BY <1>8, <1>9 DEF G

\* The function inside Roots.
Climbs(f, F, m) == f = [i \in 0 .. m |-> IF i = 0 THEN {} ELSE {i} \cup f[Parent(F, i)]]

\* The equation of that function at a stream.
LEMMA ClimbsAt ==
  ASSUME NEW f, NEW F, NEW m \in Nat, Climbs(f, F, m)
  PROVE  f[0] = {} /\ \A i \in 1 .. m : f[i] = {i} \cup f[Parent(F, i)]
<1>1. \A i \in 0 .. m : f[i] = IF i = 0 THEN {} ELSE {i} \cup f[Parent(F, i)]
  BY Zenon DEF Climbs
<1>2. 0 \in 0 .. m /\ \A i \in 1 .. m : i \in 0 .. m /\ i # 0
  OBVIOUS
<1> QED  BY <1>1, <1>2

\* There is one up to every stream.
LEMMA ClimbsExists ==
  ASSUME NEW F, NEW n, FileOK(F, n), NEW m \in 0 .. n
  PROVE  \E f : Climbs(f, F, m)
<1> DEFINE Bad == {k \in Nat : k \in 0 .. n /\ ~ \E f : Climbs(f, F, k)}
<1> SUFFICES ASSUME m \in Bad PROVE FALSE
  BY DEF FileOK
<1>1. PICK k \in Bad : \A j \in Bad : k <= j
  <2>1. Bad \in SUBSET Nat /\ Bad # {}
    OBVIOUS
  <2> HIDE DEF Bad
  <2> QED  BY <2>1, LeastNumber
<1>2. k # 0
  <2> SUFFICES \E f : Climbs(f, F, 0)
    BY <1>1
  <2> DEFINE f == [i \in 0 .. 0 |-> {}]
  <2>1. Climbs(f, F, 0)
    BY DEF Climbs
  <2> QED  BY <2>1
<1>3. k \in Nat /\ k \in 1 .. n /\ k - 1 \in Nat /\ ~(k <= k - 1) /\ k - 1 \in 0 .. n
  BY <1>1, <1>2 DEF FileOK
<1>4. PICK g : Climbs(g, F, k - 1)
  BY <1>3, <1>1
<1> DEFINE p == Parent(F, k)
           f == [i \in 0 .. k |-> IF i = k THEN {k} \cup g[p] ELSE g[i]]
<1>5. ASSUME NEW i \in 0 .. k
      PROVE  f[i] = IF i = 0 THEN {} ELSE {i} \cup f[Parent(F, i)]
  <2>1. g[0] = {} /\ \A l \in 1 .. k - 1 : g[l] = {l} \cup g[Parent(F, l)]
    BY <1>3, <1>4, ClimbsAt
  <2>2. ASSUME NEW l \in 1 .. k PROVE Parent(F, l) \in 0 .. k /\ Parent(F, l) # k
    <3>1. Parent(F, l) \in 0 .. l - 1
      <4>1. l \in 1 .. n
        BY <1>3 DEF FileOK
      <4> QED  BY <4>1, ParentBelow
    <3> QED  BY <3>1, <1>3
  <2>3. CASE i = k
    <3>1. f[i] = {k} \cup g[p] /\ i # 0
      BY <2>3, <1>3
    <3>2. f[p] = g[p]
      BY <2>2, <1>3
    <3> QED  BY <2>3, <3>1, <3>2
  <2>4. CASE i = 0
    BY <2>4, <2>1, <1>3
  <2>5. CASE i # k /\ i # 0
    <3>1. f[i] = g[i] /\ i \in 1 .. k - 1 /\ i \in 1 .. k
      BY <2>5, <1>3
    <3>2. f[Parent(F, i)] = g[Parent(F, i)]
      BY <2>2, <3>1
    <3>3. g[i] = {i} \cup g[Parent(F, i)]
      BY <2>1, <3>1
    <3> HIDE DEF f
    <3> QED  BY <2>5, <3>1, <3>2, <3>3
  <2> QED  BY <2>3, <2>4, <2>5
<1>6. Climbs(f, F, k)
  <2>1. f = [i \in 0 .. k |-> f[i]]
    OBVIOUS
  <2> HIDE DEF f
  <2>2. [i \in 0 .. k |-> f[i]] = [i \in 0 .. k |-> IF i = 0 THEN {} ELSE {i} \cup f[Parent(F, i)]]
    BY <1>5
  <2> QED  BY <2>1, <2>2 DEF Climbs
<1> QED  BY <1>6, <1>1

\* The first m streams have the same parents in F and G.
SameParents(F, G, m) == \A i \in 1 .. m : Parent(G, i) = Parent(F, i)

\* Two of them agree as far as the parents do.
LEMMA ClimbsAgree ==
  ASSUME NEW F, NEW n, FileOK(F, n), NEW G, NEW m \in 0 .. n, NEW l \in Nat, m <= l,
         SameParents(F, G, m),
         NEW f, Climbs(f, F, m), NEW g, Climbs(g, G, l)
  PROVE  \A i \in 0 .. m : f[i] = g[i]
<1> DEFINE Bad == {k \in Nat : k \in 0 .. m /\ f[k] # g[k]}
<1>0. 0 .. m \subseteq Nat
  BY DEF FileOK
<1> SUFFICES ASSUME Bad # {} PROVE FALSE
  BY Zenon, <1>0
<1>1. PICK k \in Bad : \A j \in Bad : k <= j
  <2>1. Bad \in SUBSET Nat
    OBVIOUS
  <2> HIDE DEF Bad
  <2> QED  BY <2>1, LeastNumber
<1>2. m \in Nat /\ n \in Nat
  BY DEF FileOK
<1>3. /\ f[0] = {} /\ \A i \in 1 .. m : f[i] = {i} \cup f[Parent(F, i)]
      /\ g[0] = {} /\ \A i \in 1 .. l : g[i] = {i} \cup g[Parent(G, i)]
  BY <1>2, ClimbsAt
<1>4. k \in 1 .. m /\ k \in 1 .. l /\ k \in 1 .. n /\ f[k] # g[k]
  <2>1. k \in 0 .. m /\ f[k] # g[k]
    BY <1>1
  <2>2. k # 0
    BY <2>1, <1>3
  <2> QED  BY <2>1, <2>2, <1>2
<1>5. Parent(F, k) \in 0 .. k - 1
  BY <1>4, ParentBelow
<1>6. Parent(F, k) \notin Bad /\ Parent(F, k) \in 0 .. m /\ Parent(F, k) \in Nat
  BY <1>1, <1>2, <1>4, <1>5
<1>7. f[Parent(F, k)] = g[Parent(F, k)]
  BY <1>6
<1>8. f[k] = {k} \cup f[Parent(F, k)] /\ g[k] = {k} \cup g[Parent(G, k)] /\ Parent(G, k) = Parent(F, k)
  BY <1>3, <1>4 DEF SameParents
<1> QED  BY <1>4, <1>7, <1>8

\* Roots is the last value of that function.
LEMMA RootsIs ==
  ASSUME NEW F, NEW n, FileOK(F, n), NEW id \in 0 .. n
  PROVE  \E f : Climbs(f, F, id) /\ Roots(F, id) = f[id]
<1> DEFINE up == CHOOSE f : f = [i \in 0 .. id |-> IF i = 0 THEN {} ELSE {i} \cup f[Parent(F, i)]]
<1>1. \E f : Climbs(f, F, id)
  BY ClimbsExists
<1>2. Climbs(up, F, id)
  BY <1>1, Zenon DEF Climbs
<1>3. Roots(F, id) = up[id]
  BY Zenon DEF Roots
<1> HIDE DEF up
<1> QED  BY <1>2, <1>3

\* The chains of two files in which the parents are the same.
LEMMA RootsSame ==
  ASSUME NEW F, NEW n, FileOK(F, n), NEW G, NEW m, FileOK(G, m), NEW id \in 0 .. n, n <= m,
         SameParents(F, G, id)
  PROVE  Roots(G, id) = Roots(F, id)
<1>1. n \in Nat /\ m \in Nat /\ id \in Nat /\ id \in 0 .. m /\ id \in 0 .. id /\ id <= id
  BY DEF FileOK
<1>2. PICK f : Climbs(f, F, id) /\ Roots(F, id) = f[id]
  BY RootsIs
<1>3. PICK g : Climbs(g, G, id) /\ Roots(G, id) = g[id]
  BY <1>1, RootsIs
<1>4. \A i \in 0 .. id : f[i] = g[i]
  BY <1>1, <1>2, <1>3, ClimbsAgree
<1> QED  BY <1>1, <1>2, <1>3, <1>4

\* The chain of a stream is the stream and the chain of its parent.
LEMMA RootsAt ==
  ASSUME NEW F, NEW n, FileOK(F, n)
  PROVE  /\ Roots(F, 0) = {}
         /\ \A id \in 1 .. n : Roots(F, id) = {id} \cup Roots(F, Parent(F, id))
<1>0. n \in Nat
  BY DEF FileOK
<1>1. Roots(F, 0) = {}
  <2>1. 0 \in 0 .. n /\ 0 \in Nat
    BY <1>0
  <2>2. PICK f : Climbs(f, F, 0) /\ Roots(F, 0) = f[0]
    BY <2>1, RootsIs
  <2> QED  BY <2>1, <2>2, ClimbsAt
<1>2. ASSUME NEW id \in 1 .. n PROVE Roots(F, id) = {id} \cup Roots(F, Parent(F, id))
  <2> DEFINE p == Parent(F, id)
  <2>1. p \in 0 .. id - 1
    BY ParentBelow
  <2>2. id \in Nat /\ id \in 0 .. n /\ p \in 0 .. n /\ p <= id /\ p \in Nat
    BY <2>1, <1>0
  <2>3. PICK f : Climbs(f, F, id) /\ Roots(F, id) = f[id]
    BY <2>2, RootsIs
  <2>4. PICK g : Climbs(g, F, p) /\ Roots(F, p) = g[p]
    BY <2>2, RootsIs
  <2>5. f[id] = {id} \cup f[p]
    <3>1. id \in 1 .. id
      BY <2>2
    <3> QED  BY <2>2, <2>3, <3>1, ClimbsAt
  <2>6. \A i \in 0 .. p : g[i] = f[i]
    <3>1. SameParents(F, F, p)
      BY DEF SameParents
    <3> HIDE DEF p
    <3> QED  BY <2>2, <2>3, <2>4, <3>1, ClimbsAgree
  <2>7. p \in 0 .. p
    BY <2>2
  <2>8. g[p] = f[p]
    BY <2>6, <2>7
  <2> HIDE DEF p
  <2>9. Roots(F, id) = {id} \cup Roots(F, p)
    BY <2>3, <2>4, <2>5, <2>8
  <2> QED  BY <2>9 DEF p
<1> QED  BY <1>1, <1>2

\* A chain has the stream it starts from, and else the parents of its streams.
Chained(F, id) ==
  /\ Roots(F, id) \subseteq 1 .. id
  /\ id # 0 => id \in Roots(F, id)
  /\ \A r \in Roots(F, id) : r # id => \E c \in Roots(F, id) : Parent(F, c) = r

\* Every stream of a well-formed file has a chain up to the root.
LEMMA Chains ==
  ASSUME NEW F, NEW n, FileOK(F, n), NEW id \in 0 .. n
  PROVE  Chained(F, id)
<1> DEFINE Bad == {k \in Nat : k \in 0 .. n /\ ~Chained(F, k)}
<1> SUFFICES ASSUME Bad # {} PROVE FALSE
  BY DEF FileOK
<1>1. PICK k \in Bad : \A j \in Bad : k <= j
  <2>1. Bad \in SUBSET Nat
    OBVIOUS
  <2> HIDE DEF Bad
  <2> QED  BY <2>1, LeastNumber
<1>2. k # 0
  <2>1. Chained(F, 0)
    BY RootsAt DEF Chained
  <2> QED  BY <2>1, <1>1
<1> DEFINE p == Parent(F, k)
<1>3. k \in 1 .. n /\ k \in Nat /\ n \in Nat /\ ~Chained(F, k)
  BY <1>1, <1>2 DEF FileOK
<1>4. p \in 0 .. k - 1
  BY <1>3, ParentBelow
<1>5. Chained(F, p) /\ p \in Nat /\ p < k
  <2>1. p \in 0 .. n /\ ~(k <= p) /\ p \in Nat
    BY <1>3, <1>4
  <2> QED  BY <2>1, <1>1
<1>6. Roots(F, k) = {k} \cup Roots(F, p)
  BY <1>3, RootsAt
<1>7. Roots(F, k) \subseteq 1 .. k /\ k \in Roots(F, k)
  BY <1>3, <1>5, <1>6 DEF Chained
<1>8. ASSUME NEW r \in Roots(F, k), r # k
      PROVE  \E c \in Roots(F, k) : Parent(F, c) = r
  <2>1. r \in Roots(F, p)
    BY <1>6, <1>8
  <2>2. CASE r = p
    BY <2>2, <1>7
  <2>3. CASE r # p
    BY <2>1, <2>3, <1>5, <1>6 DEF Chained
  <2> QED  BY <2>2, <2>3
<1>9. Chained(F, k)
  BY <1>7, <1>8 DEF Chained
<1> QED  BY <1>9, <1>3

-------------------------------------------------------------------------------
(* readStream after a record is added to the file.                         *)

\* The forks of the chain of a stream, and what counts of record k.
OpensOf(F, id) == {k \in DOMAIN F : IsFork(F[k]) /\ F[k].child \in Roots(F, id)}

CountsFor(F, id, k) ==
  /\ ~IsFork(F[k]) /\ F[k].id \in Roots(F, id)
  /\ \A j \in OpensOf(F, id) : F[j].id = F[k].id => k < j

Portion(F, id, k) == IF CountsFor(F, id, k) THEN F[k].data ELSE <<>>

Portions(F, id) == [k \in 1 .. Len(F) |-> Portion(F, id, k)]

\* What the reader returns for a stream is the concatenation of its portions.
LEMMA ReadIs ==
  ASSUME NEW F, NEW n, FileOK(F, n), NEW id
  PROVE  /\ ReadFile(F, id) = FlattenSeq(Portions(F, id))
         /\ Portions(F, id) \in Seq(Seq(BOOLEAN))
         /\ ReadFile(F, id) \in Seq(BOOLEAN)
<1>1. F \in Seq(Record) /\ Len(F) \in Nat /\ DOMAIN F = 1 .. Len(F)
  BY LenProperties DEF FileOK
<1>2. ReadFile(F, id) = FlattenSeq(Portions(F, id))
  BY <1>1, Zenon DEF ReadFile, Portions, Portion, CountsFor, OpensOf
<1>3. ASSUME NEW k \in 1 .. Len(F) PROVE Portion(F, id, k) \in Seq(BOOLEAN)
  <2>1. F[k] \in Record
    BY <1>1, ElementOfSeq
  <2>2. CountsFor(F, id, k) => ~IsFork(F[k])
    BY DEF CountsFor
  <2>3. <<>> \in Seq(BOOLEAN)
    OBVIOUS
  <2> QED  BY <2>1, <2>2, <2>3, Records DEF Portion
<1>4. Portions(F, id) \in Seq(Seq(BOOLEAN))
  <2>1. Portions(F, id) \in [1 .. Len(F) -> Seq(BOOLEAN)]
    BY <1>3 DEF Portions
  <2> QED  BY <2>1, <1>1, SeqDef
<1> QED  BY <1>2, <1>4, FlattenType

\* A record that changes nothing for the others adds its portion.
LEMMA ReadAppend ==
  ASSUME NEW F, NEW n, FileOK(F, n), NEW r \in Record, NEW m, FileOK(Append(F, r), m),
         NEW id, NEW i,
         \A k \in 1 .. Len(F) : Portion(Append(F, r), i, k) = Portion(F, id, k)
  PROVE  ReadFile(Append(F, r), i) = ReadFile(F, id) \o Portion(Append(F, r), i, Len(F) + 1)
<1> DEFINE G == Append(F, r)
           x == Portion(G, i, Len(F) + 1)
           ss == Portions(F, id)
           tt == Portions(G, i)
<1>1. /\ F \in Seq(Record) /\ Len(F) \in Nat /\ Len(G) = Len(F) + 1
  BY LenProperties, AppendProperties DEF FileOK
<1>2. /\ ReadFile(F, id) = FlattenSeq(ss) /\ ss \in Seq(Seq(BOOLEAN))
      /\ ReadFile(F, id) \in Seq(BOOLEAN)
  BY ReadIs
<1>3. ReadFile(G, i) = FlattenSeq(tt) /\ tt \in Seq(Seq(BOOLEAN))
  BY ReadIs
<1>4. x \in Seq(BOOLEAN)
  <2>1. Len(F) + 1 \in 1 .. Len(G) /\ Len(tt) = Len(G) /\ tt[Len(F) + 1] = x
    BY <1>1 DEF Portions
  <2> HIDE DEF tt, x, G
  <2> QED  BY <2>1, <1>3, ElementOfSeq
<1>5. tt = Append(ss, x)
  <2>1. Len(ss) = Len(F) /\ Len(tt) = Len(F) + 1
    BY <1>1 DEF Portions
  <2>2. \A k \in 1 .. Len(F) : tt[k] = ss[k]
    BY <1>1 DEF Portions
  <2>3. tt[Len(F) + 1] = x
    BY <1>1 DEF Portions
  <2> HIDE DEF tt, ss, x, G
  <2>4. /\ Append(ss, x) \in Seq(Seq(BOOLEAN)) /\ Len(Append(ss, x)) = Len(F) + 1
        /\ \A k \in 1 .. Len(F) : Append(ss, x)[k] = ss[k]
        /\ Append(ss, x)[Len(F) + 1] = x
    BY <1>2, <1>4, <2>1, AppendProperties
  <2>5. \A k \in 1 .. Len(F) + 1 : tt[k] = Append(ss, x)[k]
    BY <1>1, <2>2, <2>3, <2>4
  <2> QED  BY <1>3, <2>1, <2>4, <2>5, SeqEqual
<1> HIDE DEF tt, ss, x, G
<1>6. FlattenSeq(tt) = FlattenSeq(ss) \o x
  BY <1>2, <1>4, <1>5, FlattenAppend
<1>7. ReadFile(G, i) = ReadFile(F, id) \o x
  BY <1>2, <1>3, <1>6
<1> QED  BY <1>7 DEF G, x

\* The file after data of an open stream.
LEMMA DataKeepsFile ==
  ASSUME NEW F, NEW n, FileOK(F, n), NEW os \in 1 .. n, NEW d \in Seq(BOOLEAN)
  PROVE  FileOK(Append(F, DataRecord(os, d)), n)
<1> DEFINE r == DataRecord(os, d)
           G == Append(F, r)
<1>1. r \in Record /\ ~IsFork(r) /\ r.id = os
  <2>1. os \in Nat
    BY DEF FileOK
  <2> QED  BY <2>1, Records
<1>2. /\ F \in Seq(Record) /\ n \in Nat /\ Len(F) \in Nat /\ G \in Seq(Record)
      /\ Len(G) = Len(F) + 1 /\ G[Len(F) + 1] = r /\ \A j \in 1 .. Len(F) : G[j] = F[j]
  BY <1>1, AppendProperties, LenProperties DEF FileOK
<1> HIDE DEF G, r
<1>3. \A j \in 1 .. Len(G) : \/ j \in 1 .. Len(F) /\ G[j] = F[j]
                             \/ G[j] = r
  BY <1>2
<1>4. \A j \in 1 .. Len(F) : j \in 1 .. Len(G)
  BY <1>2
<1>5. \A k \in 1 .. Len(G) : IsFork(G[k]) => G[k].child \in 1 .. n /\ G[k].id < G[k].child
  BY <1>1, <1>3 DEF FileOK
<1>6. \A k \in 1 .. Len(G) : ~IsFork(G[k]) => G[k].id \in 1 .. n
  BY <1>1, <1>3 DEF FileOK
<1>7. ASSUME NEW c \in 1 .. n PROVE \E k \in 1 .. Len(G) : IsFork(G[k]) /\ G[k].child = c
  <2>1. PICK k \in 1 .. Len(F) : IsFork(F[k]) /\ F[k].child = c
    BY DEF FileOK
  <2> QED  BY <2>1, <1>2, <1>4
<1>8. ASSUME NEW j \in 1 .. Len(G), NEW k \in 1 .. Len(G), IsFork(G[j]), IsFork(G[k]),
             G[j].child = G[k].child
      PROVE  j = k
  <2>1. j \in 1 .. Len(F) /\ k \in 1 .. Len(F) /\ G[j] = F[j] /\ G[k] = F[k]
    BY <1>8, <1>1, <1>3
  <2> QED  BY <2>1, <1>8 DEF FileOK
<1>9. FileOK(G, n)
  BY <1>2, <1>5, <1>6, <1>7, <1>8 DEF FileOK
<1> QED  BY <1>9 DEF G, r

\* The file after one more stream is opened.
LEMMA OpenKeepsFile ==
  ASSUME NEW F, NEW n, FileOK(F, n), NEW os \in 0 .. n
  PROVE  FileOK(Append(F, OpenRecord(os, n + 1)), n + 1)
<1> DEFINE m == n + 1
           r == OpenRecord(os, m)
           G == Append(F, r)
<1>0. n \in Nat /\ m \in Nat /\ os \in Nat /\ os < m /\ m \in 1 .. m /\ 1 .. n \subseteq 1 .. m
      /\ (\A c \in 1 .. m : c # m => c \in 1 .. n) /\ m \notin 1 .. n
  BY DEF FileOK
<1>1. r \in Record /\ IsFork(r) /\ r.id = os /\ r.child = m
  BY <1>0, Records
<1>2. /\ F \in Seq(Record) /\ n \in Nat /\ Len(F) \in Nat /\ G \in Seq(Record)
      /\ Len(G) = Len(F) + 1 /\ G[Len(F) + 1] = r /\ \A j \in 1 .. Len(F) : G[j] = F[j]
  BY <1>1, AppendProperties, LenProperties DEF FileOK
<1> HIDE DEF G, r, m
<1>3. \A j \in 1 .. Len(G) : \/ j \in 1 .. Len(F) /\ G[j] = F[j]
                             \/ j = Len(F) + 1 /\ G[j] = r
  BY <1>2
<1>4. (\A j \in 1 .. Len(F) : j \in 1 .. Len(G)) /\ Len(F) + 1 \in 1 .. Len(G)
  BY <1>2
<1>5. \A k \in 1 .. Len(G) : IsFork(G[k]) => G[k].child \in 1 .. m /\ G[k].id < G[k].child
  BY <1>0, <1>1, <1>3 DEF FileOK
<1>6. \A k \in 1 .. Len(G) : ~IsFork(G[k]) => G[k].id \in 1 .. m
  BY <1>0, <1>1, <1>3 DEF FileOK
<1>7. ASSUME NEW c \in 1 .. m PROVE \E k \in 1 .. Len(G) : IsFork(G[k]) /\ G[k].child = c
  <2>1. CASE c = m
    BY <2>1, <1>1, <1>2, <1>4
  <2>2. CASE c # m
    <3>1. c \in 1 .. n
      BY <1>0, <2>2
    <3>2. PICK k \in 1 .. Len(F) : IsFork(F[k]) /\ F[k].child = c
      BY <3>1 DEF FileOK
    <3> QED  BY <3>2, <1>2, <1>4
  <2> QED  BY <2>1, <2>2
<1>8. ASSUME NEW j \in 1 .. Len(G), NEW k \in 1 .. Len(G), IsFork(G[j]), IsFork(G[k]),
             G[j].child = G[k].child
      PROVE  j = k
  <2>1. \A l \in 1 .. Len(F) : IsFork(F[l]) => F[l].child # m
    BY <1>0 DEF FileOK
  <2>2. CASE j \in 1 .. Len(F) /\ G[j] = F[j] /\ k \in 1 .. Len(F) /\ G[k] = F[k]
    BY <2>2, <1>8 DEF FileOK
  <2>3. CASE j = Len(F) + 1 /\ G[j] = r
    BY <2>1, <2>3, <1>1, <1>3, <1>8
  <2>4. CASE k = Len(F) + 1 /\ G[k] = r
    BY <2>1, <2>4, <1>1, <1>3, <1>8
  <2> QED  BY <2>2, <2>3, <2>4, <1>3
<1>9. FileOK(G, m)
  BY <1>0, <1>2, <1>5, <1>6, <1>7, <1>8 DEF FileOK
<1> QED  BY <1>9 DEF G, r, m

\* Data goes to the stream it is written to and to no other: those opened under it
\* found their beginning before.
LEMMA ReadData ==
  ASSUME NEW F, NEW n, FileOK(F, n), NEW os \in 1 .. n, NEW d \in Seq(BOOLEAN), NEW id \in 1 .. n
  PROVE  ReadFile(Append(F, DataRecord(os, d)), id)
           = IF id = os THEN ReadFile(F, id) \o d ELSE ReadFile(F, id)
<1> DEFINE r == DataRecord(os, d)
           G == Append(F, r)
           new == Len(F) + 1
<1>1. n \in Nat /\ r \in Record /\ ~IsFork(r) /\ r.id = os /\ r.data = d
  <2>1. os \in Nat /\ n \in Nat
    BY DEF FileOK
  <2> QED  BY <2>1, Records
<1>2. /\ F \in Seq(Record) /\ Len(F) \in Nat /\ Len(G) = new /\ G[new] = r
      /\ \A j \in 1 .. Len(F) : G[j] = F[j]
      /\ DOMAIN F = 1 .. Len(F) /\ DOMAIN G = 1 .. new
  BY <1>1, AppendProperties, LenProperties DEF FileOK
<1>3. FileOK(G, n)
  BY DataKeepsFile
<1>4. Roots(G, id) = Roots(F, id)
  <2>1. SameParents(F, G, id)
    <3>1. ASSUME NEW c \in 1 .. id PROVE Parent(G, c) = Parent(F, c)
      <4>1. c \in 1 .. n
        BY <1>1
      <4> QED  BY <4>1, <1>1, ParentKept
    <3> QED  BY <3>1 DEF SameParents
  <2>2. id \in 0 .. n /\ n <= n
    BY <1>1
  <2> HIDE DEF G
  <2> QED  BY <1>3, <2>1, <2>2, RootsSame
<1> HIDE DEF G, r
<1>5. OpensOf(G, id) = OpensOf(F, id)
  <2>1. \A k \in 1 .. new : k \in 1 .. Len(F) \/ k = new
    BY <1>2
  <2>2. \A k \in 1 .. Len(F) : k \in 1 .. new
    BY <1>2
  <2> HIDE DEF new
  <2> QED  BY <2>1, <2>2, <1>1, <1>2, <1>4 DEF OpensOf
<1>6. OpensOf(F, id) \subseteq 1 .. Len(F)
  BY <1>2 DEF OpensOf
<1>7. \A k \in 1 .. Len(F) : CountsFor(G, id, k) <=> CountsFor(F, id, k)
  BY <1>2, <1>4, <1>5, <1>6 DEF CountsFor
<1>8. \A k \in 1 .. Len(F) : Portion(G, id, k) = Portion(F, id, k)
  BY <1>2, <1>7 DEF Portion
<1>9. CountsFor(G, id, new) <=> id = os
  <2>1. Chained(F, id)
    <3>1. id \in 0 .. n
      BY <1>1
    <3> QED  BY <3>1, Chains
  <2>2. \A j \in OpensOf(F, id) : ~(new < j) /\ j # new /\ j \in 1 .. Len(F)
    BY <1>2, <1>6
  <2>3. ASSUME id = os PROVE CountsFor(G, id, new)
    <3>1. os \in Roots(F, id)
      BY <1>1, <2>1, <2>3 DEF Chained
    <3>2. \A j \in OpensOf(F, id) : F[j].id # os
      <4> TAKE j \in OpensOf(F, id)
      <4>1. j \in 1 .. Len(F) /\ IsFork(F[j]) /\ F[j].child \in 1 .. id
        BY <1>2, <2>1 DEF OpensOf, Chained
      <4>2. F[j].id < F[j].child /\ F[j].id \in Nat
        <5>1. F[j] \in Record
          BY <1>2, <4>1, ElementOfSeq
        <5> QED  BY <4>1, <5>1, Records DEF FileOK
      <4> QED  BY <4>1, <4>2, <2>3, <1>1
    <3> QED  BY <3>1, <3>2, <1>1, <1>2, <1>4, <1>5, <1>6 DEF CountsFor
  <2>4. ASSUME CountsFor(G, id, new), id # os PROVE FALSE
    <3>1. os \in Roots(F, id)
      BY <2>4, <1>1, <1>2, <1>4 DEF CountsFor
    <3>2. PICK c \in Roots(F, id) : Parent(F, c) = os
      BY <3>1, <2>1, <2>4 DEF Chained
    <3>3. c \in 1 .. n
      BY <2>1, <1>1 DEF Chained
    <3>4. PICK j \in 1 .. Len(F) : IsFork(F[j]) /\ F[j].child = c
      BY <3>3 DEF FileOK
    <3>5. F[j].id = os
      BY <3>2, <3>4, ParentIs
    <3>6. j \in OpensOf(F, id)
      BY <3>4, <3>2, <1>2 DEF OpensOf
    <3>7. new < j
      BY <2>4, <3>5, <3>6, <1>1, <1>2, <1>5 DEF CountsFor
    <3> QED  BY <3>6, <3>7, <2>2
  <2> QED  BY <2>3, <2>4
<1>10. Portion(G, id, new) = IF id = os THEN d ELSE <<>>
  BY <1>1, <1>2, <1>9 DEF Portion
<1>11. ReadFile(G, id) = ReadFile(F, id) \o Portion(G, id, new)
  BY <1>1, <1>3, <1>8, ReadAppend DEF G
<1>12. ReadFile(F, id) \in Seq(BOOLEAN)
  BY ReadIs
<1>13. ReadFile(F, id) \o <<>> = ReadFile(F, id)
  BY <1>12, ConcatEmptySeq
<1>14. ReadFile(G, id) = IF id = os THEN ReadFile(F, id) \o d ELSE ReadFile(F, id)
  BY <1>10, <1>11, <1>13
<1> QED  BY <1>14 DEF G, r

\* A stream that is opened begins with what its parent holds; the others keep theirs.
LEMMA ReadOpen ==
  ASSUME NEW F, NEW n, FileOK(F, n), NEW os \in 1 .. n, NEW id \in 1 .. n + 1
  PROVE  ReadFile(Append(F, OpenRecord(os, n + 1)), id)
           = ReadFile(F, IF id = n + 1 THEN os ELSE id)
<1> DEFINE m == n + 1
           r == OpenRecord(os, m)
           G == Append(F, r)
           new == Len(F) + 1
           from == IF id = m THEN os ELSE id
<1>0. n \in Nat /\ m \in Nat /\ os \in Nat /\ m \notin 1 .. n /\ n <= m /\ os \in 0 .. n /\ m \in 1 .. m
      /\ from \in 1 .. n /\ from \in 0 .. n /\ (id # m => id \in 1 .. n /\ from = id)
      /\ \A c \in 1 .. n : c \in 1 .. m /\ c # m
  BY DEF FileOK
<1>1. r \in Record /\ IsFork(r) /\ r.id = os /\ r.child = m
  BY <1>0, Records
<1>2. /\ F \in Seq(Record) /\ Len(F) \in Nat /\ Len(G) = new /\ G[new] = r
      /\ \A j \in 1 .. Len(F) : G[j] = F[j]
      /\ DOMAIN F = 1 .. Len(F) /\ DOMAIN G = 1 .. new /\ new \in 1 .. new
  BY <1>1, AppendProperties, LenProperties DEF FileOK
<1>3. FileOK(G, m)
  BY <1>0, OpenKeepsFile
<1>4. ASSUME NEW i \in 0 .. n PROVE Roots(G, i) = Roots(F, i)
  <2>1. SameParents(F, G, i)
    <3>1. ASSUME NEW c \in 1 .. i PROVE Parent(G, c) = Parent(F, c)
      <4>1. c \in 1 .. n
        BY <1>0
      <4>2. IsFork(r) => r.child \notin 1 .. n
        BY <1>0, <1>1
      <4> HIDE DEF r
      <4> QED  BY <4>1, <4>2, <1>1, ParentKept
    <3> QED  BY <3>1 DEF SameParents
  <2> HIDE DEF G, m
  <2> QED  BY <1>0, <1>3, <2>1, RootsSame
<1>5. Roots(G, m) = {m} \cup Roots(F, os)
  <2>1. new \in 1 .. Len(G) /\ IsFork(G[new]) /\ G[new].child = m /\ G[new].id = os
    BY <1>1, <1>2
  <2>2. Parent(G, m) = os
    <3>1. Parent(G, G[new].child) = G[new].id
      BY <1>3, <2>1, ParentIs
    <3> QED  BY <2>1, <3>1
  <2>3. Roots(G, m) = {m} \cup Roots(G, Parent(G, m))
    BY <1>0, <1>3, RootsAt
  <2> QED  BY <2>2, <2>3, <1>0, <1>4
<1>6. Roots(F, from) \subseteq 1 .. n
  <2>1. Chained(F, from)
    BY <1>0, Chains
  <2> QED  BY <2>1, <1>0 DEF Chained
<1>7. /\ Roots(F, from) \subseteq Roots(G, id)
      /\ \A i \in 1 .. n : i \in Roots(G, id) => i \in Roots(F, from)
      /\ id # m => Roots(G, id) = Roots(F, from)
  <2>1. CASE id = m
    BY <2>1, <1>0, <1>5
  <2>2. CASE id # m
    BY <2>2, <1>0, <1>4
  <2> QED  BY <2>1, <2>2
<1> HIDE DEF G, r, m, from, new
<1>8. new = Len(F) + 1 /\ \A k \in 1 .. Len(F) : k \in 1 .. new /\ k # new /\ k < new
  BY <1>2 DEF new
<1>9. ASSUME NEW k \in 1 .. Len(F)
      PROVE  k \in OpensOf(G, id) <=> k \in OpensOf(F, from)
  <2>1. IsFork(F[k]) => F[k].child \in 1 .. n
    BY DEF FileOK
  <2> QED  BY <2>1, <1>2, <1>7, <1>8 DEF OpensOf
<1>10. OpensOf(F, from) \subseteq 1 .. Len(F) /\ OpensOf(G, id) \subseteq 1 .. Len(F) \cup {new}
  BY <1>2 DEF OpensOf, new
<1>11. ASSUME NEW k \in 1 .. Len(F)
       PROVE  CountsFor(G, id, k) <=> CountsFor(F, from, k)
  <2>1. ~IsFork(F[k]) => (F[k].id \in Roots(G, id) <=> F[k].id \in Roots(F, from))
    BY <1>7 DEF FileOK
  <2>2. ASSUME CountsFor(G, id, k) PROVE CountsFor(F, from, k)
    <3>1. ~IsFork(F[k]) /\ F[k].id \in Roots(F, from)
      BY <2>1, <2>2, <1>2 DEF CountsFor
    <3>2. ASSUME NEW j \in OpensOf(F, from), F[j].id = F[k].id PROVE k < j
      <4>1. j \in 1 .. Len(F) /\ j \in OpensOf(G, id) /\ G[j] = F[j] /\ G[k] = F[k]
        BY <1>2, <1>9, <1>10
      <4> QED  BY <4>1, <3>2, <2>2 DEF CountsFor
    <3> QED  BY <3>1, <3>2 DEF CountsFor
  <2>3. ASSUME CountsFor(F, from, k) PROVE CountsFor(G, id, k)
    <3>1. ~IsFork(G[k]) /\ G[k].id \in Roots(G, id) /\ G[k] = F[k]
      BY <2>1, <2>3, <1>2 DEF CountsFor
    <3>2. ASSUME NEW j \in OpensOf(G, id), G[j].id = G[k].id PROVE k < j
      <4>1. CASE j = new
        BY <4>1, <1>8
      <4>2. CASE j # new
        <5>1. j \in 1 .. Len(F)
          BY <4>2, <1>10
        <5>2. j \in OpensOf(F, from) /\ G[j] = F[j]
          BY <5>1, <1>2, <1>9
        <5> QED  BY <5>2, <3>1, <3>2, <2>3 DEF CountsFor
      <4> QED  BY <4>1, <4>2
    <3> QED  BY <3>1, <3>2 DEF CountsFor
  <2> QED  BY <2>2, <2>3
<1>12. \A k \in 1 .. Len(F) : Portion(G, id, k) = Portion(F, from, k)
  BY <1>2, <1>11 DEF Portion
<1>13. Portion(G, id, new) = <<>>
  BY <1>1, <1>2 DEF Portion, CountsFor
<1>14. ReadFile(G, id) = ReadFile(F, from) \o Portion(G, id, new)
  BY <1>1, <1>3, <1>8, <1>12, ReadAppend DEF G
<1>15. ReadFile(F, from) \in Seq(BOOLEAN)
  BY ReadIs
<1>16. ReadFile(G, id) = ReadFile(F, from)
  BY <1>13, <1>14, <1>15, ConcatEmptySeq
<1> QED  BY <1>16 DEF G, r, m, from

-------------------------------------------------------------------------------
(* The writer: what is in the file and the buffer is what was asked for.   *)

WriterOK(w) ==
  /\ w \in [file : Seq(Record), buffer : Seq(BOOLEAN), lastID : Nat, ids : Nat]
  /\ FileOK(w.file, w.ids - 1)
  /\ w.buffer # <<>> => w.lastID \in 1 .. w.ids - 1

\* The streams of w hold the sequences c.
Holds(w, c) ==
  /\ WriterOK(w) /\ c \in Seq(Seq(BOOLEAN)) /\ Len(c) = w.ids - 1
  /\ \A id \in 1 .. Len(c) : ReadFile(FlushBuffer(w).file, id) = c[id]

\* Flushing empties the buffer, and a second flush changes nothing.
LEMMA FlushIs ==
  ASSUME NEW w, WriterOK(w)
  PROVE  /\ WriterOK(FlushBuffer(w)) /\ FlushBuffer(w).buffer = <<>>
         /\ FlushBuffer(w).ids = w.ids /\ FlushBuffer(FlushBuffer(w)) = FlushBuffer(w)
         /\ FlushBuffer(w).file = IF w.buffer = <<>> THEN w.file
                                  ELSE Append(w.file, DataRecord(w.lastID, w.buffer))
<1>1. CASE w.buffer = <<>>
  BY <1>1 DEF FlushBuffer
<1>2. CASE w.buffer # <<>>
  <2> DEFINE r == DataRecord(w.lastID, w.buffer)
             F == Append(w.file, r)
             v == [w EXCEPT !.file = F, !.buffer = <<>>]
  <2>1. FlushBuffer(w) = v
    BY <1>2 DEF FlushBuffer
  <2>2. FileOK(F, w.ids - 1)
    BY <1>2, DataKeepsFile DEF WriterOK
  <2>3. F \in Seq(Record)
    BY <2>2 DEF FileOK
  <2> HIDE DEF F, r
  <2>4. v.file = F /\ v.buffer = <<>> /\ v.lastID = w.lastID /\ v.ids = w.ids
    BY DEF WriterOK
  <2>5. v \in [file : Seq(Record), buffer : Seq(BOOLEAN), lastID : Nat, ids : Nat]
    <3>1. <<>> \in Seq(BOOLEAN)
      OBVIOUS
    <3>2. w \in [file : Seq(Record), buffer : Seq(BOOLEAN), lastID : Nat, ids : Nat]
      BY DEF WriterOK
    <3> QED  BY <2>3, <3>1, <3>2
  <2>6. WriterOK(v)
    BY <2>2, <2>4, <2>5 DEF WriterOK
  <2>7. FlushBuffer(v) = v
    BY <2>4 DEF FlushBuffer
  <2> QED  BY <1>2, <2>1, <2>4, <2>6, <2>7 DEF F, r
<1> QED  BY <1>1, <1>2

\* A flush loses nothing.
LEMMA FlushHolds ==
  ASSUME NEW w, NEW c, Holds(w, c)
  PROVE  Holds(FlushBuffer(w), c)
BY FlushIs DEF Holds

\* What write() leaves when the buffer is empty or is the stream's own.
LEMMA WriteIs ==
  ASSUME NEW w, WriterOK(w), NEW os \in 1 .. w.ids - 1, NEW v \in BOOLEAN,
         w.buffer = <<>> \/ os = w.lastID
  PROVE  LET u == [w EXCEPT !.lastID = os, !.buffer = Append(@, v)] IN
           /\ WriterOK(u) /\ u.ids = w.ids
           /\ FlushBuffer(u).file = Append(w.file, DataRecord(os, Append(w.buffer, v)))
<1> DEFINE u == [w EXCEPT !.lastID = os, !.buffer = Append(@, v)]
           b == Append(w.buffer, v)
<1>0. w.ids - 1 \in Nat /\ os \in Nat
  BY DEF WriterOK, FileOK
<1>1. b \in Seq(BOOLEAN) /\ b # <<>>
  BY AppendProperties DEF WriterOK
<1>2. u.file = w.file /\ u.buffer = b /\ u.lastID = os /\ u.ids = w.ids
  BY DEF WriterOK
<1>3. u \in [file : Seq(Record), buffer : Seq(BOOLEAN), lastID : Nat, ids : Nat]
  BY <1>0, <1>1 DEF WriterOK
<1> HIDE DEF b, u
<1>4. WriterOK(u)
  BY <1>1, <1>2, <1>3 DEF WriterOK
<1>5. FlushBuffer(u).file = Append(w.file, DataRecord(os, b))
  BY <1>1, <1>2, <1>4, FlushIs
<1>6. /\ WriterOK(u) /\ u.ids = w.ids
      /\ FlushBuffer(u).file = Append(w.file, DataRecord(os, Append(w.buffer, v)))
  BY <1>2, <1>4, <1>5 DEF b
<1> QED  BY <1>6 DEF u

\* Concatenation is associative on sequences of characters.
LEMMA CharactersAssociate ==
  \A r, s, t \in Seq(BOOLEAN) : (r \o s) \o t = r \o (s \o t)
BY ConcatAssociative

\* The data s of stream os is written with one more character.
LEMMA ReadLonger ==
  ASSUME NEW F, NEW n, FileOK(F, n), NEW os \in 1 .. n, NEW id \in 1 .. n,
         NEW s \in Seq(BOOLEAN), NEW t \in Seq(BOOLEAN)
  PROVE  ReadFile(Append(F, DataRecord(os, s \o t)), id)
           = IF id # os THEN IF s = <<>> THEN ReadFile(F, id) ELSE ReadFile(Append(F, DataRecord(os, s)), id)
             ELSE (IF s = <<>> THEN ReadFile(F, id) ELSE ReadFile(Append(F, DataRecord(os, s)), id)) \o t
<1>1. s \o t \in Seq(BOOLEAN)
  BY ConcatProperties
<1>2. \A b \in Seq(BOOLEAN) :
        ReadFile(Append(F, DataRecord(os, b)), id) = IF id = os THEN ReadFile(F, id) \o b ELSE ReadFile(F, id)
  BY ReadData
<1>3. ReadFile(F, id) \in Seq(BOOLEAN)
  BY ReadIs
<1>4. (ReadFile(F, id) \o s) \o t = ReadFile(F, id) \o (s \o t)
  BY Zenon, <1>3, CharactersAssociate
<1>5. s = <<>> => s \o t = t
  BY ConcatEmptySeq
<1>6. ReadFile(Append(F, DataRecord(os, s \o t)), id)
        = IF id = os THEN ReadFile(F, id) \o (s \o t) ELSE ReadFile(F, id)
  BY <1>1, <1>2
<1>7. ReadFile(Append(F, DataRecord(os, s)), id) = IF id = os THEN ReadFile(F, id) \o s ELSE ReadFile(F, id)
  BY <1>2
<1> QED  BY <1>4, <1>5, <1>6, <1>7

\* What the streams should hold after a character is added to one of them.
LEMMA RecordedIs ==
  ASSUME NEW c \in Seq(Seq(BOOLEAN)), NEW os \in 1 .. Len(c), NEW v \in BOOLEAN
  PROVE  /\ Recorded(c, os, v) \in Seq(Seq(BOOLEAN)) /\ Len(Recorded(c, os, v)) = Len(c)
         /\ \A id \in 1 .. Len(c) : Recorded(c, os, v)[id] = IF id = os THEN Append(c[id], v) ELSE c[id]
<1> DEFINE d == Recorded(c, os, v)
<1>1. DOMAIN c = 1 .. Len(c) /\ c[os] \in Seq(BOOLEAN)
  BY LenProperties, ElementOfSeq
<1>2. Append(c[os], v) \in Seq(BOOLEAN)
  BY <1>1, AppendProperties
<1>3. d = [c EXCEPT ![os] = Append(c[os], v)]
  BY DEF Recorded
<1>4. d \in Seq(Seq(BOOLEAN)) /\ Len(d) = Len(c)
  BY <1>1, <1>2, <1>3, ExceptSeq
<1> QED  BY <1>1, <1>3, <1>4

\* write() adds a character to its stream.
LEMMA WriteHolds ==
  ASSUME NEW w, NEW c, Holds(w, c), NEW os \in 1 .. Len(c), NEW v \in BOOLEAN
  PROVE  Holds(Write(w, os, v), Recorded(c, os, v)) /\ Write(w, os, v).ids = w.ids
<1> DEFINE d == Recorded(c, os, v)
<1>1. /\ d \in Seq(Seq(BOOLEAN)) /\ Len(d) = Len(c)
      /\ \A id \in 1 .. Len(c) : d[id] = IF id = os THEN Append(c[id], v) ELSE c[id]
  BY RecordedIs DEF Holds
<1> HIDE DEF d
<1>2. \A id \in 1 .. Len(c) : c[id] \in Seq(BOOLEAN) /\ c[id] \o <<v>> = Append(c[id], v)
  <2>1. \A id \in 1 .. Len(c) : c[id] \in Seq(BOOLEAN)
    BY ElementOfSeq DEF Holds
  <2>2. \A s \in Seq(BOOLEAN) : s \o <<v>> = Append(s, v)
    OBVIOUS
  <2> QED  BY <2>1, <2>2
<1>3. ASSUME NEW z, Holds(z, c), z.ids = w.ids, z.buffer = <<>> \/ os = z.lastID
      PROVE  LET u == [z EXCEPT !.lastID = os, !.buffer = Append(@, v)] IN
               Holds(u, d) /\ u.ids = w.ids
  <2>1. WriterOK(z) /\ z.ids - 1 \in Nat /\ Len(c) = z.ids - 1
    BY <1>3 DEF Holds, WriterOK, FileOK
  <2>2. PICK n : n = z.ids - 1
    OBVIOUS
  <2>3. PICK F : F = z.file
    OBVIOUS
  <2>4. PICK t : t = <<v>>
    OBVIOUS
  <2>5. t \in Seq(BOOLEAN) /\ z.buffer \in Seq(BOOLEAN) /\ FileOK(F, n) /\ Len(c) = n
    BY <2>1, <2>2, <2>3, <2>4 DEF WriterOK
  <2>6. PICK b : b = Append(z.buffer, v)
    OBVIOUS
  <2>7. b \in Seq(BOOLEAN) /\ b = z.buffer \o t
    <3>1. b \in Seq(BOOLEAN)
      BY Zenon, <2>5, <2>6, AppendProperties
    <3>2. b = z.buffer \o t
      BY Zenon, <2>4, <2>5, <2>6, AppendIsConcat
    <3> QED  BY <3>1, <3>2
  <2>8. PICK u : u = [z EXCEPT !.lastID = os, !.buffer = Append(@, v)]
    OBVIOUS
  <2>9. os \in 1 .. n
    BY <2>5
  <2>10. WriterOK(u) /\ u.ids = z.ids /\ FlushBuffer(u).file = Append(F, DataRecord(os, b))
    <3>1. os \in 1 .. z.ids - 1
      BY <2>2, <2>9
    <3> QED  BY <3>1, <1>3, <2>1, <2>3, <2>6, <2>8, WriteIs
  <2>11. ASSUME NEW id \in 1 .. Len(c) PROVE ReadFile(Append(F, DataRecord(os, b)), id) = d[id]
    <3>1. id \in 1 .. n
      BY <2>5
    <3>2. ReadFile(FlushBuffer(z).file, id) = c[id]
      BY <1>3 DEF Holds
    <3>3. FlushBuffer(z).file = IF z.buffer = <<>> THEN F ELSE Append(F, DataRecord(os, z.buffer))
      BY <2>1, <2>3, <1>3, FlushIs
    <3>4. c[id] \in Seq(BOOLEAN) /\ d[id] = IF id = os THEN c[id] \o t ELSE c[id]
      BY <1>1, <1>2, <2>4
    <3>5. c[id] = IF z.buffer = <<>> THEN ReadFile(F, id) ELSE ReadFile(Append(F, DataRecord(os, z.buffer)), id)
      BY <3>2, <3>3
    <3>6. ReadFile(Append(F, DataRecord(os, z.buffer \o t)), id) = IF id # os THEN c[id] ELSE c[id] \o t
      <4>1. ASSUME NEW s \in Seq(BOOLEAN)
            PROVE  ReadFile(Append(F, DataRecord(os, s \o t)), id)
                     = IF id # os THEN IF s = <<>> THEN ReadFile(F, id) ELSE ReadFile(Append(F, DataRecord(os, s)), id)
                       ELSE (IF s = <<>> THEN ReadFile(F, id) ELSE ReadFile(Append(F, DataRecord(os, s)), id)) \o t
        <5>1. FileOK(F, n) /\ t \in Seq(BOOLEAN)
          BY <2>5
        <5> QED  BY <5>1, <2>9, <3>1, ReadLonger
      <4> QED  BY <2>5, <3>5, <4>1
    <3> QED  BY <2>7, <3>4, <3>6
  <2>12. Holds(u, d)
    BY <2>1, <2>2, <2>5, <2>10, <2>11, <1>1 DEF Holds
  <2> QED  BY <2>8, <2>10, <2>12, <1>3
<1> DEFINE flush == w.buffer # <<>> /\ (os # w.lastID \/ 1 + Len(w.buffer) > BufferSize)
<1>4. WriterOK(w)
  BY DEF Holds
<1>5. CASE flush
  <2> DEFINE z == FlushBuffer(w)
  <2>1. Holds(z, c) /\ z.ids = w.ids /\ z.buffer = <<>>
    BY <1>4, FlushHolds, FlushIs
  <2>2. Write(w, os, v) = [z EXCEPT !.lastID = os, !.buffer = Append(@, v)]
    BY <1>5, <2>1 DEF Write
  <2> HIDE DEF z
  <2> QED  BY <2>1, <2>2, <1>3 DEF d
<1>6. CASE ~flush /\ w.buffer = <<>>
  <2>1. Write(w, os, v) = [w EXCEPT !.lastID = os, !.buffer = Append(@, v)]
    BY <1>6 DEF Write
  <2> QED  BY <2>1, <1>3, <1>6 DEF d
<1>7. CASE ~flush /\ w.buffer # <<>>
  <2>1. os = w.lastID
    BY <1>7
  <2>2. Write(w, os, v) = [w EXCEPT !.lastID = w.lastID, !.buffer = Append(@, v)]
    BY <1>7 DEF Write
  <2>3. Write(w, os, v) = [w EXCEPT !.lastID = os, !.buffer = Append(@, v)]
    BY <2>1, <2>2
  <2> QED  BY <2>1, <2>3, <1>3 DEF d
<1> QED  BY <1>5, <1>6, <1>7

\* open() makes a stream that begins with what its parent holds.
LEMMA OpenHolds ==
  ASSUME NEW w, NEW c, Holds(w, c), NEW os \in 1 .. Len(c)
  PROVE  Holds(Open(w, os), Append(c, c[os])) /\ Open(w, os).ids = w.ids + 1
<1>1. WriterOK(w) /\ w.ids \in Nat /\ c \in Seq(Seq(BOOLEAN)) /\ w.ids - 1 \in Nat /\ Len(c) = w.ids - 1
  BY DEF Holds, WriterOK, FileOK
<1>2. PICK n \in Nat : n = w.ids - 1
  BY <1>1
<1>3. Len(c) = n /\ w.ids = n + 1 /\ os \in 1 .. n /\ os \in 0 .. n /\ n + 1 \in Nat /\ n + 2 \in Nat
      /\ n + 1 + 1 = n + 2 /\ n + 2 - 1 = n + 1 /\ n + 1 - 1 = n
  <2>1. Len(c) = n /\ w.ids = n + 1
    BY <1>1, <1>2
  <2>2. os \in 1 .. n
    BY <2>1
  <2> QED  BY <2>1, <2>2
<1>4. PICK z : z = FlushBuffer(w)
  OBVIOUS
<1>5. WriterOK(z) /\ Holds(z, c) /\ z.ids = n + 1 /\ z.buffer = <<>> /\ FlushBuffer(z) = z
  BY <1>1, <1>3, <1>4, FlushHolds, FlushIs
<1>6. z \in [file : Seq(Record), buffer : Seq(BOOLEAN), lastID : Nat, ids : Nat] /\ FileOK(z.file, n)
  BY <1>3, <1>5 DEF WriterOK
<1>7. PICK F : F = Append(z.file, OpenRecord(os, n + 1))
  OBVIOUS
<1>8. FileOK(F, n + 1) /\ F \in Seq(Record)
  <2>1. FileOK(F, n + 1)
    BY <1>3, <1>6, <1>7, OpenKeepsFile
  <2> QED  BY <2>1 DEF FileOK
<1>9. PICK u : u = [z EXCEPT !.file = F, !.ids = n + 2]
  OBVIOUS
<1>10. Open(w, os) = u
  <2>1. Open(w, os) = [z EXCEPT !.file = F, !.ids = n + 2]
    <3>1. Open(w, os) = [z EXCEPT !.file = Append(z.file, OpenRecord(os, n + 1)), !.ids = n + 1 + 1]
      BY <1>3, <1>4, <1>5 DEF Open
    <3> QED  BY <3>1, <1>3, <1>7
  <2> QED  BY <2>1, <1>9
<1>11. WriterOK(u) /\ u.file = F /\ u.ids = n + 2 /\ u.buffer = <<>>
  <2>2. u \in [file : Seq(Record), buffer : Seq(BOOLEAN), lastID : Nat, ids : Nat]
    BY <1>3, <1>6, <1>8, <1>9
  <2>3. u.file = F /\ u.ids = n + 2 /\ u.buffer = <<>>
    BY <1>5, <1>6, <1>9
  <2> QED  BY <2>2, <2>3, <1>3, <1>8 DEF WriterOK
<1>12. FlushBuffer(u).file = F
  BY <1>11, FlushIs
<1>13. PICK d : d = Append(c, c[os])
  OBVIOUS
<1>14. /\ d \in Seq(Seq(BOOLEAN)) /\ Len(d) = n + 1 /\ d[n + 1] = c[os]
       /\ \A id \in 1 .. n : d[id] = c[id]
  <2>1. c[os] \in Seq(BOOLEAN)
    BY <1>1, ElementOfSeq
  <2> QED  BY <2>1, <1>1, <1>3, <1>13, AppendProperties
<1>15. ASSUME NEW id \in 1 .. n + 1 PROVE ReadFile(F, id) = d[id]
  <2>1. ReadFile(F, id) = ReadFile(z.file, IF id = n + 1 THEN os ELSE id)
    BY <1>3, <1>6, <1>7, ReadOpen
  <2>2. \A i \in 1 .. n : ReadFile(z.file, i) = c[i]
    BY <1>3, <1>5 DEF Holds
  <2>3. CASE id = n + 1
    BY <2>1, <2>2, <2>3, <1>3, <1>14
  <2>4. CASE id # n + 1
    <3>1. id \in 1 .. n /\ ReadFile(F, id) = ReadFile(z.file, id)
      BY <2>1, <2>4, <1>2
    <3> QED  BY <3>1, <2>2, <1>14
  <2> QED  BY <2>3, <2>4
<1>16. Holds(u, d)
  BY <1>3, <1>11, <1>12, <1>14, <1>15 DEF Holds
<1> QED  BY <1>3, <1>10, <1>11, <1>13, <1>16

\* A fork: the stream of the state and the new one part with the characters of the two
\* sides.
LEMMA SplitHolds ==
  ASSUME NEW w, NEW c, Holds(w, c), NEW os \in 1 .. Len(c)
  PROVE  /\ Holds(Write(Write(Open(w, os), os, TRUE), w.ids, FALSE), Split(c, os))
         /\ Write(Write(Open(w, os), os, TRUE), w.ids, FALSE).ids = w.ids + 1
<1>1. w.ids \in Nat /\ c \in Seq(Seq(BOOLEAN)) /\ w.ids - 1 \in Nat /\ Len(c) = w.ids - 1
  BY DEF Holds, WriterOK, FileOK
<1>2. PICK n \in Nat : n = Len(c)
  BY <1>1
<1>3. w.ids = n + 1 /\ n + 1 \in 1 .. n + 1 /\ os \in 1 .. n /\ os \in 1 .. n + 1 /\ os # n + 1
  BY <1>1, <1>2
<1>4. c[os] \in Seq(BOOLEAN)
  BY <1>1, ElementOfSeq
<1>5. PICK d : d = Append(c, c[os])
  OBVIOUS
<1>6. /\ d \in Seq(Seq(BOOLEAN)) /\ Len(d) = n + 1 /\ d[n + 1] = c[os]
      /\ \A id \in 1 .. n : d[id] = c[id]
  BY <1>1, <1>2, <1>4, <1>5, AppendProperties
<1>7. PICK x : x = Open(w, os)
  OBVIOUS
<1>8. Holds(x, d) /\ x.ids = w.ids + 1
  BY <1>5, <1>7, OpenHolds
<1>9. PICK e : e = Recorded(d, os, TRUE)
  OBVIOUS
<1>10. /\ e \in Seq(Seq(BOOLEAN)) /\ Len(e) = n + 1
       /\ \A id \in 1 .. n + 1 : e[id] = IF id = os THEN Append(d[id], TRUE) ELSE d[id]
  <2>1. os \in 1 .. Len(d) /\ TRUE \in BOOLEAN
    BY <1>3, <1>6
  <2>2. /\ e \in Seq(Seq(BOOLEAN)) /\ Len(e) = Len(d)
        /\ \A id \in 1 .. Len(d) : e[id] = IF id = os THEN Append(d[id], TRUE) ELSE d[id]
    BY <2>1, <1>6, <1>9, RecordedIs, Zenon
  <2> QED  BY <2>2, <1>6
<1>11. PICK y : y = Write(x, os, TRUE)
  OBVIOUS
<1>12. Holds(y, e) /\ y.ids = w.ids + 1
  <2>1. os \in 1 .. Len(d) /\ TRUE \in BOOLEAN
    BY <1>3, <1>6
  <2> QED  BY <2>1, <1>8, <1>9, <1>11, WriteHolds
<1>13. PICK f : f = Recorded(e, n + 1, FALSE)
  OBVIOUS
<1>14. /\ f \in Seq(Seq(BOOLEAN)) /\ Len(f) = n + 1
       /\ \A id \in 1 .. n + 1 : f[id] = IF id = n + 1 THEN Append(e[id], FALSE) ELSE e[id]
  <2>1. n + 1 \in 1 .. Len(e) /\ FALSE \in BOOLEAN
    BY <1>3, <1>10
  <2>2. /\ f \in Seq(Seq(BOOLEAN)) /\ Len(f) = Len(e)
        /\ \A id \in 1 .. Len(e) : f[id] = IF id = n + 1 THEN Append(e[id], FALSE) ELSE e[id]
    BY <2>1, <1>10, <1>13, RecordedIs, Zenon
  <2> QED  BY <2>2, <1>10
<1>15. Holds(Write(y, n + 1, FALSE), f) /\ Write(y, n + 1, FALSE).ids = w.ids + 1
  <2>1. n + 1 \in 1 .. Len(e) /\ FALSE \in BOOLEAN
    BY <1>3, <1>10
  <2> QED  BY <2>1, <1>12, <1>13, WriteHolds
<1>16. f = Split(c, os)
  <2>1. PICK p : p = Recorded(c, os, TRUE)
    OBVIOUS
  <2>2. /\ p \in Seq(Seq(BOOLEAN)) /\ Len(p) = n
        /\ \A id \in 1 .. n : p[id] = IF id = os THEN Append(c[id], TRUE) ELSE c[id]
    BY <1>1, <1>2, <2>1, RecordedIs
  <2>3. PICK q \in Seq(BOOLEAN) : q = Append(c[os], FALSE)
    BY <1>4, AppendProperties
  <2>4. PICK g : g = Append(p, q)
    OBVIOUS
  <2>5. /\ g \in Seq(Seq(BOOLEAN)) /\ Len(g) = n + 1 /\ g[n + 1] = q
        /\ \A id \in 1 .. n : g[id] = p[id]
    <3>1. Len(p) = n /\ n \in Nat /\ q \in Seq(BOOLEAN)
      BY <2>2, <2>3
    <3>2. /\ g \in Seq(Seq(BOOLEAN)) /\ Len(g) = Len(p) + 1 /\ g[Len(p) + 1] = q
          /\ \A id \in 1 .. Len(p) : g[id] = p[id]
      BY <3>1, <2>2, <2>4, AppendProperties
    <3> QED  BY <3>1, <3>2
  <2>6. ASSUME NEW id \in 1 .. n + 1 PROVE f[id] = g[id]
    <3>1. CASE id = n + 1
      <4>1. f[id] = Append(e[id], FALSE)
        BY <3>1, <1>3, <1>14
      <4>2. e[id] = d[id]
        BY <3>1, <1>3, <1>10
      <4>3. d[id] = c[os]
        BY <3>1, <1>6
      <4>4. g[id] = Append(c[os], FALSE)
        BY Zenon, <3>1, <2>3, <2>5
      <4> QED  BY Zenon, <4>1, <4>2, <4>3, <4>4
    <3>2. CASE id # n + 1
      <4>1. id \in 1 .. n
        BY <3>2, <1>2
      <4>2. id \in 1 .. n + 1 /\ d[id] = c[id]
        BY Zenon, <4>1, <1>6
      <4>3. f[id] = e[id]
        BY Zenon, <3>2, <4>2, <1>14
      <4>4. e[id] = IF id = os THEN Append(c[id], TRUE) ELSE c[id]
        BY Zenon, <4>2, <1>10
      <4>5. g[id] = IF id = os THEN Append(c[id], TRUE) ELSE c[id]
        BY Zenon, <4>1, <2>2, <2>5
      <4> QED  BY Zenon, <4>3, <4>4, <4>5
    <3> QED  BY <3>1, <3>2
  <2>7. f = g
    BY <1>14, <2>5, <2>6, SeqEqual
  <2> QED  BY <2>1, <2>3, <2>4, <2>7 DEF Split
<1> QED  BY <1>3, <1>7, <1>11, <1>15, <1>16

-------------------------------------------------------------------------------
(* The invariant.                                                          *)

StateType == [pc : Nat \ {0}, bits : UNION {[D -> BOOLEAN] : D \in SUBSET Bit}, pathOS : Nat,
              taken : Seq(BOOLEAN), at : {"run", "exit", "early"}]

Typed(p, ss, ps, rp, pos) ==
  /\ p \in [1 .. Length -> Point] /\ ss \in Seq(StateType)
  /\ \A s \in DOMAIN ps : ps[s] \in Seq(BOOLEAN)
  /\ rp \in Seq(BOOLEAN) /\ pos \in 0 .. Len(rp)

\* Every state writes to a stream that is open.
Streams(w, c, ss) ==
  /\ Holds(w, c)
  /\ \A s \in 1 .. Len(ss) : ss[s].pathOS \in 1 .. Len(c)

Branching(p) == \A i \in 1 .. Length : p[i].kind = "branch"

\* What a state took is in its stream, and is what it decided at each point behind it.
OwnWay(p, st, c) ==
  /\ Len(st.taken) = st.pc - 1 /\ c[st.pathOS] = st.taken
  /\ \A i \in 1 .. st.pc - 1 : p[i].bit \in DOMAIN st.bits /\ st.bits[p[i].bit] = st.taken[i]
  /\ st.at = "exit" => st.pc > Length

\* While paths are recorded: no two states share a stream, and a path that was written is
\* the one its state took.
Recording(p, ss, ps, c, f) ==
  /\ f = "none"
  /\ \A s \in 1 .. Len(ss) : OwnWay(p, ss[s], c)
  /\ \A s, t \in 1 .. Len(ss) : ss[s].pathOS = ss[t].pathOS => s = t
  /\ \A s \in DOMAIN ps : s \in 1 .. Len(ss) /\ ss[s].at # "run" /\ ps[s] = ss[s].taken

\* While a path is replayed: it has the decision of every point, and the one state has
\* decided what the goal has.
Follows(p, ss, rp, pos, g, f) ==
  /\ f = "none" /\ Len(ss) = 1 /\ Len(rp) > Length
  /\ \A i \in 1 .. Length : p[i].bit \in DOMAIN g.bits /\ g.bits[p[i].bit] = rp[i]
  /\ ss[1].pc = pos + 1
  /\ \A b \in DOMAIN ss[1].bits : b \in DOMAIN g.bits /\ ss[1].bits[b] = g.bits[b]

PInv ==
  /\ Typed(program, states, paths, replayPath, replayPosition)
  /\ Streams(writer, content, states)
  /\ Branching(program) /\ ~Replaying => Recording(program, states, paths, content, failed)
  /\ Branching(program) /\ Replaying /\ goal.at = "exit" =>
       Follows(program, states, replayPath, replayPosition, goal, failed)

\* What With makes of a function.
LEMMA WithIs ==
  ASSUME NEW f, NEW x, NEW v
  PROVE  /\ DOMAIN With(f, x, v) = DOMAIN f \cup {x}
         /\ \A y \in DOMAIN f \cup {x} : With(f, x, v)[y] = IF y = x THEN v ELSE f[y]
BY DEF With

\* A state after a branch.
LEMMA TakenIs ==
  ASSUME NEW st \in StateType, NEW bit \in Bit, NEW v \in BOOLEAN, NEW recorded \in BOOLEAN
  PROVE  LET u == Taken(st, bit, v, recorded) IN
           /\ u \in StateType /\ u.pc = st.pc + 1 /\ u.bits = With(st.bits, bit, v)
           /\ u.pathOS = st.pathOS /\ u.at = st.at
           /\ u.taken = IF recorded THEN Append(st.taken, v) ELSE st.taken
<1> DEFINE u == Taken(st, bit, v, recorded)
<1>1. /\ u.pc = st.pc + 1 /\ u.bits = With(st.bits, bit, v)
      /\ u.pathOS = st.pathOS /\ u.at = st.at
      /\ u.taken = IF recorded THEN Append(st.taken, v) ELSE st.taken
  BY DEF Taken, StateType
<1>2. With(st.bits, bit, v) \in UNION {[D -> BOOLEAN] : D \in SUBSET Bit}
  <2>1. PICK D \in SUBSET Bit : st.bits \in [D -> BOOLEAN]
    BY DEF StateType
  <2>2. With(st.bits, bit, v) \in [D \cup {bit} -> BOOLEAN]
    BY <2>1 DEF With
  <2>3. D \cup {bit} \in SUBSET Bit
    OBVIOUS
  <2> QED  BY <2>2, <2>3
<1>3. st.pc + 1 \in Nat \ {0}
  BY DEF StateType
<1>4. (IF recorded THEN Append(st.taken, v) ELSE st.taken) \in Seq(BOOLEAN)
  BY AppendProperties DEF StateType
<1>5. u \in StateType
  <2> DEFINE w == With(st.bits, bit, v)
             t == IF recorded THEN Append(st.taken, v) ELSE st.taken
             n == st.pc + 1
  <2>1. u = [st EXCEPT !.pc = n, !.bits = w, !.taken = t]
    BY DEF Taken, StateType
  <2>2. w \in UNION {[D -> BOOLEAN] : D \in SUBSET Bit} /\ t \in Seq(BOOLEAN) /\ n \in Nat \ {0}
    BY <1>2, <1>3, <1>4
  <2> HIDE DEF w, t, n, u
  <2> QED  BY <2>1, <2>2 DEF StateType
<1> QED  BY <1>1, <1>5

\* A state goes on along its own way when its stream does.
LEMMA OwnWayTaken ==
  ASSUME NEW p, NEW st \in StateType, NEW c, OwnWay(p, st, c), st.pc <= Length, st.at = "run",
         NEW v \in BOOLEAN, p[st.pc].bit \in DOMAIN st.bits => v = st.bits[p[st.pc].bit],
         NEW u \in StateType, u.pc = st.pc + 1, u.bits = With(st.bits, p[st.pc].bit, v),
         u.taken = Append(st.taken, v), u.at = st.at,
         NEW d, d[u.pathOS] = Append(c[st.pathOS], v)
  PROVE  OwnWay(p, u, d)
<1> DEFINE bit == p[st.pc].bit
<1>1. st.pc \in Nat \ {0} /\ st.taken \in Seq(BOOLEAN) /\ Len(st.taken) = st.pc - 1
      /\ c[st.pathOS] = st.taken
  BY DEF StateType, OwnWay
<1>2. /\ Len(u.taken) = u.pc - 1 /\ u.taken[st.pc] = v
      /\ \A i \in 1 .. st.pc - 1 : u.taken[i] = st.taken[i]
  BY <1>1, AppendProperties
<1>0. /\ bit \in DOMAIN u.bits /\ u.bits[bit] = v
      /\ \A y \in DOMAIN st.bits : y \in DOMAIN u.bits /\ (y # bit => u.bits[y] = st.bits[y])
  <2>1. PICK w : w = With(st.bits, bit, v)
    OBVIOUS
  <2>2. w[bit] = v /\ DOMAIN w = DOMAIN st.bits \cup {bit}
        /\ \A y \in DOMAIN st.bits : y # bit => w[y] = st.bits[y]
    BY <2>1 DEF With
  <2> QED  BY <2>1, <2>2
<1>3. d[u.pathOS] = u.taken
  BY <1>1
<1>4. ASSUME NEW i \in 1 .. u.pc - 1
      PROVE  p[i].bit \in DOMAIN u.bits /\ u.bits[p[i].bit] = u.taken[i]
  <2>1. CASE i = st.pc
    BY <2>1, <1>2, <1>0
  <2>2. CASE i # st.pc
    <3>1. i \in 1 .. st.pc - 1
      BY <2>2, <1>1
    <3>2. p[i].bit \in DOMAIN st.bits /\ st.bits[p[i].bit] = st.taken[i]
      BY <3>1 DEF OwnWay
    <3>3. p[i].bit \in DOMAIN u.bits /\ u.bits[p[i].bit] = st.bits[p[i].bit]
      BY <3>2, <1>0
    <3> QED  BY <3>1, <3>2, <3>3, <1>2
  <2> QED  BY <2>1, <2>2
<1>5. u.at # "exit"
  OBVIOUS
<1> QED  BY <1>2, <1>3, <1>4, <1>5 DEF OwnWay

\* The first state and its stream, which is empty.
LEMMA FirstStream ==
  ASSUME NEW p, NEW f, f = "none", NEW ss, ss = <<NewState>>, NEW ps, DOMAIN ps = {}
  PROVE  /\ ss \in Seq(StateType) /\ Len(ss) = 1 /\ ss[1].pc = 1 /\ DOMAIN ss[1].bits = {}
         /\ Streams(NewWriter, << <<>> >>, ss)
         /\ Recording(p, ss, ps, << <<>> >>, f)
<1>1. /\ NewState \in StateType /\ NewState.pc = 1 /\ NewState.pathOS = 1 /\ NewState.taken = <<>>
      /\ NewState.at = "run" /\ DOMAIN NewState.bits = {}
  <2>1. [b \in {} |-> TRUE] \in UNION {[D -> BOOLEAN] : D \in SUBSET Bit}
    <3>1. [b \in {} |-> TRUE] \in [{} -> BOOLEAN] /\ {} \in SUBSET Bit
      OBVIOUS
    <3> QED  BY <3>1
  <2>2. <<>> \in Seq(BOOLEAN) /\ 1 \in Nat \ {0} /\ "run" \in {"run", "exit", "early"}
    OBVIOUS
  <2>3. DOMAIN [b \in {} |-> TRUE] = {}
    OBVIOUS
  <2> QED  BY <2>1, <2>2, <2>3 DEF NewState, StateType
<1>2. ss \in Seq(StateType) /\ Len(ss) = 1 /\ ss[1] = NewState
  BY <1>1
<1> DEFINE r == OpenRecord(0, 1)
           F == Append(<<>>, r)
           c == << <<>> >>
<1>3. FileOK(<<>>, 0)
  BY DEF FileOK
<1>4. r \in Record /\ IsFork(r)
  BY Records
<1>5. FileOK(F, 1) /\ NewWriter.file = F
  <2>1. FileOK(Append(<<>>, OpenRecord(0, 0 + 1)), 0 + 1)
    <3>1. 0 \in 0 .. 0
      OBVIOUS
    <3> QED  BY <1>3, <3>1, OpenKeepsFile
  <2>2. F = <<r>>
    OBVIOUS
  <2>3. 0 + 1 = 1
    OBVIOUS
  <2> QED  BY <2>1, <2>2, <2>3 DEF NewWriter
<1>6. ReadFile(F, 1) = <<>>
  <2>1. ReadFile(<<>>, 1) = <<>>
    <3>1. Portions(<<>>, 1) = <<>>
      BY DEF Portions
    <3> QED  BY <3>1, <1>3, ReadIs, FlattenEmpty
  <2>2. Len(<<>>) + 1 = 1 /\ F[1] = r /\ 1 .. Len(<<>>) = {}
    OBVIOUS
  <2>3. Portion(F, 1, 1) = <<>>
    <3> HIDE DEF F
    <3> QED  BY <2>2, <1>4 DEF Portion, CountsFor
  <2>4. ReadFile(F, 1) = ReadFile(<<>>, 1) \o Portion(F, 1, Len(<<>>) + 1)
    <3>1. \A k \in 1 .. Len(<<>>) : Portion(F, 1, k) = Portion(<<>>, 1, k)
      BY <2>2
    <3> HIDE DEF r
    <3> QED  BY <3>1, <1>3, <1>4, <1>5, ReadAppend
  <2>5. <<>> \o <<>> = <<>>
    OBVIOUS
  <2> QED  BY <2>1, <2>2, <2>3, <2>4, <2>5
<1>7. WriterOK(NewWriter)
  <2>1. NewWriter \in [file : Seq(Record), buffer : Seq(BOOLEAN), lastID : Nat, ids : Nat]
        /\ NewWriter.ids - 1 = 1 /\ NewWriter.buffer = <<>>
    <3>1. <<r>> \in Seq(Record)
      BY <1>4
    <3> QED  BY <3>1 DEF NewWriter
  <2> QED  BY <2>1, <1>5 DEF WriterOK
<1>8. FlushBuffer(NewWriter) = NewWriter /\ NewWriter.ids - 1 = 1
  BY DEF FlushBuffer, NewWriter
<1>9. c \in Seq(Seq(BOOLEAN)) /\ Len(c) = 1 /\ c[1] = <<>>
  <2>1. <<>> \in Seq(BOOLEAN)
    OBVIOUS
  <2> QED  BY <2>1
<1>10. Holds(NewWriter, c)
  <2> HIDE DEF c, F
  <2>1. \A id \in 1 .. Len(c) : id = 1
    BY <1>9
  <2> QED  BY <2>1, <1>5, <1>6, <1>7, <1>8, <1>9 DEF Holds
<1>11. Streams(NewWriter, c, ss)
  <2>1. \A s \in 1 .. Len(ss) : s = 1
    BY <1>2
  <2> QED  BY <2>1, <1>1, <1>2, <1>9, <1>10 DEF Streams
<1>12. Recording(p, ss, ps, c, f)
  <2> HIDE DEF c
  <2>1. \A s \in 1 .. Len(ss) : s = 1
    BY <1>2
  <2>2. OwnWay(p, ss[1], c)
    BY <1>1, <1>2, <1>9 DEF OwnWay
  <2> QED  BY <2>1, <2>2 DEF Recording
<1> QED  BY <1>1, <1>2, <1>11, <1>12

\* A state at a point of the program.
LEMMA PointFacts ==
  ASSUME PInv, NEW s \in DOMAIN states, NEW kind, AtPoint(s, kind)
  PROVE  /\ states \in Seq(StateType) /\ s \in 1 .. Len(states) /\ states[s] \in StateType
         /\ states[s].pc \in 1 .. Length /\ states[s].pc <= Length /\ states[s].at = "run"
         /\ failed = "none" /\ Tested(s) = program[states[s].pc].bit /\ Tested(s) \in Bit
         /\ program[states[s].pc].kind = kind
         /\ Decided(s) => states[s].bits[Tested(s)] \in BOOLEAN
<1>1. /\ states \in Seq(StateType) /\ program \in [1 .. Length -> Point] /\ Length \in Nat
      /\ DOMAIN states = 1 .. Len(states)
  BY LenProperties, PathAssumption DEF PInv, Typed
<1>2. states[s] \in StateType
  BY <1>1, ElementOfSeq
<1>3. states[s].pc <= Length /\ states[s].at = "run" /\ failed = "none"
      /\ program[states[s].pc].kind = kind
  BY DEF AtPoint, Running
<1>4. states[s].pc \in 1 .. Length
  <2>1. states[s].pc \in Nat \ {0}
    BY <1>2 DEF StateType
  <2> QED  BY <2>1, <1>1, <1>3
<1>5. program[states[s].pc] \in Point
  BY <1>1, <1>4
<1>6. Tested(s) = program[states[s].pc].bit /\ Tested(s) \in Bit
  BY <1>5 DEF Tested, Point
<1>7. Decided(s) => states[s].bits[Tested(s)] \in BOOLEAN
  <2>1. PICK D \in SUBSET Bit : states[s].bits \in [D -> BOOLEAN]
    BY <1>2 DEF StateType
  <2> QED  BY <2>1 DEF Decided
<1> QED  BY <1>1, <1>2, <1>3, <1>4, <1>6, <1>7

\* A branch that goes one way writes its bit to the stream of its state.
LEMMA TakeBranchKeeps ==
  ASSUME PInv, NEW s \in DOMAIN states, TakeBranch(s)
  PROVE  PInv'
<1>1. /\ states \in Seq(StateType) /\ s \in 1 .. Len(states) /\ states[s] \in StateType
      /\ states[s].pc <= Length /\ states[s].at = "run"
      /\ Tested(s) = program[states[s].pc].bit /\ Tested(s) \in Bit
      /\ Decided(s) => states[s].bits[Tested(s)] \in BOOLEAN
  BY PointFacts DEF TakeBranch
<1>2. PICK v \in BOOLEAN :
         /\ Decided(s) => v = states[s].bits[Tested(s)]
         /\ states' = [states EXCEPT ![s] = Taken(states[s], Tested(s), v, TRUE)]
         /\ writer' = Write(writer, states[s].pathOS, v)
         /\ content' = Recorded(content, states[s].pathOS, v)
  BY <1>1 DEF TakeBranch
<1>3. UNCHANGED <<program, paths, replay>> /\ ~Replaying
  BY DEF TakeBranch
<1>4. PICK u : u = Taken(states[s], Tested(s), v, TRUE)
  OBVIOUS
<1>5. /\ u \in StateType /\ u.pc = states[s].pc + 1 /\ u.bits = With(states[s].bits, Tested(s), v)
      /\ u.pathOS = states[s].pathOS /\ u.at = states[s].at /\ u.taken = Append(states[s].taken, v)
  BY <1>1, <1>4, TakenIs
<1>6. /\ states' \in Seq(StateType) /\ Len(states') = Len(states)
      /\ \A t \in 1 .. Len(states) : states'[t] = IF t = s THEN u ELSE states[t]
  <2>1. states' = [states EXCEPT ![s] = u] /\ u \in StateType
    BY <1>2, <1>4, <1>5
  <2> QED  BY <2>1, <1>1, ExceptSeq
<1>7. Holds(writer, content) /\ content \in Seq(Seq(BOOLEAN))
      /\ \A t \in 1 .. Len(states) : states[t].pathOS \in 1 .. Len(content)
  BY DEF PInv, Streams, Holds
<1>8. /\ Holds(writer', content') /\ Len(content') = Len(content)
      /\ \A id \in 1 .. Len(content) :
           content'[id] = IF id = states[s].pathOS THEN Append(content[id], v) ELSE content[id]
  <2>1. states[s].pathOS \in 1 .. Len(content)
    BY <1>1, <1>7
  <2>2. Holds(writer', content')
    BY <1>2, <1>7, <2>1, WriteHolds
  <2>3. LET d == Recorded(content, states[s].pathOS, v) IN
        /\ Len(d) = Len(content)
        /\ \A id \in 1 .. Len(content) :
             d[id] = IF id = states[s].pathOS THEN Append(content[id], v) ELSE content[id]
    BY Zenon, <1>7, <2>1, RecordedIs
  <2> QED  BY Zenon, <1>2, <2>2, <2>3
<1>9. Typed(program', states', paths', replayPath', replayPosition')
  BY <1>3, <1>6 DEF PInv, Typed, replay
<1>10. Streams(writer', content', states')
  <2>1. \A t \in 1 .. Len(states') : states'[t].pathOS \in 1 .. Len(content')
    BY <1>1, <1>5, <1>6, <1>7, <1>8
  <2> QED  BY <2>1, <1>8 DEF Streams
<1>11. ASSUME Branching(program) PROVE Recording(program', states', paths', content', failed')
  <2>1. Recording(program, states, paths, content, failed)
    BY <1>3, <1>11 DEF PInv
  <2>2. ASSUME NEW t \in 1 .. Len(states') PROVE OwnWay(program, states'[t], content')
    <3>1. t \in 1 .. Len(states) /\ OwnWay(program, states[t], content)
      BY <2>1, <1>6 DEF Recording
    <3>2. CASE t = s
      <4>1. content'[u.pathOS] = Append(content[states[s].pathOS], v)
        BY <1>1, <1>5, <1>7, <1>8
      <4>2. Tested(s) \in DOMAIN states[s].bits => v = states[s].bits[Tested(s)]
        BY <1>2 DEF Decided
      <4>3. OwnWay(program, u, content')
        BY <3>1, <3>2, <4>1, <4>2, <1>1, <1>5, OwnWayTaken
      <4> QED  BY <4>3, <3>1, <3>2, <1>6
    <3>3. CASE t # s
      <4>1. states[t].pathOS # states[s].pathOS /\ states[t].pathOS \in 1 .. Len(content)
        BY <3>1, <3>3, <2>1, <1>1, <1>7 DEF Recording
      <4>2. content'[states[t].pathOS] = content[states[t].pathOS] /\ states'[t] = states[t]
        BY <3>1, <3>3, <4>1, <1>6, <1>8
      <4> QED  BY <3>1, <4>2 DEF OwnWay
    <3> QED  BY <3>2, <3>3
  <2>3. \A t \in DOMAIN paths : t \in 1 .. Len(states') /\ states'[t].at # "run" /\ paths[t] = states'[t].taken
    BY <2>1, <1>1, <1>6 DEF Recording
  <2>4. \A r, t \in 1 .. Len(states') : states'[r].pathOS = states'[t].pathOS => r = t
    <3>1. \A t \in 1 .. Len(states') : t \in 1 .. Len(states) /\ states'[t].pathOS = states[t].pathOS
      BY <1>5, <1>6
    <3> QED  BY <3>1, <2>1 DEF Recording
  <2>5. failed' = "none" /\ program' = program /\ paths' = paths
    BY <2>1, <1>3 DEF Recording, replay
  <2> QED  BY <2>2, <2>3, <2>4, <2>5 DEF Recording
<1> QED  BY <1>3, <1>9, <1>10, <1>11 DEF PInv, Replaying, replay

\* State a in the place of state s, and b behind the others.
LEMMA TwoStates ==
  ASSUME NEW S, NEW ss \in Seq(S), NEW s \in 1 .. Len(ss), NEW a \in S, NEW b \in S
  PROVE  LET q == Append([ss EXCEPT ![s] = a], b) IN
           /\ q \in Seq(S) /\ Len(q) = Len(ss) + 1 /\ q[Len(ss) + 1] = b
           /\ \A t \in 1 .. Len(ss) : q[t] = IF t = s THEN a ELSE ss[t]
<1>1. PICK r : r = [ss EXCEPT ![s] = a]
  OBVIOUS
<1>2. r \in Seq(S) /\ Len(r) = Len(ss) /\ \A t \in 1 .. Len(ss) : r[t] = IF t = s THEN a ELSE ss[t]
  BY <1>1, ExceptSeq
<1>3. /\ Append(r, b) \in Seq(S) /\ Len(Append(r, b)) = Len(r) + 1 /\ Append(r, b)[Len(r) + 1] = b
      /\ \A t \in 1 .. Len(r) : Append(r, b)[t] = r[t]
  BY <1>2, AppendProperties
<1> QED  BY <1>1, <1>2, <1>3

\* What the streams should hold after a fork.
LEMMA SplitIs ==
  ASSUME NEW c \in Seq(Seq(BOOLEAN)), NEW os \in 1 .. Len(c)
  PROVE  /\ Len(Split(c, os)) = Len(c) + 1 /\ Split(c, os)[Len(c) + 1] = Append(c[os], FALSE)
         /\ \A id \in 1 .. Len(c) : Split(c, os)[id] = IF id = os THEN Append(c[id], TRUE) ELSE c[id]
<1>1. c[os] \in Seq(BOOLEAN) /\ FALSE \in BOOLEAN /\ TRUE \in BOOLEAN
  BY ElementOfSeq
<1>2. Append(c[os], FALSE) \in Seq(BOOLEAN)
  BY <1>1, AppendProperties
<1>3. PICK p : p = Recorded(c, os, TRUE)
  OBVIOUS
<1>4. /\ p \in Seq(Seq(BOOLEAN)) /\ Len(p) = Len(c)
      /\ \A id \in 1 .. Len(c) : p[id] = IF id = os THEN Append(c[id], TRUE) ELSE c[id]
  BY <1>1, <1>3, RecordedIs
<1>5. PICK q : q = Append(c[os], FALSE)
  OBVIOUS
<1>6. q \in Seq(BOOLEAN)
  BY <1>2, <1>5
<1>7. /\ Len(Append(p, q)) = Len(p) + 1 /\ Append(p, q)[Len(p) + 1] = q
      /\ \A id \in 1 .. Len(p) : Append(p, q)[id] = p[id]
  <2>1. p \in Seq(Seq(BOOLEAN))
    BY <1>4
  <2> QED  BY <2>1, <1>6, AppendProperties
<1>8. Split(c, os) = Append(p, q)
  BY <1>3, <1>5 DEF Split
<1> QED  BY <1>4, <1>5, <1>7, <1>8

\* A fork opens a stream below the parent's, and both sides write their bits.
LEMMA ForkKeeps ==
  ASSUME PInv, NEW s \in DOMAIN states, Fork(s)
  PROVE  PInv'
<1>1. /\ states \in Seq(StateType) /\ s \in 1 .. Len(states) /\ states[s] \in StateType
      /\ states[s].pc <= Length /\ states[s].at = "run"
      /\ Tested(s) = program[states[s].pc].bit /\ Tested(s) \in Bit /\ Len(states) \in Nat
  BY PointFacts, LenProperties DEF Fork
<1>2. UNCHANGED <<program, paths, replay>> /\ ~Replaying /\ ~Decided(s)
  BY DEF Fork
<1>3. PICK os, child : os = states[s].pathOS /\ child = writer.ids
  OBVIOUS
<1>4. PICK x : x = Taken(states[s], Tested(s), TRUE, TRUE)
  OBVIOUS
<1>5. PICK y : y = Taken(states[s], Tested(s), FALSE, TRUE)
  OBVIOUS
<1>6. PICK z : z = [y EXCEPT !.pathOS = child]
  OBVIOUS
<1>7. /\ writer' = Write(Write(Open(writer, os), os, TRUE), child, FALSE)
      /\ content' = Split(content, os)
      /\ \/ states' = Append([states EXCEPT ![s] = z], x)
         \/ states' = Append([states EXCEPT ![s] = x], z)
  BY <1>3, <1>4, <1>5, <1>6, Zenon DEF Fork
<1>8. Holds(writer, content) /\ content \in Seq(Seq(BOOLEAN)) /\ Len(content) = child - 1
      /\ child \in Nat \ {0} /\ os \in 1 .. Len(content)
      /\ \A t \in 1 .. Len(states) : states[t].pathOS \in 1 .. Len(content)
  <2>1. Streams(writer, content, states) /\ Holds(writer, content)
    BY DEF PInv, Streams
  <2>2. writer.ids \in Nat /\ writer.ids - 1 \in Nat /\ Len(content) = writer.ids - 1
        /\ content \in Seq(Seq(BOOLEAN))
    BY <2>1 DEF Holds, WriterOK, FileOK
  <2> QED  BY <2>1, <2>2, <1>1, <1>3 DEF Streams
<1>9. /\ x \in StateType /\ x.pc = states[s].pc + 1 /\ x.bits = With(states[s].bits, Tested(s), TRUE)
      /\ x.pathOS = os /\ x.at = states[s].at /\ x.taken = Append(states[s].taken, TRUE)
  BY <1>1, <1>3, <1>4, TakenIs
<1>10. /\ y \in StateType /\ y.pc = states[s].pc + 1 /\ y.bits = With(states[s].bits, Tested(s), FALSE)
       /\ y.at = states[s].at /\ y.taken = Append(states[s].taken, FALSE)
  BY <1>1, <1>5, TakenIs
<1>11. /\ z \in StateType /\ z.pc = y.pc /\ z.bits = y.bits /\ z.pathOS = child /\ z.at = y.at
       /\ z.taken = y.taken
  BY <1>6, <1>8, <1>10 DEF StateType
<1>12. Holds(writer', content')
  BY <1>3, <1>7, <1>8, SplitHolds
<1>13. /\ Len(content') = child /\ content'[child] = Append(content[os], FALSE)
       /\ \A id \in 1 .. Len(content) :
            content'[id] = IF id = os THEN Append(content[id], TRUE) ELSE content[id]
  <2>1. content \in Seq(Seq(BOOLEAN)) /\ os \in 1 .. Len(content)
    BY <1>8
  <2>2. /\ Len(Split(content, os)) = Len(content) + 1
        /\ Split(content, os)[Len(content) + 1] = Append(content[os], FALSE)
        /\ \A id \in 1 .. Len(content) :
             Split(content, os)[id] = IF id = os THEN Append(content[id], TRUE) ELSE content[id]
    BY <2>1, SplitIs
  <2>3. Len(content) + 1 = child
    BY <1>8
  <2> QED  BY <2>2, <2>3, <1>7
<1>14. PICK a, b : /\ (a = x /\ b = z) \/ (a = z /\ b = x)
                   /\ states' = Append([states EXCEPT ![s] = a], b)
  <2>1. CASE states' = Append([states EXCEPT ![s] = z], x)
    BY <2>1
  <2>2. CASE states' = Append([states EXCEPT ![s] = x], z)
    BY <2>2
  <2> QED  BY <1>7, <2>1, <2>2
<1>15. a \in StateType /\ b \in StateType
  BY <1>9, <1>11, <1>14
<1>16. PICK n : n = Len(states) + 1
  OBVIOUS
<1>17. /\ states' \in Seq(StateType) /\ Len(states') = n /\ states'[n] = b
       /\ \A t \in 1 .. Len(states) : states'[t] = IF t = s THEN a ELSE states[t]
  <2>1. PICK q : q = Append([states EXCEPT ![s] = a], b)
    OBVIOUS
  <2>2. /\ q \in Seq(StateType) /\ Len(q) = Len(states) + 1 /\ q[Len(states) + 1] = b
        /\ \A t \in 1 .. Len(states) : q[t] = IF t = s THEN a ELSE states[t]
    BY <2>1, <1>1, <1>15, TwoStates
  <2>3. states' = q
    BY <1>14, <2>1
  <2> QED  BY <2>2, <2>3, <1>16
<1>18. \A t \in 1 .. n : t \in 1 .. Len(states) \/ t = n
  BY <1>1, <1>16
<1>19. n \notin 1 .. Len(states) /\ child \in 1 .. child /\ child \notin 1 .. Len(content)
       /\ (\A id \in 1 .. Len(content) : id \in 1 .. child /\ id # child)
       /\ \A t \in 1 .. Len(states) : t \in 1 .. n
  BY <1>1, <1>8, <1>16
<1>20. Typed(program', states', paths', replayPath', replayPosition')
  BY <1>2, <1>17 DEF PInv, Typed, replay
\* Where each state writes: the forked states have the old stream and the new one.
<1>21. /\ \A t \in 1 .. n : t # s /\ t # n => t \in 1 .. Len(states) /\ states'[t] = states[t]
       /\ states'[s] = a /\ states'[n] = b /\ s # n
  BY <1>1, <1>17, <1>18, <1>19
<1>22. Streams(writer', content', states')
  <2>1. ASSUME NEW t \in 1 .. n PROVE states'[t].pathOS \in 1 .. Len(content')
    <3>1. CASE t = s \/ t = n
      <4>1. states'[t].pathOS \in {os, child}
        BY <3>1, <1>9, <1>11, <1>14, <1>21
      <4>2. os \in 1 .. child /\ child \in 1 .. child /\ Len(content') = child
        BY <1>8, <1>13, <1>19
      <4> QED  BY <4>1, <4>2
    <3>2. CASE t # s /\ t # n
      BY <3>2, <1>8, <1>13, <1>19, <1>21
    <3> QED  BY <3>1, <3>2
  <2> QED  BY <2>1, <1>12, <1>17 DEF Streams
<1>23. ASSUME Branching(program) PROVE Recording(program', states', paths', content', failed')
  <2>1. Recording(program, states, paths, content, failed)
    BY <1>2, <1>23 DEF PInv
  <2>2. OwnWay(program, states[s], content)
    BY <2>1, <1>1 DEF Recording
  <2>3. OwnWay(program, x, content')
    <3>1. content'[x.pathOS] = Append(content[states[s].pathOS], TRUE)
      BY <1>3, <1>8, <1>9, <1>13
    <3>2. TRUE \in BOOLEAN /\ (Tested(s) \in DOMAIN states[s].bits => TRUE = states[s].bits[Tested(s)])
      BY <1>2 DEF Decided
    <3> QED  BY <2>2, <3>1, <3>2, <1>1, <1>9, OwnWayTaken
  <2>4. OwnWay(program, z, content')
    <3>1. content'[z.pathOS] = Append(content[states[s].pathOS], FALSE)
      BY <1>3, <1>8, <1>11, <1>13
    <3>2. FALSE \in BOOLEAN /\ (Tested(s) \in DOMAIN states[s].bits => FALSE = states[s].bits[Tested(s)])
      BY <1>2 DEF Decided
    <3>3. z.pc = states[s].pc + 1 /\ z.bits = With(states[s].bits, Tested(s), FALSE)
          /\ z.taken = Append(states[s].taken, FALSE) /\ z.at = states[s].at
      BY <1>10, <1>11
    <3> QED  BY <2>2, <3>1, <3>2, <3>3, <1>1, <1>11, OwnWayTaken
  <2>5. ASSUME NEW t \in 1 .. n PROVE OwnWay(program, states'[t], content')
    <3>1. CASE t = s \/ t = n
      BY <3>1, <2>3, <2>4, <1>14, <1>21
    <3>2. CASE t # s /\ t # n
      <4>1. t \in 1 .. Len(states) /\ states'[t] = states[t]
        BY <3>2, <1>21
      <4>2. states[t].pathOS # os /\ states[t].pathOS \in 1 .. Len(content)
        BY <3>2, <4>1, <2>1, <1>1, <1>3, <1>8 DEF Recording
      <4>3. content'[states[t].pathOS] = content[states[t].pathOS] /\ OwnWay(program, states[t], content)
        BY <4>1, <4>2, <2>1, <1>13 DEF Recording
      <4> QED  BY <4>1, <4>3 DEF OwnWay
    <3> QED  BY <3>1, <3>2
  <2>6. ASSUME NEW r \in 1 .. n, NEW t \in 1 .. n, states'[r].pathOS = states'[t].pathOS
        PROVE  r = t
    <3>1. \A m \in 1 .. n : m # s /\ m # n =>
            states'[m].pathOS # os /\ states'[m].pathOS # child /\ m \in 1 .. Len(states)
            /\ states'[m] = states[m]
      <4> SUFFICES ASSUME NEW m \in 1 .. n, m # s, m # n
                   PROVE  states'[m].pathOS # os /\ states'[m].pathOS # child /\ m \in 1 .. Len(states)
                          /\ states'[m] = states[m]
        OBVIOUS
      <4>1. m \in 1 .. Len(states) /\ states'[m] = states[m]
        BY <1>21
      <4>2. states[m].pathOS # os
        BY <4>1, <2>1, <1>1, <1>3 DEF Recording
      <4>3. states[m].pathOS # child
        BY <4>1, <1>8, <1>19
      <4> QED  BY <4>1, <4>2, <4>3
    <3>2. os # child
      BY <1>8, <1>19
    <3>3. \/ states'[s].pathOS = os /\ states'[n].pathOS = child
          \/ states'[s].pathOS = child /\ states'[n].pathOS = os
      BY <1>9, <1>11, <1>14, <1>21
    <3>4. CASE r \in {s, n} \/ t \in {s, n}
      BY <3>1, <3>2, <3>3, <3>4, <2>6
    <3>5. CASE r \notin {s, n} /\ t \notin {s, n}
      BY <3>1, <3>5, <2>6, <2>1 DEF Recording
    <3> QED  BY <3>4, <3>5
  <2>7. ASSUME NEW t \in DOMAIN paths
        PROVE  t \in 1 .. n /\ states'[t].at # "run" /\ paths[t] = states'[t].taken
    <3>1. t \in 1 .. Len(states) /\ states[t].at # "run" /\ paths[t] = states[t].taken
      BY <2>1 DEF Recording
    <3>2. t # s /\ t # n /\ t \in 1 .. n
      BY <3>1, <1>1, <1>19
    <3> QED  BY <3>1, <3>2, <1>21
  <2>8. failed' = "none" /\ program' = program /\ paths' = paths
    BY <2>1, <1>2 DEF Recording, replay
  <2> QED  BY <2>5, <2>6, <2>7, <2>8, <1>17 DEF Recording
<1> QED  BY <1>2, <1>20, <1>22, <1>23 DEF PInv, Replaying, replay

\* Where a point is no branch, only the types and the streams are claimed.
LEMMA OtherPoint ==
  ASSUME PInv, NEW i \in 1 .. Length, program[i].kind # "branch"
  PROVE  ~Branching(program)
BY DEF Branching

\* A switch, or a fork KLEE makes for itself, leaves no bit in any stream.
LEMMA SwitchKeeps ==
  ASSUME PInv, NEW s \in DOMAIN states, Switch(s)
  PROVE  PInv'
<1>1. /\ states \in Seq(StateType) /\ s \in 1 .. Len(states) /\ states[s] \in StateType
      /\ states[s].pc \in 1 .. Length /\ Tested(s) \in Bit /\ program[states[s].pc].kind = "switch"
      /\ Decided(s) => states[s].bits[Tested(s)] \in BOOLEAN
      /\ Len(states) \in Nat
  BY PointFacts, LenProperties DEF Switch
<1>2. UNCHANGED <<writer, program, paths, replay, content>>
  BY DEF Switch
<1>3. ~Branching(program)
  BY <1>1, OtherPoint
<1>4. Typed(program, states, paths, replayPath, replayPosition) /\ Streams(writer, content, states)
  BY DEF PInv
<1>5. states' \in Seq(StateType)
      /\ \A t \in 1 .. Len(states') : states'[t].pathOS \in 1 .. Len(content)
  <2>0. \A t \in 1 .. Len(states) : states[t].pathOS \in 1 .. Len(content)
    BY <1>4 DEF Streams
  <2>1. CASE Decided(s)
    <3>1. PICK u : u = [states[s] EXCEPT !.pc = @ + 1]
      OBVIOUS
    <3>2. states' = [states EXCEPT ![s] = u]
      BY <2>1, <3>1 DEF Switch
    <3>3. u \in StateType /\ u.pathOS = states[s].pathOS
      <4>1. PICK n : n = states[s].pc + 1
        OBVIOUS
      <4>2. n \in Nat \ {0}
        BY <1>1, <4>1 DEF StateType
      <4>3. u = [states[s] EXCEPT !.pc = n]
        BY <3>1, <4>1
      <4> QED  BY <1>1, <4>2, <4>3 DEF StateType
    <3>4. /\ states' \in Seq(StateType) /\ Len(states') = Len(states)
          /\ \A t \in 1 .. Len(states) : states'[t] = IF t = s THEN u ELSE states[t]
      BY <1>1, <3>2, <3>3, ExceptSeq
    <3> QED  BY <3>3, <3>4, <2>0
  <2>2. CASE ~Decided(s)
    <3>1. PICK v \in BOOLEAN :
            states' = Append([states EXCEPT ![s] = Taken(states[s], Tested(s), v, FALSE)],
                             Taken(states[s], Tested(s), ~v, FALSE))
      BY <2>2 DEF Switch
    <3>2. PICK a : a = Taken(states[s], Tested(s), v, FALSE)
      OBVIOUS
    <3>3. PICK b, nv : nv = ~v /\ b = Taken(states[s], Tested(s), nv, FALSE)
      OBVIOUS
    <3>4. a \in StateType /\ a.pathOS = states[s].pathOS
      BY <1>1, <3>2, TakenIs
    <3>5. b \in StateType /\ b.pathOS = states[s].pathOS
      <4>1. nv \in BOOLEAN
        BY <3>3, Zenon
      <4> QED  BY <4>1, <1>1, <3>3, TakenIs
    <3>6. PICK q : q = Append([states EXCEPT ![s] = a], b)
      OBVIOUS
    <3>7. /\ q \in Seq(StateType) /\ Len(q) = Len(states) + 1 /\ q[Len(states) + 1] = b
          /\ \A t \in 1 .. Len(states) : q[t] = IF t = s THEN a ELSE states[t]
      BY <1>1, <3>4, <3>5, <3>6, TwoStates
    <3>8. states' = q
      BY <3>1, <3>2, <3>3, <3>6
    <3>9. ASSUME NEW t \in 1 .. Len(q) PROVE q[t].pathOS \in 1 .. Len(content)
      <4>1. CASE t \in 1 .. Len(states)
        BY <4>1, <3>4, <3>7, <1>1, <2>0
      <4>2. CASE t \notin 1 .. Len(states)
        <5>1. q[t] = b
          BY <4>2, <3>7, <1>1
        <5> QED  BY <5>1, <3>5, <1>1, <2>0
      <4> QED  BY <4>1, <4>2
    <3> QED  BY <3>7, <3>8, <3>9
  <2> QED  BY <2>1, <2>2
<1>6. Typed(program', states', paths', replayPath', replayPosition')
  BY <1>2, <1>4, <1>5 DEF Typed, replay
<1>7. Streams(writer', content', states')
  BY <1>2, <1>4, <1>5 DEF Streams
<1> QED  BY <1>2, <1>3, <1>6, <1>7 DEF PInv

\* A branch with seeds goes one way and leaves no bit in any stream.
LEMMA TakeSeededKeeps ==
  ASSUME PInv, NEW s \in DOMAIN states, TakeSeeded(s)
  PROVE  PInv'
<1>1. /\ states \in Seq(StateType) /\ s \in 1 .. Len(states) /\ states[s] \in StateType
      /\ states[s].pc \in 1 .. Length /\ Tested(s) \in Bit /\ program[states[s].pc].kind = "seeded"
      /\ Decided(s) => states[s].bits[Tested(s)] \in BOOLEAN
  BY PointFacts DEF TakeSeeded
<1>2. UNCHANGED <<writer, program, paths, replay, content>>
  BY DEF TakeSeeded
<1>3. ~Branching(program)
  BY <1>1, OtherPoint
<1>4. Typed(program, states, paths, replayPath, replayPosition) /\ Streams(writer, content, states)
  BY DEF PInv
<1>5. PICK v \in BOOLEAN : states' = [states EXCEPT ![s] = Taken(states[s], Tested(s), v, FALSE)]
  BY <1>1 DEF TakeSeeded
<1>6. PICK u : u = Taken(states[s], Tested(s), v, FALSE)
  OBVIOUS
<1>7. u \in StateType /\ u.pathOS = states[s].pathOS
  BY <1>1, <1>6, TakenIs
<1>8. /\ states' \in Seq(StateType) /\ Len(states') = Len(states)
      /\ \A t \in 1 .. Len(states) : states'[t] = IF t = s THEN u ELSE states[t]
  <2>1. states' = [states EXCEPT ![s] = u] /\ u \in StateType
    BY <1>5, <1>6, <1>7
  <2> QED  BY <2>1, <1>1, ExceptSeq
<1>9. Typed(program', states', paths', replayPath', replayPosition')
  BY <1>2, <1>4, <1>8 DEF Typed, replay
<1>10. Streams(writer', content', states')
  BY <1>1, <1>2, <1>4, <1>7, <1>8 DEF Streams
<1> QED  BY <1>2, <1>3, <1>9, <1>10 DEF PInv

\* A branch decided by the next bit of the path that is replayed.
LEMMA ReplayBranchKeeps ==
  ASSUME PInv, NEW s \in DOMAIN states, ReplayBranch(s)
  PROVE  PInv'
<1>1. /\ states \in Seq(StateType) /\ s \in 1 .. Len(states) /\ states[s] \in StateType
      /\ states[s].pc \in 1 .. Length /\ Tested(s) \in Bit /\ Tested(s) = program[states[s].pc].bit
      /\ failed = "none"
  BY PointFacts DEF ReplayBranch
<1>2. UNCHANGED <<writer, program, paths, goal, replayPath, content>> /\ Replaying
  BY DEF ReplayBranch
<1>3. Typed(program, states, paths, replayPath, replayPosition) /\ Streams(writer, content, states)
  BY DEF PInv
<1>4. replayPath \in Seq(BOOLEAN) /\ replayPosition \in 0 .. Len(replayPath) /\ Len(replayPath) \in Nat
  BY <1>3, LenProperties DEF Typed
<1>5. CASE replayPosition = Len(replayPath)
  <2>1. UNCHANGED <<states, replayPosition>>
    BY <1>5 DEF ReplayBranch
  <2>2. Typed(program', states', paths', replayPath', replayPosition') /\ Streams(writer', content', states')
    BY <1>2, <1>3, <2>1 DEF Typed, Streams
  <2>3. ASSUME Branching(program), goal.at = "exit" PROVE FALSE
    <3>1. Follows(program, states, replayPath, replayPosition, goal, failed)
      BY <1>2, <2>3 DEF PInv
    <3>2. s = 1 /\ states[s].pc = replayPosition + 1 /\ Len(replayPath) > Length
      BY <1>1, <3>1 DEF Follows
    <3> QED  BY <1>1, <1>4, <1>5, <3>2, PathAssumption
  <2> QED  BY <1>2, <2>2, <2>3 DEF PInv, Replaying
<1>6. CASE replayPosition # Len(replayPath)
  <2>1. PICK v : v = replayPath[replayPosition + 1]
    OBVIOUS
  <2>2. v \in BOOLEAN /\ replayPosition + 1 \in 0 .. Len(replayPath)
    <3>1. replayPosition + 1 \in 1 .. Len(replayPath)
      BY <1>4, <1>6
    <3> QED  BY <3>1, <1>4, <2>1, ElementOfSeq
  <2>3. /\ replayPosition' = replayPosition + 1
        /\ \/ failed' = "hit invalid branch" /\ UNCHANGED states
              /\ Decided(s) /\ states[s].bits[Tested(s)] # v
           \/ states' = [states EXCEPT ![s] = Taken(states[s], Tested(s), v, TRUE)] /\ UNCHANGED failed
    BY <1>6, <2>1 DEF ReplayBranch
  <2>4. PICK u : u = Taken(states[s], Tested(s), v, TRUE)
    OBVIOUS
  <2>5. u \in StateType /\ u.pathOS = states[s].pathOS /\ u.pc = states[s].pc + 1
        /\ u.bits = With(states[s].bits, Tested(s), v)
    BY <1>1, <2>2, <2>4, TakenIs
  <2>6. states' \in Seq(StateType) /\ Len(states') = Len(states)
        /\ \A t \in 1 .. Len(states) : states'[t].pathOS = states[t].pathOS
    <3>1. CASE UNCHANGED states
      BY <3>1, <1>1
    <3>2. CASE states' = [states EXCEPT ![s] = Taken(states[s], Tested(s), v, TRUE)]
      <4>1. /\ states' \in Seq(StateType) /\ Len(states') = Len(states)
            /\ \A t \in 1 .. Len(states) : states'[t] = IF t = s THEN u ELSE states[t]
        <5>1. states' = [states EXCEPT ![s] = u] /\ u \in StateType
          BY <3>2, <2>4, <2>5
        <5> QED  BY <5>1, <1>1, ExceptSeq
      <4> QED  BY <4>1, <2>5
    <3> QED  BY <3>1, <3>2, <2>3
  <2>7. Typed(program', states', paths', replayPath', replayPosition')
    BY <1>2, <1>3, <2>2, <2>3, <2>6 DEF Typed
  <2>8. Streams(writer', content', states')
    BY <1>2, <1>3, <2>6 DEF Streams
  <2>9. ASSUME Branching(program), goal.at = "exit"
        PROVE  Follows(program', states', replayPath', replayPosition', goal', failed')
    <3>1. Follows(program, states, replayPath, replayPosition, goal, failed)
      BY <1>2, <2>9 DEF PInv
    <3>2. s = 1 /\ states[s].pc = replayPosition + 1 /\ Len(states) = 1
      BY <1>1, <3>1 DEF Follows
    <3>3. Tested(s) \in DOMAIN goal.bits /\ goal.bits[Tested(s)] = v
      BY <1>1, <2>1, <3>1, <3>2 DEF Follows
    <3>4. Decided(s) => states[s].bits[Tested(s)] = v
      BY <3>1, <3>2, <3>3 DEF Follows, Decided
    <3>5. states' = [states EXCEPT ![s] = u] /\ failed' = failed
      BY <2>3, <2>4, <3>4
    <3>6. states'[1] = u /\ Len(states') = 1
      BY <3>2, <3>5, <1>1, <2>6
    <3>7. \A b \in DOMAIN u.bits : b \in DOMAIN goal.bits /\ u.bits[b] = goal.bits[b]
      <4>1. PICK w : w = With(states[s].bits, Tested(s), v)
        OBVIOUS
      <4>2. DOMAIN w = DOMAIN states[s].bits \cup {Tested(s)} /\ w[Tested(s)] = v
            /\ \A b \in DOMAIN states[s].bits : b # Tested(s) => w[b] = states[s].bits[b]
        BY <4>1 DEF With
      <4>3. \A b \in DOMAIN w : b \in DOMAIN goal.bits /\ w[b] = goal.bits[b]
        BY <4>2, <3>1, <3>2, <3>3 DEF Follows
      <4> QED  BY <4>1, <4>3, <2>5
    <3>8. u.pc = replayPosition' + 1
      BY <2>3, <2>5, <3>2
    <3> QED  BY <1>2, <3>1, <3>5, <3>6, <3>7, <3>8 DEF Follows
  <2> QED  BY <1>2, <2>7, <2>8, <2>9 DEF PInv, Replaying
<1> QED  BY <1>5, <1>6

\* A state that ends flushes the writer and has its own stream read back.
LEMMA TerminateKeeps ==
  ASSUME PInv, NEW s \in DOMAIN states, Terminate(s)
  PROVE  PInv'
<1>1. /\ states \in Seq(StateType) /\ DOMAIN states = 1 .. Len(states)
      /\ Typed(program, states, paths, replayPath, replayPosition) /\ Streams(writer, content, states)
  BY LenProperties DEF PInv, Typed
<1>2. s \in 1 .. Len(states) /\ states[s] \in StateType
  BY <1>1, ElementOfSeq
<1>3. failed = "none" /\ UNCHANGED <<program, replay, content>>
  BY DEF Terminate, Running
<1>4. PICK at \in {"exit", "early"} :
         (at = "exit" <=> states[s].pc > Length) /\ states' = [states EXCEPT ![s].at = at]
  BY DEF Terminate
<1>5. PICK u : u = [states[s] EXCEPT !.at = at]
  OBVIOUS
<1>6. /\ u \in StateType /\ u.pc = states[s].pc /\ u.bits = states[s].bits /\ u.pathOS = states[s].pathOS
      /\ u.taken = states[s].taken /\ u.at = at
  BY <1>2, <1>5 DEF StateType
<1>7. /\ states' \in Seq(StateType) /\ Len(states') = Len(states)
      /\ \A t \in 1 .. Len(states) : states'[t] = IF t = s THEN u ELSE states[t]
  <2>1. states' = [states EXCEPT ![s] = u] /\ u \in StateType
    BY <1>4, <1>5, <1>6
  <2> QED  BY <2>1, <1>1, <1>2, ExceptSeq
<1>8. CASE Replaying
  <2>1. UNCHANGED <<writer, paths>>
    BY <1>8 DEF Terminate
  <2>2. Typed(program', states', paths', replayPath', replayPosition')
    BY <1>1, <1>3, <1>7, <2>1 DEF Typed, replay
  <2>3. Streams(writer', content', states')
    BY <1>1, <1>2, <1>3, <1>6, <1>7, <2>1 DEF Streams
  <2>4. ASSUME Branching(program), goal.at = "exit"
        PROVE  Follows(program', states', replayPath', replayPosition', goal', failed')
    <3>1. Follows(program, states, replayPath, replayPosition, goal, failed)
      BY <1>8, <2>4 DEF PInv
    <3>2. s = 1 /\ states'[1] = u /\ Len(states') = 1
      BY <3>1, <1>2, <1>7 DEF Follows
    <3> QED  BY <3>1, <3>2, <1>3, <1>6 DEF Follows, replay
  <2> QED  BY <1>3, <1>8, <2>2, <2>3, <2>4 DEF PInv, Replaying, replay
<1>9. CASE ~Replaying
  <2>1. PICK p : p = ReadStream(states[s].pathOS)
    OBVIOUS
  <2>2. writer' = FlushBuffer(writer) /\ paths' = With(paths, s, p)
    BY <1>9, <2>1 DEF Terminate
  <2>3. p = content[states[s].pathOS] /\ p \in Seq(BOOLEAN) /\ Holds(writer, content)
    <3>1. Holds(writer, content) /\ states[s].pathOS \in 1 .. Len(content)
      BY <1>1, <1>2 DEF Streams
    <3>2. ReadFile(FlushBuffer(writer).file, states[s].pathOS) = content[states[s].pathOS]
      BY <3>1 DEF Holds
    <3>3. content[states[s].pathOS] \in Seq(BOOLEAN)
      BY <3>1, ElementOfSeq DEF Holds
    <3> QED  BY <2>1, <3>1, <3>2, <3>3 DEF ReadStream
  <2>4. /\ DOMAIN paths' = DOMAIN paths \cup {s} /\ paths'[s] = p
        /\ \A t \in DOMAIN paths : t # s => paths'[t] = paths[t]
    BY <2>2 DEF With
  <2>5. Typed(program', states', paths', replayPath', replayPosition')
    BY <1>1, <1>3, <1>7, <2>3, <2>4 DEF Typed, replay
  <2>6. Streams(writer', content', states')
    <3>1. Holds(writer', content)
      BY <2>2, <2>3, FlushHolds
    <3> QED  BY <3>1, <1>1, <1>2, <1>3, <1>6, <1>7 DEF Streams
  <2>7. ASSUME Branching(program) PROVE Recording(program', states', paths', content', failed')
    <3>1. Recording(program, states, paths, content, failed)
      BY <1>9, <2>7 DEF PInv
    <3>2. ASSUME NEW t \in 1 .. Len(states') PROVE OwnWay(program, states'[t], content)
      <4>1. t \in 1 .. Len(states) /\ OwnWay(program, states[t], content)
        BY <3>1, <1>7 DEF Recording
      <4>2. CASE t = s
        BY <4>1, <4>2, <1>4, <1>6, <1>7 DEF OwnWay
      <4>3. CASE t # s
        BY <4>1, <4>3, <1>7
      <4> QED  BY <4>2, <4>3
    <3>3. \A r, t \in 1 .. Len(states') : states'[r].pathOS = states'[t].pathOS => r = t
      <4>1. \A t \in 1 .. Len(states') : t \in 1 .. Len(states) /\ states'[t].pathOS = states[t].pathOS
        BY <1>6, <1>7
      <4> QED  BY <4>1, <3>1 DEF Recording
    <3>4. ASSUME NEW t \in DOMAIN paths'
          PROVE  t \in 1 .. Len(states') /\ states'[t].at # "run" /\ paths'[t] = states'[t].taken
      <4>1. CASE t = s
        <5>1. content[states[s].pathOS] = states[s].taken
          BY <3>1, <1>2 DEF Recording, OwnWay
        <5>2. at # "run" /\ states'[t] = u /\ t \in 1 .. Len(states')
          BY <4>1, <1>2, <1>7
        <5> QED  BY <4>1, <5>1, <5>2, <1>6, <2>3, <2>4
      <4>2. CASE t # s
        <5>1. t \in DOMAIN paths /\ paths'[t] = paths[t]
          BY <4>2, <2>4
        <5>2. t \in 1 .. Len(states) /\ states[t].at # "run" /\ paths[t] = states[t].taken
          BY <5>1, <3>1 DEF Recording
        <5> QED  BY <4>2, <5>1, <5>2, <1>7
      <4> QED  BY <4>1, <4>2
    <3>5. program' = program /\ content' = content /\ failed' = "none"
      BY <1>3 DEF replay
    <3> QED  BY <3>2, <3>3, <3>4, <3>5 DEF Recording
  <2> QED  BY <1>3, <1>9, <2>5, <2>6, <2>7 DEF PInv, Replaying, replay
<1> QED  BY <1>8, <1>9

\* Here the path of a state becomes the goal.
LEMMA ReplayKeeps ==
  ASSUME PInv, NEW s \in DOMAIN states, Replay(s)
  PROVE  PInv'
<1>1. /\ states \in Seq(StateType) /\ s \in 1 .. Len(states) /\ states[s] \in StateType
      /\ Typed(program, states, paths, replayPath, replayPosition) /\ ~Replaying
  BY LenProperties, ElementOfSeq DEF PInv, Typed, Replay
<1>2. s \in DOMAIN paths /\ paths[s] \in Seq(BOOLEAN)
  BY <1>1 DEF Replay, Typed
<1>3. PICK v \in BOOLEAN : replayPath' = Append(paths[s], v)
  BY DEF Replay, LoadPathFile
<1>4. /\ replayPath' \in Seq(BOOLEAN) /\ Len(replayPath') = Len(paths[s]) + 1 /\ Len(paths[s]) \in Nat
      /\ replayPath' # <<>> /\ \A i \in 1 .. Len(paths[s]) : replayPath'[i] = paths[s][i]
  BY <1>2, <1>3, AppendProperties, LenProperties
<1>5. /\ goal'.bits = states[s].bits /\ goal'.at = states[s].at
      /\ replayPosition' = 0 /\ states' = <<NewState>> /\ writer' = NewWriter
      /\ DOMAIN paths' = {} /\ content' = << <<>> >> /\ program' = program /\ failed' = failed
  BY DEF Replay
<1>6. /\ states' \in Seq(StateType) /\ Len(states') = 1 /\ states'[1].pc = 1
      /\ DOMAIN states'[1].bits = {} /\ Streams(NewWriter, << <<>> >>, states')
  BY <1>5, FirstStream
<1>7. Typed(program', states', paths', replayPath', replayPosition')
  BY <1>1, <1>4, <1>5, <1>6 DEF Typed
<1>8. Streams(writer', content', states')
  BY <1>5, <1>6
<1>9. ASSUME Branching(program), goal'.at = "exit"
      PROVE  Follows(program', states', replayPath', replayPosition', goal', failed')
  <2>1. Recording(program, states, paths, content, failed)
    BY <1>1, <1>9 DEF PInv
  <2>2. OwnWay(program, states[s], content) /\ paths[s] = states[s].taken /\ failed = "none"
    BY <2>1, <1>1, <1>2 DEF Recording
  <2>3. states[s].at = "exit" /\ states[s].pc > Length /\ states[s].pc \in Nat
        /\ Len(paths[s]) = states[s].pc - 1 /\ Length \in Nat
    BY <2>2, <1>1, <1>5, <1>9, PathAssumption DEF OwnWay, StateType
  <2>4. Len(replayPath') > Length
    BY <2>3, <1>4
  <2>5. ASSUME NEW i \in 1 .. Length
        PROVE  program[i].bit \in DOMAIN states[s].bits /\ states[s].bits[program[i].bit] = replayPath'[i]
    <3>1. i \in 1 .. states[s].pc - 1 /\ i \in 1 .. Len(paths[s])
      BY <2>3
    <3> QED  BY <3>1, <2>2, <1>4 DEF OwnWay
  <2> QED  BY <2>2, <2>4, <2>5, <1>5, <1>6 DEF Follows
<1>10. Replaying'
  BY <1>4 DEF Replaying
<1> QED  BY <1>5, <1>7, <1>8, <1>9, <1>10 DEF PInv

\* The invariant holds of the initial states,
LEMMA InitPInv == Init => PInv
<1> SUFFICES ASSUME Init PROVE PInv
  OBVIOUS
<1>1. /\ states \in Seq(StateType) /\ Streams(writer, content, states)
      /\ Recording(program, states, paths, content, failed)
  BY FirstStream DEF Init
<1>2. replayPath = <<>> /\ replayPosition = 0 /\ DOMAIN paths = {} /\ program \in [1 .. Length -> Point]
  BY DEF Init
<1>3. <<>> \in Seq(BOOLEAN) /\ 0 \in 0 .. Len(<<>>)
  OBVIOUS
<1>4. Typed(program, states, paths, replayPath, replayPosition)
  BY <1>1, <1>2, <1>3 DEF Typed
<1> QED  BY <1>1, <1>2, <1>4 DEF PInv, Replaying

\* and every step preserves it.
LEMMA NextPInv == PInv /\ [Next]_vars => PInv'
<1> SUFFICES ASSUME PInv, [Next]_vars PROVE PInv'
  OBVIOUS
<1>1. CASE Next
  <2>1. PICK s \in DOMAIN states : \/ TakeBranch(s) \/ Fork(s) \/ Switch(s) \/ TakeSeeded(s)
                                   \/ ReplayBranch(s) \/ Terminate(s) \/ Replay(s)
    BY <1>1 DEF Next
  <2> QED  BY <2>1, TakeBranchKeeps, ForkKeeps, SwitchKeeps, TakeSeededKeeps, ReplayBranchKeeps,
              TerminateKeeps, ReplayKeeps
<1>2. CASE UNCHANGED vars
  BY <1>2 DEF PInv, Replaying, vars, replay
<1> QED  BY <1>1, <1>2

-------------------------------------------------------------------------------
(* The theorems.                                                           *)

\* readStream returns what each stream was asked to hold (Executor.cpp writes one
\* character per branch, TreeStream.cpp buffers, and opens streams in between), for every
\* program, every number of states and every size of the buffer.
THEOREM StreamsReadBack == Spec => []ReadsBack
<1>1. PInv => ReadsBack
  <2> SUFFICES ASSUME PInv PROVE ReadsBack
    OBVIOUS
  <2>1. Holds(writer, content)
    BY DEF PInv, Streams
  <2>2. content \in Seq(Seq(BOOLEAN)) /\ Len(content) = writer.ids - 1
        /\ \A id \in 1 .. Len(content) : ReadFile(FlushBuffer(writer).file, id) = content[id]
    BY <2>1 DEF Holds
  <2>3. DOMAIN content = 1 .. Len(content)
    BY <2>2, LenProperties
  <2> QED  BY <2>2, <2>3 DEF ReadsBack, ReadStream
<1> QED  BY <1>1, InitPInv, NextPInv, PTL DEF Spec

\* A program that forks at its branches only: the .path file of a state that reached its
\* end leads the replay (fork() in replay mode) the same way, past both assertions, though
\* loadPathFile puts an arbitrary value behind the path.
THEOREM ReplaysReach == Spec => []ReplayReaches
<1>1. PInv => ReplayReaches
  <2> SUFFICES ASSUME PInv, OnlyBranches, Replaying, goal.at = "exit"
               PROVE  /\ failed = "none"
                      /\ \A s \in DOMAIN states : \A b \in DOMAIN states[s].bits :
                           b \in DOMAIN goal.bits /\ states[s].bits[b] = goal.bits[b]
    BY DEF ReplayReaches
  <2>1. states \in Seq(StateType) /\ program \in [1 .. Length -> Point]
    BY DEF PInv, Typed
  <2>2. Branching(program)
    BY <2>1 DEF OnlyBranches, Branching
  <2>3. Follows(program, states, replayPath, replayPosition, goal, failed)
    BY <2>2 DEF PInv
  <2>4. \A s \in DOMAIN states : s = 1
    BY <2>1, <2>3, LenProperties DEF Follows
  <2> QED  BY <2>3, <2>4 DEF Follows
<1> QED  BY <1>1, InitPInv, NextPInv, PTL DEF Spec
===============================================================================
