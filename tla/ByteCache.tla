------------------------------- MODULE ByteCache -------------------------------
(***************************************************************************)
(* The bytes of one ObjectState (Memory.cpp).  A byte may be cached as a   *)
(* concrete value or as an expression; behind the cache is a list of       *)
(* updates to an array, which reads and writes at symbolic offsets need    *)
(* and into which the cache is flushed for them.                           *)
(*                                                                         *)
(* An expression is its value under each valuation of the symbolic inputs  *)
(* and whether it is a constant.  Wider accesses are made of these, byte   *)
(* by byte (ObjectState::read, write).                                     *)
(***************************************************************************)
EXTENDS Integers, Sequences, FiniteSets

CONSTANTS Size, Byte, Valuation,
          SymbolicByte,    \* the non-constant values stored
          SymbolicOffset,  \* the non-constant offsets used, in bounds
          Input,           \* the values of the bytes of a symbolic array
          External,        \* the offsets external functions modify
          Null,            \* no mask, no expression or no array
          MaxUpdates       \* bound on the length of the update list

Offset == 0 .. Size - 1
Constant(c) == [constant |-> TRUE, of |-> [v \in Valuation |-> c]]
Expr(D)     == [constant : BOOLEAN, of : [Valuation -> D]]

ASSUME CacheAssumption ==
  /\ Size \in Nat /\ Byte \subseteq Nat /\ 0 \in Byte
  /\ SymbolicByte \subseteq Expr(Byte) /\ SymbolicOffset \subseteq Expr(Offset)
  /\ \A e \in SymbolicByte \union SymbolicOffset : ~e.constant
  /\ Input \in [Valuation -> [Offset -> Byte]]
  /\ External \subseteq Offset
  /\ Null \notin [Offset -> BOOLEAN] \union Expr(Byte) \union [Valuation -> [Offset -> Byte]]
  /\ MaxUpdates \in Nat

VARIABLES
  concreteStore,   \* the concrete values, used where concreteMask says so
  concreteMask,    \* Null: every byte is concrete
  flushMask,       \* TRUE where the byte is not flushed; Null: no byte is
  knownSymbolics,  \* the cached expression of each byte, or Null
  root,            \* updates.root: the array's initial bytes, or Null
  updates          \* updates.head: the writes to the array, oldest first

vars == <<concreteStore, concreteMask, flushMask, knownSymbolics, root, updates>>

IsByteConcrete(o)      == concreteMask = Null \/ concreteMask[o]
IsByteFlushed(o)       == flushMask # Null /\ ~flushMask[o]
IsByteKnownSymbolic(o) == knownSymbolics[o] # Null

\* The value of byte o of the array after the writes w to the array r.
\* getUpdates makes an array of zeroes where there is none.
ReadFrom(r, w, v, o) ==
  LET hits == {k \in DOMAIN w : w[k].index.of[v] = o}
  IN  IF hits # {} THEN w[CHOOSE k \in hits : \A j \in hits : j =< k].value.of[v]
      ELSE IF r = Null THEN 0 ELSE r[v][o]

\* read8 at a constant offset.
Read8(v, o) ==
  IF IsByteConcrete(o) THEN concreteStore[o]
  ELSE IF IsByteKnownSymbolic(o) THEN knownSymbolics[o].of[v]
  ELSE ReadFrom(root, updates, v, o)

\* A new object state: concrete (initializeToZero, initializeToRandom) or
\* backed by an array of symbolic bytes (makeSymbolic).
Init ==
  /\ knownSymbolics = [o \in Offset |-> Null]
  /\ updates = <<>>
  /\ \E b \in Byte : concreteStore = [o \in Offset |-> b]
  /\ \/ concreteMask = Null /\ flushMask = Null /\ root = Null
     \/ /\ concreteMask = [o \in Offset |-> FALSE]
        /\ flushMask = [o \in Offset |-> FALSE]
        /\ root = Input

-------------------------------------------------------------------------------
(* The masks after marking the bytes O.                                    *)

Mask(mask, O, bit) == [o \in Offset |-> IF o \in O THEN bit ELSE mask[o]]
AllSet             == [o \in Offset |-> TRUE]

MarkConcrete(O)  == IF concreteMask = Null THEN Null ELSE Mask(concreteMask, O, TRUE)
MarkSymbolic(O)  == Mask(IF concreteMask = Null THEN AllSet ELSE concreteMask, O, FALSE)
\* Mutant: the write does not mark the byte.
LeaveFlushed(O)  == flushMask
MarkUnflushed(O) == IF flushMask = Null THEN Null ELSE Mask(flushMask, O, TRUE)

\* What a flush of the whole range appends for each byte that is not flushed,
\* in the order of the offsets.
Unflushed == {o \in Offset : ~IsByteFlushed(o)}
Cached(o) == IF IsByteConcrete(o) THEN Constant(concreteStore[o]) ELSE knownSymbolics[o]
Flushed ==
  updates \o [k \in 1..Cardinality(Unflushed) |->
    LET o == CHOOSE q \in Unflushed : Cardinality({p \in Unflushed : p =< q}) = k
    IN  [index |-> Constant(o), value |-> Cached(o)]]

\* getUpdates: without an array, the leading constant writes of w become a
\* constant array.  The writes that stay, and the array.
ConstantPrefix(w) ==
  CHOOSE n \in 0 .. Len(w) :
    /\ \A k \in 1..n : w[k].index.constant /\ w[k].value.constant
    /\ n = Len(w) \/ ~(w[n+1].index.constant /\ w[n+1].value.constant)
UpdatesOf(w) == IF root # Null THEN w ELSE SubSeq(w, ConstantPrefix(w) + 1, Len(w))
RootOf(w) ==
  IF root # Null THEN root
  ELSE [v \in Valuation |-> [o \in Offset |->
          ReadFrom(Null, SubSeq(w, 1, ConstantPrefix(w)), v, o)]]

-------------------------------------------------------------------------------
(* Reads and writes.                                                       *)

\* write8(unsigned, uint8_t).
WriteConcrete(o, b) ==
  /\ concreteStore' = [concreteStore EXCEPT ![o] = b]
  /\ knownSymbolics' = [knownSymbolics EXCEPT ![o] = Null]
  /\ concreteMask' = MarkConcrete({o})
  /\ flushMask' = MarkUnflushed({o})
  /\ UNCHANGED <<root, updates>>

\* write8(unsigned, ref<Expr>) of a value that is not constant.
WriteSymbolic(o, e) ==
  /\ knownSymbolics' = [knownSymbolics EXCEPT ![o] = e]
  /\ concreteMask' = MarkSymbolic({o})
  /\ flushMask' = MarkUnflushed({o})
  /\ UNCHANGED <<concreteStore, root, updates>>

\* Mutant: a byte that was flushed before stays in the cache.
EmptyUnflushed ==
  /\ concreteMask' = MarkSymbolic(Unflushed)
  /\ knownSymbolics' = [o \in Offset |-> IF o \in Unflushed THEN Null ELSE knownSymbolics[o]]

\* flushRangeForWrite leaves no byte in the cache.
EmptyCache ==
  /\ concreteMask' = MarkSymbolic(Offset)
  /\ knownSymbolics' = [o \in Offset |-> Null]

\* write8(ref<Expr>, ref<Expr>): flushRangeForWrite of every byte, then a write.
WriteAt(i, e) ==
  /\ Len(Flushed) < MaxUpdates
  /\ updates' = Append(Flushed, [index |-> i, value |-> e])
  /\ EmptyCache
  /\ flushMask' = [o \in Offset |-> FALSE]
  /\ UNCHANGED <<concreteStore, root>>

\* read8(unsigned) of a byte that is not cached calls getUpdates.
Read(o) ==
  /\ ~IsByteConcrete(o) /\ ~IsByteKnownSymbolic(o)
  /\ root' = RootOf(updates)
  /\ updates' = UpdatesOf(updates)
  /\ UNCHANGED <<concreteStore, concreteMask, flushMask, knownSymbolics>>

\* read8(ref<Expr>): flushRangeForRead, which keeps the cache, and getUpdates.
ReadAt ==
  /\ Len(Flushed) =< MaxUpdates
  /\ root' = RootOf(Flushed)
  /\ updates' = UpdatesOf(Flushed)
  /\ flushMask' = [o \in Offset |-> FALSE]
  /\ UNCHANGED <<concreteStore, concreteMask, knownSymbolics>>

\* copyInConcretes: the concrete store is overwritten under the masks.
CopyIn(store) ==
  /\ \A o \in Offset : store[o] # concreteStore[o] => o \in External
  /\ concreteStore' = store
  /\ UNCHANGED <<concreteMask, flushMask, knownSymbolics, root, updates>>

Next ==
  \/ \E o \in Offset, b \in Byte : WriteConcrete(o, b)
  \/ \E o \in Offset, e \in SymbolicByte : WriteSymbolic(o, e)
  \/ \E i \in SymbolicOffset, e \in SymbolicByte \union {Constant(b) : b \in Byte} :
       WriteAt(i, e)
  \/ \E o \in Offset : Read(o)
  \/ ReadAt
  \/ \E store \in [Offset -> Byte] : CopyIn(store)

Spec == Init /\ [][Next]_vars

-------------------------------------------------------------------------------
(* Properties.                                                             *)

\* Memory.cpp, "Cache Invariants": a byte is cached one way, and a byte that is
\* not flushed is cached ("invalid bit set in flushMask", "unflushed byte without
\* cache value").
CacheInvariants ==
  \A o \in Offset :
    /\ IsByteKnownSymbolic(o) => ~IsByteConcrete(o)
    /\ ~IsByteFlushed(o) => IsByteConcrete(o) \/ IsByteKnownSymbolic(o)

\* A flushed byte reads the same from the cache and from the array: what a read
\* at a symbolic offset finds is what a read at the constant offset finds.
Agrees(o) == IsByteFlushed(o) => \A v \in Valuation : ReadFrom(root, updates, v, o) = Read8(v, o)
ReadsAgree == \A o \in Offset \ External : Agrees(o)

\* The cache is consistent, in itself and with the array.
CacheOK == CacheInvariants /\ ReadsAgree

\* The bytes no external function touches are an array of bytes: under each
\* valuation a write changes the byte at its offset and no other, and flushes,
\* array construction and copies from native memory do not show.
Stores(i, e) ==
  \A v \in Valuation, o \in Offset \ External :
    Read8(v, o)' = IF i.of[v] = o THEN e.of[v] ELSE Read8(v, o)
Keeps == \A v \in Valuation, o \in Offset \ External : Read8(v, o)' = Read8(v, o)
ArrayOfBytes ==
  [][/\ \A o \in Offset :
          /\ \A b \in Byte : WriteConcrete(o, b) => Stores(Constant(o), Constant(b))
          /\ \A e \in SymbolicByte : WriteSymbolic(o, e) => Stores(Constant(o), e)
          /\ Read(o) => Keeps
     /\ \A i \in SymbolicOffset, e \in SymbolicByte \union {Constant(b) : b \in Byte} :
          WriteAt(i, e) => Stores(i, e)
     /\ ReadAt \/ CopyIn(concreteStore') => Keeps]_vars
================================================================================
