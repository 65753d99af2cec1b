------------------------------ MODULE MCByteCache ------------------------------
(* Instances of ByteCache for TLC. *)
EXTENDS ByteCache

Valuations == {"p", "q"}
Symbolics  == {[constant |-> FALSE, of |-> [v \in Valuations |-> IF v = "p" THEN 0 ELSE 1]]}
\* The first byte or the last.
OffsetExprs == {[constant |-> FALSE, of |-> [v \in Valuations |-> IF v = "p" THEN 0 ELSE Size - 1]]}
Inputs == [v \in Valuations |-> [o \in Offset |-> IF v = "p" THEN 1 ELSE 0]]

\* The concrete store of a byte that is not concrete is not read: it becomes
\* concrete again only by a write that sets it.
UsedView ==
  <<[o \in Offset |-> IF IsByteConcrete(o) THEN concreteStore[o] ELSE Null],
    concreteMask, flushMask, knownSymbolics, root, updates>>
================================================================================
