-------------------------- MODULE MCPathCondition --------------------------
(***************************************************************************)
(* PathCondition on bytes of two bits and ints of two bytes.               *)
(***************************************************************************)
EXTENDS PathCondition

MCConstantArrays == [table |-> <<3, 1>>]
MCArrays         == {"input"}

Byte(i)     == Read("input", <<>>, Constant(i, IntWidth))
ZeroIndex   == Tree("ZExt", IntWidth, <<Alloc("Ult", Byte(0), Constant(2, ByteWidth))>>)
Word        == Tree("Concat", IntWidth, <<Byte(1), Byte(0)>>)
BigEndian   == Tree("Concat", IntWidth, <<Byte(0), Byte(1)>>)
Table       == Read("table", <<>>, ZeroIndex)
Updated     == <<[index |-> ZeroIndex, value |-> Constant(2, ByteWidth)]>>
Overwritten == <<[index |-> Constant(1, IntWidth), value |-> Byte(0)]>>

ByteKinds == {"Add", "Sub", "Mul", "And", "Or", "Xor"} \cup Divisions \cup Shifts \cup Comparisons
ByteLess  == Alloc("Ult", Byte(0), Byte(1))
ByteIs(v) == Alloc("Eq", Constant(v, ByteWidth), Byte(1))

\* Every operation and cast, on booleans and bytes.
Bytes ==
  [operands |-> {Byte(0), Constant(1, ByteWidth), Constant(2, ByteWidth), ByteLess, ByteIs(1),
                 Constant(13, IntWidth)},
   kinds    |-> ByteKinds,
   updates  |-> {},
   widths   |-> {1, 2, 4},
   depth    |-> 4,
   branches |-> 0,
   builder  |-> Simplifying,
   let      |-> FALSE]

\* Multiplication, division and shifts by constants.
Ints ==
  [operands |-> {Word} \cup {Constant(v, IntWidth) : v \in {1, 3, 8, 13}},
   kinds    |-> {"Add", "Mul"} \cup Divisions \cup Shifts,
   updates  |-> {},
   widths   |-> {2},
   depth    |-> 5,
   branches |-> 0,
   builder  |-> Folding,
   let      |-> FALSE]

\* Loads at a symbolic index, and comparisons of what they read.
Loads ==
  [operands |-> {Byte(0), ZeroIndex, Table, Read("input", Updated, Constant(0, IntWidth)),
                 Constant(1, IntWidth), Constant(2, ByteWidth)},
   kinds    |-> {"Eq"},
   updates  |-> {<<>>, Updated, Overwritten},
   widths   |-> {4},
   depth    |-> 5,
   branches |-> 0,
   builder  |-> Default,
   let      |-> TRUE]

\* Sums and differences of sums and differences.
Sums ==
  [operands |-> {Byte(0), Byte(1), Constant(1, ByteWidth), Constant(2, ByteWidth)},
   kinds    |-> {"Add", "Sub", "Eq"},
   updates  |-> {},
   widths   |-> {},
   depth    |-> 5,
   branches |-> 0,
   builder  |-> Folding,
   let      |-> FALSE]

\* Paths of two branches.
Paths ==
  [operands |-> {Byte(1), Constant(2, ByteWidth),
                 Read("input", Overwritten, Constant(0, IntWidth)),
                 Alloc("Ule", Constant(5, IntWidth), Word),
                 Alloc("Eq", Constant(6, IntWidth), BigEndian)},
   kinds    |-> {"And", "Eq"},
   updates  |-> {Overwritten},
   widths   |-> {4},
   depth    |-> 3,
   branches |-> 2,
   builder  |-> Simplifying,
   let      |-> TRUE]

MCPrograms == {Bytes, Ints, Loads, Sums, Paths}
=============================================================================
