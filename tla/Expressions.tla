---------------------------- MODULE Expressions ----------------------------
(***************************************************************************)
(* Symbolic expressions (lib/Expr/Expr.cpp, include/klee/Expr.h).          *)
(*                                                                         *)
(* An expression is a tree with a width in bits.  It is only ever built by *)
(* the create functions, which fold constants and bring the tree into the  *)
(* forms that the rest of KLEE matches on.  Value says what an expression  *)
(* is worth under an assignment of the symbolic arrays; Apply what an      *)
(* operation does to numbers.                                              *)
(*                                                                         *)
(* The operators are recursive, as the code is: this module is for TLC.    *)
(***************************************************************************)
EXTENDS Integers, Sequences, FiniteSetsExt, SequencesExt, Bitwise

CONSTANTS
  ByteWidth,      \* bits of a byte: 8 in the code
  IntWidth,       \* bits of an int, of an array index and of a fast division: 32
  ConstantArrays, \* the constant arrays: name -> sequence of bytes
  ArrayBytes,     \* bytes of a symbolic array
  ConstArrayOpt   \* --const-array-opt

ASSUME ExpressionAssumption ==
  /\ ByteWidth \in Nat \ {0} /\ IntWidth \in Nat \ {0} /\ ArrayBytes \in Nat \ {0}
  /\ ConstArrayOpt \in BOOLEAN
  /\ \A name \in DOMAIN ConstantArrays : ConstantArrays[name] \in Seq(0 .. 2^ByteWidth - 1)

Bool == 1
Long == 2 * IntWidth \* bits of a uint64_t

(***************************************************************************)
(* The tree.  num is the value of a constant and the offset of an extract; *)
(* array and updates, oldest first, belong to a read.                      *)
(***************************************************************************)
Tree(kind, width, kids) ==
  [kind |-> kind, width |-> width, kids |-> kids, num |-> 0, array |-> "", updates |-> <<>>]
Constant(v, w)     == [Tree("Constant", w, <<>>) EXCEPT !.num = v % 2^w]
Read(array, updates, index) ==
  [Tree("Read", ByteWidth, <<index>>) EXCEPT !.array = array, !.updates = updates]
Extract(e, off, w) == [Tree("Extract", w, <<e>>) EXCEPT !.num = off]

True  == Constant(1, Bool)
False == Constant(0, Bool)
IsConstant(e) == e.kind = "Constant"
IsConst(e, v) == IsConstant(e) /\ e.num = v
AllOnes(c)    == c.num = 2^c.width - 1
HasConstantLeft(e, kind) == e.kind = kind /\ IsConstant(e.kids[1])

Comparisons == {"Eq", "Ne", "Ult", "Ule", "Ugt", "Uge", "Slt", "Sle", "Sgt", "Sge"}
Alloc(kind, l, r) == Tree(kind, IF kind \in Comparisons THEN Bool ELSE l.width, <<l, r>>)

(***************************************************************************)
(* What the operations do to numbers of w bits.                            *)
(***************************************************************************)
SignedOf(v, w)   == IF v >= 2^(w - 1) THEN v - 2^w ELSE v
Extend(v, w, to) == SignedOf(v, w) % 2^to
Abs(v)           == IF v < 0 THEN -v ELSE v
\* Nothing is divided by zero on a path; elsewhere the result is some number.
Quotient(a, b)   == IF b = 0 THEN 0
                    ELSE IF (a < 0) = (b < 0) THEN Abs(a) \div Abs(b)
                    ELSE -(Abs(a) \div Abs(b))
HasBit(v, j)     == (v \div 2^j) % 2 = 1
Bit(condition)   == IF condition THEN 1 ELSE 0
ShiftLeft(a, n, w)  == IF n >= w THEN 0 ELSE (a * 2^n) % 2^w
ShiftRight(a, n, w) == IF n >= w THEN 0 ELSE a \div 2^n
ArithShift(a, n, w) ==
  (SignedOf(a, w) \div 2^(IF n >= w THEN w - 1 ELSE n)) % 2^w

Apply(kind, w, a, b) ==
  LET sa == SignedOf(a, w)
      sb == SignedOf(b, w) IN
  CASE kind = "Add"  -> (a + b) % 2^w
    [] kind = "Sub"  -> (a - b) % 2^w
    [] kind = "Mul"  -> (a * b) % 2^w
    [] kind = "UDiv" -> Quotient(a, b)
    [] kind = "URem" -> a - Quotient(a, b) * b
    [] kind = "SDiv" -> Quotient(sa, sb) % 2^w
    [] kind = "SRem" -> (sa - Quotient(sa, sb) * sb) % 2^w
    [] kind = "And"  -> a & b
    [] kind = "Or"   -> a | b
    [] kind = "Xor"  -> a ^^ b
    [] kind = "Shl"  -> ShiftLeft(a, b, w)
    [] kind = "LShr" -> ShiftRight(a, b, w)
    [] kind = "AShr" -> ArithShift(a, b, w)
    [] kind = "Eq"   -> Bit(a = b)
    [] kind = "Ne"   -> Bit(a # b)
    [] kind = "Ult"  -> Bit(a < b)
    [] kind = "Ule"  -> Bit(a <= b)
    [] kind = "Ugt"  -> Bit(a > b)
    [] kind = "Uge"  -> Bit(a >= b)
    [] kind = "Slt"  -> Bit(sa < sb)
    [] kind = "Sle"  -> Bit(sa <= sb)
    [] kind = "Sgt"  -> Bit(sa > sb)
    [] kind = "Sge"  -> Bit(sa >= sb)

\* ConstantExpr's operations.
Folded(kind, l, r) ==
  Constant(Apply(kind, l.width, l.num, r.num), IF kind \in Comparisons THEN Bool ELSE l.width)
FoldedExtract(c, off, w) == Constant(c.num \div 2^off, w)
FoldedSExt(c, w)         == Constant(Extend(c.num, c.width, w), w)

(***************************************************************************)
(* Values under an assignment: array -> index -> byte.                     *)
(***************************************************************************)
Assignments(arrays) == [arrays -> [0 .. ArrayBytes - 1 -> 0 .. 2^ByteWidth - 1]]

InitialByte(array, i, a) ==
  IF array \in DOMAIN ConstantArrays
  THEN IF i < Len(ConstantArrays[array]) THEN ConstantArrays[array][i + 1] ELSE 0
  ELSE IF i < ArrayBytes THEN a[array][i] ELSE 0

RECURSIVE Value(_, _)
ValueRead(e, at, hits, a) ==
  IF hits = {} THEN InitialByte(e.array, at, a) ELSE Value(e.updates[Max(hits)].value, a)
ValueAt(e, at, a) ==
  ValueRead(e, at, {j \in DOMAIN e.updates : Value(e.updates[j].index, a) = at}, a)
ValueOf(e, kids, a) ==
  CASE e.kind = "Constant" -> e.num
    [] e.kind = "Read"     -> ValueAt(e, kids[1], a)
    [] e.kind = "Select"   -> IF kids[1] = 1 THEN kids[2] ELSE kids[3]
    [] e.kind = "Concat"   -> kids[1] * 2^(e.kids[2].width) + kids[2]
    [] e.kind = "Extract"  -> (kids[1] \div 2^e.num) % 2^e.width
    [] e.kind = "ZExt"     -> kids[1]
    [] e.kind = "SExt"     -> Extend(kids[1], e.kids[1].width, e.width)
    [] e.kind = "Not"      -> 2^e.width - 1 - kids[1]
    [] OTHER               -> Apply(e.kind, e.kids[1].width, kids[1], kids[2])
Value(e, a) == ValueOf(e, [i \in DOMAIN e.kids |-> Value(e.kids[i], a)], a)

(***************************************************************************)
(* The create functions of the binary operators.  A name that ends in      *)
(* PartialR has a constant on the left, Partial one on the right.          *)
(***************************************************************************)
RECURSIVE Create(_, _, _)

createIsZero(e) == Create("Eq", e, Constant(0, e.width))

AndExpr_createPartial(l, cr) ==
  IF AllOnes(cr) THEN l ELSE IF cr.num = 0 THEN cr ELSE Alloc("And", l, cr)
OrExpr_createPartial(l, cr) ==
  IF AllOnes(cr) THEN cr ELSE IF cr.num = 0 THEN l ELSE Alloc("Or", l, cr)
XorExpr_createPartialR(cl, r) ==
  IF cl.num = 0 THEN r
  ELSE IF cl.width = Bool THEN Create("Eq", False, r)
  ELSE Alloc("Xor", cl, r)

\* A linear formula keeps its constant k on the left: k + (a + b), k - (a + b), ...
AddExpr_createPartialR(cl, r) ==
  CASE cl.width = Bool -> XorExpr_createPartialR(cl, r)
    [] cl.width # Bool /\ cl.num = 0 -> r
    [] OTHER ->
         IF HasConstantLeft(r, "Add") \/ HasConstantLeft(r, "Sub")
         THEN Create(r.kind, Create("Add", cl, r.kids[1]), r.kids[2])
         ELSE Alloc("Add", cl, r)
AddExpr_create(l, r) ==
  IF l.width = Bool THEN Alloc("Xor", l, r)
  ELSE IF HasConstantLeft(l, "Add") THEN Create("Add", l.kids[1], Create("Add", l.kids[2], r))
  ELSE IF HasConstantLeft(l, "Sub") THEN Create("Add", l.kids[1], Create("Sub", r, l.kids[2]))
  ELSE IF HasConstantLeft(r, "Add") THEN Create("Add", r.kids[1], Create("Add", l, r.kids[2]))
  ELSE IF HasConstantLeft(r, "Sub") THEN Create("Add", r.kids[1], Create("Sub", l, r.kids[2]))
  ELSE Alloc("Add", l, r)

SubExpr_createPartialR(cl, r) ==
  IF cl.width = Bool THEN XorExpr_createPartialR(cl, r)
  ELSE IF HasConstantLeft(r, "Add") THEN Create("Sub", Create("Sub", cl, r.kids[1]), r.kids[2])
  ELSE IF HasConstantLeft(r, "Sub") THEN Create("Add", Create("Sub", cl, r.kids[1]), r.kids[2])
  ELSE Alloc("Sub", cl, r)
SubExpr_createPartial(l, cr) ==
  AddExpr_createPartialR(Create("Sub", Constant(0, cr.width), cr), l)
SubExpr_create(l, r) ==
  IF l.width = Bool THEN Alloc("Xor", l, r)
  ELSE IF l = r THEN Constant(0, l.width)
  ELSE IF HasConstantLeft(l, "Add") THEN Create("Add", l.kids[1], Create("Sub", l.kids[2], r))
  ELSE IF HasConstantLeft(l, "Sub") THEN Create("Sub", l.kids[1], Create("Add", l.kids[2], r))
  ELSE IF HasConstantLeft(r, "Add") THEN Create("Sub", Create("Sub", l, r.kids[2]), r.kids[1])
  ELSE IF HasConstantLeft(r, "Sub") THEN Create("Sub", Create("Add", l, r.kids[2]), r.kids[1])
  ELSE Alloc("Sub", l, r)

MulExpr_createPartialR(cl, r) ==
  IF cl.width = Bool THEN AndExpr_createPartial(r, cl)
  ELSE IF cl.num = 1 THEN r
  ELSE IF cl.num = 0 THEN cl
  ELSE Alloc("Mul", cl, r)

\* Division and shift of booleans: the divisor can only be 1.
DivExpr_create(kind, l, r) ==
  IF l.width # Bool THEN Alloc(kind, l, r)
  ELSE IF kind \in {"UDiv", "SDiv"} THEN l ELSE False
ShiftExpr_create(kind, l, r) ==
  IF l.width # Bool THEN Alloc(kind, l, r)
  ELSE IF kind = "AShr" THEN l ELSE Create("And", l, createIsZero(r))

\* A read of a constant array equals a constant where the index does.
MaxMatches == 100
RECURSIVE IndexIn(_, _)
IndexIn(index, matches) ==
  IF matches = {} THEN False
  ELSE Create("Or", IndexIn(index, matches \ {Max(matches)}),
              Create("Eq", index, Constant(Max(matches) - 1, index.width)))
TryConstArrayOpt(cl, rd) ==
  LET bytes   == ConstantArrays[rd.array]
      matches == {i \in DOMAIN bytes : bytes[i] = cl.num}
  IN  IF rd.array \notin DOMAIN ConstantArrays \/ rd.updates # <<>>
         \/ Cardinality(matches) > MaxMatches
      THEN Alloc("Eq", cl, rd)
      ELSE IndexIn(rd.kids[1], matches)

EqExpr_create(l, r) == IF l = r THEN True ELSE Alloc("Eq", l, r)

\* The comparison of a cast with a constant is one of its source, if the constant fits.
EqOfCast(cl, r, trunc, back) ==
  IF cl = back THEN Create("Eq", r.kids[1], trunc) ELSE False

EqExpr_createPartialR(cl, r) ==
  CASE cl.width = Bool /\ cl.num = 1 -> r
    [] cl.width = Bool /\ cl.num = 0 ->
         IF r.kind = "Eq" /\ r.kids[1] = False THEN r.kids[2]
         ELSE IF r.kind = "Or"
              THEN Create("And", createIsZero(r.kids[1]), createIsZero(r.kids[2]))
         ELSE EqExpr_create(cl, r)
    [] cl.width # Bool /\ r.kind \in {"SExt", "ZExt"} ->
         LET trunc == FoldedExtract(cl, 0, r.kids[1].width)
         IN  EqOfCast(cl, r, trunc, IF r.kind = "SExt" THEN FoldedSExt(trunc, cl.width)
                                    ELSE Constant(trunc.num, cl.width))
    [] cl.width # Bool /\ HasConstantLeft(r, "Add") ->
         Create("Eq", Create("Sub", cl, r.kids[1]), r.kids[2])
    [] cl.width # Bool /\ HasConstantLeft(r, "Sub") ->
         Create("Eq", Create("Sub", r.kids[1], cl), r.kids[2])
    [] cl.width # Bool /\ r.kind = "Read" /\ ConstArrayOpt -> TryConstArrayOpt(cl, r)
    [] OTHER -> EqExpr_create(cl, r)

\* Comparisons of booleans become connectives.
CmpExpr_create(kind, l, r) ==
  IF l.width # Bool THEN Alloc(kind, l, r)
  ELSE CASE kind = "Ult" -> Create("And", createIsZero(l), r)
         [] kind = "Ule" -> Create("Or", createIsZero(l), r)
         [] kind = "Slt" -> Create("And", l, createIsZero(r))
         [] kind = "Sle" -> Create("Or", l, createIsZero(r))

\* Operators whose constant, if there is one, is moved to the left or the right.
CreateWithConstant(kind, l, r) ==
  LET c == IF IsConstant(l) THEN l ELSE r
      v == IF IsConstant(l) THEN r ELSE l IN
  CASE kind = "Add" -> AddExpr_createPartialR(c, v)
    [] kind = "Sub" -> IF IsConstant(l) THEN SubExpr_createPartialR(l, r)
                       ELSE SubExpr_createPartial(l, r)
    [] kind = "Mul" -> MulExpr_createPartialR(c, v)
    [] kind = "And" -> AndExpr_createPartial(v, c)
    [] kind = "Or"  -> OrExpr_createPartial(v, c)
    [] kind = "Xor" -> XorExpr_createPartialR(c, v)
    [] kind = "Eq"  -> EqExpr_createPartialR(c, v)
CreateOfVariables(kind, l, r) ==
  CASE kind = "Add" -> AddExpr_create(l, r)
    [] kind = "Sub" -> SubExpr_create(l, r)
    [] kind = "Mul" -> Alloc(IF l.width = Bool THEN "And" ELSE "Mul", l, r)
    [] kind = "Eq"  -> EqExpr_create(l, r)
    [] OTHER        -> Alloc(kind, l, r)

\* Expr::create of every binary kind.
Create(kind, l, r) ==
  CASE kind = "Ne"  -> Create("Eq", False, Create("Eq", l, r))
    [] kind = "Ugt" -> Create("Ult", r, l)
    [] kind = "Uge" -> Create("Ule", r, l)
    [] kind = "Sgt" -> Create("Slt", r, l)
    [] kind = "Sge" -> Create("Sle", r, l)
    [] kind \notin {"Ne", "Ugt", "Uge", "Sgt", "Sge"} ->
         IF IsConstant(l) /\ IsConstant(r) THEN Folded(kind, l, r)
         ELSE IF kind \in {"UDiv", "SDiv", "URem", "SRem"} THEN DivExpr_create(kind, l, r)
         ELSE IF kind \in {"Shl", "LShr", "AShr"} THEN ShiftExpr_create(kind, l, r)
         ELSE IF kind \in {"Ult", "Ule", "Slt", "Sle"} THEN CmpExpr_create(kind, l, r)
         ELSE IF IsConstant(l) \/ IsConstant(r) THEN CreateWithConstant(kind, l, r)
         ELSE CreateOfVariables(kind, l, r)

(***************************************************************************)
(* The create functions of the other kinds.                                *)
(***************************************************************************)
\* The newest update that may be at the index is the value if it surely is.
ReadExpr_create(array, updates, index) ==
  LET Cond(j) == Create("Eq", index, updates[j].index)
      may     == {j \in DOMAIN updates : Cond(j) # False}
  IN  IF may # {} /\ Cond(Max(may)) = True THEN updates[Max(may)].value
      ELSE Read(array, updates, index)

SelectExpr_create(c, t, f) ==
  CASE IsConstant(c) -> IF c.num = 1 THEN t ELSE f
    [] ~IsConstant(c) /\ t = f -> t
    [] ~IsConstant(c) /\ t # f /\ t.width = Bool /\ IsConstant(t) ->
         IF t.num = 1 THEN Create("Or", c, f) ELSE Create("And", createIsZero(c), f)
    [] ~IsConstant(c) /\ t # f /\ t.width = Bool /\ ~IsConstant(t) /\ IsConstant(f) ->
         IF f.num = 1 THEN Create("Or", createIsZero(c), t) ELSE Create("And", c, t)
    [] OTHER -> Tree("Select", t.width, <<c, t, f>>)

RECURSIVE ExtractExpr_create(_, _, _)
ConcatExpr_create(l, r) ==
  LET w == l.width + r.width IN
  CASE IsConstant(l) /\ IsConstant(r) -> Constant(l.num * 2^r.width + r.num, w)
    [] /\ l.kind = "Extract" /\ r.kind = "Extract"
       /\ l.kids = r.kids /\ r.num + r.width = l.num ->
         ExtractExpr_create(l.kids[1], r.num, w)
    [] OTHER -> Tree("Concat", w, <<l, r>>)

ExtractExpr_create(e, off, w) ==
  LET left  == e.kids[1]
      right == e.kids[2] IN
  IF w = e.width THEN e
  ELSE IF IsConstant(e) THEN FoldedExtract(e, off, w)
  ELSE IF e.kind # "Concat" THEN Extract(e, off, w)
  ELSE IF off >= right.width THEN ExtractExpr_create(left, off - right.width, w)
  ELSE IF off + w <= right.width THEN ExtractExpr_create(right, off, w)
  ELSE ConcatExpr_create(ExtractExpr_create(left, 0, w - right.width + off),
                         ExtractExpr_create(right, off, right.width - off))

NotExpr_create(e) ==
  IF IsConstant(e) THEN Constant(2^e.width - 1 - e.num, e.width)
  ELSE Tree("Not", e.width, <<e>>)

\* ZExt and SExt; a cast to fewer bits takes the low ones.
CastExpr_create(kind, e, w) ==
  IF w = e.width THEN e
  ELSE IF w < e.width THEN ExtractExpr_create(e, 0, w)
  ELSE IF IsConstant(e) THEN IF kind = "SExt" THEN FoldedSExt(e, w) ELSE Constant(e.num, w)
  ELSE Tree(kind, w, <<e>>)

\* The same expression over other kids.
rebuild(e, kids) ==
  CASE e.kind = "Read"    -> ReadExpr_create(e.array, e.updates, kids[1])
    [] e.kind = "Select"  -> SelectExpr_create(kids[1], kids[2], kids[3])
    [] e.kind = "Concat"  -> ConcatExpr_create(kids[1], kids[2])
    [] e.kind = "Extract" -> ExtractExpr_create(kids[1], e.num, e.width)
    [] e.kind = "Not"     -> NotExpr_create(kids[1])
    [] e.kind \in {"ZExt", "SExt"} -> CastExpr_create(e.kind, kids[1], e.width)
    [] OTHER -> Create(e.kind, kids[1], kids[2])
=============================================================================
