------------------------------ MODULE Builders ------------------------------
(***************************************************************************)
(* The expression builders of the query language (lib/Expr/ExprBuilder.cpp)*)
(* and the chain kleaver makes of them: the default builder allocates what *)
(* it is asked for, the folding builder on top of it folds constants, the  *)
(* simplifying one on top of that rewrites comparisons and negations.      *)
(*                                                                         *)
(* In the code a builder is a class whose Builder is itself and whose Base *)
(* is the one below; here it is a number, and its base is one less.        *)
(***************************************************************************)
EXTENDS Expressions

Default     == 0
Folding     == 1
Simplifying == 2

Neg(c) == Folded("Sub", Constant(0, c.width), c)
HasConstantRight(e, kind) == e.kind = kind /\ IsConstant(e.kids[2])

RECURSIVE Build(_, _, _, _)

(***************************************************************************)
(* ConstantFoldingBuilder.  A sum keeps one constant, on the left.         *)
(***************************************************************************)
Fold(kind, l, r) == Build(Folding, kind, l, r)

FoldConstantAdd(c, e) ==
  IF c.num = 0 THEN e
  ELSE IF HasConstantLeft(e, "Add")  THEN Fold("Add", Folded("Add", c, e.kids[1]), e.kids[2])
  ELSE IF HasConstantRight(e, "Add") THEN Fold("Add", Folded("Add", c, e.kids[2]), e.kids[1])
  ELSE IF HasConstantLeft(e, "Sub")  THEN Fold("Sub", Folded("Add", c, e.kids[1]), e.kids[2])
  ELSE IF HasConstantRight(e, "Sub") THEN Fold("Add", Folded("Sub", c, e.kids[2]), e.kids[1])
  ELSE Build(Default, "Add", c, e)
FoldAdd(l, r) ==
  IF l.kind = "Add" THEN Fold("Add", l.kids[1], Fold("Add", l.kids[2], r))
  ELSE IF l.kind = "Sub" THEN Fold("Add", l.kids[1], Fold("Sub", r, l.kids[2]))
  ELSE IF HasConstantLeft(r, "Add")  THEN Fold("Add", r.kids[1], Fold("Add", l, r.kids[2]))
  ELSE IF HasConstantRight(r, "Add") THEN Fold("Add", r.kids[2], Fold("Add", l, r.kids[1]))
  ELSE IF HasConstantLeft(r, "Sub")  THEN Fold("Add", r.kids[1], Fold("Sub", l, r.kids[2]))
  ELSE IF HasConstantRight(r, "Sub") THEN Fold("Add", Neg(r.kids[2]), Fold("Add", l, r.kids[1]))
  ELSE Build(Default, "Add", l, r)

FoldConstantSub(c, e) ==
  IF HasConstantLeft(e, "Add") THEN Fold("Sub", Folded("Sub", c, e.kids[1]), e.kids[2])
  ELSE IF HasConstantRight(e, "Add") THEN Fold("Sub", Folded("Sub", c, e.kids[2]), e.kids[1])
  ELSE IF HasConstantLeft(e, "Sub")  THEN Fold("Add", Folded("Sub", c, e.kids[1]), e.kids[2])
  ELSE IF HasConstantRight(e, "Sub") THEN Fold("Sub", Folded("Add", c, e.kids[2]), e.kids[1])
  ELSE Build(Default, "Sub", c, e)

\* Mutant of FoldSub: x - (c - y) is taken for -c + (x - y).
FoldSubOfSub(l, r) ==
  IF HasConstantLeft(r, "Sub") THEN Fold("Add", Neg(r.kids[1]), Fold("Sub", l, r.kids[2]))
  ELSE Build(Default, "Sub", l, r)

FoldSub(l, r) ==
  IF l.kind = "Add" THEN Fold("Add", l.kids[1], Fold("Sub", l.kids[2], r))
  ELSE IF l.kind = "Sub" THEN Fold("Sub", l.kids[1], Fold("Add", l.kids[2], r))
  ELSE IF HasConstantLeft(r, "Add")  THEN Fold("Add", Neg(r.kids[1]), Fold("Sub", l, r.kids[2]))
  ELSE IF HasConstantRight(r, "Add") THEN Fold("Add", Neg(r.kids[2]), Fold("Sub", l, r.kids[1]))
  ELSE IF HasConstantLeft(r, "Sub")  THEN Fold("Add", Neg(r.kids[1]), Fold("Add", l, r.kids[2]))
  ELSE IF HasConstantRight(r, "Sub") THEN Fold("Add", r.kids[2], Fold("Sub", l, r.kids[1]))
  ELSE Build(Default, "Sub", l, r)

\* !!X is X for every builder but the default one.
RECURSIVE BuildNot(_, _)
FoldConstant(kind, c, e) ==
  CASE kind = "Add" -> FoldConstantAdd(c, e)
    [] kind = "Mul" /\ c.num = 0    -> c
    [] kind = "Mul" /\ c.num = 1    -> e
    [] kind = "And" /\ c.num = 0    -> c
    [] kind = "And" /\ c.num # 0 /\ AllOnes(c) -> e
    [] kind = "Or"  /\ c.num = 0    -> e
    [] kind = "Or"  /\ c.num # 0 /\ AllOnes(c) -> c
    [] kind = "Xor" /\ c.num = 0    -> e
    [] kind = "Eq" /\ c.width = Bool -> IF c.num = 1 THEN e ELSE BuildNot(Default, e)
    [] OTHER -> Build(Default, kind, c, e)

FoldBinary(kind, l, r) ==
  LET commutes == kind \in {"Add", "Mul", "And", "Or", "Xor", "Eq"} IN
  IF commutes /\ IsConstant(l) THEN FoldConstant(kind, l, r)
  ELSE IF commutes /\ IsConstant(r) THEN FoldConstant(kind, r, l)
  ELSE CASE kind = "Sub" /\ IsConstant(l) -> FoldConstantSub(l, r)
         [] kind = "Sub" /\ IsConstant(r) -> FoldConstantAdd(Neg(r), l)
         [] kind = "Sub" /\ ~IsConstant(l) /\ ~IsConstant(r) -> FoldSub(l, r)
         [] kind = "Add" -> FoldAdd(l, r)
         [] OTHER -> Build(Default, kind, l, r)

(***************************************************************************)
(* SimplifyingBuilder.                                                     *)
(***************************************************************************)
SimplifyBinary(kind, l, r) ==
  CASE kind = "Ne"  -> BuildNot(Simplifying, Build(Simplifying, "Eq", l, r))
    [] kind = "Ugt" -> Build(Simplifying, "Ult", r, l)
    [] kind = "Uge" -> Build(Simplifying, "Ule", r, l)
    [] kind = "Sgt" -> Build(Simplifying, "Slt", r, l)
    [] kind = "Sge" -> Build(Simplifying, "Sle", r, l)
    [] kind = "Eq" /\ l = r  -> True
    [] kind = "Eq" /\ IsConst(l, 1) /\ l.width = Bool -> r
    [] kind = "Eq" /\ IsConst(r, 1) /\ r.width = Bool -> l
    [] kind = "Eq" /\ IsConst(l, 0) /\ l.width = Bool -> BuildNot(Folding, r)
    [] kind = "Eq" /\ IsConst(r, 0) /\ r.width = Bool -> BuildNot(Folding, l)
    [] OTHER -> Build(Folding, kind, l, r)

Build(b, kind, l, r) ==
  IF b = Default THEN Alloc(kind, l, r)
  ELSE IF IsConstant(l) /\ IsConstant(r) THEN Folded(kind, l, r)
  ELSE IF b = Folding THEN FoldBinary(kind, l, r)
  ELSE SimplifyBinary(kind, l, r)

BuildNot(b, e) ==
  IF b = Default THEN Tree("Not", e.width, <<e>>)
  ELSE IF e.kind = "Not" THEN e.kids[1]
  ELSE IF IsConstant(e) THEN NotExpr_create(e)
  ELSE IF b = Simplifying /\ e.kind = "Or"
  THEN Build(b, "And", BuildNot(b, e.kids[1]), BuildNot(b, e.kids[2]))
  ELSE BuildNot(b - 1, e)

(***************************************************************************)
(* The other kinds: constants are folded, reads look behind the updates    *)
(* that are surely elsewhere.                                              *)
(***************************************************************************)
Elsewhere(b, index, un) == Build(b, "Eq", index, un.index) = False
RECURSIVE RollBack(_, _, _)
RollBack(b, updates, index) ==
  IF updates = <<>> \/ ~Elsewhere(b, index, Last(updates)) THEN updates
  ELSE RollBack(b, Front(updates), index)
BuildRead(b, array, updates, index) ==
  Read(array, IF b = Default THEN updates ELSE RollBack(b, updates, index), index)
BuildSelect(b, c, t, f) ==
  IF b # Default /\ IsConstant(c) THEN IF c.num = 1 THEN t ELSE f
  ELSE Tree("Select", t.width, <<c, t, f>>)
BuildConcat(b, l, r) ==
  IF b # Default /\ IsConstant(l) /\ IsConstant(r)
  THEN Constant(l.num * 2^r.width + r.num, l.width + r.width)
  ELSE Tree("Concat", l.width + r.width, <<l, r>>)
BuildExtract(b, e, off, w) ==
  IF b # Default /\ IsConstant(e) THEN FoldedExtract(e, off, w) ELSE Extract(e, off, w)
BuildCast(b, kind, e, w) ==
  IF b # Default /\ IsConstant(e)
  THEN IF kind = "SExt" THEN FoldedSExt(e, w) ELSE Constant(e.num, w)
  ELSE Tree(kind, w, <<e>>)

BuildFrom(b, e, kids) ==
  CASE e.kind = "Constant" -> e
    [] e.kind = "Read"     -> BuildRead(b, e.array, e.updates, kids[1])
    [] e.kind = "Select"   -> BuildSelect(b, kids[1], kids[2], kids[3])
    [] e.kind = "Concat"   -> BuildConcat(b, kids[1], kids[2])
    [] e.kind = "Extract"  -> BuildExtract(b, kids[1], e.num, e.width)
    [] e.kind = "Not"      -> BuildNot(b, kids[1])
    [] e.kind \in {"ZExt", "SExt"} -> BuildCast(b, e.kind, kids[1], e.width)
    [] OTHER               -> Build(b, e.kind, kids[1], kids[2])
=============================================================================
