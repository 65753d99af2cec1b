--------------------------- MODULE MetaSMTBuilder ---------------------------
(***************************************************************************)
(* How expressions become terms of metaSMT's solvers                       *)
(* (lib/Solver/MetaSMTBuilder.h).                                          *)
(*                                                                         *)
(* The frontend of metaSMT has SMT-LIB's operators and, unlike STP's, its  *)
(* distinction of booleans and bit vectors.  A handle is represented by    *)
(* what it denotes under an assignment: a sort and a value.  (The code     *)
(* evaluates every term into a handle and keeps those of the expressions   *)
(* it has met.)                                                            *)
(***************************************************************************)
EXTENDS SMTLIB, ConstantDivision

evaluate(t) ==
  LET n == Sorting(t, {})
  IN  Handle(n.sort, IF n.sort = NoSort THEN 0 ELSE Denotes(n, <<>>))
Ite(c, t, f)  == App("ite", <<c, t, f>>)
bvConcat(h, l)  == App("concat", <<h, l>>)
Handles(width)   == {Handle(width, v) : v \in 0 .. 2^width - 1}
HasSort(x, sort) == x.nums[1] = sort

bvConst64(width, v)   == Numeral(v, width)
bvZExtConst(width, v) == bvConst64(width, v)
bvSExtConst(width, v) == bvConst64(width, v)
bvOne(width)          == bvZExtConst(width, 1)
bvZero(width)         == bvZExtConst(width, 0)
bvMinusOne(width)     == bvSExtConst(width, -1)
bvExtract(x, top, bottom) == Indexed("extract", <<top, bottom>>, <<x>>)
eqExpr(l, r)              == App("=", <<l, r>>)
bvBoolExtract(x, bit)     == eqExpr(bvExtract(x, bit, bit), bvOne(1))

(***************************************************************************)
(* Shifts, by the low shiftBits bits of an amount.                         *)
(***************************************************************************)
bvLeftShift(x, width, amount, shiftBits) ==
  LET shift == amount % 2^shiftBits IN
  IF shift = 0 THEN x
  ELSE IF shift >= width THEN bvZero(width)
  ELSE bvConcat(bvExtract(x, width - shift - 1, 0), bvZero(shift))
bvRightShift(x, width, amount, shiftBits) ==
  LET shift == amount % 2^shiftBits IN
  IF shift = 0 THEN x
  ELSE IF shift >= width THEN bvZero(width)
  ELSE bvConcat(bvZero(shift), bvExtract(x, width - 1, shift))
constructAShrByConstant(x, width, amount, isSigned, shiftBits) ==
  LET shift == amount % 2^shiftBits IN
  IF shift = 0 THEN x
  ELSE IF shift >= width - 1 THEN Ite(isSigned, bvMinusOne(width), bvZero(width))
  ELSE Ite(isSigned, bvConcat(bvMinusOne(shift), bvExtract(x, width - 1, shift)),
           bvRightShift(x, width, shift, shiftBits))

\* By a variable amount: an ite for each of the first cases amounts, the last one outermost.
VarShift(Shifted(_), amount, cases, shiftBits, default) ==
  LET shift == bvExtract(amount, shiftBits - 1, 0)
      Case(i, res) == Ite(eqExpr(shift, bvConst64(shiftBits, i)), Shifted(i), res)
  IN  FoldRight(Case, [i \in 1 .. cases |-> i - 1], default)
bvVarLeftShift(x, amount, width) ==
  LET shiftBits  == getShiftBits[width]
      Shifted(i) == bvLeftShift(x, width, i, shiftBits)
  IN  VarShift(Shifted, amount, width, shiftBits, bvZero(width))
bvVarRightShift(x, amount, width) ==
  LET shiftBits  == getShiftBits[width]
      Shifted(i) == bvRightShift(x, width, i, shiftBits)
  IN  VarShift(Shifted, amount, width, shiftBits, bvZero(width))
bvVarArithRightShift(x, amount, width) ==
  LET shiftBits  == getShiftBits[width]
      signedBool == bvBoolExtract(x, width - 1)
      Shifted(i) == constructAShrByConstant(x, width, i, signedBool, shiftBits)
  IN  VarShift(Shifted, amount, width - 1, shiftBits, Shifted(width - 1))

\* By kind and width: what the ites come to.
VariableShift ==
  [kind \in Shifts, width \in 2 .. IntWidth |->
     [x, amount \in Handles(width) |->
        evaluate(CASE kind = "Shl"  -> bvVarLeftShift(x, amount, width)
                   [] kind = "LShr" -> bvVarRightShift(x, amount, width)
                   [] kind = "AShr" -> bvVarArithRightShift(x, amount, width))]]

(***************************************************************************)
(* Multiplication and division by constants.                               *)
(***************************************************************************)
constructMulByConstant(x, width, factor) ==
  LET factors    == ComputeMultConstants64[factor]
      used       == {j \in 0 .. width - 1 : HasBit(factors.add, j) \/ HasBit(factors.sub, j)}
      Term(res, j) == App(IF HasBit(factors.add, j) THEN "bvadd" ELSE "bvsub",
                             <<res, bvLeftShift(x, width, j, getShiftBits[width])>>)
  IN  FoldLeft(Term, bvZero(width), Reverse(SetToSortSeq(used, <)))

\* By width: what the terms come to.
ConstantMultiple ==
  [width \in 2 .. IntWidth |->
     [x \in Handles(width), factor \in 0 .. 2^width - 1 |->
        evaluate(constructMulByConstant(x, width, factor))]]

Divisors == 1 .. 2^IntWidth - 1
constructUDivByConstant[n \in Handles(IntWidth), d \in Divisors] ==
  LET c          == ComputeUDivConstants32[d]
      product    == constructMulByConstant(bvConcat(bvZero(IntWidth), n), Long, c.mprime)
      t1         == evaluate(bvExtract(product, Long - 1, IntWidth))
      n_minus_t1 == App("bvsub", <<n, t1>>)
      shift_sh1  == bvVarRightShift(n_minus_t1, bvConst64(IntWidth, c.sh1), IntWidth)
      plus_t1    == evaluate(App("bvadd", <<shift_sh1, t1>>))
  IN  evaluate(bvVarRightShift(plus_t1, bvConst64(IntWidth, c.sh2), IntWidth))

\* A number sign extended to twice its width.
Wide(x) == Indexed("sign_extend", <<IntWidth>>, <<x>>)
constructSDivByConstant[n \in Handles(IntWidth), d \in Divisors] ==
  LET c            == ComputeSDivConstants32[d]
      dsign        == bvConst64(IntWidth, c.dsign)
      product      == constructMulByConstant(Wide(n), Long, Extend(c.mprime, IntWidth, Long))
      mulsh        == bvExtract(product, Long - 1, IntWidth)
      n_plus_mulsh == evaluate(App("bvadd", <<n, mulsh>>))
      shift_npm    == bvVarRightShift(Wide(n_plus_mulsh), bvConst64(IntWidth, c.shpost), Long)
      shift_shpost == bvExtract(shift_npm, IntWidth - 1, 0)
      xsign_of_n   == Ite(bvBoolExtract(n, IntWidth - 1), bvMinusOne(IntWidth), bvZero(IntWidth))
      q0           == App("bvsub", <<shift_shpost, xsign_of_n>>)
  IN  evaluate(App("bvsub", <<App("bvxor", <<q0, dsign>>), dsign>>))

DivisionTerm(kind, x, d, width) ==
  LET fast == optimizeDivides /\ width = IntWidth
      bits == indexOfSingleBit(d) IN
  CASE kind = "UDiv" /\ isPowerOfTwo(d) -> bvRightShift(x, width, bits, getShiftBits[width])
    [] kind = "UDiv" /\ ~isPowerOfTwo(d) /\ fast -> constructUDivByConstant[x, d]
    [] kind = "SDiv" /\ fast -> constructSDivByConstant[x, d]
    [] kind = "URem" /\ fast ->
         App("bvsub", <<x, ConstantMultiple[width][constructUDivByConstant[x, d], d]>>)
    [] kind = "URem" /\ isPowerOfTwo(d) /\ ~fast ->
         IF bits = 0 THEN bvZero(width)
         ELSE bvConcat(bvZero(width - bits), bvExtract(x, bits - 1, 0))
    [] OTHER -> App([UDiv |-> "bvudiv", SDiv |-> "bvsdiv", URem |-> "bvurem"][kind],
                       <<x, bvConst64(width, d)>>)

ShiftTerm(e, x, amount) ==
  LET w        == e.width
      constant == IsConstant(e.kids[2])
      by       == e.kids[2].num
      bits     == getShiftBits[w] IN
  CASE e.kind = "Shl" /\ constant   -> bvLeftShift(x, w, by, bits)
    [] e.kind = "LShr" /\ constant  -> bvRightShift(x, w, by, bits)
    [] e.kind = "AShr" /\ constant  ->
         constructAShrByConstant(x, w, by, bvBoolExtract(x, w - 1), bits)
    [] ~constant -> VariableShift[e.kind, w][x, amount]

(***************************************************************************)
(* The other expressions.  The sort of a kid is what width_out says.       *)
(***************************************************************************)
ConstantTerm(c) ==
  IF c.width = Bool THEN App(IF c = True THEN "true" ELSE "false", <<>>)
  ELSE bvConst64(c.width, c.num)
ExtractTerm(e, child) ==
  IF e.width = Bool THEN bvBoolExtract(child, e.num)
  ELSE bvExtract(child, e.num + e.width - 1, e.num)
ZExtTerm(e, child) ==
  IF HasSort(child, BoolSort) THEN Ite(child, bvOne(e.width), bvZero(e.width))
  ELSE Indexed("zero_extend", <<e.width - child.nums[1]>>, <<child>>)
SExtTerm(e, child) ==
  IF HasSort(child, BoolSort) THEN Ite(child, bvMinusOne(e.width), bvZero(e.width))
  ELSE Indexed("sign_extend", <<e.width - child.nums[1]>>, <<child>>)
EqTerm(e, l, r) ==
  IF HasSort(l, BoolSort) /\ IsConstant(e.kids[1])
  THEN IF e.kids[1].num = 1 THEN r ELSE App("not", <<r>>)
  ELSE eqExpr(l, r)
ConnectiveTerm(e, kids) ==
  App(LogicalOrBitVector[e.kind][IF HasSort(kids[1], BoolSort) THEN "Bool" ELSE "BitVec"], kids)

\* A new array has the bytes that the assignment gives it.
buildArray(root, a) ==
  Handle(ArraySort, [i \in 0 .. 2^IntWidth - 1 |-> InitialByte(root, i, a)])
StoreConstant(root, array, i) ==
  App("store", <<array, bvConst64(IntWidth, i - 1), bvConst64(ByteWidth, ConstantArrays[root][i])>>)
getInitialArray(root, a) ==
  IF root \in DOMAIN ConstantArrays
  THEN FoldLeft(LAMBDA array, i : StoreConstant(root, array, i), buildArray(root, a),
                [i \in DOMAIN ConstantArrays[root] |-> i])
  ELSE buildArray(root, a)

RECURSIVE construct(_, _)
StoreUpdate(array, update, a) ==
  App("store", <<array>> \o [i \in 1 .. 2 |-> construct(<<update.index, update.value>>[i], a)])
getArrayForUpdate(root, updates, a) ==
  FoldLeft(LAMBDA array, update : StoreUpdate(array, update, a), getInitialArray(root, a), updates)
constructActual(e, kids, a) ==
  CASE e.kind = "Constant" -> ConstantTerm(e)
    [] e.kind = "Read"     ->
         App("select", <<getArrayForUpdate(e.array, e.updates, a), kids[1]>>)
    [] e.kind = "Select"   -> Ite(kids[1], kids[2], kids[3])
    [] e.kind = "Concat"   -> bvConcat(kids[1], kids[2])
    [] e.kind = "Extract"  -> ExtractTerm(e, kids[1])
    [] e.kind = "ZExt"     -> ZExtTerm(e, kids[1])
    [] e.kind = "SExt"     -> SExtTerm(e, kids[1])
    [] e.kind = "Eq"       -> EqTerm(e, kids[1], kids[2])
    [] e.kind \in {"And", "Or", "Xor", "Not"} -> ConnectiveTerm(e, kids)
    [] e.kind = "Mul" /\ IsConstant(e.kids[1]) ->
         ConstantMultiple[e.width][kids[2], e.kids[1].num]
    [] e.kind \in {"UDiv", "SDiv", "URem"} /\ IsConstant(e.kids[2]) ->
         DivisionTerm(e.kind, kids[1], e.kids[2].num, e.width)
    [] e.kind \in Shifts -> ShiftTerm(e, kids[1], kids[2])
    [] OTHER -> App(getSMTLIBKeyword[e.kind], kids)
construct(e, a) ==
  evaluate(constructActual(e, [i \in DOMAIN e.kids |-> construct(e.kids[i], a)], a))
=============================================================================
