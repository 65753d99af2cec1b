---------------------------- MODULE SolverTerms ----------------------------
(***************************************************************************)
(* How expressions become terms of the solver (lib/Solver/STPBuilder.cpp). *)
(*                                                                         *)
(* A handle of the solver is represented by the value it has under an      *)
(* assignment: vc_bvPlusExpr adds, vc_iteExpr chooses, and so on; widths   *)
(* are arguments.  What the builder constructs by itself, out of shifts,   *)
(* adds and extracts, is multiplication and division by constants and      *)
(* every shift.                                                            *)
(***************************************************************************)
EXTENDS ConstantDivision

(***************************************************************************)
(* Shifts.  Only the low shiftBits bits of an amount count.                *)
(***************************************************************************)
bvLeftShift(v, width, amount, shiftBits)  == ShiftLeft(v, amount % 2^shiftBits, width)
bvRightShift(v, width, amount, shiftBits) == ShiftRight(v, amount % 2^shiftBits, width)
constructAShrByConstant(v, width, amount, shiftBits) ==
  LET shift == amount % 2^shiftBits IN
  IF shift = 0 THEN v
  ELSE IF shift >= width - 1 THEN IF HasBit(v, width - 1) THEN 2^width - 1 ELSE 0
  ELSE IF HasBit(v, width - 1)
       THEN (2^shift - 1) * 2^(width - shift) + v \div 2^shift
       ELSE v \div 2^shift

\* By a variable amount: one case per amount below the width, and a default.
VarShift(Shift(_, _, _, _), v, amount, width, default) ==
  LET shiftBits == getShiftBits[width]
      shift     == amount % 2^shiftBits
  IN  IF shift < width THEN Shift(v, width, shift, shiftBits) ELSE default
bvVarLeftShift(v, amount, width)  == VarShift(bvLeftShift, v, amount, width, 0)
bvVarRightShift(v, amount, width) == VarShift(bvRightShift, v, amount, width, 0)
bvVarArithRightShift(v, amount, width) ==
  VarShift(constructAShrByConstant, v, amount, width,
           constructAShrByConstant(v, width, width - 1, getShiftBits[width]))

(***************************************************************************)
(* Multiplication and division by constants.                               *)
(***************************************************************************)
constructMulByConstant(v, width, x) ==
  LET factors == ComputeMultConstants64[x]
      Term(j) == LET op == bvLeftShift(v, width, j, getShiftBits[width])
                 IN  IF HasBit(factors.add, j) THEN op
                     ELSE IF HasBit(factors.sub, j) THEN -op ELSE 0
  IN  MapThenSumSet(Term, 0 .. width - 1) % 2^width

constructUDivByConstant(n, d) ==
  LET c         == ComputeUDivConstants32[d]
      t1        == constructMulByConstant(n, Long, c.mprime) \div 2^IntWidth
      shift_sh1 == bvVarRightShift((n - t1) % 2^IntWidth, c.sh1, IntWidth)
  IN  bvVarRightShift((shift_sh1 + t1) % 2^IntWidth, c.sh2, IntWidth)

constructSDivByConstant(n, d) ==
  LET c          == ComputeSDivConstants32[d]
      Wide(v)    == Extend(v, IntWidth, Long)
      mulsh      == constructMulByConstant(Wide(n), Long, Wide(c.mprime)) \div 2^IntWidth
      npm        == (n + mulsh) % 2^IntWidth
      shifted    == bvVarRightShift(Wide(npm), c.shpost, Long) % 2^IntWidth
      xsign_of_n == IF HasBit(n, IntWidth - 1) THEN 2^IntWidth - 1 ELSE 0
      q0         == (shifted - xsign_of_n) % 2^IntWidth
  IN  ((q0 ^^ c.dsign) - c.dsign) % 2^IntWidth

(***************************************************************************)
(* The value of the term that is built for an expression.                  *)
(***************************************************************************)
ConstantFactor(e)  == e.kind = "Mul" /\ IsConstant(e.kids[1])
ConstantDivisor(e) == e.kind \in {"UDiv", "SDiv", "URem"} /\ IsConstant(e.kids[2])

DivisionTerm(kind, v, d, width) ==
  LET fast == optimizeDivides /\ width = IntWidth IN
  CASE kind = "UDiv" /\ isPowerOfTwo(d) ->
         bvRightShift(v, width, indexOfSingleBit(d), getShiftBits[width])
    [] kind = "URem" /\ isPowerOfTwo(d) -> v % d
    [] kind = "UDiv" /\ ~isPowerOfTwo(d) /\ fast -> constructUDivByConstant(v, d)
    [] kind = "URem" /\ ~isPowerOfTwo(d) /\ fast ->
         (v - constructMulByConstant(constructUDivByConstant(v, d), width, d)) % 2^width
    [] kind = "SDiv" /\ fast -> constructSDivByConstant(v, d)
    [] OTHER -> Apply(kind, width, v, d)

ShiftTerm(kind, v, amount, width, constant) ==
  LET bits == getShiftBits[width] IN
  CASE kind = "Shl" /\ constant   -> bvLeftShift(v, width, amount, bits)
    [] kind = "LShr" /\ constant  -> bvRightShift(v, width, amount, bits)
    [] kind = "AShr" /\ constant  -> constructAShrByConstant(v, width, amount, bits)
    [] kind = "Shl" /\ ~constant  -> bvVarLeftShift(v, amount, width)
    [] kind = "LShr" /\ ~constant -> bvVarRightShift(v, amount, width)
    [] kind = "AShr" /\ ~constant -> bvVarArithRightShift(v, amount, width)

RECURSIVE construct(_, _)
ReadTerm(e, at, hits, a) ==
  IF hits = {} THEN InitialByte(e.array, at, a) ELSE construct(e.updates[Max(hits)].value, a)
TermAt(e, at, a) ==
  ReadTerm(e, at, {j \in DOMAIN e.updates : construct(e.updates[j].index, a) = at}, a)
\* kids are the terms of the kids.
constructActual(e, kids, source, a) ==
  CASE e.kind = "Constant" -> e.num
    [] e.kind = "Read"     -> TermAt(e, kids[1], a)
    [] e.kind = "Select"   -> IF kids[1] = 1 THEN kids[2] ELSE kids[3]
    [] e.kind = "Concat"   -> kids[1] * 2^(e.kids[2].width) + kids[2]
    [] e.kind = "Extract"  -> (kids[1] \div 2^e.num) % 2^e.width
    [] e.kind = "ZExt"     -> kids[1]
    [] e.kind = "SExt"     -> IF source = Bool THEN kids[1] * (2^e.width - 1)
                              ELSE Extend(kids[1], source, e.width)
    [] e.kind = "Not"      -> 2^e.width - 1 - kids[1]
    [] ConstantFactor(e)   -> constructMulByConstant(kids[2], e.width, e.kids[1].num)
    [] ConstantDivisor(e)  -> DivisionTerm(e.kind, kids[1], e.kids[2].num, e.width)
    [] e.kind \in Shifts  -> ShiftTerm(e.kind, kids[1], kids[2], e.width, IsConstant(e.kids[2]))
    [] e.kind = "Eq" /\ source = Bool /\ IsConstant(e.kids[1]) ->
         IF e.kids[1].num = 1 THEN kids[2] ELSE 1 - kids[2]
    [] OTHER -> Apply(e.kind, source, kids[1], kids[2])
construct(e, a) ==
  constructActual(e, [i \in DOMAIN e.kids |-> construct(e.kids[i], a)],
                  IF e.kids = <<>> THEN e.width ELSE e.kids[1].width, a)

\* What the builder asserts: no operation on booleans but the connectives and equality.
Canonical == {"And", "Or", "Xor", "Eq"}
RECURSIVE CanBeBuilt(_)
CanBeBuilt(e) ==
  /\ e.kind \notin {"Ne", "Ugt", "Uge", "Sgt", "Sge"}
  /\ ~IsConstant(e) /\ e.kids[1].width = Bool =>
       e.kind \in Canonical \cup {"Not", "Select", "ZExt", "SExt", "Concat", "Read"}
  /\ \A i \in DOMAIN e.kids : CanBeBuilt(e.kids[i])
=============================================================================
