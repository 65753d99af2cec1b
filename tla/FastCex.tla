------------------------------ MODULE FastCex ------------------------------
(***************************************************************************)
(* The fast counterexample solver (lib/Solver/FastCexSolver.cpp,           *)
(* klee/util/ExprRangeEvaluator.h, lib/Expr/ExprEvaluator.cpp).            *)
(*                                                                         *)
(* It keeps for every byte of every array a range of values it may guess   *)
(* from, the possible ones, and a range no solution is outside of, the     *)
(* exact ones; both are narrowed by pushing the truth of the constraints   *)
(* down the expressions.  failed records that an assertion of the code did *)
(* not hold on the way.                                                    *)
(***************************************************************************)
EXTENDS Expressions

CONSTANT SymbolicArrays   \* the arrays that are not constant

(***************************************************************************)
(* Ranges of unsigned values (ValueRange).                                 *)
(***************************************************************************)
ValueRange(lo, hi) == [min |-> lo % 2^Long, max |-> hi % 2^Long]
Point(v)           == ValueRange(v, v)
EmptyRange         == ValueRange(1, 0)
AnyOf(bits)        == ValueRange(0, 2^bits - 1)
isEmpty(r)         == r.min > r.max
isFixed(r)         == r.min = r.max
Least(x, y)        == IF x < y THEN x ELSE y
Greatest(x, y)     == IF x > y THEN x ELSE y

set_intersection(r, s) == ValueRange(Greatest(r.min, s.min), Least(r.max, s.max))
set_union(r, s)        == ValueRange(Least(r.min, s.min), Greatest(r.max, s.max))
set_difference(r, s) ==
  CASE isEmpty(s) \/ s.min > r.max \/ s.max < r.min -> r
    [] s.min <= r.min /\ s.max >= r.max             -> EmptyRange
    [] s.min <= r.min /\ s.max < r.max              -> ValueRange(s.max + 1, r.max)
    [] OTHER                                        -> ValueRange(r.min, s.min - 1)
mayEqual(r, s)  == ~isEmpty(set_intersection(r, s))
mustEqual(r, s) == isFixed(r) /\ isFixed(s) /\ r.min = s.min

\* The bounds of x | y and x & y for x in a .. b and y in c .. d: one of the four
\* numbers gives way at the highest bit where that is within its range; first and
\* second are the bits where the number of x or of y may.
Raise(x, j) == (x \div 2^(j + 1)) * 2^(j + 1) + 2^j
Lower(x, j) == (x \div 2^(j + 1)) * 2^(j + 1) + 2^j - 1
Bits        == 0 .. Long - 1
Highest(Op(_, _), Move(_, _), x, y, first, second) ==
  IF first \cup second = {} THEN Op(x, y)
  ELSE LET j == Max(first \cup second)
       IN  IF j \in first THEN Op(Move(x, j), y) ELSE Op(x, Move(y, j))
minOR(a, b, c, d) ==
  Highest(|, Raise, a, c,
          {j \in Bits : ~HasBit(a, j) /\ HasBit(c, j) /\ Raise(a, j) <= b},
          {j \in Bits : HasBit(a, j) /\ ~HasBit(c, j) /\ Raise(c, j) <= d})
maxOR(a, b, c, d) ==
  Highest(|, Lower, b, d,
          {j \in Bits : HasBit(b, j) /\ HasBit(d, j) /\ Lower(b, j) >= a},
          {j \in Bits : HasBit(b, j) /\ HasBit(d, j) /\ Lower(d, j) >= c})
minAND(a, b, c, d) ==
  Highest(&, Raise, a, c,
          {j \in Bits : ~HasBit(a, j) /\ ~HasBit(c, j) /\ Raise(a, j) <= b},
          {j \in Bits : ~HasBit(a, j) /\ ~HasBit(c, j) /\ Raise(c, j) <= d})
maxAND(a, b, c, d) ==
  Highest(&, Lower, b, d,
          {j \in Bits : HasBit(b, j) /\ ~HasBit(d, j) /\ Lower(b, j) >= a},
          {j \in Bits : ~HasBit(b, j) /\ HasBit(d, j) /\ Lower(d, j) >= c})

binaryAnd(r, s) ==
  IF isFixed(r) /\ isFixed(s) THEN Point(r.min & s.min)
  ELSE ValueRange(minAND(r.min, r.max, s.min, s.max), maxAND(r.min, r.max, s.min, s.max))
binaryOr(r, s) ==
  IF isFixed(r) /\ isFixed(s) THEN Point(r.min | s.min)
  ELSE ValueRange(minOR(r.min, r.max, s.min, s.max), maxOR(r.min, r.max, s.min, s.max))
binaryXor(r, s) ==
  IF isFixed(r) /\ isFixed(s) THEN Point(r.min ^^ s.min)
  ELSE AnyOf(1 + Max({j \in Bits : HasBit(r.max | s.max, j)}))
concat(r, s, bits) == binaryOr(ValueRange(r.min * 2^bits, r.max * 2^bits), s)
extract(r, low, high) ==
  binaryAnd(ValueRange(r.min \div 2^low, r.max \div 2^low), Point(2^(high - low) - 1))

minSigned(r, bits) == IF r.max >= 2^(bits - 1) THEN -(2^(bits - 1)) ELSE r.min
maxSigned(r, bits) == IF r.min < 2^(bits - 1) /\ r.max >= 2^(bits - 1) THEN 2^(bits - 1) - 1
                      ELSE SignedOf(r.max, bits)

(***************************************************************************)
(* The range of an expression (ExprRangeEvaluator): updates are looked     *)
(* through from the newest, up to one that is surely at the index.  The    *)
(* union starts from the empty range 1 .. 0, whose bounds stay in it.      *)
(***************************************************************************)
getInitialReadRange(array, index) ==
  IF array \in DOMAIN ConstantArrays /\ isFixed(index) /\ index.min < Len(ConstantArrays[array])
  THEN Point(ConstantArrays[array][index.min + 1]) ELSE AnyOf(ByteWidth)

Comparison(surely, surelyNot) ==
  IF surely THEN Point(1) ELSE IF surelyNot THEN Point(0) ELSE AnyOf(Bool)

RECURSIVE evalRead(_, _, _), evaluateRange(_)
Newest(un, at, index, array, older) ==
  CASE mustEqual(at, index)                       -> evaluateRange(un.value)
    [] ~mustEqual(at, index) /\ mayEqual(at, index) ->
         set_union(evaluateRange(un.value), evalRead(array, older, index))
    [] OTHER                                      -> evalRead(array, older, index)
evalRead(array, updates, index) ==
  IF updates = <<>> THEN getInitialReadRange(array, index)
  ELSE Newest(Last(updates), evaluateRange(Last(updates).index), index, array, Front(updates))

Evaluated(e, kids, bits) ==
  CASE e.kind = "Constant" -> Point(e.num)
    [] e.kind = "Read"     -> set_union(EmptyRange, evalRead(e.array, e.updates, kids[1]))
    [] e.kind = "Select"   ->
         IF mustEqual(kids[1], Point(1)) THEN kids[2]
         ELSE IF mustEqual(kids[1], Point(0)) THEN kids[3] ELSE set_union(kids[2], kids[3])
    [] e.kind = "Concat"   -> concat(concat(Point(0), kids[1], ByteWidth), kids[2], ByteWidth)
    [] e.kind = "And"      -> binaryAnd(kids[1], kids[2])
    [] e.kind = "Or"       -> binaryOr(kids[1], kids[2])
    [] e.kind = "Xor"      -> binaryXor(kids[1], kids[2])
    [] e.kind = "Eq"       -> Comparison(mustEqual(kids[1], kids[2]), ~mayEqual(kids[1], kids[2]))
    [] e.kind = "Ult"      -> Comparison(kids[1].max < kids[2].min, kids[1].min >= kids[2].max)
    [] e.kind = "Ule"      -> Comparison(kids[1].max <= kids[2].min, kids[1].min > kids[2].max)
    [] e.kind = "Slt"      ->
         Comparison(maxSigned(kids[1], bits) < minSigned(kids[2], bits),
                    minSigned(kids[1], bits) >= maxSigned(kids[2], bits))
    [] e.kind = "Sle"      ->
         Comparison(maxSigned(kids[1], bits) <= minSigned(kids[2], bits),
                    minSigned(kids[1], bits) > maxSigned(kids[2], bits))
    [] OTHER               -> AnyOf(e.width)
evaluateRange(e) ==
  Evaluated(e, [i \in DOMAIN e.kids |-> evaluateRange(e.kids[i])],
            IF e.kids = <<>> THEN e.width ELSE e.kids[1].width)

(***************************************************************************)
(* CexData: the ranges of the bytes, and what pushing a range for an       *)
(* expression down to the bytes makes of them.                             *)
(***************************************************************************)
CexData ==
  LET anything == [array \in SymbolicArrays |-> [i \in 0 .. ArrayBytes - 1 |-> AnyOf(ByteWidth)]]
  IN  [possible |-> anything, exact |-> anything, failed |-> FALSE]
Asserts(cex, condition) == [cex EXCEPT !.failed = @ \/ ~condition]

setPossible(cex, array, i, range) ==
  LET both == set_intersection(cex.possible[array][i], range) IN
  IF isFixed(range) THEN [cex EXCEPT !.possible[array][i] = Point(range.min % 2^ByteWidth)]
  ELSE IF isEmpty(both) THEN cex ELSE [cex EXCEPT !.possible[array][i] = both]

\* Both bounds move by the constant, each modulo 2^W.
Shifted(range, cl) ==
  ValueRange((range.min - cl.num) % 2^cl.width, (range.max - cl.num) % 2^cl.width)
\* 1 << (inBits - 1) is an int.
SignGap(inBits, outBits) ==
  ValueRange(SignedOf(2^(inBits - 1), IntWidth), 2^outBits - 1 - 2^(inBits - 1))

\* Which range a comparison with a fixed side leaves for the other side.
UltRange(l, r, truth, top) ==
  IF isFixed(l) THEN IF truth THEN ValueRange(l.min + 1, top) ELSE ValueRange(0, l.min)
  ELSE IF truth THEN ValueRange(0, r.min - 1) ELSE ValueRange(r.min, top)
UleRange(l, r, truth, top) ==
  IF isFixed(l) THEN IF truth THEN ValueRange(l.min, top) ELSE ValueRange(0, l.min - 1)
  ELSE IF truth THEN ValueRange(0, r.min) ELSE ValueRange(r.min + 1, top)

\* left and right are the ranges of the kids; an operand that surely has its value is left alone.
RECURSIVE propogatePossibleValues(_, _, _)
Push(cex, e, range, left, right) ==
  LET Down(c, i, r) == propogatePossibleValues(c, e.kids[i], r)
      DownUnless(c, i, v, sure) == IF sure THEN c ELSE Down(c, i, Point(v))
      fixed   == isFixed(range)
      truth   == range.min # 0
      top     == 2^(e.kids[2].width) - 1
      inBits  == e.kids[1].width
      cl      == e.kids[1]
      Compared(r) == IF isFixed(left) THEN Down(cex, 2, r)
                     ELSE IF isFixed(right) THEN Down(cex, 1, r) ELSE cex
  IN
  CASE e.kind = "Read" /\ IsConstant(e.kids[1]) /\ e.array \in SymbolicArrays
                       /\ e.kids[1].num < ArrayBytes ->
         setPossible(cex, e.array, e.kids[1].num, range)
    [] e.kind = "Select" ->
         IF isFixed(left) THEN Down(cex, IF left.min # 0 THEN 2 ELSE 3, range)
         ELSE Down(Down(cex, 2, range), 3, range)
    [] e.kind = "Concat" ->
         LET lsb == e.kids[2].width
             may == ~isEmpty(ValueRange(range.min \div 2^lsb, range.max \div 2^lsb))
                    /\ ~isEmpty(range)
         IN  IF cex.failed \/ ~may THEN Asserts(cex, may)
             ELSE Down(Down(cex, 1, extract(range, lsb, lsb + lsb)), 2, extract(range, 0, lsb))
    [] e.kind = "ZExt" -> Down(cex, 1, set_intersection(range, AnyOf(inBits)))
    [] e.kind = "SExt" ->
         LET output == set_difference(range, SignGap(inBits, e.width))
         IN  IF cex.failed \/ isEmpty(output) THEN Asserts(cex, ~isEmpty(output))
             ELSE Down(cex, 1, binaryAnd(output, Point(2^inBits - 1)))
    [] e.kind = "Add" /\ IsConstant(cl) /\ ~isEmpty(range) /\ ~isEmpty(Shifted(range, cl)) ->
         Down(cex, 2, Shifted(range, cl))
    [] e.kind = "And" /\ e.width = Bool /\ fixed ->
         IF truth
         THEN DownUnless(DownUnless(cex, 1, 1, left = Point(1)), 2, 1, right = Point(1))
         ELSE IF left = Point(0) \/ right = Point(0) THEN cex
         ELSE DownUnless(Down(cex, 1, Point(0)), 2, 0, left = Point(1))
    [] e.kind = "Or" /\ e.width = Bool /\ fixed ->
         IF ~truth
         THEN DownUnless(DownUnless(cex, 1, 0, left = Point(0)), 2, 0, right = Point(0))
         ELSE IF left = Point(1) \/ right = Point(1) THEN cex
         ELSE DownUnless(Down(cex, 1, Point(1)), 2, 1, left = Point(1))
    [] e.kind = "Eq" /\ fixed /\ IsConstant(cl) ->
         IF truth THEN Down(cex, 2, Point(cl.num))
         ELSE IF cl.num = 0 THEN Down(cex, 2, ValueRange(1, 2^cl.width - 1))
         ELSE Down(cex, 2, ValueRange(0, cl.num - 1))
    [] e.kind = "Not" /\ e.width = Bool /\ fixed -> Down(cex, 1, Point(Bit(~truth)))
    [] e.kind = "Ult" /\ fixed -> Compared(UltRange(left, right, truth, top))
    [] e.kind = "Ule" /\ fixed -> Compared(UleRange(left, right, truth, top))
    [] OTHER -> cex
propogatePossibleValues(cex, e, range) ==
  Push(cex, e, range,
       IF Len(e.kids) > 0 THEN evaluateRange(e.kids[1]) ELSE EmptyRange,
       IF Len(e.kids) > 1 THEN evaluateRange(e.kids[2]) ELSE EmptyRange)

\* An exact range narrows only a byte of the initial array.
setExact(cex, array, i, range) ==
  LET cvd    == cex.exact[array][i]
      both   == set_intersection(cvd, range)
  IN  [Asserts(cex, ~isEmpty(range) /\ range.min <= cvd.max /\ range.max >= cvd.min)
         EXCEPT !.exact[array][i] = both]

RECURSIVE propogateExactValues(_, _, _)
\* The range of a read belongs to the newest update that may be at the index, if it surely is.
PushRead(cex, e, range, index, at) ==
  LET may == {j \in DOMAIN at : mayEqual(at[j], index)} IN
  IF may # {}
  THEN LET j == Max(may)
       IN  IF mustEqual(at[j], index) \/ e.kids[1] = e.updates[j].index
           THEN propogateExactValues(cex, e.updates[j].value, range) ELSE cex
  ELSE IF isFixed(index) /\ e.array \in SymbolicArrays
  THEN setExact(cex, e.array, index.min, range) ELSE cex
propogateExactValues(cex, e, range) ==
  LET cl == e.kids[1] IN
  CASE e.kind = "Read" ->
         PushRead(cex, e, range, evaluateRange(e.kids[1]),
                  [j \in DOMAIN e.updates |-> evaluateRange(e.updates[j].index)])
    [] e.kind = "Eq" /\ isFixed(range) /\ IsConstant(cl) /\ range.min # 0 ->
         propogateExactValues(cex, e.kids[2], Point(cl.num))
    [] e.kind = "Eq" /\ isFixed(range) /\ IsConstant(cl) /\ range.min = 0 /\ cl.width = Bool ->
         propogateExactValues(cex, e.kids[2], Point(1 - cl.num))
    [] e.kind = "Not" /\ e.width = Bool /\ isFixed(range) ->
         propogateExactValues(cex, e.kids[1], Point(Bit(range.min = 0)))
    [] OTHER -> cex

(***************************************************************************)
(* Evaluation under the bytes that are known (ExprEvaluator): known maps   *)
(* the symbolic arrays and their indices to bytes, or to -1.               *)
(***************************************************************************)
PossibleByte(range) == range.min + (range.max - range.min) \div 2
\* Mutant of ExactByte: a byte of which only the range is known.
LeastByte(range)    == range.min
ExactByte(range)    == IF isFixed(range) THEN range.min ELSE -1
Known(contents, Byte(_)) ==
  [array \in SymbolicArrays |-> [i \in 0 .. ArrayBytes - 1 |-> Byte(contents[array][i])]]

getInitialValue(array, index, known) ==
  LET unknown == Read(array, <<>>, Constant(index, IntWidth)) IN
  IF array \in DOMAIN ConstantArrays
  THEN IF index < Len(ConstantArrays[array])
       THEN Constant(ConstantArrays[array][index + 1], ByteWidth) ELSE unknown
  ELSE IF index >= ArrayBytes \/ known[array][index] = -1 THEN unknown
  ELSE Constant(known[array][index], ByteWidth)

RECURSIVE visit(_, _), evaluateRead(_, _, _, _)
Behind(array, updates, index, known, ui) ==
  IF ~IsConstant(ui) THEN ReadExpr_create(array, updates, Constant(index, IntWidth))
  ELSE IF ui.num = index THEN visit(Last(updates).value, known)
  ELSE evaluateRead(array, Front(updates), index, known)
evaluateRead(array, updates, index, known) ==
  IF updates = <<>> THEN getInitialValue(array, index, known)
  ELSE Behind(array, updates, index, known, visit(Last(updates).index, known))
\* A division by what turns out to be zero keeps its divisor.
WithoutZero(e, kids) ==
  IF e.kind \in {"UDiv", "SDiv", "URem", "SRem"} /\ IsConst(kids[2], 0)
  THEN [kids EXCEPT ![2] = e.kids[2]] ELSE kids
Visited(e, kids, known) ==
  IF e.kind = "Read" /\ IsConstant(kids[1])
  THEN evaluateRead(e.array, e.updates, kids[1].num, known)
  ELSE IF kids = e.kids THEN e ELSE rebuild(e, kids)
visit(e, known) ==
  IF IsConstant(e) THEN e
  ELSE Visited(e, WithoutZero(e, [i \in DOMAIN e.kids |-> visit(e.kids[i], known)]), known)

Guess(cex)  == Known(cex.possible, PossibleByte)
Surely(cex) == Known(cex.exact, ExactByte)

(***************************************************************************)
(* The solver.  A query asks whether the constraints imply expr.           *)
(***************************************************************************)
Propogate(cex, e, v) ==
  propogateExactValues(propogatePossibleValues(cex, e, Point(v)), e, Point(v))
PropogateAll(constraints, expr, checkExpr) ==
  LET One(cex, fact) == Propogate(cex, fact.e, fact.v)
      Given == [i \in DOMAIN constraints |-> [e |-> constraints[i], v |-> 1]]
      Asked == IF checkExpr THEN <<[e |-> expr, v |-> 0]>> ELSE <<>>
  IN  FoldLeft(One, CexData, Given \o Asked)

\* "valid", "invalid", "unknown", or "assert" when an assertion failed; worth is what
\* evaluatePossible and evaluateExact make of the constraints and the query.
Verdict(worth, constraints, checkExpr, expr) ==
  IF \/ checkExpr /\ worth["exact"][expr] = True
     \/ \E i \in DOMAIN constraints : worth["exact"][constraints[i]] = False
  THEN "valid"
  ELSE IF /\ checkExpr => worth["possible"][expr] = False
          /\ \A i \in DOMAIN constraints : worth["possible"][constraints[i]] = True
  THEN "invalid" ELSE "unknown"
Worth(cex, es) ==
  [how \in {"exact", "possible"} |->
     [e \in es |-> visit(e, IF how = "exact" THEN Surely(cex) ELSE Guess(cex))]]
propogateValues(cex, constraints, expr, checkExpr) ==
  IF cex.failed THEN "assert"
  ELSE Verdict(Worth(cex, ToSet(constraints) \cup {expr}), constraints, checkExpr, expr)

NoAnswer == -1
TruthOf(answer) ==
  CASE answer = "valid"   -> "MustBeTrue"
    [] answer = "invalid" -> "MayBeFalse"
    [] OTHER              -> "None"
computeTruth(constraints, expr) ==
  TruthOf(propogateValues(PropogateAll(constraints, expr, TRUE), constraints, expr, TRUE))
Evaluates(value) == IF IsConstant(value) THEN value.num ELSE NoAnswer
ValueFrom(cex, constraints, expr) ==
  IF propogateValues(cex, constraints, expr, FALSE) # "invalid" THEN NoAnswer
  ELSE Evaluates(visit(expr, Guess(cex)))
computeValue(constraints, expr) ==
  ValueFrom(PropogateAll(constraints, expr, FALSE), constraints, expr)
\* The bytes of the counterexample that goes with MayBeFalse.
computeInitialValues(constraints, expr) ==
  Guess(PropogateAll(constraints, expr, TRUE))
=============================================================================
