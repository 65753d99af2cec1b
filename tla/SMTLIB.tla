------------------------------- MODULE SMTLIB -------------------------------
(***************************************************************************)
(* Queries as SMT-LIB scripts (lib/Expr/ExprSMTLIBPrinter.cpp, and         *)
(* ExprSMTLIBLetPrinter.cpp, which names what occurs twice).               *)
(*                                                                         *)
(* A printed text is represented by the term it denotes: an operator of    *)
(* SMT-LIB with its arguments and numerals.  Widths are not part of a      *)
(* term; SMT-LIB infers them, and a term may have none.                    *)
(***************************************************************************)
EXTENDS Expressions

Indexed(op, nums, args) == [op |-> op, nums |-> nums, args |-> args]
App(op, args)        == Indexed(op, <<>>, args)
Numeral(v, w)        == Indexed("bv", <<v, w>>, <<>>)
ArrayName(name)      == Indexed("array", <<name>>, <<>>)
\* A term of which a solver knows the sort and the value.
Handle(sort, value)  == Indexed("handle", <<sort, value>>, <<>>)
\* A name bound by let, with the term that is bound to it.
Binding(term)        == App("binding", <<term>>)

(***************************************************************************)
(* What SMT-LIB makes of a term: a sort and, for each assignment, a value. *)
(* The sort of a bit vector is its width.                                  *)
(***************************************************************************)
BoolSort  == 0
ArraySort == -1
NoSort    == -2
Connectives == {"and", "or", "xor"}
\* The operators on two bit vectors.
BitVector ==
  [bvadd |-> "Add", bvsub |-> "Sub", bvmul |-> "Mul", bvudiv |-> "UDiv", bvsdiv |-> "SDiv",
   bvurem |-> "URem", bvsrem |-> "SRem", bvand |-> "And", bvor |-> "Or", bvxor |-> "Xor",
   bvshl |-> "Shl", bvlshr |-> "LShr", bvashr |-> "AShr", bvult |-> "Ult", bvule |-> "Ule",
   bvugt |-> "Ugt", bvuge |-> "Uge", bvslt |-> "Slt", bvsle |-> "Sle", bvsgt |-> "Sgt",
   bvsge |-> "Sge"]
Logical == [and |-> "And", or |-> "Or", xor |-> "Xor"]

SortOf(t, s, declared) ==
  CASE t.op = "handle"      -> t.nums[1]
    [] t.op = "bv"          -> t.nums[2]
    [] t.op = "array"       -> IF t.nums[1] \in declared THEN ArraySort ELSE NoSort
    [] t.op = "binding"     -> s[1]
    [] t.op = "ite"         -> IF s[1] = BoolSort /\ s[2] = s[3] THEN s[2] ELSE NoSort
    [] t.op = "="           -> IF s[1] = s[2] /\ s[1] # NoSort THEN BoolSort ELSE NoSort
    [] t.op = "concat"      -> IF s[1] > 0 /\ s[2] > 0 THEN s[1] + s[2] ELSE NoSort
    [] t.op = "extract"     -> IF s[1] > t.nums[1] /\ t.nums[1] >= t.nums[2]
                               THEN t.nums[1] - t.nums[2] + 1 ELSE NoSort
    [] t.op = "select"      -> IF s = <<ArraySort, IntWidth>> THEN ByteWidth ELSE NoSort
    [] t.op \in DOMAIN BitVector ->
         IF s[1] # s[2] \/ s[1] <= 0 THEN NoSort
         ELSE IF BitVector[t.op] \in Comparisons THEN BoolSort ELSE s[1]
    [] t.op = "store"       -> IF s = <<ArraySort, IntWidth, ByteWidth>> THEN ArraySort ELSE NoSort
    [] t.op \in {"zero_extend", "sign_extend"} -> IF s[1] > 0 THEN s[1] + t.nums[1] ELSE NoSort
    [] t.op \in {"true", "false"} -> BoolSort
    [] t.op = "not"         -> IF s[1] = BoolSort THEN BoolSort ELSE NoSort
    [] t.op \in Connectives -> IF s = <<BoolSort, BoolSort>> THEN BoolSort ELSE NoSort
    [] t.op = "bvnot"       -> IF s[1] > 0 THEN s[1] ELSE NoSort

ResultOf(t, s, v, a) ==
  CASE t.op = "handle"      -> t.nums[2]
    [] t.op = "bv"          -> t.nums[1] % 2^t.nums[2]
    [] t.op = "array"       -> [i \in 0 .. 2^IntWidth - 1 |-> InitialByte(t.nums[1], i, a)]
    [] t.op = "binding"     -> v[1]
    [] t.op = "ite"         -> IF v[1] = 1 THEN v[2] ELSE v[3]
    [] t.op = "="           -> Bit(v[1] = v[2])
    [] t.op = "concat"      -> v[1] * 2^s[2] + v[2]
    [] t.op = "extract"     -> (v[1] \div 2^t.nums[2]) % 2^(t.nums[1] - t.nums[2] + 1)
    [] t.op = "select"      -> v[1][v[2]]
    [] t.op \in DOMAIN BitVector -> Apply(BitVector[t.op], s[1], v[1], v[2])
    [] t.op = "store"       -> [v[1] EXCEPT ![v[2]] = v[3]]
    [] t.op = "zero_extend" -> v[1]
    [] t.op = "sign_extend" -> Extend(v[1], s[1], s[1] + t.nums[1])
    [] t.op \in {"true", "false"} -> Bit(t.op = "true")
    [] t.op = "not"         -> 1 - v[1]
    [] t.op \in Connectives -> Apply(Logical[t.op], Bool, v[1], v[2])
    [] t.op = "bvnot"       -> 2^s[1] - 1 - v[1]

\* A term with its sort and these of its arguments.
RECURSIVE Sorting(_, _)
SortedNode(t, args, sorts, declared) ==
  [term |-> t, args |-> args, sorts |-> sorts, sort |-> SortOf(t, sorts, declared)]
Sorting(t, declared) ==
  LET args == [i \in DOMAIN t.args |-> Sorting(t.args[i], declared)]
  IN  SortedNode(t, args, [i \in DOMAIN args |-> args[i].sort], declared)
RECURSIVE Denotes(_, _)
Denotes(n, a) == ResultOf(n.term, n.sorts, [i \in DOMAIN n.args |-> Denotes(n.args[i], a)], a)

(***************************************************************************)
(* The scan for arrays and, with let, for what occurs twice.  The updates  *)
(* of a read are scanned only when its array is met for the first time.    *)
(***************************************************************************)
scanUpdates(e) ==
  FlattenSeq(Reverse([i \in DOMAIN e.updates |-> <<e.updates[i].index, e.updates[i].value>>]))
FirstArray(e, c) == e.kind = "Read" /\ e.array \notin c.usedArrays
Again(e, c)      == c.let /\ e \in c.firstEO
Met(e, c) ==
  IF IsConstant(e) THEN c
  ELSE IF Again(e, c) THEN [c EXCEPT !.twoOrMoreEO = @ \cup {e}]
  ELSE [c EXCEPT !.firstEO = @ \cup {e},
                 !.usedArrays = IF e.kind = "Read" THEN @ \cup {e.array} ELSE @]
Below(e, c) ==
  IF IsConstant(e) \/ Again(e, c) THEN <<>>
  ELSE IF FirstArray(e, c) THEN scanUpdates(e) \o e.kids ELSE e.kids
RECURSIVE scan(_, _)
scan(todo, c) ==
  IF todo = <<>> THEN c ELSE scan(Below(Head(todo), c) \o Tail(todo), Met(Head(todo), c))
scanQuery(constraints, q, let) ==
  scan(Append(constraints, q),
       [let |-> let, firstEO |-> {}, twoOrMoreEO |-> {}, usedArrays |-> {}])

(***************************************************************************)
(* Printing.  A boolean may be wanted where there is a bit vector and the  *)
(* other way round.                                                        *)
(***************************************************************************)
\* Mutant of getSort: an extracted bit is a boolean.
SortOfWidth(e) == IF e.width = Bool THEN "Bool" ELSE "BitVec"

getSort(e) == IF e.width = Bool /\ e.kind # "Extract" THEN "Bool" ELSE "BitVec"

printCastToSort(t, width, sort) ==
  IF sort = "BitVec" THEN App("ite", <<t, Numeral(1, 1), Numeral(0, 1)>>)
  ELSE App("bvugt", <<t, Numeral(0, width)>>)

printConstant(e) == IF e = True THEN App("true", <<>>)
                    ELSE IF e = False THEN App("false", <<>>)
                    ELSE Numeral(e.num, e.width)

getSMTLIBKeyword ==
  [Concat |-> "concat", Add |-> "bvadd", Sub |-> "bvsub", Mul |-> "bvmul", UDiv |-> "bvudiv",
   SDiv |-> "bvsdiv", URem |-> "bvurem", SRem |-> "bvsrem", Shl |-> "bvshl", LShr |-> "bvlshr",
   AShr |-> "bvashr", Eq |-> "=", Ult |-> "bvult", Ule |-> "bvule", Ugt |-> "bvugt",
   Uge |-> "bvuge", Slt |-> "bvslt", Sle |-> "bvsle", Sgt |-> "bvsgt", Sge |-> "bvsge"]
LogicalOrBitVector ==
  [And |-> [Bool |-> "and", BitVec |-> "bvand"], Or  |-> [Bool |-> "or",  BitVec |-> "bvor"],
   Xor |-> [Bool |-> "xor", BitVec |-> "bvxor"], Not |-> [Bool |-> "not", BitVec |-> "bvnot"]]

\* The sort that is wanted of a kid.
KidSort(e, i) ==
  CASE e.kind = "Select" -> IF i = 1 THEN "Bool" ELSE getSort(e)
    [] e.kind \in {"Eq", "Ne"} -> getSort(e.kids[1])
    [] e.kind \in DOMAIN LogicalOrBitVector -> getSort(e)
    [] OTHER             -> "BitVec"

printExtractExpr(e, kids) == Indexed("extract", <<e.num + e.width - 1, e.num>>, kids)
printCastExpr(e, kids) ==
  Indexed(IF e.kind = "ZExt" THEN "zero_extend" ELSE "sign_extend",
       <<e.width - e.kids[1].width>>, kids)
printLogicalOrBitVectorExpr(e, kids) == App(LogicalOrBitVector[e.kind][getSort(e)], kids)
printReadExpr(stored, kids) == App("select", <<stored, kids[1]>>)

\* An expression of the sort it has.
InSMTLIB(e, kids, stored) ==
  CASE e.kind = "Constant" -> printConstant(e)
    [] e.kind = "Read"     -> printReadExpr(stored, kids)
    [] e.kind = "Extract"  -> printExtractExpr(e, kids)
    [] e.kind \in {"ZExt", "SExt"} -> printCastExpr(e, kids)
    [] e.kind = "Ne"       -> App("not", <<App("=", kids)>>)
    [] e.kind = "Select"   -> App("ite", kids)
    [] e.kind \in DOMAIN LogicalOrBitVector -> printLogicalOrBitVectorExpr(e, kids)
    [] OTHER               -> App(getSMTLIBKeyword[e.kind], kids)

\* An expression of the sort that is wanted; named is what has a name.
RECURSIVE printExpression(_, _, _)
printUpdatesAndArray(e, named) ==
  LET Store(array, update) ==
        App("store", <<array>> \o [i \in 1 .. 2 |->
              printExpression(<<update.index, update.value>>[i], "BitVec", named)])
  IN  FoldLeft(Store, ArrayName(e.array), e.updates)
printDirectly(e, named) ==
  InSMTLIB(e, [i \in DOMAIN e.kids |-> printExpression(e.kids[i], KidSort(e, i), named)],
        printUpdatesAndArray(e, named))
printExpression(e, sort, named) ==
  LET direct == printDirectly(e, IF e \in named THEN {} ELSE named)
      t      == IF e \in named THEN Binding(direct) ELSE direct
  IN  IF getSort(e) = sort THEN t ELSE printCastToSort(t, e.width, sort)

(***************************************************************************)
(* The script: arrays that are declared, and one assertion.                *)
(***************************************************************************)
negateQueryExpression(q) == createIsZero(q)

\* The constraints and the negated query, nested from the left.
RECURSIVE Conjunction(_, _)
Conjunction(es, named) ==
  LET first == printExpression(Head(es), "Bool", named)
  IN  IF Len(es) = 1 THEN first ELSE App("and", <<first, Conjunction(Tail(es), named)>>)

generateOutput(constraints, q, let) ==
  LET scanned == scanQuery(constraints, q, let)
  IN  [declared |-> scanned.usedArrays,
       assert   |-> Conjunction(Append(constraints, negateQueryExpression(q)),
                                scanned.twoOrMoreEO)]

\* The script is one, and its models are these of the inputs.
HasModels(script, models, inputs) ==
  LET assert == Sorting(script.assert, script.declared)
  IN  assert.sort = BoolSort /\ \A a \in inputs : Denotes(assert, a) = Bit(a \in models)
=============================================================================
