------------------------------- MODULE KQuery -------------------------------
(***************************************************************************)
(* The query language: what ExprPPrinter.cpp writes to .pc files and the   *)
(* query logs, and what kleaver's Parser.cpp makes of it.                  *)
(*                                                                         *)
(* A text is a sequence of tokens.  A number has no width of its own       *)
(* unless one is written, (w8 5); an expression or an update list that     *)
(* occurs twice is defined at its first occurrence, N0:(...) or U0:[...],  *)
(* and named after that.                                                   *)
(***************************************************************************)
EXTENDS Builders

CONSTANT PCAllConstWidths \* --pc-all-const-widths: constants are printed with their widths
ASSUME PrinterAssumption == PCAllConstWidths \in BOOLEAN

(***************************************************************************)
(* The scan before the printing: what is met twice will get a label.       *)
(* A node of an update list is the list up to it.                          *)
(***************************************************************************)
Node(array, updates) == [array |-> array, updates |-> updates]
NothingScanned ==
  [could |-> {}, should |-> {}, couldUpdates |-> {}, shouldUpdates |-> {}, usedArrays |-> {}]

RECURSIVE scan1(_, _)
RECURSIVE scanAll(_, _)
RECURSIVE scanUpdate(_, _, _)
scanAll(es, c) == IF es = <<>> THEN c ELSE scanAll(Tail(es), scan1(Head(es), c))
scanUpdate(array, updates, c) ==
  IF updates = <<>> THEN c
  ELSE IF Node(array, updates) \in c.couldUpdates
  THEN [c EXCEPT !.shouldUpdates = @ \cup {Node(array, updates)}]
  ELSE scanAll(<<Last(updates).index, Last(updates).value>>,
               scanUpdate(array, Front(updates),
                          [c EXCEPT !.couldUpdates = @ \cup {Node(array, updates)}]))
scan1(e, c) ==
  IF IsConstant(e) THEN c
  ELSE IF e \in c.could THEN [c EXCEPT !.should = @ \cup {e}]
  ELSE IF e.kind = "Read"
  THEN scanUpdate(e.array, e.updates,
                  scanAll(e.kids, [c EXCEPT !.could = @ \cup {e}, !.usedArrays = @ \cup {e.array}]))
  ELSE scanAll(e.kids, [c EXCEPT !.could = @ \cup {e}])

(***************************************************************************)
(* Reads of consecutive bytes are written as one.                          *)
(***************************************************************************)
RECURSIVE Leaves(_)
Leaves(e) == IF e.kind = "Concat" THEN <<e.kids[1]>> \o Leaves(e.kids[2]) ELSE <<e>>

\* Mutant of isReadExprAtOffset: the bytes may be in any order.
isReadAnywhere(e, base, offset) == e.kind = "Read"

\* Only the indices are compared, not what is read.
isReadExprAtOffset(e, base, offset) ==
  e.kind = "Read" /\ Create("Sub", e.kids[1], base.kids[1]) = Constant(offset, IntWidth)
hasOrderedReads(leaves, stride) ==
  /\ leaves[1].kind = "Read"
  /\ \A i \in 2 .. Len(leaves) : isReadExprAtOffset(leaves[i], leaves[1], stride * (i - 1))

(***************************************************************************)
(* Printing: todo holds the words, expressions and update lists that are   *)
(* still to be printed, s the labels given so far and the words printed.   *)
(***************************************************************************)
Token(w)            == [item |-> "Token", word |-> w, num |-> 0]
Number(v)          == [item |-> "Token", word |-> "number", num |-> v]
Width(w)           == [item |-> "Token", word |-> "width", num |-> w]
Whole(e)           == [item |-> "Expr", e |-> e, printConstWidth |-> FALSE]
WithConstWidth(e)  == [item |-> "Expr", e |-> e, printConstWidth |-> TRUE]
Updates(array, un) == [item |-> "Updates", node |-> Node(array, un)]
Rest(array, un)    == [item |-> "Rest", node |-> Node(array, un)]
Label(prefix, i)   == Token(prefix \o ToString(i - 1))

printConst(c, printWidth) ==
  IF c.width = Bool THEN <<Token(IF c.num = 1 THEN "true" ELSE "false")>>
  ELSE IF printWidth \/ PCAllConstWidths THEN <<Token("("), Width(c.width), Number(c.num), Token(")")>>
  ELSE <<Number(c.num)>>

printWidth(w) == IF w = Bool THEN <<>> ELSE <<Width(w)>>
printRead(kind, w, re) ==
  <<Token("("), Token(kind), Width(w), Whole(re.kids[1]), Updates(re.array, re.updates), Token(")")>>
\* Only the operands after the first may be constants of a width nobody could infer.
printKids(e) ==
  <<Whole(e.kids[1])>> \o
  [i \in 1 .. Len(e.kids) - 1 |->
     IF e.kind \in {"Concat", "SExt"} THEN WithConstWidth(e.kids[i + 1]) ELSE Whole(e.kids[i + 1])]
printForm(e, leaves) ==
  IF e.kind = "Concat" /\ hasOrderedReads(leaves, -1) THEN printRead("ReadLSB", e.width, Last(leaves))
  ELSE IF e.kind = "Concat" /\ hasOrderedReads(leaves, 1) THEN printRead("ReadMSB", e.width, leaves[1])
  ELSE IF e.kind = "Read" THEN printRead("Read", e.width, e)
  ELSE IF e.kind = "Extract"
  THEN <<Token("("), Token("Extract")>> \o printWidth(e.width)
         \o <<Number(e.num), Whole(e.kids[1]), Token(")")>>
  ELSE <<Token("("), Token(e.kind)>> \o printWidth(e.width) \o printKids(e) \o <<Token(")")>>

printUpdate(un) == <<Whole(un.index), Token("="), Whole(un.value)>>
Bound(node, s)  == \E i \in DOMAIN s.nodes : s.nodes[i] = node
IndexOf(x, seq) == CHOOSE i \in DOMAIN seq : seq[i] = x

RECURSIVE print(_, _)
Opened(node, todo, s) ==
  print(printUpdate(Last(node.updates)) \o <<Rest(node.array, Front(node.updates))>> \o todo, s)
printUpdateList(node, todo, s) ==
  IF node.updates = <<>> THEN print(<<Token(node.array)>> \o todo, s)
  ELSE IF Bound(node, s) THEN print(<<Label("U", IndexOf(node, s.nodes))>> \o todo, s)
  ELSE IF node \in s.scanned.shouldUpdates
  THEN Opened(node, todo,
              [s EXCEPT !.nodes = Append(@, node),
                        !.out = @ \o <<Label("U", Len(s.nodes) + 1), Token(":"), Token("[")>>])
  ELSE Opened(node, todo, [s EXCEPT !.out = Append(@, Token("["))])
\* The list goes on up to a node that has or gets a label.
printRest(node, todo, s) ==
  IF node.updates = <<>> \/ Bound(node, s) \/ node \in s.scanned.shouldUpdates
  THEN print(<<Token("]"), Token("@"), Updates(node.array, node.updates)>> \o todo, s)
  ELSE Opened(node, todo, [s EXCEPT !.out = Append(@, Token(","))])
printExpr(e, printConstWidth, todo, s) ==
  IF IsConstant(e) THEN print(printConst(e, printConstWidth) \o todo, s)
  ELSE IF e \in ToSet(s.exprs) THEN print(<<Label("N", IndexOf(e, s.exprs))>> \o todo, s)
  ELSE IF e \in s.scanned.should
  THEN print(<<Label("N", Len(s.exprs) + 1), Token(":")>> \o printForm(e, Leaves(e)) \o todo,
             [s EXCEPT !.exprs = Append(@, e)])
  ELSE print(printForm(e, Leaves(e)) \o todo, s)
printItem(x, todo, s) ==
  CASE x.item = "Token"    -> print(todo, [s EXCEPT !.out = Append(@, x)])
    [] x.item = "Expr"    -> printExpr(x.e, x.printConstWidth, todo, s)
    [] x.item = "Updates" -> printUpdateList(x.node, todo, s)
    [] x.item = "Rest"    -> printRest(x.node, todo, s)
print(todo, s) == IF todo = <<>> THEN s ELSE printItem(Head(todo), Tail(todo), s)

\* A query is a boolean, or false and an expression to evaluate.
printScanned(c, constraints, q, values) ==
  print(<<Token("(query"), Token("[")>> \o [i \in DOMAIN constraints |-> Whole(constraints[i])]
          \o <<Token("]"), Whole(q), Token("[")>>
          \o [i \in DOMAIN values |-> WithConstWidth(values[i])] \o <<Token("]"), Token(")")>>,
        [scanned |-> c, exprs |-> <<>>, nodes |-> <<>>, out |-> <<>>])
printQuery(constraints, q, values) ==
  printScanned(scanAll(constraints \o <<q>> \o values, NothingScanned), constraints, q, values)

(***************************************************************************)
(* Parsing.  p holds the words and where the parser is, the two symbol     *)
(* tables, the builder, and whether there was an error; what follows an    *)
(* error is left out, as no query with one is evaluated.                   *)
(***************************************************************************)
Parser(words, arrays, builder) ==
  [words |-> words, at |-> 1, builder |-> builder, ok |-> TRUE,
   exprs |-> <<>>, versions |-> [array \in arrays |-> Node(array, <<>>)]]
Tok(p)          == p.words[p.at].word
Num(p)          == p.words[p.at].num
Consume(p, n)   == [p EXCEPT !.at = @ + n]
ExprResult(x, p)    == [x |-> x, p |-> p]
Error(p)        == ExprResult(False, [p EXCEPT !.ok = FALSE])

\* A definition starts with its label.
None          == ""
HasLabel(p)   == Tok(Consume(p, 1)) = ":"
LabelOf(p)    == IF HasLabel(p) THEN Tok(p) ELSE None
AfterLabel(p) == IF HasLabel(p) THEN Consume(p, 2) ELSE p

\* The width expected of an expression: a number needs one, unless its context can tell later.
Unknown == 0
Later   == -1
Unsized(v)      == [Tree("Constant", Later, <<>>) EXCEPT !.num = v]
Sized(e, width) == IF e.width = Later /\ width # Later THEN Constant(e.num, width) ELSE e

RECURSIVE ParseExpr(_, _)
RECURSIVE ParseKids(_, _, _)
WithKid(types, kids, r) == ParseKids(types, Append(kids, r.x), r.p)
ParseKids(types, kids, p) ==
  IF ~p.ok \/ types = <<>> THEN ExprResult(kids, p)
  ELSE WithKid(Tail(types), kids, ParseExpr(Head(types), p))
\* Up to the closing parenthesis or bracket.
RECURSIVE ParseList(_, _, _)
ListWith(types, kids, r) == ParseList(types, Append(kids, r.x), r.p)
ParseList(type, kids, p) ==
  IF ~p.ok \/ Tok(p) \in {")", "]"} THEN ExprResult(kids, p)
  ELSE ListWith(type, kids, ParseExpr(type, p))

(***************************************************************************)
(* Update lists: version = label | [label:] [ index=value, ... ] @ version *)
(***************************************************************************)
RECURSIVE ParseVersionSpecifier(_)
RECURSIVE ParseWrites(_, _)
WithValue(writes, index, r) ==
  IF ~r.p.ok THEN ExprResult(writes, r.p)
  ELSE ParseWrites(<<[index |-> Sized(index, IntWidth), value |-> Sized(r.x, ByteWidth)]>> \o writes,
                   r.p)
ParseWrite(writes, r) ==
  IF ~r.p.ok THEN ExprResult(writes, r.p)
  ELSE IF Tok(r.p) # "=" THEN Error(r.p)
  ELSE WithValue(writes, r.x, ParseExpr(Later, Consume(r.p, 1)))
\* The writes come out oldest first.
ParseWrites(writes, p) ==
  IF Tok(p) = "]" THEN ExprResult(writes, Consume(p, 1))
  ELSE ParseWrite(writes, ParseExpr(Later, Consume(p, 1)))
Extended(writes, base) ==
  IF ~base.p.ok THEN base
  ELSE IF \E i \in DOMAIN writes : writes[i].index.width # IntWidth \/ writes[i].value.width # ByteWidth
  THEN Error(base.p)
  ELSE ExprResult([base.x EXCEPT !.updates = @ \o writes], base.p)
ParseBase(r) ==
  IF ~r.p.ok \/ Tok(r.p) # "@" THEN Error(r.p)
  ELSE Extended(r.x, ParseVersionSpecifier(Consume(r.p, 1)))
DefineVersion(label, r) ==
  IF label = None THEN r
  ELSE IF ~r.p.ok \/ label \in DOMAIN r.p.versions THEN Error(r.p)
  ELSE [r EXCEPT !.p.versions = (label :> r.x) @@ @]
ParseVersionSpecifier(p) ==
  IF Tok(p) = "[" \/ HasLabel(p)
  THEN DefineVersion(LabelOf(p), ParseBase(ParseWrites(<<>>, AfterLabel(p))))
  ELSE IF Tok(p) \in DOMAIN p.versions THEN ExprResult(p.versions[Tok(p)], Consume(p, 1))
  ELSE Error(p)

(***************************************************************************)
(* Expressions.                                                            *)
(***************************************************************************)
Fixed   == {"Add", "Sub", "Mul", "And", "Or", "Xor", "Shl", "LShr", "AShr",
            "UDiv", "SDiv", "URem", "SRem"}
Matched == Fixed \cup Comparisons

RECURSIVE ConcatExpr_createN(_)
ConcatExpr_createN(kids) ==
  IF Len(kids) = 1 THEN kids[1]
  ELSE ConcatExpr_create(Head(kids), ConcatExpr_createN(Tail(kids)))

\* The bytes of a multibyte read.
ReadAt(b, node, index, i) ==
  BuildRead(b, node.array, node.updates,
            IF i = 1 THEN index ELSE Create("Add", index, Constant(i - 1, IntWidth)))
BytesFrom(b, node, index, n) == [i \in 1 .. n |-> ReadAt(b, node, index, i)]
BuildAnyRead(b, kind, type, node, index) ==
  CASE kind = "Read"    -> BuildRead(b, node.array, node.updates, index)
    [] kind = "ReadMSB" -> ConcatExpr_createN(BytesFrom(b, node, index, type \div ByteWidth))
    [] kind = "ReadLSB" -> ConcatExpr_createN(Reverse(BytesFrom(b, node, index, type \div ByteWidth)))

\* A pair of arguments: a number has the width of the other one.
Match(l, r) == <<Sized(l, r.width), Sized(r, l.width)>>

SumOfWidths(kids) == FoldSeq(LAMBDA e, n : e.width + n, 0, kids)
CloseWith(e, p) == IF Tok(p) = ")" THEN ExprResult(e, Consume(p, 1)) ELSE Error(p)
FinishKids(kind, type, kids, p) ==
  CASE kind \in Matched ->
         IF kids[1].width # kids[2].width \/ Later \in {kids[1].width, kids[2].width} THEN Error(p)
         ELSE CloseWith(Build(p.builder, kind, kids[1], kids[2]), p)
    [] kind = "Select" -> IF kids[2].width # type \/ kids[3].width # type THEN Error(p)
                          ELSE CloseWith(BuildSelect(p.builder, kids[1], kids[2], kids[3]), p)
    [] kind = "Not"    -> CloseWith(BuildNot(p.builder, kids[1]), p)
    [] kind \in {"ZExt", "SExt"} -> CloseWith(BuildCast(p.builder, kind, kids[1], type), p)
    [] kind = "Concat" -> IF SumOfWidths(kids) # type THEN Error(p)
                          ELSE CloseWith(ConcatExpr_createN(kids), p)
Finish(kind, type, r) ==
  IF ~r.p.ok THEN Error(r.p)
  ELSE FinishKids(kind, type, IF kind \in Comparisons THEN Match(r.x[1], r.x[2]) ELSE r.x, r.p)

FinishRead(kind, type, index, r) ==
  IF ~r.p.ok \/ index.width # IntWidth \/ (kind # "Read" /\ type % ByteWidth # 0) THEN Error(r.p)
  ELSE CloseWith(BuildAnyRead(r.p.builder, kind, type, r.x, index), r.p)
ParseAnyRead(kind, type, r) ==
  IF ~r.p.ok THEN r ELSE FinishRead(kind, type, Sized(r.x, IntWidth), ParseVersionSpecifier(r.p))
FinishExtract(offset, type, r) ==
  IF ~r.p.ok \/ offset + type > r.x.width THEN Error(r.p)
  ELSE CloseWith(BuildExtract(r.p.builder, r.x, offset, type), r.p)

Types(kind, type) ==
  CASE kind = "Select" -> <<Bool, type, type>>
    [] kind = "Not"    -> <<type>>
    [] kind \in {"ZExt", "SExt"} -> <<Unknown>>
    [] kind \in Fixed  -> <<type, type>>
    [] kind \in Comparisons -> <<Later, Later>>
ParseForm(kind, type, p) ==
  CASE kind \in {"Read", "ReadLSB", "ReadMSB"} -> ParseAnyRead(kind, type, ParseExpr(Later, p))
    [] kind = "Extract" -> FinishExtract(Num(p), type, ParseExpr(Unknown, Consume(p, 1)))
    [] OTHER ->
         Finish(kind, type, IF kind = "Concat" THEN ParseList(Unknown, <<>>, p)
                            ELSE ParseKids(Types(kind, type), <<>>, p))

\* (w8 5), or (kind [width] ...)
HasType(p) == Tok(Consume(p, 1)) = "width"
ParseParenExpr(p) ==
  IF Tok(p) = "width" THEN CloseWith(Constant(Num(Consume(p, 1)), Num(p)), Consume(p, 2))
  ELSE ParseForm(Tok(p), IF HasType(p) THEN Num(Consume(p, 1)) ELSE Bool,
                 Consume(p, IF HasType(p) THEN 2 ELSE 1))

Typed(type, r) ==
  IF ~r.p.ok \/ (type \notin {Unknown, Later} /\ r.x.width # type) THEN Error(r.p) ELSE r
DefineExpr(label, r) ==
  IF label = None THEN r
  ELSE IF ~r.p.ok \/ label \in DOMAIN r.p.exprs THEN Error(r.p)
  ELSE [r EXCEPT !.p.exprs = (label :> r.x) @@ @]
ParseExpr(type, p) ==
  CASE Tok(p) \in {"true", "false"} ->
         ExprResult(IF Tok(p) = "true" THEN True ELSE False, Consume(p, 1))
    [] Tok(p) = "number" ->
         IF type = Unknown THEN Error(p)
         ELSE ExprResult(IF type = Later THEN Unsized(Num(p)) ELSE Constant(Num(p), type), Consume(p, 1))
    [] OTHER ->
         IF Tok(p) = "(" \/ HasLabel(p)
         THEN DefineExpr(LabelOf(p), Typed(type, ParseParenExpr(Consume(AfterLabel(p), 1))))
         ELSE IF Tok(p) \in DOMAIN p.exprs THEN ExprResult(p.exprs[Tok(p)], Consume(p, 1))
         ELSE Error(p)

\* A query command: the constraints, the query, and the expressions to evaluate.
QueryCommand(constraints, q, values) == [constraints |-> constraints, q |-> q, values |-> values]
ParseValues(constraints, r, values) ==
  ExprResult(QueryCommand(constraints, r.x, values.x), values.p)
ParseQuery(constraints, r) ==
  IF ~r.p.ok THEN Error(r.p)
  ELSE ParseValues(constraints, r, ParseList(Unknown, <<>>, Consume(r.p, 1)))
ParseQueryCommand(r) ==
  IF ~r.p.ok THEN Error(r.p) ELSE ParseQuery(r.x, ParseExpr(Bool, Consume(r.p, 1)))
parse(printed, builder) ==
  ParseQueryCommand(ParseList(Bool, <<>>,
    Consume(Parser(printed.out, printed.scanned.usedArrays, builder), 2)))
=============================================================================
