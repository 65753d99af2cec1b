--------------------------- MODULE PathCondition ---------------------------
(***************************************************************************)
(* One path of the program being executed symbolically: the register it    *)
(* computes and the constraints it collects (the instructions of           *)
(* Executor::executeInstruction, Executor::addConstraint), with what they  *)
(* stand for.                                                              *)
(*                                                                         *)
(* term is the expression that was built and meaning what the instructions *)
(* compute, under every assignment of the input bytes that takes this      *)
(* path.                                                                   *)
(***************************************************************************)
EXTENDS FastCex, Constraints, KQuery, MetaSMTBuilder

STP == INSTANCE SolverTerms

(***************************************************************************)
(* A program is a record of                                                *)
(*   operands  expressions an instruction may have as its other operand,   *)
(*   kinds     its binary operations,                                      *)
(*   updates   the update lists a symbolic load may see, oldest first,     *)
(*   widths    widths of its integer types,                                *)
(*   depth     a bound on the depth of a term,                             *)
(*   branches  a bound on the branches of the path,                        *)
(*   builder   the builder of the kleaver that reads its queries,          *)
(*   let       whether scripts name what occurs twice.                     *)
(***************************************************************************)
CONSTANT Programs

VARIABLES program, term, meaning, constraints, path
vars == <<program, term, meaning, constraints, path>>

Inputs  == Assignments(SymbolicArrays)
MaxOf(S) == Max(S \cup {0})
RECURSIVE Depth(_)
Depth(e) == 1 + MaxOf({Depth(e.kids[i]) : i \in DOMAIN e.kids})

\* The register is set to an expression that should be worth what the instruction says.
Bind(e, Result(_)) ==
  /\ Depth(e) <= program.depth
  /\ term' = e
  /\ meaning' = [a \in path |-> Result(a)]
  /\ UNCHANGED <<program, constraints, path>>

Init ==
  /\ program \in Programs
  /\ term \in program.operands
  /\ path = Inputs
  /\ meaning = [a \in path |-> Value(term, a)]
  /\ constraints = <<>>

Divisions == {"UDiv", "SDiv", "URem", "SRem"}
\* Checked for zero before; LLVM leaves shifts by the width or more undefined.
Defined(kind, width, Right(_)) ==
  /\ kind \in Divisions => \A a \in path : Right(a) # 0
  /\ kind \in Shifts => \A a \in path : Right(a) < width

Operate(kind, left, right, Left(_), Right(_)) ==
  LET Result(a) == Apply(kind, left.width, Left(a), Right(a)) IN
  /\ left.width = right.width
  /\ Defined(kind, left.width, Right)
  /\ Bind(Create(kind, left, right), Result)

\* The register is the left operand or the right one.
Binary(kind) ==
  \E e \in program.operands :
    LET Term(a)    == meaning[a]
        Operand(a) == Value(e, a)
    IN  \/ Operate(kind, term, e, Term, Operand)
        \/ Operate(kind, e, term, Operand, Term)
Arithmetic == \E kind \in program.kinds \ Comparisons : Binary(kind)
ICmp       == \E kind \in program.kinds \cap Comparisons : Binary(kind)

Select ==
  \E t, f \in program.operands :
    LET Result(a) == IF meaning[a] = 1 THEN Value(t, a) ELSE Value(f, a) IN
    /\ term.width = Bool /\ t.width = f.width
    /\ Bind(SelectExpr_create(term, t, f), Result)

Trunc ==
  \E w \in program.widths :
    LET Result(a) == meaning[a] % 2^w IN
    /\ w < term.width
    /\ Bind(ExtractExpr_create(term, 0, w), Result)

\* IntToPtr and PtrToInt extend with zeroes, too.
ZExt ==
  \E w \in program.widths :
    LET Result(a) == meaning[a] IN
    /\ w > term.width
    /\ Bind(CastExpr_create("ZExt", term, w), Result)
SExt ==
  \E w \in program.widths :
    LET Result(a) == Extend(meaning[a], term.width, w) IN
    /\ w > term.width
    /\ Bind(CastExpr_create("SExt", term, w), Result)

\* A pointer, an index times the size of an element, and a constant offset.
GetElementPtr ==
  \E base \in program.operands, size \in {1, ByteWidth}, offset \in {0, 1} :
    LET index     == CastExpr_create("SExt", term, IntWidth)
        element   == Create("Add", base, Create("Mul", index, Constant(size, IntWidth)))
        Result(a) ==
          (Value(base, a) + Extend(meaning[a], term.width, IntWidth) * size + offset) % 2^IntWidth
    IN  /\ base.width = IntWidth
        /\ Bind(IF offset = 0 THEN element ELSE Create("Add", element, Constant(offset, IntWidth)),
                Result)

\* A byte at a symbolic offset within the object.
Load ==
  \E array \in SymbolicArrays, updates \in program.updates :
    LET Result(a) == Value(Read(array, updates, Constant(meaning[a], IntWidth)), a) IN
    /\ term.width = IntWidth
    /\ \A a \in path : meaning[a] < ArrayBytes
    /\ Bind(ReadExpr_create(array, updates, term), Result)

\* The path goes on where the condition is true, or where it is false.
Branch ==
  \E taken \in BOOLEAN, next \in program.operands :
    LET condition == IF taken THEN term ELSE createIsZero(term)
        there     == {a \in path : meaning[a] = Bit(taken)}
    IN  /\ term.width = Bool
        /\ there # {}
        /\ Len(constraints) < program.branches
        /\ path' = there
        /\ constraints' = IF condition = True THEN constraints
                          ELSE addConstraint(constraints, condition)
        /\ term' = next
        /\ meaning' = [a \in there |-> Value(next, a)]
        /\ UNCHANGED program

Next == Arithmetic \/ ICmp \/ Select \/ Trunc \/ ZExt \/ SExt \/ GetElementPtr \/ Load \/ Branch
Spec == Init /\ [][Next]_vars

(***************************************************************************)
(* Properties.                                                             *)
(***************************************************************************)
Holds(es, a) == \A i \in DOMAIN es : Value(es[i], a) = 1

\* An expression built by the create functions (Expr.cpp), folded and rearranged, is worth
\* what the instructions compute, whatever the input of the path.
BuiltMeans == \A a \in path : Value(term, a) = meaning[a]

\* So is the solver's term for it: no operation or comparison on booleans is left that
\* constructActual asserts there is not, and its multiplications, divisions and shifts
\* (STPBuilder.cpp) give what the operation gives.
SortOfTerm == IF term.width = Bool THEN BoolSort ELSE term.width
TermMeans ==
  /\ \A i \in DOMAIN constraints : STP!CanBeBuilt(constraints[i])
  /\ STP!CanBeBuilt(term)
  /\ \A a \in path : STP!construct(term, a) = meaning[a]
  /\ \A a \in path : construct(term, a) = Handle(SortOfTerm, meaning[a])

\* The constraints are true of the inputs that take the path and of no other, although
\* they are split, simplified by one another and rewritten as they are added (Constraints.cpp).
PathMeans == path = {a \in Inputs : Holds(constraints, a)}

\* An expression simplified by the constraints (ConstraintManager::simplifyExpr) is worth the
\* same on the path, and still has the form the solvers count on.
Means(e) == STP!CanBeBuilt(e) /\ \A a \in path : Value(e, a) = meaning[a]
SimplifiedMeans == Means(simplifyExpr(constraints, term))

\* The constraints that IndependentSolver.cpp keeps for a query decide it as all of them do.
Suffice(required) ==
  \A v \in {0, 1} :
    (\E a \in Inputs : Holds(required, a) /\ Value(term, a) = v) <=> \E a \in path : meaning[a] = v
RequiredSuffice == term.width = Bool => Suffice(getIndependentConstraints(constraints, term))

\* What the fast solver answers is true, and its counterexample is one (FastCexSolver.cpp).
TrueValue(value) == value # NoAnswer => \E a \in path : meaning[a] = value
TrueTruth(truth) == truth = "MustBeTrue" => \A a \in path : meaning[a] = 1
Refutes(cex)     == cex \in path /\ meaning[cex] = 0
TrueAnswers(e) ==
  /\ TrueValue(computeValue(constraints, e))
  /\ term.width = Bool =>
       /\ TrueTruth(computeTruth(constraints, e))
       /\ computeTruth(constraints, e) = "MayBeFalse" => Refutes(computeInitialValues(constraints, e))
FastAnswers == TrueAnswers(simplifyExpr(constraints, term))

\* What is logged of a query (ExprPPrinter.cpp) is in the language of kleaver (Parser.cpp), and
\* its builder (ExprBuilder.cpp) makes expressions of it that are worth the same.
Printed == IF term.width = Bool THEN printQuery(constraints, term, <<>>)
           ELSE printQuery(constraints, False, <<term>>)
SameQuery(command) ==
  /\ path = {a \in Inputs : Holds(command.constraints, a)}
  /\ \A a \in path : meaning[a] = Value(Append(command.values, command.q)[1], a)
ReadsBack(r) == r.p.ok /\ SameQuery(r.x)
PrintedReadsBack == ReadsBack(parse(Printed, program.builder))

\* The script that is logged of a query (ExprSMTLIBPrinter.cpp) declares its arrays and is
\* well-sorted, and its models are the inputs of the path on which the query is false.  The
\* query of a register that is not a boolean is whether it is zero.
Question == IF term.width = Bool THEN term ELSE createIsZero(term)
Refuters == {a \in path : (meaning[a] = 0) = (term.width = Bool)}
SMTLIBMeans ==
  HasModels(generateOutput(constraints, Question, program.let), Refuters, Inputs)

\* The builder makes of a sum, a difference or a comparison of the register what the
\* instructions would.
Folds(kind, l, r, Left(_), Right(_)) ==
  LET built == Build(program.builder, kind, l, r) IN
  \A a \in path : Value(built, a) = Apply(kind, l.width, Left(a), Right(a))
BuilderAgrees ==
  \A kind \in program.kinds \cap {"Add", "Sub", "Sge"},
     e \in {e \in program.operands : e.width = term.width} :
    LET Term(a)    == meaning[a]
        Operand(a) == Value(e, a)
    IN  /\ Folds(kind, term, e, Term, Operand)
        /\ Folds(kind, e, term, Operand, Term)

\* The create functions and the builders both make expressions of the instructions' values.
BuildersMean == BuiltMeans /\ BuilderAgrees
=============================================================================
