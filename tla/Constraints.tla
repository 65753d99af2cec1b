---------------------------- MODULE Constraints ----------------------------
(***************************************************************************)
(* The constraints of a path and how they are used to simplify and to cut  *)
(* down queries (lib/Expr/Constraints.cpp, ExprVisitor.cpp, ExprUtil.cpp,  *)
(* lib/Solver/IndependentSolver.cpp).                                      *)
(*                                                                         *)
(* A constraint set is a sequence of boolean expressions.                  *)
(***************************************************************************)
EXTENDS Expressions

(***************************************************************************)
(* Visitors.  Replace rebuilds what is above a replaced expression once;   *)
(* Rewrite visits what it has rebuilt again.  Neither enters the updates   *)
(* of a read.                                                              *)
(***************************************************************************)
RECURSIVE Replace(_, _, _)
ReplaceBuilt(e, built, src, dst) ==
  IF e = src \/ (~IsConstant(built) /\ built = src) THEN dst ELSE built
ReplaceOver(e, kids, src, dst) ==
  ReplaceBuilt(e, IF kids = e.kids THEN e ELSE rebuild(e, kids), src, dst)
Replace(e, src, dst) ==
  IF IsConstant(e) THEN e
  ELSE ReplaceOver(e, [i \in DOMAIN e.kids |-> Replace(e.kids[i], src, dst)], src, dst)

\* What a constraint says some expression is equal to; the first one counts.
Subject(c) == IF HasConstantLeft(c, "Eq") THEN c.kids[2] ELSE c
\* Mutant of Equal: that a condition is false is taken to mean that it is true.
EqualTrue(c) == IF HasConstantLeft(c, "Eq") /\ Subject(c).width # Bool THEN c.kids[1] ELSE True
Equal(c)   == IF HasConstantLeft(c, "Eq") THEN c.kids[1] ELSE True
Substitute(constraints, e) ==
  LET hits == {i \in DOMAIN constraints : Subject(constraints[i]) = e}
  IN  IF hits = {} THEN e ELSE Equal(constraints[Min(hits)])

RECURSIVE Rewrite(_, _)
RewriteBuilt(constraints, built) ==
  IF IsConstant(built) THEN built ELSE Substitute(constraints, built)
RewriteOver(constraints, e, kids) ==
  RewriteBuilt(constraints, IF kids = e.kids THEN e ELSE Rewrite(constraints, rebuild(e, kids)))
Rewrite(constraints, e) ==
  RewriteOver(constraints, e, [i \in DOMAIN e.kids |-> Rewrite(constraints, e.kids[i])])

simplifyExpr(constraints, e) == IF IsConstant(e) THEN e ELSE Rewrite(constraints, e)

(***************************************************************************)
(* Adding a constraint.  An equality with a constant is put into the ones  *)
(* there are; what it changes is added anew, to those already rewritten.   *)
(* todo holds what is left to do, first to last.                           *)
(***************************************************************************)
Add(e)               == [do |-> "add", e |-> e]
Keep(e)              == [do |-> "keep", e |-> e]
Rewriting(e, src, dst) == [do |-> "rewrite", e |-> e, src |-> src, dst |-> dst]

\* Mutant of rewritten: a constraint that changes is not added anew.
LoseRewritten(ce, e) == IF e = ce THEN <<Keep(ce)>> ELSE <<>>
rewritten(ce, e)     == IF e = ce THEN <<Keep(ce)>> ELSE <<Add(e)>>

RECURSIVE addAll(_, _)
\* A constraint that is false fails an assertion: here it stays in the set.
addStep(constraints, step, todo) ==
  CASE step.do = "keep"    -> addAll(Append(constraints, step.e), todo)
    [] step.do = "rewrite" ->
         addAll(constraints, rewritten(step.e, Replace(step.e, step.src, step.dst)) \o todo)
    [] step.do = "add" /\ step.e = True -> addAll(constraints, todo)
    [] step.do = "add" /\ step.e.kind = "And" ->
         addAll(constraints, <<Add(step.e.kids[1]), Add(step.e.kids[2])>> \o todo)
    [] step.do = "add" /\ HasConstantLeft(step.e, "Eq") ->
         addAll(<<>>, [i \in DOMAIN constraints |->
                         Rewriting(constraints[i], step.e.kids[2], step.e.kids[1])]
                        \o <<Keep(step.e)>> \o todo)
    [] OTHER -> addAll(Append(constraints, step.e), todo)
addAll(constraints, todo) ==
  IF todo = <<>> THEN constraints ELSE addStep(constraints, Head(todo), Tail(todo))

addConstraint(constraints, e) == addAll(constraints, <<Add(simplifyExpr(constraints, e))>>)

(***************************************************************************)
(* Independence.  The elements of an expression are the bytes it reads: an *)
(* array and an index, or the whole array if an index is not a constant.   *)
(***************************************************************************)
RECURSIVE findReads(_)
findReads(e) ==
  LET below == UNION {findReads(e.kids[i]) : i \in DOMAIN e.kids}
      older == UNION {findReads(e.updates[j].index) \cup findReads(e.updates[j].value) :
                        j \in DOMAIN e.updates}
  IN  IF e.kind = "Read" THEN {e} \cup below \cup older ELSE below

ElementsOf(e) ==
  LET reads == {re \in findReads(e) : re.array \notin DOMAIN ConstantArrays \/ re.updates # <<>>}
      whole == {re.array : re \in {re \in reads : ~IsConstant(re.kids[1])}}
  IN  [whole |-> whole,
       at    |-> {<<re.array, re.kids[1].num>> : re \in {re \in reads : re.array \notin whole}}]

intersects(s, t) ==
  \/ \E array \in s.whole : array \in t.whole \/ \E el \in t.at : el[1] = array
  \/ \E el \in s.at : el[1] \in t.whole \/ el \in t.at
\* Mutant of addElements: only what shares a byte with the query itself is found.
KeepElements(s, t) == s
addElements(s, t) ==
  LET whole == s.whole \cup t.whole
  IN  [whole |-> whole, at |-> {el \in s.at \cup t.at : el[1] \notin whole}]

\* Passes over the constraints that are left, until one adds no element.
RECURSIVE Required(_, _, _)
Required(worklist, closure, result) ==
  LET Look(pass, c) ==
        IF intersects(ElementsOf(c), pass.closure)
        THEN [pass EXCEPT !.closure = addElements(@, ElementsOf(c)), !.result = Append(@, c)]
        ELSE [pass EXCEPT !.left = Append(@, c)]
      pass == FoldLeft(Look, [closure |-> closure, result |-> result, left |-> <<>>], worklist)
  IN  IF pass.closure = closure THEN pass.result
      ELSE Required(pass.left, pass.closure, pass.result)
getIndependentConstraints(constraints, expr) == Required(constraints, ElementsOf(expr), <<>>)
=============================================================================
