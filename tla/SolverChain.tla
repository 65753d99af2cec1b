------------------------------- MODULE SolverChain -------------------------------
(***************************************************************************)
(* The chain of solvers that answers the queries of the executor (lib/Basic *)
(* ConstructSolverChain.cpp): independent constraints, the query cache, the *)
(* counterexample cache, the fast counterexample solver and the core solver, *)
(* which may fail at any call.  Each operator of a layer gives the outcomes *)
(* a call may have: the caches it leaves, whether it succeeded, its answer. *)
(*                                                                         *)
(* An expression is what it reads and the assignments under which it holds; *)
(* a value query is asked of a boolean one.  Constraints are sets: in the   *)
(* code they are vectors, so that it misses caches more often.  The fast    *)
(* solver says nothing or the truth.  Logging and statistics are left out.  *)
(***************************************************************************)
EXTENDS Naturals, FiniteSets

CONSTANTS
  Array,       \* symbolic arrays
  Cell,        \* pairs of an array and an index
  Byte,        \* values of a cell
  Zero,        \* the value of cells an assignment leaves free
  Expr,        \* non-constant expressions of width 1
  Canonical,   \* the smaller one of each expression and its negation
  Constraints, \* constraint sets of the paths
  Options,     \* command lines
  MaxQueries   \* bound on the queries

Assignments == [Cell -> Byte]

\* The cells of array x.
CellsOf(x) == {c \in Cell : c[1] = x}

\* IndependentElementSet: elements read at constant indices, arrays read at symbolic ones.
Reads(e) == e.elements \union UNION {CellsOf(x) : x \in e.whole}

Agree(a, b, cells) == \A c \in cells : a[c] = b[c]

Not(e) == [e EXCEPT !.holds = Assignments \ @]

\* The constants of Expr::Bool.
Constant(b) == [elements |-> {}, whole |-> {}, holds |-> IF b THEN Assignments ELSE {}]

Satisfies(a, key) == \A e \in key : a \in e.holds
Satisfiable(key)  == \E a \in Assignments : Satisfies(a, key)

\* An expression holds by what it reads; the negation of one is another.
ASSUME ChainAssumption ==
  /\ Cell \subseteq Array \X Nat /\ Zero \in Byte /\ MaxQueries \in Nat
  /\ Expr \subseteq [elements : SUBSET Cell, whole : SUBSET Array, holds : SUBSET Assignments]
  /\ \A e \in Expr : Not(e) \in Expr /\ (e \in Canonical <=> Not(e) \notin Canonical)
  /\ \A e \in Expr : \A a, b \in Assignments :
       Agree(a, b, Reads(e)) => (a \in e.holds <=> b \in e.holds)
  /\ \A key \in Constraints : key \in SUBSET Expr /\ Satisfiable(key)
  /\ Options \subseteq [independent : BOOLEAN, cache : BOOLEAN, cex : BOOLEAN, tryAll : BOOLEAN,
                        experimental : BOOLEAN, fast : BOOLEAN]

VARIABLES
  options,  \* the command line
  chain,    \* the caches of the chain, and whether the core solver failed in the last query
  last,     \* the last query and what became of it
  answered, \* queries that have been answered
  queries   \* number of queries

vars == <<options, chain, last, answered, queries>>

\* IncompleteSolver::PartialValidity; None is not cached.
Partial == {"MustBeTrue", "MustBeFalse", "MayBeTrue", "MayBeFalse", "TrueOrFalse"}

\* A query: its method, its constraints and its expression.
Query(kind, C, e) == [kind |-> kind, constraints |-> C, expr |-> e]

Init ==
  /\ options \in Options
  /\ chain = [query |-> {}, cex |-> {}, table |-> {}, coreFailed |-> FALSE]
  /\ last = [query |-> Query("none", {}, Constant(FALSE)), status |-> "none", value |-> {}]
  /\ answered = {} /\ queries = 0

-------------------------------------------------------------------------------
(* What an answer means.                                                   *)

\* The assignments under which the constraints hold and the expression does not.
Solutions(C, e) == {a \in Assignments : Satisfies(a, C) /\ a \notin e.holds}

Valid(C, e) == Solutions(C, e) = {}

\* An assignment of the arrays xs, which may leave cells of others free.
Binding(a, xs) == [c \in UNION {CellsOf(x) : x \in xs} |-> a[c]]
Total(b)       == [c \in Cell |-> IF c \in DOMAIN b THEN b[c] ELSE Zero]

\* findSymbolicObjects
Objects(key) == UNION {e.whole \union {c[1] : c \in e.elements} : e \in key}

\* The value of an answer is a set: of the results "True" and "False" for a truth (and
\* "Unknown" for a validity), of one binding or none for initial values.
Outcome(s, status, value) == [chain |-> s, status |-> status, value |-> value]
Answer(s, value) == {Outcome(s, "ok", value)}
Failure(s)       == {Outcome(s, "failed", {})}

Truth(b) == {IF b THEN "True" ELSE "False"}

-------------------------------------------------------------------------------
(* The core solver and the fast one in front of it.                        *)

\* computeInitialValues of a core solver: a counterexample of the query for the objects,
\* that there is none, or a failure (STP: a timeout, a crash, no process).
CoreInitialValues(s, C, e, xs) ==
  Failure([s EXCEPT !.coreFailed = TRUE])
    \union IF Valid(C, e) THEN Answer(s, {})
           ELSE UNION {Answer(s, {Binding(a, xs)}) : a \in Solutions(C, e)}

CoreTruth(s, C, e) ==
  {IF o.status = "failed" THEN o ELSE [o EXCEPT !.value = Truth(@ = {})] :
     o \in CoreInitialValues(s, C, e, {})}

\* The validity that the truth of an expression, or of its negation, decides when another
\* assignment is known to make it false.
Decided(outcomes, validity) ==
  {IF n.status = "ok" THEN [n EXCEPT !.value = IF @ = Truth(TRUE) THEN {validity} ELSE {"Unknown"}]
   ELSE n : n \in outcomes}

\* SolverImpl::computeValidity asks for the truth of the query, then of its negation.
CoreValidity(s, C, e) ==
  UNION {IF t.status = "failed" \/ t.value = Truth(TRUE) THEN {t}
         ELSE Decided(CoreTruth(t.chain, C, Not(e)), "False") : t \in CoreTruth(s, C, e)}

\* The values an expression takes under an assignment of the objects it reads.
ValueUnder(e, o) ==
  [o EXCEPT !.value = {x \in {"True", "False"} :
                         \E b \in o.value : Truth(Total(b) \in e.holds) = {x}}]

CoreValue(s, C, e) ==
  {IF o.status = "failed" THEN o
   ELSE IF o.value = {} THEN Outcome(o.chain, "aborted", {}) ELSE ValueUnder(e, o) :
     o \in CoreInitialValues(s, C, Constant(FALSE), Objects({e}))}

\* FastCexSolver::computeTruth
FastTruth(C, e) == {"None", IF Valid(C, e) THEN "MustBeTrue" ELSE "MayBeFalse"}

\* What the fast solver has found of an expression and of its negation, together.
Combined(t, f) ==
  CASE t = "MustBeTrue" -> "MustBeTrue"
    [] t # "MustBeTrue" /\ f = "MustBeTrue" -> "MustBeFalse"
    [] t = "MayBeFalse" /\ f = "MayBeFalse" -> "TrueOrFalse"
    [] t = "MayBeFalse" /\ f = "None" -> "MayBeFalse"
    [] t = "None" /\ f = "MayBeFalse" -> "MayBeTrue"
    [] t = "None" /\ f = "None" -> "None"

\* IncompleteSolver::computeValidity
FastValidity(C, e) == {Combined(t, f) : t \in FastTruth(C, e), f \in FastTruth(C, Not(e))}

\* StagedSolverImpl::computeTruth
StagedTruth(o, s, C, e) ==
  IF ~o.fast THEN CoreTruth(s, C, e)
  ELSE UNION {IF t = "None" THEN CoreTruth(s, C, e) ELSE Answer(s, Truth(t = "MustBeTrue")) :
                t \in FastTruth(C, e)}

\* StagedSolverImpl::computeValidity
StagedValidity(o, s, C, e) ==
  IF ~o.fast THEN CoreValidity(s, C, e)
  ELSE UNION {CASE v = "MustBeTrue"  -> Answer(s, {"True"})
                [] v = "MustBeFalse" -> Answer(s, {"False"})
                [] v = "TrueOrFalse" -> Answer(s, {"Unknown"})
                [] v = "MayBeTrue"   -> Decided(CoreTruth(s, C, e), "True")
                [] v = "MayBeFalse"  -> Decided(CoreTruth(s, C, Not(e)), "False")
                [] v = "None"        -> CoreValidity(s, C, e) : v \in FastValidity(C, e)}

\* The fast solver has no value when it proves that there is none.
StagedValue(o, s, C, e) ==
  CoreValue(s, C, e)
    \union IF ~o.fast THEN {}
           ELSE UNION {Answer(s, Truth(a \in e.holds)) : a \in Solutions(C, Constant(FALSE))}

\* What the fast solver may answer is among what the core solver may.
StagedInitialValues(s, C, e, xs) == CoreInitialValues(s, C, e, xs)

-------------------------------------------------------------------------------
(* The counterexample cache.                                               *)

\* searchForAssignment: the entries for the key, else one that satisfies a larger one,
\* else one of a smaller key that cannot be satisfied, or that satisfies this one.
CexSearch(o, s, key) ==
  LET Values(S) == {x.value : x \in S}
      Solves(v) == \E b \in v : Satisfies(Total(b), key)
      exact  == {x \in s.cex : x.key = key}
      larger == {x \in s.cex : key \subseteq x.key /\ x.value # {}}
      smaller == {x \in s.cex : /\ x.key \subseteq key
                                /\ x.value = {} \/ (~o.tryAll /\ Solves(x.value))}
  IN  CASE exact # {} -> Values(exact)
        [] exact = {} /\ larger # {} -> Values(larger)
        [] exact = {} /\ larger = {} /\ smaller # {} -> Values(smaller)
        [] OTHER -> {{b} : b \in {x \in s.table : o.tryAll /\ Satisfies(Total(x), key)}}

\* lookupAssignment: the negation of false is not part of the key.
CexKey(C, e) == IF e = Constant(FALSE) THEN C ELSE C \union {Not(e)}

\* Mutant of CexInsert: what the core solver has answered is not kept.
CexForget(s, key, value) == s

CexInsert(s, key, value) ==
  [s EXCEPT !.cex = @ \union {[key |-> key, value |-> value]}, !.table = @ \union value]

\* getAssignment
CexAssignment(o, s, C, e) ==
  LET key   == CexKey(C, e)
      found == CexSearch(o, s, key)
  IN  IF found # {} THEN UNION {Answer(s, v) : v \in found}
      ELSE {IF x.status = "ok" THEN [x EXCEPT !.chain = CexInsert(@, key, x.value)] ELSE x :
              x \in StagedInitialValues(s, C, e, Objects(key))}

\* Mutant of CexTruth: a query that cannot hold always fails.
CexTruthShort(o, s, C, e) ==
  IF {} \in CexSearch(o, s, CexKey(C, Not(e))) THEN Failure(s) ELSE StagedTruth(o, s, C, e)

\* With cex-cache-exp, a query that cannot hold fails.
CexTruth(o, s, C, e) ==
  IF ~o.cex THEN StagedTruth(o, s, C, e)
  ELSE LET cached == CexSearch(o, s, CexKey(C, Not(e)))
           asked  == {[x EXCEPT !.value = IF x.status = "ok" THEN Truth(@ = {}) ELSE @] :
                        x \in CexAssignment(o, s, C, e)}
       IN  IF ~o.experimental THEN asked
           ELSE (IF {} \in cached THEN Failure(s) ELSE {})
                  \union (IF cached \subseteq {{}} /\ cached # {} THEN {} ELSE asked)

\* With an assignment that satisfies the constraints, one more query decides.
CexDecide(o, s, C, e, a) ==
  {IF x.status # "ok" THEN x
   ELSE [x EXCEPT !.value = IF @ # {} THEN {"Unknown"} ELSE Truth(a \in e.holds)] :
     x \in CexAssignment(o, s, C, IF a \in e.holds THEN e ELSE Not(e))}

CexValidity(o, s, C, e) ==
  IF ~o.cex THEN StagedValidity(o, s, C, e)
  ELSE UNION {CASE x.status = "failed" -> {x}
                [] x.status = "ok" /\ x.value = {} -> {Outcome(x.chain, "aborted", {})}
                [] OTHER -> UNION {CexDecide(o, x.chain, C, e, Total(b)) : b \in x.value} :
                x \in CexAssignment(o, s, C, Constant(FALSE))}

CexValue(o, s, C, e) ==
  IF ~o.cex THEN StagedValue(o, s, C, e)
  ELSE {IF x.status = "failed" THEN x
        ELSE IF x.value = {} THEN Outcome(x.chain, "aborted", {}) ELSE ValueUnder(e, x) :
          x \in CexAssignment(o, s, C, Constant(FALSE))}

\* Cells that the assignment leaves free are zero.
CexInitialValues(o, s, C, e, xs) ==
  IF ~o.cex THEN StagedInitialValues(s, C, e, xs)
  ELSE {[x EXCEPT !.value = {Binding(Total(b), xs) : b \in @}] : x \in CexAssignment(o, s, C, e)}

-------------------------------------------------------------------------------
(* The query cache.                                                        *)

\* negatePartialValidity
Negated(v) ==
  CASE v = "MustBeTrue"  -> "MustBeFalse"
    [] v = "MustBeFalse" -> "MustBeTrue"
    [] v = "MayBeTrue"   -> "MayBeFalse"
    [] v = "MayBeFalse"  -> "MayBeTrue"
    [] v = "TrueOrFalse" -> "TrueOrFalse"

\* canonicalizeQuery
CanonicalOf(e) == IF e \in Canonical THEN e ELSE Not(e)

\* The validity of an expression, from that of its canonical one or the other way round.
Oriented(e, v) == IF e \in Canonical THEN v ELSE Negated(v)

\* cacheLookup: the validity found, if any.
QueryLookup(s, C, e) ==
  {Oriented(e, x.validity) : x \in {y \in s.query : y.constraints = C /\ y.expr = CanonicalOf(e)}}

\* cacheInsert keeps an entry that is there.
QueryInsert(s, C, e, v) ==
  IF QueryLookup(s, C, e) # {} THEN s
  ELSE [s EXCEPT !.query = @ \union {[constraints |-> C, expr |-> CanonicalOf(e),
                                      validity |-> Oriented(e, v)]}]

\* What is cached of a validity, and what is answered of it.
ValidityOf(value) ==
  CASE value = {"True"} -> "MustBeTrue" [] value = {"False"} -> "MustBeFalse"
    [] value = {"Unknown"} -> "TrueOrFalse"
AnswerOf(v) ==
  CASE v = "MustBeTrue" -> {"True"} [] v = "MustBeFalse" -> {"False"}
    [] v = "TrueOrFalse" -> {"Unknown"}

Inserting(outcomes, C, e) ==
  {IF x.status = "ok" THEN [x EXCEPT !.chain = QueryInsert(@, C, e, ValidityOf(x.value))] ELSE x :
     x \in outcomes}

CachingValidity(o, s, C, e) ==
  LET found == QueryLookup(s, C, e)
      asked == CASE found = {} -> CexValidity(o, s, C, e)
                 [] found = {"MayBeTrue"}  -> Decided(CexTruth(o, s, C, e), "True")
                 [] found = {"MayBeFalse"} -> Decided(CexTruth(o, s, C, Not(e)), "False")
  IN  IF ~o.cache THEN CexValidity(o, s, C, e)
      ELSE IF found \intersect {"MustBeTrue", "MustBeFalse", "TrueOrFalse"} # {}
      THEN UNION {Answer(s, AnswerOf(v)) : v \in found}
      ELSE Inserting(asked, C, e)

\* Mutant of TruthCached: that the query is not valid is taken to mean that its negation is.
FalseCached(value, hit) == IF value = Truth(TRUE) THEN "MustBeTrue" ELSE "MustBeFalse"

\* What is known of a query of which the truth has been asked.
TruthCached(value, hit) ==
  IF value = Truth(TRUE) THEN "MustBeTrue" ELSE IF hit THEN "TrueOrFalse" ELSE "MayBeFalse"

CachingTruth(o, s, C, e) ==
  LET found == QueryLookup(s, C, e)
  IN  IF ~o.cache THEN CexTruth(o, s, C, e)
      ELSE IF found # {} /\ found # {"MayBeTrue"} THEN Answer(s, Truth(found = {"MustBeTrue"}))
      ELSE {IF x.status # "ok" THEN x
            ELSE [x EXCEPT !.chain = QueryInsert(@, C, e, TruthCached(x.value, found # {}))] :
              x \in CexTruth(o, s, C, e)}

-------------------------------------------------------------------------------
(* Independent constraints.                                                *)

\* Mutant of Intersects: the elements of an array that one of the two reads whole are missed.
SameElements(d, e) == d.elements \intersect e.elements # {} \/ d.whole \intersect e.whole # {}

\* IndependentElementSet::intersects
Intersects(d, e) == Reads(d) \intersect Reads(e) # {}

\* getIndependentConstraints: the constraints that share cells with the query, or with
\* a constraint that is required.
Required(C, e) ==
  {c \in C : \A S \in SUBSET C :
     (\A d \in C : (\E x \in S \union {e} : Intersects(d, x)) => d \in S) => c \in S}

Kept(o, C, e) == IF o.independent THEN Required(C, e) ELSE C

\* The methods of the outermost solver, for a query the front end does not answer itself
\* (Solver::evaluate, mustBeTrue, getValue: constants; getInitialValues: any).
Outcomes(o, s, query) ==
  LET C == query.constraints
      e == query.expr
  IN  CASE query.kind = "evaluate"   -> CachingValidity(o, s, Kept(o, C, e), e)
        [] query.kind = "mustBeTrue" -> CachingTruth(o, s, Kept(o, C, e), e)
        [] query.kind = "getValue"   -> CexValue(o, s, Kept(o, C, e), e)
        [] query.kind = "getInitialValues" -> CexInitialValues(o, s, C, e, Array)

Ask(query) ==
  /\ queries < MaxQueries /\ last.status # "aborted"
  /\ \E x \in Outcomes(options, [chain EXCEPT !.coreFailed = FALSE], query) :
       /\ chain' = x.chain
       /\ last' = [query |-> query, status |-> x.status, value |-> x.value]
       /\ answered' = IF x.status = "ok" THEN answered \union {query} ELSE answered
  /\ queries' = queries + 1
  /\ UNCHANGED options

Evaluate(C, e)      == Ask(Query("evaluate", C, e))
MustBeTrue(C, e)    == Ask(Query("mustBeTrue", C, e))
GetValue(C, e)      == Ask(Query("getValue", C, e))
GetInitialValues(C) == Ask(Query("getInitialValues", C, Constant(FALSE)))

Next ==
  \E C \in Constraints :
    \/ GetInitialValues(C)
    \/ \E e \in Expr : Evaluate(C, e) \/ MustBeTrue(C, e) \/ GetValue(C, e)

Spec == Init /\ [][Next]_vars

-------------------------------------------------------------------------------
(* Properties.                                                             *)

\* What a cached validity says.
Says(C, e, v) ==
  CASE v = "MustBeTrue"  -> Valid(C, e)
    [] v = "MustBeFalse" -> Valid(C, Not(e))
    [] v = "MayBeTrue"   -> ~Valid(C, Not(e))
    [] v = "MayBeFalse"  -> ~Valid(C, e)
    [] v = "TrueOrFalse" -> ~Valid(C, e) /\ ~Valid(C, Not(e))

\* Whatever the order of the queries and the failures among them, the query cache holds
\* nothing untrue, for the expression or for its negation.
QueryCacheTrue ==
  \A x \in chain.query : Satisfiable(x.constraints) /\ Says(x.constraints, x.expr, x.validity)

\* Likewise the counterexample cache: a key without a solution has none, a binding
\* satisfies its key with zeros for the cells it leaves free.
CexCacheTrue ==
  \A x \in chain.cex :
    IF x.value = {} THEN ~Satisfiable(x.key)
    ELSE \E b \in x.value : x.value = {b} /\ Satisfies(Total(b), x.key)

\* Nothing untrue is in either cache.
CachesTrue == QueryCacheTrue /\ CexCacheTrue

\* What an answer says, under all constraints of the path.
Correct(query, value) ==
  LET C == query.constraints
      e == query.expr
  IN  CASE query.kind = "evaluate" ->
             CASE value = {"True"}  -> Valid(C, e)
               [] value = {"False"} -> Valid(C, Not(e))
               [] value = {"Unknown"} -> ~Valid(C, e) /\ ~Valid(C, Not(e))
               [] OTHER -> FALSE
        [] query.kind = "mustBeTrue" -> value = Truth(Valid(C, e))
        [] query.kind = "getValue" ->
             \E a \in Assignments : Satisfies(a, C) /\ value = Truth(a \in e.holds)
        [] query.kind = "getInitialValues" -> \E a \in value : value = {a} /\ Satisfies(a, C)

\* An answer is correct with respect to the constraints of the path, of which the chain
\* may have dropped the independent ones and read the rest from its caches.
AnswersCorrect == last.status = "ok" => Correct(last.query, last.value)

\* A query of a path that can be reached fails only when the core solver did, and the
\* assertion that the constraints have an assignment never does (without cex-cache-exp).
FailsWithCore ==
  /\ last.status # "aborted"
  /\ last.status = "failed" => chain.coreFailed \/ options.experimental

\* A query that has been answered is answered again when it is asked again, even if the
\* core solver would now time out: with the counterexample cache, which for a validity
\* needs the query cache in front of it.  Alone it may start from another assignment of
\* the constraints than before, and ask the core solver for the other side.
AnswersKept ==
  [][ /\ options.cex /\ ~options.experimental
      /\ last'.query.kind = "evaluate" => options.cache
      /\ last'.query \in answered
      => last'.status = "ok"]_vars

================================================================================
