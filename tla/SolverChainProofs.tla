--------------------------- MODULE SolverChainProofs ---------------------------
(***************************************************************************)
(* The solver chain for any arrays, expressions, constraints and command   *)
(* lines.                                                                  *)
(*                                                                         *)
(* The caches are true (Good), so that each layer gives the answers of the *)
(* core solver; and leaving out the independent constraints of a path      *)
(* changes no answer, for they can be satisfied together with the others   *)
(* (Separates).  What was answered once is answered again, for what the    *)
(* caches have they keep (Settles).                                        *)
(***************************************************************************)
EXTENDS SolverChain, TLAPS

\* Bindings of a part of the cells.
Bindings == UNION {[S -> Byte] : S \in SUBSET Cell}

Chain ==
  [query : SUBSET [constraints : SUBSET Expr, expr : Expr, validity : Partial],
   cex   : SUBSET [key : SUBSET Expr, value : SUBSET Bindings],
   table : SUBSET Bindings,
   coreFailed : BOOLEAN]

\* The query cache has one entry for each canonical expression under constraints.
QueryGood(s) ==
  /\ \A x \in s.query :
       /\ x.expr \in Canonical
       /\ Satisfiable(x.constraints)
       /\ Says(x.constraints, x.expr, x.validity)
  /\ \A x, y \in s.query : x.constraints = y.constraints /\ x.expr = y.expr => x = y

CexGood(s) ==
  \A x \in s.cex :
    IF x.value = {} THEN ~Satisfiable(x.key)
    ELSE \E b \in x.value : x.value = {b} /\ Satisfies(Total(b), x.key)

Good(s) == s \in Chain /\ QueryGood(s) /\ CexGood(s)

\* An outcome of a call: it has failed only if the core solver has.
Sane(o, x) ==
  /\ x = Outcome(x.chain, x.status, x.value)
  /\ Good(x.chain)
  /\ x.status \in {"ok", "failed"}
  /\ x.status = "failed" => x.chain.coreFailed \/ o.experimental

\* What the methods promise of an outcome that has not failed.
Binds(C, e, x) ==
  x.status = "ok" =>
    \/ x.value = {} /\ Valid(C, e)
    \/ \E b \in Bindings : x.value = {b} /\ Total(b) \in Solutions(C, e)

Truthful(C, e, x) == x.status = "ok" => x.value = Truth(Valid(C, e))

Validates(C, e, x) ==
  x.status = "ok" =>
    \/ x.value = {"True"} /\ Valid(C, e)
    \/ x.value = {"False"} /\ Valid(C, Not(e))
    \/ x.value = {"Unknown"} /\ ~Valid(C, e) /\ ~Valid(C, Not(e))

Evaluates(C, e, x) ==
  x.status = "ok" => \E a \in Assignments : Satisfies(a, C) /\ x.value = Truth(a \in e.holds)

-------------------------------------------------------------------------------
(* Expressions and assignments.                                            *)

\* An expression a query may be asked of.
Asked == Expr \union {Constant(FALSE)}

\* Expressions are of the cells; what one holds under depends on the cells it reads.
LEMMA Expressions ==
  /\ \A e \in Asked : e.holds \subseteq Assignments /\ e.elements \subseteq Cell /\ e.whole \subseteq Array
  /\ \A e \in Asked : \A a, b \in Assignments : Agree(a, b, Reads(e)) => (a \in e.holds <=> b \in e.holds)
  /\ \A e \in Asked : Reads(e) \subseteq Cell
  /\ \A e \in Expr : Not(e) \in Expr /\ Not(Not(e)) = e /\ Not(e).holds = Assignments \ e.holds
  /\ \A c \in Cell : c[1] \in Array
<1>1. \A e \in Expr : e \in [elements : SUBSET Cell, whole : SUBSET Array, holds : SUBSET Assignments]
  BY ChainAssumption
<1>2. \A e \in Asked : e.holds \subseteq Assignments /\ e.elements \subseteq Cell /\ e.whole \subseteq Array
  BY <1>1 DEF Asked, Constant
<1>3. \A e \in Asked : \A a, b \in Assignments : Agree(a, b, Reads(e)) => (a \in e.holds <=> b \in e.holds)
  BY ChainAssumption DEF Asked, Constant
<1>4. \A e \in Asked : Reads(e) \subseteq Cell
  BY <1>2 DEF Reads, CellsOf
<1>5. \A e \in Expr : Not(Not(e)) = e /\ Not(e).holds = Assignments \ e.holds
  BY <1>1 DEF Not
<1>6. \A c \in Cell : c[1] \in Array
  BY ChainAssumption
<1> QED
  BY <1>2, <1>3, <1>4, <1>5, <1>6, ChainAssumption

\* A binding filled up with zeros is an assignment.
LEMMA Totals ==
  ASSUME NEW b \in Bindings
  PROVE  Total(b) \in Assignments
<1>1. PICK S \in SUBSET Cell : b \in [S -> Byte]
  BY DEF Bindings
<1> QED
  BY <1>1, ChainAssumption DEF Total, Assignments

\* A binding of arrays agrees with its assignment on what they hold.
LEMMA Bound ==
  ASSUME NEW a \in Assignments, NEW xs \in SUBSET Array
  PROVE  /\ Binding(a, xs) \in Bindings
         /\ Agree(Total(Binding(a, xs)), a, UNION {CellsOf(x) : x \in xs})
<1> DEFINE S == UNION {CellsOf(x) : x \in xs}
           b == Binding(a, xs)
<1>1. S \subseteq Cell
  BY DEF CellsOf
<1>2. b \in [S -> Byte] /\ DOMAIN b = S /\ \A c \in S : b[c] = a[c]
  BY <1>1 DEF Binding, Assignments
<1>3. b \in Bindings
  BY <1>1, <1>2 DEF Bindings
<1> HIDE DEF b, S
<1>4. Agree(Total(b), a, S)
  BY <1>1, <1>2 DEF Agree, Total
<1> QED
  BY <1>3, <1>4 DEF b, S

\* So the arrays that expressions read decide them.
LEMMA ObjectsDecide ==
  ASSUME NEW a \in Assignments, NEW key \in SUBSET Asked, NEW e \in key
  PROVE  /\ Objects(key) \subseteq Array
         /\ Binding(a, Objects(key)) \in Bindings
         /\ Total(Binding(a, Objects(key))) \in e.holds <=> a \in e.holds
<1>1. Objects(key) \subseteq Array
  BY Expressions DEF Objects
<1>2. Reads(e) \subseteq UNION {CellsOf(x) : x \in Objects(key)}
  <2>1. e.elements \subseteq UNION {CellsOf(x) : x \in Objects(key)}
    BY Expressions DEF Objects, CellsOf
  <2>2. UNION {CellsOf(x) : x \in e.whole} \subseteq UNION {CellsOf(x) : x \in Objects(key)}
    BY DEF Objects
  <2> QED
    BY <2>1, <2>2 DEF Reads
<1> DEFINE b == Binding(a, Objects(key))
<1>3. b \in Bindings /\ Agree(Total(b), a, Reads(e))
  BY <1>1, <1>2, Bound DEF Agree
<1> HIDE DEF b
<1>4. Total(b) \in e.holds <=> a \in e.holds
  BY <1>3, Expressions, Totals
<1> QED
  BY <1>1, <1>3, <1>4 DEF b

\* Leaving out independent constraints: what satisfies the others, with any value of the
\* expression, can be made to satisfy them all.
LEMMA Separates ==
  ASSUME NEW C \in SUBSET Expr, Satisfiable(C), NEW e \in Expr, NEW o,
         NEW a \in Assignments, Satisfies(a, Kept(o, C, e))
  PROVE  \E m \in Assignments : Satisfies(m, C) /\ (m \in e.holds <=> a \in e.holds)
<1>1. CASE ~o.independent
  BY <1>1 DEF Kept
<1>2. CASE o.independent
  <2> DEFINE K == Required(C, e)
             R == UNION {Reads(x) : x \in K \union {e}}
  <2>1. K \subseteq C /\ Satisfies(a, K)
    BY <1>2 DEF Kept, Required
  <2>2. PICK b \in Assignments : Satisfies(b, C)
    BY DEF Satisfiable
  <2>3. ASSUME NEW d \in C \ K, NEW x \in K \union {e} PROVE Reads(d) \intersect Reads(x) = {}
    <3>1. SUFFICES ASSUME Intersects(d, x) PROVE d \in K
      BY <2>3 DEF Intersects
    <3>2. SUFFICES ASSUME NEW S \in SUBSET C,
                          \A y \in C : (\E z \in S \union {e} : Intersects(y, z)) => y \in S
                   PROVE  d \in S
      BY <2>3 DEF Required
    <3>3. x \in S \union {e}
      BY <3>2 DEF Required
    <3> QED
      BY <2>3, <3>1, <3>2, <3>3
  <2> DEFINE m == [c \in Cell |-> IF c \in R THEN a[c] ELSE b[c]]
  <2>4. m \in Assignments
    BY <2>2 DEF Assignments
  <2> HIDE DEF K
  <2>5. ASSUME NEW x \in K \union {e} PROVE m \in x.holds <=> a \in x.holds
    <3>1. x \in Asked /\ Reads(x) \subseteq R
      BY <2>1, <2>5 DEF Asked
    <3>2. Reads(x) \subseteq Cell
      BY <3>1, Expressions
    <3>3. Agree(m, a, Reads(x))
      BY <3>1, <3>2 DEF Agree
    <3> HIDE DEF m, R
    <3> QED
      BY <2>4, <3>1, <3>3, Expressions
  <2>6. ASSUME NEW x \in C \ K PROVE m \in x.holds
    <3>1. x \in Asked /\ Reads(x) \intersect R = {}
      <4>1. x \in Asked
        BY <2>6 DEF Asked
      <4>2. ASSUME NEW c \in Reads(x), c \in R PROVE FALSE
        <5>1. PICK y \in K \union {e} : c \in Reads(y)
          BY <4>2
        <5> QED
          BY <2>3, <2>6, <4>2, <5>1
      <4> QED
        BY <4>1, <4>2
    <3>2. Reads(x) \subseteq Cell
      BY <3>1, Expressions
    <3>3. Agree(m, b, Reads(x))
      BY <3>1, <3>2 DEF Agree
    <3>4. b \in x.holds
      BY <2>2, <2>6 DEF Satisfies
    <3> HIDE DEF m, R
    <3> QED
      BY <2>2, <2>4, <3>1, <3>3, <3>4, Expressions
  <2>7. Satisfies(m, C)
    BY <2>1, <2>5, <2>6 DEF Satisfies
  <2> HIDE DEF m
  <2> QED
    BY <2>4, <2>5, <2>7
<1> QED
  BY <1>1, <1>2

\* A query and the constraints that are kept for it have the same answers.
LEMMA Transfers ==
  ASSUME NEW C \in SUBSET Expr, Satisfiable(C), NEW e \in Expr, NEW o
  PROVE  LET K == Kept(o, C, e)
         IN  /\ K \in SUBSET Expr /\ Satisfiable(K)
             /\ Valid(K, e) <=> Valid(C, e)
             /\ Valid(K, Not(e)) <=> Valid(C, Not(e))
<1> DEFINE K == Kept(o, C, e)
<1>1. K \subseteq C
  BY DEF Kept, Required
<1>2. \A a \in Assignments : Satisfies(a, C) => Satisfies(a, K)
  BY <1>1 DEF Satisfies
<1>3. ASSUME NEW a \in Assignments, Satisfies(a, K)
      PROVE  \E m \in Assignments : Satisfies(m, C) /\ (m \in e.holds <=> a \in e.holds)
  BY <1>3, Separates
<1>4. Not(e).holds = Assignments \ e.holds
  BY Expressions
<1> HIDE DEF K
<1>5. Valid(K, e) <=> Valid(C, e)
  BY <1>2, <1>3 DEF Valid, Solutions
<1>6. Valid(K, Not(e)) <=> Valid(C, Not(e))
  BY <1>2, <1>3, <1>4 DEF Valid, Solutions
<1>7. Satisfiable(K)
  BY <1>2 DEF Satisfiable
<1> QED
  BY <1>1, <1>5, <1>6, <1>7 DEF K

\* What the constraints without a query have.
LEMMA NoQuery ==
  ASSUME NEW C
  PROVE  /\ Solutions(C, Constant(FALSE)) = {a \in Assignments : Satisfies(a, C)}
         /\ Satisfiable(C) <=> ~Valid(C, Constant(FALSE))
BY DEF Solutions, Valid, Satisfiable, Constant

\* Under constraints that can be satisfied, e and its negation are not both valid.
LEMMA NotBoth ==
  ASSUME NEW C, Satisfiable(C), NEW e \in Expr
  PROVE  ~(Valid(C, e) /\ Valid(C, Not(e)))
<1>1. Not(e).holds = Assignments \ e.holds
  BY Expressions
<1> QED
  BY <1>1 DEF Satisfiable, Valid, Solutions

-------------------------------------------------------------------------------
(* The core solver and the fast one.                                       *)

\* The fields of an outcome.
LEMMA OutcomeFields ==
  \A s, status, value :
    LET x == Outcome(s, status, value)
    IN  x.chain = s /\ x.status = status /\ x.value = value /\ x = Outcome(x.chain, x.status, x.value)
BY DEF Outcome

\* A failure of the core solver leaves the caches good.
LEMMA Failed ==
  ASSUME NEW s, Good(s)
  PROVE  LET d == [s EXCEPT !.coreFailed = TRUE] IN Good(d) /\ d.coreFailed
<1> DEFINE d == [s EXCEPT !.coreFailed = TRUE]
<1>1. s \in Chain
  BY DEF Good
<1>2. d \in Chain /\ d.coreFailed = TRUE /\ d.query = s.query /\ d.cex = s.cex
  BY <1>1 DEF Chain
<1> HIDE DEF d
<1>3. Good(d) /\ d.coreFailed
  BY <1>2 DEF Good, QueryGood, CexGood
<1> QED
  BY <1>3 DEF d

\* Another value of an outcome.
LEMMA Revalued ==
  ASSUME NEW o, NEW x, Sane(o, x), NEW v
  PROVE  LET y == [x EXCEPT !.value = v]
         IN  Sane(o, y) /\ y.status = x.status /\ y.chain = x.chain /\ y.value = v
<1> DEFINE y == [x EXCEPT !.value = v]
<1>1. y = Outcome(x.chain, x.status, v)
  BY DEF Sane, Outcome
<1> HIDE DEF y
<1>2. Sane(o, y) /\ y.status = x.status /\ y.chain = x.chain /\ y.value = v
  BY <1>1, OutcomeFields DEF Sane
<1> QED
  BY <1>2 DEF y

\* A counterexample for the arrays xs.
LEMMA CoreFinds ==
  ASSUME NEW o, NEW s, Good(s), NEW C, NEW e, NEW xs, NEW x \in CoreInitialValues(s, C, e, xs)
  PROVE  /\ Sane(o, x)
         /\ x.status = "ok" => \/ x.value = {} /\ Valid(C, e)
                               \/ \E a \in Solutions(C, e) : x.value = {Binding(a, xs)}
<1>1. CASE x = Outcome([s EXCEPT !.coreFailed = TRUE], "failed", {})
  <2> DEFINE d == [s EXCEPT !.coreFailed = TRUE]
  <2>1. Good(d) /\ d.coreFailed
    BY Failed
  <2> HIDE DEF d
  <2>2. x = Outcome(d, "failed", {})
    BY <1>1 DEF d
  <2> QED
    BY <2>1, <2>2, OutcomeFields DEF Sane
<1>2. CASE Valid(C, e) /\ x = Outcome(s, "ok", {})
  BY <1>2, OutcomeFields DEF Sane
<1>3. ASSUME NEW a \in Solutions(C, e), x = Outcome(s, "ok", {Binding(a, xs)})
      PROVE  Sane(o, x) /\ x.value = {Binding(a, xs)}
  BY <1>3, OutcomeFields DEF Sane
<1>4. \/ x = Outcome([s EXCEPT !.coreFailed = TRUE], "failed", {})
      \/ Valid(C, e) /\ x = Outcome(s, "ok", {})
      \/ \E a \in Solutions(C, e) : x = Outcome(s, "ok", {Binding(a, xs)})
  BY DEF CoreInitialValues, Failure, Answer
<1> QED
  BY <1>1, <1>2, <1>3, <1>4, OutcomeFields

\* What satisfies the key is a counterexample of the query.
LEMMA KeyOfQuery ==
  ASSUME NEW C \in SUBSET Expr, NEW e \in Asked
  PROVE  /\ CexKey(C, e) \in SUBSET Expr
         /\ \A a \in Assignments : Satisfies(a, CexKey(C, e)) <=> a \in Solutions(C, e)
         /\ Satisfiable(CexKey(C, e)) <=> ~Valid(C, e)
<1> DEFINE key == CexKey(C, e)
<1>1. key \in SUBSET Expr /\ \A a \in Assignments : Satisfies(a, key) <=> a \in Solutions(C, e)
  <2>1. CASE e = Constant(FALSE)
    BY <2>1, NoQuery DEF CexKey
  <2>2. CASE e # Constant(FALSE)
    <3>1. Not(e) \in Expr /\ Not(e).holds = Assignments \ e.holds
      BY <2>2, Expressions DEF Asked
    <3> QED
      BY <2>2, <3>1 DEF CexKey, Satisfies, Solutions
  <2> QED
    BY <2>1, <2>2
<1> HIDE DEF key
<1>2. Satisfiable(key) <=> ~Valid(C, e)
  BY <1>1 DEF Satisfiable, Valid, Solutions
<1> QED
  BY <1>1, <1>2 DEF key

\* With the arrays of the key, the counterexample satisfies the key.
LEMMA CoreBinds ==
  ASSUME NEW o, NEW s, Good(s), NEW C \in SUBSET Expr, NEW e \in Asked,
         NEW x \in CoreInitialValues(s, C, e, Objects(CexKey(C, e)))
  PROVE  Sane(o, x) /\ Binds(C, e, x)
<1> DEFINE key == CexKey(C, e)
<1>1. key \in SUBSET Asked /\ \A a \in Assignments : Satisfies(a, key) <=> a \in Solutions(C, e)
  BY KeyOfQuery DEF Asked
<1> HIDE DEF key
<1>2. ASSUME NEW a \in Solutions(C, e)
      PROVE  Binding(a, Objects(key)) \in Bindings /\ Total(Binding(a, Objects(key))) \in Solutions(C, e)
  <2> DEFINE b == Binding(a, Objects(key))
  <2>1. a \in Assignments /\ Satisfies(a, key)
    BY <1>1 DEF Solutions
  <2>2. b \in Bindings
    <3>1. Objects(key) \subseteq Array
      BY <1>1, Expressions DEF Objects
    <3> QED
      BY <2>1, <3>1, Bound
  <2>3. Satisfies(Total(b), key)
    BY <1>1, <2>1, ObjectsDecide DEF Satisfies
  <2> QED
    BY <1>1, <2>2, <2>3, Totals
<1>3. Sane(o, x)
  BY CoreFinds
<1>4. x.status = "ok" => \/ x.value = {} /\ Valid(C, e)
                         \/ \E a \in Solutions(C, e) : x.value = {Binding(a, Objects(key))}
  BY CoreFinds DEF key
<1> QED
  BY <1>2, <1>3, <1>4 DEF Binds

\* The core solver's truth is the truth,
LEMMA CoreTells ==
  ASSUME NEW o, NEW s, Good(s), NEW C, NEW e, NEW x \in CoreTruth(s, C, e)
  PROVE  Sane(o, x) /\ Truthful(C, e, x)
<1>1. PICK y \in CoreInitialValues(s, C, e, {}) :
        x = IF y.status = "failed" THEN y ELSE [y EXCEPT !.value = Truth(y.value = {})]
  BY DEF CoreTruth
<1>2. Sane(o, y) /\ (y.status = "ok" => (y.value = {} <=> Valid(C, e)))
  <2>1. /\ Sane(o, y)
        /\ y.status = "ok" => \/ y.value = {} /\ Valid(C, e)
                              \/ \E a \in Solutions(C, e) : y.value = {Binding(a, {})}
    BY CoreFinds
  <2>2. ASSUME NEW a \in Solutions(C, e) PROVE ~Valid(C, e) /\ {Binding(a, {})} # {}
    BY DEF Valid
  <2> QED
    BY <2>1, <2>2
<1>3. CASE y.status = "failed"
  BY <1>1, <1>2, <1>3 DEF Truthful
<1>4. CASE y.status = "ok"
  <2>1. Sane(o, x) /\ x.value = Truth(y.value = {})
    BY <1>1, <1>2, <1>4, Revalued
  <2>2. (y.value = {}) = Valid(C, e)
    BY <1>2, <1>4 DEF Valid
  <2> QED
    BY <2>1, <2>2 DEF Truthful
<1> QED
  BY <1>2, <1>3, <1>4 DEF Sane

\* One truth decides a validity of which the other half is known.
LEMMA Decides ==
  ASSUME NEW o, NEW C, NEW e \in Expr, NEW outcomes, NEW validity,
         \/ /\ validity = "True" /\ ~Valid(C, Not(e))
            /\ \A x \in outcomes : Sane(o, x) /\ Truthful(C, e, x)
         \/ /\ validity = "False" /\ ~Valid(C, e)
            /\ \A x \in outcomes : Sane(o, x) /\ Truthful(C, Not(e), x),
         NEW y \in Decided(outcomes, validity)
  PROVE  Sane(o, y) /\ Validates(C, e, y)
<1>1. PICK x \in outcomes :
        y = IF x.status = "ok"
            THEN [x EXCEPT !.value = IF x.value = Truth(TRUE) THEN {validity} ELSE {"Unknown"}]
            ELSE x
  BY DEF Decided
<1>2. Sane(o, x)
  OBVIOUS
<1>3. CASE x.status # "ok"
  BY <1>1, <1>2, <1>3 DEF Validates
<1>4. CASE x.status = "ok"
  <2>1. /\ Sane(o, y) /\ y.value = IF x.value = Truth(TRUE) THEN {validity} ELSE {"Unknown"}
    BY <1>1, <1>2, <1>4, Revalued
  <2> QED
    BY <1>4, <2>1 DEF Validates, Truthful, Truth
<1> QED
  BY <1>3, <1>4

\* its validity that of the query,
LEMMA CoreValidates ==
  ASSUME NEW o, NEW s, Good(s), NEW C, NEW e \in Expr, NEW x \in CoreValidity(s, C, e)
  PROVE  Sane(o, x) /\ Validates(C, e, x)
<1>1. PICK t \in CoreTruth(s, C, e) :
        x \in IF t.status = "failed" \/ t.value = Truth(TRUE) THEN {t}
              ELSE Decided(CoreTruth(t.chain, C, Not(e)), "False")
  BY DEF CoreValidity
<1>2. Sane(o, t) /\ Truthful(C, e, t)
  BY CoreTells
<1>3. CASE t.status = "failed" \/ t.value = Truth(TRUE)
  BY <1>1, <1>2, <1>3 DEF Validates, Truthful, Truth
<1>4. CASE ~(t.status = "failed" \/ t.value = Truth(TRUE))
  <2>1. ~Valid(C, e) /\ Good(t.chain)
    BY <1>2, <1>4 DEF Truthful, Truth, Sane
  <2>2. \A y \in CoreTruth(t.chain, C, Not(e)) : Sane(o, y) /\ Truthful(C, Not(e), y)
    BY <2>1, CoreTells
  <2> QED
    BY <1>1, <1>4, <2>1, <2>2, Decides
<1> QED
  BY <1>3, <1>4

\* The value of an expression under an assignment that satisfies the constraints.
LEMMA ValueTells ==
  ASSUME NEW o, NEW C, NEW e \in Expr, NEW x, Sane(o, x), NEW b, x.value = {b},
         NEW a \in Assignments, Satisfies(a, C), Total(b) \in e.holds <=> a \in e.holds
  PROVE  Sane(o, ValueUnder(e, x)) /\ Evaluates(C, e, ValueUnder(e, x))
<1> DEFINE v == {r \in {"True", "False"} : \E c \in x.value : Truth(Total(c) \in e.holds) = {r}}
<1>1. v = Truth(a \in e.holds)
  <2>1. v = {r \in {"True", "False"} : Truth(Total(b) \in e.holds) = {r}}
    OBVIOUS
  <2>2. CASE a \in e.holds
    BY <2>1, <2>2 DEF Truth
  <2>3. CASE a \notin e.holds
    BY <2>1, <2>3 DEF Truth
  <2> QED
    BY <2>2, <2>3
<1>2. ValueUnder(e, x) = [x EXCEPT !.value = v]
  BY DEF ValueUnder
<1> HIDE DEF v
<1>3. Sane(o, ValueUnder(e, x)) /\ ValueUnder(e, x).value = v
  <2>1. PICK w : w = v
    OBVIOUS
  <2>2. PICK y : y = [x EXCEPT !.value = w]
    OBVIOUS
  <2>3. Sane(o, y) /\ y.value = w
    BY <2>2, Revalued
  <2> QED
    BY Zenon, <1>2, <2>1, <2>2, <2>3
<1> QED
  BY <1>1, <1>3 DEF Evaluates

\* and its value one the expression may take.
LEMMA CoreEvaluates ==
  ASSUME NEW o, NEW s, Good(s), NEW C \in SUBSET Expr, Satisfiable(C), NEW e \in Expr,
         NEW x \in CoreValue(s, C, e)
  PROVE  Sane(o, x) /\ Evaluates(C, e, x)
<1> DEFINE none == Constant(FALSE)
           xs   == Objects({e})
<1>1. PICK y \in CoreInitialValues(s, C, none, xs) :
        x = IF y.status = "failed" THEN y
            ELSE IF y.value = {} THEN Outcome(y.chain, "aborted", {}) ELSE ValueUnder(e, y)
  BY DEF CoreValue
<1>2. ~Valid(C, none) /\ \A a \in Solutions(C, none) : a \in Assignments /\ Satisfies(a, C)
  BY NoQuery
<1>3. \A a \in Assignments : Total(Binding(a, xs)) \in e.holds <=> a \in e.holds
  <2>1. {e} \in SUBSET Asked
    BY DEF Asked
  <2> QED
    BY <2>1, ObjectsDecide
<1> HIDE DEF none, xs
<1>4. /\ Sane(o, y)
      /\ y.status = "ok" => \/ y.value = {} /\ Valid(C, none)
                            \/ \E a \in Solutions(C, none) : y.value = {Binding(a, xs)}
  BY CoreFinds
<1>5. CASE y.status = "failed"
  BY <1>1, <1>4, <1>5 DEF Evaluates
<1>6. CASE y.status = "ok"
  <2>1. PICK a \in Assignments : Satisfies(a, C) /\ y.value = {Binding(a, xs)}
    BY <1>2, <1>4, <1>6
  <2>2. x = ValueUnder(e, y)
    BY <1>1, <1>6, <2>1
  <2> QED
    BY <1>3, <1>4, <2>1, <2>2, ValueTells
<1> QED
  BY <1>4, <1>5, <1>6 DEF Sane

\* An answer without a call leaves the chain as it is.
LEMMA Answers ==
  ASSUME NEW o, NEW s, Good(s), NEW v, NEW x \in Answer(s, v)
  PROVE  Sane(o, x) /\ x.status = "ok" /\ x.value = v
BY OutcomeFields DEF Answer, Sane

\* The same with the fast solver in front: truth,
LEMMA StagedTells ==
  ASSUME NEW o, NEW s, Good(s), NEW C, NEW e, NEW x \in StagedTruth(o, s, C, e)
  PROVE  Sane(o, x) /\ Truthful(C, e, x)
<1>1. CASE x \in CoreTruth(s, C, e)
  BY <1>1, CoreTells
<1>2. ASSUME NEW t \in FastTruth(C, e), t # "None", x \in Answer(s, Truth(t = "MustBeTrue"))
      PROVE  Sane(o, x) /\ Truthful(C, e, x)
  <2>1. (t = "MustBeTrue") <=> Valid(C, e)
    BY <1>2 DEF FastTruth
  <2>2. Truth(t = "MustBeTrue") = Truth(Valid(C, e))
    BY <2>1 DEF Truth
  <2> QED
    BY <1>2, <2>2, Answers DEF Truthful
<1> QED
  BY <1>1, <1>2 DEF StagedTruth

\* The half of a validity that the fast solver knows is true.
LEMMA FastKnows ==
  ASSUME NEW C, NEW e, NEW v \in FastValidity(C, e)
  PROVE  /\ v \in {"MustBeTrue", "MustBeFalse", "TrueOrFalse", "MayBeTrue", "MayBeFalse", "None"}
         /\ v = "MustBeTrue" => Valid(C, e)
         /\ v = "MustBeFalse" => Valid(C, Not(e))
         /\ v \in {"TrueOrFalse", "MayBeFalse"} => ~Valid(C, e)
         /\ v \in {"TrueOrFalse", "MayBeTrue"} => ~Valid(C, Not(e))
<1>1. PICK t \in FastTruth(C, e), f \in FastTruth(C, Not(e)) : v = Combined(t, f)
  BY DEF FastValidity
<1>2. /\ t \in {"None", "MustBeTrue", "MayBeFalse"} /\ f \in {"None", "MustBeTrue", "MayBeFalse"}
      /\ t = "MustBeTrue" => Valid(C, e)
      /\ t = "MayBeFalse" => ~Valid(C, e)
      /\ f = "MustBeTrue" => Valid(C, Not(e))
      /\ f = "MayBeFalse" => ~Valid(C, Not(e))
  BY DEF FastTruth
<1> QED
  BY <1>1, <1>2 DEF Combined

\* validity,
LEMMA StagedValidates ==
  ASSUME NEW o, NEW s, Good(s), NEW C, NEW e \in Expr, NEW x \in StagedValidity(o, s, C, e)
  PROVE  Sane(o, x) /\ Validates(C, e, x)
<1>1. CASE x \in CoreValidity(s, C, e)
  BY <1>1, CoreValidates
<1>2. CASE x \notin CoreValidity(s, C, e)
  <2>1. PICK v \in FastValidity(C, e) :
          x \in CASE v = "MustBeTrue"  -> Answer(s, {"True"})
                  [] v = "MustBeFalse" -> Answer(s, {"False"})
                  [] v = "TrueOrFalse" -> Answer(s, {"Unknown"})
                  [] v = "MayBeTrue"   -> Decided(CoreTruth(s, C, e), "True")
                  [] v = "MayBeFalse"  -> Decided(CoreTruth(s, C, Not(e)), "False")
                  [] v = "None"        -> CoreValidity(s, C, e)
    BY <1>2 DEF StagedValidity
  <2>2. CASE v = "MustBeTrue"
    BY <2>1, <2>2, FastKnows, Answers DEF Validates
  <2>3. CASE v = "MustBeFalse"
    BY <2>1, <2>3, FastKnows, Answers DEF Validates
  <2>4. CASE v = "TrueOrFalse"
    BY <2>1, <2>4, FastKnows, Answers DEF Validates
  <2>5. CASE v = "MayBeTrue"
    <3>1. x \in Decided(CoreTruth(s, C, e), "True") /\ ~Valid(C, Not(e))
      BY <2>1, <2>5, FastKnows
    <3> QED
      BY <3>1, CoreTells, Decides
  <2>6. CASE v = "MayBeFalse"
    <3>1. x \in Decided(CoreTruth(s, C, Not(e)), "False") /\ ~Valid(C, e)
      BY <2>1, <2>6, FastKnows
    <3> QED
      BY <3>1, CoreTells, Decides
  <2>7. v # "None"
    BY <1>2, <2>1
  <2> QED
    BY <2>2, <2>3, <2>4, <2>5, <2>6, <2>7, FastKnows
<1> QED
  BY <1>1, <1>2

\* and value.
LEMMA StagedEvaluates ==
  ASSUME NEW o, NEW s, Good(s), NEW C \in SUBSET Expr, Satisfiable(C), NEW e \in Expr,
         NEW x \in StagedValue(o, s, C, e)
  PROVE  Sane(o, x) /\ Evaluates(C, e, x)
<1>1. CASE x \in CoreValue(s, C, e)
  BY <1>1, CoreEvaluates
<1>2. ASSUME NEW a \in Solutions(C, Constant(FALSE)), x \in Answer(s, Truth(a \in e.holds))
      PROVE  Sane(o, x) /\ Evaluates(C, e, x)
  <2>1. a \in Assignments /\ Satisfies(a, C)
    BY NoQuery
  <2> QED
    BY <1>2, <2>1, Answers DEF Evaluates
<1> QED
  BY <1>1, <1>2 DEF StagedValue

-------------------------------------------------------------------------------
(* The counterexample cache.                                               *)

\* An answer of the cache for a key.
Found(key, v) ==
  \/ v = {} /\ ~Satisfiable(key)
  \/ \E b \in Bindings : v = {b} /\ Satisfies(Total(b), key)

\* What the counterexample cache finds for a key is a solution of it, or it has none.
LEMMA SearchFinds ==
  ASSUME NEW o, NEW s, Good(s), NEW key, NEW v \in CexSearch(o, s, key)
  PROVE  Found(key, v)
<1>1. ASSUME NEW x \in s.cex
      PROVE  /\ x.value = {} => ~Satisfiable(x.key)
             /\ x.value # {} => \E b \in Bindings : x.value = {b} /\ Satisfies(Total(b), x.key)
  <2>1. x.value \subseteq Bindings
    BY DEF Good, Chain
  <2> QED
    BY <2>1 DEF Good, CexGood
<1>2. ASSUME NEW x \in s.cex, x.key = key, v = x.value PROVE Found(key, v)
  BY <1>1, <1>2 DEF Found
<1>3. ASSUME NEW x \in s.cex, key \subseteq x.key, x.value # {}, v = x.value PROVE Found(key, v)
  BY <1>1, <1>3 DEF Found, Satisfies
<1>4. ASSUME NEW x \in s.cex, x.key \subseteq key, v = x.value,
             x.value = {} \/ \E b \in x.value : Satisfies(Total(b), key)
      PROVE  Found(key, v)
  BY <1>1, <1>4 DEF Found, Satisfies, Satisfiable
<1>5. ASSUME NEW b \in s.table, Satisfies(Total(b), key), v = {b} PROVE Found(key, v)
  BY <1>5 DEF Found, Good, Chain
<1> DEFINE Solves(w) == \E b \in w : Satisfies(Total(b), key)
           exact  == {x \in s.cex : x.key = key}
           larger == {x \in s.cex : key \subseteq x.key /\ x.value # {}}
           smaller == {x \in s.cex : /\ x.key \subseteq key
                                     /\ x.value = {} \/ (~o.tryAll /\ Solves(x.value))}
<1>6. v \in {x.value : x \in exact} \/ v \in {x.value : x \in larger}
      \/ v \in {x.value : x \in smaller}
      \/ v \in {{b} : b \in {x \in s.table : o.tryAll /\ Satisfies(Total(x), key)}}
  BY DEF CexSearch
<1> QED
  BY <1>2, <1>3, <1>4, <1>5, <1>6

\* The core solver's answer is a good entry.
LEMMA InsertKeeps ==
  ASSUME NEW s, Good(s), NEW key \in SUBSET Expr, NEW v, Found(key, v)
  PROVE  Good(CexInsert(s, key, v)) /\ CexInsert(s, key, v).coreFailed = s.coreFailed
<1> DEFINE d == CexInsert(s, key, v)
           x == [key |-> key, value |-> v]
<1>1. s \in Chain /\ v \in SUBSET Bindings
  BY DEF Good, Found
<1>2. d = [s EXCEPT !.cex = @ \union {x}, !.table = @ \union v]
  BY DEF CexInsert
<1>3. x \in [key : SUBSET Expr, value : SUBSET Bindings]
  BY <1>1
<1>4. /\ d \in Chain /\ d.query = s.query /\ d.cex = s.cex \union {x}
      /\ d.coreFailed = s.coreFailed
  <2> HIDE DEF x, d
  <2> QED
    BY <1>1, <1>2, <1>3 DEF Chain
<1>5. IF x.value = {} THEN ~Satisfiable(x.key)
      ELSE \E b \in x.value : x.value = {b} /\ Satisfies(Total(b), x.key)
  BY DEF Found
<1> HIDE DEF d, x
<1>6. Good(d) /\ d.coreFailed = s.coreFailed
  BY <1>4, <1>5 DEF Good, QueryGood, CexGood
<1> QED
  BY <1>6 DEF d

\* The counterexample cache gives what the core solver may: an assignment,
LEMMA CexBinds ==
  ASSUME NEW o, NEW s, Good(s), NEW C \in SUBSET Expr, NEW e \in Asked,
         NEW x \in CexAssignment(o, s, C, e)
  PROVE  Sane(o, x) /\ Binds(C, e, x)
<1> DEFINE key == CexKey(C, e)
<1>1. /\ key \in SUBSET Expr
      /\ \A b \in Bindings : Satisfies(Total(b), key) <=> Total(b) \in Solutions(C, e)
      /\ Satisfiable(key) <=> ~Valid(C, e)
  BY KeyOfQuery, Totals
<1>2. ASSUME NEW v \in CexSearch(o, s, key), x \in Answer(s, v)
      PROVE  Sane(o, x) /\ Binds(C, e, x)
  BY <1>1, <1>2, SearchFinds, Answers DEF Found, Binds
<1>3. ASSUME NEW y \in StagedInitialValues(s, C, e, Objects(key)),
             x = IF y.status = "ok" THEN [y EXCEPT !.chain = CexInsert(@, key, y.value)] ELSE y
      PROVE  Sane(o, x) /\ Binds(C, e, x)
  <2>1. Sane(o, y) /\ Binds(C, e, y)
    BY <1>3, CoreBinds DEF StagedInitialValues
  <2>2. CASE y.status # "ok"
    BY <1>3, <2>1, <2>2
  <2>3. CASE y.status = "ok"
    <3>1. Found(key, y.value)
      BY <1>1, <2>1, <2>3 DEF Binds, Found
    <3> DEFINE d == CexInsert(y.chain, key, y.value)
    <3>2. Good(d)
      BY <1>1, <2>1, <3>1, InsertKeeps DEF Sane
    <3>3. x = [y EXCEPT !.chain = d]
      BY <1>3, <2>3
    <3> HIDE DEF d, key
    <3>4. x = Outcome(d, "ok", y.value)
      BY <2>1, <2>3, <3>3 DEF Sane, Outcome
    <3> QED
      BY <2>1, <2>3, <3>2, <3>4, OutcomeFields DEF Sane, Binds
  <2> QED
    BY <2>2, <2>3
<1> QED
  BY <1>2, <1>3 DEF CexAssignment

\* a truth,
LEMMA CexTells ==
  ASSUME NEW o, NEW s, Good(s), NEW C \in SUBSET Expr, NEW e \in Expr, NEW x \in CexTruth(o, s, C, e)
  PROVE  Sane(o, x) /\ Truthful(C, e, x)
<1>1. CASE x \in StagedTruth(o, s, C, e)
  BY <1>1, StagedTells
<1>2. CASE o.experimental /\ x \in Failure(s)
  BY <1>2, OutcomeFields DEF Failure, Sane, Truthful
<1>3. ASSUME NEW y \in CexAssignment(o, s, C, e),
             x = [y EXCEPT !.value = IF y.status = "ok" THEN Truth(@ = {}) ELSE @]
      PROVE  Sane(o, x) /\ Truthful(C, e, x)
  <2>1. Sane(o, y) /\ Binds(C, e, y)
    BY CexBinds DEF Asked
  <2> DEFINE v == IF y.status = "ok" THEN Truth(y.value = {}) ELSE y.value
  <2>2. x = [y EXCEPT !.value = v]
    BY <1>3
  <2>3. y.status = "ok" => v = Truth(Valid(C, e))
    <3>1. y.status = "ok" => (y.value = {} <=> Valid(C, e))
      BY <2>1 DEF Binds, Valid
    <3> QED
      BY <3>1 DEF Truth
  <2> HIDE DEF v
  <2> QED
    BY <2>1, <2>2, <2>3, Revalued DEF Truthful
<1> QED
  BY <1>1, <1>2, <1>3 DEF CexTruth

\* An assignment known to satisfy the constraints leaves one question.
LEMMA CexDecides ==
  ASSUME NEW o, NEW s, Good(s), NEW C \in SUBSET Expr, NEW e \in Expr,
         NEW a \in Assignments, Satisfies(a, C), NEW x \in CexDecide(o, s, C, e, a)
  PROVE  Sane(o, x) /\ Validates(C, e, x)
<1> DEFINE q == IF a \in e.holds THEN e ELSE Not(e)
<1>1. PICK y \in CexAssignment(o, s, C, q) :
        x = IF y.status # "ok" THEN y
            ELSE [y EXCEPT !.value = IF @ # {} THEN {"Unknown"} ELSE Truth(a \in e.holds)]
  BY DEF CexDecide
<1>2. q \in Asked /\ Not(e).holds = Assignments \ e.holds
  BY Expressions DEF Asked
<1>3. Sane(o, y) /\ Binds(C, q, y)
  BY <1>2, CexBinds
<1>4. IF a \in e.holds THEN ~Valid(C, Not(e)) ELSE ~Valid(C, e)
  BY <1>2 DEF Valid, Solutions
<1>5. CASE y.status # "ok"
  BY <1>1, <1>3, <1>5 DEF Validates
<1>6. CASE y.status = "ok"
  <2>1. y.value = {} <=> Valid(C, q)
    BY <1>3, <1>6 DEF Binds, Valid
  <2>2. Sane(o, x) /\ x.value = IF y.value # {} THEN {"Unknown"} ELSE Truth(a \in e.holds)
    BY <1>1, <1>3, <1>6, Revalued
  <2> QED
    BY <1>4, <2>1, <2>2 DEF Validates, Truth
<1> QED
  BY <1>5, <1>6

\* The constraints of a path have an assignment.
LEMMA CexAssigns ==
  ASSUME NEW o, NEW s, Good(s), NEW C \in SUBSET Expr, Satisfiable(C),
         NEW x \in CexAssignment(o, s, C, Constant(FALSE))
  PROVE  /\ Sane(o, x)
         /\ x.status = "ok" => \E b \in Bindings : /\ x.value = {b} /\ Total(b) \in Assignments
                                                   /\ Satisfies(Total(b), C)
<1> DEFINE none == Constant(FALSE)
<1>1. none \in Asked
  BY DEF Asked
<1>2. ~Valid(C, none) /\ \A a \in Solutions(C, none) : a \in Assignments /\ Satisfies(a, C)
  BY NoQuery
<1>3. x \in CexAssignment(o, s, C, none)
  OBVIOUS
<1> HIDE DEF none
<1>4. Sane(o, x) /\ Binds(C, none, x)
  BY <1>1, <1>3, CexBinds
<1> QED
  BY <1>2, <1>4 DEF Binds

\* a validity,
LEMMA CexValidates ==
  ASSUME NEW o, NEW s, Good(s), NEW C \in SUBSET Expr, Satisfiable(C), NEW e \in Expr,
         NEW x \in CexValidity(o, s, C, e)
  PROVE  Sane(o, x) /\ Validates(C, e, x)
<1>1. CASE ~o.cex
  BY <1>1, StagedValidates DEF CexValidity
<1>2. CASE o.cex
  <2>1. PICK y \in CexAssignment(o, s, C, Constant(FALSE)) :
          x \in CASE y.status = "failed" -> {y}
                  [] y.status = "ok" /\ y.value = {} -> {Outcome(y.chain, "aborted", {})}
                  [] OTHER -> UNION {CexDecide(o, y.chain, C, e, Total(b)) : b \in y.value}
    BY <1>2 DEF CexValidity
  <2>2. /\ Sane(o, y)
        /\ y.status = "ok" => \E b \in Bindings : /\ y.value = {b} /\ Total(b) \in Assignments
                                                  /\ Satisfies(Total(b), C)
    BY CexAssigns
  <2>3. CASE y.status = "failed"
    BY <2>1, <2>2, <2>3 DEF Validates
  <2>4. CASE y.status = "ok"
    <3>1. PICK b \in Bindings : y.value = {b} /\ Total(b) \in Assignments /\ Satisfies(Total(b), C)
      BY <2>2, <2>4
    <3>2. x \in CexDecide(o, y.chain, C, e, Total(b))
      BY <2>1, <2>4, <3>1
    <3>3. Good(y.chain)
      BY <2>2 DEF Sane
    <3> QED
      BY <3>1, <3>2, <3>3, CexDecides
  <2> QED
    BY <2>2, <2>3, <2>4 DEF Sane
<1> QED
  BY <1>1, <1>2

\* a value,
LEMMA CexEvaluates ==
  ASSUME NEW o, NEW s, Good(s), NEW C \in SUBSET Expr, Satisfiable(C), NEW e \in Expr,
         NEW x \in CexValue(o, s, C, e)
  PROVE  Sane(o, x) /\ Evaluates(C, e, x)
<1>1. CASE ~o.cex
  BY <1>1, StagedEvaluates DEF CexValue
<1>2. CASE o.cex
  <2>1. PICK y \in CexAssignment(o, s, C, Constant(FALSE)) :
          x = IF y.status = "failed" THEN y
              ELSE IF y.value = {} THEN Outcome(y.chain, "aborted", {}) ELSE ValueUnder(e, y)
    BY <1>2 DEF CexValue
  <2>2. /\ Sane(o, y)
        /\ y.status = "ok" => \E b \in Bindings : /\ y.value = {b} /\ Total(b) \in Assignments
                                                  /\ Satisfies(Total(b), C)
    BY CexAssigns
  <2>3. CASE y.status = "failed"
    BY <2>1, <2>2, <2>3 DEF Evaluates
  <2>4. CASE y.status = "ok"
    <3>1. PICK b \in Bindings : y.value = {b} /\ Total(b) \in Assignments /\ Satisfies(Total(b), C)
      BY <2>2, <2>4
    <3>2. x = ValueUnder(e, y)
      BY <2>1, <2>4, <3>1
    <3> QED
      BY <2>2, <3>1, <3>2, ValueTells
  <2> QED
    BY <2>2, <2>3, <2>4 DEF Sane
<1> QED
  BY <1>1, <1>2

\* Initial values of all arrays are an assignment.
LEMMA AllArrays ==
  ASSUME NEW a \in Assignments
  PROVE  Binding(a, Array) = a
<1>1. UNION {CellsOf(x) : x \in Array} = Cell
  BY Expressions DEF CellsOf
<1> QED
  BY <1>1 DEF Binding, Assignments

\* and initial values.
LEMMA CexInitial ==
  ASSUME NEW o, NEW s, Good(s), NEW C \in SUBSET Expr, Satisfiable(C),
         NEW x \in CexInitialValues(o, s, C, Constant(FALSE), Array)
  PROVE  Sane(o, x) /\ (x.status = "ok" => \E a \in Assignments : x.value = {a} /\ Satisfies(a, C))
<1> DEFINE none == Constant(FALSE)
<1>1. ~Valid(C, none) /\ \A a \in Solutions(C, none) : a \in Assignments /\ Satisfies(a, C)
  BY NoQuery
<1>2. CASE ~o.cex
  <2>1. x \in CoreInitialValues(s, C, none, Array)
    BY <1>2 DEF CexInitialValues, StagedInitialValues
  <2> HIDE DEF none
  <2>2. /\ Sane(o, x)
        /\ x.status = "ok" => \/ x.value = {} /\ Valid(C, none)
                              \/ \E a \in Solutions(C, none) : x.value = {Binding(a, Array)}
    BY <2>1, CoreFinds
  <2> QED
    BY <1>1, <2>2, AllArrays
<1>3. CASE o.cex
  <2>1. PICK y \in CexAssignment(o, s, C, none) :
          x = [y EXCEPT !.value = {Binding(Total(b), Array) : b \in @}]
    BY <1>3 DEF CexInitialValues
  <2>2. /\ Sane(o, y)
        /\ y.status = "ok" => \E b \in Bindings : /\ y.value = {b} /\ Total(b) \in Assignments
                                                  /\ Satisfies(Total(b), C)
    BY CexAssigns
  <2> DEFINE v == {Binding(Total(b), Array) : b \in y.value}
  <2>3. y.status = "ok" => \E a \in Assignments : v = {a} /\ Satisfies(a, C)
    BY <2>2, AllArrays
  <2>4. x = [y EXCEPT !.value = v]
    BY <2>1
  <2> HIDE DEF v
  <2> QED
    BY <2>2, <2>3, <2>4, Revalued
<1> QED
  BY <1>2, <1>3

-------------------------------------------------------------------------------
(* The query cache.                                                        *)

\* What is said of an expression and of its negation.
LEMMA NegatedSays ==
  ASSUME NEW C, NEW e \in Expr, NEW v \in Partial
  PROVE  /\ Negated(v) \in Partial /\ Negated(Negated(v)) = v
         /\ Says(C, Not(e), v) <=> Says(C, e, Negated(v))
<1>1. Not(Not(e)) = e
  BY Expressions
<1> QED
  BY <1>1 DEF Negated, Says, Partial

\* The canonical expression and its validity say the same as e and its own.
LEMMA OrientedSays ==
  ASSUME NEW C, NEW e \in Expr, NEW v \in Partial
  PROVE  /\ CanonicalOf(e) \in Expr /\ CanonicalOf(e) \in Canonical
         /\ Oriented(e, v) \in Partial /\ Oriented(e, Oriented(e, v)) = v
         /\ Says(C, CanonicalOf(e), v) <=> Says(C, e, Oriented(e, v))
<1>1. Not(e) \in Expr /\ (e \in Canonical <=> Not(e) \notin Canonical)
  BY ChainAssumption
<1>2. CASE e \in Canonical
  BY <1>1, <1>2 DEF CanonicalOf, Oriented
<1>3. CASE e \notin Canonical
  BY <1>1, <1>3, NegatedSays DEF CanonicalOf, Oriented
<1> QED
  BY <1>2, <1>3

\* What the query cache finds is true, and one validity at most.
LEMMA LookupTells ==
  ASSUME NEW s, Good(s), NEW C, NEW e \in Expr
  PROVE  /\ \A v \in QueryLookup(s, C, e) : v \in Partial /\ Satisfiable(C) /\ Says(C, e, v)
         /\ \A v, w \in QueryLookup(s, C, e) : v = w
<1> DEFINE found == {y \in s.query : y.constraints = C /\ y.expr = CanonicalOf(e)}
<1>1. \A x, y \in found : x = y
  BY DEF Good, QueryGood
<1>2. ASSUME NEW x \in found
      PROVE  /\ Oriented(e, x.validity) \in Partial /\ Satisfiable(C)
             /\ Says(C, e, Oriented(e, x.validity))
  <2>1. x.validity \in Partial
    BY DEF Good, Chain
  <2>2. Satisfiable(C) /\ Says(C, CanonicalOf(e), x.validity)
    BY DEF Good, QueryGood
  <2> QED
    BY <2>1, <2>2, OrientedSays
<1>3. QueryLookup(s, C, e) = {Oriented(e, x.validity) : x \in found}
  BY DEF QueryLookup
<1> HIDE DEF found
<1> QED
  BY <1>1, <1>2, <1>3

\* An entry that is true leaves the query cache good.
LEMMA QueryInserts ==
  ASSUME NEW s, Good(s), NEW C \in SUBSET Expr, Satisfiable(C), NEW e \in Expr,
         NEW v \in Partial, Says(C, e, v)
  PROVE  Good(QueryInsert(s, C, e, v)) /\ QueryInsert(s, C, e, v).coreFailed = s.coreFailed
<1>1. CASE QueryLookup(s, C, e) # {}
  BY <1>1 DEF QueryInsert
<1>2. CASE QueryLookup(s, C, e) = {}
  <2> DEFINE x == [constraints |-> C, expr |-> CanonicalOf(e), validity |-> Oriented(e, v)]
             d == [s EXCEPT !.query = @ \union {x}]
  <2>1. d = QueryInsert(s, C, e, v) /\ s \in Chain
    BY <1>2 DEF QueryInsert, Good
  <2>2. /\ x \in [constraints : SUBSET Expr, expr : Expr, validity : Partial]
        /\ x.expr \in Canonical /\ Satisfiable(x.constraints)
        /\ Says(x.constraints, x.expr, x.validity)
    <3>1. Oriented(e, v) \in Partial /\ Oriented(e, Oriented(e, v)) = v
      BY OrientedSays
    <3>2. Says(C, CanonicalOf(e), Oriented(e, v))
      BY <3>1, OrientedSays
    <3> QED
      BY <3>1, <3>2, OrientedSays
  <2>3. \A y \in s.query : ~(y.constraints = x.constraints /\ y.expr = x.expr)
    BY <1>2 DEF QueryLookup
  <2> HIDE DEF x
  <2>4. d \in Chain /\ d.query = s.query \union {x} /\ d.cex = s.cex /\ d.coreFailed = s.coreFailed
    BY <2>1, <2>2 DEF Chain
  <2> HIDE DEF d
  <2>5. CexGood(d)
    BY <2>4 DEF Good, CexGood
  <2>6. QueryGood(d)
    BY <2>2, <2>3, <2>4 DEF Good, QueryGood
  <2> QED
    BY <2>1, <2>4, <2>5, <2>6 DEF Good
<1> QED
  BY <1>1, <1>2

\* An answer that is cached.
LEMMA Cached ==
  ASSUME NEW o, NEW x, Sane(o, x), x.status = "ok", NEW C \in SUBSET Expr, Satisfiable(C),
         NEW e \in Expr, NEW v \in Partial, Says(C, e, v)
  PROVE  LET y == [x EXCEPT !.chain = QueryInsert(@, C, e, v)]
         IN  Sane(o, y) /\ y.status = "ok" /\ y.value = x.value
<1> DEFINE d == QueryInsert(x.chain, C, e, v)
           y == [x EXCEPT !.chain = d]
<1>1. Good(d)
  BY QueryInserts DEF Sane
<1> HIDE DEF d
<1>2. y = Outcome(d, "ok", x.value)
  BY DEF Sane, Outcome
<1> HIDE DEF y
<1>3. Sane(o, y) /\ y.status = "ok" /\ y.value = x.value
  BY <1>1, <1>2, OutcomeFields DEF Sane
<1> QED
  BY <1>3 DEF y, d

\* The query cache gives what the layers below may: a validity,
LEMMA CachingValidates ==
  ASSUME NEW o, NEW s, Good(s), NEW C \in SUBSET Expr, Satisfiable(C), NEW e \in Expr,
         NEW x \in CachingValidity(o, s, C, e)
  PROVE  Sane(o, x) /\ Validates(C, e, x)
<1> DEFINE found == QueryLookup(s, C, e)
           asked == CASE found = {} -> CexValidity(o, s, C, e)
                      [] found = {"MayBeTrue"}  -> Decided(CexTruth(o, s, C, e), "True")
                      [] found = {"MayBeFalse"} -> Decided(CexTruth(o, s, C, Not(e)), "False")
<1>1. CASE ~o.cache
  BY <1>1, CexValidates DEF CachingValidity
<1>2. /\ \A v \in found : v \in Partial /\ Says(C, e, v)
      /\ \A v, w \in found : v = w
  BY LookupTells
<1>3. ASSUME NEW v \in found, v \in {"MustBeTrue", "MustBeFalse", "TrueOrFalse"}, x \in Answer(s, AnswerOf(v))
      PROVE  Sane(o, x) /\ Validates(C, e, x)
  <2>1. Sane(o, x) /\ x.value = AnswerOf(v) /\ Says(C, e, v)
    BY <1>2, <1>3, Answers
  <2> QED
    BY <1>3, <2>1 DEF Validates, AnswerOf, Says
<1>4. ASSUME found \intersect {"MustBeTrue", "MustBeFalse", "TrueOrFalse"} = {},
             NEW y \in asked,
             x = IF y.status = "ok" THEN [y EXCEPT !.chain = QueryInsert(@, C, e, ValidityOf(y.value))] ELSE y
      PROVE  Sane(o, x) /\ Validates(C, e, x)
  <2>1. found = {} \/ found = {"MayBeTrue"} \/ found = {"MayBeFalse"}
    BY <1>2, <1>4 DEF Partial
  <2>2. Sane(o, y) /\ Validates(C, e, y)
    <3>1. CASE found = {}
      BY <1>4, <3>1, CexValidates
    <3>2. CASE found = {"MayBeTrue"}
      <4>1. y \in Decided(CexTruth(o, s, C, e), "True") /\ ~Valid(C, Not(e))
        BY <1>2, <1>4, <3>2 DEF Says
      <4> QED
        BY <4>1, CexTells, Decides
    <3>3. CASE found = {"MayBeFalse"}
      <4>1. y \in Decided(CexTruth(o, s, C, Not(e)), "False") /\ ~Valid(C, e)
        BY <1>2, <1>4, <3>3 DEF Says
      <4> QED
        BY <4>1, CexTells, Decides, Expressions
    <3> QED
      BY <2>1, <3>1, <3>2, <3>3
  <2>3. CASE y.status # "ok"
    BY <1>4, <2>2, <2>3
  <2>4. CASE y.status = "ok"
    <3>1. ValidityOf(y.value) \in Partial /\ Says(C, e, ValidityOf(y.value))
      BY <2>2, <2>4 DEF Validates, ValidityOf, Partial, Says
    <3>2. x = [y EXCEPT !.chain = QueryInsert(@, C, e, ValidityOf(y.value))]
      BY <1>4, <2>4
    <3> QED
      BY <2>2, <2>4, <3>1, <3>2, Cached DEF Validates
  <2> QED
    BY <2>3, <2>4
<1>5. \/ ~o.cache
      \/ \E v \in found : /\ v \in {"MustBeTrue", "MustBeFalse", "TrueOrFalse"}
                          /\ x \in Answer(s, AnswerOf(v))
      \/ /\ found \intersect {"MustBeTrue", "MustBeFalse", "TrueOrFalse"} = {}
         /\ x \in Inserting(asked, C, e)
  <2>1. CASE o.cache /\ found \intersect {"MustBeTrue", "MustBeFalse", "TrueOrFalse"} # {}
    <3>1. x \in UNION {Answer(s, AnswerOf(v)) : v \in found}
      BY <2>1 DEF CachingValidity
    <3> QED
      BY <1>2, <2>1, <3>1
  <2>2. CASE o.cache /\ found \intersect {"MustBeTrue", "MustBeFalse", "TrueOrFalse"} = {}
    BY <2>2 DEF CachingValidity
  <2> QED
    BY <2>1, <2>2
<1> HIDE DEF found, asked
<1> QED
  BY <1>1, <1>3, <1>4, <1>5 DEF Inserting

\* and a truth.
LEMMA CachingTells ==
  ASSUME NEW o, NEW s, Good(s), NEW C \in SUBSET Expr, Satisfiable(C), NEW e \in Expr,
         NEW x \in CachingTruth(o, s, C, e)
  PROVE  Sane(o, x) /\ Truthful(C, e, x)
<1> DEFINE found == QueryLookup(s, C, e)
<1>1. CASE ~o.cache
  BY <1>1, CexTells DEF CachingTruth
<1>2. /\ \A v \in found : v \in Partial /\ Says(C, e, v)
      /\ \A v, w \in found : v = w
  BY LookupTells
<1>3. ASSUME NEW v \in found, found # {"MayBeTrue"}, x \in Answer(s, Truth(found = {"MustBeTrue"}))
      PROVE  Sane(o, x) /\ Truthful(C, e, x)
  <2>1. found = {v} /\ v \in Partial /\ Says(C, e, v)
    BY <1>2
  <2>2. (v = "MustBeTrue") <=> Valid(C, e)
    BY <1>3, <2>1, NotBoth DEF Partial, Says
  <2>3. Truth(found = {"MustBeTrue"}) = Truth(Valid(C, e))
    BY <2>1, <2>2 DEF Truth
  <2> QED
    BY <1>3, <2>3, Answers DEF Truthful
<1>4. ASSUME NEW y \in CexTruth(o, s, C, e), found = {} \/ found = {"MayBeTrue"},
             x = IF y.status # "ok" THEN y
                 ELSE [y EXCEPT !.chain = QueryInsert(@, C, e, TruthCached(y.value, found # {}))]
      PROVE  Sane(o, x) /\ Truthful(C, e, x)
  <2>1. Sane(o, y) /\ Truthful(C, e, y)
    BY CexTells
  <2>2. CASE y.status # "ok"
    BY <1>4, <2>1, <2>2
  <2>3. CASE y.status = "ok"
    <3> DEFINE v == TruthCached(y.value, found # {})
    <3>1. v = IF Valid(C, e) THEN "MustBeTrue" ELSE IF found # {} THEN "TrueOrFalse" ELSE "MayBeFalse"
      BY <2>1, <2>3 DEF TruthCached, Truthful, Truth
    <3>2. found # {} => ~Valid(C, Not(e))
      BY <1>2, <1>4 DEF Says
    <3>3. v \in Partial /\ Says(C, e, v)
      BY <3>1, <3>2 DEF Partial, Says
    <3>4. x = [y EXCEPT !.chain = QueryInsert(@, C, e, v)]
      BY <1>4, <2>3
    <3> HIDE DEF v
    <3> QED
      BY <2>1, <2>3, <3>3, <3>4, Cached DEF Truthful
  <2> QED
    BY <2>2, <2>3
<1>5. \/ ~o.cache
      \/ found # {} /\ found # {"MayBeTrue"} /\ x \in Answer(s, Truth(found = {"MustBeTrue"}))
      \/ /\ found = {} \/ found = {"MayBeTrue"}
         /\ \E y \in CexTruth(o, s, C, e) :
              x = IF y.status # "ok" THEN y
                  ELSE [y EXCEPT !.chain = QueryInsert(@, C, e, TruthCached(y.value, found # {}))]
  BY DEF CachingTruth
<1> HIDE DEF found
<1> QED
  BY <1>1, <1>3, <1>4, <1>5

-------------------------------------------------------------------------------
(* Answers that are kept.  What the caches have they keep (Grown), and an  *)
(* entry that answers for a query answers again (Hit, Ready).              *)

Grown(s, d) == s.query \subseteq d.query /\ s.cex \subseteq d.cex /\ s.table \subseteq d.table

\* The counterexample cache answers for the key.
Hit(o, s, key) ==
  \/ \E x \in s.cex : x.key = key
  \/ \E x \in s.cex : key \subseteq x.key /\ x.value # {}
  \/ \E x \in s.cex : /\ x.key \subseteq key
                      /\ x.value = {} \/ (~o.tryAll /\ \E b \in x.value : Satisfies(Total(b), key))
  \/ o.tryAll /\ \E x \in s.table : Satisfies(Total(x), key)

\* What an outcome of a lookup has to do with the cache: a hit never fails, and what did
\* not fail is a hit from then on.
Settles(o, s, key, x) ==
  /\ Grown(s, x.chain) /\ x.chain.query = s.query
  /\ Hit(o, s, key) => x.status = "ok"
  /\ x.status = "ok" => Hit(o, x.chain, key)

\* The search of the counterexample cache finds something exactly when there is a hit.
LEMMA HitFinds ==
  ASSUME NEW o, NEW s, NEW key
  PROVE  CexSearch(o, s, key) # {} <=> Hit(o, s, key)
<1> DEFINE Values(S) == {x.value : x \in S}
           Solves(v) == \E b \in v : Satisfies(Total(b), key)
           exact  == {x \in s.cex : x.key = key}
           larger == {x \in s.cex : key \subseteq x.key /\ x.value # {}}
           smaller == {x \in s.cex : /\ x.key \subseteq key
                                     /\ x.value = {} \/ (~o.tryAll /\ Solves(x.value))}
           table == {x \in s.table : o.tryAll /\ Satisfies(Total(x), key)}
<1>1. CexSearch(o, s, key) =
        CASE exact # {} -> Values(exact)
          [] exact = {} /\ larger # {} -> Values(larger)
          [] exact = {} /\ larger = {} /\ smaller # {} -> Values(smaller)
          [] OTHER -> {{b} : b \in table}
  BY DEF CexSearch
<1>2. /\ exact # {} <=> \E x \in s.cex : x.key = key
      /\ larger # {} <=> \E x \in s.cex : key \subseteq x.key /\ x.value # {}
      /\ table # {} <=> o.tryAll /\ \E x \in s.table : Satisfies(Total(x), key)
  OBVIOUS
<1>3. smaller # {} <=> \E x \in s.cex : /\ x.key \subseteq key
                                        /\ x.value = {} \/ (~o.tryAll /\ Solves(x.value))
  OBVIOUS
<1>4. Hit(o, s, key) <=> exact # {} \/ larger # {} \/ smaller # {} \/ table # {}
  BY <1>2, <1>3 DEF Hit
<1>5. /\ exact # {} => Values(exact) # {}
      /\ larger # {} => Values(larger) # {}
      /\ smaller # {} => Values(smaller) # {}
      /\ {{b} : b \in table} # {} <=> table # {}
  OBVIOUS
<1> HIDE DEF exact, larger, smaller, table, Values
<1> QED
  BY <1>1, <1>4, <1>5

\* A hit stays one as the caches grow.
LEMMA HitStays ==
  ASSUME NEW o, NEW s, NEW d, Grown(s, d), NEW key, Hit(o, s, key)
  PROVE  Hit(o, d, key)
BY DEF Grown, Hit

\* An outcome of which at most the value is changed.
LEMMA SameBut ==
  ASSUME NEW o, NEW y, Sane(o, y), NEW x, x = y \/ \E v : x = [y EXCEPT !.value = v]
  PROVE  x.status = y.status /\ x.chain = y.chain
<1>1. CASE x = y
  BY <1>1
<1>2. ASSUME NEW v, x = [y EXCEPT !.value = v] PROVE x.status = y.status /\ x.chain = y.chain
  BY <1>2, Revalued
<1> QED
  BY <1>1, <1>2

\* The core solver leaves the caches alone.
LEMMA CoreGrows ==
  ASSUME NEW s, Good(s), NEW C, NEW e, NEW xs, NEW x \in CoreInitialValues(s, C, e, xs)
  PROVE  Grown(s, x.chain) /\ x.chain.query = s.query
<1> DEFINE d == [s EXCEPT !.coreFailed = TRUE]
<1>1. \/ x = Outcome(d, "failed", {})
      \/ x = Outcome(s, "ok", {})
      \/ \E a \in Solutions(C, e) : x = Outcome(s, "ok", {Binding(a, xs)})
  BY DEF CoreInitialValues, Failure, Answer
<1>2. s \in Chain
  BY DEF Good
<1>3. d.query = s.query /\ d.cex = s.cex /\ d.table = s.table
  BY <1>2 DEF Chain
<1> HIDE DEF d
<1>4. PICK status, v : x = Outcome(d, status, v) \/ x = Outcome(s, status, v)
  BY <1>1
<1>5. x.chain = s \/ x.chain = d
  BY <1>4, OutcomeFields
<1> QED
  BY <1>3, <1>5 DEF Grown

\* A lookup answers from the cache, or puts there what the core solver answers.
LEMMA AssignmentSettles ==
  ASSUME NEW o, NEW s, Good(s), NEW C \in SUBSET Expr, NEW e \in Asked,
         NEW x \in CexAssignment(o, s, C, e)
  PROVE  Settles(o, s, CexKey(C, e), x)
<1> DEFINE key == CexKey(C, e)
<1>1. Hit(o, s, key) <=> CexSearch(o, s, key) # {}
  BY HitFinds
<1>2. CASE Hit(o, s, key)
  <2>1. PICK v \in CexSearch(o, s, key) : x \in Answer(s, v)
    BY <1>1, <1>2 DEF CexAssignment
  <2>2. x.chain = s /\ x.status = "ok"
    BY <2>1, OutcomeFields DEF Answer
  <2> QED
    BY <1>2, <2>2 DEF Settles, Grown
<1>3. CASE ~Hit(o, s, key)
  <2>1. PICK y \in StagedInitialValues(s, C, e, Objects(key)) :
          x = IF y.status = "ok" THEN [y EXCEPT !.chain = CexInsert(@, key, y.value)] ELSE y
    BY <1>1, <1>3 DEF CexAssignment
  <2>2. Sane(o, y) /\ Grown(s, y.chain) /\ y.chain.query = s.query
    BY <2>1, CoreBinds, CoreGrows DEF StagedInitialValues
  <2>3. CASE y.status # "ok"
    BY <1>3, <2>1, <2>2, <2>3 DEF Settles
  <2>4. CASE y.status = "ok"
    <3> DEFINE d == CexInsert(y.chain, key, y.value)
               z == [key |-> key, value |-> y.value]
    <3>1. y.chain \in Chain
      BY <2>2 DEF Sane, Good
    <3>2. d.query = y.chain.query /\ d.cex = y.chain.cex \union {z} /\ d.table = y.chain.table \union y.value
      BY <3>1 DEF Chain, CexInsert
    <3>3. x = [y EXCEPT !.chain = d]
      BY <2>1, <2>4
    <3> HIDE DEF d
    <3>4. x = Outcome(d, "ok", y.value)
      BY <2>2, <2>4, <3>3 DEF Sane, Outcome
    <3>5. x.chain = d /\ x.status = "ok"
      BY <3>4, OutcomeFields
    <3>6. Grown(s, d) /\ d.query = s.query
      BY <2>2, <3>2 DEF Grown
    <3>7. z \in d.cex /\ z.key = key
      BY <3>2
    <3>8. Hit(o, d, key)
      BY <3>7 DEF Hit
    <3> QED
      BY <3>5, <3>6, <3>8 DEF Settles
  <2> QED
    BY <2>3, <2>4
<1> QED
  BY <1>2, <1>3

\* So does the truth of a query,
LEMMA TruthSettles ==
  ASSUME NEW o, o.cex, ~o.experimental, NEW s, Good(s), NEW C \in SUBSET Expr, NEW e \in Expr,
         NEW x \in CexTruth(o, s, C, e)
  PROVE  Settles(o, s, CexKey(C, e), x)
<1>1. PICK y \in CexAssignment(o, s, C, e) :
        x = [y EXCEPT !.value = IF y.status = "ok" THEN Truth(@ = {}) ELSE @]
  BY DEF CexTruth
<1>2. Settles(o, s, CexKey(C, e), y) /\ Sane(o, y)
  BY AssignmentSettles, CexBinds DEF Asked
<1> DEFINE v == IF y.status = "ok" THEN Truth(y.value = {}) ELSE y.value
<1>3. x = [y EXCEPT !.value = v]
  BY <1>1
<1> HIDE DEF v
<1>4. x.status = y.status /\ x.chain = y.chain
  BY <1>2, <1>3, Revalued
<1> QED
  BY <1>2, <1>4 DEF Settles

\* and its use for the other half of a validity,
LEMMA DecidedSettles ==
  ASSUME NEW o, o.cex, ~o.experimental, NEW s, Good(s), NEW C \in SUBSET Expr, NEW e \in Expr,
         NEW validity, NEW x \in Decided(CexTruth(o, s, C, e), validity)
  PROVE  Settles(o, s, CexKey(C, e), x)
<1>1. PICK y \in CexTruth(o, s, C, e) :
        x = IF y.status = "ok"
            THEN [y EXCEPT !.value = IF @ = Truth(TRUE) THEN {validity} ELSE {"Unknown"}]
            ELSE y
  BY DEF Decided
<1>2. Settles(o, s, CexKey(C, e), y) /\ Sane(o, y)
  BY TruthSettles, CexTells
<1> DEFINE v == IF y.value = Truth(TRUE) THEN {validity} ELSE {"Unknown"}
<1>3. x = y \/ x = [y EXCEPT !.value = v]
  BY <1>1
<1>4. x.status = y.status /\ x.chain = y.chain
  BY <1>2, <1>3, SameBut
<1> QED
  BY <1>2, <1>4 DEF Settles

\* and the value of an expression,
LEMMA ValueSettles ==
  ASSUME NEW o, o.cex, NEW s, Good(s), NEW C \in SUBSET Expr, Satisfiable(C), NEW e,
         NEW x \in CexValue(o, s, C, e)
  PROVE  Settles(o, s, CexKey(C, Constant(FALSE)), x)
<1> DEFINE none == Constant(FALSE)
<1>0. none \in Asked
  BY DEF Asked
<1>1. PICK y \in CexAssignment(o, s, C, none) :
        x = IF y.status = "failed" THEN y
            ELSE IF y.value = {} THEN Outcome(y.chain, "aborted", {}) ELSE ValueUnder(e, y)
  BY DEF CexValue
<1>2. Sane(o, y) /\ (y.status = "ok" => y.value # {})
  <2>1. /\ Sane(o, y)
        /\ y.status = "ok" => \E b \in Bindings : /\ y.value = {b} /\ Total(b) \in Assignments
                                                  /\ Satisfies(Total(b), C)
    BY CexAssigns
  <2> QED
    BY <2>1
<1> HIDE DEF none
<1>3. Settles(o, s, CexKey(C, none), y)
  BY <1>0, <1>1, AssignmentSettles
<1>4. x = y \/ \E v : x = [y EXCEPT !.value = v]
  BY <1>1, <1>2 DEF Sane, ValueUnder
<1>5. x.status = y.status /\ x.chain = y.chain
  BY <1>2, <1>4, SameBut
<1>6. Settles(o, s, CexKey(C, none), x)
  BY <1>3, <1>5 DEF Settles
<1> QED
  BY <1>6 DEF none

\* and the initial values.
LEMMA InitialSettles ==
  ASSUME NEW o, o.cex, NEW s, Good(s), NEW C \in SUBSET Expr, Satisfiable(C), NEW xs,
         NEW x \in CexInitialValues(o, s, C, Constant(FALSE), xs)
  PROVE  Settles(o, s, CexKey(C, Constant(FALSE)), x)
<1> DEFINE none == Constant(FALSE)
<1>0. none \in Asked
  BY DEF Asked
<1>1. PICK y \in CexAssignment(o, s, C, none) :
        x = [y EXCEPT !.value = {Binding(Total(b), xs) : b \in @}]
  BY DEF CexInitialValues
<1>2. Sane(o, y)
  BY <1>1, CexAssigns
<1> HIDE DEF none
<1>3. Settles(o, s, CexKey(C, none), y)
  BY <1>0, <1>1, AssignmentSettles
<1> DEFINE v == {Binding(Total(b), xs) : b \in y.value}
<1>4. x = [y EXCEPT !.value = v]
  BY <1>1
<1> HIDE DEF v
<1>5. x.status = y.status /\ x.chain = y.chain
  BY <1>2, <1>4, Revalued
<1>6. Settles(o, s, CexKey(C, none), x)
  BY <1>3, <1>5 DEF Settles
<1> QED
  BY <1>6 DEF none

\* A validity asks the cache twice, and only adds to it.
LEMMA ValidityGrows ==
  ASSUME NEW o, o.cex, NEW s, Good(s), NEW C \in SUBSET Expr, Satisfiable(C), NEW e \in Expr,
         NEW x \in CexValidity(o, s, C, e)
  PROVE  Grown(s, x.chain) /\ x.chain.query = s.query
<1> DEFINE none == Constant(FALSE)
<1>0. none \in Asked
  BY DEF Asked
<1>1. PICK y \in CexAssignment(o, s, C, none) :
        x \in CASE y.status = "failed" -> {y}
                [] y.status = "ok" /\ y.value = {} -> {Outcome(y.chain, "aborted", {})}
                [] OTHER -> UNION {CexDecide(o, y.chain, C, e, Total(b)) : b \in y.value}
  BY DEF CexValidity
<1>2. Sane(o, y) /\ (y.status = "ok" => y.value # {})
  <2>1. /\ Sane(o, y)
        /\ y.status = "ok" => \E b \in Bindings : /\ y.value = {b} /\ Total(b) \in Assignments
                                                  /\ Satisfies(Total(b), C)
    BY CexAssigns
  <2> QED
    BY <2>1
<1> HIDE DEF none
<1>3. Grown(s, y.chain) /\ y.chain.query = s.query
  BY <1>0, <1>1, AssignmentSettles DEF Settles
<1>4. CASE x = y
  BY <1>3, <1>4
<1>5. ASSUME NEW b \in y.value, x \in CexDecide(o, y.chain, C, e, Total(b))
      PROVE  Grown(s, x.chain) /\ x.chain.query = s.query
  <2> DEFINE a == Total(b)
             q == IF a \in e.holds THEN e ELSE Not(e)
  <2>1. PICK z \in CexAssignment(o, y.chain, C, q) :
          x = IF z.status # "ok" THEN z
              ELSE [z EXCEPT !.value = IF @ # {} THEN {"Unknown"} ELSE Truth(a \in e.holds)]
    BY <1>5 DEF CexDecide
  <2>2. q \in Asked /\ Good(y.chain)
    BY <1>2, Expressions DEF Asked, Sane
  <2> HIDE DEF q
  <2>3. Sane(o, z) /\ Grown(y.chain, z.chain) /\ z.chain.query = y.chain.query
    BY <2>1, <2>2, CexBinds, AssignmentSettles DEF Settles
  <2>4. x = z \/ \E v : x = [z EXCEPT !.value = v]
    BY <2>1
  <2>5. x.chain = z.chain
    BY <2>3, <2>4, SameBut
  <2> QED
    BY <1>3, <2>3, <2>5 DEF Grown
<1> QED
  BY <1>1, <1>2, <1>4, <1>5 DEF Sane

\* A cached validity stays, as the cache has one entry for an expression.
LEMMA LookupStays ==
  ASSUME NEW s, NEW d, Grown(s, d), Good(d), NEW C, NEW e \in Expr, QueryLookup(s, C, e) # {}
  PROVE  QueryLookup(d, C, e) = QueryLookup(s, C, e)
<1>1. QueryLookup(s, C, e) \subseteq QueryLookup(d, C, e)
  BY DEF Grown, QueryLookup
<1>2. \A v, w \in QueryLookup(d, C, e) : v = w
  BY LookupTells
<1> QED
  BY <1>1, <1>2

\* The query cache after an entry was to be made.
LEMMA InsertGrows ==
  ASSUME NEW s, Good(s), NEW C, NEW e \in Expr, NEW v \in Partial
  PROVE  /\ Grown(s, QueryInsert(s, C, e, v))
         /\ QueryLookup(s, C, e) = {} => v \in QueryLookup(QueryInsert(s, C, e, v), C, e)
<1>1. CASE QueryLookup(s, C, e) # {}
  BY <1>1 DEF QueryInsert, Grown
<1>2. CASE QueryLookup(s, C, e) = {}
  <2> DEFINE x == [constraints |-> C, expr |-> CanonicalOf(e), validity |-> Oriented(e, v)]
             d == [s EXCEPT !.query = @ \union {x}]
  <2>1. d = QueryInsert(s, C, e, v) /\ s \in Chain
    BY <1>2 DEF QueryInsert, Good
  <2>2. d.query = s.query \union {x} /\ d.cex = s.cex /\ d.table = s.table
    BY <2>1 DEF Chain
  <2>3. x \in {y \in d.query : y.constraints = C /\ y.expr = CanonicalOf(e)}
    BY <2>2
  <2>4. x.validity = Oriented(e, v) /\ Oriented(e, x.validity) = v
    BY OrientedSays
  <2> HIDE DEF x, d
  <2>5. v \in QueryLookup(d, C, e)
    BY <2>3, <2>4 DEF QueryLookup
  <2> QED
    BY <2>1, <2>2, <2>5 DEF Grown
<1> QED
  BY <1>1, <1>2

\* With these the next truth of e needs no core solver,
TruthReady(o, s, C, e) ==
  LET found == QueryLookup(s, C, e)
  IN  \/ o.cache /\ found # {} /\ found # {"MayBeTrue"}
      \/ Hit(o, s, CexKey(C, e))

\* nor does the next validity: it is known, or one half and the truth of the other.
ValidityReady(o, s, C, e) ==
  LET found == QueryLookup(s, C, e)
  IN  \/ found \intersect {"MustBeTrue", "MustBeFalse", "TrueOrFalse"} # {}
      \/ found = {"MayBeTrue"} /\ Hit(o, s, CexKey(C, e))
      \/ found = {"MayBeFalse"} /\ Hit(o, s, CexKey(C, Not(e)))

\* The query cache keeps the answers of a truth,
LEMMA CachingTruthSettles ==
  ASSUME NEW o, o.cex, ~o.experimental, NEW s, Good(s), NEW C \in SUBSET Expr, Satisfiable(C),
         NEW e \in Expr, NEW x \in CachingTruth(o, s, C, e)
  PROVE  /\ Grown(s, x.chain)
         /\ TruthReady(o, s, C, e) => x.status = "ok"
         /\ x.status = "ok" => TruthReady(o, x.chain, C, e)
<1> DEFINE found == QueryLookup(s, C, e)
<1>1. CASE ~o.cache
  BY <1>1, TruthSettles DEF CachingTruth, TruthReady, Settles
<1>2. CASE o.cache /\ found # {} /\ found # {"MayBeTrue"}
  <2>1. x \in Answer(s, Truth(found = {"MustBeTrue"}))
    BY <1>2 DEF CachingTruth
  <2>2. x.chain = s /\ x.status = "ok"
    BY <2>1, OutcomeFields DEF Answer
  <2> QED
    BY <1>2, <2>2 DEF Grown, TruthReady
<1>3. CASE o.cache /\ ~(found # {} /\ found # {"MayBeTrue"})
  <2>1. PICK y \in CexTruth(o, s, C, e) :
          x = IF y.status # "ok" THEN y
              ELSE [y EXCEPT !.chain = QueryInsert(@, C, e, TruthCached(y.value, found # {}))]
    BY <1>3 DEF CachingTruth
  <2>2. Sane(o, y) /\ Settles(o, s, CexKey(C, e), y)
    BY CexTells, TruthSettles
  <2>3. TruthReady(o, s, C, e) => y.status = "ok"
    BY <1>3, <2>2 DEF TruthReady, Settles
  <2>4. CASE y.status # "ok"
    BY <2>1, <2>2, <2>3, <2>4 DEF Settles
  <2>5. CASE y.status = "ok"
    <3> DEFINE v == TruthCached(y.value, found # {})
               d == QueryInsert(y.chain, C, e, v)
    <3>1. v \in Partial
      BY DEF TruthCached, Partial
    <3>2. x = [y EXCEPT !.chain = d]
      BY <2>1, <2>5
    <3> HIDE DEF v
    <3>3. Grown(y.chain, d)
      BY <2>2, <3>1, InsertGrows DEF Sane
    <3> HIDE DEF d
    <3>4. x = Outcome(d, "ok", y.value)
      BY <2>2, <2>5, <3>2 DEF Sane, Outcome
    <3>5. x.chain = d /\ x.status = "ok"
      BY <3>4, OutcomeFields
    <3>6. Grown(s, d)
      BY <2>2, <3>3 DEF Grown, Settles
    <3>7. Hit(o, d, CexKey(C, e))
      BY <2>2, <2>5, <3>3, HitStays DEF Settles
    <3> QED
      BY <3>5, <3>6, <3>7 DEF TruthReady
  <2> QED
    BY <2>4, <2>5
<1> QED
  BY <1>1, <1>2, <1>3

\* and, when it is used, those of a validity.
LEMMA CachingValiditySettles ==
  ASSUME NEW o, o.cex, ~o.experimental, NEW s, Good(s), NEW C \in SUBSET Expr, Satisfiable(C),
         NEW e \in Expr, NEW x \in CachingValidity(o, s, C, e)
  PROVE  /\ Grown(s, x.chain)
         /\ o.cache => /\ ValidityReady(o, s, C, e) => x.status = "ok"
                       /\ x.status = "ok" => ValidityReady(o, x.chain, C, e)
<1> DEFINE found == QueryLookup(s, C, e)
           final == {"MustBeTrue", "MustBeFalse", "TrueOrFalse"}
           asked == CASE found = {} -> CexValidity(o, s, C, e)
                      [] found = {"MayBeTrue"}  -> Decided(CexTruth(o, s, C, e), "True")
                      [] found = {"MayBeFalse"} -> Decided(CexTruth(o, s, C, Not(e)), "False")
<1>1. CASE ~o.cache
  BY <1>1, ValidityGrows DEF CachingValidity
<1>2. CASE o.cache /\ found \intersect final # {}
  <2>1. PICK v \in found : x \in Answer(s, AnswerOf(v))
    BY <1>2 DEF CachingValidity
  <2>2. x.chain = s /\ x.status = "ok"
    BY <2>1, OutcomeFields DEF Answer
  <2> QED
    BY <1>2, <2>2 DEF Grown, ValidityReady
<1>3. CASE o.cache /\ found \intersect final = {}
  <2>1. PICK y \in asked :
          x = IF y.status = "ok" THEN [y EXCEPT !.chain = QueryInsert(@, C, e, ValidityOf(y.value))]
              ELSE y
    BY <1>3 DEF CachingValidity, Inserting
  <2>2. /\ \A v \in found : v \in Partial /\ Says(C, e, v)
        /\ \A v, w \in found : v = w
    BY LookupTells
  <2>3. found = {} \/ found = {"MayBeTrue"} \/ found = {"MayBeFalse"}
    BY <1>3, <2>2 DEF Partial
  <2>4. Not(e) \in Expr
    BY Expressions
  <2>5. Sane(o, y) /\ Validates(C, e, y)
    <3>1. CASE found = {}
      BY <2>1, <3>1, CexValidates
    <3>2. CASE found = {"MayBeTrue"}
      <4>1. y \in Decided(CexTruth(o, s, C, e), "True") /\ ~Valid(C, Not(e))
        BY <2>1, <2>2, <3>2 DEF Says
      <4> QED
        BY <4>1, CexTells, Decides
    <3>3. CASE found = {"MayBeFalse"}
      <4>1. y \in Decided(CexTruth(o, s, C, Not(e)), "False") /\ ~Valid(C, e)
        BY <2>1, <2>2, <3>3 DEF Says
      <4> QED
        BY <2>4, <4>1, CexTells, Decides
    <3> QED
      BY <2>3, <3>1, <3>2, <3>3
  <2>6. /\ Grown(s, y.chain) /\ y.chain.query = s.query
        /\ found = {"MayBeTrue"} => Settles(o, s, CexKey(C, e), y)
        /\ found = {"MayBeFalse"} => Settles(o, s, CexKey(C, Not(e)), y)
    <3>1. CASE found = {}
      BY <2>1, <3>1, ValidityGrows
    <3>2. CASE found = {"MayBeTrue"}
      <4>1. y \in Decided(CexTruth(o, s, C, e), "True")
        BY <2>1, <3>2
      <4> QED
        BY <3>2, <4>1, DecidedSettles DEF Settles
    <3>3. CASE found = {"MayBeFalse"}
      <4>1. y \in Decided(CexTruth(o, s, C, Not(e)), "False")
        BY <2>1, <3>3
      <4> QED
        BY <2>4, <3>3, <4>1, DecidedSettles DEF Settles
    <3> QED
      BY <2>3, <3>1, <3>2, <3>3
  <2> HIDE DEF asked
  <2>7. ValidityReady(o, s, C, e) => y.status = "ok"
    BY <1>3, <2>6 DEF ValidityReady, Settles
  <2>8. CASE y.status # "ok"
    BY <2>1, <2>6, <2>7, <2>8
  <2>9. CASE y.status = "ok"
    <3> DEFINE v == ValidityOf(y.value)
               d == QueryInsert(y.chain, C, e, v)
    <3>1. v \in final /\ v \in Partial /\ Says(C, e, v)
      BY <2>5, <2>9 DEF Validates, ValidityOf, Partial, Says
    <3>2. x = [y EXCEPT !.chain = d]
      BY <2>1, <2>9
    <3> HIDE DEF v
    <3>3. /\ Good(y.chain) /\ Good(d) /\ Grown(y.chain, d)
          /\ QueryLookup(y.chain, C, e) = {} => v \in QueryLookup(d, C, e)
      BY <2>5, <3>1, InsertGrows, QueryInserts DEF Sane
    <3> HIDE DEF d
    <3>4. x = Outcome(d, "ok", y.value)
      BY <2>5, <2>9, <3>2 DEF Sane, Outcome
    <3>5. x.chain = d /\ x.status = "ok"
      BY <3>4, OutcomeFields
    <3>6. Grown(s, d)
      BY <2>6, <3>3 DEF Grown
    <3>7. ValidityReady(o, d, C, e)
      <4>1. CASE found # {}
        <5>1. QueryLookup(d, C, e) = found
          BY <3>3, <3>6, <4>1, LookupStays
        <5>2. /\ found = {"MayBeTrue"} => Hit(o, d, CexKey(C, e))
              /\ found = {"MayBeFalse"} => Hit(o, d, CexKey(C, Not(e)))
          BY <2>6, <2>9, <3>3, HitStays DEF Settles
        <5> QED
          BY <2>3, <4>1, <5>1, <5>2 DEF ValidityReady
      <4>2. CASE found = {}
        <5>1. QueryLookup(d, C, e) \intersect final # {}
          <6>1. QueryLookup(y.chain, C, e) = {}
            BY <2>6, <4>2 DEF QueryLookup
          <6> QED
            BY <3>1, <3>3, <6>1
        <5> QED
          BY <5>1 DEF ValidityReady
      <4> QED
        BY <4>1, <4>2
    <3> QED
      BY <3>5, <3>6, <3>7
  <2> QED
    BY <2>8, <2>9
<1> QED
  BY <1>1, <1>2, <1>3

-------------------------------------------------------------------------------
(* The queries of the executor.                                            *)

\* A query of the front end.
Queried(query) ==
  /\ query.kind \in {"evaluate", "mustBeTrue", "getValue", "getInitialValues"}
  /\ query.constraints \in Constraints
  /\ query.kind # "getInitialValues" => query.expr \in Expr
  /\ query.kind = "getInitialValues" => query.expr = Constant(FALSE)

\* Every method answers right under all constraints of the path.
LEMMA OutcomesRight ==
  ASSUME NEW o, NEW s, Good(s), NEW query, Queried(query), NEW x \in Outcomes(o, s, query)
  PROVE  Sane(o, x) /\ (x.status = "ok" => Correct(query, x.value))
<1> DEFINE C == query.constraints
           e == query.expr
           K == Kept(o, C, e)
<1>1. C \in SUBSET Expr /\ Satisfiable(C)
  BY ChainAssumption DEF Queried
<1>2. CASE query.kind = "getInitialValues"
  <2>1. x \in CexInitialValues(o, s, C, Constant(FALSE), Array)
    BY <1>2 DEF Outcomes, Queried
  <2> HIDE DEF C
  <2>2. Sane(o, x) /\ (x.status = "ok" => \E a \in Assignments : x.value = {a} /\ Satisfies(a, C))
    BY <1>1, <2>1, CexInitial
  <2>3. (\E a \in Assignments : x.value = {a} /\ Satisfies(a, C)) => Correct(query, x.value)
    BY <1>2 DEF Correct, C
  <2> QED
    BY <2>2, <2>3
<1>3. CASE query.kind # "getInitialValues"
  <2>1. e \in Expr
    BY <1>3 DEF Queried
  <2>2. K \in SUBSET Expr /\ Satisfiable(K)
    BY <1>1, <2>1, Transfers
  <2>3. (Valid(K, e) <=> Valid(C, e)) /\ (Valid(K, Not(e)) <=> Valid(C, Not(e)))
    BY <1>1, <2>1, Transfers
  <2>4. CASE query.kind = "evaluate"
    <3>1. x \in CachingValidity(o, s, K, e)
      BY <2>4 DEF Outcomes
    <3> HIDE DEF K, C, e
    <3>2. Sane(o, x) /\ Validates(K, e, x)
      BY <2>1, <2>2, <3>1, CachingValidates
    <3> QED
      BY <2>3, <2>4, <3>2 DEF Validates, Correct, C, e
  <2>5. CASE query.kind = "mustBeTrue"
    <3>1. x \in CachingTruth(o, s, K, e)
      BY <2>5 DEF Outcomes
    <3> HIDE DEF K, C, e
    <3>2. Sane(o, x) /\ Truthful(K, e, x)
      BY <2>1, <2>2, <3>1, CachingTells
    <3>3. Truth(Valid(K, e)) = Truth(Valid(C, e))
      BY <2>3 DEF Truth
    <3> QED
      BY <2>5, <3>2, <3>3 DEF Truthful, Correct, C, e
  <2>6. CASE query.kind = "getValue"
    <3>1. x \in CexValue(o, s, K, e)
      BY <2>6 DEF Outcomes
    <3>2. \A a \in Assignments : Satisfies(a, K) =>
            \E m \in Assignments : Satisfies(m, C) /\ (m \in e.holds <=> a \in e.holds)
      BY <1>1, <2>1, Separates
    <3> HIDE DEF K, C, e
    <3>3. Sane(o, x) /\ Evaluates(K, e, x)
      BY <2>1, <2>2, <3>1, CexEvaluates
    <3>4. x.status = "ok" => \E m \in Assignments : Satisfies(m, C) /\ x.value = Truth(m \in e.holds)
      BY <3>2, <3>3 DEF Evaluates, Truth
    <3> QED
      BY <2>6, <3>3, <3>4 DEF Correct, C, e
  <2> QED
    BY <1>3, <2>4, <2>5, <2>6 DEF Queried
<1> QED
  BY <1>2, <1>3

IInv == Good(chain) /\ AnswersCorrect /\ FailsWithCore

\* A query preserves the invariant,
LEMMA AskStep ==
  ASSUME IInv, NEW query, Queried(query), Ask(query)
  PROVE  IInv'
<1> DEFINE s == [chain EXCEPT !.coreFailed = FALSE]
<1>1. Good(s)
  <2>1. chain \in Chain
    BY DEF IInv, Good
  <2>2. s \in Chain /\ s.query = chain.query /\ s.cex = chain.cex
    BY <2>1 DEF Chain
  <2> HIDE DEF s
  <2> QED
    BY <2>2 DEF IInv, Good, QueryGood, CexGood
<1>2. PICK x \in Outcomes(options, s, query) :
        /\ chain' = x.chain
        /\ last' = [query |-> query, status |-> x.status, value |-> x.value]
  BY DEF Ask
<1> HIDE DEF s
<1>3. Sane(options, x) /\ (x.status = "ok" => Correct(query, x.value))
  BY <1>1, OutcomesRight
<1>4. Good(chain)'
  BY <1>2, <1>3 DEF Sane
<1>5. last'.query = query /\ last'.status = x.status /\ last'.value = x.value
  BY <1>2
<1>6. AnswersCorrect'
  BY <1>3, <1>5 DEF AnswersCorrect
<1>7. FailsWithCore'
  BY <1>2, <1>3, <1>5 DEF FailsWithCore, Sane, Ask
<1> QED
  BY <1>4, <1>6, <1>7 DEF IInv

\* hence every step,
LEMMA NextInv == IInv /\ [Next]_vars => IInv'
<1> SUFFICES ASSUME IInv, [Next]_vars PROVE IInv'
  OBVIOUS
<1>1. CASE UNCHANGED vars
  BY <1>1 DEF vars, IInv, Good, Chain, QueryGood, CexGood, AnswersCorrect, FailsWithCore
<1>2. ASSUME NEW C \in Constraints, GetInitialValues(C) PROVE IInv'
  BY <1>2, AskStep DEF GetInitialValues, Query, Queried
<1>3. ASSUME NEW C \in Constraints, NEW e \in Expr, Evaluate(C, e) \/ MustBeTrue(C, e) \/ GetValue(C, e)
      PROVE IInv'
  BY <1>3, AskStep DEF Evaluate, MustBeTrue, GetValue, Query, Queried
<1> QED
  BY <1>1, <1>2, <1>3 DEF Next

\* and it holds at first.
LEMMA InitInv == Init => IInv
<1> SUFFICES ASSUME Init PROVE IInv
  OBVIOUS
<1>1. chain \in Chain /\ chain.query = {} /\ chain.cex = {} /\ last.status = "none"
  BY DEF Init, Chain
<1> QED
  BY <1>1 DEF IInv, Good, QueryGood, CexGood, AnswersCorrect, FailsWithCore

\* So it always holds.
LEMMA Invariance == Spec => []IInv
BY InitInv, NextInv, PTL DEF Spec

-------------------------------------------------------------------------------

\* The query cache holds nothing untrue, after any queries and failures of the core solver
\* (CachingSolver).
THEOREM QueryCacheIsTrue == Spec => []QueryCacheTrue
<1>1. IInv => QueryCacheTrue
  BY DEF IInv, Good, QueryGood, QueryCacheTrue
<1> QED
  BY <1>1, Invariance, PTL

\* Nor does the counterexample cache (CexCachingSolver).
THEOREM CexCacheIsTrue == Spec => []CexCacheTrue
<1>1. IInv => CexCacheTrue
  BY DEF IInv, Good, CexGood, CexCacheTrue
<1> QED
  BY <1>1, Invariance, PTL

\* Both caches hold only what is true, although each answers for keys it was never asked.
THEOREM CachesAreTrue == Spec => []CachesTrue
<1>1. QueryCacheTrue /\ CexCacheTrue => CachesTrue
  BY DEF CachesTrue
<1> QED
  BY <1>1, QueryCacheIsTrue, CexCacheIsTrue, PTL

\* What the chain answers holds under all constraints of the path, of which the
\* independent solver has left some out and whose answers the caches have kept, for any
\* expressions and command line.
THEOREM AnswersAreCorrect == Spec => []AnswersCorrect
<1>1. IInv => AnswersCorrect
  BY DEF IInv
<1> QED
  BY <1>1, Invariance, PTL

\* Without cex-cache-exp a query fails only with the core solver, and the chain never
\* finds the constraints of a path unsatisfiable (the assertions of CexCachingSolver).
THEOREM OnlyTheCoreFails == Spec => []FailsWithCore
<1>1. IInv => FailsWithCore
  BY DEF IInv
<1> QED
  BY <1>1, Invariance, PTL
-------------------------------------------------------------------------------
(* A query that was answered is answered again.                            *)

\* The caches answer for the query without the core solver.
Ready(o, s, query) ==
  LET C == query.constraints
      e == query.expr
      K == Kept(o, C, e)
  IN  /\ query.kind = "evaluate" => ValidityReady(o, s, K, e)
      /\ query.kind = "mustBeTrue" => TruthReady(o, s, K, e)
      /\ query.kind = "getValue" => Hit(o, s, CexKey(K, Constant(FALSE)))
      /\ query.kind = "getInitialValues" => Hit(o, s, CexKey(C, Constant(FALSE)))

\* The command lines and queries for which answers are kept.
Keeping(o, query) ==
  o.cex /\ ~o.experimental /\ (query.kind = "evaluate" => o.cache)

\* What was answered is ready.
AnsweredReady(o, s, queried) ==
  \A query \in queried : Queried(query) /\ (Keeping(o, query) => Ready(o, s, query))

\* Larger caches are as ready.
LEMMA ReadyStays ==
  ASSUME NEW o, NEW s, NEW d, Grown(s, d), Good(d), NEW query, Queried(query), Ready(o, s, query)
  PROVE  Ready(o, d, query)
<1> DEFINE C == query.constraints
           e == query.expr
           K == Kept(o, C, e)
<1>1. \A key : Hit(o, s, key) => Hit(o, d, key)
  BY HitStays
<1>2. ASSUME e \in Expr, QueryLookup(s, K, e) # {} PROVE QueryLookup(d, K, e) = QueryLookup(s, K, e)
  BY <1>2, LookupStays
<1>3. query.kind \in {"evaluate", "mustBeTrue"} => e \in Expr
  BY DEF Queried
<1>4. CASE query.kind = "evaluate"
  <2>1. ValidityReady(o, s, K, e) /\ e \in Expr
    BY <1>3, <1>4 DEF Ready
  <2> HIDE DEF K, C, e
  <2>2. QueryLookup(s, K, e) # {}
    BY <2>1 DEF ValidityReady
  <2>3. ValidityReady(o, d, K, e)
    BY <1>1, <1>2, <2>1, <2>2 DEF ValidityReady
  <2> QED
    BY <1>4, <2>3 DEF Ready, K, C, e
<1>5. CASE query.kind = "mustBeTrue"
  <2>1. TruthReady(o, s, K, e) /\ e \in Expr
    BY <1>3, <1>5 DEF Ready
  <2> HIDE DEF K, C, e
  <2>2. TruthReady(o, d, K, e)
    BY <1>1, <1>2, <2>1 DEF TruthReady
  <2> QED
    BY <1>5, <2>2 DEF Ready, K, C, e
<1>6. CASE query.kind \in {"getValue", "getInitialValues"}
  BY <1>1, <1>6 DEF Ready
<1> QED
  BY <1>4, <1>5, <1>6 DEF Queried

\* A query that is ready is answered, one that is answered is ready, and what the caches
\* have they keep.
LEMMA OutcomesReady ==
  ASSUME NEW o, o.cex, ~o.experimental, NEW s, Good(s), NEW query, Queried(query),
         NEW x \in Outcomes(o, s, query)
  PROVE  /\ Grown(s, x.chain)
         /\ Keeping(o, query) => /\ Ready(o, s, query) => x.status = "ok"
                                 /\ x.status = "ok" => Ready(o, x.chain, query)
<1> DEFINE C == query.constraints
           e == query.expr
           K == Kept(o, C, e)
<1>1. C \in SUBSET Expr /\ Satisfiable(C)
  BY ChainAssumption DEF Queried
<1>2. CASE query.kind = "getInitialValues"
  <2>1. x \in CexInitialValues(o, s, C, Constant(FALSE), Array)
    BY <1>2 DEF Outcomes, Queried
  <2> HIDE DEF C
  <2>2. Settles(o, s, CexKey(C, Constant(FALSE)), x)
    BY <1>1, <2>1, InitialSettles
  <2> QED
    BY <1>2, <2>2 DEF Settles, Ready, C
<1>3. CASE query.kind # "getInitialValues"
  <2>1. e \in Expr
    BY <1>3 DEF Queried
  <2>2. K \in SUBSET Expr /\ Satisfiable(K)
    BY <1>1, <2>1, Transfers
  <2>3. CASE query.kind = "evaluate"
    <3>1. x \in CachingValidity(o, s, K, e)
      BY <2>3 DEF Outcomes
    <3> HIDE DEF K, C, e
    <3>2. /\ Grown(s, x.chain)
          /\ o.cache => /\ ValidityReady(o, s, K, e) => x.status = "ok"
                        /\ x.status = "ok" => ValidityReady(o, x.chain, K, e)
      BY <2>1, <2>2, <3>1, CachingValiditySettles
    <3> QED
      BY <2>3, <3>2 DEF Ready, Keeping, K, C, e
  <2>4. CASE query.kind = "mustBeTrue"
    <3>1. x \in CachingTruth(o, s, K, e)
      BY <2>4 DEF Outcomes
    <3> HIDE DEF K, C, e
    <3>2. /\ Grown(s, x.chain)
          /\ TruthReady(o, s, K, e) => x.status = "ok"
          /\ x.status = "ok" => TruthReady(o, x.chain, K, e)
      BY <2>1, <2>2, <3>1, CachingTruthSettles
    <3> QED
      BY <2>4, <3>2 DEF Ready, K, C, e
  <2>5. CASE query.kind = "getValue"
    <3>1. x \in CexValue(o, s, K, e)
      BY <2>5 DEF Outcomes
    <3> HIDE DEF K, C, e
    <3>2. Settles(o, s, CexKey(K, Constant(FALSE)), x)
      BY <2>2, <3>1, ValueSettles
    <3> QED
      BY <2>5, <3>2 DEF Settles, Ready, K, C, e
  <2> QED
    BY <1>3, <2>3, <2>4, <2>5 DEF Queried
<1> QED
  BY <1>2, <1>3

\* The invariant of what was answered.
KInv == IInv /\ AnsweredReady(options, chain, answered)

\* A query leaves what was answered ready, and is answered if it was.
LEMMA AskKeeps ==
  ASSUME KInv, NEW query, Queried(query), Ask(query)
  PROVE  /\ AnsweredReady(options, chain, answered)'
         /\ last'.query = query
         /\ Keeping(options, query) /\ query \in answered => last'.status = "ok"
<1> DEFINE s == [chain EXCEPT !.coreFailed = FALSE]
<1>1. Good(s) /\ Grown(chain, s)
  <2>1. chain \in Chain
    BY DEF KInv, IInv, Good
  <2>2. s \in Chain /\ s.query = chain.query /\ s.cex = chain.cex /\ s.table = chain.table
    BY <2>1 DEF Chain
  <2> HIDE DEF s
  <2> QED
    BY <2>2 DEF KInv, IInv, Good, QueryGood, CexGood, Grown
<1>2. PICK x \in Outcomes(options, s, query) :
        /\ chain' = x.chain
        /\ last' = [query |-> query, status |-> x.status, value |-> x.value]
        /\ answered' = IF x.status = "ok" THEN answered \union {query} ELSE answered
        /\ options' = options
  BY DEF Ask
<1> HIDE DEF s
<1>3. last'.query = query /\ last'.status = x.status
  BY <1>2
<1>4. Good(x.chain)
  BY <1>1, OutcomesRight DEF Sane
<1>5. ASSUME NEW q \in answered, Keeping(options, q) PROVE Ready(options, s, q) /\ Queried(q)
  <2>1. Queried(q) /\ Ready(options, chain, q)
    BY <1>5 DEF KInv, AnsweredReady
  <2> QED
    BY <1>1, <2>1, ReadyStays
<1>6. ASSUME NEW q \in answered', Keeping(options, q) PROVE Ready(options, x.chain, q)
  <2>1. options.cex /\ ~options.experimental
    BY <1>6 DEF Keeping
  <2>2. /\ Grown(s, x.chain)
        /\ Keeping(options, query) /\ x.status = "ok" => Ready(options, x.chain, query)
    BY <1>1, <2>1, OutcomesReady
  <2>3. CASE q \in answered
    BY <1>4, <1>5, <1>6, <2>2, <2>3, ReadyStays
  <2>4. CASE q \notin answered
    BY <1>2, <1>6, <2>2, <2>4
  <2> QED
    BY <2>3, <2>4
<1>7. \A q \in answered' : Queried(q)
  BY <1>2 DEF KInv, AnsweredReady
<1>8. AnsweredReady(options', chain', answered')
  BY <1>2, <1>6, <1>7 DEF AnsweredReady
<1>9. ASSUME Keeping(options, query), query \in answered PROVE x.status = "ok"
  <2>1. options.cex /\ ~options.experimental /\ Ready(options, s, query)
    BY <1>5, <1>9 DEF Keeping
  <2> QED
    BY <1>1, <1>9, <2>1, OutcomesReady
<1> QED
  BY <1>3, <1>8, <1>9

\* What a step says of the answers that are kept.
KeepsAnswer ==
  /\ options.cex /\ ~options.experimental
  /\ last'.query.kind = "evaluate" => options.cache
  /\ last'.query \in answered
  => last'.status = "ok"

\* Every step is the query of one method, or no step.
LEMMA NextKeeps == KInv /\ [Next]_vars => KInv' /\ [KeepsAnswer]_vars
<1> SUFFICES ASSUME KInv, [Next]_vars PROVE KInv' /\ [KeepsAnswer]_vars
  OBVIOUS
<1>1. IInv'
  BY NextInv DEF KInv
<1>2. CASE UNCHANGED vars
  BY <1>1, <1>2 DEF vars, KInv
<1>3. ASSUME NEW query, Queried(query), Ask(query) PROVE KInv' /\ KeepsAnswer
  BY <1>1, <1>3, AskKeeps DEF KInv, KeepsAnswer, Keeping
<1>4. ASSUME NEW C \in Constraints, GetInitialValues(C) PROVE KInv' /\ KeepsAnswer
  BY <1>3, <1>4 DEF GetInitialValues, Query, Queried
<1>5. ASSUME NEW C \in Constraints, NEW e \in Expr, Evaluate(C, e) \/ MustBeTrue(C, e) \/ GetValue(C, e)
      PROVE KInv' /\ KeepsAnswer
  BY <1>3, <1>5 DEF Evaluate, MustBeTrue, GetValue, Query, Queried
<1> QED
  BY <1>2, <1>4, <1>5 DEF Next

\* A query that was once answered is answered again, although the core solver may fail at
\* any call: for a validity the query cache must be there, for the others the
\* counterexample cache is enough (CachingSolver, CexCachingSolver).
THEOREM AnsweredAgain == Spec => AnswersKept
<1>1. Init => KInv
  <2> SUFFICES ASSUME Init PROVE KInv
    OBVIOUS
  <2>1. answered = {}
    BY DEF Init
  <2> QED
    BY <2>1, InitInv DEF KInv, AnsweredReady
<1>2. KInv /\ [Next]_vars => [KeepsAnswer]_vars
  BY NextKeeps
<1>3. KInv /\ [Next]_vars => KInv'
  BY NextKeeps
<1>4. Spec => [][KeepsAnswer]_vars
  BY <1>1, <1>2, <1>3, PTL DEF Spec
<1> QED
  BY <1>4 DEF KeepsAnswer, AnswersKept

===============================================================================
