----------------------------- MODULE MCSolverChain -----------------------------
(* Instances of SolverChain for TLC: an array of two cells and one of one. *)
EXTENDS SolverChain, TLC

CONSTANTS a, b

Cells == {<<a, 0>>, <<a, 1>>, <<b, 0>>}

When(elements, whole, P(_)) ==
  [elements |-> elements, whole |-> whole, holds |-> {x \in [Cells -> {0, 1}] : P(x)}]

\* a[0] = 1, b[0] = 1 and a[b[0]] = 1.
First    == When({<<a, 0>>}, {}, LAMBDA x : x[<<a, 0>>] = 1)
Second   == When({<<b, 0>>}, {}, LAMBDA x : x[<<b, 0>>] = 1)
Indexed  == When({<<b, 0>>}, {a}, LAMBDA x : x[<<a, x[<<b, 0>>]>>] = 1)

Exprs == {First, Second, Indexed, Not(First), Not(Second), Not(Indexed)}

Smaller == {First, Not(Second), Indexed}

\* Two paths: one on which Indexed may be both, one on which it decides First.
Paths == {{First, Second}, {Not(Second), Indexed}}

Option(i, c, x, t, e, f) ==
  [independent |-> i, cache |-> c, cex |-> x, tryAll |-> t, experimental |-> e, fast |-> f]

CommandLines ==
  {Option(TRUE, TRUE, TRUE, FALSE, FALSE, FALSE),   \* the default
   Option(TRUE, FALSE, TRUE, FALSE, FALSE, FALSE),  \* use-cache=0
   Option(TRUE, TRUE, TRUE, TRUE, FALSE, FALSE),    \* cex-cache-try-all
   Option(TRUE, TRUE, TRUE, FALSE, TRUE, FALSE),    \* cex-cache-exp
   Option(FALSE, TRUE, FALSE, FALSE, FALSE, TRUE)}  \* use-fast-cex-solver without use-cex-cache

===============================================================================
