----------------------------- MODULE MCPathStreams -----------------------------
(* Instances of PathStreams for TLC. *)
EXTENDS PathStreams

CONSTANTS x, y

\* Programs that test x first (the others only rename the bits), with at most one point
\* that is no branch.
SomePrograms ==
  /\ program[1].bit = x
  /\ Cardinality({i \in DOMAIN program : program[i].kind # "branch"}) <= 1
================================================================================
