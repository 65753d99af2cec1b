------------------------------- MODULE MCExecutor ------------------------------
(* Instances of Executor for TLC. *)
EXTENDS Executor

\* A third fork only without seeds.
Bounded == stateID < 3 \/ DOMAIN seedMap = {}
================================================================================
