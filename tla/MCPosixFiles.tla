------------------------------ MODULE MCPosixFiles ------------------------------
(* Instances of PosixFiles for TLC. *)
EXTENDS PosixFiles

Sizes == [f \in File |-> 1]

Stats == {[perm |-> Perm, kind |-> "reg"], [perm |-> {"w"}, kind |-> "dir"]}

Modes == {{}, Perm}

\* Seeks stay far from the end of off64_t.
SmallOffsets == {-1, 1}
===============================================================================
