---------------------------- MODULE MCInterpreter ----------------------------
(* Instances of Interpreter for TLC: programs that between them use every instruction,
   on three inputs.  The cached bytes behind one object, ByteCache, are checked beside
   them, each system standing still while the other runs.                           *)
EXTENDS Interpreter, MCByteCache, TLC, SequencesExt

CONSTANTS rx, ry, rz, rp   \* the registers

Inputs3 == 0 .. 2
Four == 0 .. 3
JoinOf == [n \in 1 .. 2 |-> [B \in [1 .. n -> Four] |-> IF n = 1 THEN B[1] ELSE B[1] + 4 * B[2]]]
PartOf == [n \in 1 .. 2 |-> [v \in 0 .. 15 |-> [i \in 1 .. n |-> IF i = 1 THEN v % 4 ELSE v \div 4]]]
GivenBy == [v \in Inputs3 \X (1 .. 2) \X (0 .. 7) |-> (v[1] + v[2] * v[3]) % 4]

Sum == [v \in Value \X Value |-> (v[1] + v[2]) % Word]
Twice == [v \in Value |-> (2 * v) % Word]
Same == [v \in Value |-> v]
Less == [v \in Value \X Value |-> IF v[1] < v[2] THEN "less" ELSE IF v[1] = v[2] THEN "equal" ELSE "greater"]

Ins(op, dst, block, rest) == [op |-> op, dst |-> dst, block |-> block] @@ rest
Do(op, block, rest) == Ins(op, NoReg, block, rest)

\* A symbolic x in 0 .. 2, from the first byte of the global at 1.
Enter(B) == <<Do("make_symbolic", B, [address |-> 1, size |-> 2]),
              Ins("load", rx, B, [address |-> 1, bytes |-> 1])>>

\* Branches, phis and a switch whose default is a case too.
P1(b) == Enter("A") \o
  <<Do("br", "A", [cond |-> rx, then |-> b + 3, else |-> b + 4]),
    Do("jump", "B", [to |-> b + 5]),
    Do("jump", "C", [to |-> b + 5]),
    Ins("phi", ry, "D", [blocks |-> <<"B", "C">>, values |-> <<rx, 3>>]),
    Ins("phi", rz, "D", [blocks |-> <<"B", "C">>, values |-> <<1, rx>>]),
    Ins("assign", ry, "D", [left |-> ry, right |-> rz, of |-> Sum]),
    Do("switch", "D", [on |-> ry, cases |-> (2 :> b + 9) @@ (3 :> b + 10), default |-> b + 10]),
    Do("ret", "E", [value |-> ry]),
    Do("stop", "F", [why |-> "abort"])>>

Map(f) == [left |-> rx, right |-> rx, of |-> [v \in Value \X Value |-> f[(v[1] % 3) + 1]]]

\* Symbolic addresses: a load, stores over several objects.
P2(b) == Enter("A") \o
  <<Ins("assign", ry, "A", [left |-> rx, right |-> 1, of |-> Sum]),
    Ins("load", rz, "A", [address |-> ry, bytes |-> 1]),
    Ins("assign", ry, "A", Map(<<4, 1, 2>>)),
    Do("store", "A", [address |-> ry, value |-> 9, bytes |-> 1]),
    Do("store", "A", [address |-> ry, value |-> 9, bytes |-> 2]),
    Ins("load", rz, "A", [address |-> 1, bytes |-> 2]),
    Do("ret", "A", [value |-> NoReg])>>

\* Sizes and pointers that are symbolic.
P3(b) == Enter("A") \o
  <<Ins("alloc", rp, "A", [size |-> 2, kind |-> "heap", fill |-> 0]),
    Ins("select", ry, "A", [cond |-> rx, left |-> rp, right |-> 0]),
    Ins("realloc", ry, "A", [address |-> ry, size |-> rx]),
    Do("free", "A", [address |-> rp]),
    Do("ret", "A", [value |-> NoReg])>>
P4(b) == Enter("A") \o
  <<Ins("assign", ry, "A", Map(<<0, 9, 2>>)),
    Ins("alloc", rp, "A", [size |-> ry, kind |-> "heap", fill |-> 2]),
    Ins("get_obj_size", rz, "A", [address |-> rp]),
    Do("free", "A", [address |-> rp]),
    Do("free", "A", [address |-> 1]),
    Do("ret", "A", [value |-> NoReg])>>

\* Calls, invokes and unwinding; a function with an alloca.
P5(b) == Enter("A") \o
  <<Do("call", "A", [function |-> "callee", args |-> <<rx>>, convert |-> Same, invoke |-> TRUE,
                     normal |-> b + 3, unwind |-> b + 6]),
    Ins("call", rz, "B", [function |-> "callee", args |-> <<rx, 1>>, convert |-> Twice, invoke |-> FALSE]),
    Do("call", "B", [function |-> "callee", args |-> <<>>, convert |-> Same, invoke |-> FALSE]),
    Do("ret", "B", [value |-> NoReg]),
    Ins("phi", rz, "C", [blocks |-> <<"A">>, values |-> <<rx>>]),
    Do("unwind", "C", <<>>)>>
Callee(b) ==
  <<Ins("alloc", rp, "G", [size |-> 1, kind |-> "local", fill |-> 0]),
    Do("free", "G", [address |-> 0]),
    Do("br", "G", [cond |-> ry, then |-> b + 4, else |-> b + 3]),
    Do("unwind", "H", <<>>),
    Do("ret", "I", [value |-> NoReg])>>

\* A call through a symbolic pointer, legal for the input 0 only, and a checked call.
P6(b) == Enter("A") \o
  <<Ins("assign", ry, "A", Map(<<5, 6, 7>>)),
    Ins("icall", rz, "A", [pointer |-> ry, args |-> <<rx>>, convert |-> Same]),
    Ins("assign", ry, "A", Map(<<1, 4, 9>>)),
    Do("call", "A", [function |-> "read", args |-> <<0, ry, rx>>, convert |-> Same, invoke |-> FALSE]),
    Do("ret", "A", [value |-> NoReg])>>
Leaf(b) == <<Do("ret", "J", [value |-> ry])>>

\* The executor's own functions.
P7(b) == Enter("A") \o
  <<Ins("get_value", ry, "A", [arg |-> rx]),
    Ins("is_symbolic", rz, "A", [arg |-> rx]),
    Do("check_access", "A", [address |-> 1, size |-> rz]),
    Do("set_forking", "A", [arg |-> ry]),
    Ins("external", rz, "A", [args |-> <<ry>>, banned |-> FALSE]),
    Ins("assign", rp, "A", Map(<<1, 4, 1>>)),
    Ins("assign", rz, "A", Map(<<2, 2, 1>>)),
    Do("make_symbolic", "A", [address |-> rp, size |-> rz]),
    Ins("external", rz, "A", [args |-> <<rx>>, banned |-> FALSE]),
    Do("assume", "A", [arg |-> rx]),
    Do("external", "A", [args |-> <<>>, banned |-> TRUE])>>
P8(b) == Enter("A") \o
  <<Ins("cast", ry, "A", [arg |-> rx, of |-> Twice, supported |-> TRUE]),
    Ins("arithmetic", ry, "A", [left |-> rx, right |-> ry, of |-> Sum, supported |-> TRUE]),
    Ins("compare", rz, "A", [left |-> ry, right |-> 3, order |-> Less, holds |-> {"less", "unordered"}, supported |-> TRUE]),
    Do("assume", "A", [arg |-> rz]),
    Do("set_forking", "A", [arg |-> 0]),
    Do("br", "A", [cond |-> rx, then |-> b + 8, else |-> b + 8]),
    Ins("nop", ry, "B", <<>>),
    Do("ret", "B", [value |-> NoReg])>>
\* Pointers to the base of an object and into one.
P9(b) == Enter("A") \o
  <<Ins("assign", ry, "A", Map(<<1, 2, 4>>)),
    Ins("get_obj_size", rz, "A", [address |-> ry]),
    Do("free", "A", [address |-> ry]),
    Do("ret", "A", [value |-> NoReg])>>

MCCode == FlattenSeq(<<P1(1), P2(12), P3(21), P4(28), P5(36), Callee(44), P6(49), Leaf(56), P7(57), P8(70), P9(80)>>)
Main(e) == [entry |-> e, params |-> <<>>, checked |-> FALSE]
MCFunction ==
  [p1 |-> Main(1), p2 |-> Main(12), p3 |-> Main(21), p4 |-> Main(28), p5 |-> Main(36), p6 |-> Main(49), p7 |-> Main(57), p8 |-> Main(70), p9 |-> Main(80),
   callee |-> [entry |-> 44, params |-> <<ry>>, checked |-> FALSE],
   leaf |-> [entry |-> 56, params |-> <<ry>>, checked |-> FALSE],
   read |-> [entry |-> 56, params |-> <<rz, ry, rx>>, checked |-> TRUE]]
MCGlobals == (1 :> [size |-> 2, kind |-> "global", bytes |-> [i \in 0 .. 1 |-> 0]])
          @@ (4 :> [size |-> 1, kind |-> "readonly", bytes |-> [i \in 0 .. 0 |-> 1]])
MCFunctionAt == (5 :> "leaf")
MCMains == {"p1", "p2", "p3", "p4", "p5", "p6", "p7", "p8", "p9"}
MCArguments == <<>>

VARIABLE part   \* which of the two systems runs

MCInit ==
  /\ Init /\ InterpreterInit
  /\ \/ part = "cache" /\ ~limited /\ paths = {InitialState("p1")}
     \/ part = "paths" /\ root = Null /\ concreteStore = [o \in Offset |-> 0]
MCNext ==
  /\ part' = part
  /\ \/ part = "cache" /\ Next /\ UNCHANGED interpreterVars
     \/ part = "paths" /\ InterpreterNext /\ UNCHANGED vars
MCSpec == MCInit /\ [][MCNext]_<<part, vars, interpreterVars>>

MCView == <<part, UsedView, interpreterVars>>
==============================================================================
