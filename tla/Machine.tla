------------------------------- MODULE Machine -------------------------------
(* The program under test as it runs on one input.  A configuration is what an
   ExecutionState stands for once every symbolic byte has a value: where control is
   (pc, and at a phi the block control came from), the registers and the allocas of
   the current frame, the frames of its callers, and the objects that are bound, by
   their base addresses.  A configuration that ended only says why.

   The state of a path in Interpreter has the same shape, with expressions in the
   registers and bytes; the operators that only move values about serve both.      *)
EXTENDS Integers, Sequences

CONSTANTS
  Assignment,       \* the inputs: assignments to the bytes made symbolic
  Word,             \* values and addresses are 0 .. Word - 1
  Unsigned,         \* sizes of objects are 0 .. Unsigned - 1, truncated to unsigned
  Octet,            \* the values of a byte
  Reg, NoReg,       \* registers; NoReg where an instruction has no result
  Block, NoBlock,
  Code,             \* the instructions of all functions, one after the other
  Function,         \* name -> [entry, params, checked]
  FunctionAt,       \* the addresses that are functions, and which
  Mains, Arguments, \* where the program may start, with which argc, argv, envp
  Globals,          \* the objects bound at the start
  Widths,           \* the bytes a load or store may have
  Join, Part,       \* a word from its bytes, the bytes of a word
  MaxArrays,        \* bound on the objects made symbolic on a path
  Given,            \* the byte at offset o of the j-th array of an input
  HugeSize,         \* 2^15: a symbolic size above it makes malloc return 0
  Junk              \* what fills a frame and fresh memory

Value   == 0 .. Word - 1
Operand == Reg \union Value
Kind    == {"local", "heap", "global", "readonly"}
Running == "running"
Early   == "early"

Pure    == {"assign", "select", "phi"}
Float   == {"arithmetic", "cast", "compare"}
Library == {"alloc", "realloc", "free", "make_symbolic", "assume", "get_value",
            "is_symbolic", "get_obj_size", "check_access", "set_forking",
            "external", "nop"}
Leaving == {"br", "jump", "switch", "ret", "unwind", "stop"}
Calling == {"call", "icall"}
Ops     == Pure \union Float \union Library \union Leaving \union Calling
             \union {"load", "store"}

AtPhi(p) == Code[p].op = "phi"

\* Where the terminators and the invokes go.
Targets(k) ==
  CASE k.op = "br"     -> {k.then, k.else}
    [] k.op = "jump"   -> {k.to}
    [] k.op = "switch" -> {k.default} \union {k.cases[v] : v \in DOMAIN k.cases}
    [] k.op = "call"   -> IF k.invoke THEN {k.normal, k.unwind} ELSE {}
    [] OTHER           -> {}

Operands(k) ==
  CASE k.op \in {"assign", "arithmetic", "compare"} -> {k.left, k.right}
    [] k.op = "select" -> {k.cond, k.left, k.right}
    [] k.op = "phi" -> {k.values[j] : j \in DOMAIN k.values}
    [] k.op \in {"cast", "assume", "get_value", "is_symbolic", "set_forking"} -> {k.arg}
    [] k.op = "br" -> {k.cond}
    [] k.op = "switch" -> {k.on}
    [] k.op = "ret" -> {k.value} \ {NoReg}
    [] k.op \in {"call", "external"} -> {k.args[j] : j \in DOMAIN k.args}
    [] k.op = "icall" -> {k.pointer} \union {k.args[j] : j \in DOMAIN k.args}
    [] k.op \in {"load", "free", "get_obj_size"} -> {k.address}
    [] k.op = "store" -> {k.address, k.value}
    [] k.op = "alloc" -> {k.size}
    [] k.op \in {"realloc", "check_access", "make_symbolic"} -> {k.address, k.size}
    [] OTHER -> {}

Orders == {"less", "equal", "greater", "unordered"}

\* What the LLVM verifier and the module passes guarantee of an instruction; the
\* phis of a block list its predecessors in one order (PhiCleaner).
WellFormed(p) ==
  LET k == Code[p] IN
  /\ k.op \in Ops /\ k.block \in Block
  /\ k.dst \in Reg \union {NoReg}
  /\ Operands(k) \subseteq Operand
  /\ k.op \in {"assign", "arithmetic"} => k.of \in [Value \X Value -> Value]
  /\ k.op = "cast" => k.of \in [Value -> Value]
  /\ k.op \in Float => k.supported \in BOOLEAN
  /\ k.op = "compare" => k.order \in [Value \X Value -> Orders] /\ k.holds \subseteq Orders
  /\ k.op = "phi" => /\ k.blocks \in Seq(Block) /\ DOMAIN k.values = DOMAIN k.blocks
                     /\ p + 1 \in DOMAIN Code
                     /\ AtPhi(p + 1) => Code[p + 1].blocks = k.blocks
  /\ k.op = "switch" => DOMAIN k.cases \subseteq Value
  /\ k.op \in Calling => k.args \in Seq(Operand) /\ k.convert \in [Value -> Value]
  /\ k.op = "call" => k.function \in DOMAIN Function /\ k.invoke \in BOOLEAN
  /\ k.op = "external" => k.args \in Seq(Operand) /\ k.banned \in BOOLEAN
  /\ k.op \in {"load", "store"} => k.bytes \in Widths
  /\ k.op = "alloc" => k.kind \in {"local", "heap"} /\ k.fill \in Octet
  /\ k.op = "stop" => k.why \notin {Running, Early}
  /\ k.op \notin Leaving \union {"phi"}
       => (k.op = "call" /\ k.invoke) \/ (p + 1 \in DOMAIN Code /\ ~AtPhi(p + 1))
  /\ \A t \in Targets(k) :
       /\ t \in DOMAIN Code
       /\ AtPhi(t) => \E j \in DOMAIN Code[t].blocks : Code[t].blocks[j] = k.block

Fine(o) == /\ o = [size |-> o.size, kind |-> o.kind, bytes |-> o.bytes]
           /\ o.size \in 0 .. Unsigned - 1 /\ o.kind \in Kind
           /\ o.bytes \in [0 .. o.size - 1 -> Octet]

\* No two objects overlap.
Apart(mem) == \A p, q \in DOMAIN mem : p < q => p + mem[p].size =< q

ASSUME MachineAssumption ==
  /\ HugeSize \in Nat \ {0} /\ Unsigned \in Nat /\ Word \in Nat
  /\ HugeSize < Unsigned /\ Unsigned =< Word
  /\ NoReg \notin Operand /\ Reg \intersect Value = {} /\ NoBlock \notin Block
  /\ Octet \subseteq Value /\ Junk \in Octet
  /\ Widths \subseteq Nat \ {0}
  /\ \A n \in Widths : Join[n] \in [[1 .. n -> Octet] -> Value] /\ Part[n] \in [Value -> [1 .. n -> Octet]]
  /\ Assignment # {} /\ MaxArrays \in Nat
  /\ Given \in [Assignment \X (1 .. MaxArrays) \X (0 .. Unsigned - 1) -> Octet]

ASSUME CodeAssumption ==
  /\ \A p \in DOMAIN Code : p \in Nat /\ WellFormed(p)
  /\ \A f \in DOMAIN Function :
       /\ Function[f].entry \in DOMAIN Code /\ ~AtPhi(Function[f].entry)
       /\ Function[f].params \in Seq(Reg)
       /\ Function[f].checked \in BOOLEAN
       /\ Function[f].checked => Len(Function[f].params) >= 3
  /\ \A x \in DOMAIN FunctionAt : FunctionAt[x] \in DOMAIN Function
  /\ Mains \subseteq DOMAIN Function /\ Arguments \in Seq(Value)
  /\ \A f \in Mains : Len(Function[f].params) =< Len(Arguments)
  /\ Globals = [b \in DOMAIN Globals |-> Globals[b]]
  /\ DOMAIN Globals \subseteq 1 .. Word - 1 /\ Apart(Globals)
  /\ \A b \in DOMAIN Globals : Fine(Globals[b]) /\ b + Globals[b].size =< Word

-------------------------------------------------------------------------------
(* Moving values about, in a configuration or in the state of a path.              *)

Bind(c, r, v) == IF r = NoReg THEN c ELSE [c EXCEPT !.regs = [c.regs EXCEPT ![r] = v]]

\* A new frame: the values V of the parameters, v elsewhere.
FrameOf(f, V, v) ==
  [r \in Reg |-> IF \E j \in DOMAIN f.params : f.params[j] = r
                 THEN V[CHOOSE j \in DOMAIN f.params : f.params[j] = r] ELSE v]
Push(c, f, V, v) ==
  [c EXCEPT !.callers = Append(c.callers, [site |-> c.pc, regs |-> c.regs, locals |-> c.locals]),
            !.locals = {}, !.regs = FrameOf(f, V, v), !.pc = f.entry]

With(mem, b, o)  == [x \in DOMAIN mem \union {b} |-> IF x = b THEN o ELSE mem[x]]
Without(mem, B)  == [x \in DOMAIN mem \ B |-> mem[x]]

\* popFrame, down to the frame of the i-th caller.  An alloca that realloc moved stays
\* on the frame's list: whatever is at its address then goes with the frame.
Popped(c, i) == c.locals \union UNION {c.callers[j].locals : j \in i + 1 .. Len(c.callers)}
PopTo(c, i) ==
  [c EXCEPT !.mem = Without(c.mem, Popped(c, i)), !.regs = c.callers[i].regs,
            !.locals = c.callers[i].locals, !.callers = SubSeq(c.callers, 1, i - 1)]

\* executeAlloc's object of n bytes at b; `old' is the base realloc copied from, 0 else.
Bytes(n, old, fill) == [i \in 0 .. n - 1 |-> IF i \in DOMAIN old THEN old[i] ELSE fill]
Allocated(c, b, n, kind, old, fill) ==
  [c EXCEPT !.mem = With(Without(c.mem, {old}), b,
              [size |-> n, kind |-> kind,
               bytes |-> Bytes(n, IF old \in DOMAIN c.mem THEN c.mem[old].bytes ELSE <<>>, fill)]),
            !.locals = IF kind = "local" THEN c.locals \union {b} ELSE c.locals]

\* Where malloc may put n bytes.
Fresh(mem, b, n) ==
  /\ b \in Value \ {0} /\ b + n =< Word
  /\ \A q \in DOMAIN mem : q # b /\ (q < b => q + mem[q].size =< b) /\ (b < q => b + n =< q)

-------------------------------------------------------------------------------
(* What an address is to an object o at base b (Memory.h).                         *)

Covers(o, b, p)  == IF o.size = 0 THEN p = b ELSE b =< p /\ p - b < o.size
Fits(o, b, p, n) == n =< o.size /\ b =< p /\ p - b =< o.size - n
\* With the bytes as an expression, the sum of offset and bytes may wrap around.
Reaches(o, b, p, n) == (p - b + n) % Word =< o.size
-------------------------------------------------------------------------------
(* The instructions: Step(a, c, d) says that d may follow c on the input a.        *)

Ended(why) == [end |-> why]
Eval(c, x) == IF x \in Reg THEN c.regs[x] ELSE x
Args(c)    == [j \in DOMAIN Code[c.pc].args |-> Eval(c, Code[c.pc].args[j])]
Goto(c, p, b) == [c EXCEPT !.pc = p, !.from = IF AtPhi(p) THEN b ELSE NoBlock]
Proceeds(c) == Goto(c, c.pc + 1, c.from)
Yields(c, v) == Proceeds(Bind(c, Code[c.pc].dst, v))

Computed(c, k) ==
  CASE k.op \in {"assign", "arithmetic"} -> k.of[<<Eval(c, k.left), Eval(c, k.right)>>]
    [] k.op = "select"  -> IF Eval(c, k.cond) # 0 THEN Eval(c, k.left) ELSE Eval(c, k.right)
    [] k.op = "cast"    -> k.of[Eval(c, k.arg)]
    [] k.op = "compare" -> IF k.order[<<Eval(c, k.left), Eval(c, k.right)>>] \in k.holds THEN 1 ELSE 0

Computes(c, k, d) ==
  \/ k.op \in {"assign", "select"} /\ d = Yields(c, Computed(c, k))
  \/ k.op = "phi" /\ \E j \in DOMAIN k.blocks : k.blocks[j] = c.from /\ d = Yields(c, Eval(c, k.values[j]))
  \/ k.op \in Float /\ d = IF k.supported THEN Yields(c, Computed(c, k)) ELSE Ended("exec")

Branches(c, k, d) ==
  \/ k.op = "br" /\ d = Goto(c, IF Eval(c, k.cond) # 0 THEN k.then ELSE k.else, k.block)
  \/ k.op = "jump" /\ d = Goto(c, k.to, k.block)
  \/ /\ k.op = "switch"
     /\ LET v == Eval(c, k.on)
        IN  d = Goto(c, IF v \in DOMAIN k.cases THEN k.cases[v] ELSE k.default, k.block)
  \/ k.op = "stop" /\ d = Ended(k.why)

\* A call to read, whose buffer is checked, ends in "ptr" where no object holds the
\* buffer; it may still go on where the check's sum wraps around.
Enters(c, f, d) ==
  LET V == Args(c) IN
  IF Len(V) < Len(f.params) THEN d = Ended("user")
  ELSE \/ /\ d = Push(c, f, V, Junk)
          /\ f.checked => \E b \in DOMAIN c.mem : Reaches(c.mem[b], b, V[2], V[3])
       \/ /\ d = Ended("ptr") /\ f.checked
          /\ \A b \in DOMAIN c.mem : Covers(c.mem[b], b, V[2]) => ~Reaches(c.mem[b], b, V[2], V[3])
Calls(c, k, d) ==
  \/ k.op = "call" /\ Enters(c, Function[k.function], d)
  \/ /\ k.op = "icall"
     /\ IF Eval(c, k.pointer) \in DOMAIN FunctionAt
        THEN Enters(c, Function[FunctionAt[Eval(c, k.pointer)]], d) ELSE d = Ended("exec")

Invokes(k)    == k.op = "call" /\ k.invoke
CallOf(c, i)  == Code[c.callers[i].site]
Resumed(c, i) == IF Invokes(CallOf(c, i)) THEN Goto(PopTo(c, i), CallOf(c, i).normal, CallOf(c, i).block)
                 ELSE Goto(PopTo(c, i), c.callers[i].site + 1, NoBlock)
Returns(c, k, d) ==
  LET n == Len(c.callers) IN
  /\ k.op = "ret"
  /\ IF n = 0 THEN d = Ended("exit")
     ELSE IF k.value # NoReg
          THEN d = Bind(Resumed(c, n), CallOf(c, n).dst, CallOf(c, n).convert[Eval(c, k.value)])
          ELSE IF CallOf(c, n).dst # NoReg THEN d = Ended("exec") ELSE d = Resumed(c, n)

\* Unwinding pops the frames up to the last invoke.
Invoking(c) == {i \in DOMAIN c.callers : Invokes(CallOf(c, i))}
LastOf(S)   == {i \in S : \A j \in S : j =< i}
Unwinds(c, k, d) ==
  /\ k.op = "unwind"
  /\ \/ Invoking(c) = {} /\ d = Ended("exec")
     \/ \E i \in LastOf(Invoking(c)) : d = Goto(PopTo(c, i), CallOf(c, i).unwind, CallOf(c, i).block)

\* malloc may fail for any size.
Allocates(c, n, kind, old, fill, d) ==
  \/ d = Yields(c, 0)
  \/ \E b \in Value : /\ Fresh(c.mem, b, n % Unsigned)
                      /\ d = Yields(Allocated(c, b, n % Unsigned, kind, old, fill), b)
Frees(c, p, d) ==
  \/ p = 0 /\ d = Yields(c, 0)
  \/ /\ p \in DOMAIN c.mem
     /\ d = IF c.mem[p].kind = "heap" THEN Yields([c EXCEPT !.mem = Without(c.mem, {p})], 0)
            ELSE Ended("free")
  \/ p \notin DOMAIN c.mem \union {0} /\ d = Ended("ptr")
Manages(c, k, d) ==
  \/ k.op = "alloc" /\ Allocates(c, Eval(c, k.size), k.kind, 0, k.fill, d)
  \/ k.op = "free" /\ Frees(c, Eval(c, k.address), d)
  \/ /\ k.op = "realloc"
     /\ LET p == Eval(c, k.address)
            n == Eval(c, k.size)
        IN  IF n = 0 THEN Frees(c, p, d)
            ELSE IF p \in DOMAIN c.mem \union {0} THEN Allocates(c, n, "heap", p, Junk, d)
            ELSE d = Ended("ptr")

BytesAt(o, i, n) == [j \in 1 .. n |-> o.bytes[i + j - 1]]
Stored(o, i, n, v) ==
  [o EXCEPT !.bytes = [j \in DOMAIN o.bytes |->
     IF j - i \in 0 .. n - 1 THEN Part[n][v][j - i + 1] ELSE o.bytes[j]]]
Accesses(c, k, d) ==
  /\ k.op \in {"load", "store"}
  /\ LET p == Eval(c, k.address) IN
     \/ \E b \in DOMAIN c.mem :
          /\ Fits(c.mem[b], b, p, k.bytes)
          /\ d = IF k.op = "load" THEN Yields(c, Join[k.bytes][BytesAt(c.mem[b], p - b, k.bytes)])
                 ELSE IF c.mem[b].kind = "readonly" THEN Ended("readonly")
                 ELSE Proceeds([c EXCEPT !.mem =
                        With(c.mem, b, Stored(c.mem[b], p - b, k.bytes, Eval(c, k.value)))])
     \/ (\A b \in DOMAIN c.mem : ~Fits(c.mem[b], b, p, k.bytes)) /\ d = Ended("ptr")

\* klee_make_symbolic: the object's bytes become those of the input's next array.
Opened(c, b, B) ==
  [c EXCEPT !.mem = With(c.mem, b, [c.mem[b] EXCEPT !.bytes = B]), !.made = c.made + 1]
Names(a, c, k, d) ==
  LET p == Eval(c, k.address) IN
  \/ /\ k.op \in {"make_symbolic", "get_obj_size"}
     /\ p \notin DOMAIN c.mem /\ d = Ended("ptr")
  \/ k.op = "get_obj_size" /\ p \in DOMAIN c.mem /\ d = Yields(c, c.mem[p].size)
  \/ /\ k.op = "make_symbolic" /\ p \in DOMAIN c.mem
     /\ d = IF c.mem[p].kind = "readonly" \/ Eval(c, k.size) # c.mem[p].size THEN Ended("user")
            ELSE Proceeds(Opened(c, p, [i \in 0 .. c.mem[p].size - 1 |-> Given[<<a, c.made + 1, i>>]]))
  \/ /\ k.op = "check_access"
     /\ d = IF \E b \in DOMAIN c.mem : Covers(c.mem[b], b, p) /\ Fits(c.mem[b], b, p, Eval(c, k.size) % Unsigned)
            THEN Proceeds(c) ELSE Ended("ptr")

Asks(c, k, d) ==
  \/ k.op = "assume" /\ d = IF Eval(c, k.arg) # 0 THEN Proceeds(c) ELSE Ended("user")
  \/ k.op = "get_value" /\ d = Yields(c, Eval(c, k.arg))
  \/ k.op = "is_symbolic" /\ \E x \in 0 .. 1 : d = Yields(c, x)
  \/ k.op = "set_forking" /\ d = Proceeds([c EXCEPT !.forking = Eval(c, k.arg) # 0])
  \/ /\ k.op = "external"
     /\ IF k.banned THEN d = Ended("user")
        ELSE d = Ended("external") \/ \E x \in Value : d = Yields(c, x)
  \/ k.op = "nop" /\ d = Proceeds(c)

\* klee's functions without a result must not be asked for one.
Void == {"free", "make_symbolic", "assume", "check_access", "set_forking", "nop"}

\* runFunctionAsMain.
Started(f) ==
  [end |-> Running, pc |-> Function[f].entry, from |-> NoBlock,
   regs |-> FrameOf(Function[f], Arguments, Junk), locals |-> {}, callers |-> <<>>,
   mem |-> Globals, forking |-> TRUE, made |-> 0]

Step(a, c, d) ==
  /\ c.end = Running
  /\ LET k == Code[c.pc] IN
     IF k.op \in Void /\ k.dst # NoReg THEN d = Ended("exec")
     ELSE \/ Computes(c, k, d) \/ Branches(c, k, d) \/ Calls(c, k, d) \/ Returns(c, k, d)
          \/ Unwinds(c, k, d) \/ Manages(c, k, d) \/ Accesses(c, k, d) \/ Names(a, c, k, d)
          \/ Asks(c, k, d)

-------------------------------------------------------------------------------
(* What else may become of an input because the executor runs it together with
   others.                                                                         *)

\* An instruction whose argument the executor does not see to be unique is reported.
Unsure(c, d) ==
  /\ c.end = Running
  /\ LET k == Code[c.pc] IN
     \/ /\ (k.op = "alloc" /\ k.kind = "heap") \/ k.op = "realloc"
        /\ LET n == Eval(c, k.size) IN
           \/ k.op = "alloc" /\ n = 0 /\ d = Ended("zma")
           \/ n >= Unsigned /\ d = Ended("iof")
           \/ n \in 1 .. HugeSize /\ d = Ended("cma")
     \/ k.op \in {"check_access", "set_forking"} /\ d = Ended("user")
     \/ k.op = "external" /\ d = Ended("exec")

\* c and o are at an instruction that does not look the same to them.
DiffersFrom(c, o) ==
  /\ c.end = Running /\ o.end = Running /\ c.pc = o.pc
  /\ \E x \in Operands(Code[c.pc]) : Eval(c, x) # Eval(o, x)

\* What another input's run o may do to c at the instruction they are both at:
\* klee_assume drops the inputs it is false for; a concretization those with another
\* value; a switch those of a default block that is also the block of a taken case.
\* klee_get_value answers with the value of one input.  An illegal function pointer of
\* another input ends a run that has a legal one, and only one of several is reported.
\* A read-only object of another input makes klee_make_symbolic return early, and a
\* wrong size is an error for every input of the object.
Confused(c, o, d) ==
  /\ DiffersFrom(c, o)
  /\ LET k == Code[c.pc] IN
     \/ Unsure(c, d)
     \/ k.op \in Float /\ d = Ended(Early)
     \/ k.op = "assume" /\ Eval(c, k.arg) = 0 /\ Eval(o, k.arg) # 0 /\ d = Ended(Early)
     \/ /\ k.op = "switch" /\ Eval(c, k.on) \notin DOMAIN k.cases
        /\ Eval(o, k.on) \in DOMAIN k.cases /\ k.cases[Eval(o, k.on)] = k.default
        /\ d = Ended(Early)
     \/ k.op = "get_value" /\ d = Yields(c, Eval(o, k.arg))
     \/ /\ k.op = "icall" /\ c.forking
        /\ IF Eval(c, k.pointer) \in DOMAIN FunctionAt
           THEN Eval(o, k.pointer) \notin DOMAIN FunctionAt /\ d = Ended("exec")
           ELSE Eval(o, k.pointer) # Eval(c, k.pointer) /\ d = Proceeds(c)
     \/ /\ k.op = "make_symbolic" /\ Eval(o, k.address) \in DOMAIN o.mem
        /\ LET u == o.mem[Eval(o, k.address)] IN
           \/ u.kind = "readonly" /\ d = Proceeds(c)
           \/ Eval(o, k.address) = Eval(c, k.address) /\ Eval(o, k.size) # u.size /\ d = Ended("user")
==============================================================================
