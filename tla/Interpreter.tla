----------------------------- MODULE Interpreter -----------------------------
(* The interpreter of Executor: the paths it keeps, and what one instruction does to a
   path (executeInstruction and all it calls, without seeds).  The state of a path has
   an expression in every register and byte, a function from the inputs, and the set
   `inputs' of those its constraints admit.  An instruction replaces a path by pieces:
   states that go on and tests of paths that ended.

   An operator named for an operation of one state is that operation's resulting piece;
   the others are sets of outcomes, each a set of pieces.                           *)
EXTENDS Machine, FiniteSets

CONSTANT AllowExternalSymCalls

ASSUME InterpreterAssumption == AllowExternalSymCalls \in BOOLEAN

VARIABLES paths,    \* the states
          ended,    \* how the path of an input ended, or Running
          limited   \* whether timeouts, memory, depth or max-forks may interfere

interpreterVars == <<paths, ended, limited>>

Always(v) == [a \in Assignment |-> v]

\* The constraints of a state, as the inputs they admit.
On(s, I)       == [s EXCEPT !.inputs = I]
Where(s, e, V) == On(s, {a \in s.inputs : e[a] \in V})
Fail(s, why)   == [end |-> why, inputs |-> s.inputs]
Feasible(P)    == {p \in P : p.inputs # {}}

\* eval; stepInstruction's pc; the result of an instruction.
EvalIn(s, x) == IF x \in Reg THEN s.regs[x] ELSE Always(x)
ArgsIn(s)    == [j \in DOMAIN Code[s.pc].args |-> EvalIn(s, Code[s.pc].args[j])]
Advance(s)   == [s EXCEPT !.pc = s.pc + 1]
Result(s, e) == Advance(Bind(s, Code[s.pc].dst, e))

\* transferToBasicBlock: the index of the incoming block, if there is a phi to use it.
Transfer(s, p, src) ==
  [s EXCEPT !.pc = p,
            !.from = IF AtPhi(p) THEN CHOOSE j \in DOMAIN Code[p].blocks : Code[p].blocks[j] = src ELSE s.from]

\* The solver: an example of e (getValue), and whether e has one value (toUnique).
Examples(s, e) == IF s.inputs = {} THEN {0} ELSE {e[a] : a \in s.inputs}
Unique(s, e)   == \A a, b \in s.inputs : e[a] = e[b]

\* toConstant: only the inputs that agree with one of them on the expressions E stay.
Concretized(s, E) == {On(s, {a \in s.inputs : \A e \in E : e[a] = e[x]}) : x \in s.inputs}

\* What fork leaves of the feasible pieces: all, or one where forking is disabled.
\* Under limits it may drop any.
Kept(s, pieces) ==
  IF s.forking THEN IF limited THEN SUBSET pieces ELSE {pieces}
  ELSE {{p} : p \in pieces} \union IF limited THEN {{}} ELSE {}

\* One of the outcomes D[t] in each branch t.
InEach(D) ==
  {UNION {F[t] : t \in DOMAIN D} :
     F \in {G \in [DOMAIN D -> UNION {D[t] : t \in DOMAIN D}] : \A t \in DOMAIN D : G[t] \in D[t]}}

-------------------------------------------------------------------------------
(* Computation and branches.                                                       *)

ComputedIn(s, k) ==
  LET left  == EvalIn(s, k.left)
      right == EvalIn(s, k.right)
  IN  [a \in Assignment |->
         CASE k.op \in {"assign", "arithmetic"} -> k.of[<<left[a], right[a]>>]
           [] k.op = "select"  -> IF EvalIn(s, k.cond)[a] # 0 THEN left[a] ELSE right[a]
           [] k.op = "cast"    -> k.of[EvalIn(s, k.arg)[a]]
           [] k.op = "compare" -> IF k.order[<<left[a], right[a]>>] \in k.holds THEN 1 ELSE 0]

Compute(s, k) == {{Result(s, ComputedIn(s, k))}}
Choose(s, k)  == {{Result(s, EvalIn(s, k.values[s.from]))}}
\* Floating point works on constants.
Round(s, k) ==
  {{IF k.supported THEN Result(t, ComputedIn(t, k)) ELSE Fail(t, "exec")} :
     t \in Concretized(s, {EvalIn(s, x) : x \in Operands(k)})}

Branch(s, k) ==
  LET e == EvalIn(s, k.cond) IN
  Kept(s, Feasible({Transfer(Where(s, e, Value \ {0}), k.then, k.block),
                    Transfer(Where(s, e, {0}), k.else, k.block)}))
Jump(s, k) == {{Transfer(s, k.to, k.block)}}

\* branch() forks where forking is disabled too.  The default block keeps its own
\* condition only if no feasible case leads there.
TakenBy(s, k, t) ==
  LET e     == EvalIn(s, k.on)
      cases == {a \in s.inputs : e[a] \in DOMAIN k.cases /\ k.cases[e[a]] = t}
  IN  IF cases # {} \/ t # k.default THEN cases ELSE {a \in s.inputs : e[a] \notin DOMAIN k.cases}
Switch(s, k) ==
  LET pieces == Feasible({Transfer(On(s, TakenBy(s, k, t)), t, k.block) : t \in Targets(k)})
  IN  IF limited THEN SUBSET pieces ELSE {pieces}

-------------------------------------------------------------------------------
(* Memory: the search of AddressSpace::resolve over the objects in the order of their
   addresses, backwards and forwards from where an example x of the address e leads. *)

Back(s, e, x) ==
  {b \in DOMAIN s.mem : b =< x /\ \A q \in DOMAIN s.mem : b < q /\ q =< x => \E a \in s.inputs : e[a] < q}
\* Mutant: the search stops at an object that begins at the last address.
ForthShort(s, e, x) ==
  {b \in DOMAIN s.mem : x < b /\ \A q \in DOMAIN s.mem : x < q /\ q =< b => \E a \in s.inputs : q < e[a]}
Forth(s, e, x) ==
  {b \in DOMAIN s.mem : x < b /\ \A q \in DOMAIN s.mem : x < q /\ q =< b => \E a \in s.inputs : q =< e[a]}
Hit(s, e, b)  == \E a \in s.inputs : Covers(s.mem[b], b, e[a])
Sure(s, e, b) == \A a \in s.inputs : Covers(s.mem[b], b, e[a])
Hits(s, e, x) == {b \in Back(s, e, x) \union Forth(s, e, x) : Hit(s, e, b)}
Resolved(s, e, x) ==
  IF \E b \in Hits(s, e, x) : Sure(s, e, b) THEN {CHOOSE b \in Hits(s, e, x) : Sure(s, e, b)}
  ELSE Hits(s, e, x)
\* b is found before q.
Sooner(x, b, q) == IF b =< x THEN q < b \/ x < q ELSE x < q /\ b < q

\* resolveOne: the first hit.
Nearest(s, e, x) == {b \in Hits(s, e, x) : \A q \in Hits(s, e, x) \ {b} : Sooner(x, b, q)}

\* Mutant: a pointer into the object will do.
AtInside(s, e, b) == On(s, {a \in s.inputs : Covers(s.mem[b], b, e[a])})

\* resolveExact: a branch for each object that e is the base of; the rest is an error.
AtBase(s, e, b) == Where(s, e, {b})
Exactly(s, e, x) ==
  Feasible({AtBase(s, e, b) : b \in Resolved(s, e, x)}
             \union {Fail(Where(s, e, Value \ Resolved(s, e, x)), "ptr")})
The(t, e) == CHOOSE v \in Examples(t, e) : TRUE

\* What an access does to the object at b.
BytesIn(o, b, e, n) ==
  [a \in Assignment |-> [j \in 1 .. n |->
     IF e[a] - b + j - 1 \in DOMAIN o.bytes THEN o.bytes[e[a] - b + j - 1][a] ELSE Junk]]
StoredIn(o, b, e, n, v) ==
  [o EXCEPT !.bytes = [j \in DOMAIN o.bytes |-> [a \in Assignment |->
     IF j - (e[a] - b) \in 0 .. n - 1 THEN Part[n][v[a]][j - (e[a] - b) + 1] ELSE o.bytes[j][a]]]]
At(t, k, e, b) ==
  IF k.op = "load"
  THEN Result(t, [a \in Assignment |-> Join[k.bytes][BytesIn(t.mem[b], b, e, k.bytes)[a]]])
  ELSE IF t.mem[b].kind = "readonly" THEN Fail(t, "readonly")
  ELSE Advance([t EXCEPT !.mem = With(t.mem, b, StoredIn(t.mem[b], b, e, k.bytes, EvalIn(t, k.value)))])

\* executeMemoryOperation: the nearest object if every input fits it, else a piece for
\* each object resolved.  A timeout concretizes the address first.
FitIn(s, e, b, n)  == {a \in s.inputs : Fits(s.mem[b], b, e[a], n)}
Accessed(s, k, e, x) ==
  LET R == Resolved(s, e, x)
      whole == {b \in Nearest(s, e, x) : FitIn(s, e, b, k.bytes) = s.inputs}
  IN  IF whole # {} THEN {At(s, k, e, b) : b \in whole}
      ELSE Feasible({At(On(s, FitIn(s, e, b, k.bytes)), k, e, b) : b \in R}
             \union {Fail(On(s, s.inputs \ UNION {FitIn(s, e, b, k.bytes) : b \in R}), "ptr")})
Access(s, k) ==
  LET e == EvalIn(s, k.address) IN
  UNION {UNION {Kept(t, Accessed(t, k, e, x)) : x \in Examples(t, e)} :
           t \in {s} \union IF limited THEN Concretized(s, {e}) ELSE {}}

\* executeAlloc: malloc's answers for a size, and doSizeControlledMalloc, which keeps one
\* example of the sizes up to HugeSize.
Placed(s, n, kind, old, fill) ==
  {Result(s, Always(0))} \union
  {Result(Allocated(s, b, n % Unsigned, kind, old, Always(fill)), Always(b)) :
     b \in {c \in Value : Fresh(s.mem, c, n % Unsigned)}}
Small(s, e)   == {a \in s.inputs : e[a] \in 1 .. HugeSize}
Guesses(s, e) == {n \in 1 .. HugeSize : Small(s, e) # {} => \E a \in s.inputs : e[a] = n}
Controlled(s, e, n, p) ==
  Feasible({Fail(Where(s, e, {0}), "zma"), Fail(Where(s, e, Unsigned .. Word - 1), "iof"),
            Result(Where(s, e, HugeSize + 1 .. Unsigned - 1), Always(0)),
            p, Fail(Where(s, e, 1 .. HugeSize \ {n}), "cma")})
Alloc(s, e, kind, old, fill) ==
  (IF Unique(s, e) THEN {{p} : p \in Placed(s, The(s, e), kind, old, fill)} ELSE {})
  \union
  (IF kind = "heap" /\ (limited \/ ~Unique(s, e))
   THEN UNION {UNION {Kept(s, Controlled(s, e, n, p)) : p \in Placed(Where(s, e, {n}), n, kind, old, fill)} :
                 n \in Guesses(s, e)}
   ELSE {})

\* executeFree.
Release(t, b) ==
  IF t.mem[b].kind = "heap" THEN Result([t EXCEPT !.mem = Without(t.mem, {b})], Always(0)) ELSE Fail(t, "free")
Free(s, e) ==
  LET pointers == Where(s, e, Value \ {0}) IN
  UNION {Kept(s, Feasible({Result(Where(s, e, {0}), Always(0))})
                   \union {IF t.end = Running THEN Release(t, The(t, e)) ELSE t : t \in Exactly(pointers, e, x)}) :
           x \in Examples(pointers, e)}

Realloc(s, k) ==
  LET e == EvalIn(s, k.address)
      n == EvalIn(s, k.size)
      sized    == Where(s, n, Value \ {0})
      pointers == Where(sized, e, Value \ {0})
      Forks(x) == Feasible({Where(s, n, {0}), Where(sized, e, {0})}) \union Exactly(pointers, e, x)
      Done(t) == IF t.end # Running THEN {{t}}
                 ELSE IF The(t, n) = 0 THEN Free(t, e)
                 ELSE Alloc(t, n, "heap", The(t, e), Junk)
  IN  UNION {UNION {InEach([t \in K |-> Done(t)]) : K \in Kept(s, Forks(x))} :
               x \in Examples(pointers, e)}

-------------------------------------------------------------------------------
(* Calls and returns.                                                              *)

\* executeCall: the frame, and CheckMemoryOutofBound for read.
ReachedBy(t, e, n, x, b) ==
  {a \in t.inputs : /\ Reaches(t.mem[b], b, e[a], n[a])
                    /\ \A q \in Resolved(t, e, x) : Sooner(x, q, b) => ~Reaches(t.mem[q], q, e[a], n[a])}
CheckOutofBound(t, e, n, x) ==
  LET R == Resolved(t, e, x) IN
  Feasible({On(t, ReachedBy(t, e, n, x, b)) : b \in R}
    \union {Fail(On(t, t.inputs \ UNION {ReachedBy(t, e, n, x, b) : b \in R}), "ptr")})
Call(s, f) ==
  LET V == ArgsIn(s)
      t == Push(s, f, V, Always(Junk))
  IN  IF Len(V) < Len(f.params) THEN {{Fail(s, "user")}}
      ELSE IF ~f.checked THEN {{t}}
      ELSE UNION {Kept(t, CheckOutofBound(t, V[2], V[3], x)) : x \in Examples(t, V[2])}

\* A call through a pointer.  `state' is the state of the first example: the first illegal
\* pointer terminates that one, whichever its own pointer is; the other states with an
\* illegal pointer go on after the call.
Terminated(p) == IF p.end = Running THEN Fail(p, "exec") ELSE p
Legal(e, K)   == {t \in K : The(t, e) \in DOMAIN FunctionAt}
Mixed(e, K, P) ==
  LET bad == K \ Legal(e, K)
      Skipping(B) == {Advance(t) : t \in B}
  IN  IF bad = {} THEN {P}
      ELSE {P \union {Fail(t, "exec")} \union Skipping(bad \ {t}) : t \in bad}
           \union {(P \ {p}) \union {Terminated(p)} \union Skipping(bad) : p \in P}
CallThrough(s, k) ==
  LET e == EvalIn(s, k.pointer)
      Called(K) == InEach([t \in Legal(e, K) |-> Call(t, Function[FunctionAt[The(t, e)]])])
  IN  UNION {UNION {Mixed(e, K, P) : P \in Called(K)} :
               K \in Kept(s, {Where(s, e, {x}) : x \in Examples(s, e)})}

\* Ret and, before LLVM 3.1, Unwind.
ResumedIn(s, i) ==
  LET k == CallOf(s, i) IN
  IF Invokes(k) THEN Transfer(PopTo(s, i), k.normal, k.block)
  ELSE [PopTo(s, i) EXCEPT !.pc = s.callers[i].site + 1]
Return(s, k) ==
  LET n == Len(s.callers) IN
  {{IF n = 0 THEN Fail(s, "exit")
    ELSE IF k.value # NoReg
         THEN Bind(ResumedIn(s, n), CallOf(s, n).dst,
                   [a \in Assignment |-> CallOf(s, n).convert[EvalIn(s, k.value)[a]]])
    ELSE IF CallOf(s, n).dst # NoReg THEN Fail(s, "exec") ELSE ResumedIn(s, n)}}
Unwind(s) ==
  IF Invoking(s) = {} THEN {{Fail(s, "exec")}}
  ELSE {{Transfer(PopTo(s, i), CallOf(s, i).unwind, CallOf(s, i).block)} : i \in LastOf(Invoking(s))}

-------------------------------------------------------------------------------
(* The functions the executor handles itself.                                      *)

\* handleMakeSymbolic: at a read-only object it returns and leaves the other states alone.
BytesOfArray(s, b) == [i \in 0 .. s.mem[b].size - 1 |-> [a \in Assignment |-> Given[<<a, s.made + 1, i>>]]]
Symbolic(t, e, n) ==
  LET b == The(t, e) IN
  IF t.mem[b].kind = "readonly" \/ \E a \in t.inputs : n[a] # t.mem[b].size THEN Fail(t, "user")
  ELSE Advance(Opened(t, b, BytesOfArray(t, b)))
Named(e, n, K) ==
  LET Live     == {t \in K : t.end = Running}
      Readonly == {t \in Live : t.mem[The(t, e)].kind = "readonly"}
      Handled  == {H \in SUBSET Live : IF Readonly = {} THEN H = Live
                                       ELSE \E r \in Readonly : H \intersect Readonly = {r}}
  IN  {(K \ Live) \union {Symbolic(t, e, n) : t \in H} \union {Advance(t) : t \in Live \ H} : H \in Handled}
MakeSymbolic(s, k) ==
  LET e == EvalIn(s, k.address)
      n == EvalIn(s, k.size)
  IN  UNION {UNION {Named(e, n, K) : K \in Kept(s, Exactly(s, e, x))} : x \in Examples(s, e)}
GetObjSize(s, k) ==
  LET e == EvalIn(s, k.address) IN
  UNION {Kept(s, {IF t.end = Running THEN Result(t, Always(t.mem[The(t, e)].size)) ELSE t :
                    t \in Exactly(s, e, x)}) : x \in Examples(s, e)}

\* Arguments that must be unique; the solver may time out on whether they are.
Uniquely(s, E, done, why) ==
  (IF \A e \in E : Unique(s, e) THEN {{done}} ELSE {})
  \union (IF limited \/ \E e \in E : ~Unique(s, e) THEN {{Fail(s, why)}} ELSE {})
CheckAccess(s, k) ==
  LET e == EvalIn(s, k.address)
      n == EvalIn(s, k.size)
      held == \E b \in DOMAIN s.mem : /\ Covers(s.mem[b], b, The(s, e))
                                      /\ Fits(s.mem[b], b, The(s, e), The(s, n) % Unsigned)
  IN  Uniquely(s, {e, n}, IF held THEN Advance(s) ELSE Fail(s, "ptr"), "user")
SetForking(s, k) ==
  LET e == EvalIn(s, k.arg)
  IN  Uniquely(s, {e}, Advance([s EXCEPT !.forking = The(s, e) # 0]), "user")

Assume(s, k) ==
  LET true == Where(s, EvalIn(s, k.arg), Value \ {0})
  IN  {{IF true.inputs = {} THEN Fail(s, "user") ELSE Advance(true)}}
GetValue(s, k) == {{Result(s, Always(x))} : x \in Examples(s, EvalIn(s, k.arg))}
\* Only a constant expression is not symbolic.
IsSymbolic(s, k) ==
  LET e == EvalIn(s, k.arg)
  IN  {{Result(s, Always(x))} : x \in {y \in 0 .. 1 : y = 1 \/ \A a, b \in Assignment : e[a] = e[b]}}

\* callExternalFunction; what it does to memory is in AddressSpace.
CallExternal(s, k) ==
  LET done == {Fail(s, "external")} \union {Result(s, Always(x)) : x \in Value}
  IN  IF k.banned THEN {{Fail(s, "user")}}
      ELSE IF AllowExternalSymCalls THEN {{p} : p \in done}
      ELSE UNION {Uniquely(s, {EvalIn(s, x) : x \in Operands(k)}, p, "exec") : p \in done}

-------------------------------------------------------------------------------
(* executeInstruction.                                                             *)

Outcomes(s) ==
  LET k == Code[s.pc] IN
  IF k.op \in Void /\ k.dst # NoReg THEN {{Fail(s, "exec")}}
  ELSE CASE k.op \in {"assign", "select"} -> Compute(s, k)
         [] k.op = "phi"    -> Choose(s, k)
         [] k.op \in Float  -> Round(s, k)
         [] k.op = "br"     -> Branch(s, k)
         [] k.op = "jump"   -> Jump(s, k)
         [] k.op = "switch" -> Switch(s, k)
         [] k.op = "stop"   -> {{Fail(s, k.why)}}
         [] k.op = "call"   -> Call(s, Function[k.function])
         [] k.op = "icall"  -> CallThrough(s, k)
         [] k.op = "ret"    -> Return(s, k)
         [] k.op = "unwind" -> Unwind(s)
         [] k.op \in {"load", "store"} -> Access(s, k)
         [] k.op = "alloc"  -> Alloc(s, EvalIn(s, k.size), k.kind, 0, k.fill)
         [] k.op = "free"   -> Free(s, EvalIn(s, k.address))
         [] k.op = "realloc" -> Realloc(s, k)
         [] k.op = "make_symbolic" -> IF s.made < MaxArrays THEN MakeSymbolic(s, k) ELSE {}
         [] k.op = "get_obj_size"  -> GetObjSize(s, k)
         [] k.op = "check_access"  -> CheckAccess(s, k)
         [] k.op = "set_forking"   -> SetForking(s, k)
         [] k.op = "assume" -> Assume(s, k)
         [] k.op = "get_value"   -> GetValue(s, k)
         [] k.op = "is_symbolic" -> IsSymbolic(s, k)
         [] k.op = "external" -> CallExternal(s, k)
         [] k.op = "nop"    -> {{Advance(s)}}

\* The inputs in no piece are in no path: nothing is reported for them.
Replaced(s, P) ==
  /\ paths' = (paths \ {s}) \union {p \in P : p.end = Running}
  /\ ended' = [a \in Assignment |->
       IF a \notin s.inputs THEN ended[a]
       ELSE IF \E p \in P : a \in p.inputs THEN (CHOOSE p \in P : a \in p.inputs).end
       ELSE Early]
  /\ UNCHANGED limited

Execute(s) == \E P \in Outcomes(s) : Replaced(s, P)
\* terminateStateEarly: under memory pressure, at the depth or time limits.
Abandon(s) == limited /\ Replaced(s, {})

\* runFunctionAsMain.
SymbolicObject(o) == [o EXCEPT !.bytes = [i \in DOMAIN o.bytes |-> Always(o.bytes[i])]]
InitialState(f) ==
  [end |-> Running, inputs |-> Assignment, pc |-> Function[f].entry, from |-> 0,
   regs |-> FrameOf(Function[f], [j \in DOMAIN Arguments |-> Always(Arguments[j])], Always(Junk)),
   locals |-> {}, callers |-> <<>>,
   mem |-> [b \in DOMAIN Globals |-> SymbolicObject(Globals[b])],
   forking |-> TRUE, made |-> 0]
InterpreterInit == /\ \E f \in Mains : paths = {InitialState(f)}
                   /\ ended = [a \in Assignment |-> Running]
                   /\ limited \in BOOLEAN

InterpreterNext == \E s \in paths : Execute(s) \/ Abandon(s)

InterpreterSpec == InterpreterInit /\ [][InterpreterNext]_interpreterVars
-------------------------------------------------------------------------------
(* The path of an input as a run of the program on it.                             *)

ValuesOf(regs, a) == [r \in DOMAIN regs |-> regs[r][a]]
FramesOf(C, a)    == [i \in DOMAIN C |-> [C[i] EXCEPT !.regs = ValuesOf(C[i].regs, a)]]
ObjectOf(o, a)    == [o EXCEPT !.bytes = [i \in DOMAIN o.bytes |-> o.bytes[i][a]]]
MemoryOf(mem, a)  == [b \in DOMAIN mem |-> ObjectOf(mem[b], a)]
View(p, a) ==
  IF p.end # Running THEN Ended(p.end)
  ELSE [end |-> Running, pc |-> p.pc, from |-> IF AtPhi(p.pc) THEN Code[p.pc].blocks[p.from] ELSE NoBlock,
        regs |-> ValuesOf(p.regs, a), locals |-> p.locals, callers |-> FramesOf(p.callers, a),
        mem |-> MemoryOf(p.mem, a), forking |-> p.forking, made |-> p.made]
RunOf(a) == IF ended[a] # Running THEN Ended(ended[a]) ELSE View(CHOOSE s \in paths : a \in s.inputs, a)

Runs == INSTANCE ProgramRuns WITH
          Starts <- {Started(f) : f \in Mains}, run <- [a \in Assignment |-> RunOf(a)]

\* Every input has a run of the program on it.
EveryInputRuns == Runs!Spec

-------------------------------------------------------------------------------
(* Invariants.                                                                     *)

Expression == [Assignment -> Value]
CallSite   == {p \in DOMAIN Code : Code[p].op \in Calling}
Frame      == [site : CallSite, regs : [Reg -> Expression], locals : SUBSET Value]
SymbolicObjectOK(o) ==
  /\ o = [size |-> o.size, kind |-> o.kind, bytes |-> o.bytes]
  /\ o.size \in 0 .. Unsigned - 1 /\ o.kind \in Kind
  /\ o.bytes \in [0 .. o.size - 1 -> [Assignment -> Octet]]
MemoryOK(mem) ==
  /\ mem = [b \in DOMAIN mem |-> mem[b]] /\ DOMAIN mem \subseteq Value \ {0}
  /\ \A b \in DOMAIN mem : SymbolicObjectOK(mem[b]) /\ b + mem[b].size =< Word
  /\ Apart(mem)
StateOK(s) ==
  /\ s = [end |-> Running, inputs |-> s.inputs, pc |-> s.pc, from |-> s.from, regs |-> s.regs,
          locals |-> s.locals, callers |-> s.callers, mem |-> s.mem,
          forking |-> s.forking, made |-> s.made]
  /\ s.inputs \subseteq Assignment /\ s.inputs # {}
  /\ s.pc \in DOMAIN Code /\ (AtPhi(s.pc) => s.from \in DOMAIN Code[s.pc].blocks)
  /\ s.regs \in [Reg -> Expression] /\ s.locals \subseteq Value
  /\ s.callers \in Seq(Frame)
  /\ MemoryOK(s.mem)
  /\ s.forking \in BOOLEAN /\ s.made \in 0 .. MaxArrays

\* The constraints of the paths tell the inputs apart, none is lost without having
\* ended, and no path has overlapping objects.
PathsPartition ==
  /\ limited \in BOOLEAN
  /\ \A s \in paths : StateOK(s)
  /\ \A s, t \in paths : s # t => s.inputs \intersect t.inputs = {}
  /\ \A a \in Assignment : ended[a] = Running <=> \E s \in paths : a \in s.inputs
==============================================================================
