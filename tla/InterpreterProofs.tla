-------------------------- MODULE InterpreterProofs --------------------------
EXTENDS Interpreter, FiniteSetTheorems, WellFoundedInduction, TLAPS

(* The proofs about Interpreter.  A set of pieces that replaces a path is Good when
   every piece is well formed, no two share an input, each input of a piece moved there
   as EveryInputRuns allows, and each input in no piece may be given up.  One lemma per
   instruction shows its outcomes Good; ResolutionComplete is the fact about memory they
   rest on.  The lemmas before them say that an operation on a state with expressions is,
   on each input, the operation of Machine with that input's values.               *)

(* States and configurations by their fields.                                      *)

StateOf(I, p, j, R, L, C, M, f, m) ==
  [end |-> Running, inputs |-> I, pc |-> p, from |-> j, regs |-> R, locals |-> L,
   callers |-> C, mem |-> M, forking |-> f, made |-> m]
ConfigOf(p, b, R, L, C, M, f, m) ==
  [end |-> Running, pc |-> p, from |-> b, regs |-> R, locals |-> L, callers |-> C,
   mem |-> M, forking |-> f, made |-> m]

\* A state is the record of its fields.
LEMMA StateForm ==
  ASSUME NEW s, StateOK(s)
  PROVE  s = StateOf(s.inputs, s.pc, s.from, s.regs, s.locals, s.callers, s.mem, s.forking, s.made)
  BY DEF StateOK, StateOf

\* The fields of a state put together from them.
LEMMA StateFields ==
  ASSUME NEW I, NEW p, NEW j, NEW R, NEW L, NEW C, NEW M, NEW f, NEW m
  PROVE  LET s == StateOf(I, p, j, R, L, C, M, f, m) IN
         /\ s.end = Running /\ s.inputs = I /\ s.pc = p /\ s.from = j /\ s.regs = R
         /\ s.locals = L /\ s.callers = C /\ s.mem = M /\ s.forking = f /\ s.made = m
  BY DEF StateOf

\* The fields of a configuration put together from them.
LEMMA ConfigFields ==
  ASSUME NEW p, NEW j, NEW R, NEW L, NEW C, NEW M, NEW f, NEW m
  PROVE  LET s == ConfigOf(p, j, R, L, C, M, f, m) IN
         /\ s.end = Running /\ s.pc = p /\ s.from = j /\ s.regs = R
         /\ s.locals = L /\ s.callers = C /\ s.mem = M /\ s.forking = f /\ s.made = m
  BY DEF ConfigOf

StateShape(s) ==
  s = StateOf(s.inputs, s.pc, s.from, s.regs, s.locals, s.callers, s.mem, s.forking, s.made)
ConfigShape(s) ==
  s = ConfigOf(s.pc, s.from, s.regs, s.locals, s.callers, s.mem, s.forking, s.made)

\* A state after one of its fields changed.
LEMMA StateUpdates ==
  ASSUME NEW s, StateShape(s), NEW x
  PROVE  /\ [s EXCEPT !.inputs = x] = StateOf(x, s.pc, s.from, s.regs, s.locals, s.callers, s.mem, s.forking, s.made)
         /\ [s EXCEPT !.pc = x] = StateOf(s.inputs, x, s.from, s.regs, s.locals, s.callers, s.mem, s.forking, s.made)
         /\ [s EXCEPT !.from = x] = StateOf(s.inputs, s.pc, x, s.regs, s.locals, s.callers, s.mem, s.forking, s.made)
         /\ [s EXCEPT !.regs = x] = StateOf(s.inputs, s.pc, s.from, x, s.locals, s.callers, s.mem, s.forking, s.made)
         /\ [s EXCEPT !.locals = x] = StateOf(s.inputs, s.pc, s.from, s.regs, x, s.callers, s.mem, s.forking, s.made)
         /\ [s EXCEPT !.callers = x] = StateOf(s.inputs, s.pc, s.from, s.regs, s.locals, x, s.mem, s.forking, s.made)
         /\ [s EXCEPT !.mem = x] = StateOf(s.inputs, s.pc, s.from, s.regs, s.locals, s.callers, x, s.forking, s.made)
         /\ [s EXCEPT !.forking = x] = StateOf(s.inputs, s.pc, s.from, s.regs, s.locals, s.callers, s.mem, x, s.made)
         /\ [s EXCEPT !.made = x] = StateOf(s.inputs, s.pc, s.from, s.regs, s.locals, s.callers, s.mem, s.forking, x)
  BY DEF StateOf, StateShape

\* Several fields at once.
LEMMA StateJumped ==
  ASSUME NEW s, StateShape(s), NEW x, NEW y
  PROVE  [s EXCEPT !.pc = x, !.from = y]
           = StateOf(s.inputs, x, y, s.regs, s.locals, s.callers, s.mem, s.forking, s.made)
<1> DEFINE t == [s EXCEPT !.pc = x]
           u == [t EXCEPT !.from = y]
<1>1. [s EXCEPT !.pc = x, !.from = y] = u OBVIOUS
<1>2. t = StateOf(s.inputs, x, s.from, s.regs, s.locals, s.callers, s.mem, s.forking, s.made) BY DEF StateOf, StateShape
<1> HIDE DEF t
<1>3. u = StateOf(s.inputs, x, y, s.regs, s.locals, s.callers, s.mem, s.forking, s.made) BY <1>2 DEF StateOf
<1> HIDE DEF u
<1> QED BY <1>1, <1>3

\* A state after executeAlloc bound an object.
LEMMA StateBound ==
  ASSUME NEW s, StateShape(s), NEW x, NEW y
  PROVE  [s EXCEPT !.mem = x, !.locals = y]
           = StateOf(s.inputs, s.pc, s.from, s.regs, y, s.callers, x, s.forking, s.made)
<1> DEFINE t == [s EXCEPT !.mem = x]
           u == [t EXCEPT !.locals = y]
<1>1. [s EXCEPT !.mem = x, !.locals = y] = u OBVIOUS
<1>2. t = StateOf(s.inputs, s.pc, s.from, s.regs, s.locals, s.callers, x, s.forking, s.made) BY DEF StateOf, StateShape
<1> HIDE DEF t
<1>3. u = StateOf(s.inputs, s.pc, s.from, s.regs, y, s.callers, x, s.forking, s.made) BY <1>2 DEF StateOf
<1> HIDE DEF u
<1> QED BY <1>1, <1>3

\* A state after an object was made symbolic.
LEMMA StateMade ==
  ASSUME NEW s, StateShape(s), NEW x, NEW y
  PROVE  [s EXCEPT !.mem = x, !.made = y]
           = StateOf(s.inputs, s.pc, s.from, s.regs, s.locals, s.callers, x, s.forking, y)
<1> DEFINE t == [s EXCEPT !.mem = x]
           u == [t EXCEPT !.made = y]
<1>1. [s EXCEPT !.mem = x, !.made = y] = u OBVIOUS
<1>2. t = StateOf(s.inputs, s.pc, s.from, s.regs, s.locals, s.callers, x, s.forking, s.made) BY DEF StateOf, StateShape
<1> HIDE DEF t
<1>3. u = StateOf(s.inputs, s.pc, s.from, s.regs, s.locals, s.callers, x, s.forking, y) BY <1>2 DEF StateOf
<1> HIDE DEF u
<1> QED BY <1>1, <1>3

\* A state after pushFrame.
LEMMA StatePushed ==
  ASSUME NEW s, StateShape(s), NEW f, NEW V, NEW v
  PROVE  Push(s, f, V, v)
           = StateOf(s.inputs, f.entry, s.from, FrameOf(f, V, v), {}, Append(s.callers, [site |-> s.pc, regs |-> s.regs, locals |-> s.locals]), s.mem, s.forking, s.made)
<1> DEFINE w == Append(s.callers, [site |-> s.pc, regs |-> s.regs, locals |-> s.locals])
           x == {}
           y == FrameOf(f, V, v)
           z == f.entry
<1>0. Push(s, f, V, v) = [s EXCEPT !.callers = w, !.locals = x, !.regs = y, !.pc = z] BY Zenon DEF Push
<1> HIDE DEF w, x, y, z
<1> DEFINE t == [s EXCEPT !.callers = w]
           u == [t EXCEPT !.locals = x]
           v0 == [u EXCEPT !.regs = y]
           q == [v0 EXCEPT !.pc = z]
<1>1. [s EXCEPT !.callers = w, !.locals = x, !.regs = y, !.pc = z] = q OBVIOUS
<1>2. t = StateOf(s.inputs, s.pc, s.from, s.regs, s.locals, w, s.mem, s.forking, s.made) BY DEF StateOf, StateShape
<1> HIDE DEF t
<1>3. u = StateOf(s.inputs, s.pc, s.from, s.regs, x, w, s.mem, s.forking, s.made) BY <1>2 DEF StateOf
<1> HIDE DEF u
<1>4. v0 = StateOf(s.inputs, s.pc, s.from, y, x, w, s.mem, s.forking, s.made) BY <1>3 DEF StateOf
<1> HIDE DEF v0
<1>5. q = StateOf(s.inputs, z, s.from, y, x, w, s.mem, s.forking, s.made) BY <1>4 DEF StateOf
<1> HIDE DEF q
<1> QED BY <1>0, <1>1, <1>5 DEF w, x, y, z

\* A state after popFrame, down to the i-th caller.
LEMMA StatePoppedTo ==
  ASSUME NEW s, StateShape(s), NEW i
  PROVE  PopTo(s, i)
           = StateOf(s.inputs, s.pc, s.from, s.callers[i].regs, s.callers[i].locals, SubSeq(s.callers, 1, i - 1), Without(s.mem, Popped(s, i)), s.forking, s.made)
<1> DEFINE w == SubSeq(s.callers, 1, i - 1)
           x == s.callers[i].locals
           y == s.callers[i].regs
           z == Without(s.mem, Popped(s, i))
<1>0. PopTo(s, i) = [s EXCEPT !.mem = z, !.regs = y, !.locals = x, !.callers = w] BY Zenon DEF PopTo
<1> HIDE DEF w, x, y, z
<1> DEFINE t == [s EXCEPT !.mem = z]
           u == [t EXCEPT !.regs = y]
           v0 == [u EXCEPT !.locals = x]
           q == [v0 EXCEPT !.callers = w]
<1>1. [s EXCEPT !.mem = z, !.regs = y, !.locals = x, !.callers = w] = q OBVIOUS
<1>2. t = StateOf(s.inputs, s.pc, s.from, s.regs, s.locals, s.callers, z, s.forking, s.made) BY DEF StateOf, StateShape
<1> HIDE DEF t
<1>3. u = StateOf(s.inputs, s.pc, s.from, y, s.locals, s.callers, z, s.forking, s.made) BY <1>2 DEF StateOf
<1> HIDE DEF u
<1>4. v0 = StateOf(s.inputs, s.pc, s.from, y, x, s.callers, z, s.forking, s.made) BY <1>3 DEF StateOf
<1> HIDE DEF v0
<1>5. q = StateOf(s.inputs, s.pc, s.from, y, x, w, z, s.forking, s.made) BY <1>4 DEF StateOf
<1> HIDE DEF q
<1> QED BY <1>0, <1>1, <1>5 DEF w, x, y, z

\* The same changes in a configuration: control moves.
LEMMA ConfigJumped ==
  ASSUME NEW s, ConfigShape(s), NEW x, NEW y
  PROVE  [s EXCEPT !.pc = x, !.from = y]
           = ConfigOf(x, y, s.regs, s.locals, s.callers, s.mem, s.forking, s.made)
<1> DEFINE t == [s EXCEPT !.pc = x]
           u == [t EXCEPT !.from = y]
<1>1. [s EXCEPT !.pc = x, !.from = y] = u OBVIOUS
<1>2. t = ConfigOf(x, s.from, s.regs, s.locals, s.callers, s.mem, s.forking, s.made) BY DEF ConfigOf, ConfigShape
<1> HIDE DEF t
<1>3. u = ConfigOf(x, y, s.regs, s.locals, s.callers, s.mem, s.forking, s.made) BY <1>2 DEF ConfigOf
<1> HIDE DEF u
<1> QED BY <1>1, <1>3

\* A configuration with another memory and other allocas.
LEMMA ConfigBound ==
  ASSUME NEW s, ConfigShape(s), NEW x, NEW y
  PROVE  [s EXCEPT !.mem = x, !.locals = y]
           = ConfigOf(s.pc, s.from, s.regs, y, s.callers, x, s.forking, s.made)
<1> DEFINE t == [s EXCEPT !.mem = x]
           u == [t EXCEPT !.locals = y]
<1>1. [s EXCEPT !.mem = x, !.locals = y] = u OBVIOUS
<1>2. t = ConfigOf(s.pc, s.from, s.regs, s.locals, s.callers, x, s.forking, s.made) BY DEF ConfigOf, ConfigShape
<1> HIDE DEF t
<1>3. u = ConfigOf(s.pc, s.from, s.regs, y, s.callers, x, s.forking, s.made) BY <1>2 DEF ConfigOf
<1> HIDE DEF u
<1> QED BY <1>1, <1>3

\* A configuration with an array more.
LEMMA ConfigMade ==
  ASSUME NEW s, ConfigShape(s), NEW x, NEW y
  PROVE  [s EXCEPT !.mem = x, !.made = y]
           = ConfigOf(s.pc, s.from, s.regs, s.locals, s.callers, x, s.forking, y)
<1> DEFINE t == [s EXCEPT !.mem = x]
           u == [t EXCEPT !.made = y]
<1>1. [s EXCEPT !.mem = x, !.made = y] = u OBVIOUS
<1>2. t = ConfigOf(s.pc, s.from, s.regs, s.locals, s.callers, x, s.forking, s.made) BY DEF ConfigOf, ConfigShape
<1> HIDE DEF t
<1>3. u = ConfigOf(s.pc, s.from, s.regs, s.locals, s.callers, x, s.forking, y) BY <1>2 DEF ConfigOf
<1> HIDE DEF u
<1> QED BY <1>1, <1>3

\* A configuration in a new frame.
LEMMA ConfigPushed ==
  ASSUME NEW s, ConfigShape(s), NEW f, NEW V, NEW v
  PROVE  Push(s, f, V, v)
           = ConfigOf(f.entry, s.from, FrameOf(f, V, v), {}, Append(s.callers, [site |-> s.pc, regs |-> s.regs, locals |-> s.locals]), s.mem, s.forking, s.made)
<1> DEFINE w == Append(s.callers, [site |-> s.pc, regs |-> s.regs, locals |-> s.locals])
           x == {}
           y == FrameOf(f, V, v)
           z == f.entry
<1>0. Push(s, f, V, v) = [s EXCEPT !.callers = w, !.locals = x, !.regs = y, !.pc = z] BY Zenon DEF Push
<1> HIDE DEF w, x, y, z
<1> DEFINE t == [s EXCEPT !.callers = w]
           u == [t EXCEPT !.locals = x]
           v0 == [u EXCEPT !.regs = y]
           q == [v0 EXCEPT !.pc = z]
<1>1. [s EXCEPT !.callers = w, !.locals = x, !.regs = y, !.pc = z] = q OBVIOUS
<1>2. t = ConfigOf(s.pc, s.from, s.regs, s.locals, w, s.mem, s.forking, s.made) BY DEF ConfigOf, ConfigShape
<1> HIDE DEF t
<1>3. u = ConfigOf(s.pc, s.from, s.regs, x, w, s.mem, s.forking, s.made) BY <1>2 DEF ConfigOf
<1> HIDE DEF u
<1>4. v0 = ConfigOf(s.pc, s.from, y, x, w, s.mem, s.forking, s.made) BY <1>3 DEF ConfigOf
<1> HIDE DEF v0
<1>5. q = ConfigOf(z, s.from, y, x, w, s.mem, s.forking, s.made) BY <1>4 DEF ConfigOf
<1> HIDE DEF q
<1> QED BY <1>0, <1>1, <1>5 DEF w, x, y, z

\* A configuration back in the frame of the i-th caller.
LEMMA ConfigPoppedTo ==
  ASSUME NEW s, ConfigShape(s), NEW i
  PROVE  PopTo(s, i)
           = ConfigOf(s.pc, s.from, s.callers[i].regs, s.callers[i].locals, SubSeq(s.callers, 1, i - 1), Without(s.mem, Popped(s, i)), s.forking, s.made)
<1> DEFINE w == SubSeq(s.callers, 1, i - 1)
           x == s.callers[i].locals
           y == s.callers[i].regs
           z == Without(s.mem, Popped(s, i))
<1>0. PopTo(s, i) = [s EXCEPT !.mem = z, !.regs = y, !.locals = x, !.callers = w] BY Zenon DEF PopTo
<1> HIDE DEF w, x, y, z
<1> DEFINE t == [s EXCEPT !.mem = z]
           u == [t EXCEPT !.regs = y]
           v0 == [u EXCEPT !.locals = x]
           q == [v0 EXCEPT !.callers = w]
<1>1. [s EXCEPT !.mem = z, !.regs = y, !.locals = x, !.callers = w] = q OBVIOUS
<1>2. t = ConfigOf(s.pc, s.from, s.regs, s.locals, s.callers, z, s.forking, s.made) BY DEF ConfigOf, ConfigShape
<1> HIDE DEF t
<1>3. u = ConfigOf(s.pc, s.from, y, s.locals, s.callers, z, s.forking, s.made) BY <1>2 DEF ConfigOf
<1> HIDE DEF u
<1>4. v0 = ConfigOf(s.pc, s.from, y, x, s.callers, z, s.forking, s.made) BY <1>3 DEF ConfigOf
<1> HIDE DEF v0
<1>5. q = ConfigOf(s.pc, s.from, y, x, w, z, s.forking, s.made) BY <1>4 DEF ConfigOf
<1> HIDE DEF q
<1> QED BY <1>0, <1>1, <1>5 DEF w, x, y, z

(* A state and its view on an input.                                               *)

FieldsOK(I, p, j, R, L, C, M, f, m) ==
  /\ I \subseteq Assignment /\ I # {}
  /\ p \in DOMAIN Code /\ (AtPhi(p) => j \in DOMAIN Code[p].blocks)
  /\ R \in [Reg -> Expression] /\ L \subseteq Value
  /\ C \in Seq(Frame) /\ MemoryOK(M) /\ f \in BOOLEAN /\ m \in 0 .. MaxArrays

\* A state is well formed when its fields are.
LEMMA StateIntro ==
  ASSUME NEW I, NEW p, NEW j, NEW R, NEW L, NEW C, NEW M, NEW f, NEW m,
         FieldsOK(I, p, j, R, L, C, M, f, m)
  PROVE  StateOK(StateOf(I, p, j, R, L, C, M, f, m))
  BY DEF FieldsOK, StateOK, StateOf

\* The fields of a well-formed state.
LEMMA StateElim ==
  ASSUME NEW s, StateOK(s)
  PROVE  /\ FieldsOK(s.inputs, s.pc, s.from, s.regs, s.locals, s.callers, s.mem, s.forking, s.made)
         /\ s.end = Running
<1>1. FieldsOK(s.inputs, s.pc, s.from, s.regs, s.locals, s.callers, s.mem, s.forking, s.made)
  BY DEF FieldsOK, StateOK
<1>2. s.end = Running BY StateForm, StateFields
<1> QED BY <1>1, <1>2

Entered(p, j) == IF AtPhi(p) THEN Code[p].blocks[j] ELSE NoBlock

\* The configuration an input has on a path, field by field.
LEMMA ViewForm ==
  ASSUME NEW I, NEW p, NEW j, NEW R, NEW L, NEW C, NEW M, NEW f, NEW m, NEW a
  PROVE  View(StateOf(I, p, j, R, L, C, M, f, m), a)
           = ConfigOf(p, Entered(p, j), ValuesOf(R, a), L, FramesOf(C, a), MemoryOf(M, a), f, m)
<1> DEFINE s == StateOf(I, p, j, R, L, C, M, f, m)
<1>1. /\ s.end = Running /\ s.inputs = I /\ s.pc = p /\ s.from = j /\ s.regs = R
      /\ s.locals = L /\ s.callers = C /\ s.mem = M /\ s.forking = f /\ s.made = m
  BY StateFields
<1> HIDE DEF s
<1>2. View(s, a) = ConfigOf(p, Entered(p, j), ValuesOf(R, a), L, FramesOf(C, a), MemoryOf(M, a), f, m)
  BY <1>1 DEF View, ConfigOf, Entered
<1> QED BY <1>2 DEF s

\* The same, for a well-formed state.
LEMMA ViewOf ==
  ASSUME NEW s, StateOK(s), NEW a
  PROVE  View(s, a) = ConfigOf(s.pc, Entered(s.pc, s.from), ValuesOf(s.regs, a), s.locals,
                               FramesOf(s.callers, a), MemoryOf(s.mem, a), s.forking, s.made)
  BY StateForm, ViewForm

\* The fields of that configuration.
LEMMA ViewFields ==
  ASSUME NEW s, StateOK(s), NEW a
  PROVE  LET c == View(s, a) IN
         /\ c.end = Running /\ c.pc = s.pc /\ c.from = Entered(s.pc, s.from)
         /\ c.regs = ValuesOf(s.regs, a) /\ c.locals = s.locals
         /\ c.callers = FramesOf(s.callers, a) /\ c.mem = MemoryOf(s.mem, a)
         /\ c.forking = s.forking /\ c.made = s.made
  BY ViewOf, ConfigFields

\* A state and its views are the records of their fields.
LEMMA ViewShape ==
  ASSUME NEW s, StateOK(s), NEW a
  PROVE  StateShape(s) /\ ConfigShape(View(s, a))
<1>1. ConfigShape(View(s, a)) BY ViewOf, ViewFields DEF ConfigShape
<1>2. StateShape(s) BY StateForm DEF StateShape
<1> QED BY <1>1, <1>2

\* A view with control moved.
LEMMA ViewJumped ==
  ASSUME NEW s, StateOK(s), NEW a, NEW x, NEW y
  PROVE  [View(s, a) EXCEPT !.pc = x, !.from = y]
           = ConfigOf(x, y, ValuesOf(s.regs, a), s.locals, FramesOf(s.callers, a), MemoryOf(s.mem, a), s.forking, s.made)
<1> DEFINE c == View(s, a)
<1>1. ConfigShape(c) BY ViewShape
<1>2. /\ c.end = Running /\ c.pc = s.pc /\ c.from = Entered(s.pc, s.from)
      /\ c.regs = ValuesOf(s.regs, a) /\ c.locals = s.locals
      /\ c.callers = FramesOf(s.callers, a) /\ c.mem = MemoryOf(s.mem, a)
      /\ c.forking = s.forking /\ c.made = s.made
  BY ViewFields
<1> HIDE DEF c
<1>3. [c EXCEPT !.pc = x, !.from = y] = ConfigOf(x, y, c.regs, c.locals, c.callers, c.mem, c.forking, c.made)
  BY Zenon, <1>1, ConfigJumped
<1> QED BY <1>2, <1>3 DEF c

\* A view with another memory and other allocas.
LEMMA ViewBound ==
  ASSUME NEW s, StateOK(s), NEW a, NEW x, NEW y
  PROVE  [View(s, a) EXCEPT !.mem = x, !.locals = y]
           = ConfigOf(s.pc, Entered(s.pc, s.from), ValuesOf(s.regs, a), y, FramesOf(s.callers, a), x, s.forking, s.made)
<1> DEFINE c == View(s, a)
<1>1. ConfigShape(c) BY ViewShape
<1>2. /\ c.end = Running /\ c.pc = s.pc /\ c.from = Entered(s.pc, s.from)
      /\ c.regs = ValuesOf(s.regs, a) /\ c.locals = s.locals
      /\ c.callers = FramesOf(s.callers, a) /\ c.mem = MemoryOf(s.mem, a)
      /\ c.forking = s.forking /\ c.made = s.made
  BY ViewFields
<1> HIDE DEF c
<1>3. [c EXCEPT !.mem = x, !.locals = y] = ConfigOf(c.pc, c.from, c.regs, y, c.callers, x, c.forking, c.made)
  BY Zenon, <1>1, ConfigBound
<1> QED BY <1>2, <1>3 DEF c

\* A view with another memory and count of arrays.
LEMMA ViewMade ==
  ASSUME NEW s, StateOK(s), NEW a, NEW x, NEW y
  PROVE  [View(s, a) EXCEPT !.mem = x, !.made = y]
           = ConfigOf(s.pc, Entered(s.pc, s.from), ValuesOf(s.regs, a), s.locals, FramesOf(s.callers, a), x, s.forking, y)
<1> DEFINE c == View(s, a)
<1>1. ConfigShape(c) BY ViewShape
<1>2. /\ c.end = Running /\ c.pc = s.pc /\ c.from = Entered(s.pc, s.from)
      /\ c.regs = ValuesOf(s.regs, a) /\ c.locals = s.locals
      /\ c.callers = FramesOf(s.callers, a) /\ c.mem = MemoryOf(s.mem, a)
      /\ c.forking = s.forking /\ c.made = s.made
  BY ViewFields
<1> HIDE DEF c
<1>3. [c EXCEPT !.mem = x, !.made = y] = ConfigOf(c.pc, c.from, c.regs, c.locals, c.callers, x, c.forking, y)
  BY Zenon, <1>1, ConfigMade
<1> QED BY <1>2, <1>3 DEF c

\* A view with another memory.
LEMMA ViewMem ==
  ASSUME NEW s, StateOK(s), NEW a, NEW x
  PROVE  [View(s, a) EXCEPT !.mem = x]
           = ConfigOf(s.pc, Entered(s.pc, s.from), ValuesOf(s.regs, a), s.locals, FramesOf(s.callers, a), x, s.forking, s.made)
<1> DEFINE c == View(s, a)
<1>1. ConfigShape(c) BY ViewShape
<1>2. /\ c.end = Running /\ c.pc = s.pc /\ c.from = Entered(s.pc, s.from)
      /\ c.regs = ValuesOf(s.regs, a) /\ c.locals = s.locals
      /\ c.callers = FramesOf(s.callers, a) /\ c.mem = MemoryOf(s.mem, a)
      /\ c.forking = s.forking /\ c.made = s.made
  BY ViewFields
<1> HIDE DEF c
<1>3. [c EXCEPT !.mem = x] = ConfigOf(c.pc, c.from, c.regs, c.locals, c.callers, x, c.forking, c.made)
  BY <1>1 DEF ConfigOf, ConfigShape
<1> QED BY <1>2, <1>3 DEF c

\* A view with forking switched.
LEMMA ViewForking ==
  ASSUME NEW s, StateOK(s), NEW a, NEW x
  PROVE  [View(s, a) EXCEPT !.forking = x]
           = ConfigOf(s.pc, Entered(s.pc, s.from), ValuesOf(s.regs, a), s.locals, FramesOf(s.callers, a), MemoryOf(s.mem, a), x, s.made)
<1> DEFINE c == View(s, a)
<1>1. ConfigShape(c) BY ViewShape
<1>2. /\ c.end = Running /\ c.pc = s.pc /\ c.from = Entered(s.pc, s.from)
      /\ c.regs = ValuesOf(s.regs, a) /\ c.locals = s.locals
      /\ c.callers = FramesOf(s.callers, a) /\ c.mem = MemoryOf(s.mem, a)
      /\ c.forking = s.forking /\ c.made = s.made
  BY ViewFields
<1> HIDE DEF c
<1>3. [c EXCEPT !.forking = x] = ConfigOf(c.pc, c.from, c.regs, c.locals, c.callers, c.mem, x, c.made)
  BY <1>1 DEF ConfigOf, ConfigShape
<1> QED BY <1>2, <1>3 DEF c

\* A view with other registers.
LEMMA ViewRegs ==
  ASSUME NEW s, StateOK(s), NEW a, NEW x
  PROVE  [View(s, a) EXCEPT !.regs = x]
           = ConfigOf(s.pc, Entered(s.pc, s.from), x, s.locals, FramesOf(s.callers, a), MemoryOf(s.mem, a), s.forking, s.made)
<1> DEFINE c == View(s, a)
<1>1. ConfigShape(c) BY ViewShape
<1>2. /\ c.end = Running /\ c.pc = s.pc /\ c.from = Entered(s.pc, s.from)
      /\ c.regs = ValuesOf(s.regs, a) /\ c.locals = s.locals
      /\ c.callers = FramesOf(s.callers, a) /\ c.mem = MemoryOf(s.mem, a)
      /\ c.forking = s.forking /\ c.made = s.made
  BY ViewFields
<1> HIDE DEF c
<1>3. [c EXCEPT !.regs = x] = ConfigOf(c.pc, c.from, x, c.locals, c.callers, c.mem, c.forking, c.made)
  BY <1>1 DEF ConfigOf, ConfigShape
<1> QED BY <1>2, <1>3 DEF c

(* The operations on a state, and what they are on its view.                       *)

\* Constraints do not change what the inputs that are left see.
LEMMA OnOK ==
  ASSUME NEW s, StateOK(s), NEW I, I \subseteq s.inputs, I # {}
  PROVE  /\ StateOK(On(s, I)) /\ On(s, I).inputs = I /\ On(s, I).end = Running
         /\ On(s, I).pc = s.pc /\ On(s, I).regs = s.regs /\ On(s, I).mem = s.mem
         /\ On(s, I).callers = s.callers /\ On(s, I).forking = s.forking /\ On(s, I).made = s.made
         /\ \A a : View(On(s, I), a) = View(s, a)
<1>1. On(s, I) = StateOf(I, s.pc, s.from, s.regs, s.locals, s.callers, s.mem, s.forking, s.made)
  BY Zenon, ViewShape, StateUpdates DEF On
<1>2. FieldsOK(I, s.pc, s.from, s.regs, s.locals, s.callers, s.mem, s.forking, s.made)
  BY StateElim DEF FieldsOK
<1>3. StateOK(On(s, I)) BY <1>1, <1>2, StateIntro
<1>4. \A a : View(On(s, I), a) = View(s, a) BY <1>1, ViewForm, ViewOf
<1> QED BY <1>1, <1>3, <1>4, StateFields

\* A register, or none, gets the expression e.
LEMMA BindOK ==
  ASSUME NEW s, StateOK(s), NEW r \in Reg \union {NoReg}, NEW e \in Expression
  PROVE  /\ StateOK(Bind(s, r, e)) /\ Bind(s, r, e).inputs = s.inputs /\ Bind(s, r, e).end = Running
         /\ Bind(s, r, e).pc = s.pc /\ Bind(s, r, e).from = s.from
         /\ \A a \in Assignment : View(Bind(s, r, e), a) = Bind(View(s, a), r, e[a])
<1>1. CASE r = NoReg
  BY <1>1, StateElim DEF Bind
<1>2. CASE r # NoReg
  <2> DEFINE R == [s.regs EXCEPT ![r] = e]
  <2>1. Bind(s, r, e) = StateOf(s.inputs, s.pc, s.from, R, s.locals, s.callers, s.mem, s.forking, s.made)
    <3>1. Bind(s, r, e) = [s EXCEPT !.regs = R] BY <1>2 DEF Bind
    <3> HIDE DEF R
    <3> QED BY Zenon, <3>1, ViewShape, StateUpdates
  <2>2. FieldsOK(s.inputs, s.pc, s.from, s.regs, s.locals, s.callers, s.mem, s.forking, s.made)
    BY StateElim
  <2>3. R \in [Reg -> Expression] BY <2>2, <1>2 DEF FieldsOK
  <2>4. ASSUME NEW a \in Assignment
        PROVE  View(Bind(s, r, e), a) = Bind(View(s, a), r, e[a])
    <3> DEFINE V == ValuesOf(s.regs, a)
               W == [V EXCEPT ![r] = e[a]]
    <3>1. ValuesOf(R, a) = W BY <2>2, <2>3, <1>2 DEF FieldsOK, ValuesOf
    <3>2. View(s, a).regs = V BY ViewFields
    <3>3. Bind(View(s, a), r, e[a]) = [View(s, a) EXCEPT !.regs = W] BY <1>2, <3>2 DEF Bind
    <3> HIDE DEF R, V, W
    <3>4. Bind(View(s, a), r, e[a])
            = ConfigOf(s.pc, Entered(s.pc, s.from), W, s.locals, FramesOf(s.callers, a),
                       MemoryOf(s.mem, a), s.forking, s.made)
      BY Zenon, <3>3, ViewRegs
    <3> QED BY <2>1, <3>1, <3>4, ViewForm
  <2> HIDE DEF R
  <2>5. StateOK(Bind(s, r, e)) BY <2>1, <2>2, <2>3, StateIntro DEF FieldsOK
  <2> QED BY <2>1, <2>4, <2>5, StateFields
<1> QED BY <1>1, <1>2

\* Where control goes on an input.
LEMMA GotoForm ==
  ASSUME NEW s, StateOK(s), NEW a, NEW p, NEW b
  PROVE  Goto(View(s, a), p, b)
           = ConfigOf(p, IF AtPhi(p) THEN b ELSE NoBlock, ValuesOf(s.regs, a), s.locals,
                      FramesOf(s.callers, a), MemoryOf(s.mem, a), s.forking, s.made)
<1> DEFINE x == IF AtPhi(p) THEN b ELSE NoBlock
<1>1. Goto(View(s, a), p, b) = [View(s, a) EXCEPT !.pc = p, !.from = x] BY DEF Goto
<1> HIDE DEF x
<1>2. Goto(View(s, a), p, b)
        = ConfigOf(p, x, ValuesOf(s.regs, a), s.locals,
                      FramesOf(s.callers, a), MemoryOf(s.mem, a), s.forking, s.made)
  BY Zenon, <1>1, ViewJumped
<1> QED BY <1>2 DEF x

\* transferToBasicBlock, from a block that is a predecessor.
Arrives(p, b) == p \in DOMAIN Code /\ (AtPhi(p) => \E j \in DOMAIN Code[p].blocks : Code[p].blocks[j] = b)

\* transferToBasicBlock, by the index of the incoming block, is the jump each input
\* makes.
LEMMA TransferOK ==
  ASSUME NEW s, StateOK(s), NEW p, NEW b, Arrives(p, b)
  PROVE  /\ StateOK(Transfer(s, p, b)) /\ Transfer(s, p, b).inputs = s.inputs
         /\ Transfer(s, p, b).end = Running
         /\ \A a : View(Transfer(s, p, b), a) = Goto(View(s, a), p, b)
<1> DEFINE j == IF AtPhi(p) THEN CHOOSE i \in DOMAIN Code[p].blocks : Code[p].blocks[i] = b ELSE s.from
<1>1. Transfer(s, p, b) = [s EXCEPT !.pc = p, !.from = j] BY Zenon DEF Transfer
<1>2. Entered(p, j) = IF AtPhi(p) THEN b ELSE NoBlock BY DEF Arrives, Entered
<1>3. AtPhi(p) => j \in DOMAIN Code[p].blocks BY DEF Arrives
<1> HIDE DEF j
<1>4. Transfer(s, p, b) = StateOf(s.inputs, p, j, s.regs, s.locals, s.callers, s.mem, s.forking, s.made)
  BY Zenon, <1>1, ViewShape, StateJumped
<1>5. FieldsOK(s.inputs, p, j, s.regs, s.locals, s.callers, s.mem, s.forking, s.made)
  BY <1>3, StateElim DEF FieldsOK, Arrives
<1>6. ASSUME NEW a PROVE View(Transfer(s, p, b), a) = Goto(View(s, a), p, b)
  BY <1>2, <1>4, ViewForm, GotoForm
<1> QED BY <1>4, <1>5, <1>6, StateIntro, StateFields

\* The instruction after this one, where control falls through.
FallsThrough(p) == p \in DOMAIN Code /\ p + 1 \in DOMAIN Code
                   /\ (AtPhi(p + 1) => AtPhi(p) /\ Code[p + 1].blocks = Code[p].blocks)

\* Going on to the next instruction.
LEMMA AdvanceOK ==
  ASSUME NEW s, StateOK(s), FallsThrough(s.pc)
  PROVE  /\ StateOK(Advance(s)) /\ Advance(s).inputs = s.inputs /\ Advance(s).end = Running
         /\ \A a : View(Advance(s), a) = Proceeds(View(s, a))
<1>1. Advance(s) = StateOf(s.inputs, s.pc + 1, s.from, s.regs, s.locals, s.callers, s.mem, s.forking, s.made)
  BY Zenon, ViewShape, StateUpdates DEF Advance
<1>2. FieldsOK(s.inputs, s.pc + 1, s.from, s.regs, s.locals, s.callers, s.mem, s.forking, s.made)
  BY StateElim DEF FieldsOK, FallsThrough
<1>3. ASSUME NEW a PROVE View(Advance(s), a) = Proceeds(View(s, a))
  <2>1. Proceeds(View(s, a)) = Goto(View(s, a), s.pc + 1, Entered(s.pc, s.from))
    BY ViewFields DEF Proceeds
  <2>2. Entered(s.pc + 1, s.from) = IF AtPhi(s.pc + 1) THEN Entered(s.pc, s.from) ELSE NoBlock
    BY DEF Entered, FallsThrough
  <2> QED BY <1>1, <2>1, <2>2, ViewForm, GotoForm
<1> QED BY <1>1, <1>2, <1>3, StateIntro, StateFields

\* The objects bound become M.
LEMMA MemoryChangeOK ==
  ASSUME NEW s, StateOK(s), NEW M, MemoryOK(M)
  PROVE  LET t == [s EXCEPT !.mem = M] IN
         /\ StateOK(t) /\ t.inputs = s.inputs /\ t.end = Running /\ t.pc = s.pc
         /\ \A a : View(t, a) = [View(s, a) EXCEPT !.mem = MemoryOf(M, a)]
<1> DEFINE t == [s EXCEPT !.mem = M]
<1>1. t = StateOf(s.inputs, s.pc, s.from, s.regs, s.locals, s.callers, M, s.forking, s.made)
  BY Zenon, ViewShape, StateUpdates
<1> HIDE DEF t
<1>2. FieldsOK(s.inputs, s.pc, s.from, s.regs, s.locals, s.callers, M, s.forking, s.made)
  BY StateElim DEF FieldsOK
<1>3. ASSUME NEW a PROVE View(t, a) = [View(s, a) EXCEPT !.mem = MemoryOf(M, a)]
  <2>1. [View(s, a) EXCEPT !.mem = MemoryOf(M, a)]
          = ConfigOf(s.pc, Entered(s.pc, s.from), ValuesOf(s.regs, a), s.locals,
                     FramesOf(s.callers, a), MemoryOf(M, a), s.forking, s.made)
    BY Zenon, ViewMem
  <2> QED BY <1>1, <2>1, ViewForm
<1>4. /\ StateOK(t) /\ t.inputs = s.inputs /\ t.end = Running /\ t.pc = s.pc
      /\ \A a : View(t, a) = [View(s, a) EXCEPT !.mem = MemoryOf(M, a)]
  BY <1>1, <1>2, <1>3, StateIntro, StateFields
<1> QED BY <1>4 DEF t

\* klee_set_forking's flag.
LEMMA ForkingChangeOK ==
  ASSUME NEW s, StateOK(s), NEW f \in BOOLEAN
  PROVE  LET t == [s EXCEPT !.forking = f] IN
         /\ StateOK(t) /\ t.inputs = s.inputs /\ t.end = Running /\ t.pc = s.pc
         /\ \A a : View(t, a) = [View(s, a) EXCEPT !.forking = f]
<1> DEFINE t == [s EXCEPT !.forking = f]
<1>1. t = StateOf(s.inputs, s.pc, s.from, s.regs, s.locals, s.callers, s.mem, f, s.made)
  BY Zenon, ViewShape, StateUpdates
<1> HIDE DEF t
<1>2. FieldsOK(s.inputs, s.pc, s.from, s.regs, s.locals, s.callers, s.mem, f, s.made)
  BY StateElim DEF FieldsOK
<1>3. ASSUME NEW a PROVE View(t, a) = [View(s, a) EXCEPT !.forking = f]
  <2>1. [View(s, a) EXCEPT !.forking = f]
          = ConfigOf(s.pc, Entered(s.pc, s.from), ValuesOf(s.regs, a), s.locals,
                     FramesOf(s.callers, a), MemoryOf(s.mem, a), f, s.made)
    BY Zenon, ViewForking
  <2> QED BY <1>1, <2>1, ViewForm
<1>4. /\ StateOK(t) /\ t.inputs = s.inputs /\ t.end = Running /\ t.pc = s.pc
      /\ \A a : View(t, a) = [View(s, a) EXCEPT !.forking = f]
  BY <1>1, <1>2, <1>3, StateIntro, StateFields
<1> QED BY <1>4 DEF t

\* A result in the register of an instruction that falls through.
LEMMA ResultOK ==
  ASSUME NEW s, StateOK(s), FallsThrough(s.pc), Code[s.pc].dst \in Reg \union {NoReg},
         NEW e \in Expression
  PROVE  /\ StateOK(Result(s, e)) /\ Result(s, e).inputs = s.inputs /\ Result(s, e).end = Running
         /\ \A a \in Assignment : View(Result(s, e), a) = Yields(View(s, a), e[a])
<1> DEFINE t == Bind(s, Code[s.pc].dst, e)
<1>1. /\ StateOK(t) /\ t.inputs = s.inputs /\ t.pc = s.pc
      /\ \A a \in Assignment : View(t, a) = Bind(View(s, a), Code[s.pc].dst, e[a])
  BY BindOK
<1>2. Result(s, e) = Advance(t) BY DEF Result
<1> HIDE DEF t
<1>3. /\ StateOK(Advance(t)) /\ Advance(t).inputs = t.inputs /\ Advance(t).end = Running
      /\ \A a : View(Advance(t), a) = Proceeds(View(t, a))
  BY <1>1, AdvanceOK
<1>4. \A a : View(s, a).pc = s.pc BY ViewFields
<1> QED BY <1>1, <1>2, <1>3, <1>4 DEF Yields

(* Objects and frames.                                                             *)

\* An object on an input.
LEMMA ObjectFields ==
  ASSUME NEW o, SymbolicObjectOK(o), NEW a
  PROVE  /\ ObjectOf(o, a) = [size |-> o.size, kind |-> o.kind, bytes |-> [i \in DOMAIN o.bytes |-> o.bytes[i][a]]]
         /\ ObjectOf(o, a).size = o.size /\ ObjectOf(o, a).kind = o.kind
         /\ ObjectOf(o, a).bytes = [i \in DOMAIN o.bytes |-> o.bytes[i][a]]
<1> DEFINE x == [i \in DOMAIN o.bytes |-> o.bytes[i][a]]
<1>1. ObjectOf(o, a) = [o EXCEPT !.bytes = x] BY DEF ObjectOf
<1> HIDE DEF x
<1>2. ObjectOf(o, a) = [size |-> o.size, kind |-> o.kind, bytes |-> x] BY <1>1 DEF SymbolicObjectOK
<1> QED BY <1>2 DEF x

\* An object on an input, from its parts.
LEMMA ObjectForm ==
  ASSUME NEW o, SymbolicObjectOK(o), NEW a, NEW n, NEW k, NEW B, o.size = n, o.kind = k,
         [i \in DOMAIN o.bytes |-> o.bytes[i][a]] = B
  PROVE  ObjectOf(o, a) = [size |-> n, kind |-> k, bytes |-> B]
<1>1. ObjectOf(o, a) = [o EXCEPT !.bytes = B] BY DEF ObjectOf
<1> QED BY <1>1 DEF SymbolicObjectOK

\* An object put together from well-formed parts.
LEMMA ObjectIs ==
  ASSUME NEW n \in 0 .. Unsigned - 1, NEW k \in Kind, NEW B \in [0 .. n - 1 -> [Assignment -> Octet]]
  PROVE  SymbolicObjectOK([size |-> n, kind |-> k, bytes |-> B])
  BY DEF SymbolicObjectOK

\* The memory on an input has the same objects, with the input's bytes.
LEMMA MemoryFields ==
  ASSUME NEW M, MemoryOK(M), NEW a
  PROVE  /\ DOMAIN MemoryOf(M, a) = DOMAIN M
         /\ \A b \in DOMAIN M : /\ SymbolicObjectOK(M[b]) /\ MemoryOf(M, a)[b] = ObjectOf(M[b], a)
                                /\ MemoryOf(M, a)[b].size = M[b].size /\ MemoryOf(M, a)[b].kind = M[b].kind
                                /\ MemoryOf(M, a)[b].bytes = [i \in DOMAIN M[b].bytes |-> M[b].bytes[i][a]]
<1>1. DOMAIN MemoryOf(M, a) = DOMAIN M BY DEF MemoryOf
<1>2. ASSUME NEW b \in DOMAIN M
      PROVE  SymbolicObjectOK(M[b]) /\ MemoryOf(M, a)[b] = ObjectOf(M[b], a)
  BY DEF MemoryOf, MemoryOK
<1> QED BY <1>1, <1>2, ObjectFields

\* Objects unbound.
LEMMA MemoryWithout ==
  ASSUME NEW M, MemoryOK(M), NEW B
  PROVE  /\ MemoryOK(Without(M, B)) /\ DOMAIN Without(M, B) = DOMAIN M \ B
         /\ \A b \in DOMAIN M \ B : Without(M, B)[b] = M[b]
         /\ \A a : MemoryOf(Without(M, B), a) = Without(MemoryOf(M, a), B)
<1>1. DOMAIN Without(M, B) = DOMAIN M \ B /\ \A b \in DOMAIN M \ B : Without(M, B)[b] = M[b]
  BY DEF Without
<1>2. Without(M, B) = [b \in DOMAIN Without(M, B) |-> Without(M, B)[b]] BY DEF Without
<1>3. MemoryOK(Without(M, B))
  <2> DEFINE N == Without(M, B)
  <2>0. N = [b \in DOMAIN N |-> N[b]] BY <1>2
  <2>1. DOMAIN N \subseteq DOMAIN M /\ \A b \in DOMAIN N : N[b] = M[b] BY <1>1
  <2> HIDE DEF N
  <2>2. DOMAIN N \subseteq Value \ {0} BY <2>1 DEF MemoryOK
  <2>3. \A b \in DOMAIN N : SymbolicObjectOK(N[b]) /\ b + N[b].size =< Word BY <2>1 DEF MemoryOK
  <2>4. Apart(N) BY <2>1 DEF MemoryOK, Apart
  <2>5. MemoryOK(N) BY <2>0, <2>2, <2>3, <2>4 DEF MemoryOK
  <2> QED BY <2>5 DEF N
<1>4. ASSUME NEW a PROVE MemoryOf(Without(M, B), a) = Without(MemoryOf(M, a), B)
  BY DEF MemoryOf, Without
<1> QED BY <1>1, <1>3, <1>4

\* An object bound where there is room for it.
LEMMA MemoryWith ==
  ASSUME NEW M, MemoryOK(M), NEW o, SymbolicObjectOK(o), NEW b \in Value \ {0},
         b + o.size =< Word,
         \A q \in DOMAIN M \ {b} : (q < b => q + M[q].size =< b) /\ (b < q => b + o.size =< q)
  PROVE  /\ MemoryOK(With(M, b, o))
         /\ \A a : MemoryOf(With(M, b, o), a) = With(MemoryOf(M, a), b, ObjectOf(o, a))
<1> DEFINE N == With(M, b, o)
<1>1. DOMAIN N = DOMAIN M \union {b} /\ N[b] = o /\ \A q \in DOMAIN M \ {b} : N[q] = M[q]
  BY DEF With
<1>2. N = [q \in DOMAIN N |-> N[q]] BY DEF With
<1>3. ASSUME NEW a PROVE MemoryOf(N, a) = With(MemoryOf(M, a), b, ObjectOf(o, a))
  BY DEF MemoryOf, With
<1> HIDE DEF N
<1>4. DOMAIN N \subseteq Value \ {0} BY <1>1 DEF MemoryOK
<1>5. \A q \in DOMAIN N : SymbolicObjectOK(N[q]) /\ q + N[q].size =< Word BY <1>1 DEF MemoryOK
<1>6. ASSUME NEW p \in DOMAIN N, NEW q \in DOMAIN N, p < q PROVE p + N[p].size =< q
  <2>0. p \in Int /\ q \in Int /\ b \in Int BY <1>4, MachineAssumption DEF Value
  <2>1. CASE p = b BY <2>0, <2>1, <1>1, <1>6
  <2>2. CASE q = b BY <2>0, <2>2, <1>1, <1>6
  <2>3. CASE p # b /\ q # b BY <2>3, <1>1, <1>6 DEF MemoryOK, Apart
  <2> QED BY <2>1, <2>2, <2>3
<1>7. Apart(N) BY <1>6 DEF Apart
<1>8. MemoryOK(N) BY <1>2, <1>4, <1>5, <1>7 DEF MemoryOK
<1> QED BY <1>3, <1>8 DEF N

\* A frame of functions f calls with the arguments V.
LEMMA FrameValues ==
  ASSUME NEW f \in DOMAIN Function, NEW V \in Seq(Expression), Len(Function[f].params) =< Len(V)
  PROVE  /\ FrameOf(Function[f], V, Always(Junk)) \in [Reg -> Expression]
         /\ \A a \in Assignment :
              ValuesOf(FrameOf(Function[f], V, Always(Junk)), a)
                = FrameOf(Function[f], [j \in DOMAIN V |-> V[j][a]], Junk)
<1> DEFINE P == Function[f].params
           Entry(r) == CHOOSE j \in DOMAIN P : P[j] = r
           In(r) == \E j \in DOMAIN P : P[j] = r
<1>1. P \in Seq(Reg) BY CodeAssumption
<1>2. DOMAIN P \subseteq DOMAIN V BY <1>1
<1>3. \A r : In(r) => Entry(r) \in DOMAIN V BY <1>2
<1>4. Always(Junk) \in Expression /\ \A a \in Assignment : Always(Junk)[a] = Junk
  BY MachineAssumption DEF Always, Expression
<1>5. FrameOf(Function[f], V, Always(Junk)) = [r \in Reg |-> IF In(r) THEN V[Entry(r)] ELSE Always(Junk)]
  BY Zenon DEF FrameOf
<1>6. \A a : FrameOf(Function[f], [j \in DOMAIN V |-> V[j][a]], Junk)
                = [r \in Reg |-> IF In(r) THEN [j \in DOMAIN V |-> V[j][a]][Entry(r)] ELSE Junk]
  BY Zenon DEF FrameOf
<1> HIDE DEF P, Entry, In
<1>7. \A j \in DOMAIN V : V[j] \in Expression OBVIOUS
<1>8. FrameOf(Function[f], V, Always(Junk)) \in [Reg -> Expression] BY <1>3, <1>4, <1>5, <1>7
<1>9. ASSUME NEW a \in Assignment
      PROVE  ValuesOf(FrameOf(Function[f], V, Always(Junk)), a)
                = FrameOf(Function[f], [j \in DOMAIN V |-> V[j][a]], Junk)
  <2> DEFINE L == FrameOf(Function[f], V, Always(Junk))
             W == [j \in DOMAIN V |-> V[j][a]]
  <2>1. DOMAIN L = Reg BY Zenon, <1>5
  <2>2. ASSUME NEW r \in Reg PROVE L[r][a] = IF In(r) THEN W[Entry(r)] ELSE Junk
    <3>1. CASE In(r)
      <4>1. L[r] = V[Entry(r)] BY Zenon, <1>5, <3>1
      <4>2. W[Entry(r)] = V[Entry(r)][a] BY Zenon, <1>3, <3>1
      <4> QED BY Zenon, <3>1, <4>1, <4>2
    <3>2. CASE ~In(r)
      <4>1. L[r] = Always(Junk) BY Zenon, <1>5, <3>2
      <4> QED BY Zenon, <1>4, <1>9, <3>2, <4>1
    <3> QED BY Zenon, <3>1, <3>2
  <2>3. FrameOf(Function[f], W, Junk) = [r \in Reg |-> IF In(r) THEN W[Entry(r)] ELSE Junk] BY Zenon, <1>6
  <2>4. ValuesOf(L, a) = [r \in Reg |-> L[r][a]] BY Zenon, <2>1 DEF ValuesOf
  <2> HIDE DEF L, W
  <2>5. ValuesOf(L, a) = FrameOf(Function[f], W, Junk) BY Zenon, <2>2, <2>3, <2>4
  <2> QED BY Zenon, <2>5 DEF L, W
<1> QED BY Zenon, <1>8, <1>9

\* The frames with a caller more.
LEMMA FramesAppend ==
  ASSUME NEW C \in Seq(Frame), NEW p \in CallSite, NEW R \in [Reg -> Expression], NEW L \in SUBSET Value
  PROVE  /\ Append(C, [site |-> p, regs |-> R, locals |-> L]) \in Seq(Frame)
         /\ \A a : FramesOf(Append(C, [site |-> p, regs |-> R, locals |-> L]), a)
                     = Append(FramesOf(C, a), [site |-> p, regs |-> ValuesOf(R, a), locals |-> L])
<1> DEFINE fr == [site |-> p, regs |-> R, locals |-> L]
<1>1. fr \in Frame BY DEF Frame
<1>2. fr.regs = R OBVIOUS
<1>3. ASSUME NEW X PROVE [fr EXCEPT !.regs = X] = [site |-> p, regs |-> X, locals |-> L] OBVIOUS
<1> HIDE DEF fr
<1>4. ASSUME NEW a
      PROVE  FramesOf(Append(C, fr), a)
               = Append(FramesOf(C, a), [site |-> p, regs |-> ValuesOf(R, a), locals |-> L])
  <2> DEFINE g == [site |-> p, regs |-> ValuesOf(R, a), locals |-> L]
             G(x) == [x EXCEPT !.regs = ValuesOf(x.regs, a)]
  <2>1. G(fr) = g BY <1>2, <1>3
  <2>2. \A D : FramesOf(D, a) = [i \in DOMAIN D |-> G(D[i])] BY Zenon DEF FramesOf
  <2> HIDE DEF g, G
  <2>3. Append(C, fr) \in Seq(Frame) /\ Len(Append(C, fr)) = Len(C) + 1 BY <1>1
  <2>4. \A i \in 1 .. Len(C) : Append(C, fr)[i] = C[i] BY <1>1
  <2>5. Append(C, fr)[Len(C) + 1] = fr BY <1>1
  <2>6. FramesOf(C, a) = [i \in 1 .. Len(C) |-> G(C[i])] BY <2>2
  <2>6a. DOMAIN Append(C, fr) = 1 .. Len(C) + 1 BY <2>3
  <2>7. FramesOf(Append(C, fr), a) = [i \in 1 .. Len(C) + 1 |-> G(Append(C, fr)[i])]
    BY Zenon, <2>2, <2>6a
  <2>8. Append(FramesOf(C, a), g) = [i \in 1 .. Len(C) + 1 |-> IF i = Len(C) + 1 THEN g ELSE G(C[i])]
    BY <2>6
  <2>9. \A i \in 1 .. Len(C) + 1 : G(Append(C, fr)[i]) = IF i = Len(C) + 1 THEN g ELSE G(C[i])
    BY <2>1, <2>4, <2>5
  <2>10. FramesOf(Append(C, fr), a) = Append(FramesOf(C, a), g) BY Zenon, <2>7, <2>8, <2>9
  <2> QED BY <2>10 DEF g
<1> QED BY <1>1, <1>4 DEF fr

(* What is known of the instructions.                                              *)

\* What the verifier guarantees of an instruction, as the proofs use it.
LEMMA InstructionOK ==
  ASSUME NEW p \in DOMAIN Code
  PROVE  /\ Code[p].op \in Ops /\ Code[p].dst \in Reg \union {NoReg}
         /\ Operands(Code[p]) \subseteq Operand
         /\ \A t \in Targets(Code[p]) : Arrives(t, Code[p].block)
         /\ Code[p].op \notin Leaving /\ ~Invokes(Code[p]) => FallsThrough(p)
<1>1. WellFormed(p) BY CodeAssumption
<1> DEFINE k == Code[p]
<1>2. k.op \in Ops /\ k.dst \in Reg \union {NoReg} /\ Operands(k) \subseteq Operand
  BY <1>1 DEF WellFormed
<1>3. \A t \in Targets(k) : Arrives(t, k.block) BY <1>1 DEF WellFormed, Arrives
<1>4. k.op = "phi" => FallsThrough(p) BY <1>1 DEF WellFormed, FallsThrough, AtPhi
<1>5. k.op \notin Leaving \union {"phi"} /\ ~Invokes(k) => FallsThrough(p)
  BY <1>1 DEF WellFormed, FallsThrough, Invokes
<1> QED BY <1>2, <1>3, <1>4, <1>5

\* The expression of an operand has, on an input, the operand's value.
LEMMA EvalOK ==
  ASSUME NEW s, StateOK(s), NEW x \in Operand
  PROVE  /\ EvalIn(s, x) \in Expression
         /\ \A a \in Assignment : Eval(View(s, a), x) = EvalIn(s, x)[a] /\ EvalIn(s, x)[a] \in Value
<1>1. s.regs \in [Reg -> Expression] BY DEF StateOK
<1>2. \A a : View(s, a).regs = ValuesOf(s.regs, a) BY ViewFields
<1>3. EvalIn(s, x) \in Expression BY <1>1 DEF EvalIn, Expression, Always, Operand
<1>4. \A a \in Assignment : Eval(View(s, a), x) = EvalIn(s, x)[a]
  BY <1>1, <1>2 DEF EvalIn, Eval, ValuesOf, Always
<1> QED BY <1>3, <1>4 DEF Expression

(* Frames pushed and popped.                                                       *)

\* A new frame is the frame each input enters.
LEMMA PushOK ==
  ASSUME NEW s, StateOK(s), s.pc \in CallSite, NEW f \in DOMAIN Function,
         NEW V \in Seq(Expression), Len(Function[f].params) =< Len(V)
  PROVE  LET t == Push(s, Function[f], V, Always(Junk)) IN
         /\ StateOK(t) /\ t.inputs = s.inputs /\ t.end = Running /\ t.mem = s.mem
         /\ t.forking = s.forking
         /\ \A a \in Assignment :
              View(t, a) = Push(View(s, a), Function[f], [j \in DOMAIN V |-> V[j][a]], Junk)
<1> DEFINE t == Push(s, Function[f], V, Always(Junk))
           R == FrameOf(Function[f], V, Always(Junk))
           C == Append(s.callers, [site |-> s.pc, regs |-> s.regs, locals |-> s.locals])
<1>1. t = StateOf(s.inputs, Function[f].entry, s.from, R, {}, C, s.mem, s.forking, s.made)
  BY Zenon, ViewShape, StatePushed
<1>2. FieldsOK(s.inputs, s.pc, s.from, s.regs, s.locals, s.callers, s.mem, s.forking, s.made)
  BY StateElim
<1>3. Function[f].entry \in DOMAIN Code /\ ~AtPhi(Function[f].entry) BY CodeAssumption
<1>4. R \in [Reg -> Expression] BY FrameValues
<1>5. /\ s.callers \in Seq(Frame) /\ s.regs \in [Reg -> Expression] /\ s.locals \in SUBSET Value
  BY <1>2 DEF FieldsOK
<1>6. C \in Seq(Frame) BY <1>5, FramesAppend
<1>7. FieldsOK(s.inputs, Function[f].entry, s.from, R, {}, C, s.mem, s.forking, s.made)
  BY <1>2, <1>3, <1>4, <1>6 DEF FieldsOK
<1>8. ASSUME NEW a \in Assignment
      PROVE  View(t, a) = Push(View(s, a), Function[f], [j \in DOMAIN V |-> V[j][a]], Junk)
  <2> DEFINE c == View(s, a)
             W == [j \in DOMAIN V |-> V[j][a]]
  <2>1. Push(c, Function[f], W, Junk)
          = ConfigOf(Function[f].entry, c.from, FrameOf(Function[f], W, Junk), {},
                     Append(c.callers, [site |-> c.pc, regs |-> c.regs, locals |-> c.locals]),
                     c.mem, c.forking, c.made)
    BY Zenon, ViewShape, ConfigPushed
  <2>2. /\ c.end = Running /\ c.pc = s.pc /\ c.from = Entered(s.pc, s.from)
        /\ c.regs = ValuesOf(s.regs, a) /\ c.locals = s.locals
        /\ c.callers = FramesOf(s.callers, a) /\ c.mem = MemoryOf(s.mem, a)
        /\ c.forking = s.forking /\ c.made = s.made
    BY ViewFields
  <2>3. ValuesOf(R, a) = FrameOf(Function[f], W, Junk) BY FrameValues
  <2>4. FramesOf(C, a) = Append(FramesOf(s.callers, a), [site |-> s.pc, regs |-> ValuesOf(s.regs, a), locals |-> s.locals])
    BY <1>5, FramesAppend
  <2>5. Entered(s.pc, s.from) = NoBlock /\ Entered(Function[f].entry, s.from) = NoBlock
    BY <1>3 DEF Entered, AtPhi, CallSite, Calling
  <2> HIDE DEF c, W, R, C
  <2>6. View(t, a) = ConfigOf(Function[f].entry, NoBlock, ValuesOf(R, a), {}, FramesOf(C, a),
                              MemoryOf(s.mem, a), s.forking, s.made)
    BY <1>1, <2>5, ViewForm
  <2>7. View(t, a) = Push(c, Function[f], W, Junk)
    BY <2>1, <2>2, <2>3, <2>4, <2>5, <2>6
  <2> QED BY <2>7 DEF c, W
<1> HIDE DEF R, C, t
<1>9. /\ StateOK(t) /\ t.inputs = s.inputs /\ t.end = Running /\ t.mem = s.mem /\ t.forking = s.forking
  BY <1>1, <1>7, StateIntro, StateFields
<1> QED BY <1>8, <1>9 DEF t

\* The callers of a state are those of its views.
LEMMA CallersOK ==
  ASSUME NEW s, StateOK(s), NEW a
  PROVE  /\ DOMAIN View(s, a).callers = DOMAIN s.callers /\ Len(View(s, a).callers) = Len(s.callers)
         /\ DOMAIN s.callers = 1 .. Len(s.callers) /\ Len(s.callers) \in Nat
         /\ \A i \in DOMAIN s.callers :
              /\ s.callers[i] \in Frame /\ s.callers[i].site \in CallSite
              /\ View(s, a).callers[i] = [site |-> s.callers[i].site, locals |-> s.callers[i].locals,
                                          regs |-> ValuesOf(s.callers[i].regs, a)]
              /\ View(s, a).callers[i].site = s.callers[i].site
              /\ View(s, a).callers[i].locals = s.callers[i].locals
              /\ View(s, a).callers[i].regs = ValuesOf(s.callers[i].regs, a)
              /\ CallOf(View(s, a), i) = CallOf(s, i)
<1>1. View(s, a).callers = FramesOf(s.callers, a) BY ViewFields
<1>2. s.callers \in Seq(Frame) BY DEF StateOK
<1>3. DOMAIN s.callers = 1 .. Len(s.callers) /\ Len(s.callers) \in Nat BY <1>2
<1>4. DOMAIN FramesOf(s.callers, a) = DOMAIN s.callers BY DEF FramesOf
<1>5. Len(FramesOf(s.callers, a)) = Len(s.callers) BY <1>3 DEF FramesOf
<1>6. ASSUME NEW i \in DOMAIN s.callers
      PROVE  /\ s.callers[i] \in Frame /\ s.callers[i].site \in CallSite
             /\ FramesOf(s.callers, a)[i]
                  = [site |-> s.callers[i].site, locals |-> s.callers[i].locals,
                     regs |-> ValuesOf(s.callers[i].regs, a)]
  <2> DEFINE fr == s.callers[i]
             x == ValuesOf(fr.regs, a)
  <2>1. fr \in Frame BY <1>2, <1>3
  <2>2. FramesOf(s.callers, a)[i] = [fr EXCEPT !.regs = x] BY DEF FramesOf
  <2> HIDE DEF fr, x
  <2>3. [fr EXCEPT !.regs = x] = [site |-> fr.site, locals |-> fr.locals, regs |-> x]
    BY <2>1 DEF Frame
  <2>4. fr.site \in CallSite BY <2>1 DEF Frame
  <2> QED BY <2>1, <2>2, <2>3, <2>4 DEF fr, x
<1>7. ASSUME NEW i \in DOMAIN s.callers
      PROVE  /\ View(s, a).callers[i].site = s.callers[i].site
             /\ View(s, a).callers[i].locals = s.callers[i].locals
             /\ View(s, a).callers[i].regs = ValuesOf(s.callers[i].regs, a)
  <2> DEFINE x == ValuesOf(s.callers[i].regs, a)
             p == s.callers[i].site
             L == s.callers[i].locals
             g == View(s, a).callers[i]
  <2>1. g = [site |-> p, locals |-> L, regs |-> x] BY <1>1, <1>6
  <2> HIDE DEF x, p, L, g
  <2>2. g.site = p /\ g.locals = L /\ g.regs = x BY <2>1
  <2> QED BY <2>2 DEF x, p, L, g
<1>8. \A i \in DOMAIN s.callers : CallOf(View(s, a), i) = CallOf(s, i) BY <1>7 DEF CallOf
<1> QED BY <1>1, <1>3, <1>4, <1>5, <1>6, <1>7, <1>8

\* Popping frames unbinds the same allocas on every input.
LEMMA PopToOK ==
  ASSUME NEW s, StateOK(s), NEW i \in DOMAIN s.callers
  PROVE  LET t == PopTo(s, i) IN
         /\ StateOK(t) /\ t.inputs = s.inputs /\ t.end = Running /\ t.pc = s.pc
         /\ \A a : View(t, a) = PopTo(View(s, a), i)
<1> DEFINE t == PopTo(s, i)
           fr == s.callers[i]
           C == SubSeq(s.callers, 1, i - 1)
           M == Without(s.mem, Popped(s, i))
<1>1. t = StateOf(s.inputs, s.pc, s.from, fr.regs, fr.locals, C, M, s.forking, s.made)
  BY Zenon, ViewShape, StatePoppedTo
<1>2. FieldsOK(s.inputs, s.pc, s.from, s.regs, s.locals, s.callers, s.mem, s.forking, s.made)
  BY StateElim
<1>3. DOMAIN s.callers = 1 .. Len(s.callers) /\ Len(s.callers) \in Nat /\ fr \in Frame BY CallersOK
<1>4. s.callers \in Seq(Frame) /\ MemoryOK(s.mem) BY <1>2 DEF FieldsOK
<1>5. C \in Seq(Frame) /\ DOMAIN C = 1 .. i - 1 /\ \A j \in 1 .. i - 1 : C[j] = s.callers[j]
  BY <1>3, <1>4
<1>6. MemoryOK(M) /\ \A a : MemoryOf(M, a) = Without(MemoryOf(s.mem, a), Popped(s, i))
  BY <1>4, MemoryWithout
<1>7. fr.regs \in [Reg -> Expression] /\ fr.locals \subseteq Value BY <1>3 DEF Frame
<1>8. FieldsOK(s.inputs, s.pc, s.from, fr.regs, fr.locals, C, M, s.forking, s.made)
  BY <1>2, <1>5, <1>6, <1>7 DEF FieldsOK
<1>9. ASSUME NEW a PROVE View(t, a) = PopTo(View(s, a), i)
  <2> DEFINE c == View(s, a)
  <2>1. PopTo(c, i)
          = ConfigOf(c.pc, c.from, c.callers[i].regs, c.callers[i].locals, SubSeq(c.callers, 1, i - 1),
                     Without(c.mem, Popped(c, i)), c.forking, c.made)
    BY Zenon, ViewShape, ConfigPoppedTo
  <2>2. /\ c.end = Running /\ c.pc = s.pc /\ c.from = Entered(s.pc, s.from)
        /\ c.regs = ValuesOf(s.regs, a) /\ c.locals = s.locals
        /\ c.callers = FramesOf(s.callers, a) /\ c.mem = MemoryOf(s.mem, a)
        /\ c.forking = s.forking /\ c.made = s.made
    BY ViewFields
  <2>3. /\ \A j \in DOMAIN s.callers : c.callers[j].locals = s.callers[j].locals
        /\ Len(c.callers) = Len(s.callers)
        /\ c.callers[i].regs = ValuesOf(fr.regs, a) /\ c.callers[i].locals = fr.locals
    <3>1. /\ Len(View(s, a).callers) = Len(s.callers)
          /\ \A j \in DOMAIN s.callers :
               /\ View(s, a).callers[j].locals = s.callers[j].locals
               /\ View(s, a).callers[j].regs = ValuesOf(s.callers[j].regs, a)
      BY Zenon, CallersOK
    <3> QED BY Zenon, <3>1
  <2>4. Popped(c, i) = Popped(s, i)
    <3>1. i + 1 .. Len(s.callers) \subseteq DOMAIN s.callers BY <1>3
    <3> HIDE DEF c
    <3> QED BY <2>2, <2>3, <3>1 DEF Popped
  <2>5. SubSeq(c.callers, 1, i - 1) = FramesOf(C, a)
    <3> DEFINE G(x) == [x EXCEPT !.regs = ValuesOf(x.regs, a)]
    <3>1. \A D : FramesOf(D, a) = [j \in DOMAIN D |-> G(D[j])] BY Zenon DEF FramesOf
    <3> HIDE DEF G, C
    <3>2. FramesOf(C, a) = [j \in 1 .. i - 1 |-> G(C[j])] BY Zenon, <1>5, <3>1
    <3>3. FramesOf(s.callers, a) = [j \in 1 .. Len(s.callers) |-> G(s.callers[j])]
      BY Zenon, <1>3, <3>1
    <3>4. SubSeq(FramesOf(s.callers, a), 1, i - 1) = [j \in 1 .. i - 1 |-> G(s.callers[j])]
      BY <1>3, <3>3
    <3>5. \A j \in 1 .. i - 1 : C[j] = s.callers[j] BY <1>5
    <3>6. [j \in 1 .. i - 1 |-> G(C[j])] = [j \in 1 .. i - 1 |-> G(s.callers[j])] BY Zenon, <3>5
    <3> QED BY Zenon, <2>2, <3>2, <3>4, <3>6
  <2>6. View(t, a) = ConfigOf(s.pc, Entered(s.pc, s.from), ValuesOf(fr.regs, a), fr.locals, FramesOf(C, a),
                              MemoryOf(M, a), s.forking, s.made)
    <3> HIDE DEF C, M, t, fr
    <3> QED BY <1>1, ViewForm
  <2> HIDE DEF c, C, M, t, fr
  <2>7. View(t, a) = PopTo(c, i) BY <1>6, <2>1, <2>2, <2>3, <2>4, <2>5, <2>6
  <2> QED BY <2>7 DEF c
<1> HIDE DEF C, M, t, fr
<1>10. StateOK(t) /\ t.inputs = s.inputs /\ t.end = Running /\ t.pc = s.pc
  BY <1>1, <1>8, StateIntro, StateFields
<1> QED BY <1>9, <1>10 DEF t

\* After a return control is where each input resumes: behind the call, or at the
\* normal destination of an invoke.
LEMMA ResumedOK ==
  ASSUME NEW s, StateOK(s), NEW i \in DOMAIN s.callers
  PROVE  /\ StateOK(ResumedIn(s, i)) /\ ResumedIn(s, i).inputs = s.inputs /\ ResumedIn(s, i).end = Running
         /\ \A a : View(ResumedIn(s, i), a) = Resumed(View(s, a), i)
<1> DEFINE t == PopTo(s, i)
           k == CallOf(s, i)
           q == s.callers[i].site + 1
<1>1. /\ StateOK(t) /\ t.inputs = s.inputs /\ t.end = Running
      /\ \A a : View(t, a) = PopTo(View(s, a), i)
  BY PopToOK
<1>2. /\ s.callers[i].site \in CallSite
      /\ \A a : View(s, a).callers[i].site = s.callers[i].site /\ CallOf(View(s, a), i) = k
  BY CallersOK
<1>3. CASE Invokes(k)
  <2>1. Arrives(k.normal, k.block)
    <3>1. k.normal \in Targets(k) BY <1>3 DEF Targets, Invokes
    <3> QED BY <3>1, <1>2, InstructionOK DEF CallOf, CallSite
  <2>2. ResumedIn(s, i) = Transfer(t, k.normal, k.block) BY <1>3 DEF ResumedIn
  <2>3. \A a : Resumed(View(s, a), i) = Goto(View(t, a), k.normal, k.block)
    BY <1>1, <1>2, <1>3 DEF Resumed
  <2> HIDE DEF t, k
  <2> QED BY <1>1, <2>1, <2>2, <2>3, TransferOK
<1>4. CASE ~Invokes(k)
  <2>1. FallsThrough(s.callers[i].site)
    BY <1>2, <1>4, InstructionOK DEF CallOf, CallSite, Calling, Leaving
  <2>2. q \in DOMAIN Code /\ ~AtPhi(q)
    BY <1>2, <2>1 DEF FallsThrough, AtPhi, CallSite, Calling
  <2>3. ResumedIn(s, i) = [t EXCEPT !.pc = q] BY <1>4 DEF ResumedIn
  <2>4. \A a : Resumed(View(s, a), i) = Goto(View(t, a), q, NoBlock)
    BY <1>1, <1>2, <1>4 DEF Resumed
  <2> HIDE DEF t, k, q
  <2>5. [t EXCEPT !.pc = q] = StateOf(t.inputs, q, t.from, t.regs, t.locals, t.callers, t.mem, t.forking, t.made)
    BY Zenon, <1>1, ViewShape, StateUpdates
  <2>6. FieldsOK(t.inputs, q, t.from, t.regs, t.locals, t.callers, t.mem, t.forking, t.made)
    BY <1>1, <2>2, StateElim DEF FieldsOK
  <2>7. \A a : View([t EXCEPT !.pc = q], a) = Goto(View(t, a), q, NoBlock)
    BY <1>1, <2>2, <2>5, ViewForm, GotoForm DEF Entered
  <2> QED BY <1>1, <2>3, <2>4, <2>5, <2>6, <2>7, StateIntro, StateFields
<1> QED BY <1>3, <1>4

(* A set of pieces that replaces a state as EveryInputRuns has it.                  *)

\* What an input of s may become.
Moves(s, a, d) ==
  \/ Step(a, View(s, a), d)
  \/ \E b \in s.inputs : Confused(View(s, a), View(s, b), d)
  \/ limited /\ Unsure(View(s, a), d)
  \/ (limited \/ ~s.forking) /\ d = Ended(Early)

PieceOK(s, p) ==
  /\ p.inputs \subseteq s.inputs /\ p.inputs # {}
  /\ p.end = Running => StateOK(p)
  /\ \A a \in p.inputs : Moves(s, a, View(p, a))

Disjoint(P) == \A p, q \in P : p # q => p.inputs \intersect q.inputs = {}
Held(P, a)  == \E p \in P : a \in p.inputs
Good(s, P) ==
  /\ \A p \in P : PieceOK(s, p)
  /\ Disjoint(P)
  /\ \A a \in s.inputs : Held(P, a) \/ Moves(s, a, Ended(Early))

\* A test of a path that ended.
LEMMA FailFields ==
  ASSUME NEW s, NEW why
  PROVE  /\ Fail(s, why).inputs = s.inputs /\ Fail(s, why).end = why
         /\ why # Running => \A a : View(Fail(s, why), a) = Ended(why)
  BY DEF Fail, View

\* An instruction's case is a step of the program.
LEMMA StepIntro ==
  ASSUME NEW s, StateOK(s), NEW a, NEW d,
         ~(Code[s.pc].op \in Void /\ Code[s.pc].dst # NoReg),
         LET k == Code[s.pc]
             c == View(s, a)
         IN  \/ Computes(c, k, d) \/ Branches(c, k, d) \/ Calls(c, k, d) \/ Returns(c, k, d)
             \/ Unwinds(c, k, d) \/ Manages(c, k, d) \/ Accesses(c, k, d) \/ Names(a, c, k, d)
             \/ Asks(c, k, d)
  PROVE  Step(a, View(s, a), d)
<1>1. View(s, a).end = Running /\ View(s, a).pc = s.pc BY ViewFields
<1> QED BY <1>1 DEF Step

\* Inputs of a path that differ in an operand are at an instruction that differs.
LEMMA DiffersIntro ==
  ASSUME NEW s, StateOK(s), NEW a \in Assignment, NEW b \in Assignment, NEW x \in Operands(Code[s.pc]),
         EvalIn(s, x)[a] # EvalIn(s, x)[b]
  PROVE  DiffersFrom(View(s, a), View(s, b))
<1>1. /\ View(s, a).end = Running /\ View(s, a).pc = s.pc
      /\ View(s, b).end = Running /\ View(s, b).pc = s.pc
  BY ViewFields
<1>2. x \in Operand BY InstructionOK DEF StateOK
<1>3. Eval(View(s, a), x) # Eval(View(s, b), x) BY <1>2, EvalOK
<1> QED BY <1>1, <1>3 DEF DiffersFrom

\* One piece with all the inputs.
LEMMA GoodOne ==
  ASSUME NEW s, s.inputs # {}, NEW p, p.inputs = s.inputs, p.end = Running => StateOK(p),
         \A a \in s.inputs : Moves(s, a, View(p, a))
  PROVE  Good(s, {p})
  BY DEF Good, PieceOK, Disjoint, Held

\* An error for all the inputs.
LEMMA GoodFail ==
  ASSUME NEW s, s.inputs # {}, NEW why, why # Running, \A a \in s.inputs : Moves(s, a, Ended(why))
  PROVE  Good(s, {Fail(s, why)})
  BY FailFields, GoodOne

\* Pieces without inputs may be dropped.
LEMMA GoodFeasible ==
  ASSUME NEW s, NEW P,
         \A p \in P : /\ p.inputs \subseteq s.inputs
                      /\ p.inputs # {} => /\ p.end = Running => StateOK(p)
                                          /\ \A a \in p.inputs : Moves(s, a, View(p, a)),
         Disjoint(P),
         \A a \in s.inputs : Held(P, a) \/ Moves(s, a, Ended(Early))
  PROVE  Good(s, Feasible(P))
  BY DEF Good, PieceOK, Disjoint, Held, Feasible

\* fork keeps all the pieces unless it is limited or disabled, and at most one when
\* disabled.
LEMMA KeptSubset ==
  ASSUME NEW s, NEW P, NEW K \in Kept(s, P)
  PROVE  K \subseteq P /\ (limited \/ ~s.forking \/ K = P)
         /\ (~s.forking => \A p, q \in K : p = q)
  BY DEF Kept

\* What fork keeps of good pieces is good: the inputs of the others are given up.
LEMMA GoodKept ==
  ASSUME NEW s, NEW t, t.forking = s.forking, NEW P, Good(s, P), NEW K \in Kept(t, P)
  PROVE  Good(s, K)
<1>1. K \subseteq P /\ (limited \/ ~s.forking \/ K = P) BY KeptSubset
<1>2. CASE K = P BY <1>2
<1>3. CASE limited \/ ~s.forking BY <1>1, <1>3 DEF Good, Disjoint, Moves
<1> QED BY <1>1, <1>2, <1>3

\* A state with fewer inputs at the same instruction.
Narrows(s, t) ==
  /\ StateOK(t) /\ t.inputs \subseteq s.inputs /\ t.forking = s.forking
  /\ \A a : View(t, a) = View(s, a)

\* What an input may become in a part of a state it may become in the state.
LEMMA MovesWider ==
  ASSUME NEW s, NEW t, Narrows(s, t), NEW a, NEW d, Moves(t, a, d)
  PROVE  Moves(s, a, d)
  BY DEF Moves, Narrows

\* Good pieces of a state with the same inputs are good.
LEMMA GoodWider ==
  ASSUME NEW s, NEW t, Narrows(s, t), t.inputs = s.inputs, NEW P, Good(t, P)
  PROVE  Good(s, P)
  BY MovesWider DEF Good, PieceOK

\* A constraint makes a part of a state.
LEMMA OnNarrows ==
  ASSUME NEW s, StateOK(s), NEW I, I \subseteq s.inputs, I # {}
  PROVE  Narrows(s, On(s, I)) /\ On(s, I).inputs = I
  BY OnOK DEF Narrows

\* The first step of an instruction that forks before it works.
Split(s, K) ==
  /\ \A t \in K : IF t.end = Running THEN Narrows(s, t) ELSE PieceOK(s, t)
  /\ Disjoint(K)
  /\ \A a \in s.inputs : Held(K, a) \/ Moves(s, a, Ended(Early))

\* What fork keeps of a split is a split.
LEMMA SplitKept ==
  ASSUME NEW s, NEW t, t.forking = s.forking, NEW P, Split(s, P), NEW K \in Kept(t, P)
  PROVE  Split(s, K)
<1>1. K \subseteq P /\ (limited \/ ~s.forking \/ K = P) BY KeptSubset
<1>2. CASE K = P BY <1>2
<1>3. CASE limited \/ ~s.forking BY <1>1, <1>3 DEF Split, Disjoint, Moves
<1> QED BY <1>1, <1>2, <1>3

\* Good pieces of every branch of a split are good together.
LEMMA GoodUnion ==
  ASSUME NEW s, NEW K, Split(s, K), NEW D,
         \A t \in K : IF t.end = Running THEN Good(t, D[t]) ELSE D[t] = {t}
  PROVE  Good(s, UNION {D[t] : t \in K})
<1> DEFINE P == UNION {D[t] : t \in K}
<1>1. ASSUME NEW t \in K, NEW p \in D[t] PROVE PieceOK(s, p) /\ p.inputs \subseteq t.inputs
  <2>1. CASE t.end = Running BY <1>1, <2>1, MovesWider DEF Split, Good, PieceOK, Narrows
  <2>2. CASE t.end # Running BY <1>1, <2>2 DEF Split
  <2> QED BY <2>1, <2>2
<1>2. ASSUME NEW t \in K PROVE Disjoint(D[t])
  BY DEF Good, Disjoint
<1>3. Disjoint(P)
  <2> SUFFICES ASSUME NEW t \in K, NEW u \in K, NEW p \in D[t], NEW q \in D[u], p # q
               PROVE  p.inputs \intersect q.inputs = {}
    BY DEF Disjoint
  <2>1. CASE t = u BY <2>1, <1>2 DEF Disjoint
  <2>2. CASE t # u BY <2>2, <1>1 DEF Split, Disjoint
  <2> QED BY <2>1, <2>2
<1>4. ASSUME NEW a \in s.inputs PROVE Held(P, a) \/ Moves(s, a, Ended(Early))
  <2>1. CASE Held(K, a)
    <3>1. PICK t \in K : a \in t.inputs BY <2>1 DEF Held
    <3>2. CASE t.end = Running
      <4>1. Held(D[t], a) \/ Moves(t, a, Ended(Early)) BY <3>1, <3>2 DEF Good
      <4> QED BY <3>2, <4>1, MovesWider DEF Held, Split
    <3>3. CASE t.end # Running BY <3>1, <3>3 DEF Held
    <3> QED BY <3>2, <3>3
  <2>2. CASE ~Held(K, a) BY <2>2 DEF Split
  <2> QED BY <2>1, <2>2
<1> QED BY <1>1, <1>3, <1>4 DEF Good

(* Computation.                                                                    *)

\* The constants among the values.
LEMMA SmallValues == 0 \in Value /\ 1 \in Value /\ Value \subseteq Nat /\ Word \in Nat /\ Junk \in Value
  BY MachineAssumption DEF Value

\* A constant is an expression.
LEMMA AlwaysOK ==
  ASSUME NEW v \in Value
  PROVE  Always(v) \in Expression /\ \A a \in Assignment : Always(v)[a] = v
  BY DEF Always, Expression

\* The operands of the instruction at hand.
LEMMA OperandOK ==
  ASSUME NEW s, StateOK(s), NEW x \in Operands(Code[s.pc])
  PROVE  /\ x \in Operand /\ EvalIn(s, x) \in Expression
         /\ \A a \in Assignment : Eval(View(s, a), x) = EvalIn(s, x)[a] /\ EvalIn(s, x)[a] \in Value
<1>1. x \in Operand BY InstructionOK DEF StateOK
<1> QED BY <1>1, EvalOK

\* The expression an instruction computes is the value each input computes.
LEMMA ComputedOK ==
  ASSUME NEW s, StateOK(s), NEW k, k = Code[s.pc],
         k.op \in {"assign", "select", "arithmetic", "cast", "compare"}
  PROVE  /\ ComputedIn(s, k) \in Expression
         /\ \A a \in Assignment : ComputedIn(s, k)[a] = Computed(View(s, a), k)
<1>1. WellFormed(s.pc) BY CodeAssumption DEF StateOK
<1>2. CASE k.op \in {"assign", "arithmetic"}
  <2> DEFINE l == EvalIn(s, k.left)
             r == EvalIn(s, k.right)
  <2>1. k.left \in Operands(k) /\ k.right \in Operands(k) BY <1>2 DEF Operands
  <2>2. \A a \in Assignment : /\ l[a] \in Value /\ r[a] \in Value
                              /\ Eval(View(s, a), k.left) = l[a] /\ Eval(View(s, a), k.right) = r[a]
    BY <2>1, OperandOK
  <2>3. k.of \in [Value \X Value -> Value] BY <1>1, <1>2 DEF WellFormed
  <2> HIDE DEF l, r
  <2>4. ComputedIn(s, k) = [a \in Assignment |-> k.of[<<l[a], r[a]>>]] BY <1>2 DEF ComputedIn, l, r
  <2>5. \A a \in Assignment : Computed(View(s, a), k) = k.of[<<l[a], r[a]>>] BY <1>2, <2>2 DEF Computed
  <2>6. \A a \in Assignment : k.of[<<l[a], r[a]>>] \in Value BY <2>2, <2>3
  <2> QED BY <2>4, <2>5, <2>6 DEF Expression
<1>3. CASE k.op = "select"
  <2> DEFINE l == EvalIn(s, k.left)
             r == EvalIn(s, k.right)
             e == EvalIn(s, k.cond)
  <2>1. k.left \in Operands(k) /\ k.right \in Operands(k) /\ k.cond \in Operands(k) BY <1>3 DEF Operands
  <2>2. \A a \in Assignment : /\ l[a] \in Value /\ r[a] \in Value
                              /\ Eval(View(s, a), k.left) = l[a] /\ Eval(View(s, a), k.right) = r[a]
                              /\ Eval(View(s, a), k.cond) = e[a]
    BY <2>1, OperandOK
  <2> HIDE DEF l, r, e
  <2>4. ComputedIn(s, k) = [a \in Assignment |-> IF e[a] # 0 THEN l[a] ELSE r[a]]
    BY <1>3 DEF ComputedIn, l, r, e
  <2>5. \A a \in Assignment : Computed(View(s, a), k) = IF e[a] # 0 THEN l[a] ELSE r[a]
    BY <1>3, <2>2 DEF Computed
  <2> QED BY <2>2, <2>4, <2>5 DEF Expression
<1>4. CASE k.op = "cast"
  <2> DEFINE l == EvalIn(s, k.arg)
  <2>1. k.arg \in Operands(k) BY <1>4 DEF Operands
  <2>2. \A a \in Assignment : l[a] \in Value /\ Eval(View(s, a), k.arg) = l[a] BY <2>1, OperandOK
  <2>3. k.of \in [Value -> Value] BY <1>1, <1>4 DEF WellFormed
  <2> HIDE DEF l
  <2>4. ComputedIn(s, k) = [a \in Assignment |-> k.of[l[a]]] BY <1>4 DEF ComputedIn, l
  <2>5. \A a \in Assignment : Computed(View(s, a), k) = k.of[l[a]] BY <1>4, <2>2 DEF Computed
  <2> QED BY <2>2, <2>3, <2>4, <2>5 DEF Expression
<1>5. CASE k.op = "compare"
  <2> DEFINE l == EvalIn(s, k.left)
             r == EvalIn(s, k.right)
  <2>1. k.left \in Operands(k) /\ k.right \in Operands(k) BY <1>5 DEF Operands
  <2>2. \A a \in Assignment : Eval(View(s, a), k.left) = l[a] /\ Eval(View(s, a), k.right) = r[a]
    BY <2>1, OperandOK
  <2> HIDE DEF l, r
  <2>4. ComputedIn(s, k) = [a \in Assignment |-> IF k.order[<<l[a], r[a]>>] \in k.holds THEN 1 ELSE 0]
    BY <1>5 DEF ComputedIn, l, r
  <2>5. \A a \in Assignment : Computed(View(s, a), k) = IF k.order[<<l[a], r[a]>>] \in k.holds THEN 1 ELSE 0
    BY <1>5, <2>2 DEF Computed
  <2> QED BY <2>4, <2>5, SmallValues DEF Expression
<1> QED BY <1>2, <1>3, <1>4, <1>5

\* The result of an instruction that does not leave its block.
LEMMA YieldOK ==
  ASSUME NEW s, StateOK(s), Code[s.pc].op \notin Leaving, ~Invokes(Code[s.pc]), NEW e \in Expression
  PROVE  /\ StateOK(Result(s, e)) /\ Result(s, e).inputs = s.inputs /\ Result(s, e).end = Running
         /\ \A a \in Assignment : View(Result(s, e), a) = Yields(View(s, a), e[a])
<1>1. s.pc \in DOMAIN Code BY DEF StateOK
<1> QED BY <1>1, InstructionOK, ResultOK

\* Going on, for the instructions that are not terminators.
LEMMA ProceedOK ==
  ASSUME NEW s, StateOK(s), Code[s.pc].op \notin Leaving, ~Invokes(Code[s.pc])
  PROVE  /\ StateOK(Advance(s)) /\ Advance(s).inputs = s.inputs /\ Advance(s).end = Running
         /\ \A a : View(Advance(s), a) = Proceeds(View(s, a))
<1>1. s.pc \in DOMAIN Code BY DEF StateOK
<1> QED BY <1>1, InstructionOK, AdvanceOK

\* The inputs of a state and where it is.
LEMMA InputsOK ==
  ASSUME NEW s, StateOK(s)
  PROVE  s.inputs \subseteq Assignment /\ s.inputs # {} /\ s.pc \in DOMAIN Code /\ s.end = Running
  BY StateElim DEF FieldsOK

\* Integer arithmetic, comparisons and casts compute on every input what the program
\* does.
LEMMA ComputeGood ==
  ASSUME NEW s, StateOK(s), Code[s.pc].op \in {"assign", "select"}, NEW P \in Compute(s, Code[s.pc])
  PROVE  Good(s, P)
<1> DEFINE k == Code[s.pc]
           e == ComputedIn(s, k)
<1>1. P = {Result(s, e)} BY DEF Compute
<1>2. e \in Expression /\ \A a \in Assignment : e[a] = Computed(View(s, a), k) BY ComputedOK
<1>3. /\ StateOK(Result(s, e)) /\ Result(s, e).inputs = s.inputs
      /\ \A a \in Assignment : View(Result(s, e), a) = Yields(View(s, a), e[a])
  BY <1>2, YieldOK DEF Leaving, Invokes
<1>4. ASSUME NEW a \in s.inputs PROVE Moves(s, a, View(Result(s, e), a))
  <2>1. a \in Assignment BY InputsOK
  <2>2. Computes(View(s, a), k, Yields(View(s, a), e[a])) BY <1>2, <2>1 DEF Computes
  <2> HIDE DEF e
  <2>3. Step(a, View(s, a), Yields(View(s, a), e[a])) BY <2>2, StepIntro DEF Void
  <2> QED BY <1>3, <2>1, <2>3 DEF Moves
<1> HIDE DEF e
<1> QED BY <1>1, <1>3, <1>4, GoodOne, InputsOK

\* Every input of a state comes from the same block at a phi.
LEMMA ChooseGood ==
  ASSUME NEW s, StateOK(s), Code[s.pc].op = "phi", NEW P \in Choose(s, Code[s.pc])
  PROVE  Good(s, P)
<1> DEFINE k == Code[s.pc]
           x == k.values[s.from]
           e == EvalIn(s, x)
<1>0. WellFormed(s.pc) BY CodeAssumption, InputsOK
<1>1. P = {Result(s, e)} BY DEF Choose
<1>2. s.from \in DOMAIN k.blocks BY DEF StateOK, AtPhi
<1>3. x \in Operands(k) BY <1>0, <1>2 DEF WellFormed, Operands
<1>4. e \in Expression /\ \A a \in Assignment : Eval(View(s, a), x) = e[a] BY <1>3, OperandOK
<1>5. /\ StateOK(Result(s, e)) /\ Result(s, e).inputs = s.inputs
      /\ \A a \in Assignment : View(Result(s, e), a) = Yields(View(s, a), e[a])
  BY <1>4, YieldOK DEF Leaving, Invokes
<1>6. ASSUME NEW a \in s.inputs PROVE Moves(s, a, View(Result(s, e), a))
  <2>1. a \in Assignment BY InputsOK
  <2>2. View(s, a).from = k.blocks[s.from] BY ViewFields DEF Entered, AtPhi
  <2>3. Computes(View(s, a), k, Yields(View(s, a), e[a]))
    <3> HIDE DEF e
    <3> QED BY <1>2, <1>4, <2>1, <2>2 DEF Computes
  <2> HIDE DEF e
  <2>4. Step(a, View(s, a), Yields(View(s, a), e[a])) BY <2>3, StepIntro DEF Void
  <2> QED BY <1>5, <2>1, <2>4 DEF Moves
<1> HIDE DEF e
<1> QED BY <1>1, <1>5, <1>6, GoodOne, InputsOK

\* A floating-point instruction computes for the inputs that agree with one example;
\* the others are given up.
LEMMA RoundGood ==
  ASSUME NEW s, StateOK(s), Code[s.pc].op \in Float, NEW P \in Round(s, Code[s.pc])
  PROVE  Good(s, P)
<1> DEFINE k == Code[s.pc]
           E == {EvalIn(s, x) : x \in Operands(k)}
           I(b) == {a \in s.inputs : \A e \in E : e[a] = e[b]}
<1>1. PICK b \in s.inputs :
        P = {IF k.supported THEN Result(On(s, I(b)), ComputedIn(On(s, I(b)), k)) ELSE Fail(On(s, I(b)), "exec")}
  BY DEF Round, Concretized
<1> DEFINE t == On(s, I(b))
           e == ComputedIn(t, k)
<1>2. I(b) # {} /\ I(b) \subseteq s.inputs OBVIOUS
<1> HIDE DEF I
<1>3. Narrows(s, t) /\ t.inputs = I(b) /\ t.pc = s.pc BY <1>2, OnNarrows, OnOK
<1>4. StateOK(t) BY <1>3 DEF Narrows
<1> DEFINE p == IF k.supported THEN Result(t, e) ELSE Fail(t, "exec")
<1> HIDE DEF t
<1>5. e \in Expression /\ \A a \in Assignment : e[a] = Computed(View(t, a), k)
  BY <1>3, <1>4, ComputedOK DEF Float
<1>6. /\ StateOK(Result(t, e)) /\ Result(t, e).inputs = t.inputs /\ Result(t, e).end = Running
      /\ \A a \in Assignment : View(Result(t, e), a) = Yields(View(t, a), e[a])
  BY <1>3, <1>4, <1>5, YieldOK DEF Leaving, Invokes, Float
<1> HIDE DEF e
<1>7. ASSUME NEW a \in t.inputs PROVE Moves(t, a, View(p, a))
  <2>1. a \in Assignment BY <1>4, InputsOK
  <2> DEFINE d == IF k.supported THEN Yields(View(t, a), e[a]) ELSE Ended("exec")
  <2>2. View(p, a) = d BY <1>6, <2>1, FailFields DEF Running
  <2>3. Computes(View(t, a), k, d) BY <1>5, <2>1 DEF Computes
  <2> HIDE DEF d, p
  <2>4. Step(a, View(t, a), d) BY <1>3, <1>4, <2>3, StepIntro DEF Void, Float
  <2> QED BY <2>2, <2>4 DEF Moves
<1>8. PieceOK(s, p)
  <2>1. p.inputs = t.inputs /\ (p.end = Running => StateOK(p)) BY <1>6, FailFields DEF Running
  <2> HIDE DEF p
  <2> QED BY <1>2, <1>3, <1>7, <2>1, MovesWider DEF PieceOK
<1>9. ASSUME NEW a \in s.inputs, a \notin t.inputs PROVE Moves(s, a, Ended(Early))
  <2>1. PICK x \in Operands(k) : EvalIn(s, x)[a] # EvalIn(s, x)[b] BY <1>3, <1>9 DEF I
  <2>2. DiffersFrom(View(s, a), View(s, b)) BY <2>1, DiffersIntro, InputsOK
  <2>3. View(s, a).pc = s.pc BY ViewFields
  <2>4. Confused(View(s, a), View(s, b), Ended(Early)) BY <2>2, <2>3 DEF Confused
  <2> QED BY <2>4 DEF Moves
<1>10. P = {p} /\ p.inputs = t.inputs
  BY <1>1, <1>6, FailFields DEF t, e
<1> HIDE DEF p
<1> QED BY <1>8, <1>9, <1>10 DEF Good, Disjoint, Held

(* Pieces of a state, whose inputs may be none: those are not feasible.             *)

\* A state with other constraints, even infeasible ones, keeps its fields.
LEMMA OnShape ==
  ASSUME NEW s, StateOK(s), NEW I
  PROVE  /\ StateShape(On(s, I)) /\ On(s, I).inputs = I /\ On(s, I).pc = s.pc /\ On(s, I).mem = s.mem
         /\ On(s, I).regs = s.regs /\ On(s, I).made = s.made /\ On(s, I).forking = s.forking
<1>1. On(s, I) = StateOf(I, s.pc, s.from, s.regs, s.locals, s.callers, s.mem, s.forking, s.made)
  BY Zenon, ViewShape, StateUpdates DEF On
<1> QED BY <1>1, StateFields DEF StateShape

\* None of the operations changes which inputs a state has.
LEMMA ShapeInputs ==
  ASSUME NEW t, StateShape(t)
  PROVE  /\ Advance(t).inputs = t.inputs
         /\ \A p, b : Transfer(t, p, b).inputs = t.inputs
         /\ \A e : Result(t, e).inputs = t.inputs
         /\ \A M : [t EXCEPT !.mem = M].inputs = t.inputs /\ StateShape([t EXCEPT !.mem = M])
<1>1. \A u : StateShape(u) => Advance(u).inputs = u.inputs
  <2> SUFFICES ASSUME NEW u, StateShape(u) PROVE Advance(u).inputs = u.inputs OBVIOUS
  <2>1. Advance(u) = StateOf(u.inputs, u.pc + 1, u.from, u.regs, u.locals, u.callers, u.mem, u.forking, u.made)
    BY Zenon, StateUpdates DEF Advance
  <2> QED BY <2>1, StateFields
<1>2. ASSUME NEW p, NEW b PROVE Transfer(t, p, b).inputs = t.inputs
  <2> DEFINE j == IF AtPhi(p) THEN CHOOSE i \in DOMAIN Code[p].blocks : Code[p].blocks[i] = b ELSE t.from
  <2>1. Transfer(t, p, b) = [t EXCEPT !.pc = p, !.from = j] BY Zenon DEF Transfer
  <2> HIDE DEF j
  <2>2. Transfer(t, p, b) = StateOf(t.inputs, p, j, t.regs, t.locals, t.callers, t.mem, t.forking, t.made)
    BY Zenon, <2>1, StateJumped
  <2> QED BY <2>2, StateFields
<1>3. ASSUME NEW e PROVE Result(t, e).inputs = t.inputs
  <2> DEFINE r == Code[t.pc].dst
             R == [t.regs EXCEPT ![r] = e]
  <2>1. CASE r = NoReg BY <2>1, <1>1 DEF Result, Bind
  <2>2. CASE r # NoReg
    <3>1. Bind(t, r, e) = [t EXCEPT !.regs = R] BY <2>2 DEF Bind
    <3>2. Result(t, e) = Advance(Bind(t, r, e)) BY DEF Result
    <3> HIDE DEF R, r
    <3>3. [t EXCEPT !.regs = R] = StateOf(t.inputs, t.pc, t.from, R, t.locals, t.callers, t.mem, t.forking, t.made)
      BY Zenon, StateUpdates
    <3>4. StateShape(Bind(t, r, e)) /\ Bind(t, r, e).inputs = t.inputs BY <3>1, <3>3, StateFields DEF StateShape
    <3> QED BY <1>1, <3>2, <3>4
  <2> QED BY <2>1, <2>2
<1>4. ASSUME NEW M PROVE [t EXCEPT !.mem = M].inputs = t.inputs /\ StateShape([t EXCEPT !.mem = M])
  <2>1. [t EXCEPT !.mem = M] = StateOf(t.inputs, t.pc, t.from, t.regs, t.locals, t.callers, M, t.forking, t.made)
    BY Zenon, StateUpdates
  <2> QED BY <2>1, StateFields DEF StateShape
<1> QED BY <1>1, <1>2, <1>3, <1>4

Piece(s, I, p) ==
  /\ p.inputs = I
  /\ I # {} => /\ p.end = Running => StateOK(p)
               /\ \A a \in I : Moves(s, a, View(p, a))

\* Pieces that are disjoint and good where they have inputs.
LEMMA GoodPieces ==
  ASSUME NEW s, NEW P,
         \A p \in P : p.inputs \subseteq s.inputs /\ Piece(s, p.inputs, p),
         Disjoint(P),
         \A a \in s.inputs : Held(P, a) \/ Moves(s, a, Ended(Early))
  PROVE  Good(s, Feasible(P))
  BY GoodFeasible DEF Piece

\* A branch taken, as a piece.
LEMMA JumpPiece ==
  ASSUME NEW s, StateOK(s), NEW I, I \subseteq s.inputs, NEW p, NEW b, Arrives(p, b),
         \A a \in I : Moves(s, a, Goto(View(s, a), p, b))
  PROVE  Piece(s, I, Transfer(On(s, I), p, b))
<1> DEFINE t == On(s, I)
<1>1. StateShape(t) /\ t.inputs = I BY OnShape
<1>2. I # {} => StateOK(t) /\ \A a : View(t, a) = View(s, a) BY OnOK
<1> HIDE DEF t
<1>3. Transfer(t, p, b).inputs = I BY <1>1, ShapeInputs
<1>4. I # {} => /\ StateOK(Transfer(t, p, b))
                /\ \A a : View(Transfer(t, p, b), a) = Goto(View(s, a), p, b)
  BY <1>2, TransferOK
<1>5. Piece(s, I, Transfer(t, p, b)) BY <1>3, <1>4 DEF Piece
<1> QED BY <1>5 DEF t

\* A result for some of the inputs, as a piece.
LEMMA ResultPiece ==
  ASSUME NEW s, StateOK(s), NEW I, I \subseteq s.inputs, NEW e \in Expression,
         Code[s.pc].op \notin Leaving, ~Invokes(Code[s.pc]),
         \A a \in I : Moves(s, a, Yields(View(s, a), e[a]))
  PROVE  Piece(s, I, Result(On(s, I), e))
<1> DEFINE t == On(s, I)
<1>1. StateShape(t) /\ t.inputs = I /\ t.pc = s.pc BY OnShape
<1>2. I # {} => StateOK(t) /\ \A a : View(t, a) = View(s, a) BY OnOK
<1> HIDE DEF t
<1>3. Result(t, e).inputs = I BY <1>1, ShapeInputs
<1>4. I # {} => /\ StateOK(Result(t, e))
                /\ \A a \in Assignment : View(Result(t, e), a) = Yields(View(s, a), e[a])
  BY <1>1, <1>2, YieldOK
<1>5. Piece(s, I, Result(t, e)) BY <1>3, <1>4, InputsOK DEF Piece
<1> QED BY <1>5 DEF t

\* An error for some of the inputs, as a piece.
LEMMA FailPiece ==
  ASSUME NEW s, StateOK(s), NEW I, NEW why, why # Running, \A a \in I : Moves(s, a, Ended(why))
  PROVE  Piece(s, I, Fail(On(s, I), why))
<1>1. On(s, I).inputs = I BY OnShape
<1>2. Fail(On(s, I), why).inputs = I /\ Fail(On(s, I), why).end = why
      /\ \A a : View(Fail(On(s, I), why), a) = Ended(why)
  BY <1>1, FailFields
<1> QED BY <1>2 DEF Piece

(* Branches.                                                                       *)

\* A conditional branch forks into the inputs of either side.
LEMMA BranchGood ==
  ASSUME NEW s, StateOK(s), Code[s.pc].op = "br", NEW P \in Branch(s, Code[s.pc])
  PROVE  Good(s, P)
<1> DEFINE k == Code[s.pc]
           e == EvalIn(s, k.cond)
           I == {a \in s.inputs : e[a] \in Value \ {0}}
           J == {a \in s.inputs : e[a] \in {0}}
           t == Transfer(On(s, I), k.then, k.block)
           u == Transfer(On(s, J), k.else, k.block)
<1>1. P \in Kept(s, Feasible({t, u})) BY DEF Branch, Where
<1>2. k.cond \in Operands(k) BY DEF Operands
<1>3. \A a \in Assignment : Eval(View(s, a), k.cond) = e[a] /\ e[a] \in Value BY <1>2, OperandOK
<1>4. Arrives(k.then, k.block) /\ Arrives(k.else, k.block)
  <2>1. k.then \in Targets(k) /\ k.else \in Targets(k) BY DEF Targets
  <2> QED BY <2>1, InstructionOK, InputsOK
<1> HIDE DEF e
<1>5. \A a \in I : Moves(s, a, Goto(View(s, a), k.then, k.block))
  <2> TAKE a \in I
  <2>1. Branches(View(s, a), k, Goto(View(s, a), k.then, k.block)) BY <1>3, InputsOK DEF Branches
  <2> QED BY <2>1, StepIntro DEF Moves, Void
<1>6. \A a \in J : Moves(s, a, Goto(View(s, a), k.else, k.block))
  <2> TAKE a \in J
  <2>1. Branches(View(s, a), k, Goto(View(s, a), k.else, k.block)) BY <1>3, InputsOK DEF Branches
  <2> QED BY <2>1, StepIntro DEF Moves, Void
<1>7. Piece(s, I, t) BY <1>4, <1>5, JumpPiece
<1>8. Piece(s, J, u) BY <1>4, <1>6, JumpPiece
<1>9. I \subseteq s.inputs /\ J \subseteq s.inputs /\ I \intersect J = {} OBVIOUS
<1>10. \A a \in s.inputs : a \in I \/ a \in J BY <1>3, InputsOK
<1> HIDE DEF t, u, I, J
<1>11. t.inputs = I /\ u.inputs = J BY <1>7, <1>8 DEF Piece
<1>12. Disjoint({t, u}) BY <1>9, <1>11 DEF Disjoint
<1>13. Good(s, Feasible({t, u})) BY <1>7, <1>8, <1>9, <1>10, <1>11, <1>12, GoodPieces DEF Held
<1> QED BY <1>1, <1>13, GoodKept

\* An unconditional branch.
LEMMA JumpGood ==
  ASSUME NEW s, StateOK(s), Code[s.pc].op = "jump", NEW P \in Jump(s, Code[s.pc])
  PROVE  Good(s, P)
<1> DEFINE k == Code[s.pc]
           t == Transfer(s, k.to, k.block)
<1>1. P = {t} BY DEF Jump
<1>2. Arrives(k.to, k.block)
  <2>1. k.to \in Targets(k) BY DEF Targets
  <2> QED BY <2>1, InstructionOK, InputsOK
<1>3. /\ StateOK(t) /\ t.inputs = s.inputs
      /\ \A a : View(t, a) = Goto(View(s, a), k.to, k.block)
  BY <1>2, TransferOK
<1>4. \A a : Branches(View(s, a), k, Goto(View(s, a), k.to, k.block)) BY DEF Branches
<1>5. \A a : Moves(s, a, View(t, a)) BY <1>3, <1>4, StepIntro DEF Moves, Void
<1> HIDE DEF t
<1> QED BY <1>1, <1>3, <1>5, GoodOne, InputsOK

\* A switch sends each input to its block, except where the default block lost its
\* condition to a case.
LEMMA SwitchGood ==
  ASSUME NEW s, StateOK(s), Code[s.pc].op = "switch", NEW P \in Switch(s, Code[s.pc])
  PROVE  Good(s, P)
<1> DEFINE k == Code[s.pc]
           e == EvalIn(s, k.on)
           I(t) == TakenBy(s, k, t)
           p(t) == Transfer(On(s, I(t)), t, k.block)
           Q == {p(t) : t \in Targets(k)}
<1>1. P \subseteq Feasible(Q) /\ (limited \/ P = Feasible(Q)) BY DEF Switch
<1>2. k.on \in Operands(k) BY DEF Operands
<1>3. \A a \in Assignment : Eval(View(s, a), k.on) = e[a] BY <1>2, OperandOK
<1>4. Targets(k) = {k.default} \union {k.cases[v] : v \in DOMAIN k.cases} BY DEF Targets
<1>5. \A t : I(t) = IF {a \in s.inputs : e[a] \in DOMAIN k.cases /\ k.cases[e[a]] = t} # {} \/ t # k.default
                    THEN {a \in s.inputs : e[a] \in DOMAIN k.cases /\ k.cases[e[a]] = t}
                    ELSE {a \in s.inputs : e[a] \notin DOMAIN k.cases}
  BY Zenon DEF TakenBy
<1> HIDE DEF e, I
<1>6. ASSUME NEW t \in Targets(k) PROVE I(t) \subseteq s.inputs /\ Piece(s, I(t), p(t))
  <2>1. Arrives(t, k.block) BY InstructionOK, InputsOK
  <2>2. I(t) \subseteq s.inputs BY <1>5
  <2>3. ASSUME NEW a \in I(t) PROVE Moves(s, a, Goto(View(s, a), t, k.block))
    <3>1. t = IF e[a] \in DOMAIN k.cases THEN k.cases[e[a]] ELSE k.default BY <1>5
    <3>2. Eval(View(s, a), k.on) = e[a] BY <1>3, <2>2, InputsOK
    <3>3. Branches(View(s, a), k, Goto(View(s, a), t, k.block)) BY <3>1, <3>2 DEF Branches
    <3> QED BY <3>3, StepIntro DEF Moves, Void
  <2> QED BY <2>1, <2>2, <2>3, JumpPiece
<1>7. \A t, u \in Targets(k) : t # u => I(t) \intersect I(u) = {} BY <1>5
<1> HIDE DEF p
<1>8. Disjoint(Q) BY <1>6, <1>7 DEF Disjoint, Piece
<1>9. ASSUME NEW a \in s.inputs PROVE Held(Q, a) \/ Moves(s, a, Ended(Early))
  <2>1. CASE e[a] \in DOMAIN k.cases
    <3>1. k.cases[e[a]] \in Targets(k) /\ a \in I(k.cases[e[a]]) BY <2>1, <1>4, <1>5
    <3> QED BY <3>1, <1>6 DEF Held, Piece
  <2>2. CASE e[a] \notin DOMAIN k.cases /\ a \in I(k.default)
    BY <2>2, <1>4, <1>6 DEF Held, Piece
  <2>3. CASE e[a] \notin DOMAIN k.cases /\ a \notin I(k.default)
    <3>1. PICK b \in s.inputs : e[b] \in DOMAIN k.cases /\ k.cases[e[b]] = k.default BY <2>3, <1>5
    <3>2. a \in Assignment /\ b \in Assignment BY InputsOK
    <3>3. DiffersFrom(View(s, a), View(s, b)) BY <2>3, <3>1, <3>2, <1>2, DiffersIntro DEF e
    <3>4. View(s, a).pc = s.pc BY ViewFields
    <3>5. Eval(View(s, a), k.on) = e[a] /\ Eval(View(s, b), k.on) = e[b] BY <1>3, <3>2
    <3>6. Confused(View(s, a), View(s, b), Ended(Early)) BY <2>3, <3>1, <3>3, <3>4, <3>5 DEF Confused
    <3> QED BY <3>6 DEF Moves
  <2> QED BY <2>1, <2>2, <2>3
<1>10. \A q \in Q : q.inputs \subseteq s.inputs /\ Piece(s, q.inputs, q) BY <1>6 DEF Piece
<1>11. Good(s, Feasible(Q)) BY <1>8, <1>9, <1>10, GoodPieces
<1> QED BY <1>1, <1>11 DEF Good, Disjoint, Moves

\* Unreachable, abort and the other ends.
LEMMA StopGood ==
  ASSUME NEW s, StateOK(s), Code[s.pc].op = "stop"
  PROVE  Good(s, {Fail(s, Code[s.pc].why)})
<1> DEFINE k == Code[s.pc]
<1>1. k.why # Running BY CodeAssumption, InputsOK DEF WellFormed
<1>2. \A a : Branches(View(s, a), k, Ended(k.why)) BY DEF Branches
<1>3. \A a : Moves(s, a, Ended(k.why)) BY <1>2, StepIntro DEF Moves, Void
<1> QED BY <1>1, <1>3, GoodFail, InputsOK

\* A return hands its value, converted as the caller wants it, to the call, or ends the
\* program.
LEMMA ReturnGood ==
  ASSUME NEW s, StateOK(s), Code[s.pc].op = "ret", NEW P \in Return(s, Code[s.pc])
  PROVE  Good(s, P)
<1> DEFINE k == Code[s.pc]
           n == Len(s.callers)
           call == CallOf(s, n)
<1>1. P = {IF n = 0 THEN Fail(s, "exit")
           ELSE IF k.value # NoReg
                THEN Bind(ResumedIn(s, n), call.dst, [a \in Assignment |-> call.convert[EvalIn(s, k.value)[a]]])
           ELSE IF call.dst # NoReg THEN Fail(s, "exec") ELSE ResumedIn(s, n)}
  BY DEF Return
<1>2. \A a : Len(View(s, a).callers) = n BY CallersOK
<1>3. CASE n = 0
  <2>1. \A a : Returns(View(s, a), k, Ended("exit")) BY <1>2, <1>3 DEF Returns
  <2>2. \A a : Moves(s, a, Ended("exit")) BY <2>1, StepIntro DEF Moves, Void
  <2> QED BY <1>1, <1>3, <2>2, GoodFail, InputsOK DEF Running
<1>4. CASE n # 0
  <2>1. n \in DOMAIN s.callers BY <1>4, CallersOK
  <2> DEFINE t == ResumedIn(s, n)
  <2>2. /\ StateOK(t) /\ t.inputs = s.inputs /\ t.end = Running
        /\ \A a : View(t, a) = Resumed(View(s, a), n)
    BY <2>1, ResumedOK
  <2>3. /\ s.callers[n].site \in CallSite
        /\ \A a : CallOf(View(s, a), n) = call
    BY <2>1, CallersOK
  <2>4. WellFormed(s.callers[n].site) BY <2>3, CodeAssumption DEF CallSite
  <2>5. call.dst \in Reg \union {NoReg} /\ call.convert \in [Value -> Value]
    BY <2>3, <2>4 DEF WellFormed, CallOf, CallSite
  <2> HIDE DEF t, call
  <2>6. CASE k.value # NoReg
    <3> DEFINE v == EvalIn(s, k.value)
               e == [a \in Assignment |-> call.convert[v[a]]]
    <3>1. k.value \in Operands(k) BY <2>6 DEF Operands
    <3>2. \A a \in Assignment : Eval(View(s, a), k.value) = v[a] /\ v[a] \in Value BY <3>1, OperandOK
    <3> HIDE DEF v
    <3>3. e \in Expression /\ \A a \in Assignment : e[a] = call.convert[v[a]] BY <2>5, <3>2 DEF Expression
    <3> HIDE DEF e
    <3>4. /\ StateOK(Bind(t, call.dst, e)) /\ Bind(t, call.dst, e).inputs = s.inputs
          /\ \A a \in Assignment : View(Bind(t, call.dst, e), a) = Bind(View(t, a), call.dst, e[a])
      BY <2>2, <2>5, <3>3, BindOK
    <3>5. ASSUME NEW a \in s.inputs PROVE Moves(s, a, View(Bind(t, call.dst, e), a))
      <4>1. a \in Assignment BY InputsOK
      <4>2. View(Bind(t, call.dst, e), a)
              = Bind(Resumed(View(s, a), n), call.dst, call.convert[Eval(View(s, a), k.value)])
        BY <2>2, <3>2, <3>3, <3>4, <4>1
      <4>3. Returns(View(s, a), k, View(Bind(t, call.dst, e), a))
        BY <1>2, <1>4, <2>3, <2>6, <4>2 DEF Returns
      <4> QED BY <4>3, StepIntro DEF Moves, Void
    <3>6. P = {Bind(t, call.dst, e)} BY <1>1, <1>4, <2>6 DEF t, call, e, v
    <3> QED BY <3>4, <3>5, <3>6, GoodOne, InputsOK
  <2>7. CASE k.value = NoReg /\ call.dst # NoReg
    <3>1. \A a : Returns(View(s, a), k, Ended("exec")) BY <1>2, <1>4, <2>3, <2>7 DEF Returns
    <3>2. \A a : Moves(s, a, Ended("exec")) BY <3>1, StepIntro DEF Moves, Void
    <3>3. P = {Fail(s, "exec")} BY <1>1, <1>4, <2>7 DEF call
    <3> QED BY <3>2, <3>3, GoodFail, InputsOK DEF Running
  <2>8. CASE k.value = NoReg /\ call.dst = NoReg
    <3>1. \A a : Returns(View(s, a), k, View(t, a)) BY <1>2, <1>4, <2>2, <2>3, <2>8 DEF Returns
    <3>2. \A a : Moves(s, a, View(t, a)) BY <3>1, StepIntro DEF Moves, Void
    <3>3. P = {t} BY <1>1, <1>4, <2>8 DEF call, t
    <3> QED BY <2>2, <3>2, <3>3, GoodOne, InputsOK
  <2> QED BY <2>6, <2>7, <2>8
<1> QED BY <1>3, <1>4

\* Unwinding resumes at the last invoke.
LEMMA UnwindGood ==
  ASSUME NEW s, StateOK(s), Code[s.pc].op = "unwind", NEW P \in Unwind(s)
  PROVE  Good(s, P)
<1> DEFINE k == Code[s.pc]
<1>1. ASSUME NEW a PROVE Invoking(View(s, a)) = Invoking(s) BY CallersOK DEF Invoking
<1>2. CASE Invoking(s) = {}
  <2>1. \A a : Unwinds(View(s, a), k, Ended("exec")) BY <1>1, <1>2 DEF Unwinds
  <2>2. \A a : Moves(s, a, Ended("exec")) BY <2>1, StepIntro DEF Moves, Void
  <2>3. P = {Fail(s, "exec")} BY <1>2 DEF Unwind
  <2> QED BY <2>2, <2>3, GoodFail, InputsOK DEF Running
<1>3. CASE Invoking(s) # {}
  <2>1. PICK i \in LastOf(Invoking(s)) :
          P = {Transfer(PopTo(s, i), CallOf(s, i).unwind, CallOf(s, i).block)}
    BY <1>3 DEF Unwind
  <2> DEFINE t == PopTo(s, i)
             call == CallOf(s, i)
             u == Transfer(t, call.unwind, call.block)
  <2>2. i \in DOMAIN s.callers /\ Invokes(call) BY DEF LastOf, Invoking
  <2>3. /\ StateOK(t) /\ t.inputs = s.inputs
        /\ \A a : View(t, a) = PopTo(View(s, a), i)
    BY <2>2, PopToOK
  <2>4. s.callers[i].site \in CallSite /\ \A a : CallOf(View(s, a), i) = call BY <2>2, CallersOK
  <2>5. Arrives(call.unwind, call.block)
    <3>1. call.unwind \in Targets(call) BY <2>2 DEF Targets, Invokes
    <3> QED BY <3>1, <2>4, InstructionOK DEF CallOf, CallSite
  <2> HIDE DEF t, call
  <2>6. /\ StateOK(u) /\ u.inputs = s.inputs
        /\ \A a : View(u, a) = Goto(View(t, a), call.unwind, call.block)
    BY <2>3, <2>5, TransferOK
  <2>7. \A a : Unwinds(View(s, a), k, View(u, a)) BY <1>1, <2>3, <2>4, <2>6 DEF Unwinds
  <2>8. \A a : Moves(s, a, View(u, a)) BY <2>7, StepIntro DEF Moves, Void
  <2>9. P = {u} BY <2>1 DEF t, call
  <2> HIDE DEF u
  <2> QED BY <2>6, <2>8, <2>9, GoodOne, InputsOK
<1> QED BY <1>2, <1>3

(* The functions that ask about values.                                            *)

\* The solver's example is the value of some input, and of all where it is unique.
LEMMA TheOK ==
  ASSUME NEW t, t.inputs # {}, NEW e
  PROVE  /\ \E b \in t.inputs : The(t, e) = e[b]
         /\ Unique(t, e) => \A a \in t.inputs : The(t, e) = e[a]
<1>1. The(t, e) \in {e[a] : a \in t.inputs} BY DEF The, Examples
<1> QED BY <1>1 DEF Unique

\* An instruction whose arguments may be found not to be unique.
LEMMA UnsureMoves ==
  ASSUME NEW s, StateOK(s), NEW x \in Operands(Code[s.pc]), limited \/ ~Unique(s, EvalIn(s, x)),
         NEW a \in s.inputs, NEW d, Unsure(View(s, a), d)
  PROVE  Moves(s, a, d)
<1>1. CASE limited BY <1>1 DEF Moves
<1>2. CASE ~limited
  <2>1. PICK b \in s.inputs : EvalIn(s, x)[a] # EvalIn(s, x)[b] BY <1>2 DEF Unique
  <2>2. DiffersFrom(View(s, a), View(s, b)) BY <2>1, DiffersIntro, InputsOK
  <2>3. Confused(View(s, a), View(s, b), d) BY <2>2 DEF Confused
  <2> QED BY <2>3 DEF Moves
<1> QED BY <1>1, <1>2

\* A result asked of a function without one.
LEMMA VoidGood ==
  ASSUME NEW s, StateOK(s), Code[s.pc].op \in Void, Code[s.pc].dst # NoReg
  PROVE  Good(s, {Fail(s, "exec")})
<1>1. \A a : View(s, a).end = Running /\ View(s, a).pc = s.pc BY ViewFields
<1>2. \A a : Step(a, View(s, a), Ended("exec")) BY <1>1 DEF Step
<1> QED BY <1>2, GoodFail, InputsOK DEF Moves, Running

\* What follows is about the functions that are not asked for a result they lack.
Proper(s) == ~(Code[s.pc].op \in Void /\ Code[s.pc].dst # NoReg)

\* A function that answers every input alike.
LEMMA AsksGood ==
  ASSUME NEW s, StateOK(s), Proper(s), NEW p, p.inputs = s.inputs, p.end = Running => StateOK(p),
         \A a \in s.inputs : Asks(View(s, a), Code[s.pc], View(p, a))
  PROVE  Good(s, {p})
<1>1. \A a \in s.inputs : Moves(s, a, View(p, a)) BY StepIntro DEF Moves, Proper
<1> QED BY <1>1, GoodOne, InputsOK

\* The functions that only report.
LEMMA NopGood ==
  ASSUME NEW s, StateOK(s), Proper(s), Code[s.pc].op = "nop"
  PROVE  Good(s, {Advance(s)})
<1>1. /\ StateOK(Advance(s)) /\ Advance(s).inputs = s.inputs
      /\ \A a : View(Advance(s), a) = Proceeds(View(s, a))
  BY ProceedOK DEF Leaving, Invokes
<1>2. \A a : Asks(View(s, a), Code[s.pc], View(Advance(s), a)) BY <1>1 DEF Asks
<1> QED BY <1>1, <1>2, AsksGood

\* klee_get_value answers one input's value to all.
LEMMA GetValueGood ==
  ASSUME NEW s, StateOK(s), Code[s.pc].op = "get_value", NEW P \in GetValue(s, Code[s.pc])
  PROVE  Good(s, P)
<1> DEFINE k == Code[s.pc]
           e == EvalIn(s, k.arg)
<1>1. PICK b \in s.inputs : P = {Result(s, Always(e[b]))} BY InputsOK DEF GetValue, Examples
<1>2. k.arg \in Operands(k) BY DEF Operands
<1>3. \A a \in Assignment : Eval(View(s, a), k.arg) = e[a] /\ e[a] \in Value BY <1>2, OperandOK
<1> HIDE DEF e
<1>4. Always(e[b]) \in Expression /\ \A a \in Assignment : Always(e[b])[a] = e[b]
  BY <1>3, AlwaysOK, InputsOK
<1> DEFINE p == Result(s, Always(e[b]))
<1>5. /\ StateOK(p) /\ p.inputs = s.inputs
      /\ \A a \in Assignment : View(p, a) = Yields(View(s, a), e[b])
  BY <1>4, YieldOK DEF Leaving, Invokes
<1> HIDE DEF p
<1>6. ASSUME NEW a \in s.inputs PROVE Moves(s, a, View(p, a))
  <2>0. a \in Assignment /\ b \in Assignment BY InputsOK
  <2>1. CASE e[a] = e[b]
    <3>1. Asks(View(s, a), k, View(p, a)) BY <1>3, <1>5, <2>0, <2>1 DEF Asks
    <3> QED BY <3>1, StepIntro DEF Moves, Void
  <2>2. CASE e[a] # e[b]
    <3>1. DiffersFrom(View(s, a), View(s, b)) BY <1>2, <2>0, <2>2, DiffersIntro DEF e
    <3>2. View(s, a).pc = s.pc BY ViewFields
    <3>3. Confused(View(s, a), View(s, b), View(p, a)) BY <1>3, <1>5, <2>0, <3>1, <3>2 DEF Confused
    <3> QED BY <3>3 DEF Moves
  <2> QED BY <2>1, <2>2
<1> QED BY <1>1, <1>5, <1>6, GoodOne, InputsOK DEF p

\* klee_is_symbolic.
LEMMA IsSymbolicGood ==
  ASSUME NEW s, StateOK(s), Code[s.pc].op = "is_symbolic", NEW P \in IsSymbolic(s, Code[s.pc])
  PROVE  Good(s, P)
<1>1. PICK x \in 0 .. 1 : P = {Result(s, Always(x))} BY DEF IsSymbolic
<1>2. x \in Value BY SmallValues
<1> DEFINE p == Result(s, Always(x))
<1>3. /\ StateOK(p) /\ p.inputs = s.inputs
      /\ \A a \in Assignment : View(p, a) = Yields(View(s, a), x)
  BY <1>2, AlwaysOK, YieldOK DEF Leaving, Invokes
<1> HIDE DEF p
<1>4. \A a \in s.inputs : Asks(View(s, a), Code[s.pc], View(p, a)) BY <1>3, InputsOK DEF Asks
<1> QED BY <1>1, <1>3, <1>4, AsksGood DEF p, Proper, Void

\* klee_assume drops the inputs it is false for, or reports when it is for all.
LEMMA AssumeGood ==
  ASSUME NEW s, StateOK(s), Proper(s), Code[s.pc].op = "assume", NEW P \in Assume(s, Code[s.pc])
  PROVE  Good(s, P)
<1> DEFINE k == Code[s.pc]
           e == EvalIn(s, k.arg)
           I == {a \in s.inputs : e[a] \in Value \ {0}}
           t == On(s, I)
<1>1. P = {IF t.inputs = {} THEN Fail(s, "user") ELSE Advance(t)} BY DEF Assume, Where
<1>2. k.arg \in Operands(k) BY DEF Operands
<1>3. \A a \in s.inputs : /\ Eval(View(s, a), k.arg) = e[a] /\ a \in Assignment
                          /\ a \in I <=> e[a] # 0
  BY <1>2, OperandOK, InputsOK
<1>4. t.inputs = I /\ I \subseteq s.inputs BY OnShape
<1> HIDE DEF e
<1>5. CASE I = {}
  <2>1. \A a \in s.inputs : Asks(View(s, a), k, Ended("user")) BY <1>3, <1>5 DEF Asks
  <2>2. \A a \in s.inputs : Moves(s, a, Ended("user")) BY <2>1, StepIntro DEF Moves, Proper
  <2> QED BY <1>1, <1>4, <1>5, <2>2, GoodFail, InputsOK DEF Running
<1>6. CASE I # {}
  <2>1. Narrows(s, t) /\ t.pc = s.pc BY <1>4, <1>6, OnNarrows, OnOK
  <2>2. P = {Advance(t)} BY <1>1, <1>4, <1>6
  <2> HIDE DEF t, I
  <2>3. /\ StateOK(Advance(t)) /\ Advance(t).inputs = I
        /\ \A a : View(Advance(t), a) = Proceeds(View(s, a))
    BY <1>4, <2>1, ProceedOK DEF Leaving, Invokes, Narrows
  <2>4. ASSUME NEW a \in I PROVE Moves(s, a, View(Advance(t), a))
    <3>1. Asks(View(s, a), k, View(Advance(t), a)) BY <1>3, <1>4, <2>3 DEF Asks
    <3> QED BY <3>1, StepIntro DEF Moves, Proper
  <2>5. ASSUME NEW a \in s.inputs, a \notin I PROVE Moves(s, a, Ended(Early))
    <3>1. PICK b \in I : TRUE BY <1>6
    <3>2. b \in s.inputs BY <1>4
    <3>3. e[a] = 0 /\ e[b] # 0 BY <1>3, <2>5, <3>1, <3>2
    <3>4. DiffersFrom(View(s, a), View(s, b)) BY <1>2, <1>3, <3>2, <3>3, DiffersIntro DEF e
    <3>5. View(s, a).pc = s.pc BY ViewFields
    <3>6. Confused(View(s, a), View(s, b), Ended(Early)) BY <1>3, <3>2, <3>3, <3>4, <3>5 DEF Confused
    <3> QED BY <3>2, <3>6 DEF Moves
  <2> QED BY <1>4, <1>6, <2>2, <2>3, <2>4, <2>5 DEF Good, PieceOK, Disjoint, Held
<1> QED BY <1>5, <1>6

\* Arguments that must be unique.
LEMMA UniquelyGood ==
  ASSUME NEW s, StateOK(s), NEW X \in SUBSET Operands(Code[s.pc]), NEW done, NEW why, why # Running,
         \A a \in s.inputs : Unsure(View(s, a), Ended(why)),
         (\A x \in X : Unique(s, EvalIn(s, x))) => Good(s, {done}),
         NEW P \in Uniquely(s, {EvalIn(s, x) : x \in X}, done, why)
  PROVE  Good(s, P)
<1>1. CASE P = {done} /\ \A x \in X : Unique(s, EvalIn(s, x)) BY <1>1
<1>2. CASE P = {Fail(s, why)} /\ (limited \/ \E x \in X : ~Unique(s, EvalIn(s, x)))
  <2>1. CASE limited BY <1>2, <2>1, GoodFail, InputsOK DEF Moves
  <2>2. CASE \E x \in X : ~Unique(s, EvalIn(s, x))
    <3>1. PICK x \in X : ~Unique(s, EvalIn(s, x)) BY <2>2
    <3>2. \A a \in s.inputs : Moves(s, a, Ended(why)) BY <3>1, UnsureMoves
    <3> QED BY <1>2, <3>2, GoodFail, InputsOK
  <2> QED BY <1>2, <2>1, <2>2
<1> QED BY <1>1, <1>2 DEF Uniquely

\* What a view keeps of the objects.
SameObjects(N, M, a) ==
  /\ DOMAIN N = DOMAIN M
  /\ \A b \in DOMAIN M :
       /\ b \in Value \ {0} /\ SymbolicObjectOK(M[b])
       /\ N[b].size = M[b].size /\ N[b].kind = M[b].kind /\ N[b] = ObjectOf(M[b], a)
       /\ \A p : Covers(N[b], b, p) <=> Covers(M[b], b, p)
       /\ \A p, n : Fits(N[b], b, p, n) <=> Fits(M[b], b, p, n)
       /\ \A p, n : Reaches(N[b], b, p, n) <=> Reaches(M[b], b, p, n)

\* The objects of a memory are, but for their bytes, those each input has.
LEMMA MemoryObjects ==
  ASSUME NEW M, MemoryOK(M), NEW a
  PROVE  SameObjects(MemoryOf(M, a), M, a)
<1> DEFINE N == MemoryOf(M, a)
<1>1. DOMAIN N = DOMAIN M BY MemoryFields
<1>2. DOMAIN M \subseteq Value \ {0} BY DEF MemoryOK
<1>3. ASSUME NEW b \in DOMAIN M
      PROVE  /\ b \in Value \ {0} /\ SymbolicObjectOK(M[b])
             /\ N[b].size = M[b].size /\ N[b].kind = M[b].kind /\ N[b] = ObjectOf(M[b], a)
             /\ \A p : Covers(N[b], b, p) <=> Covers(M[b], b, p)
             /\ \A p, n : Fits(N[b], b, p, n) <=> Fits(M[b], b, p, n)
             /\ \A p, n : Reaches(N[b], b, p, n) <=> Reaches(M[b], b, p, n)
  <2>1. /\ SymbolicObjectOK(M[b]) /\ N[b] = ObjectOf(M[b], a)
        /\ N[b].size = M[b].size /\ N[b].kind = M[b].kind
    <3>1. SymbolicObjectOK(M[b]) /\ N[b] = ObjectOf(M[b], a) BY DEF MemoryOf, MemoryOK
    <3>2. ObjectOf(M[b], a).size = M[b].size /\ ObjectOf(M[b], a).kind = M[b].kind BY <3>1, ObjectFields
    <3> QED BY <3>1, <3>2
  <2> DEFINE o == N[b]
             q == M[b]
  <2>2. o.size = q.size BY <2>1
  <2> HIDE DEF o, q, N
  <2>3. /\ \A p : Covers(o, b, p) <=> Covers(q, b, p)
        /\ \A p, n : Fits(o, b, p, n) <=> Fits(q, b, p, n)
        /\ \A p, n : Reaches(o, b, p, n) <=> Reaches(q, b, p, n)
    BY <2>2 DEF Covers, Fits, Reaches
  <2> QED BY Zenon, <1>2, <2>1, <2>3 DEF o, q
<1> HIDE DEF N
<1> QED BY Zenon, <1>1, <1>3 DEF SameObjects, N

\* The same, for the memory of a state.
LEMMA ViewObjects ==
  ASSUME NEW s, StateOK(s), NEW a
  PROVE  SameObjects(View(s, a).mem, s.mem, a)
<1>1. View(s, a).mem = MemoryOf(s.mem, a) BY ViewFields
<1>2. MemoryOK(s.mem) BY DEF StateOK
<1> QED BY <1>1, <1>2, MemoryObjects

\* klee_check_memory_access, for an address and a size that are unique.
LEMMA CheckAccessGood ==
  ASSUME NEW s, StateOK(s), Proper(s), Code[s.pc].op = "check_access", NEW P \in CheckAccess(s, Code[s.pc])
  PROVE  Good(s, P)
<1> DEFINE k == Code[s.pc]
           X == {k.address, k.size}
           e == EvalIn(s, k.address)
           n == EvalIn(s, k.size)
           held == \E b \in DOMAIN s.mem : /\ Covers(s.mem[b], b, The(s, e))
                                           /\ Fits(s.mem[b], b, The(s, e), The(s, n) % Unsigned)
           done == IF held THEN Advance(s) ELSE Fail(s, "ptr")
<1>1. X = Operands(k) BY DEF Operands
<1>2. {e, n} = {EvalIn(s, x) : x \in X} OBVIOUS
<1>3. P \in Uniquely(s, {EvalIn(s, x) : x \in X}, done, "user") BY Zenon, <1>2 DEF CheckAccess
<1>4. ASSUME \A x \in X : Unique(s, EvalIn(s, x)) PROVE Good(s, {done})
  <2>1. Unique(s, e) /\ Unique(s, n) BY <1>4
  <2>2. \A a \in s.inputs : Eval(View(s, a), k.address) = e[a] /\ Eval(View(s, a), k.size) = n[a]
    BY <1>1, OperandOK, InputsOK
  <2>3. \A a \in s.inputs : The(s, e) = e[a] /\ The(s, n) = n[a] BY <2>1, TheOK, InputsOK
  <2> HIDE DEF e, n
  <2>4. /\ StateOK(Advance(s)) /\ Advance(s).inputs = s.inputs
        /\ \A a : View(Advance(s), a) = Proceeds(View(s, a))
    BY ProceedOK DEF Leaving, Invokes
  <2>5. done.inputs = s.inputs /\ (done.end = Running => StateOK(done))
    BY <2>4, FailFields DEF Running
  <2>6. ASSUME NEW a \in s.inputs PROVE Names(a, View(s, a), k, View(done, a))
    <3>1. View(done, a) = IF held THEN Proceeds(View(s, a)) ELSE Ended("ptr")
      BY <2>4, FailFields DEF Running
    <3>2. held <=> \E b \in DOMAIN View(s, a).mem :
                     /\ Covers(View(s, a).mem[b], b, Eval(View(s, a), k.address))
                     /\ Fits(View(s, a).mem[b], b, Eval(View(s, a), k.address), Eval(View(s, a), k.size) % Unsigned)
      <4>1. DOMAIN View(s, a).mem = DOMAIN s.mem BY ViewObjects DEF SameObjects
      <4>2. \A b \in DOMAIN s.mem :
              /\ \A p : Covers(View(s, a).mem[b], b, p) <=> Covers(s.mem[b], b, p)
              /\ \A p, m : Fits(View(s, a).mem[b], b, p, m) <=> Fits(s.mem[b], b, p, m)
        BY ViewObjects DEF SameObjects
      <4> DEFINE p == The(s, e)
                 m == The(s, n) % Unsigned
      <4>3. Eval(View(s, a), k.address) = p /\ Eval(View(s, a), k.size) % Unsigned = m
        BY <2>2, <2>3
      <4>4. held <=> \E b \in DOMAIN s.mem : Covers(s.mem[b], b, p) /\ Fits(s.mem[b], b, p, m)
        OBVIOUS
      <4> HIDE DEF held, p, m
      <4>5. held <=> \E b \in DOMAIN View(s, a).mem :
                       Covers(View(s, a).mem[b], b, p) /\ Fits(View(s, a).mem[b], b, p, m)
        BY Zenon, <4>1, <4>2, <4>4
      <4> QED BY Zenon, <4>3, <4>5
    <3> HIDE DEF held, done
    <3> QED BY <3>1, <3>2 DEF Names
  <2> HIDE DEF done
  <2>7. \A a \in s.inputs : Moves(s, a, View(done, a)) BY <2>6, StepIntro DEF Moves, Proper
  <2> QED BY <2>5, <2>7, GoodOne, InputsOK
<1>5. ASSUME NEW a \in s.inputs PROVE Unsure(View(s, a), Ended("user")) BY ViewFields DEF Unsure
<1> HIDE DEF done, X
<1> QED BY <1>1, <1>3, <1>4, <1>5, UniquelyGood DEF Running

\* klee_set_forking, for a value that is unique.
LEMMA SetForkingGood ==
  ASSUME NEW s, StateOK(s), Proper(s), Code[s.pc].op = "set_forking", NEW P \in SetForking(s, Code[s.pc])
  PROVE  Good(s, P)
<1> DEFINE k == Code[s.pc]
           X == {k.arg}
           e == EvalIn(s, k.arg)
           f == The(s, e) # 0
           t == [s EXCEPT !.forking = f]
           done == Advance(t)
<1>1. X = Operands(k) BY DEF Operands
<1>2. {e} = {EvalIn(s, x) : x \in X} OBVIOUS
<1>3. P \in Uniquely(s, {EvalIn(s, x) : x \in X}, done, "user") BY Zenon, <1>2 DEF SetForking
<1>4. ASSUME \A x \in X : Unique(s, EvalIn(s, x)) PROVE Good(s, {done})
  <2>1. \A a \in s.inputs : Eval(View(s, a), k.arg) = The(s, e)
    BY <1>1, <1>4, OperandOK, InputsOK, TheOK
  <2>2. f \in BOOLEAN OBVIOUS
  <2>3. \A a \in s.inputs : (Eval(View(s, a), k.arg) # 0) = f BY <2>1
  <2> HIDE DEF f
  <2>4. /\ StateOK(t) /\ t.inputs = s.inputs /\ t.pc = s.pc
        /\ \A a : View(t, a) = [View(s, a) EXCEPT !.forking = f]
    BY <2>2, ForkingChangeOK
  <2> HIDE DEF t
  <2>5. /\ StateOK(done) /\ done.inputs = s.inputs
        /\ \A a : View(done, a) = Proceeds(View(t, a))
    BY <2>4, ProceedOK DEF Leaving, Invokes
  <2> HIDE DEF done
  <2>6. \A a \in s.inputs : Asks(View(s, a), k, View(done, a))
    BY <2>3, <2>4, <2>5 DEF Asks
  <2> QED BY <2>5, <2>6, AsksGood
<1>5. ASSUME NEW a \in s.inputs PROVE Unsure(View(s, a), Ended("user")) BY ViewFields DEF Unsure
<1> HIDE DEF done, X
<1> QED BY <1>1, <1>3, <1>4, <1>5, UniquelyGood DEF Running

\* A call of an external function.
LEMMA CallExternalGood ==
  ASSUME NEW s, StateOK(s), Code[s.pc].op = "external", NEW P \in CallExternal(s, Code[s.pc])
  PROVE  Good(s, P)
<1> DEFINE k == Code[s.pc]
           X == Operands(k)
           all == {Fail(s, "external")} \union {Result(s, Always(x)) : x \in Value}
<1>0. Proper(s) BY DEF Proper, Void
<1>1. CASE k.banned
  <2>1. P = {Fail(s, "user")} BY <1>1 DEF CallExternal
  <2>2. Fail(s, "user").inputs = s.inputs /\ Fail(s, "user").end # Running
        /\ \A a : View(Fail(s, "user"), a) = Ended("user")
    BY FailFields DEF Running
  <2>3. \A a : Asks(View(s, a), k, Ended("user")) BY <1>1 DEF Asks
  <2> QED BY <1>0, <2>1, <2>2, <2>3, AsksGood
<1>2. CASE ~k.banned
  <2>1. ASSUME NEW p \in all PROVE Good(s, {p})
    <3>1. CASE p = Fail(s, "external")
      <4>1. p.inputs = s.inputs /\ p.end # Running /\ \A a : View(p, a) = Ended("external")
        BY <3>1, FailFields DEF Running
      <4>2. \A a : Asks(View(s, a), k, Ended("external")) BY <1>2 DEF Asks
      <4> QED BY <1>0, <4>1, <4>2, AsksGood
    <3>2. CASE \E x \in Value : p = Result(s, Always(x))
      <4>1. PICK x \in Value : p = Result(s, Always(x)) BY <3>2
      <4>2. /\ StateOK(p) /\ p.inputs = s.inputs
            /\ \A a \in Assignment : View(p, a) = Yields(View(s, a), x)
        BY <4>1, AlwaysOK, YieldOK DEF Leaving, Invokes
      <4>3. \A a \in s.inputs : Asks(View(s, a), k, View(p, a)) BY <1>2, <4>2, InputsOK DEF Asks
      <4> QED BY <1>0, <4>2, <4>3, AsksGood
    <3> QED BY <3>1, <3>2
  <2>2. CASE AllowExternalSymCalls
    <3>1. P \in {{p} : p \in all} BY <1>2, <2>2 DEF CallExternal
    <3> HIDE DEF all
    <3> QED BY <2>1, <3>1
  <2>3. CASE ~AllowExternalSymCalls
    <3>1. PICK p \in all : P \in Uniquely(s, {EvalIn(s, x) : x \in X}, p, "exec")
      BY <1>2, <2>3 DEF CallExternal
    <3>2. ASSUME NEW a \in s.inputs PROVE Unsure(View(s, a), Ended("exec")) BY ViewFields DEF Unsure
    <3>3. Good(s, {p}) BY <2>1
    <3>4. X \in SUBSET Operands(Code[s.pc]) OBVIOUS
    <3> HIDE DEF all, X
    <3> QED BY <3>1, <3>2, <3>3, <3>4, UniquelyGood DEF Running
  <2> QED BY <2>2, <2>3
<1> QED BY <1>1, <1>2

(* The search for objects.                                                         *)

\* The addresses and sizes of objects are numbers.
LEMMA MemoryNumbers ==
  ASSUME NEW M, MemoryOK(M), NEW b \in DOMAIN M
  PROVE  b \in Nat /\ b # 0 /\ b \in Value /\ M[b].size \in Nat /\ M[b].size < Unsigned /\ b + M[b].size =< Word
<1>1. b \in Value \ {0} /\ SymbolicObjectOK(M[b]) /\ b + M[b].size =< Word BY DEF MemoryOK
<1>2. M[b].size \in 0 .. Unsigned - 1 BY <1>1 DEF SymbolicObjectOK
<1>3. Unsigned \in Nat BY MachineAssumption
<1>4. M[b].size \in Nat /\ M[b].size < Unsigned BY <1>2, <1>3
<1>5. b \in Nat BY <1>1, SmallValues
<1> QED BY <1>1, <1>4, <1>5

\* At most one object covers an address.
LEMMA CoverUnique ==
  ASSUME NEW M, MemoryOK(M), NEW b \in DOMAIN M, NEW c \in DOMAIN M, NEW p \in Nat,
         Covers(M[b], b, p), Covers(M[c], c, p)
  PROVE  b = c
<1>1. /\ b \in Nat /\ c \in Nat /\ M[b].size \in Nat /\ M[c].size \in Nat BY MemoryNumbers
<1>2. (b < c => b + M[b].size =< c) /\ (c < b => c + M[c].size =< b) BY DEF MemoryOK, Apart
<1> QED BY <1>1, <1>2 DEF Covers

\* An access that fits an object starts in it.
LEMMA FitsCovers ==
  ASSUME NEW M, MemoryOK(M), NEW b \in DOMAIN M, NEW p \in Nat, NEW n \in Nat \ {0}, Fits(M[b], b, p, n)
  PROVE  Covers(M[b], b, p)
<1>1. b \in Nat /\ M[b].size \in Nat BY MemoryNumbers
<1> QED BY <1>1 DEF Covers, Fits

\* An object covers its base.
LEMMA BaseCovers ==
  ASSUME NEW M, MemoryOK(M), NEW b \in DOMAIN M
  PROVE  Covers(M[b], b, b)
<1>1. b \in Nat /\ M[b].size \in Nat BY MemoryNumbers
<1> QED BY <1>1 DEF Covers

\* A part of a state, which may have no inputs.
PartOK(t) == t.inputs \subseteq Assignment /\ MemoryOK(t.mem)

\* AddressSpace::resolve stops in either direction at the first object that is out of
\* the reach of the address: no object that an input's address is in is missed.
THEOREM ResolutionComplete ==
  ASSUME NEW t, PartOK(t), NEW e \in Expression, NEW x \in Examples(t, e)
  PROVE  /\ Resolved(t, e, x) \subseteq DOMAIN t.mem
         /\ \A b \in Resolved(t, e, x) : Hit(t, e, b)
         /\ \A a \in t.inputs, b \in DOMAIN t.mem : Covers(t.mem[b], b, e[a]) => b \in Resolved(t, e, x)
<1> DEFINE M == t.mem
           H == Hits(t, e, x)
<1>1. H \subseteq DOMAIN M /\ \A b \in H : Hit(t, e, b) BY DEF Hits, Back, Forth
<1>2. \A a \in t.inputs : e[a] \in Nat BY SmallValues DEF PartOK, Expression
<1>3. x \in Nat BY <1>2 DEF Examples
<1>4. ASSUME NEW a \in t.inputs, NEW b \in DOMAIN M, Covers(M[b], b, e[a]) PROVE b \in H
  <2>1. b \in Nat /\ M[b].size \in Nat BY MemoryNumbers DEF PartOK
  <2>2. \A q \in DOMAIN M : q \in Nat /\ (b < q => b + M[b].size =< q) BY MemoryNumbers DEF PartOK, MemoryOK, Apart
  <2>3. Hit(t, e, b) BY <1>4 DEF Hit
  <2>4. ASSUME b =< x PROVE b \in Back(t, e, x)
    <3>1. ASSUME NEW q \in DOMAIN M, b < q PROVE e[a] < q
      BY <1>2, <1>4, <2>1, <2>2, <3>1 DEF Covers
    <3> QED BY <2>4, <3>1 DEF Back
  <2>5. ASSUME x < b PROVE b \in Forth(t, e, x)
    <3>1. b =< e[a] BY <1>2, <1>4, <2>1 DEF Covers
    <3>2. \A q \in DOMAIN M : q =< b => q =< e[a] BY <1>2, <2>1, <2>2, <3>1
    <3> QED BY <2>5, <3>2 DEF Forth
  <2> QED BY <1>3, <2>1, <2>3, <2>4, <2>5 DEF Hits
<1>5. CASE \E b \in H : Sure(t, e, b)
  <2>1. PICK c \in H : Sure(t, e, c) /\ Resolved(t, e, x) = {c} BY <1>5 DEF Resolved
  <2>2. ASSUME NEW a \in t.inputs, NEW b \in DOMAIN M, Covers(M[b], b, e[a]) PROVE b = c
    <3>1. Covers(M[c], c, e[a]) BY <2>1 DEF Sure
    <3> QED BY <1>1, <1>2, <2>1, <2>2, <3>1, CoverUnique DEF PartOK
  <2> QED BY <1>1, <2>1, <2>2
<1>6. CASE ~\E b \in H : Sure(t, e, b)
  <2>1. Resolved(t, e, x) = H BY <1>6 DEF Resolved
  <2> QED BY <1>1, <1>4, <2>1
<1> QED BY <1>5, <1>6

\* The part of a state a constraint leaves.
LEMMA StatePartOK ==
  ASSUME NEW s, StateOK(s), NEW I, I \subseteq s.inputs
  PROVE  PartOK(s) /\ PartOK(On(s, I))
<1>1. s.inputs \subseteq Assignment /\ MemoryOK(s.mem) BY DEF StateOK
<1> QED BY <1>1, OnShape DEF PartOK

(* Loads and stores.                                                               *)

\* The width of a load or store.
LEMMA WidthOK ==
  ASSUME NEW s, StateOK(s), Code[s.pc].op \in {"load", "store"}
  PROVE  /\ Code[s.pc].bytes \in Nat \ {0}
         /\ Join[Code[s.pc].bytes] \in [[1 .. Code[s.pc].bytes -> Octet] -> Value]
         /\ Part[Code[s.pc].bytes] \in [Value -> [1 .. Code[s.pc].bytes -> Octet]]
<1>1. WellFormed(s.pc) BY CodeAssumption, InputsOK
<1>2. Code[s.pc].bytes \in Widths BY <1>1 DEF WellFormed
<1> QED BY <1>2, MachineAssumption

\* The bytes of an object as expressions, and as an input has them.
LEMMA BytesInOK ==
  ASSUME NEW o, SymbolicObjectOK(o), NEW b \in Nat, NEW e \in Expression, NEW n \in Nat
  PROVE  /\ \A a \in Assignment : BytesIn(o, b, e, n)[a] \in [1 .. n -> Octet]
         /\ \A a \in Assignment : Fits(o, b, e[a], n)
              => BytesIn(o, b, e, n)[a] = BytesAt(ObjectOf(o, a), e[a] - b, n)
<1>1. o.bytes \in [0 .. o.size - 1 -> [Assignment -> Octet]] /\ o.size \in 0 .. Unsigned - 1
  BY DEF SymbolicObjectOK
<1>2. Junk \in Octet /\ Unsigned \in Nat BY MachineAssumption
<1>3. \A a \in Assignment : e[a] \in Nat BY SmallValues DEF Expression
<1>4. ASSUME NEW a \in Assignment PROVE BytesIn(o, b, e, n)[a] \in [1 .. n -> Octet]
  <2>1. BytesIn(o, b, e, n)[a]
          = [j \in 1 .. n |-> IF e[a] - b + j - 1 \in DOMAIN o.bytes THEN o.bytes[e[a] - b + j - 1][a] ELSE Junk]
    BY DEF BytesIn
  <2>2. \A i \in DOMAIN o.bytes : o.bytes[i][a] \in Octet BY <1>1
  <2> QED BY <1>2, <2>1, <2>2
<1>5. ASSUME NEW a \in Assignment, Fits(o, b, e[a], n)
      PROVE  BytesIn(o, b, e, n)[a] = BytesAt(ObjectOf(o, a), e[a] - b, n)
  <2> DEFINE i == e[a] - b
  <2>1. BytesIn(o, b, e, n)[a]
          = [j \in 1 .. n |-> IF i + j - 1 \in DOMAIN o.bytes THEN o.bytes[i + j - 1][a] ELSE Junk]
    BY DEF BytesIn
  <2>2. \A j \in 1 .. n : i + j - 1 \in DOMAIN o.bytes BY <1>1, <1>2, <1>3, <1>5 DEF Fits
  <2>3. ObjectOf(o, a).bytes = [q \in DOMAIN o.bytes |-> o.bytes[q][a]] BY ObjectFields
  <2>4. BytesAt(ObjectOf(o, a), i, n) = [j \in 1 .. n |-> ObjectOf(o, a).bytes[i + j - 1]] BY DEF BytesAt
  <2> HIDE DEF i
  <2>3a. \A q \in DOMAIN o.bytes : ObjectOf(o, a).bytes[q] = o.bytes[q][a] BY <2>3
  <2>5. \A j \in 1 .. n : ObjectOf(o, a).bytes[i + j - 1] = o.bytes[i + j - 1][a] BY <2>2, <2>3a
  <2>6. \A j \in 1 .. n : (IF i + j - 1 \in DOMAIN o.bytes THEN o.bytes[i + j - 1][a] ELSE Junk)
                            = ObjectOf(o, a).bytes[i + j - 1]
    BY <2>2, <2>5
  <2> QED BY Zenon, <2>1, <2>4, <2>6 DEF i
<1> QED BY <1>4, <1>5

\* A store into an object's expressions is the store of each input.
LEMMA StoredInOK ==
  ASSUME NEW o, SymbolicObjectOK(o), NEW b \in Nat, NEW e \in Expression, NEW n \in Nat,
         Part[n] \in [Value -> [1 .. n -> Octet]], NEW v \in Expression
  PROVE  /\ SymbolicObjectOK(StoredIn(o, b, e, n, v)) /\ StoredIn(o, b, e, n, v).size = o.size
         /\ \A a \in Assignment :
              ObjectOf(StoredIn(o, b, e, n, v), a) = Stored(ObjectOf(o, a), e[a] - b, n, v[a])
<1> DEFINE B(j, a) == IF j - (e[a] - b) \in 0 .. n - 1 THEN Part[n][v[a]][j - (e[a] - b) + 1] ELSE o.bytes[j][a]
           X == [j \in DOMAIN o.bytes |-> [a \in Assignment |-> B(j, a)]]
           u == StoredIn(o, b, e, n, v)
<1>1. o.bytes \in [0 .. o.size - 1 -> [Assignment -> Octet]] /\ o.size \in 0 .. Unsigned - 1 /\ o.kind \in Kind
  BY DEF SymbolicObjectOK
<1>2. \A a \in Assignment : e[a] \in Nat /\ v[a] \in Value BY SmallValues DEF Expression
<1>3. Unsigned \in Nat BY MachineAssumption
<1>4. ASSUME NEW j \in DOMAIN o.bytes, NEW a \in Assignment PROVE B(j, a) \in Octet
  <2>1. CASE j - (e[a] - b) \in 0 .. n - 1
    <3>1. j - (e[a] - b) + 1 \in 1 .. n BY <1>1, <1>2, <1>3, <2>1
    <3>2. Part[n][v[a]] \in [1 .. n -> Octet] BY <1>2
    <3> QED BY <2>1, <3>1, <3>2
  <2>2. CASE j - (e[a] - b) \notin 0 .. n - 1 BY <1>1, <2>2
  <2> QED BY <2>1, <2>2
<1>5. u = [o EXCEPT !.bytes = X] BY Zenon DEF StoredIn
<1>6. \A j \in DOMAIN o.bytes, a \in Assignment : X[j][a] = B(j, a) OBVIOUS
<1>7. DOMAIN X = DOMAIN o.bytes OBVIOUS
<1>8. X = [j \in DOMAIN o.bytes |-> X[j]] /\ \A j \in DOMAIN o.bytes : X[j] = [a \in Assignment |-> X[j][a]]
  OBVIOUS
<1>9. ASSUME NEW a \in Assignment, NEW j \in DOMAIN o.bytes
      PROVE  B(j, a) = IF j - (e[a] - b) \in 0 .. n - 1 THEN Part[n][v[a]][j - (e[a] - b) + 1] ELSE o.bytes[j][a]
  OBVIOUS
<1> HIDE DEF X, B
<1>10. X \in [0 .. o.size - 1 -> [Assignment -> Octet]]
  <2>1. \A j \in DOMAIN o.bytes : X[j] \in [Assignment -> Octet]
    <3> TAKE j \in DOMAIN o.bytes
    <3>1. \A a \in Assignment : X[j][a] \in Octet BY <1>4, <1>6
    <3>2. X[j] = [a \in Assignment |-> X[j][a]] BY <1>8
    <3> QED BY <3>1, <3>2
  <2>2. DOMAIN o.bytes = 0 .. o.size - 1 BY <1>1
  <2> QED BY <1>8, <2>1, <2>2
<1>11. u = [size |-> o.size, kind |-> o.kind, bytes |-> X] BY <1>5 DEF SymbolicObjectOK
<1> HIDE DEF u
<1>12. SymbolicObjectOK(u) /\ u.size = o.size BY <1>1, <1>10, <1>11, ObjectIs
<1>13. ASSUME NEW a \in Assignment PROVE ObjectOf(u, a) = Stored(ObjectOf(o, a), e[a] - b, n, v[a])
  <2> DEFINE i == e[a] - b
             c == ObjectOf(o, a)
             Y == [j \in DOMAIN c.bytes |-> IF j - i \in 0 .. n - 1 THEN Part[n][v[a]][j - i + 1] ELSE c.bytes[j]]
             Z == [j \in DOMAIN X |-> X[j][a]]
  <2>1. c = [size |-> o.size, kind |-> o.kind, bytes |-> [j \in DOMAIN o.bytes |-> o.bytes[j][a]]]
        /\ c.bytes = [j \in DOMAIN o.bytes |-> o.bytes[j][a]]
    BY ObjectFields
  <2>2. Stored(c, i, n, v[a]) = [c EXCEPT !.bytes = Y] BY Zenon DEF Stored
  <2>3. ObjectOf(u, a) = [size |-> o.size, kind |-> o.kind, bytes |-> Z]
    BY <1>11, <1>12, ObjectFields
  <2>4. Y = Z
    <3>1. DOMAIN c.bytes = DOMAIN o.bytes /\ \A j \in DOMAIN o.bytes : c.bytes[j] = o.bytes[j][a] BY <2>1
    <3> HIDE DEF c
    <3> QED BY <1>6, <1>7, <1>9, <3>1
  <2> HIDE DEF Y, Z
  <2>5. [c EXCEPT !.bytes = Y] = [size |-> o.size, kind |-> o.kind, bytes |-> Y] BY <2>1
  <2> HIDE DEF c
  <2> QED BY <2>2, <2>3, <2>4, <2>5 DEF c
<1> QED BY <1>12, <1>13 DEF u

\* An access keeps the inputs.
LEMMA AtInputs ==
  ASSUME NEW t, StateShape(t), NEW k, NEW e, NEW b
  PROVE  At(t, k, e, b).inputs = t.inputs
<1>1. \A x : Result(t, x).inputs = t.inputs BY ShapeInputs
<1>2. \A M : Advance([t EXCEPT !.mem = M]).inputs = t.inputs
  <2> TAKE M
  <2>1. [t EXCEPT !.mem = M].inputs = t.inputs /\ StateShape([t EXCEPT !.mem = M]) BY ShapeInputs
  <2> QED BY <2>1, ShapeInputs
<1>3. \A why : Fail(t, why).inputs = t.inputs BY FailFields
<1> QED BY <1>1, <1>2, <1>3 DEF At

\* The access to the object at b that every input of t fits.
LEMMA AtOK ==
  ASSUME NEW t, StateOK(t), NEW k, k = Code[t.pc], k.op \in {"load", "store"},
         NEW e \in Expression, \A a \in t.inputs : Eval(View(t, a), k.address) = e[a], NEW b \in DOMAIN t.mem,
         \A a \in t.inputs : Fits(t.mem[b], b, e[a], k.bytes)
  PROVE  /\ At(t, k, e, b).end = Running => StateOK(At(t, k, e, b))
         /\ \A a \in t.inputs : Accesses(View(t, a), k, View(At(t, k, e, b), a))
<1> DEFINE n == k.bytes
           o == t.mem[b]
           p == At(t, k, e, b)
<1>1. n \in Nat \ {0} /\ Join[n] \in [[1 .. n -> Octet] -> Value] /\ Part[n] \in [Value -> [1 .. n -> Octet]]
  BY WidthOK
<1>3. e \in Expression /\ \A a \in t.inputs : Eval(View(t, a), k.address) = e[a] /\ a \in Assignment
  BY InputsOK
<1>4. MemoryOK(t.mem) BY DEF StateOK
<1>5. SymbolicObjectOK(o) /\ b \in Nat /\ b \in Value \ {0} /\ b + o.size =< Word
  BY <1>4, MemoryNumbers DEF MemoryOK
<1>6. \A a \in t.inputs : /\ b \in DOMAIN View(t, a).mem
                          /\ View(t, a).mem[b] = ObjectOf(o, a) /\ View(t, a).mem[b].kind = o.kind
                          /\ Fits(View(t, a).mem[b], b, e[a], n)
  <2> TAKE a \in t.inputs
  <2>1. SameObjects(View(t, a).mem, t.mem, a) BY ViewObjects
  <2>2. b \in DOMAIN View(t, a).mem /\ View(t, a).mem[b] = ObjectOf(o, a) /\ View(t, a).mem[b].kind = o.kind
    BY <2>1 DEF SameObjects
  <2>3. \A q, m : Fits(View(t, a).mem[b], b, q, m) <=> Fits(o, b, q, m) BY <2>1 DEF SameObjects
  <2>4. Fits(o, b, e[a], n) OBVIOUS
  <2> QED BY <2>2, <2>3, <2>4
<1>6a. \A a \in t.inputs : Fits(o, b, e[a], n) OBVIOUS
<1>7. CASE k.op = "load"
  <2> DEFINE B == BytesIn(o, b, e, n)
             v == [a \in Assignment |-> Join[n][B[a]]]
  <2>1. p = Result(t, v) BY <1>7 DEF At
  <2> HIDE DEF o
  <2>2. /\ \A a \in Assignment : B[a] \in [1 .. n -> Octet]
        /\ \A a \in t.inputs : B[a] = BytesAt(ObjectOf(o, a), e[a] - b, n)
    <3> HIDE DEF n
    <3>0. n \in Nat BY <1>1
    <3>1. /\ \A a \in Assignment : BytesIn(o, b, e, n)[a] \in [1 .. n -> Octet]
          /\ \A a \in Assignment : Fits(o, b, e[a], n)
               => BytesIn(o, b, e, n)[a] = BytesAt(ObjectOf(o, a), e[a] - b, n)
      <4>1. SymbolicObjectOK(o) BY <1>5
      <4>2. b \in Nat BY <1>5
      <4>3. e \in Expression OBVIOUS
      <4> QED BY <4>1, <4>2, <4>3, <3>0, BytesInOK
    <3> QED BY <1>3, <1>6a, <3>1
  <2> HIDE DEF B
  <2>3. v \in Expression BY <1>1, <2>2 DEF Expression
  <2>4. \A a \in t.inputs : v[a] = Join[n][BytesAt(ObjectOf(o, a), e[a] - b, n)] BY <1>3, <2>2
  <2> HIDE DEF v, p
  <2>5. StateOK(p) /\ \A a \in Assignment : View(p, a) = Yields(View(t, a), v[a])
    BY <1>7, <2>1, <2>3, YieldOK DEF Leaving, Invokes
  <2>6. \A a \in t.inputs : Accesses(View(t, a), k, View(p, a))
    <3> TAKE a \in t.inputs
    <3> DEFINE c == View(t, a)
    <3>1. b \in DOMAIN c.mem /\ Fits(c.mem[b], b, Eval(c, k.address), n) BY <1>3, <1>6
    <3>2. View(p, a) = Yields(c, Join[n][BytesAt(c.mem[b], Eval(c, k.address) - b, n)])
      BY <1>3, <1>6, <2>4, <2>5
    <3> HIDE DEF c
    <3>3. Accesses(c, k, View(p, a)) BY <1>7, <3>1, <3>2 DEF Accesses
    <3> QED BY <3>3 DEF c
  <2> QED BY <2>5, <2>6 DEF p
<1>8. CASE k.op = "store" /\ o.kind = "readonly"
  <2>1. p = Fail(t, "readonly") BY <1>8 DEF At
  <2>2. p.end # Running /\ \A a : View(p, a) = Ended("readonly") BY <2>1, FailFields DEF Running
  <2> HIDE DEF p
  <2>3. \A a \in t.inputs : Accesses(View(t, a), k, View(p, a))
    <3> TAKE a \in t.inputs
    <3> DEFINE c == View(t, a)
    <3>1. b \in DOMAIN c.mem /\ Fits(c.mem[b], b, Eval(c, k.address), n) /\ c.mem[b].kind = "readonly"
      BY <1>3, <1>6, <1>8
    <3> HIDE DEF c
    <3>3. Accesses(c, k, View(p, a)) BY <1>8, <2>2, <3>1 DEF Accesses
    <3> QED BY <3>3 DEF c
  <2> QED BY <2>2, <2>3 DEF p
<1>9. CASE k.op = "store" /\ o.kind # "readonly"
  <2> DEFINE v == EvalIn(t, k.value)
             u == StoredIn(o, b, e, n, v)
             M == With(t.mem, b, u)
             q == [t EXCEPT !.mem = M]
  <2>1. p = Advance(q) BY <1>9 DEF At
  <2>2. k.value \in Operands(k) BY <1>9 DEF Operands
  <2>3. v \in Expression /\ \A a \in t.inputs : Eval(View(t, a), k.value) = v[a]
    BY <2>2, OperandOK, InputsOK
  <2>4. /\ SymbolicObjectOK(u) /\ u.size = o.size
        /\ \A a \in t.inputs : ObjectOf(u, a) = Stored(ObjectOf(o, a), e[a] - b, n, v[a])
    <3> HIDE DEF o, v, n
    <3>0. n \in Nat BY <1>1
    <3>1. /\ SymbolicObjectOK(StoredIn(o, b, e, n, v)) /\ StoredIn(o, b, e, n, v).size = o.size
          /\ \A a \in Assignment :
              ObjectOf(StoredIn(o, b, e, n, v), a) = Stored(ObjectOf(o, a), e[a] - b, n, v[a])
      <4>1. SymbolicObjectOK(o) BY <1>5
      <4>2. b \in Nat BY <1>5
      <4>3. v \in Expression BY <2>3
      <4>4. Part[n] \in [Value -> [1 .. n -> Octet]] BY <1>1
      <4> QED BY <4>1, <4>2, <4>3, <4>4, <3>0, StoredInOK
    <3> QED BY <1>3, <3>1
  <2> HIDE DEF u, v
  <2>5. \A r \in DOMAIN t.mem \ {b} : (r < b => r + t.mem[r].size =< b) /\ (b < r => b + u.size =< r)
    BY <1>4, <2>4 DEF MemoryOK, Apart
  <2>6. MemoryOK(M) /\ \A a : MemoryOf(M, a) = With(MemoryOf(t.mem, a), b, ObjectOf(u, a))
    BY <1>4, <1>5, <2>4, <2>5, MemoryWith
  <2> HIDE DEF M
  <2>7. StateOK(q) /\ q.pc = t.pc /\ \A a : View(q, a) = [View(t, a) EXCEPT !.mem = MemoryOf(M, a)]
    BY <2>6, MemoryChangeOK
  <2> HIDE DEF q, p
  <2>8. StateOK(p) /\ \A a : View(p, a) = Proceeds(View(q, a))
    BY <1>9, <2>1, <2>7, ProceedOK DEF Leaving, Invokes
  <2>9. \A a \in t.inputs : Accesses(View(t, a), k, View(p, a))
    <3> TAKE a \in t.inputs
    <3> DEFINE c == View(t, a)
               N == With(c.mem, b, Stored(c.mem[b], Eval(c, k.address) - b, n, Eval(c, k.value)))
    <3>1. b \in DOMAIN c.mem /\ Fits(c.mem[b], b, Eval(c, k.address), n) /\ c.mem[b].kind # "readonly"
      BY <1>3, <1>6, <1>9
    <3>2. c.mem = MemoryOf(t.mem, a) BY ViewFields
    <3>3. MemoryOf(M, a) = N BY <1>3, <1>6, <2>3, <2>4, <2>6, <3>2
    <3>4. View(p, a) = Proceeds([c EXCEPT !.mem = N]) BY <2>7, <2>8, <3>3
    <3>5. View(p, a) = Proceeds([c EXCEPT !.mem =
                        With(c.mem, b, Stored(c.mem[b], Eval(c, k.address) - b, k.bytes, Eval(c, k.value)))])
      BY <3>4
    <3> HIDE DEF c, N
    <3>6. Accesses(c, k, View(p, a)) BY <1>9, <3>1, <3>5 DEF Accesses
    <3> QED BY <3>6 DEF c
  <2> QED BY <2>8, <2>9 DEF p
<1> QED BY <1>7, <1>8, <1>9

\* A state that keeps only some inputs, where the others may be given up.
LEMMA GoodNarrower ==
  ASSUME NEW s, NEW t, Narrows(s, t), NEW P, Good(t, P),
         \A a \in s.inputs \ t.inputs : Moves(s, a, Ended(Early))
  PROVE  Good(s, P)
<1>1. \A p \in P : PieceOK(s, p) BY MovesWider DEF Good, PieceOK, Narrows
<1>2. \A a \in s.inputs : Held(P, a) \/ Moves(s, a, Ended(Early)) BY MovesWider DEF Good
<1> QED BY <1>1, <1>2 DEF Good

\* executeMemoryOperation: every input accesses the object it fits, and an error is
\* reported for the inputs that fit none.
LEMMA AccessedGood ==
  ASSUME NEW s, StateOK(s), NEW k, k = Code[s.pc], k.op \in {"load", "store"},
         NEW e, e = EvalIn(s, k.address), NEW x \in Examples(s, e)
  PROVE  Good(s, Accessed(s, k, e, x))
<1> DEFINE n == k.bytes
           R == Resolved(s, e, x)
           F(b) == FitIn(s, e, b, n)
           whole == {b \in Nearest(s, e, x) : F(b) = s.inputs}
           t(b) == On(s, F(b))
           p(b) == At(t(b), k, e, b)
           rest == s.inputs \ UNION {F(b) : b \in R}
           lost == Fail(On(s, rest), "ptr")
           Q == {p(b) : b \in R} \union {lost}
<1>1. k.address \in Operands(k) BY DEF Operands
<1>2. e \in Expression /\ \A a \in s.inputs : Eval(View(s, a), k.address) = e[a] /\ a \in Assignment /\ e[a] \in Nat
  <2>1. /\ e \in Expression
        /\ \A a \in Assignment : Eval(View(s, a), k.address) = e[a] /\ e[a] \in Value
    BY <1>1, OperandOK
  <2>2. s.inputs \subseteq Assignment BY InputsOK
  <2>3. Value \subseteq Nat BY SmallValues
  <2> QED BY Zenon, <2>1, <2>2, <2>3
<1>3. n \in Nat \ {0} BY WidthOK
<1>4. /\ R \subseteq DOMAIN s.mem
      /\ \A a \in s.inputs, b \in DOMAIN s.mem : Covers(s.mem[b], b, e[a]) => b \in R
  BY <1>2, ResolutionComplete, StatePartOK
<1>5. MemoryOK(s.mem) BY DEF StateOK
<1>6. \A b, a : a \in F(b) <=> a \in s.inputs /\ Fits(s.mem[b], b, e[a], n) BY DEF FitIn
<1>7. \A b : F(b) \subseteq s.inputs BY <1>6
<1>8. \A b, c \in DOMAIN s.mem : b # c => F(b) \intersect F(c) = {}
  <2> SUFFICES ASSUME NEW b \in DOMAIN s.mem, NEW c \in DOMAIN s.mem, NEW a, a \in F(b), a \in F(c)
               PROVE  b = c
    OBVIOUS
  <2>1. e[a] \in Nat /\ Fits(s.mem[b], b, e[a], n) /\ Fits(s.mem[c], c, e[a], n) BY <1>2, <1>6
  <2>2. Covers(s.mem[b], b, e[a]) /\ Covers(s.mem[c], c, e[a]) BY <1>3, <1>5, <2>1, FitsCovers
  <2> QED BY <1>5, <2>1, <2>2, CoverUnique
<1>9. Nearest(s, e, x) \subseteq DOMAIN s.mem BY DEF Nearest, Hits, Back, Forth
<1>10. Proper(s) BY DEF Proper, Void
<1>11. CASE whole # {}
  <2>1. PICK b \in whole : TRUE BY <1>11
  <2>2. b \in DOMAIN s.mem /\ F(b) = s.inputs BY <1>9, <2>1
  <2>3. \A c \in whole : c = b
    <3> TAKE c \in whole
    <3>1. c \in DOMAIN s.mem /\ F(c) = s.inputs BY <1>9
    <3> HIDE DEF whole, F
    <3> QED BY <1>8, <2>2, <3>1, InputsOK
  <2>4. Accessed(s, k, e, x) = {At(s, k, e, c) : c \in whole} BY <1>11 DEF Accessed
  <2>5. Accessed(s, k, e, x) = {At(s, k, e, b)} BY <2>1, <2>3, <2>4
  <2>6. \A a \in s.inputs : Fits(s.mem[b], b, e[a], n) BY <1>6, <2>2
  <2>7. /\ At(s, k, e, b).end = Running => StateOK(At(s, k, e, b))
        /\ \A a \in s.inputs : Accesses(View(s, a), k, View(At(s, k, e, b), a))
    BY <1>2, <2>2, <2>6, AtOK
  <2>8. At(s, k, e, b).inputs = s.inputs BY AtInputs, ViewShape
  <2>9. \A a \in s.inputs : Moves(s, a, View(At(s, k, e, b), a))
    BY <1>10, <2>7, StepIntro DEF Moves, Proper
  <2> QED BY <2>5, <2>7, <2>8, <2>9, GoodOne, InputsOK
<1>12. CASE whole = {}
  <2>1. Accessed(s, k, e, x) = Feasible(Q) BY <1>12 DEF Accessed
  <2> HIDE DEF R, F
  <2>2. ASSUME NEW b \in R PROVE Piece(s, F(b), p(b))
    <3>1. p(b).inputs = F(b) BY AtInputs, OnShape
    <3>2. ASSUME F(b) # {}
          PROVE  /\ p(b).end = Running => StateOK(p(b))
                 /\ \A a \in F(b) : Moves(s, a, View(p(b), a))
      <4>1. Narrows(s, t(b)) /\ t(b).inputs = F(b) /\ t(b).pc = s.pc /\ t(b).mem = s.mem /\ t(b).regs = s.regs
        BY <1>7, <3>2, OnNarrows, OnOK
      <4>2. StateOK(t(b)) BY <4>1 DEF Narrows
      <4>3. e \in Expression /\ \A a \in t(b).inputs : Eval(View(t(b), a), k.address) = e[a]
        BY <1>2, <1>7, <4>1 DEF Narrows
      <4>4. \A a \in t(b).inputs : Fits(t(b).mem[b], b, e[a], n) BY <1>6, <4>1
      <4>5. /\ p(b).end = Running => StateOK(p(b))
            /\ \A a \in t(b).inputs : Accesses(View(t(b), a), k, View(p(b), a))
        <5>1. k = Code[t(b).pc] /\ b \in DOMAIN t(b).mem BY <1>4, <4>1
        <5> HIDE DEF t
        <5> QED BY <4>2, <4>3, <4>4, <5>1, AtOK
      <4>6. \A a \in F(b) : Accesses(View(s, a), k, View(p(b), a)) BY <4>1, <4>5 DEF Narrows
      <4> HIDE DEF p
      <4> QED BY <1>10, <4>5, <4>6, StepIntro DEF Moves, Proper
    <3> QED BY <3>1, <3>2 DEF Piece
  <2>3. ASSUME NEW a \in rest PROVE Moves(s, a, Ended("ptr"))
    <3>1. a \in s.inputs BY <2>3
    <3>2. ASSUME NEW b \in DOMAIN s.mem, Fits(s.mem[b], b, e[a], n) PROVE FALSE
      <4>1. Covers(s.mem[b], b, e[a]) BY <1>2, <1>3, <1>5, <3>1, <3>2, FitsCovers
      <4>2. b \in R /\ a \in F(b) BY <1>4, <1>6, <3>1, <3>2, <4>1
      <4> QED BY <2>3, <4>2
    <3>3. \A b \in DOMAIN View(s, a).mem : ~Fits(View(s, a).mem[b], b, Eval(View(s, a), k.address), n)
      <4>1. SameObjects(View(s, a).mem, s.mem, a) BY ViewObjects
      <4>2. DOMAIN View(s, a).mem = DOMAIN s.mem BY <4>1 DEF SameObjects
      <4>3. \A b \in DOMAIN s.mem : \A q, m : Fits(View(s, a).mem[b], b, q, m) <=> Fits(s.mem[b], b, q, m)
        BY <4>1 DEF SameObjects
      <4> QED BY <1>2, <3>1, <3>2, <4>2, <4>3
    <3>4. Accesses(View(s, a), k, Ended("ptr")) BY <3>3 DEF Accesses
    <3> QED BY <1>10, <3>4, StepIntro DEF Moves, Proper
  <2>4. Piece(s, rest, lost) BY <2>3, FailPiece DEF Running
  <2>5. rest \subseteq s.inputs /\ \A b \in R : rest \intersect F(b) = {} OBVIOUS
  <2>6. \A a \in s.inputs : a \in rest \/ \E b \in R : a \in F(b) OBVIOUS
  <2> HIDE DEF p, lost, rest
  <2>7. lost.inputs = rest /\ \A b \in R : p(b).inputs = F(b) BY <2>2, <2>4 DEF Piece
  <2>8. Disjoint(Q) BY <1>4, <1>8, <2>5, <2>7 DEF Disjoint
  <2>9. \A q \in Q : q.inputs \subseteq s.inputs /\ Piece(s, q.inputs, q) BY <1>7, <2>2, <2>4, <2>5, <2>7
  <2>10. \A a \in s.inputs : Held(Q, a) BY <2>6, <2>7 DEF Held
  <2> HIDE DEF Q
  <2>11. Good(s, Feasible(Q)) BY <2>8, <2>9, <2>10, GoodPieces
  <2> QED BY <2>1, <2>11
<1> QED BY <1>11, <1>12

\* A load or a store, also when a timeout concretized the address.
LEMMA AccessGood ==
  ASSUME NEW s, StateOK(s), Code[s.pc].op \in {"load", "store"}, NEW P \in Access(s, Code[s.pc])
  PROVE  Good(s, P)
<1> DEFINE k == Code[s.pc]
           e == EvalIn(s, k.address)
<1>1. PICK t \in {s} \union IF limited THEN Concretized(s, {e}) ELSE {} :
        \E x \in Examples(t, e) : P \in Kept(t, Accessed(t, k, e, x))
  BY DEF Access
<1>2. PICK x \in Examples(t, e) : P \in Kept(t, Accessed(t, k, e, x)) BY <1>1
<1>3. Narrows(s, t) /\ t.pc = s.pc /\ t.regs = s.regs /\ (t = s \/ limited)
  <2>1. CASE t = s BY <2>1 DEF Narrows
  <2>2. CASE limited /\ t \in Concretized(s, {e})
    <3>1. PICK y \in s.inputs : t = On(s, {a \in s.inputs : e[a] = e[y]})
      BY <2>2 DEF Concretized
    <3> DEFINE I == {a \in s.inputs : e[a] = e[y]}
    <3>2. I \subseteq s.inputs /\ I # {} OBVIOUS
    <3> HIDE DEF I, e
    <3> QED BY <2>2, <3>1, <3>2, OnNarrows, OnOK DEF I
  <2> QED BY <1>1, <2>1, <2>2
<1>4. StateOK(t) /\ e = EvalIn(t, k.address) BY <1>3 DEF Narrows, EvalIn
<1>5. Good(t, Accessed(t, k, e, x)) BY <1>2, <1>3, <1>4, AccessedGood
<1>6. Good(t, P) BY <1>2, <1>5, GoodKept
<1>7. \A a \in s.inputs \ t.inputs : Moves(s, a, Ended(Early)) BY <1>3 DEF Moves
<1> QED BY <1>3, <1>6, <1>7, GoodNarrower

(* The instructions that need the base of an object.                               *)

\* The last constraints count.
LEMMA OnOn ==
  ASSUME NEW s, StateOK(s), NEW I, NEW J
  PROVE  On(On(s, I), J) = On(s, J)
<1>1. \A X : On(s, X) = StateOf(X, s.pc, s.from, s.regs, s.locals, s.callers, s.mem, s.forking, s.made)
  BY Zenon, ViewShape, StateUpdates DEF On
<1>2. StateShape(On(s, I)) BY OnShape
<1>3. On(On(s, I), J) = StateOf(J, On(s, I).pc, On(s, I).from, On(s, I).regs, On(s, I).locals, On(s, I).callers,
                               On(s, I).mem, On(s, I).forking, On(s, I).made)
  BY Zenon, <1>2, StateUpdates DEF On
<1>4. /\ On(s, I).pc = s.pc /\ On(s, I).from = s.from /\ On(s, I).regs = s.regs /\ On(s, I).locals = s.locals
      /\ On(s, I).callers = s.callers /\ On(s, I).mem = s.mem /\ On(s, I).forking = s.forking
      /\ On(s, I).made = s.made
  BY <1>1, StateFields
<1> QED BY <1>1, <1>3, <1>4

\* A condition on a constrained state.
LEMMA WhereOn ==
  ASSUME NEW s, StateOK(s), NEW I, NEW e, NEW V
  PROVE  Where(On(s, I), e, V) = On(s, {a \in I : e[a] \in V})
<1>1. On(s, I).inputs = I BY OnShape
<1> QED BY <1>1, OnOn DEF Where

\* A piece of s whose inputs all have the base of one object in e, or none does.
AtOneBase(s, e, p) ==
  /\ Narrows(s, p) /\ p.end = Running /\ p.pc = s.pc /\ p.mem = s.mem /\ p.made = s.made
  /\ The(p, e) \in DOMAIN s.mem /\ \A a \in p.inputs : e[a] = The(p, e)
AtNoBase(s, e, p) ==
  /\ p.end = "ptr" /\ p.end # Running
  /\ \A a \in p.inputs : e[a] \notin DOMAIN s.mem /\ View(p, a) = Ended("ptr")

\* resolveExact sends each input to the object its pointer is the base of, the others
\* to an error.
LEMMA ExactlyOK ==
  ASSUME NEW s, StateOK(s), NEW I, I \subseteq s.inputs, NEW e \in Expression, NEW x \in Examples(On(s, I), e)
  PROVE  LET K == Exactly(On(s, I), e, x) IN
         /\ \A p \in K : /\ p.inputs \subseteq I /\ p.inputs # {}
                         /\ AtOneBase(s, e, p) \/ AtNoBase(s, e, p)
         /\ Disjoint(K) /\ \A a \in I : Held(K, a)
<1> DEFINE t == On(s, I)
           R == Resolved(t, e, x)
           J(b) == {a \in I : e[a] = b}
           p(b) == On(s, J(b))
           N == {a \in I : e[a] \notin R}
           lost == Fail(On(s, N), "ptr")
           Q == {p(b) : b \in R} \union {lost}
           K == Exactly(t, e, x)
<1>1. K = Feasible(Q)
  <2>1. \A b : AtBase(t, e, b) = p(b)
    <3> TAKE b
    <3>1. AtBase(t, e, b) = On(s, {a \in I : e[a] \in {b}}) BY WhereOn DEF AtBase
    <3>2. J(b) = {a \in I : e[a] \in {b}} OBVIOUS
    <3> QED BY <3>1, <3>2
  <2>2. Where(t, e, Value \ R) = On(s, {a \in I : e[a] \in Value \ R}) BY WhereOn
  <2>3. {a \in I : e[a] \in Value \ R} = N BY InputsOK DEF Expression
  <2> HIDE DEF t, N, p, R
  <2>4. Exactly(t, e, x) = Feasible({AtBase(t, e, b) : b \in R} \union {Fail(Where(t, e, Value \ R), "ptr")})
    BY DEF Exactly, R
  <2>5. {AtBase(t, e, b) : b \in R} = {p(b) : b \in R} BY <2>1
  <2> QED BY <2>2, <2>3, <2>4, <2>5
<1>2. /\ R \subseteq DOMAIN s.mem
      /\ \A a \in I, b \in DOMAIN s.mem : Covers(s.mem[b], b, e[a]) => b \in R
  <2>1. PartOK(t) /\ t.inputs = I /\ t.mem = s.mem /\ x \in Examples(t, e) BY StatePartOK, OnShape
  <2> HIDE DEF t
  <2> QED BY <2>1, ResolutionComplete
<1>3. \A a \in N : e[a] \notin DOMAIN s.mem
  <2> SUFFICES ASSUME NEW a \in N, e[a] \in DOMAIN s.mem PROVE FALSE OBVIOUS
  <2>1. Covers(s.mem[e[a]], e[a], e[a]) BY BaseCovers DEF StateOK
  <2> QED BY <1>2, <2>1
<1>4. (\A b : J(b) \subseteq I) /\ N \subseteq I OBVIOUS
<1>5. \A b \in R : p(b).inputs = J(b) BY OnShape
<1>6. lost.inputs = N /\ lost.end = "ptr" /\ lost.end # Running /\ \A a : View(lost, a) = Ended("ptr")
  BY OnShape, FailFields DEF Running
<1>7. \A a \in I : a \in N \/ \E b \in R : a \in J(b) OBVIOUS
<1>8. \A b, c : b # c => J(b) \intersect J(c) = {} OBVIOUS
<1>9. \A b \in R : N \intersect J(b) = {} OBVIOUS
<1> HIDE DEF R, N, lost
<1>10. ASSUME NEW q \in K PROVE q.inputs \subseteq I /\ q.inputs # {} /\ (AtOneBase(s, e, q) \/ AtNoBase(s, e, q))
  <2>1. q \in Q /\ q.inputs # {} BY <1>1 DEF Feasible
  <2>2. CASE q = lost BY <1>3, <1>4, <1>6, <2>1, <2>2 DEF AtNoBase
  <2>3. CASE q # lost
    <3>1. PICK b \in R : q = p(b) BY <2>1, <2>3
    <3>2. q.inputs = J(b) /\ J(b) # {} /\ J(b) \subseteq s.inputs BY <1>4, <1>5, <2>1, <3>1
    <3>3. \A a \in J(b) : e[a] = b OBVIOUS
    <3> HIDE DEF J
    <3>4. Narrows(s, q) /\ q.pc = s.pc /\ q.mem = s.mem /\ q.made = s.made /\ q.end = Running
      BY <3>1, <3>2, OnNarrows, OnOK
    <3>5. The(q, e) = b
      <4>1. \E a \in q.inputs : The(q, e) = e[a] BY <3>2, TheOK
      <4> QED BY <3>2, <3>3, <4>1
    <3>6. AtOneBase(s, e, q) BY <1>2, <3>2, <3>3, <3>4, <3>5 DEF AtOneBase
    <3> QED BY <1>4, <3>2, <3>6
  <2> QED BY <2>2, <2>3
<1> HIDE DEF p
<1>11. Disjoint(Q)
  <2> HIDE DEF J
  <2> QED BY <1>5, <1>6, <1>8, <1>9 DEF Disjoint
<1>12. \A a \in I : Held(Q, a)
  <2> HIDE DEF J
  <2> QED BY <1>5, <1>6, <1>7 DEF Held
<1>13. Disjoint(K) /\ \A a \in I : Held(K, a)
  <2> HIDE DEF K, Q
  <2> QED BY <1>1, <1>11, <1>12 DEF Disjoint, Held, Feasible
<1> HIDE DEF K
<1> QED BY <1>10, <1>13 DEF K, t

\* A state has its own constraints.
LEMMA SelfOn ==
  ASSUME NEW s, StateOK(s)
  PROVE  On(s, s.inputs) = s
<1>1. On(s, s.inputs) = StateOf(s.inputs, s.pc, s.from, s.regs, s.locals, s.callers, s.mem, s.forking, s.made)
  BY Zenon, ViewShape, StateUpdates DEF On
<1> QED BY <1>1, StateForm

\* free of the base of an object.
LEMMA ReleaseOK ==
  ASSUME NEW t, StateOK(t), Code[t.pc].op \notin Leaving, ~Invokes(Code[t.pc]), NEW b \in DOMAIN t.mem
  PROVE  /\ Release(t, b).inputs = t.inputs
         /\ Release(t, b).end = Running => StateOK(Release(t, b))
         /\ \A a \in Assignment : Frees(View(t, a), b, View(Release(t, b), a))
<1>1. b # 0 BY MemoryNumbers DEF StateOK
<1>2. \A a : /\ b \in DOMAIN View(t, a).mem /\ View(t, a).mem[b].kind = t.mem[b].kind
             /\ View(t, a).mem = MemoryOf(t.mem, a)
  <2> TAKE a
  <2>1. SameObjects(View(t, a).mem, t.mem, a) BY ViewObjects
  <2> QED BY <2>1, ViewFields DEF SameObjects
<1> DEFINE p == Release(t, b)
<1>3. CASE t.mem[b].kind = "heap"
  <2> DEFINE M == Without(t.mem, {b})
             u == [t EXCEPT !.mem = M]
  <2>1. MemoryOK(M) /\ \A a : MemoryOf(M, a) = Without(MemoryOf(t.mem, a), {b}) BY MemoryWithout DEF StateOK
  <2>2. p = Result(u, Always(0)) BY <1>3 DEF Release
  <2> HIDE DEF M
  <2>3. StateOK(u) /\ u.inputs = t.inputs /\ u.pc = t.pc /\ \A a : View(u, a) = [View(t, a) EXCEPT !.mem = MemoryOf(M, a)]
    BY <2>1, MemoryChangeOK
  <2> HIDE DEF u, p
  <2>4. Always(0) \in Expression /\ \A a \in Assignment : Always(0)[a] = 0 BY AlwaysOK, SmallValues
  <2>5. StateOK(p) /\ p.inputs = t.inputs /\ \A a \in Assignment : View(p, a) = Yields(View(u, a), 0)
    BY <2>2, <2>3, <2>4, YieldOK
  <2>6. \A a \in Assignment : Frees(View(t, a), b, View(p, a))
    <3> TAKE a \in Assignment
    <3> DEFINE c == View(t, a)
    <3>1. b \in DOMAIN c.mem /\ c.mem[b].kind = "heap" /\ c.mem = MemoryOf(t.mem, a) BY <1>2, <1>3
    <3>2. View(p, a) = Yields([c EXCEPT !.mem = Without(c.mem, {b})], 0) BY <2>1, <2>3, <2>5, <3>1
    <3> HIDE DEF c
    <3>3. Frees(c, b, View(p, a)) BY <3>1, <3>2 DEF Frees
    <3> QED BY <3>3 DEF c
  <2> QED BY <2>5, <2>6 DEF p
<1>4. CASE t.mem[b].kind # "heap"
  <2>1. p = Fail(t, "free") BY <1>4 DEF Release
  <2>2. p.inputs = t.inputs /\ p.end # Running /\ \A a : View(p, a) = Ended("free") BY <2>1, FailFields DEF Running
  <2> HIDE DEF p
  <2>3. \A a : Frees(View(t, a), b, View(p, a)) BY <1>2, <1>4, <2>2 DEF Frees
  <2> QED BY <2>2, <2>3 DEF p
<1> QED BY <1>3, <1>4

\* executeFree.
LEMMA FreeGood ==
  ASSUME NEW s, StateOK(s), Code[s.pc].op \notin Leaving, ~Invokes(Code[s.pc]), NEW e \in Expression,
         \A a \in s.inputs : \A d : Frees(View(s, a), e[a], d) => Moves(s, a, d),
         NEW P \in Free(s, e)
  PROVE  Good(s, P)
<1> DEFINE I == {a \in s.inputs : e[a] \in Value \ {0}}
           Z == {a \in s.inputs : e[a] \in {0}}
           zero == Result(On(s, Z), Always(0))
           f(t) == IF t.end = Running THEN Release(t, The(t, e)) ELSE t
<1>1. PICK x \in Examples(On(s, I), e) :
        P \in Kept(s, Feasible({zero}) \union {f(t) : t \in Exactly(On(s, I), e, x)})
  BY DEF Free, Where
<1> DEFINE K == Exactly(On(s, I), e, x)
           Q == Feasible({zero}) \union {f(t) : t \in K}
<1>2. I \subseteq s.inputs /\ Z \subseteq s.inputs /\ I \intersect Z = {} OBVIOUS
<1>3. \A a \in s.inputs : a \in I \/ a \in Z BY InputsOK DEF Expression
<1>4. \A a \in Z : e[a] = 0 OBVIOUS
<1>5. \A a \in I : e[a] # 0 OBVIOUS
<1> HIDE DEF I, Z
<1>6. /\ \A p \in K : /\ p.inputs \subseteq I /\ p.inputs # {}
                      /\ AtOneBase(s, e, p) \/ AtNoBase(s, e, p)
      /\ Disjoint(K) /\ \A a \in I : Held(K, a)
  BY <1>2, ExactlyOK
<1>7. Piece(s, Z, zero)
  <2>1. Always(0) \in Expression /\ \A a \in s.inputs : Always(0)[a] = 0 BY AlwaysOK, SmallValues, InputsOK
  <2>2. \A a \in Z : Moves(s, a, Yields(View(s, a), 0)) BY <1>2, <1>4 DEF Frees
  <2> QED BY <1>2, <2>1, <2>2, ResultPiece
<1>8. ASSUME NEW t \in K PROVE PieceOK(s, f(t)) /\ f(t).inputs = t.inputs
  <2>1. CASE AtOneBase(s, e, t)
    <3> DEFINE b == The(t, e)
    <3>1. /\ StateOK(t) /\ t.pc = s.pc /\ t.mem = s.mem /\ b \in DOMAIN t.mem /\ t.end = Running
          /\ \A a \in t.inputs : e[a] = b /\ View(t, a) = View(s, a)
      BY <2>1 DEF AtOneBase, Narrows
    <3> HIDE DEF b
    <3>2. /\ Release(t, b).inputs = t.inputs
          /\ Release(t, b).end = Running => StateOK(Release(t, b))
          /\ \A a \in Assignment : Frees(View(t, a), b, View(Release(t, b), a))
      BY <3>1, ReleaseOK
    <3>3. f(t) = Release(t, b) BY <3>1 DEF b
    <3>4. \A a \in t.inputs : Moves(s, a, View(Release(t, b), a))
      BY <1>2, <1>6, <1>8, <3>1, <3>2, InputsOK
    <3> QED BY <1>2, <1>6, <1>8, <3>2, <3>3, <3>4 DEF PieceOK
  <2>2. CASE AtNoBase(s, e, t)
    <3>1. f(t) = t BY <2>2 DEF AtNoBase
    <3>2. \A a \in t.inputs : Moves(s, a, View(t, a))
      <4> TAKE a \in t.inputs
      <4>1. a \in s.inputs /\ e[a] # 0 /\ e[a] \notin DOMAIN s.mem /\ View(t, a) = Ended("ptr")
        BY <1>2, <1>5, <1>6, <1>8, <2>2 DEF AtNoBase
      <4>2. DOMAIN View(s, a).mem = DOMAIN s.mem BY ViewObjects DEF SameObjects
      <4>3. Frees(View(s, a), e[a], Ended("ptr")) BY <4>1, <4>2 DEF Frees
      <4> QED BY <4>1, <4>3
    <3> QED BY <1>2, <1>6, <1>8, <2>2, <3>1, <3>2 DEF PieceOK, AtNoBase
  <2> QED BY <1>6, <1>8, <2>1, <2>2
<1> HIDE DEF f, K, zero
<1>9. Good(s, Q)
  <2>1. \A p \in Feasible({zero}) : p = zero /\ Z # {} /\ p.inputs = Z /\ PieceOK(s, p)
    BY <1>2, <1>7 DEF Feasible, Piece, PieceOK
  <2>2. \A p \in Q : PieceOK(s, p) BY <1>8, <2>1
  <2>3. \A t \in K : f(t).inputs \intersect Z = {} BY <1>2, <1>6, <1>8
  <2>4. \A t, u \in K : f(t) # f(u) => f(t).inputs \intersect f(u).inputs = {} BY <1>6, <1>8 DEF Disjoint
  <2>5. Disjoint(Q)
    <3> SUFFICES ASSUME NEW p \in Q, NEW q \in Q, p # q PROVE p.inputs \intersect q.inputs = {}
      BY DEF Disjoint
    <3>1. CASE p \in Feasible({zero}) BY <2>1, <2>3, <3>1
    <3>2. CASE q \in Feasible({zero}) BY <2>1, <2>3, <3>2
    <3>3. CASE p \notin Feasible({zero}) /\ q \notin Feasible({zero}) BY <2>4, <3>3
    <3> QED BY <3>1, <3>2, <3>3
  <2>6. \A a \in s.inputs : Held(Q, a)
    <3> TAKE a \in s.inputs
    <3>1. CASE a \in I BY <1>6, <1>8, <3>1 DEF Held
    <3>2. CASE a \in Z
      <4>1. zero.inputs = Z BY <1>7 DEF Piece
      <4>2. zero \in Feasible({zero}) BY <3>2, <4>1 DEF Feasible
      <4> QED BY <3>2, <4>1, <4>2 DEF Held
    <3> QED BY <1>3, <3>1, <3>2
  <2> HIDE DEF Q
  <2> QED BY <2>2, <2>5, <2>6 DEF Good
<1>10. P \in Kept(s, Q) BY <1>1 DEF f, zero, K
<1> HIDE DEF Q
<1> QED BY <1>9, <1>10, GoodKept

(* Allocation.                                                                     *)

\* Room for an object is room on every input.
LEMMA FreshView ==
  ASSUME NEW t, StateOK(t), NEW a, NEW b, NEW n
  PROVE  Fresh(View(t, a).mem, b, n) <=> Fresh(t.mem, b, n)
<1>1. SameObjects(View(t, a).mem, t.mem, a) BY ViewObjects
<1>2. DOMAIN View(t, a).mem = DOMAIN t.mem /\ \A q \in DOMAIN t.mem : View(t, a).mem[q].size = t.mem[q].size
  BY <1>1 DEF SameObjects
<1> QED BY <1>2 DEF Fresh

\* The bytes of a new object, some of them copied from the object at old.
OldBytes(mem, old) == IF old \in DOMAIN mem THEN mem[old].bytes ELSE <<>>

\* The bytes of a new object, those realloc copies and the rest.
LEMMA BytesOK ==
  ASSUME NEW M, MemoryOK(M), NEW old, NEW n \in 0 .. Unsigned - 1, NEW fill \in Octet
  PROVE  LET B == Bytes(n, OldBytes(M, old), Always(fill)) IN
         /\ B \in [0 .. n - 1 -> [Assignment -> Octet]]
         /\ \A a \in Assignment : [i \in DOMAIN B |-> B[i][a]] = Bytes(n, OldBytes(MemoryOf(M, a), old), fill)
<1> DEFINE X == OldBytes(M, old)
           B == Bytes(n, X, Always(fill))
<1>1. \A i \in DOMAIN X : X[i] \in [Assignment -> Octet]
  <2>1. CASE old \in DOMAIN M
    <3>1. SymbolicObjectOK(M[old]) /\ X = M[old].bytes BY <2>1 DEF MemoryOK, OldBytes
    <3>2. M[old].bytes \in [0 .. M[old].size - 1 -> [Assignment -> Octet]] BY <3>1 DEF SymbolicObjectOK
    <3> QED BY <3>1, <3>2
  <2>2. CASE old \notin DOMAIN M BY <2>2 DEF OldBytes
  <2> QED BY <2>1, <2>2
<1>2. \A a : /\ DOMAIN OldBytes(MemoryOf(M, a), old) = DOMAIN X
             /\ \A i \in DOMAIN X : OldBytes(MemoryOf(M, a), old)[i] = X[i][a]
  <2> TAKE a
  <2>1. CASE old \in DOMAIN M
    <3> DEFINE o == M[old]
    <3>1. DOMAIN MemoryOf(M, a) = DOMAIN M BY MemoryFields
    <3>2. MemoryOf(M, a)[old] = ObjectOf(o, a) BY <2>1 DEF MemoryOf
    <3>3. SymbolicObjectOK(o) /\ X = o.bytes BY <2>1 DEF MemoryOK, OldBytes
    <3>4. OldBytes(MemoryOf(M, a), old) = ObjectOf(o, a).bytes BY <2>1, <3>1, <3>2 DEF OldBytes
    <3> HIDE DEF o, X
    <3>5. ObjectOf(o, a).bytes = [i \in DOMAIN o.bytes |-> o.bytes[i][a]] BY <3>3, ObjectFields
    <3> QED BY <3>3, <3>4, <3>5
  <2>2. CASE old \notin DOMAIN M
    <3>1. DOMAIN MemoryOf(M, a) = DOMAIN M BY MemoryFields
    <3>2. X = <<>> /\ OldBytes(MemoryOf(M, a), old) = <<>> BY <2>2, <3>1 DEF OldBytes
    <3> QED BY <3>2
  <2> QED BY <2>1, <2>2
<1>3. B = [i \in 0 .. n - 1 |-> IF i \in DOMAIN X THEN X[i] ELSE Always(fill)] BY DEF Bytes
<1>4. Always(fill) \in [Assignment -> Octet] /\ \A a \in Assignment : Always(fill)[a] = fill BY DEF Always
<1> HIDE DEF X
<1>5. B \in [0 .. n - 1 -> [Assignment -> Octet]] BY <1>1, <1>3, <1>4
<1>6. DOMAIN B = 0 .. n - 1 /\ \A i \in 0 .. n - 1 : B[i] = IF i \in DOMAIN X THEN X[i] ELSE Always(fill)
  BY <1>3
<1>7. ASSUME NEW a \in Assignment
      PROVE  [i \in DOMAIN B |-> B[i][a]] = Bytes(n, OldBytes(MemoryOf(M, a), old), fill)
  <2> DEFINE Y == OldBytes(MemoryOf(M, a), old)
  <2>1. DOMAIN Y = DOMAIN X /\ \A i \in DOMAIN X : Y[i] = X[i][a] BY <1>2
  <2>2. Bytes(n, Y, fill) = [i \in 0 .. n - 1 |-> IF i \in DOMAIN Y THEN Y[i] ELSE fill] BY DEF Bytes
  <2> HIDE DEF B, Y
  <2>3. \A i \in 0 .. n - 1 : B[i][a] = IF i \in DOMAIN Y THEN Y[i] ELSE fill BY <1>4, <1>6, <2>1
  <2>4. [i \in DOMAIN B |-> B[i][a]] = Bytes(n, Y, fill) BY <1>6, <2>2, <2>3
  <2> QED BY <2>4 DEF Y
<1> QED BY <1>5, <1>7 DEF X

\* A new object, bound, is the one each input has.
LEMMA AllocatedOK ==
  ASSUME NEW t, StateOK(t), NEW b, NEW n \in 0 .. Unsigned - 1, Fresh(t.mem, b, n),
         NEW kind \in {"local", "heap"}, NEW old, NEW fill \in Octet
  PROVE  LET u == Allocated(t, b, n, kind, old, Always(fill)) IN
         /\ StateOK(u) /\ u.inputs = t.inputs /\ u.pc = t.pc
         /\ \A a \in Assignment : View(u, a) = Allocated(View(t, a), b, n, kind, old, fill)
<1> DEFINE W == Without(t.mem, {old})
           B == Bytes(n, OldBytes(t.mem, old), Always(fill))
           o == [size |-> n, kind |-> kind, bytes |-> B]
           M == With(W, b, o)
           L == IF kind = "local" THEN t.locals \union {b} ELSE t.locals
           u == Allocated(t, b, n, kind, old, Always(fill))
<1>1. MemoryOK(t.mem) BY DEF StateOK
<1>2. b \in Value \ {0} /\ b + n =< Word
      /\ \A q \in DOMAIN t.mem : q # b /\ (q < b => q + t.mem[q].size =< b) /\ (b < q => b + n =< q)
  BY DEF Fresh
<1>3. /\ B \in [0 .. n - 1 -> [Assignment -> Octet]]
      /\ \A a \in Assignment : [i \in DOMAIN B |-> B[i][a]] = Bytes(n, OldBytes(MemoryOf(t.mem, a), old), fill)
  BY <1>1, BytesOK
<1>4. /\ MemoryOK(W) /\ DOMAIN W = DOMAIN t.mem \ {old}
      /\ \A q \in DOMAIN t.mem \ {old} : W[q] = t.mem[q]
      /\ \A a : MemoryOf(W, a) = Without(MemoryOf(t.mem, a), {old})
  BY <1>1, MemoryWithout
<1>5. u = [t EXCEPT !.mem = M, !.locals = L] BY Zenon DEF Allocated, OldBytes
<1>6. FieldsOK(t.inputs, t.pc, t.from, t.regs, t.locals, t.callers, t.mem, t.forking, t.made) BY StateElim
<1>7. L \subseteq Value BY <1>2, <1>6 DEF FieldsOK
<1> HIDE DEF B, W
<1>8. SymbolicObjectOK(o) /\ o.size = n
  <2>1. kind \in Kind BY DEF Kind
  <2> QED BY <1>3, <2>1, ObjectIs
<1>9. \A a \in Assignment : ObjectOf(o, a)
        = [size |-> n, kind |-> kind, bytes |-> Bytes(n, OldBytes(MemoryOf(t.mem, a), old), fill)]
  <2> TAKE a \in Assignment
  <2> DEFINE Y == Bytes(n, OldBytes(MemoryOf(t.mem, a), old), fill)
  <2>1. o.size = n /\ o.kind = kind /\ o.bytes = B OBVIOUS
  <2>0. SymbolicObjectOK(o) BY <1>8
  <2> HIDE DEF o
  <2>3. [i \in DOMAIN o.bytes |-> o.bytes[i][a]] = Y BY <1>3, <2>1
  <2> HIDE DEF Y
  <2>4. ObjectOf(o, a) = [size |-> n, kind |-> kind, bytes |-> Y] BY <2>0, <2>1, <2>3, ObjectForm
  <2> QED BY <2>4 DEF Y
<1> HIDE DEF o
<1>10. \A q \in DOMAIN W \ {b} : (q < b => q + W[q].size =< b) /\ (b < q => b + o.size =< q)
  BY <1>2, <1>4, <1>8
<1>11. MemoryOK(M) /\ \A a : MemoryOf(M, a) = With(MemoryOf(W, a), b, ObjectOf(o, a))
  BY <1>2, <1>4, <1>8, <1>10, MemoryWith
<1> HIDE DEF M, L
<1>12. u = StateOf(t.inputs, t.pc, t.from, t.regs, L, t.callers, M, t.forking, t.made)
  BY Zenon, <1>5, ViewShape, StateBound
<1>13. FieldsOK(t.inputs, t.pc, t.from, t.regs, L, t.callers, M, t.forking, t.made)
  BY <1>6, <1>7, <1>11 DEF FieldsOK
<1>14. ASSUME NEW a \in Assignment PROVE View(u, a) = Allocated(View(t, a), b, n, kind, old, fill)
  <2> DEFINE c == View(t, a)
             Mc == With(Without(c.mem, {old}), b,
                        [size |-> n, kind |-> kind, bytes |-> Bytes(n, OldBytes(c.mem, old), fill)])
             Lc == IF kind = "local" THEN c.locals \union {b} ELSE c.locals
  <2>1. c.mem = MemoryOf(t.mem, a) /\ c.locals = t.locals BY ViewFields
  <2>2. Allocated(c, b, n, kind, old, fill) = [c EXCEPT !.mem = Mc, !.locals = Lc] BY Zenon DEF Allocated, OldBytes
  <2>3. Mc = MemoryOf(M, a) BY <1>4, <1>9, <1>11, <2>1
  <2>4. Lc = L BY <2>1 DEF L
  <2> HIDE DEF Mc, Lc
  <2>5. [c EXCEPT !.mem = Mc, !.locals = Lc]
          = ConfigOf(t.pc, Entered(t.pc, t.from), ValuesOf(t.regs, a), Lc, FramesOf(t.callers, a), Mc, t.forking, t.made)
    BY Zenon, ViewBound
  <2> HIDE DEF c
  <2>6. View(u, a) = ConfigOf(t.pc, Entered(t.pc, t.from), ValuesOf(t.regs, a), L, FramesOf(t.callers, a),
                              MemoryOf(M, a), t.forking, t.made)
    BY <1>12, ViewForm
  <2> QED BY <2>2, <2>3, <2>4, <2>5, <2>6 DEF c
<1> HIDE DEF u
<1>15. StateOK(u) /\ u.inputs = t.inputs /\ u.pc = t.pc BY <1>12, <1>13, StateIntro, StateFields
<1> QED BY <1>14, <1>15 DEF u

\* malloc's size is truncated.
LEMMA SizeModulus ==
  ASSUME NEW n \in Value
  PROVE  n % Unsigned \in 0 .. Unsigned - 1
<1>1. n \in Nat BY SmallValues
<1>2. Unsigned \in Nat /\ Unsigned > 0 BY MachineAssumption
<1> QED BY <1>1, <1>2

\* Allocation keeps the inputs, even those of an infeasible state.
LEMMA AllocatedInputs ==
  ASSUME NEW t, StateShape(t), NEW b, NEW n, NEW kind, NEW old, NEW fill
  PROVE  StateShape(Allocated(t, b, n, kind, old, fill)) /\ Allocated(t, b, n, kind, old, fill).inputs = t.inputs
<1> DEFINE M == With(Without(t.mem, {old}), b,
                     [size |-> n, kind |-> kind,
                      bytes |-> Bytes(n, IF old \in DOMAIN t.mem THEN t.mem[old].bytes ELSE <<>>, fill)])
           L == IF kind = "local" THEN t.locals \union {b} ELSE t.locals
           u == Allocated(t, b, n, kind, old, fill)
<1>1. u = [t EXCEPT !.mem = M, !.locals = L] BY Zenon DEF Allocated
<1> HIDE DEF M, L, u
<1>2. u = StateOf(t.inputs, t.pc, t.from, t.regs, L, t.callers, M, t.forking, t.made) BY Zenon, <1>1, StateBound
<1>3. StateShape(u) /\ u.inputs = t.inputs BY <1>2, StateFields DEF StateShape
<1> QED BY <1>3 DEF u

\* malloc's answers for one size, in a part of a state.
LEMMA PlacedPiece ==
  ASSUME NEW s, StateOK(s), Code[s.pc].op \notin Leaving, ~Invokes(Code[s.pc]),
         NEW I, I \subseteq s.inputs, NEW n \in Value,
         NEW kind \in {"local", "heap"}, NEW old, NEW fill \in Octet,
         \A a \in I : \A d : Allocates(View(s, a), n, kind, old, fill, d) => Moves(s, a, d),
         NEW p \in Placed(On(s, I), n, kind, old, fill)
  PROVE  Piece(s, I, p)
<1> DEFINE t == On(s, I)
           m == n % Unsigned
<1>1. m \in 0 .. Unsigned - 1 BY SizeModulus
<1>2. StateShape(t) /\ t.inputs = I /\ t.pc = s.pc /\ t.mem = s.mem BY OnShape
<1>3. I # {} => StateOK(t) /\ \A a : View(t, a) = View(s, a) BY OnOK
<1>4. CASE p = Result(t, Always(0))
  <2>1. Always(0) \in Expression /\ \A a \in I : Always(0)[a] = 0 BY AlwaysOK, SmallValues, InputsOK
  <2>2. \A a \in I : Moves(s, a, Yields(View(s, a), 0)) BY DEF Allocates
  <2>3. \A a \in I : Moves(s, a, Yields(View(s, a), Always(0)[a])) BY <2>1, <2>2
  <2> QED BY <1>4, <2>1, <2>3, ResultPiece
<1>5. CASE p # Result(t, Always(0))
  <2>1. PICK b \in Value : Fresh(t.mem, b, m) /\ p = Result(Allocated(t, b, m, kind, old, Always(fill)), Always(b))
    BY <1>5 DEF Placed
  <2> DEFINE u == Allocated(t, b, m, kind, old, Always(fill))
  <2>2. Always(b) \in Expression /\ \A a \in Assignment : Always(b)[a] = b BY AlwaysOK
  <2> HIDE DEF t, m
  <2>3. StateShape(u) /\ u.inputs = I BY <1>2, AllocatedInputs
  <2>4. p = Result(u, Always(b)) BY <2>1
  <2>5. p.inputs = I BY <2>3, <2>4, ShapeInputs
  <2>6. ASSUME I # {} PROVE StateOK(p) /\ \A a \in I : Moves(s, a, View(p, a))
    <3>1. StateOK(t) BY <1>3, <2>6
    <3>2. /\ StateOK(u) /\ u.pc = t.pc
          /\ \A a \in Assignment : View(u, a) = Allocated(View(t, a), b, m, kind, old, fill)
      BY <1>1, <2>1, <3>1, AllocatedOK
    <3> HIDE DEF u
    <3>3. Code[u.pc].op \notin Leaving /\ ~Invokes(Code[u.pc]) BY <1>2, <3>2
    <3>4. StateOK(p) /\ \A a \in Assignment : View(p, a) = Yields(View(u, a), Always(b)[a])
      BY <2>2, <2>4, <3>2, <3>3, YieldOK
    <3>5. ASSUME NEW a \in I PROVE Moves(s, a, View(p, a))
      <4>1. a \in Assignment BY InputsOK
      <4>2. View(t, a) = View(s, a) BY <1>3, <2>6
      <4>3. View(p, a) = Yields(Allocated(View(s, a), b, m, kind, old, fill), b) BY <2>2, <3>2, <3>4, <4>1, <4>2
      <4>4. Fresh(View(s, a).mem, b, m) BY <1>2, <2>1, FreshView
      <4> QED BY <4>3, <4>4 DEF Allocates, m
    <3> QED BY <3>4, <3>5
  <2> QED BY <2>5, <2>6 DEF Piece
<1> QED BY <1>4, <1>5

\* Five pieces without an input in common.
LEMMA DisjointFive ==
  ASSUME NEW p1, NEW p2, NEW p3, NEW p4, NEW p5,
         p1.inputs \intersect p2.inputs = {}, p1.inputs \intersect p3.inputs = {},
         p1.inputs \intersect p4.inputs = {}, p1.inputs \intersect p5.inputs = {},
         p2.inputs \intersect p3.inputs = {}, p2.inputs \intersect p4.inputs = {},
         p2.inputs \intersect p5.inputs = {}, p3.inputs \intersect p4.inputs = {},
         p3.inputs \intersect p5.inputs = {}, p4.inputs \intersect p5.inputs = {}
  PROVE  Disjoint({p1, p2, p3, p4, p5})
<1> SUFFICES ASSUME NEW p \in {p1, p2, p3, p4, p5}, NEW q \in {p1, p2, p3, p4, p5}, p # q
             PROVE  p.inputs \intersect q.inputs = {}
  BY DEF Disjoint
<1>1. CASE p = p1 BY <1>1
<1>2. CASE p = p2 BY <1>2
<1>3. CASE p = p3 BY <1>3
<1>4. CASE p = p4 BY <1>4
<1>5. CASE p = p5 BY <1>5
<1> QED BY <1>1, <1>2, <1>3, <1>4, <1>5

\* doSizeControlledMalloc may end the path of an input with the size e[a].
Controls(s, e) ==
  \A a \in s.inputs : /\ e[a] = 0 => Moves(s, a, Ended("zma"))
                      /\ e[a] >= Unsigned => Moves(s, a, Ended("iof"))
                      /\ e[a] \in 1 .. HugeSize => Moves(s, a, Ended("cma"))

\* doSizeControlledMalloc: each input gets the answer for its size, or the error of a
\* size the example does not stand for.
LEMMA ControlledGood ==
  ASSUME NEW s, StateOK(s), Code[s.pc].op \notin Leaving, ~Invokes(Code[s.pc]),
         NEW e \in Expression, NEW kind \in {"local", "heap"}, NEW old, NEW fill \in Octet,
         \A a \in s.inputs : \A d : Allocates(View(s, a), e[a], kind, old, fill, d) => Moves(s, a, d),
         Controls(s, e), NEW n \in 1 .. HugeSize,
         NEW p \in Placed(Where(s, e, {n}), n, kind, old, fill)
  PROVE  Good(s, Controlled(s, e, n, p))
<1> DEFINE Z == {a \in s.inputs : e[a] \in {0}}
           O == {a \in s.inputs : e[a] \in Unsigned .. Word - 1}
           H == {a \in s.inputs : e[a] \in HugeSize + 1 .. Unsigned - 1}
           N == {a \in s.inputs : e[a] \in {n}}
           C == {a \in s.inputs : e[a] \in 1 .. HugeSize \ {n}}
           z == Fail(On(s, Z), "zma")
           o == Fail(On(s, O), "iof")
           h == Result(On(s, H), Always(0))
           c == Fail(On(s, C), "cma")
           Q == {z, o, h, p, c}
<1>1. Controlled(s, e, n, p) = Feasible(Q) BY DEF Controlled, Where
<1>2. HugeSize \in Nat \ {0} /\ Unsigned \in Nat /\ Word \in Nat /\ HugeSize < Unsigned /\ Unsigned =< Word
  BY MachineAssumption
<1>3. n \in Value /\ n \in Nat BY <1>2 DEF Value
<1>4. \A a \in s.inputs : a \in Assignment /\ e[a] \in 0 .. Word - 1 BY InputsOK DEF Expression, Value
<1>5. Z \subseteq s.inputs /\ O \subseteq s.inputs /\ H \subseteq s.inputs /\ N \subseteq s.inputs /\ C \subseteq s.inputs
  OBVIOUS
<1>6. \A a \in s.inputs : a \in Z \/ a \in O \/ a \in H \/ a \in N \/ a \in C BY <1>2, <1>3, <1>4
<1>7. /\ Z \intersect O = {} /\ Z \intersect H = {} /\ Z \intersect N = {} /\ Z \intersect C = {}
      /\ O \intersect H = {} /\ O \intersect N = {} /\ O \intersect C = {}
      /\ H \intersect N = {} /\ H \intersect C = {} /\ N \intersect C = {}
  BY <1>2, <1>3, <1>4
<1>8. Piece(s, Z, z)
  <2>1. \A a \in Z : Moves(s, a, Ended("zma")) BY DEF Controls
  <2>2. "zma" # Running BY DEF Running
  <2> QED BY <2>1, <2>2, FailPiece
<1>9. Piece(s, O, o)
  <2>1. \A a \in O : e[a] >= Unsigned BY <1>2
  <2>2. \A a \in O : Moves(s, a, Ended("iof")) BY <2>1 DEF Controls
  <2>3. "iof" # Running BY DEF Running
  <2> QED BY <2>2, <2>3, FailPiece
<1>10. Piece(s, C, c)
  <2>1. \A a \in C : Moves(s, a, Ended("cma")) BY DEF Controls
  <2>2. "cma" # Running BY DEF Running
  <2> QED BY <2>1, <2>2, FailPiece
<1>11. Piece(s, H, h)
  <2>1. Always(0) \in Expression /\ \A a \in H : Always(0)[a] = 0 BY <1>4, AlwaysOK, SmallValues
  <2>2. \A a \in H : Moves(s, a, Yields(View(s, a), 0)) BY DEF Allocates
  <2>3. \A a \in H : Moves(s, a, Yields(View(s, a), Always(0)[a])) BY <2>1, <2>2
  <2> QED BY <1>5, <2>1, <2>3, ResultPiece
<1>12. Piece(s, N, p)
  <2>1. \A a \in N : \A d : Allocates(View(s, a), n, kind, old, fill, d) => Moves(s, a, d) OBVIOUS
  <2>2. p \in Placed(On(s, N), n, kind, old, fill) BY DEF Where
  <2> HIDE DEF N
  <2> QED BY <1>3, <1>5, <2>1, <2>2, PlacedPiece
<1> HIDE DEF Z, O, H, N, C, z, o, h, c
<1>13. z.inputs = Z /\ o.inputs = O /\ h.inputs = H /\ p.inputs = N /\ c.inputs = C
  BY <1>8, <1>9, <1>10, <1>11, <1>12 DEF Piece
<1>14. Disjoint(Q) BY <1>7, <1>13, DisjointFive
<1>15. \A q \in Q : q.inputs \subseteq s.inputs /\ Piece(s, q.inputs, q)
  BY <1>5, <1>8, <1>9, <1>10, <1>11, <1>12, <1>13
<1>16. \A a \in s.inputs : Held(Q, a) BY <1>6, <1>13 DEF Held
<1> HIDE DEF Q
<1> QED BY <1>1, <1>14, <1>15, <1>16, GoodPieces

\* executeAlloc.
LEMMA AllocGood ==
  ASSUME NEW s, StateOK(s), Code[s.pc].op \notin Leaving, ~Invokes(Code[s.pc]),
         NEW e \in Expression, NEW kind \in {"local", "heap"}, NEW old, NEW fill \in Octet,
         \A a \in s.inputs : \A d : Allocates(View(s, a), e[a], kind, old, fill, d) => Moves(s, a, d),
         kind = "heap" /\ (limited \/ ~Unique(s, e)) => Controls(s, e),
         NEW P \in Alloc(s, e, kind, old, fill)
  PROVE  Good(s, P)
<1>1. CASE Unique(s, e) /\ \E p \in Placed(s, The(s, e), kind, old, fill) : P = {p}
  <2> DEFINE n == The(s, e)
  <2>1. PICK p \in Placed(s, n, kind, old, fill) : P = {p} BY <1>1
  <2>2. \A a \in s.inputs : n = e[a] BY <1>1, TheOK, InputsOK
  <2>3. n \in Value BY <2>2, InputsOK DEF Expression
  <2> HIDE DEF n
  <2>4. On(s, s.inputs) = s BY SelfOn
  <2>5. \A a \in s.inputs : \A d : Allocates(View(s, a), n, kind, old, fill, d) => Moves(s, a, d) BY <2>2
  <2>6. s.inputs \subseteq s.inputs OBVIOUS
  <2>7. p \in Placed(On(s, s.inputs), n, kind, old, fill) BY <2>4
  <2>8. Piece(s, s.inputs, p) BY <2>3, <2>5, <2>6, <2>7, PlacedPiece
  <2> QED BY <2>1, <2>8, InputsOK, GoodOne DEF Piece
<1>2. CASE \E n \in Guesses(s, e) : \E p \in Placed(Where(s, e, {n}), n, kind, old, fill) :
             kind = "heap" /\ (limited \/ ~Unique(s, e)) /\ P \in Kept(s, Controlled(s, e, n, p))
  <2>1. PICK n \in Guesses(s, e) : \E p \in Placed(Where(s, e, {n}), n, kind, old, fill) :
               kind = "heap" /\ (limited \/ ~Unique(s, e)) /\ P \in Kept(s, Controlled(s, e, n, p))
    BY <1>2
  <2>2. PICK p \in Placed(Where(s, e, {n}), n, kind, old, fill) :
               kind = "heap" /\ (limited \/ ~Unique(s, e)) /\ P \in Kept(s, Controlled(s, e, n, p))
    BY <2>1
  <2>3. n \in 1 .. HugeSize BY DEF Guesses
  <2>4. Controls(s, e) BY <2>2
  <2>5. Good(s, Controlled(s, e, n, p)) BY <2>3, <2>4, ControlledGood
  <2> QED BY <2>2, <2>5, GoodKept
<1> QED BY <1>1, <1>2 DEF Alloc

\* One outcome for each branch.
LEMMA InEachElim ==
  ASSUME NEW D, NEW P \in InEach(D)
  PROVE  \E F : P = UNION {F[t] : t \in DOMAIN D} /\ \A t \in DOMAIN D : F[t] \in D[t]
  BY DEF InEach

\* A part of a state evaluates operands as the state does.
LEMMA NarrowsEval ==
  ASSUME NEW s, StateOK(s), NEW t, Narrows(s, t), NEW x \in Operand
  PROVE  EvalIn(t, x) = EvalIn(s, x)
<1>1. /\ EvalIn(s, x) \in Expression
      /\ \A a \in Assignment : Eval(View(s, a), x) = EvalIn(s, x)[a]
  BY EvalOK
<1>2. StateOK(t) /\ \A a : View(t, a) = View(s, a) BY DEF Narrows
<1>3. /\ EvalIn(t, x) \in Expression
      /\ \A a \in Assignment : Eval(View(t, a), x) = EvalIn(t, x)[a]
  BY <1>2, EvalOK
<1> QED BY <1>1, <1>2, <1>3 DEF Expression

\* realloc of a part of a state whose inputs agree on whether they free and on the base.
LEMMA ReallocDone ==
  ASSUME NEW t, StateOK(t), Code[t.pc].op = "realloc",
         NEW e, NEW n, EvalIn(t, Code[t.pc].address) = e, EvalIn(t, Code[t.pc].size) = n,
         \/ \A a \in t.inputs : n[a] = 0
         \/ \A a \in t.inputs : n[a] # 0 /\ e[a] = The(t, e) /\ e[a] \in DOMAIN t.mem \union {0},
         NEW D \in IF The(t, n) = 0 THEN Free(t, e) ELSE Alloc(t, n, "heap", The(t, e), Junk)
  PROVE  Good(t, D)
<1> DEFINE k == Code[t.pc]
<1>1. k.address \in Operands(k) /\ k.size \in Operands(k) BY DEF Operands
<1>2. /\ e \in Expression /\ n \in Expression
      /\ \A a \in Assignment : /\ Eval(View(t, a), k.address) = e[a] /\ e[a] \in Value
                               /\ Eval(View(t, a), k.size) = n[a] /\ n[a] \in Value
  BY <1>1, OperandOK
<1>3. k.op \notin Leaving /\ ~Invokes(k) /\ Proper(t) BY DEF Leaving, Invokes, Proper, Void
<1>4. t.inputs \subseteq Assignment /\ t.inputs # {} BY InputsOK
<1>5. PICK b \in t.inputs : The(t, n) = n[b] BY <1>4, TheOK
<1>6. ASSUME NEW a \in t.inputs, NEW d, Manages(View(t, a), k, d) PROVE Moves(t, a, d)
  BY <1>3, <1>6, StepIntro DEF Moves, Proper
<1>7. \A a \in t.inputs : DOMAIN View(t, a).mem = DOMAIN t.mem BY ViewObjects DEF SameObjects
<1>8. CASE The(t, n) = 0
  <2>1. \A a \in t.inputs : n[a] = 0 BY <1>5, <1>8
  <2>2. ASSUME NEW a \in t.inputs, NEW d, Frees(View(t, a), e[a], d) PROVE Moves(t, a, d)
    <3>1. Eval(View(t, a), k.address) = e[a] /\ Eval(View(t, a), k.size) = 0 BY <1>2, <1>4, <2>1
    <3>2. Manages(View(t, a), k, d) BY <2>2, <3>1 DEF Manages
    <3> QED BY <1>6, <3>2
  <2>3. D \in Free(t, e) BY <1>8
  <2> QED BY <1>2, <1>3, <2>2, <2>3, FreeGood
<1>9. CASE The(t, n) # 0
  <2>1. \A a \in t.inputs : n[a] # 0 /\ e[a] = The(t, e) /\ e[a] \in DOMAIN t.mem \union {0} BY <1>5, <1>9
  <2>2. ASSUME NEW a \in t.inputs, NEW d, Allocates(View(t, a), n[a], "heap", The(t, e), Junk, d)
        PROVE  Moves(t, a, d)
    <3>1. Eval(View(t, a), k.address) = e[a] /\ Eval(View(t, a), k.size) = n[a] BY <1>2, <1>4
    <3>2. Manages(View(t, a), k, d) BY <1>7, <2>1, <2>2, <3>1 DEF Manages
    <3> QED BY <1>6, <3>2
  <2>3. ASSUME limited \/ ~Unique(t, n) PROVE Controls(t, n)
    <3> SUFFICES ASSUME NEW a \in t.inputs
                 PROVE  /\ n[a] = 0 => Moves(t, a, Ended("zma"))
                        /\ n[a] >= Unsigned => Moves(t, a, Ended("iof"))
                        /\ n[a] \in 1 .. HugeSize => Moves(t, a, Ended("cma"))
      BY DEF Controls
    <3>1. View(t, a).end = Running /\ View(t, a).pc = t.pc BY ViewFields
    <3>2. Eval(View(t, a), k.size) = n[a] BY <1>2, <1>4
    <3>3. n[a] >= Unsigned => Unsure(View(t, a), Ended("iof")) BY <3>1, <3>2 DEF Unsure
    <3>4. n[a] \in 1 .. HugeSize => Unsure(View(t, a), Ended("cma")) BY <3>1, <3>2 DEF Unsure
    <3>5. n[a] # 0 BY <2>1
    <3>6. \A d : Unsure(View(t, a), d) => Moves(t, a, d) BY <1>1, <2>3, UnsureMoves
    <3> QED BY <3>3, <3>4, <3>5, <3>6
  <2>4. D \in Alloc(t, n, "heap", The(t, e), Junk) BY <1>9
  <2>5. Junk \in Octet BY MachineAssumption
  <2>6. "heap" \in {"local", "heap"} OBVIOUS
  <2> QED BY <1>2, <1>3, <2>2, <2>3, <2>4, <2>5, <2>6, AllocGood
<1> QED BY <1>8, <1>9

\* realloc: each input frees, allocates or fails as its size and pointer say.
LEMMA ReallocGood ==
  ASSUME NEW s, StateOK(s), Code[s.pc].op = "realloc", NEW P \in Realloc(s, Code[s.pc])
  PROVE  Good(s, P)
<1> DEFINE k == Code[s.pc]
           e == EvalIn(s, k.address)
           n == EvalIn(s, k.size)
           Z == {a \in s.inputs : n[a] \in {0}}
           S == {a \in s.inputs : n[a] \in Value \ {0}}
           N == {a \in S : e[a] \in {0}}
           I == {a \in S : e[a] \in Value \ {0}}
           Done(t) == IF t.end # Running THEN {{t}}
                      ELSE IF The(t, n) = 0 THEN Free(t, e)
                      ELSE Alloc(t, n, "heap", The(t, e), Junk)
           sized == Where(s, n, Value \ {0})
           pointers == Where(sized, e, Value \ {0})
           Parts(x) == Feasible({Where(s, n, {0}), Where(sized, e, {0})}) \union Exactly(pointers, e, x)
<1>1. P \in UNION {UNION {InEach([t \in K |-> Done(t)]) : K \in Kept(s, Parts(x))} : x \in Examples(pointers, e)}
  BY Zenon DEF Realloc
<1>2. Where(s, n, {0}) = On(s, Z) /\ sized = On(s, S) BY DEF Where
<1>3. PICK x \in Examples(pointers, e) : P \in UNION {InEach([t \in K |-> Done(t)]) : K \in Kept(s, Parts(x))}
  BY <1>1
<1>4. PICK K \in Kept(s, Parts(x)) : P \in InEach([t \in K |-> Done(t)]) BY <1>3
<1>23. Where(On(s, S), e, {0}) = On(s, N)
  <2> HIDE DEF e, S
  <2>1. On(s, S).inputs = S BY OnShape
  <2>2. Where(On(s, S), e, {0}) = On(On(s, S), N) BY <2>1 DEF Where
  <2> HIDE DEF N
  <2> QED BY <2>2, OnOn
<1>24. Where(On(s, S), e, Value \ {0}) = On(s, I)
  <2> HIDE DEF e, S
  <2>1. On(s, S).inputs = S BY OnShape
  <2>2. Where(On(s, S), e, Value \ {0}) = On(On(s, S), I) BY <2>1 DEF Where
  <2> HIDE DEF I
  <2> QED BY <2>2, OnOn
<1>25. x \in Examples(On(s, I), e) BY <1>2, <1>24
<1> DEFINE X == Exactly(On(s, I), e, x)
           Q == Feasible({On(s, Z), On(s, N)}) \union X
<1>5. K \in Kept(s, Q) BY <1>2, <1>4, <1>23, <1>24
<1>6. k.address \in Operands(k) /\ k.size \in Operands(k) BY DEF Operands
<1>7. /\ e \in Expression /\ n \in Expression
      /\ \A a \in Assignment : /\ Eval(View(s, a), k.address) = e[a] /\ e[a] \in Value
                               /\ Eval(View(s, a), k.size) = n[a] /\ n[a] \in Value
  BY <1>6, OperandOK
<1>8. s.inputs \subseteq Assignment BY InputsOK
<1>9. /\ Z \subseteq s.inputs /\ N \subseteq s.inputs /\ I \subseteq s.inputs
      /\ Z \intersect N = {} /\ Z \intersect I = {} /\ N \intersect I = {}
      /\ \A a \in s.inputs : a \in Z \/ a \in N \/ a \in I
      /\ \A a \in Z : n[a] = 0
      /\ \A a \in N : n[a] # 0 /\ e[a] = 0
      /\ \A a \in I : n[a] # 0 /\ e[a] # 0
  BY <1>7, <1>8
<1>10. k.op \notin Leaving /\ ~Invokes(k) /\ Proper(s) BY DEF Leaving, Invokes, Proper, Void
<1> HIDE DEF Z, S, N, I, sized, pointers, Parts
<1>11. /\ \A p \in X : /\ p.inputs \subseteq I /\ p.inputs # {}
                       /\ AtOneBase(s, e, p) \/ AtNoBase(s, e, p)
       /\ Disjoint(X) /\ \A a \in I : Held(X, a)
  BY <1>7, <1>9, <1>25, ExactlyOK
<1>12. On(s, Z).inputs = Z /\ On(s, N).inputs = N BY OnShape
<1>13. \A t \in Feasible({On(s, Z), On(s, N)}) :
         /\ t = On(s, Z) \/ t = On(s, N)
         /\ t.inputs = Z \/ t.inputs = N
         /\ t.inputs # {} /\ Narrows(s, t) /\ t.end = Running /\ t.pc = s.pc /\ t.mem = s.mem
  BY <1>9, <1>12, OnOK, OnNarrows DEF Feasible
<1> HIDE DEF X
<1>14. Split(s, Q)
  <2>1. ASSUME NEW t \in Q PROVE IF t.end = Running THEN Narrows(s, t) ELSE PieceOK(s, t)
    <3>1. CASE t \in Feasible({On(s, Z), On(s, N)}) BY <1>13, <3>1
    <3>2. CASE t \in X /\ AtOneBase(s, e, t) BY <3>2 DEF AtOneBase
    <3>3. CASE t \in X /\ AtNoBase(s, e, t)
      <4>1. t.end = "ptr" /\ t.end # Running /\ t.inputs \subseteq I /\ t.inputs # {} BY <1>11, <3>3 DEF AtNoBase
      <4>2. ASSUME NEW a \in t.inputs PROVE Moves(s, a, View(t, a))
        <5>1. a \in I /\ a \in s.inputs /\ a \in Assignment BY <1>8, <1>9, <4>1
        <5>2. e[a] \notin DOMAIN s.mem /\ View(t, a) = Ended("ptr") BY <3>3 DEF AtNoBase
        <5>3. n[a] # 0 /\ e[a] # 0 BY <1>9, <5>1
        <5>4. Eval(View(s, a), k.address) = e[a] /\ Eval(View(s, a), k.size) = n[a] BY <1>7, <5>1
        <5>5. DOMAIN View(s, a).mem = DOMAIN s.mem BY ViewObjects DEF SameObjects
        <5> HIDE DEF e, n
        <5>6. Manages(View(s, a), k, Ended("ptr")) BY <5>2, <5>3, <5>4, <5>5 DEF Manages
        <5>7. Step(a, View(s, a), Ended("ptr")) BY <1>10, <5>6, StepIntro DEF Proper
        <5> QED BY <5>2, <5>7 DEF Moves
      <4> QED BY <1>9, <4>1, <4>2 DEF PieceOK
    <3> QED BY <1>11, <3>1, <3>2, <3>3
  <2>2. Disjoint(Q)
    <3> SUFFICES ASSUME NEW p \in Q, NEW q \in Q, p # q PROVE p.inputs \intersect q.inputs = {}
      BY DEF Disjoint
    <3> DEFINE F == Feasible({On(s, Z), On(s, N)})
    <3>1. CASE p \in F /\ q \in F BY <1>9, <1>12, <1>13, <3>1
    <3>2. CASE p \in F /\ q \in X BY <1>9, <1>11, <1>13, <3>2
    <3>3. CASE p \in X /\ q \in F BY <1>9, <1>11, <1>13, <3>3
    <3>4. CASE p \in X /\ q \in X BY <1>11, <3>4 DEF Disjoint
    <3> QED BY <3>1, <3>2, <3>3, <3>4
  <2>3. \A a \in s.inputs : Held(Q, a)
    <3> TAKE a \in s.inputs
    <3>1. CASE a \in I BY <1>11, <3>1 DEF Held
    <3>2. CASE a \in Z
      <4>1. On(s, Z) \in Feasible({On(s, Z), On(s, N)}) BY <1>12, <3>2 DEF Feasible
      <4> QED BY <1>12, <3>2, <4>1 DEF Held
    <3>3. CASE a \in N
      <4>1. On(s, N) \in Feasible({On(s, Z), On(s, N)}) BY <1>12, <3>3 DEF Feasible
      <4> QED BY <1>12, <3>3, <4>1 DEF Held
    <3> QED BY <1>9, <3>1, <3>2, <3>3
  <2> QED BY <2>1, <2>2, <2>3 DEF Split
<1> HIDE DEF Q
<1>15. K \subseteq Q BY <1>5, KeptSubset
<1>16. Split(s, K) BY <1>5, <1>14, SplitKept
<1>17. \E F : P = UNION {F[t] : t \in K} /\ \A t \in K : F[t] \in Done(t)
  <2>1. \E F : P = UNION {F[t] : t \in DOMAIN [t \in K |-> Done(t)]}
               /\ \A t \in DOMAIN [t \in K |-> Done(t)] : F[t] \in [u \in K |-> Done(u)][t]
    BY <1>4, InEachElim
  <2> HIDE DEF Done
  <2> QED BY <2>1
<1>18. PICK F : P = UNION {F[t] : t \in K} /\ \A t \in K : F[t] \in Done(t) BY <1>17
<1>19. ASSUME NEW t \in K, t.end = Running PROVE Good(t, F[t])
  <2>1. (t \in Feasible({On(s, Z), On(s, N)}) \/ t \in X) /\ F[t] \in Done(t) BY <1>15, <1>18 DEF Q
  <2>2. Narrows(s, t) BY <1>16, <1>19 DEF Split
  <2>3. /\ t.pc = s.pc /\ t.mem = s.mem /\ t.inputs # {}
        /\ \/ \A a \in t.inputs : n[a] = 0
           \/ \A a \in t.inputs : n[a] # 0 /\ e[a] = The(t, e) /\ e[a] \in DOMAIN t.mem \union {0}
    <3> HIDE DEF e, n
    <3>1. CASE t \in Feasible({On(s, Z), On(s, N)})
      <4>1. (t.inputs = Z \/ t.inputs = N) /\ t.inputs # {} /\ t.pc = s.pc /\ t.mem = s.mem BY <1>13, <3>1
      <4>2. CASE t.inputs = Z BY <1>9, <4>1, <4>2
      <4>3. CASE t.inputs = N
        <5>1. \E b \in t.inputs : The(t, e) = e[b] BY <4>1, TheOK
        <5> QED BY <1>9, <4>1, <4>3, <5>1
      <4> QED BY <4>1, <4>2, <4>3
    <3>2. CASE t \in X
      <4>1. AtOneBase(s, e, t) BY <1>11, <1>19, <3>2 DEF AtNoBase
      <4> QED BY <1>9, <1>11, <3>2, <4>1 DEF AtOneBase
    <3> QED BY <2>1, <3>1, <3>2
  <2>4. StateOK(t) BY <2>2 DEF Narrows
  <2>5. k.address \in Operand /\ k.size \in Operand BY <1>6, OperandOK
  <2>6. EvalIn(t, k.address) = e /\ EvalIn(t, k.size) = n BY <2>2, <2>5, NarrowsEval
  <2>7. F[t] \in IF The(t, n) = 0 THEN Free(t, e) ELSE Alloc(t, n, "heap", The(t, e), Junk) BY <2>1, <1>19
  <2>8. k = Code[t.pc] BY <2>3
  <2> HIDE DEF e, n, k
  <2> QED BY <1>18, <2>3, <2>4, <2>6, <2>7, <2>8, ReallocDone DEF k
<1>20. ASSUME NEW t \in K, t.end # Running PROVE F[t] = {t} BY <1>18, <1>20
<1>21. \A t \in K : IF t.end = Running THEN Good(t, F[t]) ELSE F[t] = {t} BY <1>19, <1>20
<1>22. Good(s, UNION {F[t] : t \in K}) BY <1>16, <1>21, GoodUnion
<1> QED BY <1>18, <1>22

(* The functions that name an object.                                              *)

\* A piece made of each branch of a split.
LEMMA GoodMap ==
  ASSUME NEW s, NEW K, Split(s, K), NEW F, \A t \in K : PieceOK(s, F[t]) /\ F[t].inputs = t.inputs
  PROVE  Good(s, {F[t] : t \in K})
<1> DEFINE P == {F[t] : t \in K}
<1>1. Disjoint(P)
  <2> SUFFICES ASSUME NEW t \in K, NEW u \in K, F[t] # F[u] PROVE F[t].inputs \intersect F[u].inputs = {}
    BY DEF Disjoint
  <2> QED BY DEF Split, Disjoint
<1>2. \A a \in s.inputs : Held(P, a) \/ Moves(s, a, Ended(Early)) BY DEF Split, Held
<1>3. \A p \in P : PieceOK(s, p) OBVIOUS
<1> QED BY <1>1, <1>2, <1>3 DEF Good

\* resolveExact splits a state.
LEMMA ExactlySplit ==
  ASSUME NEW s, StateOK(s), NEW e \in Expression, NEW x \in Examples(s, e),
         \A a \in s.inputs : e[a] \notin DOMAIN s.mem => Moves(s, a, Ended("ptr"))
  PROVE  /\ Split(s, Exactly(s, e, x))
         /\ \A p \in Exactly(s, e, x) : IF p.end = Running THEN AtOneBase(s, e, p) ELSE AtNoBase(s, e, p)
<1> DEFINE K == Exactly(s, e, x)
<1>1. On(s, s.inputs) = s /\ s.inputs \subseteq s.inputs BY SelfOn
<1>2. /\ \A p \in K : /\ p.inputs \subseteq s.inputs /\ p.inputs # {}
                      /\ AtOneBase(s, e, p) \/ AtNoBase(s, e, p)
      /\ Disjoint(K) /\ \A a \in s.inputs : Held(K, a)
  <2>1. x \in Examples(On(s, s.inputs), e) BY <1>1
  <2>2. LET X == Exactly(On(s, s.inputs), e, x) IN
        /\ \A p \in X : /\ p.inputs \subseteq s.inputs /\ p.inputs # {}
                        /\ AtOneBase(s, e, p) \/ AtNoBase(s, e, p)
        /\ Disjoint(X) /\ \A a \in s.inputs : Held(X, a)
    BY <1>1, <2>1, ExactlyOK
  <2> QED BY <1>1, <2>2
<1> HIDE DEF K
<1>3. \A p \in K : IF p.end = Running THEN AtOneBase(s, e, p) ELSE AtNoBase(s, e, p)
  BY <1>2 DEF AtOneBase, AtNoBase
<1>4. ASSUME NEW p \in K, p.end # Running PROVE PieceOK(s, p)
  <2>1. AtNoBase(s, e, p) BY <1>3, <1>4
  <2>2. \A a \in p.inputs : Moves(s, a, View(p, a)) BY <1>2, <2>1 DEF AtNoBase
  <2> QED BY <1>2, <1>4, <2>2 DEF PieceOK
<1>5. Split(s, K) BY <1>2, <1>3, <1>4 DEF Split, AtOneBase
<1> QED BY <1>3, <1>5 DEF K

\* Different branches of it are at different objects.
LEMMA ExactlyBases ==
  ASSUME NEW s, StateOK(s), NEW e, NEW x, NEW p \in Exactly(s, e, x), NEW q \in Exactly(s, e, x),
         p.end = Running, q.end = Running, The(p, e) = The(q, e)
  PROVE  p = q
<1>1. ASSUME NEW t \in Exactly(s, e, x), t.end = Running PROVE t = AtBase(s, e, The(t, e))
  <2>1. t.inputs # {} BY DEF Exactly, Feasible
  <2>2. \A u, why : Fail(u, why).end = why BY FailFields
  <2>3. t # Fail(Where(s, e, Value \ Resolved(s, e, x)), "ptr") BY <1>1, <2>2 DEF Running
  <2>4. PICK b : t = AtBase(s, e, b) BY <2>3 DEF Exactly, Feasible
  <2>5. t = On(s, {a \in s.inputs : e[a] \in {b}}) BY <2>4 DEF AtBase, Where
  <2>6. t.inputs = {a \in s.inputs : e[a] \in {b}} BY <2>5, OnShape
  <2>7. The(t, e) = b BY <2>1, <2>6, TheOK
  <2> QED BY <2>4, <2>7
<1> QED BY <1>1

\* klee_get_obj_size.
LEMMA GetObjSizeGood ==
  ASSUME NEW s, StateOK(s), Code[s.pc].op = "get_obj_size", NEW P \in GetObjSize(s, Code[s.pc])
  PROVE  Good(s, P)
<1> DEFINE k == Code[s.pc]
           e == EvalIn(s, k.address)
           f(t) == IF t.end = Running THEN Result(t, Always(t.mem[The(t, e)].size)) ELSE t
<1>1. PICK x \in Examples(s, e) : P \in Kept(s, {f(t) : t \in Exactly(s, e, x)}) BY DEF GetObjSize
<1> DEFINE K == Exactly(s, e, x)
           F == [t \in K |-> f(t)]
<1>2. k.address \in Operands(k) BY DEF Operands
<1>3. e \in Expression /\ \A a \in Assignment : Eval(View(s, a), k.address) = e[a] BY <1>2, OperandOK
<1>4. k.op \notin Leaving /\ ~Invokes(k) /\ Proper(s) BY DEF Leaving, Invokes, Proper, Void
<1>5. s.inputs \subseteq Assignment BY InputsOK
<1>6. ASSUME NEW a \in s.inputs, NEW d, Names(a, View(s, a), k, d) PROVE Moves(s, a, d)
  BY <1>4, <1>6, StepIntro DEF Moves, Proper
<1>7. \A a : DOMAIN View(s, a).mem = DOMAIN s.mem /\ \A b \in DOMAIN s.mem : View(s, a).mem[b].size = s.mem[b].size
  BY ViewObjects DEF SameObjects
<1> HIDE DEF e
<1>8. ASSUME NEW a \in s.inputs, e[a] \notin DOMAIN s.mem PROVE Moves(s, a, Ended("ptr"))
  BY <1>3, <1>5, <1>6, <1>7, <1>8 DEF Names
<1>9. /\ Split(s, K) /\ \A p \in K : IF p.end = Running THEN AtOneBase(s, e, p) ELSE AtNoBase(s, e, p)
  BY <1>3, <1>8, ExactlySplit
<1> HIDE DEF K
<1>10. ASSUME NEW t \in K PROVE PieceOK(s, f(t)) /\ f(t).inputs = t.inputs
  <2>1. CASE t.end = Running
    <3> DEFINE b == The(t, e)
               v == t.mem[b].size
    <3>1. /\ StateOK(t) /\ t.pc = s.pc /\ t.mem = s.mem /\ b \in DOMAIN s.mem
          /\ t.inputs \subseteq s.inputs /\ \A a : View(t, a) = View(s, a)
          /\ \A a \in t.inputs : e[a] = b
      BY <1>9, <2>1 DEF AtOneBase, Narrows
    <3> HIDE DEF b
    <3>2. MemoryOK(t.mem) BY <3>1 DEF StateOK
    <3>3. v \in Value
      <4>1. v \in Nat /\ v < Unsigned BY <3>1, <3>2, MemoryNumbers
      <4> QED BY <4>1, MachineAssumption DEF Value
    <3>4. v = s.mem[b].size BY <3>1
    <3>5. f(t) = Result(t, Always(v)) BY <2>1 DEF b
    <3> HIDE DEF v
    <3>6. Always(v) \in Expression /\ \A a \in Assignment : Always(v)[a] = v BY <3>3, AlwaysOK
    <3>7. /\ StateOK(f(t)) /\ f(t).inputs = t.inputs
          /\ \A a \in Assignment : View(f(t), a) = Yields(View(t, a), Always(v)[a])
      BY <1>4, <3>1, <3>5, <3>6, YieldOK
    <3>8. ASSUME NEW a \in t.inputs PROVE Moves(s, a, View(f(t), a))
      <4>1. a \in s.inputs /\ a \in Assignment /\ e[a] = b /\ View(t, a) = View(s, a) BY <1>5, <3>1
      <4>2. View(f(t), a) = Yields(View(s, a), v) BY <3>6, <3>7, <4>1
      <4>3. Names(a, View(s, a), k, Yields(View(s, a), v)) BY <1>3, <1>7, <3>1, <3>4, <4>1 DEF Names
      <4> QED BY <1>6, <4>1, <4>2, <4>3
    <3>9. t.inputs # {} BY <3>1, InputsOK
    <3> QED BY <3>1, <3>7, <3>8, <3>9 DEF PieceOK
  <2>2. CASE t.end # Running BY <1>9, <2>2 DEF Split
  <2> QED BY <2>1, <2>2
<1> HIDE DEF f
<1>11. \A t \in K : PieceOK(s, F[t]) /\ F[t].inputs = t.inputs BY <1>10
<1>13. {F[t] : t \in K} = {f(t) : t \in K} OBVIOUS
<1> HIDE DEF F
<1>12. Good(s, {F[t] : t \in K}) BY <1>9, <1>11, GoodMap
<1>14. P \in Kept(s, {f(t) : t \in K}) BY <1>1 DEF K, f
<1> QED BY <1>12, <1>13, <1>14, GoodKept

\* An object with other bytes.
LEMMA ObjectBytes ==
  ASSUME NEW o, SymbolicObjectOK(o), NEW B \in [0 .. o.size - 1 -> [Assignment -> Octet]],
         NEW x, x = [o EXCEPT !.bytes = B]
  PROVE  SymbolicObjectOK(x) /\ x.size = o.size /\ x.kind = o.kind /\ x.bytes = B
<1>1. o.size \in 0 .. Unsigned - 1 /\ o.kind \in Kind BY DEF SymbolicObjectOK
<1>2. x = [size |-> o.size, kind |-> o.kind, bytes |-> B] BY DEF SymbolicObjectOK
<1>3. SymbolicObjectOK(x) BY <1>1, <1>2, ObjectIs
<1> QED BY <1>2, <1>3

\* An object with other bytes.
LEMMA ObjectRead ==
  ASSUME NEW o, SymbolicObjectOK(o), NEW a, NEW G, NEW c, c = ObjectOf(o, a), NEW d, d = [c EXCEPT !.bytes = G]
  PROVE  d = [size |-> o.size, kind |-> o.kind, bytes |-> G]
<1> DEFINE X == [i \in DOMAIN o.bytes |-> o.bytes[i][a]]
<1>1. ObjectOf(o, a) = [o EXCEPT !.bytes = X] BY DEF ObjectOf
<1> HIDE DEF X
<1>2. c = [size |-> o.size, kind |-> o.kind, bytes |-> X] BY <1>1 DEF SymbolicObjectOK
<1> QED BY <1>2

\* The bytes of the next array.
LEMMA ArrayOK ==
  ASSUME NEW t, StateOK(t), t.made < MaxArrays, NEW b \in DOMAIN t.mem
  PROVE  /\ BytesOfArray(t, b) \in [0 .. t.mem[b].size - 1 -> [Assignment -> Octet]]
         /\ \A a \in Assignment :
              [i \in 0 .. t.mem[b].size - 1 |-> BytesOfArray(t, b)[i][a]]
                = [i \in 0 .. t.mem[b].size - 1 |-> Given[<<a, t.made + 1, i>>]]
<1> DEFINE n == t.mem[b].size
           m == t.made + 1
<1>1. MemoryOK(t.mem) /\ t.made \in 0 .. MaxArrays BY DEF StateOK
<1>2. n \in Nat /\ n < Unsigned BY <1>1, MemoryNumbers
<1>3. Given \in [Assignment \X (1 .. MaxArrays) \X (0 .. Unsigned - 1) -> Octet] /\ MaxArrays \in Nat /\ Unsigned \in Nat
  BY MachineAssumption
<1>4. m \in 1 .. MaxArrays BY <1>1, <1>3
<1> HIDE DEF n, m
<1>5. \A i \in 0 .. n - 1 : i \in 0 .. Unsigned - 1 BY <1>2, <1>3
<1>6. \A a \in Assignment, i \in 0 .. n - 1 : Given[<<a, m, i>>] \in Octet BY <1>3, <1>4, <1>5
<1>7. BytesOfArray(t, b) = [i \in 0 .. n - 1 |-> [a \in Assignment |-> Given[<<a, m, i>>]]]
  BY Zenon DEF BytesOfArray, n, m
<1>8. BytesOfArray(t, b) \in [0 .. n - 1 -> [Assignment -> Octet]] BY <1>6, <1>7
<1>9. ASSUME NEW a \in Assignment
      PROVE  [i \in 0 .. n - 1 |-> BytesOfArray(t, b)[i][a]] = [i \in 0 .. n - 1 |-> Given[<<a, m, i>>]]
  BY <1>7
<1> QED BY <1>8, <1>9 DEF n, m

\* A configuration with an object made symbolic.
LEMMA OpenedForm ==
  ASSUME NEW c, ConfigShape(c), NEW b, NEW G, NEW o, [c.mem[b] EXCEPT !.bytes = G] = o
  PROVE  Opened(c, b, G)
           = ConfigOf(c.pc, c.from, c.regs, c.locals, c.callers, With(c.mem, b, o), c.forking, c.made + 1)
<1> DEFINE M == With(c.mem, b, [c.mem[b] EXCEPT !.bytes = G])
           m == c.made + 1
<1>1. Opened(c, b, G) = [c EXCEPT !.mem = M, !.made = m] BY DEF Opened
<1>2. M = With(c.mem, b, o) OBVIOUS
<1> HIDE DEF M, m
<1>3. [c EXCEPT !.mem = M, !.made = m] = ConfigOf(c.pc, c.from, c.regs, c.locals, c.callers, M, c.forking, m)
  BY Zenon, ConfigMade
<1> QED BY <1>1, <1>2, <1>3 DEF m

\* An object made symbolic has, on each input, the bytes of that input's array.
LEMMA OpenedOK ==
  ASSUME NEW t, StateOK(t), t.made < MaxArrays, NEW b \in DOMAIN t.mem
  PROVE  LET u == Opened(t, b, BytesOfArray(t, b)) IN
         /\ StateOK(u) /\ u.inputs = t.inputs /\ u.pc = t.pc
         /\ \A a \in Assignment :
              View(u, a) = Opened(View(t, a), b, [i \in 0 .. t.mem[b].size - 1 |-> Given[<<a, t.made + 1, i>>]])
<1> DEFINE B == BytesOfArray(t, b)
           o == t.mem[b]
           x == [o EXCEPT !.bytes = B]
           M == With(t.mem, b, x)
           m == t.made + 1
           u == Opened(t, b, B)
<1>1. MemoryOK(t.mem) /\ t.made \in 0 .. MaxArrays BY DEF StateOK
<1>2. SymbolicObjectOK(o) BY <1>1 DEF MemoryOK
<1>3. /\ B \in [0 .. o.size - 1 -> [Assignment -> Octet]]
      /\ \A a \in Assignment : [i \in 0 .. o.size - 1 |-> B[i][a]] = [i \in 0 .. o.size - 1 |-> Given[<<a, m, i>>]]
  BY ArrayOK
<1>4. u = [t EXCEPT !.mem = M, !.made = m] BY Zenon DEF Opened
<1>5. FieldsOK(t.inputs, t.pc, t.from, t.regs, t.locals, t.callers, t.mem, t.forking, t.made) BY StateElim
<1>6. m \in 0 .. MaxArrays BY <1>1, MachineAssumption
<1> HIDE DEF B, m
<1>8. x = [o EXCEPT !.bytes = B] OBVIOUS
<1> HIDE DEF x
<1>7. SymbolicObjectOK(x) /\ x.size = o.size /\ x.kind = o.kind /\ x.bytes = B
  <2> HIDE DEF o
  <2> QED BY <1>2, <1>3, <1>8, ObjectBytes
<1>9. b \in Value \ {0} /\ b + x.size =< Word
      /\ \A q \in DOMAIN t.mem \ {b} : (q < b => q + t.mem[q].size =< b) /\ (b < q => b + x.size =< q)
  <2>1. b \in Value \ {0} /\ b + o.size =< Word BY <1>1 DEF MemoryOK
  <2>2. \A q \in DOMAIN t.mem : (q < b => q + t.mem[q].size =< b) /\ (b < q => b + t.mem[b].size =< q)
    BY <1>1 DEF MemoryOK, Apart
  <2> QED BY <1>7, <2>1, <2>2
<1>10. MemoryOK(M) /\ \A a : MemoryOf(M, a) = With(MemoryOf(t.mem, a), b, ObjectOf(x, a))
  BY <1>1, <1>7, <1>9, MemoryWith
<1> HIDE DEF M
<1>11. u = StateOf(t.inputs, t.pc, t.from, t.regs, t.locals, t.callers, M, t.forking, m)
  BY Zenon, <1>4, ViewShape, StateMade
<1>12. FieldsOK(t.inputs, t.pc, t.from, t.regs, t.locals, t.callers, M, t.forking, m)
  BY <1>5, <1>6, <1>10 DEF FieldsOK
<1>13. ASSUME NEW a \in Assignment
       PROVE  View(u, a) = Opened(View(t, a), b, [i \in 0 .. o.size - 1 |-> Given[<<a, m, i>>]])
  <2> DEFINE c == View(t, a)
             G == [i \in 0 .. o.size - 1 |-> Given[<<a, m, i>>]]
  <2>1. /\ c.pc = t.pc /\ c.from = Entered(t.pc, t.from)
        /\ c.regs = ValuesOf(t.regs, a) /\ c.locals = t.locals
        /\ c.callers = FramesOf(t.callers, a) /\ c.mem = MemoryOf(t.mem, a)
        /\ c.forking = t.forking /\ c.made = t.made
    BY ViewFields
  <2>2. ConfigShape(c) BY ViewShape
  <2>3. c.mem[b] = ObjectOf(o, a)
    <3>1. MemoryOf(t.mem, a)[b] = ObjectOf(o, a) BY DEF MemoryOf
    <3> HIDE DEF c
    <3> QED BY <2>1, <3>1
  <2>10. [i \in 0 .. o.size - 1 |-> B[i][a]] = G BY <1>3
  <2> HIDE DEF c, G
  <2>11. [i \in DOMAIN x.bytes |-> x.bytes[i][a]] = G BY <1>3, <1>7, <2>10
  <2>12. SymbolicObjectOK(x) BY <1>7
  <2>13. x.size = o.size /\ x.kind = o.kind BY <1>7
  <2>14. ObjectOf(x, a) = [size |-> o.size, kind |-> o.kind, bytes |-> G]
    <3> HIDE DEF o
    <3> QED BY <2>11, <2>12, <2>13, ObjectForm
  <2>15. [c.mem[b] EXCEPT !.bytes = G] = [size |-> o.size, kind |-> o.kind, bytes |-> G]
    <3> DEFINE y == c.mem[b]
    <3>1. y = ObjectOf(o, a) BY <2>3
    <3> HIDE DEF o, y
    <3> DEFINE d == [y EXCEPT !.bytes = G]
    <3>2. d = [y EXCEPT !.bytes = G] OBVIOUS
    <3> HIDE DEF d
    <3>3. d = [size |-> o.size, kind |-> o.kind, bytes |-> G] BY <1>2, <3>1, <3>2, ObjectRead
    <3> QED BY <3>3 DEF y, d
  <2>4. [c.mem[b] EXCEPT !.bytes = G] = ObjectOf(x, a) BY Zenon, <2>14, <2>15
  <2>5. Opened(c, b, G) = ConfigOf(c.pc, c.from, c.regs, c.locals, c.callers, With(c.mem, b, ObjectOf(x, a)),
                                   c.forking, c.made + 1)
    BY Zenon, <2>2, <2>4, OpenedForm
  <2>6. With(c.mem, b, ObjectOf(x, a)) = MemoryOf(M, a) BY Zenon, <1>10, <2>1
  <2>7. c.made + 1 = m BY <2>1 DEF m
  <2>8. View(u, a) = ConfigOf(t.pc, Entered(t.pc, t.from), ValuesOf(t.regs, a), t.locals, FramesOf(t.callers, a),
                              MemoryOf(M, a), t.forking, m)
    BY <1>11, ViewForm
  <2>9. View(u, a) = Opened(c, b, G) BY <2>1, <2>5, <2>6, <2>7, <2>8
  <2> QED BY <2>9 DEF c, G
<1> HIDE DEF u
<1>14. StateOK(u) /\ u.inputs = t.inputs /\ u.pc = t.pc BY <1>11, <1>12, StateIntro, StateFields
<1> QED BY <1>13, <1>14 DEF u, m, B

\* A case of Names is a move.
LEMMA NamesMoves ==
  ASSUME NEW s, StateOK(s), Proper(s), NEW a \in s.inputs, NEW d, Names(a, View(s, a), Code[s.pc], d)
  PROVE  Moves(s, a, d)
  BY StepIntro DEF Moves, Proper

\* An effect of another input of the path is a move.
LEMMA ConfusedMoves ==
  ASSUME NEW s, NEW a, NEW b \in s.inputs, NEW d, Confused(View(s, a), View(s, b), d)
  PROVE  Moves(s, a, d)
  BY DEF Moves

\* What klee_make_symbolic does where all inputs name one object.
LEMMA SymbolicPiece ==
  ASSUME NEW s, StateOK(s), Proper(s), Code[s.pc].op = "make_symbolic", s.made < MaxArrays,
         NEW e, NEW n, EvalIn(s, Code[s.pc].address) = e, EvalIn(s, Code[s.pc].size) = n,
         NEW t, AtOneBase(s, e, t)
  PROVE  PieceOK(s, Symbolic(t, e, n)) /\ Symbolic(t, e, n).inputs = t.inputs
<1> DEFINE k == Code[s.pc]
           b == The(t, e)
           p == Symbolic(t, e, n)
<1>1. /\ StateOK(t) /\ t.pc = s.pc /\ t.mem = s.mem /\ t.made = s.made /\ b \in DOMAIN s.mem
      /\ t.inputs \subseteq s.inputs /\ (\A a : View(t, a) = View(s, a))
      /\ \A a \in t.inputs : e[a] = b
  BY DEF AtOneBase, Narrows
<1>2. k.address \in Operands(k) /\ k.size \in Operands(k) BY DEF Operands
<1>3. \A a \in Assignment : Eval(View(s, a), k.address) = e[a] /\ Eval(View(s, a), k.size) = n[a]
  BY <1>2, OperandOK
<1>4. k.op \notin Leaving /\ ~Invokes(k) BY DEF Leaving, Invokes
<1>5. s.inputs \subseteq Assignment /\ t.inputs # {} BY <1>1, InputsOK
<1>6. \A a : /\ View(s, a).mem[b].size = s.mem[b].size /\ View(s, a).mem[b].kind = s.mem[b].kind
             /\ b \in DOMAIN View(s, a).mem /\ View(s, a).made = s.made
  <2> TAKE a
  <2>1. SameObjects(View(s, a).mem, s.mem, a) BY ViewObjects
  <2>2. View(s, a).made = s.made BY ViewFields
  <2> QED BY <1>1, <2>1, <2>2 DEF SameObjects
<1>7. p = IF t.mem[b].kind = "readonly" \/ \E a \in t.inputs : n[a] # t.mem[b].size THEN Fail(t, "user")
          ELSE Advance(Opened(t, b, BytesOfArray(t, b)))
  BY DEF Symbolic
<1> HIDE DEF b, p
<1>8. CASE t.mem[b].kind = "readonly" \/ \E a \in t.inputs : n[a] # t.mem[b].size
  <2>1. p = Fail(t, "user") BY <1>7, <1>8
  <2>2. "user" # Running BY DEF Running
  <2>3. p.inputs = t.inputs /\ p.end = "user" /\ \A a : View(p, a) = Ended("user") BY <2>1, <2>2, FailFields
  <2>4. ASSUME NEW a \in t.inputs PROVE Moves(s, a, Ended("user"))
    <3>1. a \in s.inputs /\ a \in Assignment /\ e[a] = b BY <1>1, <1>5
    <3>2. Eval(View(s, a), k.address) = b /\ Eval(View(s, a), k.size) = n[a] BY <1>3, <3>1
    <3>3. CASE s.mem[b].kind = "readonly" \/ n[a] # s.mem[b].size
      <4>1. Names(a, View(s, a), k, Ended("user")) BY <1>6, <3>2, <3>3 DEF Names
      <4> QED BY <3>1, <4>1, NamesMoves
    <3>4. CASE ~(s.mem[b].kind = "readonly" \/ n[a] # s.mem[b].size)
      <4>1. PICK c \in t.inputs : n[c] # t.mem[b].size BY <1>1, <1>8, <3>4
      <4>2. c \in s.inputs /\ c \in Assignment /\ e[c] = b /\ n[c] # s.mem[b].size BY <1>1, <1>5, <4>1
      <4>3. n[a] # n[c] BY <3>4, <4>2
      <4>4. DiffersFrom(View(s, a), View(s, c)) BY <1>2, <3>1, <4>2, <4>3, DiffersIntro
      <4>5. Eval(View(s, c), k.address) = b /\ Eval(View(s, c), k.size) = n[c] BY <1>3, <4>2
      <4>6. View(s, a).pc = s.pc BY ViewFields
      <4>7. Confused(View(s, a), View(s, c), Ended("user"))
        BY <1>6, <3>2, <4>2, <4>4, <4>5, <4>6 DEF Confused
      <4> QED BY <4>2, <4>7, ConfusedMoves
    <3> QED BY <3>3, <3>4
  <2>5. PieceOK(s, p) BY <1>1, <1>5, <2>2, <2>3, <2>4 DEF PieceOK
  <2> QED BY <2>3, <2>5 DEF p
<1>9. CASE ~(t.mem[b].kind = "readonly" \/ \E a \in t.inputs : n[a] # t.mem[b].size)
  <2> DEFINE u == Opened(t, b, BytesOfArray(t, b))
  <2>1. p = Advance(u) BY <1>7, <1>9
  <2>2. t.made < MaxArrays /\ b \in DOMAIN t.mem BY <1>1
  <2>3. /\ StateOK(u) /\ u.inputs = t.inputs /\ u.pc = t.pc
        /\ \A a \in Assignment :
             View(u, a) = Opened(View(t, a), b, [i \in 0 .. t.mem[b].size - 1 |-> Given[<<a, t.made + 1, i>>]])
    BY <1>1, <2>2, OpenedOK
  <2> HIDE DEF u
  <2>4. Code[u.pc].op \notin Leaving /\ ~Invokes(Code[u.pc]) BY <1>1, <1>4, <2>3
  <2>5. StateOK(p) /\ p.inputs = t.inputs /\ \A a : View(p, a) = Proceeds(View(u, a))
    BY <2>1, <2>3, <2>4, ProceedOK
  <2>6. ASSUME NEW a \in t.inputs PROVE Moves(s, a, View(p, a))
    <3>1. a \in s.inputs /\ a \in Assignment /\ e[a] = b /\ View(t, a) = View(s, a) BY <1>1, <1>5
    <3> DEFINE G == [i \in 0 .. s.mem[b].size - 1 |-> Given[<<a, s.made + 1, i>>]]
               H == [i \in 0 .. View(s, a).mem[b].size - 1 |-> Given[<<a, View(s, a).made + 1, i>>]]
    <3>2. Eval(View(s, a), k.address) = b /\ Eval(View(s, a), k.size) = n[a] BY <1>3, <3>1
    <3>3. s.mem[b].kind # "readonly" /\ n[a] = s.mem[b].size BY <1>1, <1>9
    <3>4. G = H BY <1>6
    <3>5. View(p, a) = Proceeds(Opened(View(s, a), b, G)) BY <1>1, <2>3, <2>5, <3>1
    <3>6. Names(a, View(s, a), k, Proceeds(Opened(View(s, a), b, H))) BY <1>6, <3>2, <3>3 DEF Names
    <3> HIDE DEF G, H
    <3> QED BY <3>1, <3>4, <3>5, <3>6, NamesMoves
  <2>7. PieceOK(s, p) BY <1>1, <1>5, <2>5, <2>6 DEF PieceOK
  <2> QED BY <2>5, <2>7 DEF p
<1> QED BY <1>8, <1>9

\* The states klee_make_symbolic does not come to.
LEMMA SkippedPiece ==
  ASSUME NEW s, StateOK(s), Code[s.pc].op = "make_symbolic",
         NEW e, EvalIn(s, Code[s.pc].address) = e,
         NEW t, AtOneBase(s, e, t), NEW r, AtOneBase(s, e, r), The(t, e) # The(r, e),
         s.mem[The(r, e)].kind = "readonly"
  PROVE  PieceOK(s, Advance(t)) /\ Advance(t).inputs = t.inputs
<1> DEFINE k == Code[s.pc]
           b == The(r, e)
<1>1. /\ StateOK(t) /\ t.pc = s.pc /\ t.inputs \subseteq s.inputs /\ (\A a : View(t, a) = View(s, a))
      /\ \A a \in t.inputs : e[a] = The(t, e)
  BY DEF AtOneBase, Narrows
<1>2. /\ r.inputs \subseteq s.inputs /\ r.inputs # {} /\ b \in DOMAIN s.mem
      /\ \A a \in r.inputs : e[a] = b
  BY InputsOK DEF AtOneBase, Narrows
<1> HIDE DEF b
<1>3. k.address \in Operands(k) BY DEF Operands
<1>4. \A a \in Assignment : Eval(View(s, a), k.address) = e[a] BY <1>3, OperandOK
<1>5. k.op \notin Leaving /\ ~Invokes(k) BY DEF Leaving, Invokes
<1>6. s.inputs \subseteq Assignment /\ t.inputs # {} BY <1>1, InputsOK
<1>7. Code[t.pc].op \notin Leaving /\ ~Invokes(Code[t.pc]) BY <1>1, <1>5
<1>8. StateOK(Advance(t)) /\ Advance(t).inputs = t.inputs /\ \A a : View(Advance(t), a) = Proceeds(View(t, a))
  BY <1>1, <1>7, ProceedOK
<1>9. PICK c \in r.inputs : TRUE BY <1>2
<1>10. c \in s.inputs /\ c \in Assignment /\ e[c] = b BY <1>2, <1>6, <1>9
<1>11. ASSUME NEW a \in t.inputs PROVE Moves(s, a, Proceeds(View(s, a)))
  <2>1. a \in s.inputs /\ a \in Assignment /\ e[a] # e[c] BY <1>1, <1>6, <1>10 DEF b
  <2>2. DiffersFrom(View(s, a), View(s, c)) BY <1>3, <1>10, <2>1, DiffersIntro
  <2>3. Eval(View(s, c), k.address) = b BY <1>4, <1>10
  <2>4. SameObjects(View(s, c).mem, s.mem, c) BY ViewObjects
  <2>5. b \in DOMAIN View(s, c).mem /\ View(s, c).mem[b].kind = "readonly" BY <1>2, <2>4 DEF SameObjects, b
  <2>6. View(s, a).pc = s.pc BY ViewFields
  <2>7. Confused(View(s, a), View(s, c), Proceeds(View(s, a))) BY <2>2, <2>3, <2>5, <2>6 DEF Confused
  <2> QED BY <1>10, <2>7, ConfusedMoves
<1> QED BY <1>1, <1>6, <1>8, <1>11 DEF PieceOK

\* klee_make_symbolic, with its early return at a read-only object.
LEMMA MakeSymbolicGood ==
  ASSUME NEW s, StateOK(s), Proper(s), Code[s.pc].op = "make_symbolic", s.made < MaxArrays,
         NEW P \in MakeSymbolic(s, Code[s.pc])
  PROVE  Good(s, P)
<1> DEFINE k == Code[s.pc]
           e == EvalIn(s, k.address)
           n == EvalIn(s, k.size)
<1>1. PICK x \in Examples(s, e) : \E K \in Kept(s, Exactly(s, e, x)) : P \in Named(e, n, K) BY DEF MakeSymbolic
<1>2. PICK K \in Kept(s, Exactly(s, e, x)) : P \in Named(e, n, K) BY <1>1
<1> DEFINE Live     == {t \in K : t.end = Running}
           Readonly == {t \in Live : t.mem[The(t, e)].kind = "readonly"}
           Handled  == {H \in SUBSET Live : IF Readonly = {} THEN H = Live
                                       ELSE \E r \in Readonly : H \intersect Readonly = {r}}
<1>3. P \in {(K \ Live) \union {Symbolic(t, e, n) : t \in H} \union {Advance(t) : t \in Live \ H} : H \in Handled}
  <2> HIDE DEF e, n
  <2>1. P \in Named(e, n, K) BY <1>2
  <2> QED BY <2>1 DEF Named
<1> HIDE DEF Handled, Live
<1>4. PICK H \in Handled :
        P = (K \ Live) \union {Symbolic(t, e, n) : t \in H} \union {Advance(t) : t \in Live \ H}
  BY <1>3
<1> USE DEF Handled, Live
<1>5. /\ H \subseteq Live
      /\ \A t \in Live \ H : \E r \in Live : r # t /\ r.mem[The(r, e)].kind = "readonly"
  <2> HIDE DEF e
  <2> HIDE DEF Live
  <2>1. H \subseteq Live /\ IF Readonly = {} THEN H = Live ELSE \E r \in Readonly : H \intersect Readonly = {r}
    <3> HIDE DEF Readonly
    <3> QED OBVIOUS
  <2>2. CASE Readonly = {} BY <2>1, <2>2
  <2>3. CASE Readonly # {}
    <3>1. PICK r \in Readonly : H \intersect Readonly = {r} BY <2>1, <2>3
    <3>2. r \in Live /\ r.mem[The(r, e)].kind = "readonly" OBVIOUS
    <3>3. r \in H BY <3>1
    <3> QED BY <2>1, <3>2, <3>3
  <2> QED BY <2>2, <2>3
<1>6. k.address \in Operands(k) BY DEF Operands
<1>7. e \in Expression /\ \A a \in Assignment : Eval(View(s, a), k.address) = e[a] BY <1>6, OperandOK
<1>8. ASSUME NEW a \in s.inputs, e[a] \notin DOMAIN s.mem PROVE Moves(s, a, Ended("ptr"))
  <2>1. Eval(View(s, a), k.address) = e[a] BY <1>7, InputsOK
  <2>2. DOMAIN View(s, a).mem = DOMAIN s.mem BY ViewObjects DEF SameObjects
  <2> HIDE DEF e
  <2>3. Names(a, View(s, a), k, Ended("ptr")) BY <1>8, <2>1, <2>2 DEF Names
  <2> QED BY <2>3, NamesMoves
<1> DEFINE X == Exactly(s, e, x)
<1>9. /\ Split(s, X) /\ \A p \in X : IF p.end = Running THEN AtOneBase(s, e, p) ELSE AtNoBase(s, e, p)
  <2> HIDE DEF e
  <2> QED BY <1>7, <1>8, ExactlySplit
<1>10. \A p, q \in X : p.end = Running /\ q.end = Running /\ p # q => The(p, e) # The(q, e)
  BY ExactlyBases
<1>11. EvalIn(s, k.address) = e /\ EvalIn(s, k.size) = n OBVIOUS
<1> HIDE DEF X, e, n, Handled, Readonly
<1>12. K \in Kept(s, X) BY DEF X, e
<1>13. K \subseteq X /\ Split(s, K) BY <1>9, <1>12, KeptSubset, SplitKept
<1> DEFINE f(t) == IF t \notin Live THEN t ELSE IF t \in H THEN Symbolic(t, e, n) ELSE Advance(t)
           F == [t \in K |-> f(t)]
<1>14. ASSUME NEW t \in K PROVE PieceOK(s, f(t)) /\ f(t).inputs = t.inputs
  <2>1. CASE t \notin Live BY <1>13, <2>1 DEF Split
  <2>2. CASE t \in Live /\ t \in H
    <3>1. AtOneBase(s, e, t) BY <1>9, <1>13, <2>2
    <3>2. f(t) = Symbolic(t, e, n) BY <2>2
    <3> HIDE DEF f, k
    <3> QED BY <1>11, <3>1, <3>2, SymbolicPiece DEF k
  <2>3. CASE t \in Live /\ t \notin H
    <3>1. PICK r \in Live : r # t /\ r.mem[The(r, e)].kind = "readonly" BY <1>5, <2>3
    <3>2. AtOneBase(s, e, t) /\ AtOneBase(s, e, r) BY <1>9, <1>13, <2>3
    <3>3. The(t, e) # The(r, e) BY <1>10, <1>13, <2>3, <3>1
    <3>4. s.mem[The(r, e)].kind = "readonly" BY <3>1, <3>2 DEF AtOneBase
    <3>5. f(t) = Advance(t) BY <2>3
    <3> HIDE DEF f, k
    <3> QED BY <1>11, <3>2, <3>3, <3>4, <3>5, SkippedPiece DEF k
  <2> QED BY <2>1, <2>2, <2>3
<1>15. P = {f(t) : t \in K} BY <1>4, <1>5
<1> HIDE DEF f
<1>16. \A t \in K : PieceOK(s, F[t]) /\ F[t].inputs = t.inputs BY <1>14
<1>17. P = {F[t] : t \in K} BY <1>15
<1> HIDE DEF F
<1> QED BY <1>13, <1>16, <1>17, GoodMap

(* Calls.                                                                          *)

\* Sets of numbers have a least element: the search for objects comes to one
\* of them first.
LEMMA LeastNumber ==
  ASSUME NEW T \in SUBSET Nat, T # {}
  PROVE  \E m \in T : \A k \in T : m <= k
<1> DEFINE Below == {0 .. k : k \in T}
<1>1. Below \subseteq FiniteSubsetsOf(Nat)
  <2>1. ASSUME NEW k \in T PROVE 0 .. k \in SUBSET Nat /\ IsFiniteSet(0 .. k)
    BY FS_Interval
  <2> QED
    BY <2>1 DEF FiniteSubsetsOf
<1>2. PICK B \in Below : \A C \in Below : ~(<<C, B>> \in StrictSubsetOrdering(Nat))
  <2>1. Below # {}
    OBVIOUS
  <2> HIDE DEF Below
  <2> QED
    BY <1>1, <2>1, WFMin, FS_StrictSubsetOrderingWellFounded
<1>3. PICK m \in T : B = 0 .. m
  OBVIOUS
<1>4. ASSUME NEW k \in T PROVE m <= k
  <2>1. SUFFICES ASSUME k < m PROVE FALSE
    OBVIOUS
  <2>2. 0 .. k \subseteq 0 .. m /\ 0 .. k # 0 .. m /\ 0 .. k \in SUBSET Nat /\ 0 .. m \in SUBSET Nat
    <3>1. m \in 0 .. m /\ m \notin 0 .. k
      BY <2>1
    <3> QED
      BY <2>1, <3>1
  <2>3. 0 .. k \in Below
    OBVIOUS
  <2> QED
    BY <1>2, <1>3, <2>2, <2>3 DEF StrictSubsetOrdering
<1> QED
  BY <1>4

\* The search from x comes to one of the objects first.
LEMMA SoonestObject ==
  ASSUME NEW T \in SUBSET Nat, T # {}, NEW x \in Nat
  PROVE  \E b \in T : \A q \in T : ~Sooner(x, q, b)
<1>1. CASE \E b \in T : b =< x
  <2> DEFINE D == {x - b : b \in {c \in T : c =< x}}
  <2>1. D \in SUBSET Nat /\ D # {} BY <1>1
  <2> HIDE DEF D
  <2>2. PICK m \in D : \A k \in D : m <= k BY <2>1, LeastNumber
  <2>3. PICK b \in T : b =< x /\ m = x - b BY DEF D
  <2>4. ASSUME NEW q \in T PROVE ~Sooner(x, q, b)
    <3>1. CASE q =< x
      <4>1. x - q \in D BY <3>1 DEF D
      <4>2. x - b =< x - q BY <2>2, <2>3, <4>1
      <4> QED BY <2>3, <3>1, <4>2 DEF Sooner
    <3>2. CASE ~(q =< x) BY <2>3, <3>2 DEF Sooner
    <3> QED BY <3>1, <3>2
  <2> QED BY <2>4
<1>2. CASE ~\E b \in T : b =< x
  <2>1. PICK b \in T : \A q \in T : b <= q BY LeastNumber
  <2>2. \A q \in T : ~Sooner(x, q, b) BY <1>2, <2>1 DEF Sooner
  <2> QED BY <2>2
<1> QED BY <1>1, <1>2

\* The search finds objects in an order.
LEMMA SoonerTotal ==
  ASSUME NEW x \in Nat, NEW b \in Nat, NEW c \in Nat, b # c
  PROVE  Sooner(x, b, c) \/ Sooner(x, c, b)
  BY DEF Sooner

\* An example is a value.
LEMMA ExampleOK ==
  ASSUME NEW t, t.inputs \subseteq Assignment, NEW e \in Expression, NEW x \in Examples(t, e)
  PROVE  x \in Nat /\ x \in Value
<1>1. \A a \in t.inputs : e[a] \in Value BY DEF Expression
<1>2. x = 0 \/ \E a \in t.inputs : x = e[a] BY DEF Examples
<1> QED BY <1>1, <1>2, SmallValues

\* The arguments of a call.
LEMMA ArgsOK ==
  ASSUME NEW s, StateOK(s), Code[s.pc].op \in Calling
  PROVE  /\ ArgsIn(s) \in Seq(Expression) /\ s.pc \in CallSite
         /\ \A a \in Assignment : Args(View(s, a)) = [j \in DOMAIN ArgsIn(s) |-> ArgsIn(s)[j][a]]
<1> DEFINE A == Code[s.pc].args
<1>1. s.pc \in DOMAIN Code BY DEF StateOK
<1>2. A \in Seq(Operand) BY <1>1, CodeAssumption DEF WellFormed
<1>3. \A j \in DOMAIN A : A[j] \in Operand BY <1>2
<1>4. ArgsIn(s) = [j \in DOMAIN A |-> EvalIn(s, A[j])] BY DEF ArgsIn
<1>5. \A a : Args(View(s, a)) = [j \in DOMAIN A |-> Eval(View(s, a), A[j])]
  <2> TAKE a
  <2>1. View(s, a).pc = s.pc BY ViewFields
  <2> QED BY <2>1 DEF Args
<1>6. DOMAIN A = 1 .. Len(A) /\ Len(A) \in Nat BY <1>2
<1>7. \A j \in DOMAIN A : EvalIn(s, A[j]) \in Expression BY <1>3, EvalOK
<1>8. \A a \in Assignment, j \in DOMAIN A : Eval(View(s, a), A[j]) = EvalIn(s, A[j])[a] BY <1>3, EvalOK
<1> HIDE DEF A
<1>9. ArgsIn(s) \in Seq(Expression)
  <2> DEFINE n == Len(A)
  <2>1. ArgsIn(s) \in [1 .. n -> Expression] BY <1>4, <1>6, <1>7
  <2> HIDE DEF n
  <2>2. n \in Nat BY <1>6 DEF n
  <2> QED BY <2>1, <2>2
<1>10. \A a \in Assignment : Args(View(s, a)) = [j \in DOMAIN ArgsIn(s) |-> ArgsIn(s)[j][a]]
  <2> TAKE a \in Assignment
  <2>1. DOMAIN ArgsIn(s) = DOMAIN A /\ \A j \in DOMAIN A : ArgsIn(s)[j] = EvalIn(s, A[j]) BY <1>4
  <2> QED BY <1>5, <1>8, <2>1
<1> QED BY <1>1, <1>9, <1>10 DEF CallSite

\* A call whose buffer is checked: t is the state in the function.
LEMMA BoundGood ==
  ASSUME NEW s, StateOK(s), NEW t, StateOK(t), t.inputs = s.inputs,
         NEW e \in Expression, NEW n \in Expression, NEW x \in Examples(t, e),
         \A a \in s.inputs :
           (\E b \in DOMAIN t.mem : Reaches(t.mem[b], b, e[a], n[a])) => Moves(s, a, View(t, a)),
         \A a \in s.inputs :
           (\A b \in DOMAIN t.mem : Covers(t.mem[b], b, e[a]) => ~Reaches(t.mem[b], b, e[a], n[a]))
             => Moves(s, a, Ended("ptr"))
  PROVE  Good(s, CheckOutofBound(t, e, n, x))
<1> DEFINE R == Resolved(t, e, x)
           A(b) == ReachedBy(t, e, n, x, b)
           N == t.inputs \ UNION {A(b) : b \in R}
           z == Fail(On(t, N), "ptr")
           Q == {On(t, A(b)) : b \in R} \union {z}
<1>1. CheckOutofBound(t, e, n, x) = Feasible(Q) BY DEF CheckOutofBound
<1>2. PartOK(t)
  <2>1. t.inputs \subseteq t.inputs OBVIOUS
  <2> QED BY <2>1, StatePartOK
<1>3. /\ R \subseteq DOMAIN t.mem
      /\ \A a \in t.inputs, b \in DOMAIN t.mem : Covers(t.mem[b], b, e[a]) => b \in R
  BY <1>2, ResolutionComplete
<1>4. t.inputs \subseteq Assignment /\ x \in Nat BY InputsOK, ExampleOK
<1>5. R \subseteq Nat
  <2>1. \A b \in DOMAIN t.mem : b \in Nat BY <1>2, MemoryNumbers DEF PartOK
  <2> QED BY <1>3, <2>1
<1>6. \A b : /\ A(b) \subseteq t.inputs
             /\ \A a \in A(b) : /\ Reaches(t.mem[b], b, e[a], n[a])
                                /\ \A q \in R : Sooner(x, q, b) => ~Reaches(t.mem[q], q, e[a], n[a])
  BY DEF ReachedBy
<1>7. ASSUME NEW a \in t.inputs, NEW c \in R, Reaches(t.mem[c], c, e[a], n[a])
      PROVE  \E b \in R : a \in A(b)
  <2> DEFINE T == {b \in R : Reaches(t.mem[b], b, e[a], n[a])}
  <2>1. T \in SUBSET Nat /\ T # {} BY <1>5, <1>7
  <2>2. PICK b \in T : \A q \in T : ~Sooner(x, q, b)
    <3> HIDE DEF T
    <3> QED BY <1>4, <2>1, SoonestObject
  <2>3. b \in R /\ a \in A(b) BY <2>2 DEF ReachedBy
  <2> QED BY <2>3
<1> HIDE DEF A, R
<1>8. \A b : On(t, A(b)).inputs = A(b) BY OnShape
<1>9. z.inputs = N /\ z.end = "ptr" /\ z.end # Running /\ \A a : View(z, a) = Ended("ptr")
  <2>1. "ptr" # Running BY DEF Running
  <2>2. On(t, N).inputs = N BY OnShape
  <2> QED BY <2>1, <2>2, FailFields
<1>10. ASSUME NEW b \in R, NEW c \in R, b # c PROVE A(b) \intersect A(c) = {}
  <2>1. Sooner(x, b, c) \/ Sooner(x, c, b) BY <1>4, <1>5, <1>10, SoonerTotal
  <2> QED BY <1>6, <1>10, <2>1
<1>11. \A b \in R : N \intersect A(b) = {} OBVIOUS
<1>12. ASSUME NEW b \in R PROVE Piece(s, A(b), On(t, A(b)))
  <2>1. A(b) # {} => /\ StateOK(On(t, A(b)))
                     /\ \A a : View(On(t, A(b)), a) = View(t, a)
    BY <1>6, OnOK
  <2>2. \A a \in A(b) : Moves(s, a, View(t, a)) BY <1>3, <1>6
  <2> QED BY <1>8, <2>1, <2>2 DEF Piece
<1>13. Piece(s, N, z)
  <2>1. ASSUME NEW a \in N PROVE Moves(s, a, Ended("ptr"))
    <3>1. a \in t.inputs /\ a \in s.inputs OBVIOUS
    <3>2. \A b \in R : ~Reaches(t.mem[b], b, e[a], n[a]) BY <1>7, <3>1
    <3> QED BY <1>3, <3>1, <3>2
  <2> HIDE DEF z, N
  <2> QED BY <1>9, <2>1 DEF Piece
<1>14. N \subseteq t.inputs OBVIOUS
<1>15. \A a \in t.inputs : a \in N \/ \E b \in R : a \in A(b) OBVIOUS
<1> HIDE DEF N, z
<1>16. Disjoint(Q)
  <2> SUFFICES ASSUME NEW p \in Q, NEW q \in Q, p # q PROVE p.inputs \intersect q.inputs = {}
    BY DEF Disjoint
  <2>1. CASE p = z
    <3>1. PICK b \in R : q = On(t, A(b)) BY <2>1
    <3> QED BY <1>8, <1>9, <1>11, <2>1, <3>1
  <2>2. CASE q = z
    <3>1. PICK b \in R : p = On(t, A(b)) BY <2>2
    <3> QED BY <1>8, <1>9, <1>11, <2>2, <3>1
  <2>3. CASE p # z /\ q # z
    <3>1. PICK b \in R : p = On(t, A(b)) BY <2>3
    <3>2. PICK c \in R : q = On(t, A(c)) BY <2>3
    <3> QED BY <1>8, <1>10, <3>1, <3>2
  <2> QED BY <2>1, <2>2, <2>3
<1>17. \A p \in Q : p.inputs \subseteq s.inputs /\ Piece(s, p.inputs, p)
  BY <1>6, <1>8, <1>9, <1>12, <1>13, <1>14
<1>18. \A a \in s.inputs : Held(Q, a) BY <1>8, <1>9, <1>15 DEF Held
<1> HIDE DEF Q
<1> QED BY <1>1, <1>16, <1>17, <1>18, GoodPieces

\* A call enters the function on every input; a checked one only where the buffer is in
\* an object, and an error is reported for the rest.
LEMMA CallGood ==
  ASSUME NEW s, StateOK(s), Code[s.pc].op \in Calling, NEW f \in DOMAIN Function,
         \A a \in s.inputs : \A d : Enters(View(s, a), Function[f], d) => Moves(s, a, d),
         NEW P \in Call(s, Function[f])
  PROVE  Good(s, P)
<1> DEFINE F == Function[f]
           V == ArgsIn(s)
           t == Push(s, F, V, Always(Junk))
<1>1. /\ V \in Seq(Expression) /\ s.pc \in CallSite
      /\ \A a \in Assignment : Args(View(s, a)) = [j \in DOMAIN V |-> V[j][a]]
  BY ArgsOK
<1>2. s.inputs \subseteq Assignment /\ s.inputs # {} BY InputsOK
<1>3. F.params \in Seq(Reg) /\ F.checked \in BOOLEAN /\ (F.checked => Len(F.params) >= 3) BY CodeAssumption
<1> HIDE DEF V
<1>4. DOMAIN V = 1 .. Len(V) /\ Len(V) \in Nat /\ Len(F.params) \in Nat BY <1>1, <1>3
<1>5. \A a \in s.inputs : Len(Args(View(s, a))) = Len(V)
  <2> TAKE a \in s.inputs
  <2>1. Args(View(s, a)) = [j \in 1 .. Len(V) |-> V[j][a]] BY <1>1, <1>2, <1>4
  <2> QED BY <1>4, <2>1
<1>6. CASE Len(V) < Len(F.params)
  <2>1. P = {Fail(s, "user")} BY <1>6 DEF Call, V
  <2>2. "user" # Running BY DEF Running
  <2>3. \A a \in s.inputs : Moves(s, a, Ended("user"))
    <3> TAKE a \in s.inputs
    <3>1. Enters(View(s, a), F, Ended("user")) BY <1>5, <1>6 DEF Enters
    <3> QED BY <3>1
  <2> QED BY <1>2, <2>1, <2>2, <2>3, GoodFail
<1>7. CASE ~(Len(V) < Len(F.params))
  <2>1. Len(F.params) =< Len(V) BY <1>4, <1>7
  <2>2. /\ StateOK(t) /\ t.inputs = s.inputs /\ t.end = Running /\ t.mem = s.mem
        /\ t.forking = s.forking
        /\ \A a \in Assignment : View(t, a) = Push(View(s, a), F, [j \in DOMAIN V |-> V[j][a]], Junk)
    BY <1>1, <2>1, PushOK
  <2>3. ASSUME NEW a \in s.inputs,
               F.checked => \E b \in DOMAIN View(s, a).mem :
                              Reaches(View(s, a).mem[b], b, Args(View(s, a))[2], Args(View(s, a))[3])
        PROVE  Moves(s, a, View(t, a))
    <3>1. View(t, a) = Push(View(s, a), F, Args(View(s, a)), Junk) BY <1>1, <1>2, <2>2
    <3>2. Enters(View(s, a), F, View(t, a)) BY <1>5, <1>7, <2>3, <3>1 DEF Enters
    <3> QED BY <3>2
  <2>4. CASE ~F.checked
    <3>1. P = {t} BY <1>7, <2>4 DEF Call, V
    <3>2. \A a \in s.inputs : Moves(s, a, View(t, a)) BY <2>3, <2>4
    <3> HIDE DEF t
    <3> QED BY <1>2, <2>2, <3>1, <3>2, GoodOne
  <2>5. CASE F.checked
    <3>1. 2 \in DOMAIN V /\ 3 \in DOMAIN V BY <1>3, <1>4, <2>1, <2>5
    <3>2. V[2] \in Expression /\ V[3] \in Expression BY <1>1, <3>1
    <3>3. ASSUME NEW a \in s.inputs
          PROVE  Args(View(s, a))[2] = V[2][a] /\ Args(View(s, a))[3] = V[3][a]
      <4>1. Args(View(s, a)) = [j \in DOMAIN V |-> V[j][a]] BY Zenon, <1>1, <1>2
      <4> QED BY Zenon, <3>1, <4>1
    <3>4. PICK x \in Examples(t, V[2]) : P \in Kept(t, CheckOutofBound(t, V[2], V[3], x))
      BY <1>7, <2>5 DEF Call, V
    <3> HIDE DEF t
    <3>5. \A a : SameObjects(View(s, a).mem, t.mem, a) BY <2>2, ViewObjects
    <3>6. \A a, b : /\ DOMAIN View(s, a).mem = DOMAIN t.mem
                    /\ \A p, n : b \in DOMAIN t.mem =>
                         /\ Reaches(View(s, a).mem[b], b, p, n) <=> Reaches(t.mem[b], b, p, n)
                         /\ Covers(View(s, a).mem[b], b, p) <=> Covers(t.mem[b], b, p)
      BY <3>5 DEF SameObjects, Reaches, Covers
    <3>7. \A a \in s.inputs :
            (\E b \in DOMAIN t.mem : Reaches(t.mem[b], b, V[2][a], V[3][a])) => Moves(s, a, View(t, a))
      BY <2>3, <3>3, <3>6
    <3>8. \A a \in s.inputs :
            (\A b \in DOMAIN t.mem : Covers(t.mem[b], b, V[2][a]) => ~Reaches(t.mem[b], b, V[2][a], V[3][a]))
              => Moves(s, a, Ended("ptr"))
      <4> SUFFICES ASSUME NEW a \in s.inputs,
                          \A b \in DOMAIN t.mem : Covers(t.mem[b], b, V[2][a]) => ~Reaches(t.mem[b], b, V[2][a], V[3][a])
                   PROVE  Moves(s, a, Ended("ptr"))
        OBVIOUS
      <4>1. Enters(View(s, a), F, Ended("ptr")) BY <1>5, <1>7, <2>5, <3>3, <3>6 DEF Enters
      <4> QED BY <4>1
    <3>9. Good(s, CheckOutofBound(t, V[2], V[3], x)) BY <2>2, <3>2, <3>7, <3>8, BoundGood
    <3> QED BY <2>2, <3>4, <3>9, GoodKept
  <2> QED BY <2>4, <2>5
<1> QED BY <1>6, <1>7

(* Calls through pointers.                                                         *)

\* What becomes of a part t of s, perhaps because of the other parts.
Portion(s, t, X) ==
  /\ \A p \in X : PieceOK(s, p) /\ p.inputs \subseteq t.inputs
  /\ Disjoint(X)
  /\ \A a \in t.inputs : Held(X, a) \/ Moves(s, a, Ended(Early))

\* Portions of all the branches are good together.
LEMMA GoodPortions ==
  ASSUME NEW s, NEW K, Split(s, K), NEW D, \A t \in K : Portion(s, t, D[t])
  PROVE  Good(s, UNION {D[t] : t \in K})
<1> DEFINE P == UNION {D[t] : t \in K}
<1>1. Disjoint(P)
  <2> SUFFICES ASSUME NEW t \in K, NEW u \in K, NEW p \in D[t], NEW q \in D[u], p # q
               PROVE  p.inputs \intersect q.inputs = {}
    BY DEF Disjoint
  <2>1. CASE t = u BY <2>1 DEF Portion, Disjoint
  <2>2. CASE t # u
    <3>1. p.inputs \subseteq t.inputs /\ q.inputs \subseteq u.inputs BY DEF Portion
    <3>2. t.inputs \intersect u.inputs = {} BY <2>2 DEF Split, Disjoint
    <3> QED BY <3>1, <3>2
  <2> QED BY <2>1, <2>2
<1>2. ASSUME NEW a \in s.inputs PROVE Held(P, a) \/ Moves(s, a, Ended(Early))
  <2>1. CASE Held(K, a)
    <3>1. PICK t \in K : a \in t.inputs BY <2>1 DEF Held
    <3>2. Held(D[t], a) \/ Moves(s, a, Ended(Early)) BY <3>1 DEF Portion
    <3> QED BY <3>2 DEF Held
  <2>2. CASE ~Held(K, a) BY <2>2 DEF Split
  <2> QED BY <2>1, <2>2
<1>3. \A p \in P : PieceOK(s, p) BY DEF Portion
<1> QED BY <1>1, <1>2, <1>3 DEF Good

\* Good pieces of a branch are a portion.
LEMMA PortionOfGood ==
  ASSUME NEW s, NEW t, Narrows(s, t), NEW X, Good(t, X)
  PROVE  Portion(s, t, X)
<1>1. t.inputs \subseteq s.inputs BY DEF Narrows
<1>2. \A p \in X : PieceOK(s, p) /\ p.inputs \subseteq t.inputs BY <1>1, MovesWider DEF Good, PieceOK
<1>3. \A a \in t.inputs : Held(X, a) \/ Moves(s, a, Ended(Early)) BY MovesWider DEF Good
<1> QED BY <1>2, <1>3 DEF Good, Portion

\* One piece with the inputs of a branch is a portion.
LEMMA PortionOfOne ==
  ASSUME NEW s, NEW t, NEW p, p.inputs = t.inputs, PieceOK(s, p)
  PROVE  Portion(s, t, {p})
  BY DEF Portion, Disjoint, Held

\* The states of the different pointers.
ByPointer(s, e, K) ==
  /\ Split(s, K)
  /\ \A t \in K : /\ Narrows(s, t) /\ t.inputs # {} /\ t.end = Running /\ t.pc = s.pc
                  /\ \A a \in t.inputs : e[a] = The(t, e)
  /\ \A t, u \in K : t # u => s.forking /\ The(t, e) # The(u, e)

\* A call through a pointer forks on its values.
LEMMA PointersSplit ==
  ASSUME NEW s, StateOK(s), NEW e, NEW K \in Kept(s, {Where(s, e, {x}) : x \in Examples(s, e)})
  PROVE  ByPointer(s, e, K)
<1> DEFINE I(x) == {a \in s.inputs : e[a] \in {x}}
           X == {Where(s, e, {x}) : x \in Examples(s, e)}
<1>1. s.inputs # {} BY InputsOK
<1>2. ASSUME NEW t \in X
      PROVE  /\ Narrows(s, t) /\ t.inputs # {} /\ t.end = Running /\ t.pc = s.pc
             /\ \A a \in t.inputs : e[a] = The(t, e)
             /\ t = Where(s, e, {The(t, e)}) /\ t.inputs = I(The(t, e))
  <2>1. PICK x \in Examples(s, e) : t = On(s, I(x)) BY DEF Where
  <2>2. I(x) \subseteq s.inputs /\ I(x) # {} BY <1>1 DEF Examples
  <2>3. \A a \in I(x) : e[a] = x OBVIOUS
  <2>4. On(s, I(x)) = Where(s, e, {x}) BY DEF Where
  <2> DEFINE J == I(x)
  <2>5. J \subseteq s.inputs /\ J # {} /\ (\A a \in J : e[a] = x) /\ t = On(s, J) BY <2>1, <2>2, <2>3
  <2> HIDE DEF J
  <2>6. Narrows(s, t) /\ t.inputs = J /\ t.end = Running /\ t.pc = s.pc BY <2>5, OnOK, OnNarrows
  <2>7. The(t, e) = x BY <2>5, <2>6, TheOK
  <2> QED BY <2>1, <2>4, <2>5, <2>6, <2>7 DEF J
<1>3. \A t, u \in X : t # u => The(t, e) # The(u, e) BY <1>2
<1>4. \A t, u \in X : The(t, e) # The(u, e) => t.inputs \intersect u.inputs = {} BY <1>2
<1>5. \A a \in s.inputs : Held(X, a)
  <2> TAKE a \in s.inputs
  <2>1. e[a] \in Examples(s, e) BY DEF Examples
  <2>2. Where(s, e, {e[a]}) \in X BY <2>1
  <2>3. Where(s, e, {e[a]}).inputs = I(e[a]) BY OnShape DEF Where
  <2>4. a \in I(e[a]) OBVIOUS
  <2> HIDE DEF X, I
  <2> QED BY <2>2, <2>3, <2>4 DEF Held
<1> HIDE DEF X
<1>6. Split(s, X) BY <1>2, <1>3, <1>4, <1>5 DEF Split, Disjoint
<1>7. K \in Kept(s, X) BY DEF X
<1>8. K \subseteq X /\ (~s.forking => \A p, q \in K : p = q) BY <1>7, KeptSubset
<1>9. Split(s, K) BY <1>6, <1>7, SplitKept
<1>10. s.forking \in BOOLEAN BY DEF StateOK
<1> QED BY <1>2, <1>3, <1>8, <1>9, <1>10 DEF ByPointer

\* The branch of an input has the pointer the input has.
LEMMA PointerOf ==
  ASSUME NEW s, StateOK(s), Code[s.pc].op = "icall", NEW K, ByPointer(s, EvalIn(s, Code[s.pc].pointer), K),
         NEW t \in K, NEW a \in t.inputs
  PROVE  /\ a \in s.inputs /\ a \in Assignment
         /\ EvalIn(s, Code[s.pc].pointer)[a] = The(t, EvalIn(s, Code[s.pc].pointer))
         /\ Eval(View(s, a), Code[s.pc].pointer) = The(t, EvalIn(s, Code[s.pc].pointer))
<1>1. Code[s.pc].pointer \in Operands(Code[s.pc]) BY DEF Operands
<1>2. a \in s.inputs BY DEF ByPointer, Narrows
<1>3. a \in Assignment BY <1>2, InputsOK
<1>4. EvalIn(s, Code[s.pc].pointer)[a] = The(t, EvalIn(s, Code[s.pc].pointer)) BY DEF ByPointer
<1> QED BY <1>1, <1>2, <1>3, <1>4, OperandOK

\* An input of s with another pointer than x, that of a.
Confounded(s, a, x, y) ==
  \E b \in s.inputs : /\ DiffersFrom(View(s, a), View(s, b))
                      /\ Eval(View(s, b), Code[s.pc].pointer) = y /\ y # x
                      /\ View(s, a).forking /\ View(s, a).pc = s.pc

\* The inputs of another pointer confuse those of t.
LEMMA PointersDiffer ==
  ASSUME NEW s, StateOK(s), Code[s.pc].op = "icall", NEW K, ByPointer(s, EvalIn(s, Code[s.pc].pointer), K),
         NEW t \in K, NEW u \in K, t # u, NEW a \in t.inputs
  PROVE  Confounded(s, a, The(t, EvalIn(s, Code[s.pc].pointer)), The(u, EvalIn(s, Code[s.pc].pointer)))
<1> DEFINE e == EvalIn(s, Code[s.pc].pointer)
<1>1. PICK b \in u.inputs : TRUE BY DEF ByPointer
<1>2. s.forking /\ The(t, e) # The(u, e) BY DEF ByPointer
<1>3. /\ a \in Assignment /\ e[a] = The(t, e) BY PointerOf
<1>4. /\ b \in s.inputs /\ b \in Assignment /\ e[b] = The(u, e)
      /\ Eval(View(s, b), Code[s.pc].pointer) = The(u, e)
  BY PointerOf
<1>5. Code[s.pc].pointer \in Operands(Code[s.pc]) BY DEF Operands
<1>6. DiffersFrom(View(s, a), View(s, b)) BY <1>2, <1>3, <1>4, <1>5, DiffersIntro
<1>7. View(s, a).forking = s.forking /\ View(s, a).pc = s.pc BY ViewFields
<1> QED BY <1>2, <1>4, <1>6, <1>7 DEF Confounded

\* An illegal pointer is an error.
LEMMA IllegalPortion ==
  ASSUME NEW s, StateOK(s), Code[s.pc].op = "icall", NEW K, ByPointer(s, EvalIn(s, Code[s.pc].pointer), K),
         NEW t \in K, The(t, EvalIn(s, Code[s.pc].pointer)) \notin DOMAIN FunctionAt
  PROVE  Portion(s, t, {Fail(t, "exec")})
<1>1. "exec" # Running BY DEF Running
<1>2. Fail(t, "exec").inputs = t.inputs /\ Fail(t, "exec").end = "exec"
      /\ \A a : View(Fail(t, "exec"), a) = Ended("exec")
  BY <1>1, FailFields
<1>3. t.inputs \subseteq s.inputs /\ t.inputs # {} BY DEF ByPointer, Narrows
<1>4. ASSUME NEW a \in t.inputs PROVE Moves(s, a, Ended("exec"))
  <2>1. Eval(View(s, a), Code[s.pc].pointer) \notin DOMAIN FunctionAt BY PointerOf
  <2>2. Calls(View(s, a), Code[s.pc], Ended("exec")) BY <2>1 DEF Calls
  <2> QED BY <2>2, StepIntro DEF Moves, Void
<1>5. PieceOK(s, Fail(t, "exec")) BY <1>1, <1>2, <1>3, <1>4 DEF PieceOK
<1> QED BY <1>2, <1>5, PortionOfOne

\* A second illegal pointer goes on after the call.
LEMMA SkippedPortion ==
  ASSUME NEW s, StateOK(s), Code[s.pc].op = "icall", NEW K, ByPointer(s, EvalIn(s, Code[s.pc].pointer), K),
         NEW t \in K, The(t, EvalIn(s, Code[s.pc].pointer)) \notin DOMAIN FunctionAt,
         NEW u \in K, t # u
  PROVE  Portion(s, t, {Advance(t)})
<1>1. Narrows(s, t) /\ t.inputs # {} /\ t.pc = s.pc BY DEF ByPointer
<1>2. /\ StateOK(Advance(t)) /\ Advance(t).inputs = t.inputs /\ Advance(t).end = Running
      /\ \A a : View(Advance(t), a) = Proceeds(View(t, a))
  BY <1>1, ProceedOK DEF Narrows, Leaving, Invokes
<1>3. \A a : View(Advance(t), a) = Proceeds(View(s, a)) BY <1>1, <1>2 DEF Narrows
<1>4. ASSUME NEW a \in t.inputs PROVE Moves(s, a, Proceeds(View(s, a)))
  <2>0. Confounded(s, a, The(t, EvalIn(s, Code[s.pc].pointer)), The(u, EvalIn(s, Code[s.pc].pointer)))
    BY PointersDiffer
  <2>1. PICK b \in s.inputs :
          /\ DiffersFrom(View(s, a), View(s, b))
          /\ Eval(View(s, b), Code[s.pc].pointer) = The(u, EvalIn(s, Code[s.pc].pointer))
          /\ The(u, EvalIn(s, Code[s.pc].pointer)) # The(t, EvalIn(s, Code[s.pc].pointer))
          /\ View(s, a).forking /\ View(s, a).pc = s.pc
    BY <2>0 DEF Confounded
  <2>2. Eval(View(s, a), Code[s.pc].pointer) = The(t, EvalIn(s, Code[s.pc].pointer)) BY PointerOf
  <2>3. Confused(View(s, a), View(s, b), Proceeds(View(s, a))) BY <2>1, <2>2 DEF Confused
  <2> QED BY <2>3, ConfusedMoves
<1>5. PieceOK(s, Advance(t)) BY <1>1, <1>2, <1>3, <1>4 DEF PieceOK, Narrows
<1> QED BY <1>2, <1>5, PortionOfOne

\* A legal pointer calls the function it is.
LEMMA CalledPortion ==
  ASSUME NEW s, StateOK(s), Code[s.pc].op = "icall", NEW K, ByPointer(s, EvalIn(s, Code[s.pc].pointer), K),
         NEW t \in K, The(t, EvalIn(s, Code[s.pc].pointer)) \in DOMAIN FunctionAt,
         NEW X \in Call(t, Function[FunctionAt[The(t, EvalIn(s, Code[s.pc].pointer))]])
  PROVE  Portion(s, t, X)
<1> DEFINE f == FunctionAt[The(t, EvalIn(s, Code[s.pc].pointer))]
<1>1. Narrows(s, t) /\ StateOK(t) /\ t.pc = s.pc BY DEF ByPointer, Narrows
<1>2. f \in DOMAIN Function BY CodeAssumption
<1>3. Code[t.pc].op \in Calling BY <1>1 DEF Calling
<1>4. ASSUME NEW a \in t.inputs, NEW d, Enters(View(t, a), Function[f], d)
      PROVE  Moves(t, a, d)
  <2>1. Eval(View(s, a), Code[s.pc].pointer) = The(t, EvalIn(s, Code[s.pc].pointer)) BY PointerOf
  <2>2. View(t, a) = View(s, a) BY <1>1 DEF Narrows
  <2>3. Calls(View(t, a), Code[t.pc], d) BY <1>1, <1>4, <2>1, <2>2 DEF Calls
  <2>4. Code[t.pc].op \notin Void BY <1>1 DEF Void
  <2>5. Step(a, View(t, a), d) BY <1>1, <2>3, <2>4, StepIntro
  <2> QED BY <2>5 DEF Moves
<1> HIDE DEF f
<1>5. X \in Call(t, Function[f]) BY DEF f
<1>6. Good(t, X) BY <1>1, <1>2, <1>3, <1>4, <1>5, CallGood
<1> QED BY <1>1, <1>6, PortionOfGood

\* The state of the first example, terminated because of another pointer.
Ending(X, p) == {IF q = p THEN Terminated(p) ELSE q : q \in X}

\* A legal call ends where an illegal pointer terminates the state it got.
LEMMA EndingPortion ==
  ASSUME NEW s, StateOK(s), Code[s.pc].op = "icall", NEW K, ByPointer(s, EvalIn(s, Code[s.pc].pointer), K),
         NEW t \in K, The(t, EvalIn(s, Code[s.pc].pointer)) \in DOMAIN FunctionAt,
         NEW u \in K, The(u, EvalIn(s, Code[s.pc].pointer)) \notin DOMAIN FunctionAt,
         NEW X, Portion(s, t, X), NEW p
  PROVE  Portion(s, t, Ending(X, p))
<1> DEFINE g(q) == IF q = p THEN Terminated(p) ELSE q
<1>1. "exec" # Running BY DEF Running
<1>2. ASSUME NEW a \in t.inputs PROVE Moves(s, a, Ended("exec"))
  <2>0. Confounded(s, a, The(t, EvalIn(s, Code[s.pc].pointer)), The(u, EvalIn(s, Code[s.pc].pointer)))
    BY PointersDiffer
  <2>1. PICK b \in s.inputs :
          /\ DiffersFrom(View(s, a), View(s, b))
          /\ Eval(View(s, b), Code[s.pc].pointer) = The(u, EvalIn(s, Code[s.pc].pointer))
          /\ View(s, a).forking /\ View(s, a).pc = s.pc
    BY <2>0 DEF Confounded
  <2>2. Eval(View(s, a), Code[s.pc].pointer) = The(t, EvalIn(s, Code[s.pc].pointer)) BY PointerOf
  <2>3. Confused(View(s, a), View(s, b), Ended("exec")) BY <2>1, <2>2 DEF Confused
  <2> QED BY <2>3, ConfusedMoves
<1>3. ASSUME NEW q \in X PROVE g(q).inputs = q.inputs /\ PieceOK(s, g(q)) /\ q.inputs \subseteq t.inputs
  <2>1. PieceOK(s, q) /\ q.inputs \subseteq t.inputs BY DEF Portion
  <2>2. CASE g(q) = q BY <2>1, <2>2
  <2>3. CASE g(q) = Fail(q, "exec")
    <3>1. /\ Fail(q, "exec").inputs = q.inputs /\ Fail(q, "exec").end = "exec"
          /\ \A a : View(Fail(q, "exec"), a) = Ended("exec")
      BY <1>1, FailFields
    <3>2. PieceOK(s, Fail(q, "exec")) BY <1>1, <1>2, <2>1, <3>1 DEF PieceOK
    <3> QED BY <2>1, <2>3, <3>1, <3>2
  <2>4. g(q) = q \/ g(q) = Fail(q, "exec") BY DEF Terminated
  <2> QED BY <2>2, <2>3, <2>4
<1> HIDE DEF g
<1>4. Ending(X, p) = {g(q) : q \in X} BY DEF Ending, g
<1>5. Disjoint({g(q) : q \in X})
  <2> SUFFICES ASSUME NEW q \in X, NEW r \in X, g(q) # g(r) PROVE g(q).inputs \intersect g(r).inputs = {}
    BY DEF Disjoint
  <2>1. q # r OBVIOUS
  <2>2. q.inputs \intersect r.inputs = {} BY <2>1 DEF Portion, Disjoint
  <2> QED BY <1>3, <2>2
<1>6. \A a \in t.inputs : Held({g(q) : q \in X}, a) \/ Moves(s, a, Ended(Early))
  BY <1>3 DEF Portion, Held
<1>7. \A q \in {g(r) : r \in X} : PieceOK(s, q) /\ q.inputs \subseteq t.inputs BY <1>3
<1> QED BY <1>4, <1>5, <1>6, <1>7 DEF Portion

\* The pieces of the legal pointers, and what becomes of the others.
LEMMA MixedGood ==
  ASSUME NEW s, StateOK(s), Code[s.pc].op = "icall", NEW e, EvalIn(s, Code[s.pc].pointer) = e,
         NEW K, ByPointer(s, e, K),
         NEW F, \A t \in Legal(e, K) : Portion(s, t, F[t]),
         NEW P0, P0 = UNION {F[t] : t \in Legal(e, K)}, NEW P \in Mixed(e, K, P0)
  PROVE  Good(s, P)
<1> DEFINE L == Legal(e, K)
           N == K \ L
<1>1. L \subseteq K /\ \A t \in K : t \in L <=> The(t, e) \in DOMAIN FunctionAt BY DEF Legal
<1>2. ByPointer(s, EvalIn(s, Code[s.pc].pointer), K) OBVIOUS
<1>3. Split(s, K) BY DEF ByPointer
<1>4. \/ N = {} /\ P = P0
      \/ \E t \in N : P = P0 \union {Fail(t, "exec")} \union {Advance(u) : u \in N \ {t}}
      \/ N # {} /\ \E p \in P0 : P = (P0 \ {p}) \union {Terminated(p)} \union {Advance(u) : u \in N}
  BY DEF Mixed
<1>0. P0 = UNION {F[t] : t \in L} OBVIOUS
<1> HIDE DEF L
<1>5. CASE N = {} /\ P = P0
  <2>1. L = K BY <1>1, <1>5
  <2>2. \A t \in K : Portion(s, t, F[t]) BY <2>1 DEF L
  <2>3. P = UNION {F[t] : t \in K} BY <1>0, <1>5, <2>1
  <2> QED BY <1>3, <2>2, <2>3, GoodPortions
<1>6. CASE \E t \in N : P = P0 \union {Fail(t, "exec")} \union {Advance(u) : u \in N \ {t}}
  <2>1. PICK t \in N : P = P0 \union {Fail(t, "exec")} \union {Advance(u) : u \in N \ {t}} BY <1>6
  <2> DEFINE D == [u \in K |-> IF u \in L THEN F[u] ELSE IF u = t THEN {Fail(t, "exec")} ELSE {Advance(u)}]
  <2>2. ASSUME NEW u \in K PROVE Portion(s, u, D[u])
    <3>1. CASE u \in L BY <3>1 DEF L
    <3>2. CASE u \notin L /\ u = t
      <4>1. The(u, EvalIn(s, Code[s.pc].pointer)) \notin DOMAIN FunctionAt BY <1>1, <3>2
      <4>2. Portion(s, u, {Fail(u, "exec")}) BY <1>2, <4>1, IllegalPortion
      <4> QED BY <3>2, <4>2
    <3>3. CASE u \notin L /\ u # t
      <4>1. The(u, EvalIn(s, Code[s.pc].pointer)) \notin DOMAIN FunctionAt BY <1>1, <3>3
      <4>2. t \in K OBVIOUS
      <4>3. Portion(s, u, {Advance(u)}) BY <1>2, <3>3, <4>1, <4>2, SkippedPortion
      <4> QED BY <3>3, <4>3
    <3> QED BY <3>1, <3>2, <3>3
  <2>3. P = UNION {D[u] : u \in K} BY <1>0, <1>1, <2>1
  <2> HIDE DEF D
  <2> QED BY <1>3, <2>2, <2>3, GoodPortions
<1>7. CASE N # {} /\ \E p \in P0 : P = (P0 \ {p}) \union {Terminated(p)} \union {Advance(u) : u \in N}
  <2>1. PICK p \in P0 : P = (P0 \ {p}) \union {Terminated(p)} \union {Advance(u) : u \in N} BY <1>7
  <2>2. PICK r \in L : p \in F[r] BY <1>0
  <2> DEFINE D == [u \in K |-> IF u \in L THEN Ending(F[u], p) ELSE {Advance(u)}]
  <2>5. PICK v \in N : TRUE BY <1>7
  <2>6. v \in K /\ The(v, EvalIn(s, Code[s.pc].pointer)) \notin DOMAIN FunctionAt BY <1>1
  <2>7. ASSUME NEW u \in K PROVE Portion(s, u, D[u])
    <3>1. CASE u \in L
      <4>1. The(u, EvalIn(s, Code[s.pc].pointer)) \in DOMAIN FunctionAt BY <1>1, <3>1
      <4>2. Portion(s, u, F[u]) BY <3>1 DEF L
      <4>3. Portion(s, u, Ending(F[u], p)) BY <1>2, <2>6, <4>1, <4>2, EndingPortion
      <4> QED BY <3>1, <4>3
    <3>2. CASE u \notin L
      <4>1. The(u, EvalIn(s, Code[s.pc].pointer)) \notin DOMAIN FunctionAt BY <1>1, <3>2
      <4>2. r \in K /\ r # u BY <1>1, <3>2
      <4>3. Portion(s, u, {Advance(u)}) BY <1>2, <4>1, <4>2, SkippedPortion
      <4> QED BY <3>2, <4>3
    <3> QED BY <3>1, <3>2
  <2>8. P = UNION {D[u] : u \in K}
    <3>1. \A u \in K : D[u] = IF u \in L THEN Ending(F[u], p) ELSE {Advance(u)} OBVIOUS
    <3> HIDE DEF D
    <3>2. \A q \in P : \E u \in K : q \in D[u]
      <4> TAKE q \in P
      <4>1. CASE q \in P0 \ {p}
        <5>1. PICK u \in L : q \in F[u] BY <1>0, <4>1
        <5>2. q \in Ending(F[u], p) BY <4>1, <5>1 DEF Ending
        <5> QED BY <1>1, <3>1, <5>2
      <4>2. CASE q = Terminated(p)
        <5>1. q \in Ending(F[r], p) BY <2>2, <4>2 DEF Ending
        <5> QED BY <1>1, <3>1, <5>1
      <4>3. CASE q \in {Advance(u) : u \in N}
        <5>1. PICK u \in N : q = Advance(u) BY <4>3
        <5> QED BY <3>1, <5>1
      <4> QED BY <2>1, <4>1, <4>2, <4>3
    <3>3. \A u \in K : \A q \in D[u] : q \in P
      <4> TAKE u \in K
      <4> TAKE q \in D[u]
      <4>1. CASE u \in L
        <5>0. q \in Ending(F[u], p) BY <3>1, <4>1
        <5>1. PICK w \in F[u] : q = IF w = p THEN Terminated(p) ELSE w BY <5>0 DEF Ending
        <5>2. w \in P0 BY <1>0, <4>1
        <5> QED BY <2>1, <5>1, <5>2
      <4>2. CASE u \notin L
        <5>1. q = Advance(u) /\ u \in N BY <3>1, <4>2
        <5> QED BY <2>1, <5>1
      <4> QED BY <4>1, <4>2
    <3> HIDE DEF N
    <3> QED BY <3>2, <3>3
  <2> HIDE DEF D
  <2> QED BY <1>3, <2>7, <2>8, GoodPortions
<1> QED BY <1>4, <1>5, <1>6, <1>7

\* A call through a symbolic pointer.
LEMMA CallThroughGood ==
  ASSUME NEW s, StateOK(s), Code[s.pc].op = "icall", NEW P \in CallThrough(s, Code[s.pc])
  PROVE  Good(s, P)
<1> DEFINE e == EvalIn(s, Code[s.pc].pointer)
           C(t) == Call(t, Function[FunctionAt[The(t, e)]])
           X == {Where(s, e, {x}) : x \in Examples(s, e)}
<1>1. P \in UNION {UNION {Mixed(e, K, Q) : Q \in InEach([t \in Legal(e, K) |-> C(t)])} : K \in Kept(s, X)}
  BY Zenon DEF CallThrough
<1> HIDE DEF C, X
<1>2. PICK K \in Kept(s, X) : P \in UNION {Mixed(e, K, Q) : Q \in InEach([t \in Legal(e, K) |-> C(t)])}
  <2> HIDE DEF e
  <2> QED BY <1>1
<1> DEFINE D == [t \in Legal(e, K) |-> C(t)]
<1>3. PICK Q \in InEach(D) : P \in Mixed(e, K, Q)
  <2> HIDE DEF e
  <2> QED BY <1>2
<1>4. DOMAIN D = Legal(e, K) /\ \A t \in Legal(e, K) : D[t] = C(t) OBVIOUS
<1> HIDE DEF D
<1>5. PICK F : Q = UNION {F[t] : t \in DOMAIN D} /\ \A t \in DOMAIN D : F[t] \in D[t] BY InEachElim
<1>6. ByPointer(s, e, K)
  <2> HIDE DEF e
  <2> QED BY PointersSplit DEF X
<1>7. ASSUME NEW t \in Legal(e, K) PROVE Portion(s, t, F[t])
  <2>1. t \in K /\ The(t, e) \in DOMAIN FunctionAt
    <3> HIDE DEF e
    <3> QED BY DEF Legal
  <2>2. F[t] \in Call(t, Function[FunctionAt[The(t, e)]]) BY <1>4, <1>5 DEF C
  <2> QED BY <1>6, <2>1, <2>2, CalledPortion
<1>8. EvalIn(s, Code[s.pc].pointer) = e OBVIOUS
<1> HIDE DEF e
<1>9. Q = UNION {F[t] : t \in Legal(e, K)} BY <1>4, <1>5
<1> QED BY <1>3, <1>6, <1>7, <1>8, <1>9, MixedGood

(* Every instruction.                                                               *)

\* alloca and malloc.
LEMMA AllocInstructionGood ==
  ASSUME NEW s, StateOK(s), Code[s.pc].op = "alloc",
         NEW P \in Alloc(s, EvalIn(s, Code[s.pc].size), Code[s.pc].kind, 0, Code[s.pc].fill)
  PROVE  Good(s, P)
<1> DEFINE k == Code[s.pc]
           e == EvalIn(s, k.size)
<1>1. k.size \in Operands(k) BY DEF Operands
<1>2. e \in Expression /\ \A a \in Assignment : Eval(View(s, a), k.size) = e[a] /\ e[a] \in Value
  BY <1>1, OperandOK
<1>3. k.kind \in {"local", "heap"} /\ k.fill \in Octet
  <2>1. WellFormed(s.pc) BY CodeAssumption DEF StateOK
  <2> QED BY <2>1 DEF WellFormed
<1>4. k.op \notin Leaving /\ ~Invokes(k) /\ k.op \notin Void BY DEF Leaving, Invokes, Void
<1>5. s.inputs \subseteq Assignment BY InputsOK
<1>6. ASSUME NEW a \in s.inputs, NEW d, Allocates(View(s, a), e[a], k.kind, 0, k.fill, d)
      PROVE  Moves(s, a, d)
  <2>1. Eval(View(s, a), k.size) = e[a] BY <1>2, <1>5
  <2>2. Manages(View(s, a), k, d) BY <1>6, <2>1 DEF Manages
  <2> QED BY <1>4, <2>2, StepIntro DEF Moves
<1>7. k.kind = "heap" /\ (limited \/ ~Unique(s, e)) => Controls(s, e)
  <2> SUFFICES ASSUME k.kind = "heap", limited \/ ~Unique(s, EvalIn(s, k.size)), NEW a \in s.inputs
               PROVE  /\ e[a] = 0 => Moves(s, a, Ended("zma"))
                      /\ e[a] >= Unsigned => Moves(s, a, Ended("iof"))
                      /\ e[a] \in 1 .. HugeSize => Moves(s, a, Ended("cma"))
    BY DEF Controls
  <2>1. View(s, a).end = Running /\ View(s, a).pc = s.pc BY ViewFields
  <2>2. Eval(View(s, a), k.size) = e[a] BY <1>2, <1>5
  <2>3. \A d : Unsure(View(s, a), d) => Moves(s, a, d) BY <1>1, UnsureMoves
  <2> HIDE DEF e
  <2>4. /\ e[a] = 0 => Unsure(View(s, a), Ended("zma"))
        /\ e[a] >= Unsigned => Unsure(View(s, a), Ended("iof"))
        /\ e[a] \in 1 .. HugeSize => Unsure(View(s, a), Ended("cma"))
    BY <2>1, <2>2 DEF Unsure
  <2> QED BY <2>3, <2>4
<1>8. P \in Alloc(s, e, k.kind, 0, k.fill) OBVIOUS
<1> HIDE DEF e
<1> QED BY <1>2, <1>3, <1>4, <1>6, <1>7, <1>8, AllocGood

\* free.
LEMMA FreeInstructionGood ==
  ASSUME NEW s, StateOK(s), Proper(s), Code[s.pc].op = "free",
         NEW P \in Free(s, EvalIn(s, Code[s.pc].address))
  PROVE  Good(s, P)
<1> DEFINE k == Code[s.pc]
           e == EvalIn(s, k.address)
<1>1. k.address \in Operands(k) BY DEF Operands
<1>2. e \in Expression /\ \A a \in Assignment : Eval(View(s, a), k.address) = e[a] BY <1>1, OperandOK
<1>3. k.op \notin Leaving /\ ~Invokes(k) BY DEF Leaving, Invokes
<1>4. ASSUME NEW a \in s.inputs, NEW d, Frees(View(s, a), e[a], d) PROVE Moves(s, a, d)
  <2>1. Eval(View(s, a), k.address) = e[a] BY <1>2, InputsOK
  <2>2. Manages(View(s, a), k, d) BY <1>4, <2>1 DEF Manages
  <2> QED BY <2>2, StepIntro DEF Moves, Proper
<1>5. P \in Free(s, e) OBVIOUS
<1> HIDE DEF e
<1> QED BY <1>2, <1>3, <1>4, <1>5, FreeGood

\* Every outcome of every instruction is good.
LEMMA OutcomesGood ==
  ASSUME NEW s, StateOK(s), NEW P \in Outcomes(s)
  PROVE  Good(s, P)
<1> DEFINE k == Code[s.pc]
<1>1. CASE ~Proper(s)
  <2>1. k.op \in Void /\ k.dst # NoReg BY <1>1 DEF Proper
  <2>2. P = {Fail(s, "exec")} BY <2>1 DEF Outcomes
  <2> QED BY <2>1, <2>2, VoidGood
<1>2. CASE Proper(s)
  <2>0. ~(k.op \in Void /\ k.dst # NoReg) BY <1>2 DEF Proper
  <2>1. WellFormed(s.pc) BY CodeAssumption DEF StateOK
  <2>2. k.op \in Ops BY <2>1 DEF WellFormed
  <2>3. CASE k.op \in {"assign", "select"}
    <3>1. P \in Compute(s, k) BY <2>0, <2>3 DEF Outcomes, Float
    <3> QED BY <2>3, <3>1, ComputeGood
  <2>4. CASE k.op = "phi"
    <3>1. P \in Choose(s, k) BY <2>0, <2>4 DEF Outcomes, Float
    <3> QED BY <2>4, <3>1, ChooseGood
  <2>5. CASE k.op \in Float
    <3>1. P \in Round(s, k) BY <2>0, <2>5 DEF Outcomes, Float
    <3> QED BY <2>5, <3>1, RoundGood
  <2>6. CASE k.op = "br"
    <3>1. P \in Branch(s, k) BY <2>0, <2>6 DEF Outcomes, Float
    <3> QED BY <2>6, <3>1, BranchGood
  <2>7. CASE k.op = "jump"
    <3>1. P \in Jump(s, k) BY <2>0, <2>7 DEF Outcomes, Float
    <3> QED BY <2>7, <3>1, JumpGood
  <2>8. CASE k.op = "switch"
    <3>1. P \in Switch(s, k) BY <2>0, <2>8 DEF Outcomes, Float
    <3> QED BY <2>8, <3>1, SwitchGood
  <2>9. CASE k.op = "stop"
    <3>1. P = {Fail(s, k.why)} BY <2>0, <2>9 DEF Outcomes, Float
    <3> QED BY <2>9, <3>1, StopGood
  <2>10. CASE k.op = "call"
    <3>1. P \in Call(s, Function[k.function]) BY <2>0, <2>10 DEF Outcomes, Float
    <3>2. k.function \in DOMAIN Function BY <2>1, <2>10 DEF WellFormed
    <3>3. ASSUME NEW a \in s.inputs, NEW d, Enters(View(s, a), Function[k.function], d)
          PROVE  Moves(s, a, d)
      <4>1. Calls(View(s, a), k, d) BY <2>10, <3>3 DEF Calls
      <4> QED BY <2>0, <4>1, StepIntro DEF Moves
    <3>4. k.op \in Calling BY <2>10 DEF Calling
    <3> QED BY <3>1, <3>2, <3>3, <3>4, CallGood
  <2>11. CASE k.op = "icall"
    <3>1. P \in CallThrough(s, k) BY <2>0, <2>11 DEF Outcomes, Float
    <3> QED BY <2>11, <3>1, CallThroughGood
  <2>12. CASE k.op = "ret"
    <3>1. P \in Return(s, k) BY <2>0, <2>12 DEF Outcomes, Float
    <3> QED BY <2>12, <3>1, ReturnGood
  <2>13. CASE k.op = "unwind"
    <3>1. P \in Unwind(s) BY <2>0, <2>13 DEF Outcomes, Float
    <3> QED BY <2>13, <3>1, UnwindGood
  <2>14. CASE k.op \in {"load", "store"}
    <3>1. P \in Access(s, k) BY <2>0, <2>14 DEF Outcomes, Float
    <3> QED BY <2>14, <3>1, AccessGood
  <2>15. CASE k.op = "alloc"
    <3>1. P \in Alloc(s, EvalIn(s, k.size), k.kind, 0, k.fill) BY <2>0, <2>15 DEF Outcomes, Float
    <3> QED BY <2>15, <3>1, AllocInstructionGood
  <2>16. CASE k.op = "free"
    <3>1. P \in Free(s, EvalIn(s, k.address)) BY <2>0, <2>16 DEF Outcomes, Float
    <3> QED BY <1>2, <2>16, <3>1, FreeInstructionGood
  <2>17. CASE k.op = "realloc"
    <3>1. P \in Realloc(s, k) BY <2>0, <2>17 DEF Outcomes, Float
    <3> QED BY <2>17, <3>1, ReallocGood
  <2>18. CASE k.op = "make_symbolic"
    <3>1. s.made < MaxArrays /\ P \in MakeSymbolic(s, k) BY <2>0, <2>18 DEF Outcomes, Float
    <3> QED BY <1>2, <2>18, <3>1, MakeSymbolicGood
  <2>19. CASE k.op = "get_obj_size"
    <3>1. P \in GetObjSize(s, k) BY <2>0, <2>19 DEF Outcomes, Float
    <3> QED BY <2>19, <3>1, GetObjSizeGood
  <2>20. CASE k.op = "check_access"
    <3>1. P \in CheckAccess(s, k) BY <2>0, <2>20 DEF Outcomes, Float
    <3> QED BY <1>2, <2>20, <3>1, CheckAccessGood
  <2>21. CASE k.op = "set_forking"
    <3>1. P \in SetForking(s, k) BY <2>0, <2>21 DEF Outcomes, Float
    <3> QED BY <1>2, <2>21, <3>1, SetForkingGood
  <2>22. CASE k.op = "assume"
    <3>1. P \in Assume(s, k) BY <2>0, <2>22 DEF Outcomes, Float
    <3> QED BY <1>2, <2>22, <3>1, AssumeGood
  <2>23. CASE k.op = "get_value"
    <3>1. P \in GetValue(s, k) BY <2>0, <2>23 DEF Outcomes, Float
    <3> QED BY <2>23, <3>1, GetValueGood
  <2>24. CASE k.op = "is_symbolic"
    <3>1. P \in IsSymbolic(s, k) BY <2>0, <2>24 DEF Outcomes, Float
    <3> QED BY <2>24, <3>1, IsSymbolicGood
  <2>25. CASE k.op = "external"
    <3>1. P \in CallExternal(s, k) BY <2>0, <2>25 DEF Outcomes, Float
    <3> QED BY <2>25, <3>1, CallExternalGood
  <2>26. CASE k.op = "nop"
    <3>1. P = {Advance(s)} BY <2>0, <2>26 DEF Outcomes, Float
    <3> QED BY <1>2, <2>26, <3>1, NopGood
  <2> HIDE DEF k
  <2> QED BY <2>2, <2>3, <2>4, <2>5, <2>6, <2>7, <2>8, <2>9, <2>10, <2>11, <2>12, <2>13, <2>14, <2>15,
             <2>16, <2>17, <2>18, <2>19, <2>20, <2>21, <2>22, <2>23, <2>24, <2>25, <2>26
          DEF Ops, Pure, Float, Library, Leaving, Calling
<1> QED BY <1>1, <1>2

(* A path replaced.                                                                 *)

\* Under limits a state may be terminated early.
LEMMA NothingGood ==
  ASSUME NEW s, limited
  PROVE  Good(s, {})
  BY DEF Good, Disjoint, Moves

\* What holds of the inputs of every path.
LEMMA ReplacedInputs ==
  ASSUME NEW s \in paths, PathsPartition, NEW P, Good(s, P), Replaced(s, P), NEW a \in Assignment
  PROVE  /\ a \notin s.inputs => /\ ended'[a] = ended[a]
                                 /\ \A t \in paths : a \in t.inputs <=> t \in paths' /\ a \in t.inputs
                                 /\ \A t \in paths' : a \in t.inputs => t \in paths
         /\ a \in s.inputs /\ Held(P, a) =>
              \E p \in P : /\ a \in p.inputs /\ ended'[a] = p.end
                           /\ \A t \in paths' : a \in t.inputs => t = p /\ p.end = Running
                           /\ p.end = Running => p \in paths'
         /\ a \in s.inputs /\ ~Held(P, a) =>
              /\ ended'[a] = Early
              /\ \A t \in paths' : a \notin t.inputs
<1>1. \A t \in paths : t # s => t.inputs \intersect s.inputs = {} BY DEF PathsPartition
<1>2. \A p \in P : p.inputs \subseteq s.inputs BY DEF Good, PieceOK
<1>3. /\ paths' = (paths \ {s}) \union {p \in P : p.end = Running}
      /\ ended'[a] = IF a \notin s.inputs THEN ended[a]
                     ELSE IF \E p \in P : a \in p.inputs THEN (CHOOSE p \in P : a \in p.inputs).end
                     ELSE Early
  BY DEF Replaced
<1>4. CASE a \notin s.inputs BY <1>1, <1>2, <1>3, <1>4
<1>5. CASE a \in s.inputs /\ Held(P, a)
  <2> DEFINE p == CHOOSE p \in P : a \in p.inputs
  <2>1. p \in P /\ a \in p.inputs BY <1>5 DEF Held
  <2>2. ended'[a] = p.end BY <1>3, <1>5 DEF Held
  <2> HIDE DEF p
  <2>3. \A t \in P : a \in t.inputs => t = p BY <2>1 DEF Good, Disjoint
  <2> QED BY <1>1, <1>3, <1>5, <2>1, <2>2, <2>3
<1>6. CASE a \in s.inputs /\ ~Held(P, a) BY <1>1, <1>3, <1>6 DEF Held
<1> QED BY <1>4, <1>5, <1>6

(* The initial state.                                                               *)

\* The globals, as expressions, are well formed and have on every input the bytes they
\* have.
LEMMA GlobalsOK ==
  LET M == [b \in DOMAIN Globals |-> SymbolicObject(Globals[b])] IN
  /\ MemoryOK(M)
  /\ \A a \in Assignment : MemoryOf(M, a) = Globals
<1> DEFINE M == [b \in DOMAIN Globals |-> SymbolicObject(Globals[b])]
           B(b) == [i \in DOMAIN Globals[b].bytes |-> Always(Globals[b].bytes[i])]
<1>1. ASSUME NEW b \in DOMAIN Globals
      PROVE  /\ Fine(Globals[b]) /\ b + Globals[b].size =< Word /\ b \in Value \ {0}
  <2>1. DOMAIN Globals \subseteq 1 .. Word - 1 BY CodeAssumption
  <2>2. b \in Value \ {0} BY <2>1, MachineAssumption DEF Value
  <2> QED BY <2>2, CodeAssumption
<1>2. ASSUME NEW b \in DOMAIN Globals
      PROVE  /\ M[b] = [size |-> Globals[b].size, kind |-> Globals[b].kind, bytes |-> B(b)]
             /\ B(b) \in [0 .. Globals[b].size - 1 -> [Assignment -> Octet]]
             /\ \A a \in Assignment : [i \in DOMAIN B(b) |-> B(b)[i][a]] = Globals[b].bytes
             /\ Globals[b] = [size |-> Globals[b].size, kind |-> Globals[b].kind, bytes |-> Globals[b].bytes]
  <2>1. /\ Globals[b] = [size |-> Globals[b].size, kind |-> Globals[b].kind, bytes |-> Globals[b].bytes]
        /\ Globals[b].bytes \in [0 .. Globals[b].size - 1 -> Octet]
    BY <1>1 DEF Fine
  <2>2. M[b] = [Globals[b] EXCEPT !.bytes = B(b)] BY DEF SymbolicObject
  <2>3. \A i \in 0 .. Globals[b].size - 1 : /\ Always(Globals[b].bytes[i]) \in [Assignment -> Octet]
                                            /\ \A a \in Assignment : Always(Globals[b].bytes[i])[a] = Globals[b].bytes[i]
    BY <2>1 DEF Always
  <2>4. /\ B(b) \in [0 .. Globals[b].size - 1 -> [Assignment -> Octet]]
        /\ \A a \in Assignment : [i \in DOMAIN B(b) |-> B(b)[i][a]] = Globals[b].bytes
    BY <2>1, <2>3
  <2> HIDE DEF M
  <2> DEFINE C == B(b)
  <2>5. M[b] = [Globals[b] EXCEPT !.bytes = C] BY <2>2
  <2> HIDE DEF C
  <2>6. M[b] = [size |-> Globals[b].size, kind |-> Globals[b].kind, bytes |-> C] BY <2>1, <2>5
  <2> QED BY <2>1, <2>4, <2>6 DEF C
<1>3. DOMAIN M = DOMAIN Globals /\ M = [b \in DOMAIN M |-> M[b]] OBVIOUS
<1> HIDE DEF M, B
<1>4. ASSUME NEW b \in DOMAIN M
      PROVE  SymbolicObjectOK(M[b]) /\ M[b].size = Globals[b].size
  <2>1. Globals[b].size \in 0 .. Unsigned - 1 /\ Globals[b].kind \in Kind BY <1>1, <1>3 DEF Fine
  <2> QED BY <1>2, <1>3, <2>1, ObjectIs
<1>5. Apart(M)
  <2>1. Apart(Globals) BY CodeAssumption
  <2> QED BY <1>3, <1>4, <2>1 DEF Apart
<1>6. MemoryOK(M)
  <2>1. DOMAIN M \subseteq Value \ {0} BY <1>1, <1>3
  <2>2. \A b \in DOMAIN M : SymbolicObjectOK(M[b]) /\ b + M[b].size =< Word BY <1>1, <1>3, <1>4
  <2> QED BY <1>3, <1>5, <2>1, <2>2 DEF MemoryOK
<1>7. ASSUME NEW a \in Assignment PROVE MemoryOf(M, a) = Globals
  <2>1. \A b \in DOMAIN M : ObjectOf(M[b], a) = Globals[b]
    <3> TAKE b \in DOMAIN M
    <3>1. M[b].size = Globals[b].size /\ M[b].kind = Globals[b].kind /\ M[b].bytes = B(b) BY <1>2, <1>3
    <3>2. [i \in DOMAIN M[b].bytes |-> M[b].bytes[i][a]] = Globals[b].bytes BY <1>2, <1>3, <3>1
    <3>3. ObjectOf(M[b], a) = [size |-> Globals[b].size, kind |-> Globals[b].kind, bytes |-> Globals[b].bytes]
      BY <1>4, <3>1, <3>2, ObjectForm
    <3> QED BY <1>2, <1>3, <3>3
  <2>2. Globals = [b \in DOMAIN Globals |-> Globals[b]] BY CodeAssumption
  <2>3. MemoryOf(M, a) = [b \in DOMAIN M |-> ObjectOf(M[b], a)] BY DEF MemoryOf
  <2> QED BY <1>3, <2>1, <2>2, <2>3
<1> QED BY <1>6, <1>7 DEF M

\* runFunctionAsMain's state is where every input starts.
LEMMA InitialStateOK ==
  ASSUME NEW f \in Mains
  PROVE  /\ StateOK(InitialState(f)) /\ InitialState(f).inputs = Assignment
         /\ \A a \in Assignment : View(InitialState(f), a) = Started(f)
<1> DEFINE V == [j \in DOMAIN Arguments |-> Always(Arguments[j])]
           R == FrameOf(Function[f], V, Always(Junk))
           M == [b \in DOMAIN Globals |-> SymbolicObject(Globals[b])]
           s == StateOf(Assignment, Function[f].entry, 0, R, {}, <<>>, M, TRUE, 0)
<1>1. InitialState(f) = s BY DEF InitialState, StateOf
<1>2. /\ f \in DOMAIN Function /\ Arguments \in Seq(Value) /\ Len(Function[f].params) =< Len(Arguments)
      /\ Function[f].entry \in DOMAIN Code /\ ~AtPhi(Function[f].entry)
  BY CodeAssumption
<1>3. /\ V \in Seq(Expression) /\ Len(V) = Len(Arguments)
      /\ \A a \in Assignment : [j \in DOMAIN V |-> V[j][a]] = Arguments
  <2>1. DOMAIN Arguments = 1 .. Len(Arguments) /\ Len(Arguments) \in Nat BY <1>2
  <2>2. \A j \in DOMAIN Arguments : /\ Arguments[j] \in Value /\ Always(Arguments[j]) \in Expression
                                    /\ \A a \in Assignment : Always(Arguments[j])[a] = Arguments[j]
    BY <1>2, AlwaysOK
  <2>3. Arguments = [j \in DOMAIN Arguments |-> Arguments[j]] BY <1>2
  <2>4. V \in [1 .. Len(Arguments) -> Expression] BY <2>1, <2>2
  <2>5. V \in Seq(Expression) /\ Len(V) = Len(Arguments)
    <3> HIDE DEF V
    <3> DEFINE n == Len(Arguments)
    <3>1. V \in [1 .. n -> Expression] /\ n \in Nat BY <2>1, <2>4
    <3> HIDE DEF n
    <3>2. V \in Seq(Expression) /\ Len(V) = n BY <3>1
    <3> QED BY <3>2 DEF n
  <2> QED BY <2>1, <2>2, <2>3, <2>5
<1> HIDE DEF V
<1>4. R \in [Reg -> Expression] /\ \A a \in Assignment : ValuesOf(R, a) = FrameOf(Function[f], Arguments, Junk)
  BY <1>2, <1>3, FrameValues
<1>5. MemoryOK(M) /\ \A a \in Assignment : MemoryOf(M, a) = Globals BY GlobalsOK
<1> HIDE DEF R, M
<1>6. FieldsOK(Assignment, Function[f].entry, 0, R, {}, <<>>, M, TRUE, 0)
  <2>1. <<>> \in Seq(Frame) OBVIOUS
  <2>2. Assignment # {} /\ 0 \in 0 .. MaxArrays BY MachineAssumption
  <2>3. {} \subseteq Value /\ TRUE \in BOOLEAN /\ Assignment \subseteq Assignment OBVIOUS
  <2> QED BY <1>2, <1>4, <1>5, <2>1, <2>2, <2>3 DEF FieldsOK
<1>7. StateOK(s) BY <1>6, StateIntro
<1>9. /\ s.inputs = Assignment /\ s.pc = Function[f].entry /\ s.from = 0 /\ s.regs = R /\ s.locals = {}
      /\ s.callers = <<>> /\ s.mem = M /\ s.forking = TRUE /\ s.made = 0
  BY DEF StateOf
<1> HIDE DEF s
<1>8. ASSUME NEW a \in Assignment PROVE View(s, a) = Started(f)
  <2>1. View(s, a) = ConfigOf(Function[f].entry, Entered(Function[f].entry, 0), ValuesOf(R, a), {},
                              FramesOf(<<>>, a), MemoryOf(M, a), TRUE, 0)
    BY <1>7, <1>9, ViewOf
  <2>2. FramesOf(<<>>, a) = <<>> BY DEF FramesOf
  <2>3. Entered(Function[f].entry, 0) = NoBlock BY <1>2 DEF Entered
  <2> QED BY <1>4, <1>5, <2>1, <2>2, <2>3 DEF ConfigOf, Started
<1> QED BY <1>1, <1>7, <1>8, <1>9

(* The theorems.                                                                    *)

\* A path that is replaced as Good has it keeps the inputs apart.
LEMMA ReplacedPartition ==
  ASSUME NEW s \in paths, PathsPartition, NEW P, Good(s, P), Replaced(s, P)
  PROVE  PathsPartition'
<1>1. paths' = (paths \ {s}) \union {p \in P : p.end = Running} BY DEF Replaced
<1>2. limited' \in BOOLEAN BY DEF Replaced, PathsPartition
<1>3. \A t \in paths' : StateOK(t) BY <1>1 DEF PathsPartition, Good, PieceOK
<1>4. ASSUME NEW t \in paths', NEW u \in paths', t # u PROVE t.inputs \intersect u.inputs = {}
  <2>1. \A p \in P : p.inputs \subseteq s.inputs BY DEF Good, PieceOK
  <2>2. \A x \in paths : x # s => x.inputs \intersect s.inputs = {} BY DEF PathsPartition
  <2>3. CASE t \in paths \ {s} /\ u \in paths \ {s} BY <1>4, <2>3 DEF PathsPartition
  <2>4. CASE t \in paths \ {s} /\ u \in P BY <2>1, <2>2, <2>4
  <2>5. CASE t \in P /\ u \in paths \ {s} BY <2>1, <2>2, <2>5
  <2>6. CASE t \in P /\ u \in P BY <1>4, <2>6 DEF Good, Disjoint
  <2> QED BY <1>1, <2>3, <2>4, <2>5, <2>6
<1>5. ASSUME NEW a \in Assignment PROVE ended'[a] = Running <=> \E t \in paths' : a \in t.inputs
  <2>1. CASE a \notin s.inputs
    <3>1. ended'[a] = ended[a] BY <2>1, ReplacedInputs
    <3>2. \A t \in paths : a \in t.inputs => t \in paths' BY <2>1, ReplacedInputs
    <3>3. \A t \in paths' : a \in t.inputs => t \in paths BY <2>1, ReplacedInputs
    <3>4. ended[a] = Running <=> \E t \in paths : a \in t.inputs BY DEF PathsPartition
    <3> QED BY <3>1, <3>2, <3>3, <3>4
  <2>2. CASE a \in s.inputs /\ Held(P, a)
    <3>1. PICK p \in P : /\ a \in p.inputs /\ ended'[a] = p.end
                         /\ \A t \in paths' : a \in t.inputs => t = p /\ p.end = Running
                         /\ p.end = Running => p \in paths'
      BY <2>2, ReplacedInputs
    <3> QED BY <3>1
  <2>3. CASE a \in s.inputs /\ ~Held(P, a)
    <3>1. ended'[a] = Early BY <2>3, ReplacedInputs
    <3>2. \A t \in paths' : a \notin t.inputs BY <2>3, ReplacedInputs
    <3> QED BY <3>1, <3>2 DEF Early, Running
  <2> QED BY <2>1, <2>2, <2>3
<1> QED BY <1>2, <1>3, <1>4, <1>5 DEF PathsPartition

\* At the start one path has all the inputs.
LEMMA PartitionInit ==
  ASSUME InterpreterInit
  PROVE  PathsPartition
<1>1. PICK f \in Mains : paths = {InitialState(f)} BY DEF InterpreterInit
<1>2. StateOK(InitialState(f)) /\ InitialState(f).inputs = Assignment BY InitialStateOK
<1>3. /\ limited \in BOOLEAN /\ ended = [a \in Assignment |-> Running] BY DEF InterpreterInit
<1> QED BY <1>1, <1>2, <1>3 DEF PathsPartition

\* An instruction, or giving a path up, replaces a path so.
LEMMA NextReplaces ==
  ASSUME PathsPartition, InterpreterNext
  PROVE  \E s \in paths : \E P : Good(s, P) /\ Replaced(s, P)
<1>1. PICK s \in paths : Execute(s) \/ Abandon(s) BY DEF InterpreterNext
<1>2. StateOK(s) BY DEF PathsPartition
<1>3. CASE Execute(s)
  <2>1. PICK P \in Outcomes(s) : Replaced(s, P) BY <1>3 DEF Execute
  <2> QED BY <1>2, <2>1, OutcomesGood
<1>4. CASE Abandon(s) BY <1>4, NothingGood DEF Abandon
<1> QED BY <1>1, <1>3, <1>4

\* Every step of the executor keeps the partition.
LEMMA PartitionNext ==
  ASSUME PathsPartition, [InterpreterNext]_interpreterVars
  PROVE  PathsPartition'
<1>1. CASE InterpreterNext
  <2>0. PICK s \in paths : \E P : Good(s, P) /\ Replaced(s, P) BY <1>1, NextReplaces
  <2>1. PICK P : Good(s, P) /\ Replaced(s, P) BY <2>0
  <2> QED BY <2>1, ReplacedPartition
<1>2. CASE UNCHANGED interpreterVars BY <1>2 DEF interpreterVars, PathsPartition
<1> QED BY <1>1, <1>2

\* The paths partition the inputs that have not ended; their states are well formed
\* and no two objects of one overlap, whatever the program and the solver's luck
\* (Executor::executeInstruction and what it calls).
THEOREM PathsArePartition == InterpreterSpec => []PathsPartition
<1>1. InterpreterInit => PathsPartition BY PartitionInit
<1>2. PathsPartition /\ [InterpreterNext]_interpreterVars => PathsPartition' BY PartitionNext
<1> QED BY <1>1, <1>2, PTL DEF InterpreterSpec

\* The path of an input.
LEMMA RunOfPath ==
  ASSUME PathsPartition, NEW s \in paths, NEW a \in s.inputs
  PROVE  RunOf(a) = View(s, a) /\ a \in Assignment
<1>1. a \in Assignment BY InputsOK DEF PathsPartition
<1>2. ended[a] = Running BY <1>1 DEF PathsPartition
<1>3. \A t \in paths : a \in t.inputs => t = s BY DEF PathsPartition
<1>4. (CHOOSE t \in paths : a \in t.inputs) = s BY <1>3
<1> QED BY <1>1, <1>2, <1>4 DEF RunOf

\* When a path is replaced by good pieces, the run of an input stays or moves.
LEMMA ReplacedRuns ==
  ASSUME NEW s \in paths, PathsPartition, NEW P, Good(s, P), Replaced(s, P), NEW a \in Assignment
  PROVE  RunOf(a)' = RunOf(a) \/ (a \in s.inputs /\ Moves(s, a, RunOf(a)'))
<1>0. PathsPartition' BY ReplacedPartition
<1>1. CASE a \notin s.inputs
  <2>1. ended'[a] = ended[a] BY <1>1, ReplacedInputs
  <2>2. CASE ended[a] # Running BY <2>1, <2>2 DEF RunOf
  <2>3. CASE ended[a] = Running
    <3>1. PICK t \in paths : a \in t.inputs BY <2>3 DEF PathsPartition
    <3>2. t \in paths' BY <1>1, <3>1, ReplacedInputs
    <3>3. \A u \in paths : a \in u.inputs => u = t BY <3>1 DEF PathsPartition
    <3>4. \A u \in paths' : a \in u.inputs => u = t BY <1>0, <3>1, <3>2 DEF PathsPartition
    <3>5. (CHOOSE u \in paths : a \in u.inputs) = t BY <3>1, <3>3
    <3>6. (CHOOSE u \in paths' : a \in u.inputs) = t BY <3>1, <3>2, <3>4
    <3>7. RunOf(a) = View(t, a) BY <2>3, <3>5 DEF RunOf
    <3>8. RunOf(a)' = View(t, a) BY <2>1, <2>3, <3>6 DEF RunOf
    <3> QED BY <3>7, <3>8
  <2> QED BY <2>2, <2>3
<1>2. CASE a \in s.inputs /\ Held(P, a)
  <2>1. PICK p \in P : /\ a \in p.inputs /\ ended'[a] = p.end
                       /\ \A t \in paths' : a \in t.inputs => t = p /\ p.end = Running
                       /\ p.end = Running => p \in paths'
    BY <1>2, ReplacedInputs
  <2>2. Moves(s, a, View(p, a)) BY <2>1 DEF Good, PieceOK
  <2>3. RunOf(a)' = View(p, a)
    <3>1. CASE p.end # Running BY <2>1, <3>1 DEF RunOf, View
    <3>2. CASE p.end = Running
      <4>1. (CHOOSE u \in paths' : a \in u.inputs) = p BY <2>1, <3>2
      <4> QED BY <2>1, <3>2, <4>1 DEF RunOf
    <3> QED BY <3>1, <3>2
  <2> QED BY <1>2, <2>2, <2>3
<1>3. CASE a \in s.inputs /\ ~Held(P, a)
  <2>1. ended'[a] = Early BY <1>3, ReplacedInputs
  <2>2. RunOf(a)' = Ended(Early) BY <2>1 DEF RunOf, Early, Running
  <2> QED BY <1>3, <2>2 DEF Good
<1> QED BY <1>1, <1>2, <1>3

\* At the start every run is at the start.
LEMMA RunsInit ==
  ASSUME InterpreterInit
  PROVE  Runs!Init
<1>1. PICK f \in Mains : paths = {InitialState(f)} BY DEF InterpreterInit
<1>2. /\ InitialState(f).inputs = Assignment
      /\ \A a \in Assignment : View(InitialState(f), a) = Started(f)
  BY InitialStateOK
<1>3. PathsPartition BY PartitionInit
<1>4. \A a \in Assignment : RunOf(a) = Started(f) BY <1>1, <1>2, <1>3, RunOfPath
<1>5. [a \in Assignment |-> RunOf(a)] = [a \in Assignment |-> Started(f)] BY <1>4
<1>6. limited \in BOOLEAN BY <1>3 DEF PathsPartition
<1>7. Started(f) \in {Started(g) : g \in Mains} OBVIOUS
<1> QED BY <1>5, <1>6, <1>7 DEF Runs!Init

\* A step of the executor is a step of the runs, or changes none.
LEMMA RunsNext ==
  ASSUME PathsPartition, [InterpreterNext]_interpreterVars
  PROVE  [Runs!Next]_<<[a \in Assignment |-> RunOf(a)], limited>>
<1> DEFINE run == [a \in Assignment |-> RunOf(a)]
<1>1. CASE InterpreterNext
  <2>0. PICK s \in paths : \E P : Good(s, P) /\ Replaced(s, P) BY <1>1, NextReplaces
  <2>1. PICK P : Good(s, P) /\ Replaced(s, P) BY <2>0
  <2>2. limited' = limited BY <2>1 DEF Replaced
  <2>3. run' = [a \in Assignment |-> RunOf(a)'] OBVIOUS
  <2>4. StateOK(s) BY DEF PathsPartition
  <2>5. ASSUME NEW a \in Assignment
        PROVE  \/ RunOf(a)' = RunOf(a)
               \/ Step(a, RunOf(a), RunOf(a)')
               \/ \E b \in Assignment : Confused(RunOf(a), RunOf(b), RunOf(a)')
               \/ limited /\ Unsure(RunOf(a), RunOf(a)')
               \/ RunOf(a).end = "running" /\ (limited \/ ~RunOf(a).forking) /\ RunOf(a)' = [end |-> "early"]
    <3>1. CASE RunOf(a)' = RunOf(a) BY <3>1
    <3>2. CASE a \in s.inputs /\ Moves(s, a, RunOf(a)')
      <4>1. RunOf(a) = View(s, a) BY <3>2, RunOfPath
      <4>2. \A b \in s.inputs : RunOf(b) = View(s, b) /\ b \in Assignment BY RunOfPath
      <4>3. View(s, a).end = Running /\ View(s, a).forking = s.forking BY <2>4, ViewFields
      <4> DEFINE d == RunOf(a)'
      <4>4. Moves(s, a, d) BY <3>2
      <4> HIDE DEF d
      <4>5. CASE Step(a, View(s, a), d) BY <4>1, <4>5 DEF d
      <4>6. CASE \E b \in s.inputs : Confused(View(s, a), View(s, b), d)
        <5>1. PICK b \in s.inputs : Confused(View(s, a), View(s, b), d) BY <4>6
        <5>2. Confused(RunOf(a), RunOf(b), d) /\ b \in Assignment BY <4>1, <4>2, <5>1
        <5> QED BY <5>2 DEF d
      <4>7. CASE limited /\ Unsure(View(s, a), d) BY <4>1, <4>7 DEF d
      <4>8. CASE (limited \/ ~s.forking) /\ d = Ended(Early)
        BY <4>1, <4>3, <4>8 DEF d, Ended, Early, Running
      <4> QED BY <4>4, <4>5, <4>6, <4>7, <4>8 DEF Moves
    <3> QED BY <2>1, <3>1, <3>2, ReplacedRuns
  <2>6. \A a \in Assignment : run[a] = RunOf(a) /\ run'[a] = RunOf(a)' BY <2>3
  <2> HIDE DEF run
  <2>8. \A a \in Assignment :
          \/ run'[a] = run[a]
          \/ Step(a, run[a], run'[a])
          \/ \E b \in Assignment : Confused(run[a], run[b], run'[a])
          \/ limited /\ Unsure(run[a], run'[a])
          \/ run[a].end = "running" /\ (limited \/ ~run[a].forking) /\ run'[a] = [end |-> "early"]
    BY <2>5, <2>6
  <2> QED BY <2>2, <2>8 DEF Runs!Next, Runs!GivenUp, run
<1>2. CASE UNCHANGED interpreterVars
  <2>1. \A a \in Assignment : RunOf(a)' = RunOf(a) BY <1>2 DEF RunOf, interpreterVars
  <2>2. run' = run BY <2>1
  <2> QED BY <1>2, <2>2 DEF interpreterVars
<1> QED BY <1>1, <1>2

\* Every input has a run of the program on it: each step of its path is one the
\* program takes on that input, or one of the listed effects of another input
\* (ProgramRuns), for every program and every order of the executor's choices.
THEOREM PathsRunTheProgram == InterpreterSpec => EveryInputRuns
<1>1. InterpreterInit => PathsPartition BY PartitionInit
<1>2. PathsPartition /\ [InterpreterNext]_interpreterVars => PathsPartition' BY PartitionNext
<1>3. InterpreterInit => Runs!Init BY RunsInit
<1>4. PathsPartition /\ [InterpreterNext]_interpreterVars
        => [Runs!Next]_<<[a \in Assignment |-> RunOf(a)], limited>>
  BY RunsNext
<1> QED BY <1>1, <1>2, <1>3, <1>4, PTL DEF InterpreterSpec, EveryInputRuns, Runs!Spec
==============================================================================
