----------------------------- MODULE AddressSpace -----------------------------
(***************************************************************************)
(* The memory of the execution states (AddressSpace.cpp, Memory.cpp and    *)
(* the memory handlers of Executor.cpp).  States share immutable object    *)
(* states; cowKey, an epoch that a fork raises on both sides, says which   *)
(* of them a state may write in place.                                     *)
(*                                                                         *)
(* A slot of OS is an ObjectState on the heap.  An object is one byte      *)
(* wide: its concrete store and whether the byte is symbolic, in which     *)
(* case the store is not used.  A memory object's address is its identity. *)
(***************************************************************************)
EXTENDS Naturals, FiniteSets, Sequences

CONSTANTS State, Root, MO, Global, ReadOnly, UserSpecified, Value, Initial,
          Symbolic, Unbound,
          OS,         \* slots for ObjectStates on the heap
          Allocate(_, _),  \* operator new: the ways to give each object of a
                           \* set a free slot of its own
          NoOS,       \* a null ObjectState pointer, or a slot that is free
          MaxKey,     \* bound on cowKey (unsigned in the code)
          MaxFrames,  \* bound on the depth of a stack
          MaxWrites   \* bound on the objects one external call modifies

ObjectState == [owner : Nat, store : Value, symbolic : BOOLEAN]

ASSUME SpaceAssumption ==
  /\ Root \in State
  /\ Global \subseteq MO /\ ReadOnly \subseteq Global
  /\ UserSpecified \subseteq MO \ Global
  /\ Initial \in Value
  /\ NoOS \notin OS /\ NoOS \notin ObjectState
  /\ \A F \in SUBSET OS, D \in SUBSET MO : \A f \in Allocate(F, D) :
       f \in [D -> F] /\ \A o, p \in D : f[o] = f[p] => o = p
  /\ Symbolic \notin Value /\ Unbound \notin Value /\ Symbolic # Unbound
  /\ MaxKey \in Nat /\ MaxFrames \in Nat /\ MaxWrites \in Nat

VARIABLES
  live,       \* the execution states that exist
  cowKey,     \* AddressSpace::cowKey of each state
  objects,    \* AddressSpace::objects: the slot bound to each object
  heap,       \* the ObjectStates: owner epoch, concrete store, symbolic flag
  kind,       \* "unused", "heap", "local" or "global": how an object was made
  frames,     \* per state, the allocas of each stack frame
  symbolics,  \* per state, the objects addSymbolic() keeps alive
  native      \* the bytes at the objects' real addresses in the process

vars == <<live, cowKey, objects, heap, kind, frames, symbolics, native>>

Bound(s, o)      == objects[s][o] # NoOS
Referenced(objs) == {objs[s][o] : s \in State, o \in MO} \ {NoOS}
Free             == {l \in OS : heap[l] = NoOS}

\* Mutant: the reference count is never dropped.
CollectNothing(h, objs) == h

\* ObjectHolder: an object state no map holds is deleted.
Collect(h, objs) == [l \in OS |-> IF l \in Referenced(objs) THEN h[l] ELSE NoOS]

\* Mutant: the epochs are not compared.
WriteInPlace(key, at, D) == {[o \in D |-> at[o]]}

\* getWriteable in a state whose epoch is key, for the objects D bound to the
\* slots at: an object state it owns stays where it is, any other is copied.
Writeable(key, at, D) ==
  LET owned == {o \in D : heap[at[o]].owner = key}
  IN  {[o \in D |-> IF o \in owned THEN at[o] ELSE f[o]] :
          f \in Allocate(Free, D \ owned)}

\* The object state in l after a write of c, owned by epoch key.
Written(key, l, c) ==
  [owner    |-> key,
   store    |-> IF c = Symbolic THEN heap[l].store ELSE c,
   symbolic |-> c = Symbolic]

Content == Value \union {Symbolic}

\* After initializeGlobals: the root state owns every global.
Init ==
  /\ live = {Root}
  /\ cowKey = [s \in State |-> IF s = Root THEN 1 ELSE 0]
  /\ \E place \in Allocate(OS, Global) :
       /\ objects = [s \in State |-> [o \in MO |->
                       IF s = Root /\ o \in Global THEN place[o] ELSE NoOS]]
       /\ heap = [l \in OS |->
                    IF \E o \in Global : place[o] = l
                    THEN [owner |-> 1, store |-> Initial, symbolic |-> FALSE]
                    ELSE NoOS]
  /\ kind = [o \in MO |-> IF o \in Global THEN "global" ELSE "unused"]
  /\ frames = [s \in State |-> IF s = Root THEN <<{}>> ELSE <<>>]
  /\ symbolics = [s \in State |-> {}]
  /\ native = [o \in MO |-> Initial]

-------------------------------------------------------------------------------
(* Allocation and release.                                                 *)

\* bindObject: a new object state, owned at once, replaces the binding of o.
BindObject(s, o, os) ==
  \E new \in Allocate(Free, {o}) :
    /\ objects' = [objects EXCEPT ![s][o] = new[o]]
    /\ heap' = Collect([heap EXCEPT ![new[o]] = os], objects')

\* A new object state holds a filler (zeroes or initializeToRandom's pattern).
Fresh(s) == [owner |-> cowKey[s], store |-> Initial, symbolic |-> FALSE]

\* Mutant: the alloca is not pushed on the frame's list.
ForgetAlloca(s, o) == UNCHANGED frames

AddAlloca(s, o) ==
  LET n == Len(frames[s])
  IN  frames' = [frames EXCEPT ![s][n] = @ \union {o}]

\* malloc, calloc and alloca: executeAlloc of a constant size.
ExecuteAlloc(s, o, isLocal) ==
  /\ s \in live /\ kind[o] = "unused" /\ o \notin UserSpecified
  /\ BindObject(s, o, Fresh(s))
  /\ kind' = [kind EXCEPT ![o] = IF isLocal THEN "local" ELSE "heap"]
  /\ IF isLocal THEN AddAlloca(s, o) ELSE UNCHANGED frames
  /\ UNCHANGED <<live, cowKey, symbolics, native>>

\* klee_define_fixed_object.
DefineFixedObject(s, o) ==
  /\ s \in live /\ kind[o] = "unused" /\ o \in UserSpecified
  /\ BindObject(s, o, Fresh(s))
  /\ kind' = [kind EXCEPT ![o] = "global"]
  /\ UNCHANGED <<live, cowKey, frames, symbolics, native>>

\* realloc of o to a new object p: bind p, copy o into it, unbind o.
ExecuteRealloc(s, o, p) ==
  /\ s \in live /\ Bound(s, o) /\ kind[p] = "unused" /\ p \notin UserSpecified
  /\ LET from == heap[objects[s][o]]
         to   == IF from.symbolic THEN [Fresh(s) EXCEPT !.symbolic = TRUE]
                                  ELSE [Fresh(s) EXCEPT !.store = from.store]
     IN  \E new \in Allocate(Free, {p}) :
           /\ objects' = [objects EXCEPT ![s] = [@ EXCEPT ![p] = new[p], ![o] = NoOS]]
           /\ heap' = Collect([heap EXCEPT ![new[p]] = to], objects')
  /\ kind' = [kind EXCEPT ![p] = "heap"]
  /\ UNCHANGED <<live, cowKey, frames, symbolics, native>>

UnbindAll(s, U) ==
  /\ objects' = [objects EXCEPT ![s] = [o \in MO |-> IF o \in U THEN NoOS ELSE @[o]]]
  /\ heap' = Collect(heap, objects')

\* free of an object that is neither an alloca nor a global.
ExecuteFree(s, o) ==
  /\ s \in live /\ Bound(s, o) /\ kind[o] = "heap"
  /\ UnbindAll(s, {o})
  /\ UNCHANGED <<live, cowKey, kind, frames, symbolics, native>>

PushFrame(s) ==
  /\ s \in live /\ Len(frames[s]) < MaxFrames
  /\ frames' = [frames EXCEPT ![s] = Append(@, {})]
  /\ UNCHANGED <<live, cowKey, objects, heap, kind, symbolics, native>>

\* A memory object is deleted with its last object state and symbolic.
Deleted(o) == \A t \in State : ~Bound(t, o) /\ o \notin symbolics[t]

\* popFrame unbinds the frame's allocas.  An alloca whose memory object is
\* already deleted is read after its end of life, and what is unbound in its
\* place is arbitrary.
PopFrame(s) ==
  LET top == frames[s][Len(frames[s])]
  IN  /\ s \in live /\ Len(frames[s]) > 1
      /\ \E stray \in SUBSET MO :
           /\ Cardinality(stray) =< Cardinality({o \in top : Deleted(o)})
           /\ UnbindAll(s, top \union stray)
      /\ frames' = [frames EXCEPT ![s] = SubSeq(@, 1, Len(@) - 1)]
      /\ UNCHANGED <<live, cowKey, kind, symbolics, native>>

-------------------------------------------------------------------------------
(* Stores, forks, external calls.                                          *)

\* executeMemoryOperation, one object in bounds, not read-only.
WriteObject(s, o, c) ==
  /\ s \in live /\ Bound(s, o) /\ o \notin ReadOnly
  /\ \E at \in Writeable(cowKey[s], objects[s], {o}) :
       /\ objects' = [objects EXCEPT ![s][o] = at[o]]
       /\ heap' = Collect([heap EXCEPT ![at[o]] = Written(cowKey[s], objects[s][o], c)],
                          objects')
  /\ UNCHANGED <<live, cowKey, kind, frames, symbolics, native>>

\* executeMakeSymbolic binds a new object state backed by a new array.
MakeSymbolic(s, o) ==
  /\ s \in live /\ Bound(s, o) /\ o \notin ReadOnly
  /\ BindObject(s, o, [Fresh(s) EXCEPT !.symbolic = TRUE])
  /\ symbolics' = [symbolics EXCEPT ![s] = @ \union {o}]
  /\ UNCHANGED <<live, cowKey, kind, frames, native>>

\* Mutant: cowKey(b.cowKey++), the new side keeps the old epoch.
RaiseParentKey(s, t) == [cowKey EXCEPT ![s] = cowKey[s] + 1, ![t] = cowKey[s]]

\* The epochs after ExecutionState::branch made t from s: both sides move on.
RaiseKeys(s, t) == [cowKey EXCEPT ![s] = cowKey[s] + 1, ![t] = cowKey[s] + 1]

\* The copy constructors of ExecutionState, its stack and its symbolics.
CopyState(s, t) ==
  /\ s \in live /\ t \in State \ live /\ cowKey[s] < MaxKey
  /\ live' = live \union {t}
  /\ cowKey' = RaiseKeys(s, t)
  /\ frames' = [frames EXCEPT ![t] = frames[s]]
  /\ symbolics' = [symbolics EXCEPT ![t] = symbolics[s]]

Branch(s, t) ==
  /\ CopyState(s, t)
  /\ objects' = [objects EXCEPT ![t] = objects[s]]
  /\ UNCHANGED <<heap, kind, native>>

\* executeMemoryOperation with two resolutions: the object states were looked
\* up before the fork and are written after it, o by s and p by the new t.
WriteEither(s, t, o, p, c) ==
  /\ Bound(s, o) /\ Bound(s, p) /\ o # p /\ {o, p} \intersect ReadOnly = {}
  /\ CopyState(s, t)
  /\ \E at \in Writeable(cowKey'[s], objects[s], {o, p}) :
       /\ objects' = [objects EXCEPT ![s][o] = at[o],
                                     ![t] = [objects[s] EXCEPT ![p] = at[p]]]
       /\ heap' = Collect([heap EXCEPT
                             ![at[o]] = Written(cowKey'[s], objects[s][o], c),
                             ![at[p]] = Written(cowKey'[t], objects[s][p], c)],
                          objects')
  /\ UNCHANGED <<kind, native>>

\* terminateState and the deletion that follows it.
Drop(s) ==
  /\ s \in live
  /\ live' = live \ {s}
  /\ cowKey' = [cowKey EXCEPT ![s] = 0]
  /\ objects' = [objects EXCEPT ![s] = [o \in MO |-> NoOS]]
  /\ heap' = Collect(heap, objects')
  /\ frames' = [frames EXCEPT ![s] = <<>>]
  /\ symbolics' = [symbolics EXCEPT ![s] = {}]
  /\ UNCHANGED kind

TerminateState(s) == Drop(s) /\ UNCHANGED native

\* The objects an external call of s exchanges with native memory.
Exchanged(s) == {o \in MO : Bound(s, o) /\ o \notin UserSpecified}

\* copyOutConcretes: what the external function finds.
CopiedOut(s) == [o \in MO |-> IF o \in Exchanged(s) \ ReadOnly
                              THEN heap[objects[s][o]].store ELSE native[o]]

\* The objects whose native bytes copyInConcretes finds changed.
Changed(s, after) == {o \in Exchanged(s) : after[o] # heap[objects[s][o]].store}

\* copyInConcretes: every changed object is made writeable and overwritten,
\* its symbolic flag kept.
CopyIn(s, after) ==
  LET changed == Changed(s, after)
      old(o)  == heap[objects[s][o]]
  IN  \E place \in Writeable(cowKey[s], objects[s], changed) :
        /\ objects' = [objects EXCEPT ![s] =
                         [o \in MO |-> IF o \in changed THEN place[o] ELSE @[o]]]
        /\ heap' = Collect([l \in OS |->
                      IF \E o \in changed : place[o] = l
                      THEN LET o == CHOOSE q \in changed : place[q] = l
                           IN  [owner |-> cowKey[s], store |-> after[o],
                                symbolic |-> old(o).symbolic]
                      ELSE heap[l]], objects')

\* The native bytes an external call of s may leave: it writes some objects.
Outcomes(s) ==
  {[o \in MO |-> IF o \in W THEN v ELSE CopiedOut(s)[o]] :
      W \in {U \in SUBSET MO : Cardinality(U) =< MaxWrites}, v \in Value}

ExternalCall(s, after) ==
  /\ s \in live
  /\ native' = after
  /\ Changed(s, after) \intersect ReadOnly = {}
  /\ CopyIn(s, after)
  /\ UNCHANGED <<live, cowKey, kind, frames, symbolics>>

\* copyInConcretes returned false: the state ends.
ExternalReadOnlyError(s, after) ==
  /\ Changed(s, after) \intersect ReadOnly # {}
  /\ native' = after
  /\ Drop(s)

\* executeCall caught a signal: the state ends, the native bytes stay.
ExternalCrash(s, after) ==
  /\ native' = after
  /\ Drop(s)

Next ==
  \E s \in State :
    \/ \E o \in MO, isLocal \in BOOLEAN : ExecuteAlloc(s, o, isLocal)
    \/ \E o \in MO : DefineFixedObject(s, o)
    \/ \E o, p \in MO : ExecuteRealloc(s, o, p)
    \/ \E o \in MO : ExecuteFree(s, o)
    \/ PushFrame(s)
    \/ PopFrame(s)
    \/ \E o \in MO, c \in Content : WriteObject(s, o, c)
    \/ \E o \in MO : MakeSymbolic(s, o)
    \/ \E t \in State : Branch(s, t)
    \/ \E t \in State, o, p \in MO, c \in Content : WriteEither(s, t, o, p, c)
    \/ TerminateState(s)
    \/ \E after \in Outcomes(s) :
         \/ ExternalCall(s, after)
         \/ ExternalReadOnlyError(s, after)
         \/ ExternalCrash(s, after)

Spec == Init /\ [][Next]_vars

-------------------------------------------------------------------------------
(* Properties.                                                             *)

\* Every variable has its type; a state that exists has a stack, one that does
\* not holds nothing, nobody holds an object not made yet, and a slot is in use
\* exactly when some map holds it (ObjectHolder).
TypeOK ==
  /\ live \subseteq State
  /\ cowKey \in [State -> Nat]
  /\ objects \in [State -> [MO -> OS \union {NoOS}]]
  /\ heap \in [OS -> ObjectState \union {NoOS}]
  /\ kind \in [MO -> {"unused", "heap", "local", "global"}]
  /\ frames \in [State -> Seq(SUBSET MO)]
  /\ symbolics \in [State -> SUBSET MO]
  /\ native \in [MO -> Value]
  /\ \A s \in live : Len(frames[s]) > 0
  /\ \A s \in State, o \in MO : Bound(s, o) => s \in live /\ kind[o] # "unused"
  /\ \A l \in OS : heap[l] # NoOS <=> l \in Referenced(objects)

\* AddressSpace.h: "forall o in objects, o->copyOnWriteOwner <= cowKey".
OwnerWithinKey ==
  \A s \in live, o \in MO : Bound(s, o) => heap[objects[s][o]].owner =< cowKey[s]

\* AddressSpace.h: "the objects that we own" are those whose owner is our
\* cowKey.  Owning must be exclusive: an object state a state would write in
\* place is bound once, by that state.
OwnedIsPrivate ==
  \A s, t \in live, o, p \in MO :
    Bound(s, o) /\ heap[objects[s][o]].owner = cowKey[s] /\ objects[t][p] = objects[s][o]
      => s = t /\ o = p

\* An alloca a state still holds is on its stack's lists, so that the return of
\* its function will unbind it (popFrame; bindObjectInState keeps the lists).
LocalsOnStack ==
  \A s \in live, o \in MO :
    Bound(s, o) /\ kind[o] = "local" => \E i \in 1..Len(frames[s]) : o \in frames[s][i]

\* The memory each state sees, and the promise that it is its own: no step of
\* one state shows in another (copy-on-write, external calls, termination).
Contents(l) == IF heap[l].symbolic THEN Symbolic ELSE heap[l].store
mem == [s \in State |-> [o \in MO |->
          IF Bound(s, o) THEN Contents(objects[s][o]) ELSE Unbound]]

Private == INSTANCE PrivateMemory
PrivateSpec == Private!Spec
===============================================================================
