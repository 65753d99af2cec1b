-------------------------- MODULE AddressSpaceProofs --------------------------
(***************************************************************************)
(* AddressSpace for any number of states, objects and slots: the type      *)
(* invariant, the ownership rule of AddressSpace.h, and that the shared,   *)
(* copied-on-write object states implement PrivateMemory.  The locals of a *)
(* state are the allocas of its frames.                                    *)
(***************************************************************************)
EXTENDS AddressSpace, TLAPS

\* What every step preserves.
IInv == TypeOK /\ OwnerWithinKey /\ OwnedIsPrivate

\* Deleting unreferenced object states leaves the referenced ones as they are.
LEMMA CollectKeeps ==
  ASSUME NEW h \in [OS -> ObjectState \union {NoOS}],
         NEW objs \in [State -> [MO -> OS \union {NoOS}]],
         \A l \in Referenced(objs) : h[l] # NoOS
  PROVE  /\ Collect(h, objs) \in [OS -> ObjectState \union {NoOS}]
         /\ \A l \in OS : Collect(h, objs)[l] # NoOS <=> l \in Referenced(objs)
         /\ \A l \in Referenced(objs) : l \in OS /\ Collect(h, objs)[l] = h[l]
<1>1. \A l \in Referenced(objs) : l \in OS
  BY DEF Referenced
<1> QED  BY <1>1 DEF Collect

\* A slot some state binds is referenced and in use.
LEMMA BoundInUse ==
  ASSUME TypeOK, NEW s \in State, NEW o \in MO, Bound(s, o)
  PROVE  /\ objects[s][o] \in OS
         /\ objects[s][o] \in Referenced(objects)
         /\ heap[objects[s][o]] \in ObjectState
<1>1. objects[s][o] \in OS /\ objects[s][o] \in Referenced(objects)
  BY DEF TypeOK, Bound, Referenced
<1> QED  BY <1>1 DEF TypeOK

\* operator new gives each object a free slot of its own.
LEMMA AllocateGives ==
  ASSUME NEW F \in SUBSET OS, NEW D \in SUBSET MO, NEW f \in Allocate(F, D)
  PROVE  f \in [D -> F] /\ \A o, p \in D : f[o] = f[p] => o = p
BY SpaceAssumption, Zenon

\* What getWriteable returns: the slot itself if it is owned, else a free one,
\* and never one slot for two objects that were copied.
LEMMA WriteableSlots ==
  ASSUME TypeOK, NEW key, NEW at, NEW D \in SUBSET MO,
         \A o \in D : at[o] \in OS /\ heap[at[o]] \in ObjectState,
         NEW f \in Writeable(key, at, D)
  PROVE  /\ f \in [D -> OS]
         /\ \A o \in D : \/ f[o] = at[o] /\ heap[at[o]].owner = key
                         \/ heap[f[o]] = NoOS /\ heap[at[o]].owner # key
         /\ \A o, p \in D : f[o] = f[p] /\ heap[f[o]] = NoOS => o = p
<1> DEFINE owned == {o \in D : heap[at[o]].owner = key}
<1>1. PICK g \in Allocate(Free, D \ owned) :
        f = [o \in D |-> IF o \in owned THEN at[o] ELSE g[o]]
  BY DEF Writeable
<1> DEFINE rest == D \ owned
<1>2. Free \in SUBSET OS /\ rest \in SUBSET MO
  BY DEF Free
<1>3. g \in [rest -> Free] /\ \A o, p \in rest : g[o] = g[p] => o = p
  <2> g \in Allocate(Free, rest)
    OBVIOUS
  <2> HIDE DEF rest
  <2> QED  BY <1>2, AllocateGives, Zenon
<1>4. \A o \in owned : heap[at[o]] # NoOS
  BY SpaceAssumption
<1> QED  BY <1>1, <1>2, <1>3, <1>4 DEF Free

ContentsIn(os) == IF os.symbolic THEN Symbolic ELSE os.store

\* The common shape of the steps that rebind objects of one state s: the
\* objects of D move to the slots new, fresh or already owned, those of G are
\* unbound, h is the heap before unreferenced slots are freed, and no other
\* state changes.
Rebinding(s, D, G, new, h) ==
  /\ s \in live /\ D \subseteq MO /\ G \subseteq MO
  /\ new \in [D -> OS] /\ h \in [OS -> ObjectState \union {NoOS}]
  /\ \A o \in D : h[new[o]] \in ObjectState /\ h[new[o]].owner = cowKey[s]
  /\ \A o \in D : \/ heap[new[o]] = NoOS
                  \/ Bound(s, o) /\ new[o] = objects[s][o] /\ heap[new[o]].owner = cowKey[s]
  /\ \A o, p \in D : new[o] = new[p] => o = p
  /\ \A l \in OS : h[l] = heap[l] \/ \E o \in D : l = new[o]
  /\ objects' = [objects EXCEPT ![s] =
                   [o \in MO |-> IF o \in D THEN new[o]
                                 ELSE IF o \in G THEN NoOS ELSE objects[s][o]]]
  /\ heap' = Collect(h, objects')
  /\ live' = live /\ cowKey' = cowKey

\* Such a step keeps the ownership rule and changes the memory of s alone.
LEMMA Rebind ==
  ASSUME IInv, NEW s, NEW D, NEW G, NEW new, NEW h, Rebinding(s, D, G, new, h)
  PROVE  /\ objects' \in [State -> [MO -> OS \union {NoOS}]]
         /\ heap' \in [OS -> ObjectState \union {NoOS}]
         /\ \A l \in OS : heap'[l] # NoOS <=> l \in Referenced(objects')
         /\ OwnerWithinKey' /\ OwnedIsPrivate'
         /\ mem' = [mem EXCEPT ![s] =
                      [o \in MO |-> IF o \in D THEN ContentsIn(h[new[o]])
                                    ELSE IF o \in G THEN Unbound ELSE mem[s][o]]]
<1> DEFINE In(t, o) == t = s /\ o \in D
<1>s. s \in State /\ s \in live /\ TypeOK /\ cowKey[s] \in Nat /\ live \subseteq State
  BY DEF TypeOK, IInv, Rebinding
<1>1. objects' \in [State -> [MO -> OS \union {NoOS}]]
  BY <1>s DEF TypeOK, Rebinding
<1>6. ASSUME NEW o \in D
      PROVE  /\ o \in MO /\ objects'[s][o] = new[o] /\ new[o] # NoOS
             /\ h[new[o]] \in ObjectState /\ h[new[o]].owner = cowKey[s]
  BY <1>s, SpaceAssumption DEF TypeOK, Rebinding
<1>2. ASSUME NEW t \in State, NEW o \in MO, objects'[t][o] # NoOS, ~In(t, o)
      PROVE  /\ t \in live
             /\ Bound(t, o) /\ objects'[t][o] = objects[t][o]
             /\ objects[t][o] \in OS /\ heap[objects[t][o]] \in ObjectState
             /\ \A p \in D : objects[t][o] # new[p]
             /\ h[objects[t][o]] = heap[objects[t][o]]
  <2>1. Bound(t, o) /\ objects'[t][o] = objects[t][o]
    BY <1>2, <1>s DEF TypeOK, Bound, Rebinding
  <2>2. objects[t][o] \in OS /\ heap[objects[t][o]] \in ObjectState /\ t \in live
    BY <2>1, <1>s, BoundInUse DEF TypeOK
  <2>3. ASSUME NEW p \in D, objects[t][o] = new[p]
        PROVE  FALSE
    <3>1. heap[new[p]] # NoOS
      BY <2>2, <2>3, SpaceAssumption
    <3>2. Bound(s, p) /\ new[p] = objects[s][p] /\ heap[objects[s][p]].owner = cowKey[s]
      BY <3>1 DEF Rebinding
    <3>3. t = s /\ o = p
      BY <3>2, <2>2, <2>3, <1>s, <1>6 DEF OwnedIsPrivate, IInv
    <3> QED  BY <3>3, <1>2
  <2> QED  BY <2>1, <2>2, <2>3 DEF Rebinding
<1>3. ASSUME NEW l \in Referenced(objects')
      PROVE  h[l] # NoOS
  <2>1. PICK t \in State, o \in MO : l = objects'[t][o] /\ l # NoOS
    BY DEF Referenced
  <2>2. CASE In(t, o)
    BY <2>1, <2>2, <1>6, SpaceAssumption
  <2>3. CASE ~In(t, o)
    BY <2>1, <2>3, <1>2, SpaceAssumption
  <2> QED  BY <2>2, <2>3
<1>4. /\ heap' \in [OS -> ObjectState \union {NoOS}]
      /\ \A l \in OS : heap'[l] # NoOS <=> l \in Referenced(objects')
      /\ \A l \in Referenced(objects') : l \in OS /\ heap'[l] = h[l]
  <2>1. h \in [OS -> ObjectState \union {NoOS}] /\ heap' = Collect(h, objects')
    BY DEF Rebinding
  <2> QED  BY <2>1, <1>1, <1>3, CollectKeeps
<1>5. ASSUME NEW t \in State, NEW o \in MO, objects'[t][o] # NoOS
      PROVE  heap'[objects'[t][o]] = h[objects'[t][o]]
  <2>1. objects'[t][o] \in Referenced(objects')
    BY <1>5 DEF Referenced
  <2> QED  BY <2>1, <1>4
<1> HIDE DEF In
<1>in. ASSUME NEW t, NEW o, In(t, o)
       PROVE  t = s /\ o \in D
  BY <1>in DEF In
\* What a state holds after the step was written by it, or held before.
<1>7. ASSUME NEW t \in live, NEW o \in MO, objects'[t][o] # NoOS
      PROVE  \/ /\ In(t, o) /\ objects'[t][o] = new[o]
                /\ heap'[objects'[t][o]] = h[new[o]] /\ h[new[o]].owner = cowKey[t]
             \/ /\ ~In(t, o) /\ Bound(t, o) /\ objects'[t][o] = objects[t][o]
                /\ heap'[objects'[t][o]] = heap[objects[t][o]]
                /\ \A p \in D : objects[t][o] # new[p]
  <2>1. t \in State
    BY <1>s
  <2>2. CASE In(t, o)
    BY <2>1, <2>2, <1>in, <1>5, <1>6, <1>7
  <2>3. CASE ~In(t, o)
    BY <2>1, <2>3, <1>2, <1>5, <1>7
  <2> QED  BY <2>2, <2>3
<1>8. live' = live /\ cowKey' = cowKey
  BY DEF Rebinding
<1>9. OwnerWithinKey'
  <2> SUFFICES ASSUME NEW t \in live, NEW o \in MO, objects'[t][o] # NoOS
               PROVE  heap'[objects'[t][o]].owner =< cowKey[t]
    BY <1>8 DEF OwnerWithinKey, Bound
  <2>1. cowKey[t] \in Nat
    BY <1>s DEF TypeOK
  <2>2. CASE In(t, o)
    BY <1>7, <2>1, <2>2
  <2>3. CASE ~In(t, o)
    BY <1>7, <2>1, <2>3 DEF OwnerWithinKey, IInv
  <2> QED  BY <2>2, <2>3
<1>10. OwnedIsPrivate'
  <2> SUFFICES ASSUME NEW t \in live', NEW u \in live', NEW o \in MO, NEW p \in MO,
                      objects'[t][o] # NoOS, heap'[objects'[t][o]].owner = cowKey'[t],
                      objects'[u][p] = objects'[t][o]
               PROVE  t = u /\ o = p
    BY DEF OwnedIsPrivate, Bound
  <2>0. t \in live /\ u \in live /\ heap'[objects'[t][o]].owner = cowKey[t]
    BY <1>8
  <2>1. CASE In(t, o) /\ In(u, p)
    <3>1. new[o] = new[p] /\ o \in D /\ p \in D /\ t = u
      BY <2>0, <2>1, <1>7, <1>in
    <3> QED  BY <3>1 DEF Rebinding
  <2>2. CASE In(t, o) /\ ~In(u, p)
    BY <2>0, <2>2, <1>7, <1>in
  <2>3. CASE ~In(t, o) /\ In(u, p)
    BY <2>0, <2>3, <1>7, <1>in
  <2>4. CASE ~In(t, o) /\ ~In(u, p)
    <3>1. Bound(t, o) /\ objects[u][p] = objects[t][o] /\ heap[objects[t][o]].owner = cowKey[t]
      BY <2>0, <2>4, <1>7
    <3> QED  BY <2>0, <3>1 DEF OwnedIsPrivate, IInv
  <2> QED  BY <2>1, <2>2, <2>3, <2>4
<1>11. mem' = [mem EXCEPT ![s] =
                [o \in MO |-> IF o \in D THEN ContentsIn(h[new[o]])
                              ELSE IF o \in G THEN Unbound ELSE mem[s][o]]]
  <2> DEFINE after(t, o) == IF t = s
                            THEN IF o \in D THEN ContentsIn(h[new[o]])
                                 ELSE IF o \in G THEN Unbound ELSE mem[s][o]
                            ELSE mem[t][o]
  <2>1. ASSUME NEW t \in State, NEW o \in MO
        PROVE  mem'[t][o] = after(t, o)
    <3>m. /\ mem'[t][o] = IF objects'[t][o] # NoOS THEN ContentsIn(heap'[objects'[t][o]])
                                                   ELSE Unbound
          /\ mem[t][o] = IF Bound(t, o) THEN ContentsIn(heap[objects[t][o]]) ELSE Unbound
      BY DEF mem, Bound, Contents, ContentsIn
    <3>1. CASE In(t, o)
      <4>1. t = s /\ o \in D /\ objects'[t][o] # NoOS /\ t \in live
        BY <3>1, <1>in, <1>6, <1>s
      <4> QED  BY <4>1, <3>1, <3>m, <1>7
    <3>2. CASE ~In(t, o) /\ objects'[t][o] # NoOS
      <4>1. t \in live
        BY <3>2, <1>2 DEF In
      <4>2. mem'[t][o] = mem[t][o]
        BY <3>2, <3>m, <4>1, <1>7
      <4>3. t = s => o \notin D /\ o \notin G
        BY <3>2, <1>s DEF In, TypeOK, Rebinding
      <4> QED  BY <4>2, <4>3
    <3>3. CASE ~In(t, o) /\ objects'[t][o] = NoOS
      <4>1. mem'[t][o] = Unbound
        BY <3>3, <3>m
      <4>2. CASE t = s /\ o \in G
        BY <3>3, <4>1, <4>2 DEF In
      <4>3. CASE ~(t = s /\ o \in G)
        <5>1. objects[t][o] = NoOS
          BY <3>3, <4>3, <1>s DEF In, TypeOK, Rebinding
        <5> QED  BY <5>1, <3>3, <4>1, <4>3, <3>m DEF In, Bound
      <4> QED  BY <4>2, <4>3
    <3> QED  BY <3>1, <3>2, <3>3
  <2>2. mem' = [t \in State |-> [o \in MO |-> mem'[t][o]]]
    BY DEF mem
  <2>3. [mem EXCEPT ![s] = [o \in MO |-> after(s, o)]]
          = [t \in State |-> [o \in MO |-> after(t, o)]]
    BY <1>s DEF mem
  <2>4. [t \in State |-> [o \in MO |-> mem'[t][o]]]
          = [t \in State |-> [o \in MO |-> after(t, o)]]
    BY <2>1
  <2> QED  BY <2>2, <2>3, <2>4
<1> QED  BY <1>1, <1>4, <1>9, <1>10, <1>11

\* With the types of the variables Rebinding does not mention, the invariant.
LEMMA RebindInv ==
  ASSUME IInv, NEW s, NEW D, NEW G, NEW new, NEW h, Rebinding(s, D, G, new, h),
         kind' \in [MO -> {"unused", "heap", "local", "global"}],
         \A o \in MO : kind[o] # "unused" \/ o \in D => kind'[o] # "unused",
         frames' \in [State -> Seq(SUBSET MO)],
         \A t \in live : Len(frames'[t]) > 0,
         symbolics' \in [State -> SUBSET MO],
         native' \in [MO -> Value]
  PROVE  IInv'
<1>1. TypeOK /\ live' = live /\ cowKey' = cowKey /\ s \in live
  BY DEF IInv, Rebinding
<1>2. ASSUME NEW t \in State, NEW o \in MO, objects'[t][o] # NoOS
      PROVE  t \in live /\ kind'[o] # "unused"
  <2>1. CASE t = s /\ o \in D
    BY <2>1, <1>1
  <2>2. CASE ~(t = s /\ o \in D)
    <3>1. Bound(t, o)
      BY <1>1, <1>2, <2>2 DEF TypeOK, Bound, Rebinding
    <3> QED  BY <3>1, <1>1 DEF TypeOK
  <2> QED  BY <2>1, <2>2
<1>3. TypeOK'
  BY <1>1, <1>2, Rebind DEF TypeOK, Bound
<1> QED  BY <1>3, Rebind DEF IInv

\* Binding one object to a new object state is a Rebinding.
LEMMA BindObjectRebinds ==
  ASSUME IInv, NEW s \in live, NEW o \in MO, NEW os \in ObjectState,
         os.owner = cowKey[s], BindObject(s, o, os), live' = live, cowKey' = cowKey
  PROVE  \E new, h : /\ Rebinding(s, {o}, {}, new, h)
                     /\ h[new[o]] = os
<1>1. PICK new \in Allocate(Free, {o}) :
        /\ objects' = [objects EXCEPT ![s][o] = new[o]]
        /\ heap' = Collect([heap EXCEPT ![new[o]] = os], objects')
  BY DEF BindObject
<1> DEFINE h == [heap EXCEPT ![new[o]] = os]
<1>2. Free \in SUBSET OS /\ {o} \in SUBSET MO
  BY DEF Free
<1>3. new \in [{o} -> Free]
  BY <1>2, AllocateGives, Zenon
<1>4. new[o] \in OS /\ heap[new[o]] = NoOS
  BY <1>3 DEF Free
<1>5. TypeOK /\ s \in State
  BY DEF IInv, TypeOK
<1>6. h \in [OS -> ObjectState \union {NoOS}] /\ h[new[o]] = os
      /\ \A l \in OS : h[l] = heap[l] \/ l = new[o]
  BY <1>4, <1>5 DEF TypeOK
<1>7. objects' = [objects EXCEPT ![s] = [p \in MO |-> IF p \in {o} THEN new[p]
                                     ELSE IF p \in {} THEN NoOS ELSE objects[s][p]]]
  BY <1>1, <1>5 DEF TypeOK
<1>8. new \in [{o} -> OS]
  BY <1>2, <1>3
<1> HIDE DEF h
<1>9. heap' = Collect(h, objects')
  BY <1>1 DEF h
<1>10. /\ \A p \in {o} : h[new[p]] \in ObjectState /\ h[new[p]].owner = cowKey[s]
       /\ \A p \in {o} : heap[new[p]] = NoOS
       /\ \A l \in OS : h[l] = heap[l] \/ \E p \in {o} : l = new[p]
  BY <1>4, <1>6
<1>11. Rebinding(s, {o}, {}, new, h)
  <2>1. {o} \subseteq MO /\ {} \subseteq MO /\ \A q, p \in {o} : new[q] = new[p] => q = p
    OBVIOUS
  <2>2. s \in live /\ h \in [OS -> ObjectState \union {NoOS}]
        /\ live' = live /\ cowKey' = cowKey
    BY <1>6
  <2> QED  BY <2>1, <2>2, <1>7, <1>8, <1>9, <1>10, Zenon DEF Rebinding
<1> QED  BY <1>6, <1>11

-------------------------------------------------------------------------------
(* One lemma per action: it preserves IInv and is a step, or a stutter, of *)
(* PrivateMemory.                                                          *)

\* The effect on the memories of binding o in s to a new object state.
LEMMA BindObjectStep ==
  ASSUME IInv, NEW s \in live, NEW o \in MO, NEW os \in ObjectState,
         os.owner = cowKey[s], BindObject(s, o, os), live' = live, cowKey' = cowKey,
         kind' \in [MO -> {"unused", "heap", "local", "global"}],
         \A p \in MO : kind[p] # "unused" \/ p = o => kind'[p] # "unused",
         frames' \in [State -> Seq(SUBSET MO)],
         \A t \in live : Len(frames'[t]) > 0,
         symbolics' \in [State -> SUBSET MO],
         native' \in [MO -> Value]
  PROVE  IInv' /\ Private!Bind(s, o, ContentsIn(os))
<1>1. PICK new, h : Rebinding(s, {o}, {}, new, h) /\ h[new[o]] = os
  BY BindObjectRebinds, Zenon
<1>2. IInv'
  BY <1>1, RebindInv
<1>3. s \in State /\ ContentsIn(os) \in Private!Content
  BY DEF IInv, TypeOK, ContentsIn, ObjectState, Private!Content
<1>4. mem' = [mem EXCEPT ![s] =
                [p \in MO |-> IF p \in {o} THEN ContentsIn(h[new[p]])
                              ELSE IF p \in {} THEN Unbound ELSE mem[s][p]]]
  BY <1>1, Rebind
<1>5. [p \in MO |-> IF p \in {o} THEN ContentsIn(h[new[p]])
                    ELSE IF p \in {} THEN Unbound ELSE mem[s][p]]
        = [mem[s] EXCEPT ![o] = ContentsIn(os)]
  BY <1>1, <1>3 DEF mem
<1> QED  BY <1>2, <1>3, <1>4, <1>5 DEF Private!Bind

\* The frames after AddAlloca keep their type.
LEMMA AddAllocaType ==
  ASSUME TypeOK, NEW s \in live, NEW o \in MO, AddAlloca(s, o)
  PROVE  /\ frames' \in [State -> Seq(SUBSET MO)]
         /\ \A t \in live : Len(frames'[t]) > 0
<1> DEFINE n == Len(frames[s])
           fs == [frames[s] EXCEPT ![n] = frames[s][n] \union {o}]
<1>1. s \in State /\ frames[s] \in Seq(SUBSET MO) /\ n \in Nat /\ n > 0
  BY DEF TypeOK
<1>2. frames[s][n] \in SUBSET MO
  BY <1>1
<1>3. fs \in Seq(SUBSET MO) /\ Len(fs) = n
  BY <1>1, <1>2
<1>4. frames' = [frames EXCEPT ![s] = fs]
  BY DEF AddAlloca
<1> HIDE DEF fs, n
<1>5. \A t \in State : frames'[t] = IF t = s THEN fs ELSE frames[t]
  BY <1>4, <1>1 DEF TypeOK
<1> QED  BY <1>1, <1>3, <1>4, <1>5 DEF TypeOK

\* A new object state has the key of its address space for an owner.
LEMMA FreshState ==
  ASSUME TypeOK, NEW s \in live
  PROVE  /\ Fresh(s) \in ObjectState /\ Fresh(s).owner = cowKey[s]
         /\ Fresh(s).store = Initial /\ Fresh(s).symbolic = FALSE
BY SpaceAssumption DEF TypeOK, Fresh, ObjectState

\* The actions, each a step of PrivateMemory: an allocation,
LEMMA ExecuteAllocStep ==
  ASSUME IInv, NEW s \in State, NEW o \in MO, NEW isLocal \in BOOLEAN,
         ExecuteAlloc(s, o, isLocal)
  PROVE  IInv' /\ Private!Next
<1>1. /\ s \in live /\ BindObject(s, o, Fresh(s)) /\ live' = live /\ cowKey' = cowKey
      /\ kind' = [kind EXCEPT ![o] = IF isLocal THEN "local" ELSE "heap"]
      /\ symbolics' = symbolics /\ native' = native /\ TypeOK
  BY DEF ExecuteAlloc, IInv
<1>2. frames' \in [State -> Seq(SUBSET MO)] /\ \A t \in live : Len(frames'[t]) > 0
  BY <1>1, AddAllocaType DEF ExecuteAlloc, TypeOK
<1>3. /\ kind' \in [MO -> {"unused", "heap", "local", "global"}]
      /\ \A p \in MO : kind[p] # "unused" \/ p = o => kind'[p] # "unused"
      /\ symbolics' \in [State -> SUBSET MO] /\ native' \in [MO -> Value]
  BY <1>1 DEF TypeOK
<1>4. IInv' /\ Private!Bind(s, o, ContentsIn(Fresh(s)))
  BY <1>1, <1>2, <1>3, FreshState, BindObjectStep
<1> QED  BY <1>4 DEF Private!Next, Private!Bind

\* an object at a fixed address,
LEMMA DefineFixedObjectStep ==
  ASSUME IInv, NEW s \in State, NEW o \in MO, DefineFixedObject(s, o)
  PROVE  IInv' /\ Private!Next
<1>1. /\ s \in live /\ BindObject(s, o, Fresh(s)) /\ live' = live /\ cowKey' = cowKey
      /\ kind' = [kind EXCEPT ![o] = "global"]
      /\ frames' = frames /\ symbolics' = symbolics /\ native' = native /\ TypeOK
  BY DEF DefineFixedObject, IInv
<1>2. /\ kind' \in [MO -> {"unused", "heap", "local", "global"}]
      /\ \A p \in MO : kind[p] # "unused" \/ p = o => kind'[p] # "unused"
      /\ symbolics' \in [State -> SUBSET MO] /\ native' \in [MO -> Value]
      /\ frames' \in [State -> Seq(SUBSET MO)] /\ \A t \in live : Len(frames'[t]) > 0
  BY <1>1 DEF TypeOK
<1>3. IInv' /\ Private!Bind(s, o, ContentsIn(Fresh(s)))
  BY <1>1, <1>2, FreshState, BindObjectStep
<1> QED  BY <1>3 DEF Private!Next, Private!Bind

\* an object made symbolic,
LEMMA MakeSymbolicStep ==
  ASSUME IInv, NEW s \in State, NEW o \in MO, MakeSymbolic(s, o)
  PROVE  IInv' /\ Private!Next
<1> DEFINE os == [Fresh(s) EXCEPT !.symbolic = TRUE]
<1>1. /\ s \in live /\ BindObject(s, o, os) /\ live' = live /\ cowKey' = cowKey
      /\ kind' = kind /\ Bound(s, o)
      /\ symbolics' = [symbolics EXCEPT ![s] = symbolics[s] \union {o}]
      /\ frames' = frames /\ native' = native /\ TypeOK
  BY DEF MakeSymbolic, IInv
<1>2. os \in ObjectState /\ os.owner = cowKey[s]
  BY <1>1, SpaceAssumption DEF Fresh, ObjectState, TypeOK
<1>3. /\ kind' \in [MO -> {"unused", "heap", "local", "global"}]
      /\ \A p \in MO : kind[p] # "unused" \/ p = o => kind'[p] # "unused"
      /\ symbolics' \in [State -> SUBSET MO] /\ native' \in [MO -> Value]
      /\ frames' \in [State -> Seq(SUBSET MO)] /\ \A t \in live : Len(frames'[t]) > 0
  BY <1>1 DEF TypeOK
<1> HIDE DEF os
<1>4. IInv' /\ Private!Bind(s, o, ContentsIn(os))
  BY <1>1, <1>2, <1>3, BindObjectStep
<1> QED  BY <1>4 DEF Private!Next, Private!Bind

\* The contents of an object state are never mistaken for "not held".
LEMMA UnboundIsNoContent ==
  ASSUME NEW os \in ObjectState
  PROVE  ContentsIn(os) \in Content /\ ContentsIn(os) # Unbound
BY SpaceAssumption DEF ContentsIn, ObjectState, Content

\* An object some state holds was made.
LEMMA BoundUsed ==
  ASSUME TypeOK, NEW s \in State, NEW o \in MO, Bound(s, o)
  PROVE  kind[o] # "unused" /\ s \in live
BY DEF TypeOK

\* Unbinding objects is a Rebinding of none.
LEMMA UnbindAllStep ==
  ASSUME IInv, NEW s \in live, NEW U \in SUBSET MO, UnbindAll(s, U),
         live' = live, cowKey' = cowKey, kind' = kind,
         frames' \in [State -> Seq(SUBSET MO)],
         \A t \in live : Len(frames'[t]) > 0,
         symbolics' = symbolics, native' = native
  PROVE  IInv' /\ Private!Next
<1> DEFINE new == [o \in {} |-> NoOS]
<1>1. TypeOK /\ s \in State
  BY DEF IInv, TypeOK
<1>2. objects' = [objects EXCEPT ![s] = [o \in MO |-> IF o \in {} THEN new[o]
                                     ELSE IF o \in U THEN NoOS ELSE objects[s][o]]]
  BY <1>1 DEF UnbindAll, TypeOK
<1>3. /\ heap' = Collect(heap, objects') /\ new \in [{} -> OS]
      /\ heap \in [OS -> ObjectState \union {NoOS}]
  BY <1>1 DEF UnbindAll, TypeOK
<1> HIDE DEF new
<1>4. Rebinding(s, {}, U, new, heap)
  BY <1>2, <1>3 DEF Rebinding
<1>a. /\ kind' \in [MO -> {"unused", "heap", "local", "global"}]
      /\ \A p \in MO : kind[p] # "unused" \/ p \in {} => kind'[p] # "unused"
      /\ symbolics' \in [State -> SUBSET MO] /\ native' \in [MO -> Value]
  BY <1>1 DEF TypeOK
<1>5. IInv'
  BY <1>4, <1>a, RebindInv
<1>6. mem' = [mem EXCEPT ![s] =
                [o \in MO |-> IF o \in {} THEN ContentsIn(heap[new[o]])
                              ELSE IF o \in U THEN Unbound ELSE mem[s][o]]]
  BY <1>4, Rebind
<1>7. Private!Unbind(s, U)
  BY <1>6 DEF Private!Unbind
<1> QED  BY <1>1, <1>5, <1>7 DEF Private!Next

\* a free,
LEMMA ExecuteFreeStep ==
  ASSUME IInv, NEW s \in State, NEW o \in MO, ExecuteFree(s, o)
  PROVE  IInv' /\ Private!Next
<1>1. /\ s \in live /\ UnbindAll(s, {o}) /\ live' = live /\ cowKey' = cowKey
      /\ kind' = kind /\ frames' = frames /\ symbolics' = symbolics /\ native' = native
  BY DEF ExecuteFree
<1>2. frames' \in [State -> Seq(SUBSET MO)] /\ \A t \in live : Len(frames'[t]) > 0
  BY <1>1 DEF IInv, TypeOK
<1> QED  BY <1>1, <1>2, UnbindAllStep

\* the end of a frame, with its allocas,
LEMMA PopFrameStep ==
  ASSUME IInv, NEW s \in State, PopFrame(s)
  PROVE  IInv' /\ Private!Next
<1> DEFINE top == frames[s][Len(frames[s])]
           rest == SubSeq(frames[s], 1, Len(frames[s]) - 1)
<1>1. /\ s \in live /\ live' = live /\ cowKey' = cowKey /\ Len(frames[s]) > 1
      /\ kind' = kind /\ symbolics' = symbolics /\ native' = native
      /\ frames' = [frames EXCEPT ![s] = rest]
  BY DEF PopFrame
<1>2. PICK stray \in SUBSET MO : UnbindAll(s, top \union stray)
  BY DEF PopFrame
<1>3. frames[s] \in Seq(SUBSET MO) /\ Len(frames[s]) \in Nat
  BY DEF IInv, TypeOK
<1>4. top \in SUBSET MO /\ rest \in Seq(SUBSET MO) /\ Len(rest) > 0
  BY <1>1, <1>3
<1> HIDE DEF top, rest
<1>5. frames' \in [State -> Seq(SUBSET MO)] /\ \A t \in live : Len(frames'[t]) > 0
  BY <1>1, <1>4 DEF IInv, TypeOK
<1> QED  BY <1>1, <1>2, <1>4, <1>5, UnbindAllStep

\* a new frame, which changes no memory,
LEMMA PushFrameStep ==
  ASSUME IInv, NEW s \in State, PushFrame(s)
  PROVE  IInv' /\ UNCHANGED <<live, mem>>
<1>1. /\ live' = live /\ cowKey' = cowKey /\ objects' = objects /\ heap' = heap
      /\ kind' = kind /\ symbolics' = symbolics /\ native' = native
      /\ frames' = [frames EXCEPT ![s] = Append(frames[s], {})]
  BY DEF PushFrame
<1>2. frames[s] \in Seq(SUBSET MO) /\ Append(frames[s], {}) \in Seq(SUBSET MO)
      /\ Len(Append(frames[s], {})) = Len(frames[s]) + 1 /\ Len(frames[s]) \in Nat
  BY DEF IInv, TypeOK
<1>3. frames' \in [State -> Seq(SUBSET MO)] /\ \A t \in live : Len(frames'[t]) > 0
  BY <1>1, <1>2 DEF IInv, TypeOK
<1>4. TypeOK'
  BY <1>1, <1>3 DEF IInv, TypeOK, Bound
<1>5. OwnerWithinKey' /\ OwnedIsPrivate' /\ mem' = mem
  BY <1>1 DEF IInv, OwnerWithinKey, OwnedIsPrivate, mem, Bound, Contents
<1> QED  BY <1>1, <1>4, <1>5 DEF IInv

\* a write,
LEMMA WriteObjectStep ==
  ASSUME IInv, NEW s \in State, NEW o \in MO, NEW c \in Content, WriteObject(s, o, c)
  PROVE  IInv' /\ Private!Next
<1> DEFINE os == Written(cowKey[s], objects[s][o], c)
<1>1. /\ s \in live /\ Bound(s, o) /\ o \notin ReadOnly
      /\ live' = live /\ cowKey' = cowKey /\ kind' = kind /\ frames' = frames
      /\ symbolics' = symbolics /\ native' = native /\ TypeOK
  BY DEF WriteObject, IInv
<1>2. PICK at \in Writeable(cowKey[s], objects[s], {o}) :
        /\ objects' = [objects EXCEPT ![s][o] = at[o]]
        /\ heap' = Collect([heap EXCEPT ![at[o]] = os], objects')
  BY DEF WriteObject
<1> DEFINE h == [heap EXCEPT ![at[o]] = os]
<1>3. objects[s][o] \in OS /\ heap[objects[s][o]] \in ObjectState
  BY <1>1, BoundInUse
<1>4. os \in ObjectState /\ os.owner = cowKey[s] /\ ContentsIn(os) = c
  BY <1>1, <1>3, SpaceAssumption DEF Written, ObjectState, TypeOK, Content, ContentsIn
<1> HIDE DEF os
<1>5. {o} \in SUBSET MO /\ \A p \in {o} : objects[s][p] \in OS /\ heap[objects[s][p]] \in ObjectState
  BY <1>3
<1>6. /\ at \in [{o} -> OS]
      /\ \A p \in {o} : \/ at[p] = objects[s][p] /\ heap[objects[s][p]].owner = cowKey[s]
                        \/ heap[at[p]] = NoOS
  BY <1>1, <1>5, WriteableSlots
<1>7. /\ h \in [OS -> ObjectState \union {NoOS}] /\ h[at[o]] = os
      /\ \A l \in OS : h[l] = heap[l] \/ l = at[o]
  BY <1>1, <1>4, <1>6 DEF TypeOK
<1>8. objects' = [objects EXCEPT ![s] = [p \in MO |-> IF p \in {o} THEN at[p]
                                     ELSE IF p \in {} THEN NoOS ELSE objects[s][p]]]
  BY <1>1, <1>2 DEF TypeOK
<1>9. heap' = Collect(h, objects')
  BY <1>2
<1> HIDE DEF h
<1>10. Rebinding(s, {o}, {}, at, h)
  BY <1>1, <1>4, <1>6, <1>7, <1>8, <1>9 DEF Rebinding
<1>a. /\ kind' \in [MO -> {"unused", "heap", "local", "global"}]
      /\ \A p \in MO : kind[p] # "unused" \/ p \in {o} => kind'[p] # "unused"
      /\ symbolics' \in [State -> SUBSET MO] /\ native' \in [MO -> Value]
      /\ frames' \in [State -> Seq(SUBSET MO)] /\ \A t \in live : Len(frames'[t]) > 0
  BY <1>1, BoundUsed DEF TypeOK
<1>11. IInv'
  BY <1>10, <1>a, RebindInv
<1>12. mem' = [mem EXCEPT ![s] =
                [p \in MO |-> IF p \in {o} THEN ContentsIn(h[at[p]])
                              ELSE IF p \in {} THEN Unbound ELSE mem[s][p]]]
  BY <1>10, Rebind
<1>13. [p \in MO |-> IF p \in {o} THEN ContentsIn(h[at[p]])
                     ELSE IF p \in {} THEN Unbound ELSE mem[s][p]]
         = [mem[s] EXCEPT ![o] = c]
  BY <1>4, <1>7 DEF mem
<1>14. Private!Bind(s, o, c)
  BY <1>1, <1>12, <1>13 DEF Private!Bind, Private!Content, Content
<1> QED  BY <1>11, <1>14 DEF Private!Next, Private!Content, Content

\* a realloc.
LEMMA ExecuteReallocStep ==
  ASSUME IInv, NEW s \in State, NEW o \in MO, NEW p \in MO, ExecuteRealloc(s, o, p)
  PROVE  IInv' /\ Private!Next
<1> DEFINE from == heap[objects[s][o]]
           to   == IF from.symbolic THEN [Fresh(s) EXCEPT !.symbolic = TRUE]
                                    ELSE [Fresh(s) EXCEPT !.store = from.store]
<1>1. /\ s \in live /\ Bound(s, o) /\ kind[p] = "unused"
      /\ live' = live /\ cowKey' = cowKey /\ kind' = [kind EXCEPT ![p] = "heap"]
      /\ frames' = frames /\ symbolics' = symbolics /\ native' = native /\ TypeOK
  BY DEF ExecuteRealloc, IInv
<1>2. PICK new \in Allocate(Free, {p}) :
        /\ objects' = [objects EXCEPT ![s] = [objects[s] EXCEPT ![p] = new[p], ![o] = NoOS]]
        /\ heap' = Collect([heap EXCEPT ![new[p]] = to], objects')
  BY DEF ExecuteRealloc
<1> DEFINE h == [heap EXCEPT ![new[p]] = to]
<1>3. o # p /\ ~Bound(s, p) /\ mem[s][p] = Unbound /\ mem[s][o] = ContentsIn(from)
      /\ from \in ObjectState /\ mem[s][o] # Unbound
  <2>1. o # p /\ ~Bound(s, p) /\ from \in ObjectState
    BY <1>1, BoundUsed, BoundInUse
  <2>2. ContentsIn(from) # Unbound
    BY <2>1, UnboundIsNoContent
  <2> QED  BY <1>1, <2>1, <2>2 DEF mem, Contents, ContentsIn
<1>4. to \in ObjectState /\ to.owner = cowKey[s] /\ ContentsIn(to) = ContentsIn(from)
  BY <1>1, <1>3, SpaceAssumption DEF Fresh, ObjectState, TypeOK, ContentsIn
<1> HIDE DEF to, from
<1>5. new \in [{p} -> OS] /\ heap[new[p]] = NoOS
  <2>1. Free \in SUBSET OS /\ {p} \in SUBSET MO
    BY DEF Free
  <2>2. new \in [{p} -> Free]
    BY <2>1, AllocateGives, Zenon
  <2> QED  BY <2>1, <2>2 DEF Free
<1>6. /\ h \in [OS -> ObjectState \union {NoOS}] /\ h[new[p]] = to
      /\ \A l \in OS : h[l] = heap[l] \/ l = new[p]
  BY <1>1, <1>4, <1>5 DEF TypeOK
<1>7. objects' = [objects EXCEPT ![s] = [q \in MO |-> IF q \in {p} THEN new[q]
                                     ELSE IF q \in {o} THEN NoOS ELSE objects[s][q]]]
  BY <1>1, <1>2, <1>3 DEF TypeOK
<1>8. heap' = Collect(h, objects')
  BY <1>2
<1> HIDE DEF h
<1>9. Rebinding(s, {p}, {o}, new, h)
  BY <1>1, <1>4, <1>5, <1>6, <1>7, <1>8 DEF Rebinding
<1>a. /\ kind' \in [MO -> {"unused", "heap", "local", "global"}]
      /\ \A q \in MO : kind[q] # "unused" \/ q \in {p} => kind'[q] # "unused"
      /\ symbolics' \in [State -> SUBSET MO] /\ native' \in [MO -> Value]
      /\ frames' \in [State -> Seq(SUBSET MO)] /\ \A t \in live : Len(frames'[t]) > 0
  BY <1>1 DEF TypeOK
<1>10. IInv'
  BY <1>9, <1>a, RebindInv
<1>11. mem' = [mem EXCEPT ![s] =
                [q \in MO |-> IF q \in {p} THEN ContentsIn(h[new[q]])
                              ELSE IF q \in {o} THEN Unbound ELSE mem[s][q]]]
  BY <1>9, Rebind
<1>12. [q \in MO |-> IF q \in {p} THEN ContentsIn(h[new[q]])
                     ELSE IF q \in {o} THEN Unbound ELSE mem[s][q]]
         = [mem[s] EXCEPT ![p] = mem[s][o], ![o] = Unbound]
  BY <1>3, <1>4, <1>6 DEF mem
<1>13. Private!Move(s, o, p)
  BY <1>1, <1>3, <1>11, <1>12 DEF Private!Move
<1> QED  BY <1>10, <1>13 DEF Private!Next

\* A terminated state takes its bindings and its epoch with it.
LEMMA DropStep ==
  ASSUME IInv, NEW s \in State, Drop(s), native' \in [MO -> Value]
  PROVE  IInv' /\ Private!Next
<1>1. /\ s \in live /\ live' = live \ {s} /\ kind' = kind
      /\ cowKey' = [cowKey EXCEPT ![s] = 0]
      /\ objects' = [objects EXCEPT ![s] = [o \in MO |-> NoOS]]
      /\ heap' = Collect(heap, objects')
      /\ frames' = [frames EXCEPT ![s] = <<>>]
      /\ symbolics' = [symbolics EXCEPT ![s] = {}] /\ TypeOK
  BY DEF Drop, IInv
<1>2. objects' \in [State -> [MO -> OS \union {NoOS}]]
  BY <1>1 DEF TypeOK
<1>3. ASSUME NEW t \in State, NEW o \in MO, objects'[t][o] # NoOS
      PROVE  /\ t # s /\ t \in live' /\ Bound(t, o) /\ objects'[t][o] = objects[t][o]
             /\ objects[t][o] \in OS /\ heap[objects[t][o]] \in ObjectState
  <2>1. t # s /\ Bound(t, o) /\ objects'[t][o] = objects[t][o]
    BY <1>1, <1>3 DEF TypeOK, Bound
  <2> QED  BY <2>1, <1>1, BoundUsed, BoundInUse
<1>4. \A l \in Referenced(objects') : heap[l] # NoOS
  BY <1>3, SpaceAssumption DEF Referenced
<1>5. /\ heap' \in [OS -> ObjectState \union {NoOS}]
      /\ \A l \in OS : heap'[l] # NoOS <=> l \in Referenced(objects')
      /\ \A l \in Referenced(objects') : l \in OS /\ heap'[l] = heap[l]
  <2>1. heap \in [OS -> ObjectState \union {NoOS}] /\ heap' = Collect(heap, objects')
    BY <1>1 DEF TypeOK
  <2> QED  BY <2>1, <1>2, <1>4, CollectKeeps
<1>6. ASSUME NEW t \in State, NEW o \in MO, objects'[t][o] # NoOS
      PROVE  heap'[objects'[t][o]] = heap[objects[t][o]]
  <2>1. objects'[t][o] \in Referenced(objects')
    BY <1>6 DEF Referenced
  <2> QED  BY <2>1, <1>3, <1>5, <1>6
<1>7. \A t \in live' : t \in State /\ t \in live /\ t # s /\ cowKey'[t] = cowKey[t]
                       /\ frames'[t] = frames[t]
  BY <1>1 DEF TypeOK
<1>8. TypeOK'
  <2>1. /\ live' \subseteq State /\ cowKey' \in [State -> Nat]
        /\ kind' \in [MO -> {"unused", "heap", "local", "global"}]
        /\ frames' \in [State -> Seq(SUBSET MO)] /\ symbolics' \in [State -> SUBSET MO]
        /\ native' \in [MO -> Value]
    BY <1>1 DEF TypeOK
  <2>2. \A t \in live' : Len(frames'[t]) > 0
    BY <1>7, <1>1 DEF TypeOK
  <2>3. \A t \in State, o \in MO : objects'[t][o] # NoOS => t \in live' /\ kind'[o] # "unused"
    BY <1>1, <1>3, BoundUsed
  <2> QED  BY <2>1, <2>2, <2>3, <1>2, <1>5 DEF TypeOK, Bound
<1>9. OwnerWithinKey'
  BY <1>3, <1>6, <1>7 DEF OwnerWithinKey, Bound, IInv
<1>10. OwnedIsPrivate'
  <2> SUFFICES ASSUME NEW t \in live', NEW u \in live', NEW o \in MO, NEW p \in MO,
                      objects'[t][o] # NoOS, heap'[objects'[t][o]].owner = cowKey'[t],
                      objects'[u][p] = objects'[t][o]
               PROVE  t = u /\ o = p
    BY DEF OwnedIsPrivate, Bound
  <2>1. /\ t \in live /\ u \in live /\ Bound(t, o) /\ objects[u][p] = objects[t][o]
        /\ heap[objects[t][o]].owner = cowKey[t]
    BY <1>3, <1>6, <1>7
  <2> QED  BY <2>1 DEF OwnedIsPrivate, IInv
<1>11. mem' = [mem EXCEPT ![s] = [o \in MO |-> Unbound]]
  <2>1. ASSUME NEW t \in State, NEW o \in MO
        PROVE  mem'[t][o] = IF t = s THEN Unbound ELSE mem[t][o]
    <3>m. /\ mem'[t][o] = IF objects'[t][o] # NoOS THEN ContentsIn(heap'[objects'[t][o]])
                                                   ELSE Unbound
          /\ mem[t][o] = IF Bound(t, o) THEN ContentsIn(heap[objects[t][o]]) ELSE Unbound
      BY DEF mem, Bound, Contents, ContentsIn
    <3>1. CASE objects'[t][o] # NoOS
      BY <3>1, <3>m, <1>3, <1>6
    <3>2. CASE objects'[t][o] = NoOS
      <4>1. t # s => ~Bound(t, o)
        BY <3>2, <1>1 DEF Bound, TypeOK
      <4> QED  BY <3>2, <3>m, <4>1
    <3> QED  BY <3>1, <3>2
  <2>2. mem' = [t \in State |-> [o \in MO |-> mem'[t][o]]]
    BY DEF mem
  <2>3. [mem EXCEPT ![s] = [o \in MO |-> Unbound]]
          = [t \in State |-> [o \in MO |-> IF t = s THEN Unbound ELSE mem[t][o]]]
    BY DEF mem
  <2>4. [t \in State |-> [o \in MO |-> mem'[t][o]]]
          = [t \in State |-> [o \in MO |-> IF t = s THEN Unbound ELSE mem[t][o]]]
    BY <2>1
  <2> QED  BY <2>2, <2>3, <2>4
<1>12. Private!Terminate(s)
  BY <1>1, <1>11 DEF Private!Terminate, Private!Empty
<1> QED  BY <1>8, <1>9, <1>10, <1>12 DEF IInv, Private!Next

\* A fork shares every object state and raises both epochs past all owners.
LEMMA BranchStep ==
  ASSUME IInv, NEW s \in State, NEW t \in State, Branch(s, t)
  PROVE  IInv' /\ Private!Next
<1>1. /\ s \in live /\ t \notin live /\ live' = live \union {t} /\ TypeOK /\ s # t
      /\ cowKey' = [cowKey EXCEPT ![s] = cowKey[s] + 1, ![t] = cowKey[s] + 1]
      /\ frames' = [frames EXCEPT ![t] = frames[s]]
      /\ symbolics' = [symbolics EXCEPT ![t] = symbolics[s]]
      /\ objects' = [objects EXCEPT ![t] = objects[s]]
      /\ heap' = heap /\ kind' = kind /\ native' = native
  BY DEF Branch, CopyState, RaiseKeys, IInv
<1> DEFINE src(u) == IF u = t THEN s ELSE u
<1>2. \A u \in State : src(u) \in State /\ objects'[u] = objects[src(u)]
  BY <1>1 DEF TypeOK
<1>3. \A u \in live' : src(u) \in live /\ u \in State
  BY <1>1 DEF TypeOK
<1>4. Referenced(objects') = Referenced(objects)
  <2>1. \A u \in State, o \in MO : Bound(u, o) => u # t
    BY <1>1, BoundUsed
  <2>2. \A l : l \in Referenced(objects') => l \in Referenced(objects)
    BY <1>2 DEF Referenced
  <2>3. ASSUME NEW l \in Referenced(objects)
        PROVE  l \in Referenced(objects')
    <3>1. PICK u \in State, o \in MO : l = objects[u][o] /\ l # NoOS
      BY DEF Referenced
    <3>2. objects'[u][o] = l
      BY <3>1, <2>1, <1>2 DEF Bound
    <3> QED  BY <3>1, <3>2 DEF Referenced
  <2> QED  BY <2>2, <2>3
<1>5. TypeOK'
  <2>0. live' \subseteq State /\ cowKey[s] + 1 \in Nat
    BY <1>1 DEF TypeOK
  <2>1. /\ live' \subseteq State /\ cowKey' \in [State -> Nat]
    BY <2>0, <1>1 DEF TypeOK
  <2>a. objects' \in [State -> [MO -> OS \union {NoOS}]]
    BY <1>1 DEF TypeOK
  <2>b. frames' \in [State -> Seq(SUBSET MO)]
    BY <1>1 DEF TypeOK
  <2>c. symbolics' \in [State -> SUBSET MO]
    BY <1>1 DEF TypeOK
  <2>2. \A u \in live' : frames'[u] = frames[src(u)] /\ Len(frames'[u]) > 0
    BY <1>1, <1>3 DEF TypeOK
  <2>3. \A u \in State, o \in MO : objects'[u][o] # NoOS => u \in live' /\ kind'[o] # "unused"
    BY <1>1, <1>2, BoundUsed DEF Bound
  <2> QED  BY <2>1, <2>a, <2>b, <2>c, <2>2, <2>3, <1>1, <1>4 DEF TypeOK, Bound
<1>6. \A u \in live : cowKey[u] \in Nat /\ cowKey'[u] \in Nat /\ cowKey[u] =< cowKey'[u]
  BY <1>1 DEF TypeOK
<1>7. cowKey'[s] = cowKey[s] + 1 /\ cowKey'[t] = cowKey[s] + 1
  BY <1>1 DEF TypeOK
<1>8. \A u \in live' : u # s /\ u # t => u \in live /\ cowKey'[u] = cowKey[u]
  BY <1>1 DEF TypeOK
<1>9. \A u \in live, o \in MO : Bound(u, o) => heap[objects[u][o]].owner \in Nat
  BY <1>1, BoundInUse DEF ObjectState, TypeOK
<1>10. OwnerWithinKey'
  <2> SUFFICES ASSUME NEW u \in live', NEW o \in MO, objects'[u][o] # NoOS
               PROVE  heap[objects'[u][o]].owner =< cowKey'[u]
    BY <1>1 DEF OwnerWithinKey, Bound
  <2>1. /\ src(u) \in live /\ objects'[u][o] = objects[src(u)][o] /\ Bound(src(u), o)
        /\ heap[objects[src(u)][o]].owner =< cowKey[src(u)]
    BY <1>2, <1>3 DEF Bound, OwnerWithinKey, IInv
  <2>2. cowKey[src(u)] =< cowKey'[u] /\ cowKey'[u] \in Nat /\ cowKey[src(u)] \in Nat
    BY <1>1, <1>6, <1>7, <1>8, <2>1
  <2> QED  BY <2>1, <2>2, <1>9
<1>11. OwnedIsPrivate'
  <2> SUFFICES ASSUME NEW u \in live', NEW v \in live', NEW o \in MO, NEW p \in MO,
                      objects'[u][o] # NoOS, heap[objects'[u][o]].owner = cowKey'[u],
                      objects'[v][p] = objects'[u][o]
               PROVE  u = v /\ o = p
    BY <1>1 DEF OwnedIsPrivate, Bound
  <2>1. /\ src(u) \in live /\ src(v) \in live /\ Bound(src(u), o)
        /\ objects'[u][o] = objects[src(u)][o] /\ objects'[v][p] = objects[src(v)][p]
    BY <1>2, <1>3 DEF Bound
  <2>2. heap[objects[src(u)][o]].owner =< cowKey[src(u)]
    BY <2>1 DEF OwnerWithinKey, IInv
  <2>3. u # s /\ u # t
    <3>1. ASSUME u = s \/ u = t
          PROVE  FALSE
      <4>1. src(u) = s
        BY <3>1
      <4>2. cowKey'[u] = cowKey[s] + 1 /\ cowKey[s] \in Nat
        BY <3>1, <1>1, <1>6, <1>7
      <4>3. heap[objects[s][o]].owner \in Nat
            /\ heap[objects[s][o]].owner =< cowKey[s]
            /\ heap[objects[s][o]].owner = cowKey[s] + 1
        BY <4>1, <4>2, <2>1, <2>2, <1>9
      <4> QED  BY <4>2, <4>3
    <3> QED  BY <3>1
  <2>4. u \in live /\ heap[objects[u][o]].owner = cowKey[u] /\ Bound(u, o)
        /\ objects[src(v)][p] = objects[u][o]
    BY <2>1, <2>3, <1>8
  <2>5. u = src(v) /\ o = p
    BY <2>1, <2>4 DEF OwnedIsPrivate, IInv
  <2> QED  BY <2>3, <2>5
<1>12. mem' = [mem EXCEPT ![t] = mem[s]]
  <2>1. ASSUME NEW u \in State
        PROVE  mem'[u] = mem[src(u)]
    BY <1>1, <1>2 DEF mem, Bound, Contents
  <2>2. mem' = [u \in State |-> mem'[u]]
    BY DEF mem
  <2>3. [mem EXCEPT ![t] = mem[s]] = [u \in State |-> mem[src(u)]]
    BY DEF mem
  <2> QED  BY <2>1, <2>2, <2>3
<1>13. Private!Fork(s, t)
  BY <1>1, <1>12 DEF Private!Fork
<1> QED  BY <1>5, <1>10, <1>11, <1>13 DEF IInv, Private!Next

\* The new epoch of a forked state owns nothing yet.
LEMMA NothingOwnedAfterFork ==
  ASSUME IInv, NEW s \in live, NEW o \in MO, Bound(s, o)
  PROVE  heap[objects[s][o]].owner # cowKey[s] + 1
<1>1. /\ s \in State /\ cowKey[s] \in Nat /\ heap[objects[s][o]] \in ObjectState
      /\ heap[objects[s][o]].owner =< cowKey[s]
  BY BoundInUse DEF IInv, TypeOK, OwnerWithinKey
<1>2. heap[objects[s][o]].owner \in Nat
  BY <1>1 DEF ObjectState
<1> QED  BY <1>1, <1>2

\* Two writes after one fork land in two new slots, one for each side.
LEMMA WriteEitherStep ==
  ASSUME IInv, NEW s \in State, NEW t \in State, NEW o \in MO, NEW p \in MO,
         NEW c \in Content, WriteEither(s, t, o, p, c)
  PROVE  IInv' /\ Private!Next
<1> DEFINE k == cowKey[s] + 1
           wo == Written(k, objects[s][o], c)
           wp == Written(k, objects[s][p], c)
           src(u) == IF u = t THEN s ELSE u
           New(u, q) == (u = s /\ q = o) \/ (u = t /\ q = p)
<1>1. /\ s \in live /\ t \notin live /\ live' = live \union {t} /\ TypeOK /\ s # t
      /\ Bound(s, o) /\ Bound(s, p) /\ o # p /\ {o, p} \intersect ReadOnly = {}
      /\ cowKey' = [cowKey EXCEPT ![s] = k, ![t] = k]
      /\ frames' = [frames EXCEPT ![t] = frames[s]]
      /\ symbolics' = [symbolics EXCEPT ![t] = symbolics[s]]
      /\ kind' = kind /\ native' = native
  BY DEF WriteEither, CopyState, RaiseKeys, IInv
<1>2. cowKey[s] \in Nat /\ k \in Nat /\ cowKey'[s] = k /\ cowKey'[t] = k
  BY <1>1 DEF TypeOK
<1>3. PICK at \in Writeable(k, objects[s], {o, p}) :
        /\ objects' = [objects EXCEPT ![s][o] = at[o],
                                      ![t] = [objects[s] EXCEPT ![p] = at[p]]]
        /\ heap' = Collect([heap EXCEPT ![at[o]] = wo, ![at[p]] = wp], objects')
  BY <1>2 DEF WriteEither
<1> DEFINE h == [heap EXCEPT ![at[o]] = wo, ![at[p]] = wp]
<1>4. \A q \in {o, p} : objects[s][q] \in OS /\ heap[objects[s][q]] \in ObjectState
                        /\ heap[objects[s][q]].owner # k
  BY <1>1, BoundInUse, NothingOwnedAfterFork
<1>5. /\ at[o] \in OS /\ at[p] \in OS /\ at[o] # at[p]
      /\ heap[at[o]] = NoOS /\ heap[at[p]] = NoOS
  <2>1. {o, p} \in SUBSET MO
    OBVIOUS
  <2>2. /\ at \in [{o, p} -> OS]
        /\ \A q \in {o, p} : \/ at[q] = objects[s][q] /\ heap[objects[s][q]].owner = k
                             \/ heap[at[q]] = NoOS
        /\ \A q, r \in {o, p} : at[q] = at[r] /\ heap[at[q]] = NoOS => q = r
    BY <1>1, <1>4, <2>1, WriteableSlots
  <2> QED  BY <2>2, <1>1, <1>4
<1>6. /\ wo \in ObjectState /\ wo.owner = k /\ ContentsIn(wo) = c
      /\ wp \in ObjectState /\ wp.owner = k /\ ContentsIn(wp) = c
  BY <1>2, <1>4, SpaceAssumption DEF Written, ObjectState, Content, ContentsIn
<1> HIDE DEF wo, wp
<1>7. /\ h \in [OS -> ObjectState \union {NoOS}] /\ h[at[o]] = wo /\ h[at[p]] = wp
      /\ \A l \in OS : l # at[o] /\ l # at[p] => h[l] = heap[l]
  BY <1>1, <1>5, <1>6 DEF TypeOK
<1>8. objects' \in [State -> [MO -> OS \union {NoOS}]]
  BY <1>1, <1>3, <1>5 DEF TypeOK
<1>9. \A u \in State, q \in MO :
        objects'[u][q] = IF New(u, q) THEN at[q] ELSE objects[src(u)][q]
  BY <1>1, <1>3 DEF TypeOK
<1>10. heap' = Collect(h, objects')
  BY <1>3
<1> HIDE DEF h
<1>11. ASSUME NEW u \in State, NEW q \in MO, objects'[u][q] # NoOS, ~New(u, q)
       PROVE  /\ src(u) \in State /\ src(u) \in live /\ u \in live'
              /\ objects'[u][q] = objects[src(u)][q]
              /\ Bound(src(u), q) /\ objects'[u][q] \in OS /\ heap[objects'[u][q]] \in ObjectState
              /\ objects'[u][q] # at[o] /\ objects'[u][q] # at[p]
              /\ h[objects'[u][q]] = heap[objects'[u][q]]
  <2>1. src(u) \in State /\ objects'[u][q] = objects[src(u)][q] /\ Bound(src(u), q)
    BY <1>9, <1>11 DEF Bound
  <2>2. src(u) \in live /\ objects'[u][q] \in OS /\ heap[objects'[u][q]] \in ObjectState
    BY <2>1, <1>1, BoundUsed, BoundInUse
  <2>3. objects'[u][q] # at[o] /\ objects'[u][q] # at[p]
    BY <2>2, <1>5, SpaceAssumption
  <2> QED  BY <2>1, <2>2, <2>3, <1>1, <1>7
<1>12. ASSUME NEW u \in State, NEW q \in MO, New(u, q)
       PROVE  /\ objects'[u][q] = at[q] /\ at[q] \in OS /\ at[q] # NoOS /\ u \in live'
              /\ h[at[q]] \in ObjectState /\ h[at[q]].owner = k /\ ContentsIn(h[at[q]]) = c
              /\ cowKey'[u] = k
  <2>1. objects'[u][q] = at[q]
    BY <1>9, <1>12
  <2>2. CASE u = s /\ q = o
    BY <2>1, <2>2, <1>1, <1>2, <1>5, <1>6, <1>7, SpaceAssumption
  <2>3. CASE u = t /\ q = p
    BY <2>1, <2>3, <1>1, <1>2, <1>5, <1>6, <1>7, SpaceAssumption
  <2> QED  BY <2>2, <2>3, <1>12
<1>13. \A l \in Referenced(objects') : h[l] # NoOS
  <2> SUFFICES ASSUME NEW u \in State, NEW q \in MO, objects'[u][q] # NoOS
               PROVE  h[objects'[u][q]] # NoOS
    BY DEF Referenced
  <2>1. CASE New(u, q)
    BY <2>1, <1>12, SpaceAssumption
  <2>2. CASE ~New(u, q)
    BY <2>2, <1>11, SpaceAssumption
  <2> QED  BY <2>1, <2>2
<1>14. /\ heap' \in [OS -> ObjectState \union {NoOS}]
       /\ \A l \in OS : heap'[l] # NoOS <=> l \in Referenced(objects')
       /\ \A l \in Referenced(objects') : l \in OS /\ heap'[l] = h[l]
  <2>1. h \in [OS -> ObjectState \union {NoOS}] /\ heap' = Collect(h, objects')
    BY <1>7, <1>10
  <2> QED  BY <2>1, <1>8, <1>13, CollectKeeps
<1>15. ASSUME NEW u \in State, NEW q \in MO, objects'[u][q] # NoOS
       PROVE  heap'[objects'[u][q]] = h[objects'[u][q]]
  <2>1. objects'[u][q] \in Referenced(objects')
    BY <1>15 DEF Referenced
  <2> QED  BY <2>1, <1>14
<1> HIDE DEF New
<1>16. \A u \in live' : u \in State /\ src(u) \in live /\ frames'[u] = frames[src(u)]
                        /\ (u # s /\ u # t => u \in live /\ cowKey'[u] = cowKey[u])
  BY <1>1 DEF TypeOK
<1>17. TypeOK'
  <2>0. live' \subseteq State
    BY <1>1 DEF TypeOK
  <2>1. cowKey' \in [State -> Nat]
    BY <1>1, <1>2 DEF TypeOK
  <2>2. frames' \in [State -> Seq(SUBSET MO)]
    BY <1>1 DEF TypeOK
  <2>3. symbolics' \in [State -> SUBSET MO]
    BY <1>1 DEF TypeOK
  <2>4. \A u \in live' : Len(frames'[u]) > 0
    BY <1>1, <1>16 DEF TypeOK
  <2>5. ASSUME NEW u \in State, NEW q \in MO, objects'[u][q] # NoOS
        PROVE  u \in live' /\ kind'[q] # "unused"
    <3>1. CASE New(u, q)
      BY <3>1, <1>1, <1>12, BoundUsed DEF New
    <3>2. CASE ~New(u, q)
      BY <3>2, <2>5, <1>1, <1>11, BoundUsed
    <3> QED  BY <3>1, <3>2
  <2> QED  BY <2>0, <2>1, <2>2, <2>3, <2>4, <2>5, <1>1, <1>8, <1>14 DEF TypeOK, Bound
<1>18. \A u \in live : cowKey[u] \in Nat
  BY <1>1 DEF TypeOK
<1>19. OwnerWithinKey'
  <2> SUFFICES ASSUME NEW u \in live', NEW q \in MO, objects'[u][q] # NoOS
               PROVE  heap'[objects'[u][q]].owner =< cowKey'[u]
    BY DEF OwnerWithinKey, Bound
  <2>1. CASE New(u, q)
    <3>1. heap'[objects'[u][q]].owner = k /\ cowKey'[u] = k
      BY <2>1, <1>12, <1>15, <1>16
    <3> QED  BY <3>1, <1>2
  <2>2. CASE ~New(u, q)
    <3>1. /\ src(u) \in live /\ Bound(src(u), q)
          /\ heap'[objects'[u][q]] = heap[objects[src(u)][q]]
          /\ heap[objects[src(u)][q]] \in ObjectState
      BY <2>2, <1>11, <1>15, <1>16
    <3>2. heap[objects[src(u)][q]].owner =< cowKey[src(u)]
          /\ heap[objects[src(u)][q]].owner \in Nat
      BY <3>1 DEF OwnerWithinKey, IInv, ObjectState
    <3>3. cowKey[src(u)] \in Nat /\ cowKey'[u] \in Nat /\ cowKey[src(u)] =< cowKey'[u]
      BY <3>1, <1>2, <1>16, <1>18
    <3> QED  BY <3>1, <3>2, <3>3
  <2> QED  BY <2>1, <2>2
<1>20. OwnedIsPrivate'
  <2> SUFFICES ASSUME NEW u \in live', NEW v \in live', NEW q \in MO, NEW r \in MO,
                      objects'[u][q] # NoOS, heap'[objects'[u][q]].owner = cowKey'[u],
                      objects'[v][r] = objects'[u][q]
               PROVE  u = v /\ q = r
    BY DEF OwnedIsPrivate, Bound
  <2>1. CASE New(u, q) /\ New(v, r)
    BY <2>1, <1>1, <1>5, <1>12, <1>16 DEF New
  <2>2. CASE New(u, q) /\ ~New(v, r)
    <3>1. objects'[u][q] = at[q] /\ (q = o \/ q = p)
      BY <2>2, <1>12, <1>16 DEF New
    <3>2. v \in State /\ objects'[v][r] # NoOS
      BY Zenon, <1>16
    <3>3. objects'[v][r] # at[o] /\ objects'[v][r] # at[p]
      BY Zenon, <2>2, <3>2, <1>11
    <3> QED  BY Zenon, <3>1, <3>3
  <2>3. CASE ~New(u, q) /\ New(v, r)
    <3>1. objects'[v][r] = at[r] /\ (r = o \/ r = p)
      BY <2>3, <1>12, <1>16 DEF New
    <3>2. u \in State
      BY Zenon, <1>16
    <3>3. objects'[u][q] # at[o] /\ objects'[u][q] # at[p]
      BY Zenon, <2>3, <3>2, <1>11
    <3> QED  BY Zenon, <3>1, <3>3
  <2>4. CASE ~New(u, q) /\ ~New(v, r)
    <3>1. /\ src(u) \in live /\ Bound(src(u), q) /\ src(v) \in live
          /\ objects[src(v)][r] = objects[src(u)][q]
          /\ heap[objects[src(u)][q]].owner = cowKey'[u]
      BY <2>4, <1>11, <1>15, <1>16
    <3>2. u # s /\ u # t
      <4>1. u = s \/ u = t => src(u) = s /\ cowKey'[u] = k
        BY <1>2
      <4> QED  BY <3>1, <4>1, NothingOwnedAfterFork
    <3>3. u = src(v) /\ q = r
      BY <3>1, <3>2, <1>16 DEF OwnedIsPrivate, IInv
    <3> QED  BY <3>2, <3>3
  <2> QED  BY <2>1, <2>2, <2>3, <2>4
<1>21. mem' = [mem EXCEPT ![s] = [mem[s] EXCEPT ![o] = c],
                          ![t] = [mem[s] EXCEPT ![p] = c]]
  <2> DEFINE after(u, q) == IF New(u, q) THEN c ELSE mem[src(u)][q]
  <2>1. ASSUME NEW u \in State, NEW q \in MO
        PROVE  mem'[u][q] = after(u, q)
    <3>m. /\ mem'[u][q] = IF objects'[u][q] # NoOS THEN ContentsIn(heap'[objects'[u][q]])
                                                   ELSE Unbound
          /\ mem[src(u)][q] = IF Bound(src(u), q) THEN ContentsIn(heap[objects[src(u)][q]])
                                                  ELSE Unbound
      BY DEF mem, Bound, Contents, ContentsIn
    <3>1. CASE New(u, q)
      <4>1. objects'[u][q] # NoOS /\ ContentsIn(heap'[objects'[u][q]]) = c
        BY <3>1, <1>12, <1>15
      <4> QED  BY <4>1, <3>1, <3>m
    <3>2. CASE ~New(u, q) /\ objects'[u][q] # NoOS
      <4>1. /\ Bound(src(u), q) /\ heap'[objects'[u][q]] = heap[objects[src(u)][q]]
        BY <3>2, <1>11, <1>15
      <4> QED  BY <4>1, <3>2, <3>m
    <3>3. CASE ~New(u, q) /\ objects'[u][q] = NoOS
      <4>1. ~Bound(src(u), q)
        BY <3>3, <1>9 DEF Bound, New
      <4> QED  BY <4>1, <3>3, <3>m
    <3> QED  BY <3>1, <3>2, <3>3
  <2>2. mem' = [u \in State |-> [q \in MO |-> mem'[u][q]]]
    BY DEF mem
  <2>3. [mem EXCEPT ![s] = [mem[s] EXCEPT ![o] = c], ![t] = [mem[s] EXCEPT ![p] = c]]
          = [u \in State |-> [q \in MO |-> after(u, q)]]
    BY <1>1 DEF mem, New
  <2>4. [u \in State |-> [q \in MO |-> mem'[u][q]]]
          = [u \in State |-> [q \in MO |-> after(u, q)]]
    BY <2>1
  <2> QED  BY <2>2, <2>3, <2>4
<1>22. mem[s][o] # Unbound /\ mem[s][p] # Unbound
  BY <1>1, <1>4, UnboundIsNoContent DEF mem, Contents, ContentsIn
<1>23. Private!ForkStore(s, t, o, p, c)
  BY <1>1, <1>21, <1>22 DEF Private!ForkStore, Private!Content, Content
<1> QED  BY <1>17, <1>19, <1>20, <1>23 DEF IInv, Private!Next, Private!Content, Content

\* What an external call leaves reaches the state's own object states only.
LEMMA ExternalCallStep ==
  ASSUME IInv, NEW s \in State, NEW after \in [MO -> Value], ExternalCall(s, after)
  PROVE  IInv' /\ Private!Next
<1> DEFINE D == Changed(s, after)
<1>1. /\ s \in live /\ CopyIn(s, after) /\ D \intersect ReadOnly = {}
      /\ live' = live /\ cowKey' = cowKey /\ kind' = kind /\ frames' = frames
      /\ symbolics' = symbolics /\ native' = after /\ TypeOK
  BY DEF ExternalCall, IInv
<1>2. /\ D \subseteq MO
      /\ \A o \in D : Bound(s, o) /\ o \notin UserSpecified /\ o \notin ReadOnly
                      /\ objects[s][o] \in OS /\ heap[objects[s][o]] \in ObjectState
  BY <1>1, BoundInUse DEF Changed, Exchanged
<1> DEFINE new(o) == [owner |-> cowKey[s], store |-> after[o],
                      symbolic |-> heap[objects[s][o]].symbolic]
<1>3. PICK place \in Writeable(cowKey[s], objects[s], D) :
        /\ objects' = [objects EXCEPT ![s] =
                         [o \in MO |-> IF o \in D THEN place[o] ELSE objects[s][o]]]
        /\ heap' = Collect([l \in OS |->
                      IF \E o \in D : place[o] = l
                      THEN new(CHOOSE q \in D : place[q] = l)
                      ELSE heap[l]], objects')
  BY <1>1 DEF CopyIn
<1> DEFINE h == [l \in OS |-> IF \E o \in D : place[o] = l
                              THEN new(CHOOSE q \in D : place[q] = l)
                              ELSE heap[l]]
<1> HIDE DEF D
<1>4. /\ place \in [D -> OS]
      /\ \A o \in D : \/ place[o] = objects[s][o] /\ heap[objects[s][o]].owner = cowKey[s]
                      \/ heap[place[o]] = NoOS
      /\ \A o, p \in D : place[o] = place[p] /\ heap[place[o]] = NoOS => o = p
  BY <1>1, <1>2, <1>3, WriteableSlots
<1>5. ASSUME NEW o \in D, NEW p \in D, place[o] = place[p]
      PROVE  o = p
  <2>1. CASE heap[place[o]] = NoOS
    BY <2>1, <1>4, <1>5
  <2>2. CASE heap[place[o]] # NoOS
    <3>1. place[o] = objects[s][o] /\ heap[objects[s][o]].owner = cowKey[s]
          /\ place[p] = objects[s][p]
      BY <2>2, <1>4, <1>5
    <3> QED  BY <3>1, <1>1, <1>2, <1>5 DEF OwnedIsPrivate, IInv
  <2> QED  BY <2>1, <2>2
<1>6. \A o \in D : new(o) \in ObjectState /\ new(o).owner = cowKey[s]
                   /\ ContentsIn(new(o)) = IF heap[objects[s][o]].symbolic THEN Symbolic
                                           ELSE after[o]
  BY <1>1, <1>2 DEF ObjectState, TypeOK, ContentsIn
<1> HIDE DEF new
<1>7. \A o \in D : h[place[o]] = new(o)
  <2> TAKE o \in D
  <2>1. place[o] \in OS /\ \E q \in D : place[q] = place[o]
    BY <1>4
  <2>2. (CHOOSE q \in D : place[q] = place[o]) = o
    BY <2>1, <1>5
  <2>3. h[place[o]] = new(CHOOSE q \in D : place[q] = place[o])
    BY <2>1
  <2> QED  BY <2>2, <2>3
<1>8. h \in [OS -> ObjectState \union {NoOS}]
  <2> SUFFICES ASSUME NEW l \in OS
               PROVE  h[l] \in ObjectState \union {NoOS}
    OBVIOUS
  <2>1. CASE \E o \in D : place[o] = l
    BY <2>1, <1>6, <1>7
  <2>2. CASE ~ \E o \in D : place[o] = l
    BY <2>2, <1>1 DEF TypeOK
  <2> QED  BY <2>1, <2>2
<1>9. \A l \in OS : h[l] = heap[l] \/ \E o \in D : l = place[o]
  OBVIOUS
<1>10. objects' = [objects EXCEPT ![s] = [o \in MO |-> IF o \in D THEN place[o]
                                      ELSE IF o \in {} THEN NoOS ELSE objects[s][o]]]
  BY <1>3
<1>11. heap' = Collect(h, objects')
  BY <1>3
<1> HIDE DEF h
<1>12. Rebinding(s, D, {}, place, h)
  <2>1. /\ \A o \in D : h[place[o]] \in ObjectState /\ h[place[o]].owner = cowKey[s]
        /\ \A o \in D : \/ heap[place[o]] = NoOS
                        \/ /\ Bound(s, o) /\ place[o] = objects[s][o]
                           /\ heap[place[o]].owner = cowKey[s]
    BY <1>2, <1>4, <1>6, <1>7
  <2> QED  BY <2>1, <1>1, <1>2, <1>4, <1>5, <1>8, <1>9, <1>10, <1>11 DEF Rebinding
<1>a. /\ kind' \in [MO -> {"unused", "heap", "local", "global"}]
      /\ \A q \in MO : kind[q] # "unused" \/ q \in D => kind'[q] # "unused"
      /\ symbolics' \in [State -> SUBSET MO] /\ native' \in [MO -> Value]
      /\ frames' \in [State -> Seq(SUBSET MO)] /\ \A t \in live : Len(frames'[t]) > 0
  BY <1>1, <1>2, BoundUsed DEF TypeOK
<1>13. IInv'
  BY <1>12, <1>a, RebindInv
<1> DEFINE m == [o \in MO |-> IF o \in D THEN ContentsIn(h[place[o]])
                              ELSE IF o \in {} THEN Unbound ELSE mem[s][o]]
<1>14. mem' = [mem EXCEPT ![s] = m]
  BY <1>12, Rebind
<1>15. \A t \in State, o \in MO : mem[t][o] \in Content \union {Unbound}
                                  /\ (mem[t][o] # Unbound => Bound(t, o))
  BY <1>1, BoundInUse, UnboundIsNoContent DEF mem, Contents, ContentsIn
<1>16. ASSUME NEW o \in MO
       PROVE  IF mem[s][o] \in Value /\ o \notin ReadOnly \union UserSpecified
              THEN m[o] \in Value
              ELSE m[o] = mem[s][o]
  <2>1. CASE o \in D
    <3>1. mem[s][o] = ContentsIn(heap[objects[s][o]])
      BY <2>1, <1>2 DEF mem, Contents, ContentsIn
    <3>2. m[o] = IF heap[objects[s][o]].symbolic THEN Symbolic ELSE after[o]
      BY <2>1, <1>6, <1>7
    <3>3. after[o] \in Value /\ heap[objects[s][o]].store \in Value
      BY <2>1, <1>2 DEF ObjectState
    <3> QED  BY <2>1, <3>1, <3>2, <3>3, <1>2, SpaceAssumption DEF ContentsIn
  <2>2. CASE o \notin D
    BY <2>2
  <2> QED  BY <2>1, <2>2
<1>17. m \in [MO -> Content \union {Unbound}]
  <2> SUFFICES ASSUME NEW o \in MO
               PROVE  m[o] \in Content \union {Unbound}
    OBVIOUS
  <2> QED  BY <1>15, <1>16, <1>1 DEF Content, TypeOK
<1> HIDE DEF m
<1>18. mem' \in [State -> [MO -> Content \union {Unbound}]]
       /\ mem'[s] = m /\ \A t \in State \ {s} : mem'[t] = mem[t]
  <2>1. mem \in [State -> [MO -> Content \union {Unbound}]]
    BY <1>15 DEF mem
  <2> QED  BY <2>1, <1>14, <1>17
<1>19. Private!External(s)
  BY <1>1, <1>16, <1>18 DEF Private!External, Private!Content, Content
<1> QED  BY <1>13, <1>19 DEF Private!Next

\* What an external call leaves in native memory are values.
LEMMA OutcomesAreBytes ==
  ASSUME TypeOK, NEW s \in State, NEW after \in Outcomes(s)
  PROVE  after \in [MO -> Value]
<1>1. CopiedOut(s) \in [MO -> Value]
  <2> SUFFICES ASSUME NEW o \in MO
               PROVE  CopiedOut(s)[o] \in Value
    BY DEF CopiedOut
  <2>1. CASE o \in Exchanged(s) \ ReadOnly
    <3>1. heap[objects[s][o]] \in ObjectState
      BY <2>1, BoundInUse DEF Exchanged
    <3> QED  BY <2>1, <3>1 DEF CopiedOut, ObjectState
  <2>2. CASE o \notin Exchanged(s) \ ReadOnly
    BY <2>2 DEF CopiedOut, TypeOK
  <2> QED  BY <2>1, <2>2
<1> QED  BY <1>1 DEF Outcomes

\* The initial states.
LEMMA InitIInv ==
  ASSUME Init
  PROVE  IInv /\ Private!Init
<1>1. PICK place \in Allocate(OS, Global) :
        /\ objects = [s \in State |-> [o \in MO |->
                        IF s = Root /\ o \in Global THEN place[o] ELSE NoOS]]
        /\ heap = [l \in OS |->
                     IF \E o \in Global : place[o] = l
                     THEN [owner |-> 1, store |-> Initial, symbolic |-> FALSE]
                     ELSE NoOS]
  BY DEF Init
<1>2. OS \in SUBSET OS /\ Global \in SUBSET MO /\ Root \in State /\ Initial \in Value
  BY SpaceAssumption
<1>3. place \in [Global -> OS] /\ \A o, p \in Global : place[o] = place[p] => o = p
  BY <1>2, AllocateGives, Zenon
<1> DEFINE os == [owner |-> 1, store |-> Initial, symbolic |-> FALSE]
<1>4. os \in ObjectState /\ os # NoOS /\ os.owner = 1 /\ ContentsIn(os) = Initial
  <2>1. os \in ObjectState
    BY <1>2 DEF ObjectState
  <2> QED  BY <2>1, SpaceAssumption DEF ContentsIn
<1>5. live = {Root} /\ cowKey \in [State -> Nat] /\ cowKey[Root] = 1
      /\ kind = [o \in MO |-> IF o \in Global THEN "global" ELSE "unused"]
  BY <1>2 DEF Init
<1>6. ASSUME NEW s \in State, NEW o \in MO
      PROVE  /\ objects[s][o] # NoOS <=> s = Root /\ o \in Global
             /\ objects[s][o] # NoOS => /\ objects[s][o] = place[o] /\ objects[s][o] \in OS
                                        /\ heap[objects[s][o]] = os
  BY <1>1, <1>3, SpaceAssumption
<1>7. heap \in [OS -> ObjectState \union {NoOS}]
  BY <1>1, <1>4
<1>8. objects \in [State -> [MO -> OS \union {NoOS}]]
  BY <1>1, <1>3
<1>9. ASSUME NEW l \in OS
      PROVE  heap[l] # NoOS <=> l \in Referenced(objects)
  <2>1. ASSUME heap[l] # NoOS
        PROVE  l \in Referenced(objects)
    <3>1. PICK o \in Global : place[o] = l
      BY <2>1, <1>1
    <3>2. o \in MO /\ objects[Root][o] = l
      BY <3>1, <1>1, <1>2
    <3> QED  BY <3>2, <1>2, SpaceAssumption DEF Referenced
  <2>2. ASSUME l \in Referenced(objects)
        PROVE  heap[l] # NoOS
    <3>1. PICK s \in State, o \in MO : l = objects[s][o] /\ l # NoOS
      BY <2>2 DEF Referenced
    <3> QED  BY <3>1, <1>4, <1>6
  <2> QED  BY <2>1, <2>2
<1> HIDE DEF os
<1>10. TypeOK
  <2>1. live \subseteq State /\ kind \in [MO -> {"unused", "heap", "local", "global"}]
    BY <1>2, <1>5
  <2>2. frames \in [State -> Seq(SUBSET MO)] /\ \A s \in live : Len(frames[s]) > 0
    <3>1. <<{}>> \in Seq(SUBSET MO) /\ <<>> \in Seq(SUBSET MO) /\ Len(<<{}>>) = 1
      OBVIOUS
    <3>2. frames = [s \in State |-> IF s = Root THEN <<{}>> ELSE <<>>]
      BY DEF Init
    <3> DEFINE main == <<{}>>
               none == <<>>
    <3> HIDE DEF main, none
    <3>3. main \in Seq(SUBSET MO) /\ none \in Seq(SUBSET MO) /\ Len(main) = 1
      BY <3>1 DEF main, none
    <3>4. frames = [s \in State |-> IF s = Root THEN main ELSE none]
      BY <3>2 DEF main, none
    <3>5. frames[Root] = main /\ \A s \in live : s = Root
      BY <3>4, <1>2, <1>5
    <3>6. frames \in [State -> Seq(SUBSET MO)]
      BY <3>3, <3>4
    <3>7. ASSUME NEW s \in live
          PROVE  Len(frames[s]) > 0
      <4>1. frames[s] = main
        BY <3>5
      <4>2. Len(frames[s]) = 1
        BY <3>3, <4>1, Zenon
      <4> QED  BY <4>2
    <3> QED  BY <3>6, <3>7
  <2>3. symbolics \in [State -> SUBSET MO] /\ native \in [MO -> Value]
    BY <1>2 DEF Init
  <2>4. \A s \in State, o \in MO : Bound(s, o) => s \in live /\ kind[o] # "unused"
    BY <1>5, <1>6 DEF Bound
  <2> QED  BY <2>1, <2>2, <2>3, <2>4, <1>5, <1>7, <1>8, <1>9 DEF TypeOK
<1>11. OwnerWithinKey
  BY <1>2, <1>4, <1>5, <1>6 DEF OwnerWithinKey, Bound
<1>12. OwnedIsPrivate
  BY <1>2, <1>3, <1>5, <1>6 DEF OwnedIsPrivate, Bound
<1>13. mem = [s \in State |->
                IF s = Root
                THEN [o \in MO |-> IF o \in Global THEN Initial ELSE Unbound]
                ELSE [o \in MO |-> Unbound]]
  <2>1. ASSUME NEW s \in State, NEW o \in MO
        PROVE  (IF Bound(s, o) THEN Contents(objects[s][o]) ELSE Unbound)
                 = IF s = Root /\ o \in Global THEN Initial ELSE Unbound
    BY <1>4, <1>6 DEF Bound, Contents, ContentsIn
  <2> QED  BY <2>1 DEF mem
<1> QED  BY <1>5, <1>10, <1>11, <1>12, <1>13 DEF IInv, Private!Init, Private!Empty

\* Every step of the specification keeps IInv and refines PrivateMemory.
LEMMA NextStep ==
  ASSUME IInv, [Next]_vars
  PROVE  IInv' /\ [Private!Next]_(Private!pmVars)
<1>1. CASE UNCHANGED vars
  <2>1. TypeOK'
    BY <1>1 DEF IInv, TypeOK, vars, Bound
  <2>2. OwnerWithinKey' /\ OwnedIsPrivate' /\ mem' = mem
    BY <1>1 DEF IInv, OwnerWithinKey, OwnedIsPrivate, vars, Bound, mem, Contents
  <2> QED  BY <1>1, <2>1, <2>2 DEF IInv, vars, Private!pmVars
<1>2. CASE Next
  <2>1. PICK s \in State :
          \/ \E o \in MO, isLocal \in BOOLEAN : ExecuteAlloc(s, o, isLocal)
          \/ \E o \in MO : DefineFixedObject(s, o)
          \/ \E o, p \in MO : ExecuteRealloc(s, o, p)
          \/ \E o \in MO : ExecuteFree(s, o)
          \/ PushFrame(s)
          \/ PopFrame(s)
          \/ \E o \in MO, c \in Content : WriteObject(s, o, c)
          \/ \E o \in MO : MakeSymbolic(s, o)
          \/ \E t \in State : Branch(s, t)
          \/ \E t \in State, o, p \in MO, c \in Content : WriteEither(s, t, o, p, c)
          \/ TerminateState(s)
          \/ \E after \in Outcomes(s) :
               \/ ExternalCall(s, after)
               \/ ExternalReadOnlyError(s, after)
               \/ ExternalCrash(s, after)
    BY <1>2, Zenon DEF Next
  <2>2. CASE \E o \in MO, isLocal \in BOOLEAN : ExecuteAlloc(s, o, isLocal)
    BY <2>2, ExecuteAllocStep
  <2>3. CASE \E o \in MO : DefineFixedObject(s, o)
    BY <2>3, DefineFixedObjectStep
  <2>4. CASE \E o, p \in MO : ExecuteRealloc(s, o, p)
    BY <2>4, ExecuteReallocStep
  <2>5. CASE \E o \in MO : ExecuteFree(s, o)
    BY <2>5, ExecuteFreeStep
  <2>6. CASE PushFrame(s)
    BY <2>6, PushFrameStep DEF Private!pmVars
  <2>7. CASE PopFrame(s)
    BY <2>7, PopFrameStep
  <2>8. CASE \E o \in MO, c \in Content : WriteObject(s, o, c)
    BY <2>8, WriteObjectStep
  <2>9. CASE \E o \in MO : MakeSymbolic(s, o)
    BY <2>9, MakeSymbolicStep
  <2>10. CASE \E t \in State : Branch(s, t)
    BY <2>10, BranchStep
  <2>11. CASE \E t \in State, o, p \in MO, c \in Content : WriteEither(s, t, o, p, c)
    BY <2>11, WriteEitherStep
  <2>12. CASE TerminateState(s)
    <3>1. Drop(s) /\ native' \in [MO -> Value]
      BY <2>12 DEF TerminateState, IInv, TypeOK
    <3> QED  BY <3>1, DropStep
  <2>13. CASE \E after \in Outcomes(s) : \/ ExternalCall(s, after)
                                         \/ ExternalReadOnlyError(s, after)
                                         \/ ExternalCrash(s, after)
    <3>1. PICK after \in Outcomes(s) : \/ ExternalCall(s, after)
                                       \/ ExternalReadOnlyError(s, after)
                                       \/ ExternalCrash(s, after)
      BY <2>13
    <3>2. after \in [MO -> Value]
      BY OutcomesAreBytes DEF IInv
    <3>3. CASE ExternalCall(s, after)
      BY <3>2, <3>3, ExternalCallStep
    <3>4. CASE ExternalReadOnlyError(s, after) \/ ExternalCrash(s, after)
      <4>1. Drop(s) /\ native' \in [MO -> Value]
        BY <3>2, <3>4 DEF ExternalReadOnlyError, ExternalCrash
      <4> QED  BY <4>1, DropStep
    <3> QED  BY <3>1, <3>3, <3>4
  <2> QED  BY <2>1, <2>2, <2>3, <2>4, <2>5, <2>6, <2>7, <2>8, <2>9, <2>10, <2>11,
              <2>12, <2>13
<1> QED  BY <1>1, <1>2

-------------------------------------------------------------------------------
(* The allocas of a stack.  What a step binds, some state held before it   *)
(* with the same kind and the same frame lists, or is no alloca, or was    *)
(* just put on a list.                                                     *)

\* How an object that t holds after a step comes to be on t's lists.
Accounted(t, o) ==
  \/ kind'[o] # "local"
  \/ \E i \in 1..Len(frames'[t]) : o \in frames'[t][i]
  \/ \E u \in live : Bound(u, o) /\ kind'[o] = kind[o] /\ frames'[t] = frames[u]

\* It is enough that each object a state maps is accounted for after the step.
LEMMA AccountedSuffices ==
  ASSUME LocalsOnStack,
         \A t \in live', o \in MO : objects'[t][o] # NoOS => Accounted(t, o)
  PROVE  LocalsOnStack'
BY DEF LocalsOnStack, Accounted, Bound

\* Stores, releases and external calls: nothing is bound that was not.
LEMMA KeepsBindings ==
  ASSUME LocalsOnStack, live' \subseteq live, UNCHANGED <<kind, frames>>,
         \A t \in live', o \in MO : objects'[t][o] # NoOS => Bound(t, o)
  PROVE  LocalsOnStack'
BY AccountedSuffices DEF Accounted

\* executeAlloc puts an alloca on the list of the frame that runs.
LEMMA AllocKeepsLocals ==
  ASSUME IInv, LocalsOnStack, NEW s \in State, NEW o \in MO, NEW isLocal \in BOOLEAN,
         ExecuteAlloc(s, o, isLocal)
  PROVE  LocalsOnStack'
<1>1. /\ TypeOK /\ s \in live /\ kind[o] = "unused" /\ live' = live
      /\ kind' = [kind EXCEPT ![o] = IF isLocal THEN "local" ELSE "heap"]
  BY DEF ExecuteAlloc, IInv
<1>2. PICK l : objects' = [objects EXCEPT ![s][o] = l]
  BY DEF ExecuteAlloc, BindObject
<1>3. IF isLocal THEN AddAlloca(s, o) ELSE UNCHANGED frames
  BY DEF ExecuteAlloc
<1> SUFFICES ASSUME NEW t \in live', NEW p \in MO, objects'[t][p] # NoOS
             PROVE  Accounted(t, p)
  BY AccountedSuffices
<1>4. t \in live /\ t \in State
  BY <1>1 DEF TypeOK
<1>5. CASE p = o
  <2>1. t = s
    <3>1. ~Bound(t, o)
      BY <1>1, <1>4 DEF TypeOK
    <3> QED  BY <3>1, <1>1, <1>2, <1>4, <1>5 DEF Bound, TypeOK
  <2>2. CASE isLocal
    <3> DEFINE n == Len(frames[s])
    <3>1. /\ frames[s] \in Seq(SUBSET MO) /\ n \in 1..n
          /\ frames' = [frames EXCEPT ![s] = [frames[s] EXCEPT ![n] = @ \union {o}]]
      BY <1>1, <1>3, <2>2 DEF AddAlloca, TypeOK
    <3>2. frames'[s] = [frames[s] EXCEPT ![n] = @ \union {o}]
      BY <3>1, <1>1 DEF TypeOK
    <3>3. Len(frames'[s]) = n /\ o \in frames'[s][n]
      BY <3>1, <3>2
    <3> QED  BY <3>1, <3>3, <2>1, <1>5 DEF Accounted
  <2>3. CASE ~isLocal
    BY <2>3, <1>1, <1>5 DEF Accounted, TypeOK
  <2> QED  BY <2>2, <2>3
<1>6. CASE p # o
  <2>1. Bound(t, p) /\ kind'[p] = kind[p]
    BY <1>1, <1>2, <1>4, <1>6 DEF Bound, TypeOK
  <2>2. CASE isLocal /\ t = s
    <3> DEFINE n == Len(frames[s])
    <3>1. /\ frames[s] \in Seq(SUBSET MO) /\ n \in 1..n
          /\ frames' = [frames EXCEPT ![s] = [frames[s] EXCEPT ![n] = @ \union {o}]]
      BY <1>1, <1>3, <2>2 DEF AddAlloca, TypeOK
    <3>2. frames'[s] = [frames[s] EXCEPT ![n] = @ \union {o}]
      BY <3>1, <1>1 DEF TypeOK
    <3>3. Len(frames'[s]) = n /\ \A i \in 1..n : frames[s][i] \subseteq frames'[s][i]
      BY <3>1, <3>2
    <3>4. kind[p] = "local" => \E i \in 1..n : p \in frames[s][i]
      BY <2>1, <2>2, <1>1 DEF LocalsOnStack
    <3> QED  BY <3>3, <3>4, <2>1, <2>2 DEF Accounted
  <2>3. CASE ~(isLocal /\ t = s)
    <3>1. frames'[t] = frames[t]
      BY <2>3, <1>1, <1>3, <1>4 DEF AddAlloca, TypeOK
    <3> QED  BY <3>1, <2>1, <1>4 DEF Accounted
  <2> QED  BY <2>2, <2>3
<1> QED  BY <1>5, <1>6

\* An object made by klee_define_fixed_object or realloc is no alloca, and one
\* that is bound already keeps its kind.
LEMMA MadeOffStackKeepsLocals ==
  ASSUME IInv, LocalsOnStack, NEW o \in MO, NEW k \in {"heap", "global"},
         kind[o] = "unused", kind' = [kind EXCEPT ![o] = k],
         UNCHANGED <<live, frames>>,
         \A t \in live, p \in MO : objects'[t][p] # NoOS => p = o \/ Bound(t, p)
  PROVE  LocalsOnStack'
<1> SUFFICES ASSUME NEW t \in live', NEW p \in MO, objects'[t][p] # NoOS
             PROVE  Accounted(t, p)
  BY AccountedSuffices
<1>1. TypeOK /\ t \in live
  BY DEF IInv
<1>2. CASE p = o
  BY <1>1, <1>2 DEF Accounted, TypeOK
<1>3. CASE p # o
  BY <1>1, <1>3 DEF Accounted, TypeOK
<1> QED  BY <1>2, <1>3

\* popFrame unbinds the list it drops, so what is still held is on the others.
LEMMA PopFrameKeepsLocals ==
  ASSUME IInv, LocalsOnStack, NEW s \in State, PopFrame(s)
  PROVE  LocalsOnStack'
<1> DEFINE n   == Len(frames[s])
           top == frames[s][n]
<1>1. /\ TypeOK /\ s \in live /\ n > 1 /\ live' = live /\ kind' = kind
      /\ frames' = [frames EXCEPT ![s] = SubSeq(@, 1, n - 1)]
  BY DEF PopFrame, IInv
<1>2. PICK stray \in SUBSET MO :
        objects' = [objects EXCEPT ![s] = [o \in MO |-> IF o \in top \union stray
                                                         THEN NoOS ELSE @[o]]]
  BY DEF PopFrame, UnbindAll
<1> SUFFICES ASSUME NEW t \in live', NEW o \in MO, objects'[t][o] # NoOS
             PROVE  Accounted(t, o)
  BY AccountedSuffices
<1>3. t \in live /\ t \in State
  BY <1>1 DEF TypeOK
<1>4. Bound(t, o) /\ (t = s => o \notin top)
  BY <1>1, <1>2, <1>3 DEF Bound, TypeOK
<1>5. CASE t = s /\ kind[o] = "local"
  <2>1. PICK i \in 1..n : o \in frames[s][i]
    BY <1>3, <1>4, <1>5 DEF LocalsOnStack
  <2>2. frames[s] \in Seq(SUBSET MO) /\ n \in Nat /\ i # n
    BY <2>1, <1>1, <1>4, <1>5 DEF TypeOK
  <2>3. frames'[s] = SubSeq(frames[s], 1, n - 1)
    BY <1>1 DEF TypeOK
  <2> DEFINE f == frames[s]
  <2>4. f \in Seq(SUBSET MO) /\ n = Len(f) /\ i \in 1..n - 1 /\ n - 1 =< Len(f)
    BY <2>1, <2>2, <1>1
  <2> HIDE DEF f, n
  <2>5. Len(SubSeq(f, 1, n - 1)) = n - 1 /\ SubSeq(f, 1, n - 1)[i] = f[i]
    BY <2>4, <2>2
  <2>6. i \in 1..Len(frames'[s]) /\ o \in frames'[s][i]
    BY <2>1, <2>3, <2>4, <2>5 DEF f
  <2> QED  BY <2>6, <1>5 DEF Accounted
<1>6. CASE t = s /\ kind[o] # "local"
  BY <1>1, <1>6 DEF Accounted
<1>7. CASE t # s
  BY <1>1, <1>3, <1>4, <1>7 DEF Accounted, TypeOK
<1> QED  BY <1>5, <1>6, <1>7

\* A fork copies the lists with the bindings.
LEMMA CopyKeepsLocals ==
  ASSUME IInv, LocalsOnStack, NEW s \in State, NEW t \in State, CopyState(s, t),
         kind' = kind,
         \A u \in live, o \in MO : objects'[u][o] # NoOS => Bound(u, o),
         \A o \in MO : objects'[t][o] # NoOS => Bound(s, o)
  PROVE  LocalsOnStack'
<1>1. /\ TypeOK /\ s \in live /\ t \notin live /\ live' = live \union {t}
      /\ frames' = [frames EXCEPT ![t] = frames[s]]
  BY DEF CopyState, IInv
<1> SUFFICES ASSUME NEW u \in live', NEW o \in MO, objects'[u][o] # NoOS
             PROVE  Accounted(u, o)
  BY AccountedSuffices
<1>2. CASE u = t
  BY <1>1, <1>2 DEF Accounted, TypeOK
<1>3. CASE u # t
  <2>1. u \in live /\ u \in State
    BY <1>1, <1>3 DEF TypeOK
  <2> QED  BY <2>1, <1>1, <1>3 DEF Accounted, TypeOK
<1> QED  BY <1>2, <1>3

\* A state that ends takes its lists and its bindings with it.
LEMMA DropKeepsLocals ==
  ASSUME IInv, LocalsOnStack, NEW s \in State, Drop(s)
  PROVE  LocalsOnStack'
<1>1. /\ TypeOK /\ live' = live \ {s} /\ kind' = kind
      /\ objects' = [objects EXCEPT ![s] = [o \in MO |-> NoOS]]
      /\ frames' = [frames EXCEPT ![s] = <<>>]
  BY DEF Drop, IInv
<1> SUFFICES ASSUME NEW t \in live', NEW o \in MO, objects'[t][o] # NoOS
             PROVE  Accounted(t, o)
  BY AccountedSuffices
<1>2. t \in live /\ t \in State /\ t # s
  BY <1>1 DEF TypeOK
<1> QED  BY <1>1, <1>2 DEF Accounted, Bound, TypeOK

\* Every step keeps the allocas of every state on its stack.
LEMMA NextKeepsLocals ==
  ASSUME IInv, LocalsOnStack, [Next]_vars
  PROVE  LocalsOnStack'
<1>t. TypeOK
  BY DEF IInv
<1>1. CASE UNCHANGED vars
  BY <1>1 DEF vars, LocalsOnStack, Bound
<1>2. ASSUME NEW s \in State, NEW o \in MO, NEW isLocal \in BOOLEAN,
             ExecuteAlloc(s, o, isLocal)
      PROVE  LocalsOnStack'
  BY <1>2, AllocKeepsLocals
<1>3. ASSUME NEW s \in State, NEW o \in MO, DefineFixedObject(s, o)
      PROVE  LocalsOnStack'
  <2>1. /\ kind[o] = "unused" /\ kind' = [kind EXCEPT ![o] = "global"]
        /\ UNCHANGED <<live, frames>> /\ live \subseteq State
    BY <1>3, <1>t DEF DefineFixedObject, TypeOK
  <2>2. PICK l : objects' = [objects EXCEPT ![s][o] = l]
    BY <1>3 DEF DefineFixedObject, BindObject
  <2>3. \A t \in live, p \in MO : objects'[t][p] # NoOS => p = o \/ Bound(t, p)
    BY <2>1, <2>2, <1>t DEF Bound, TypeOK
  <2> QED  BY <2>1, <2>3, MadeOffStackKeepsLocals
<1>4. ASSUME NEW s \in State, NEW o \in MO, NEW p \in MO, ExecuteRealloc(s, o, p)
      PROVE  LocalsOnStack'
  <2>1. /\ kind[p] = "unused" /\ kind' = [kind EXCEPT ![p] = "heap"]
        /\ UNCHANGED <<live, frames>> /\ live \subseteq State
    BY <1>4, <1>t DEF ExecuteRealloc, TypeOK
  <2>2. PICK l : objects' = [objects EXCEPT ![s] = [@ EXCEPT ![p] = l, ![o] = NoOS]]
    BY <1>4 DEF ExecuteRealloc
  <2>3. \A t \in live, q \in MO : objects'[t][q] # NoOS => q = p \/ Bound(t, q)
    BY <2>1, <2>2, <1>t DEF Bound, TypeOK
  <2> QED  BY <2>1, <2>3, MadeOffStackKeepsLocals
<1>5. ASSUME NEW s \in State, NEW o \in MO, ExecuteFree(s, o)
      PROVE  LocalsOnStack'
  <2>1. objects' = [objects EXCEPT ![s] = [q \in MO |-> IF q \in {o} THEN NoOS ELSE @[q]]]
        /\ UNCHANGED <<live, kind, frames>> /\ live \subseteq State
    BY <1>5, <1>t DEF ExecuteFree, UnbindAll, TypeOK
  <2>2. \A t \in live, q \in MO : objects'[t][q] # NoOS => Bound(t, q)
    BY <2>1, <1>t DEF Bound, TypeOK
  <2> QED  BY <2>1, <2>2, KeepsBindings
<1>6. ASSUME NEW s \in State, PushFrame(s)
      PROVE  LocalsOnStack'
  <2>1. /\ frames' = [frames EXCEPT ![s] = Append(@, {})] /\ s \in live
        /\ UNCHANGED <<live, kind, objects>> /\ live \subseteq State
    BY <1>6, <1>t DEF PushFrame, TypeOK
  <2> SUFFICES ASSUME NEW t \in live, NEW o \in MO, Bound(t, o), kind[o] = "local"
               PROVE  \E i \in 1..Len(frames'[t]) : o \in frames'[t][i]
    BY <2>1 DEF LocalsOnStack, Bound
  <2>2. PICK i \in 1..Len(frames[t]) : o \in frames[t][i]
    BY DEF LocalsOnStack
  <2>3. frames[t] \in Seq(SUBSET MO) /\ t \in State
    BY <2>1, <1>t DEF TypeOK
  <2>4. frames'[t] = frames[t] \/ frames'[t] = Append(frames[t], {})
    BY <2>1, <2>3, <1>t DEF TypeOK
  <2> DEFINE f == frames[t]
             g == Append(f, {})
  <2>5. f \in Seq(SUBSET MO) /\ {} \in SUBSET MO /\ i \in 1..Len(f)
    BY <2>2, <2>3
  <2>6. Len(g) = Len(f) + 1 /\ g[i] = f[i]
    <3> HIDE DEF f
    <3> QED  BY <2>5
  <2>7. i \in 1..Len(frames'[t]) /\ frames'[t][i] = f[i]
    BY <2>2, <2>3, <2>4, <2>6
  <2> QED  BY <2>2, <2>7
<1>7. ASSUME NEW s \in State, PopFrame(s)
      PROVE  LocalsOnStack'
  BY <1>7, PopFrameKeepsLocals
<1>8. ASSUME NEW s \in State, NEW o \in MO, NEW c \in Content, WriteObject(s, o, c)
      PROVE  LocalsOnStack'
  <2>1. Bound(s, o) /\ UNCHANGED <<live, kind, frames>> /\ live \subseteq State
    BY <1>8, <1>t DEF WriteObject, TypeOK
  <2>2. PICK l : objects' = [objects EXCEPT ![s][o] = l]
    BY <1>8 DEF WriteObject
  <2>3. \A t \in live, q \in MO : objects'[t][q] # NoOS => Bound(t, q)
    BY <2>1, <2>2, <1>t DEF Bound, TypeOK
  <2> QED  BY <2>1, <2>3, KeepsBindings
<1>9. ASSUME NEW s \in State, NEW o \in MO, MakeSymbolic(s, o)
      PROVE  LocalsOnStack'
  <2>1. Bound(s, o) /\ UNCHANGED <<live, kind, frames>> /\ live \subseteq State
    BY <1>9, <1>t DEF MakeSymbolic, TypeOK
  <2>2. PICK l : objects' = [objects EXCEPT ![s][o] = l]
    BY <1>9 DEF MakeSymbolic, BindObject
  <2>3. \A t \in live, q \in MO : objects'[t][q] # NoOS => Bound(t, q)
    BY <2>1, <2>2, <1>t DEF Bound, TypeOK
  <2> QED  BY <2>1, <2>3, KeepsBindings
<1>10. ASSUME NEW s \in State, NEW t \in State, Branch(s, t)
       PROVE  LocalsOnStack'
  <2>1. /\ CopyState(s, t) /\ kind' = kind /\ t \notin live
        /\ objects' = [objects EXCEPT ![t] = objects[s]]
    BY <1>10 DEF Branch, CopyState
  <2>2. /\ \A u \in live, o \in MO : objects'[u][o] # NoOS => Bound(u, o)
        /\ \A o \in MO : objects'[t][o] # NoOS => Bound(s, o)
    BY <2>1, <1>t DEF Bound, TypeOK
  <2> QED  BY <2>1, <2>2, CopyKeepsLocals
<1>11. ASSUME NEW s \in State, NEW t \in State, NEW o \in MO, NEW p \in MO,
              NEW c \in Content, WriteEither(s, t, o, p, c)
       PROVE  LocalsOnStack'
  <2>1. CopyState(s, t) /\ kind' = kind /\ t \notin live /\ Bound(s, o) /\ Bound(s, p)
    BY <1>11 DEF WriteEither, CopyState
  <2>2. PICK k, l : objects' = [objects EXCEPT ![s][o] = k,
                                               ![t] = [objects[s] EXCEPT ![p] = l]]
    BY <1>11 DEF WriteEither
  <2>3. \A u \in live, q \in MO : objects'[u][q] # NoOS => Bound(u, q)
    BY <2>1, <2>2, <1>t DEF Bound, TypeOK
  <2>4. \A q \in MO : objects'[t][q] # NoOS => Bound(s, q)
    BY <2>1, <2>2, <1>t DEF Bound, TypeOK
  <2> QED  BY <2>1, <2>3, <2>4, CopyKeepsLocals
<1>12. ASSUME NEW s \in State, Drop(s)
       PROVE  LocalsOnStack'
  BY <1>12, DropKeepsLocals
<1>13. ASSUME NEW s \in State, NEW after, ExternalCall(s, after)
       PROVE  LocalsOnStack'
  <2>1. UNCHANGED <<live, kind, frames>> /\ live \subseteq State
    BY <1>13, <1>t DEF ExternalCall, TypeOK
  <2>2. PICK place : objects' = [objects EXCEPT ![s] =
                       [o \in MO |-> IF o \in Changed(s, after) THEN place[o] ELSE @[o]]]
    BY <1>13 DEF ExternalCall, CopyIn
  <2>3. \A t \in live, q \in MO : objects'[t][q] # NoOS => Bound(t, q)
    BY <2>1, <2>2, <1>t DEF Bound, TypeOK, Changed, Exchanged
  <2> QED  BY <2>1, <2>3, KeepsBindings
<1>14. CASE Next
  BY <1>2, <1>3, <1>4, <1>5, <1>6, <1>7, <1>8, <1>9, <1>10, <1>11, <1>12, <1>13, <1>14
     DEF Next, TerminateState, ExternalReadOnlyError, ExternalCrash
<1> QED  BY <1>1, <1>14

-------------------------------------------------------------------------------
(* The theorems.                                                           *)

\* The address spaces, the heap of object states and the stacks keep their
\* types, and a slot is in use exactly when some state's map holds it
\* (ObjectHolder's counting).
THEOREM TypeCorrect == Spec => []TypeOK
<1>1. Init => IInv
  BY InitIInv
<1>2. IInv /\ [Next]_vars => IInv'
  BY NextStep
<1>3. IInv => TypeOK
  BY DEF IInv
<1> QED  BY <1>1, <1>2, <1>3, PTL DEF Spec

\* The invariant AddressSpace.h states of copyOnWriteOwner and cowKey.
THEOREM OwnersWithinKeys == Spec => []OwnerWithinKey
<1>1. Init => IInv
  BY InitIInv
<1>2. IInv /\ [Next]_vars => IInv'
  BY NextStep
<1>3. IInv => OwnerWithinKey
  BY DEF IInv
<1> QED  BY <1>1, <1>2, <1>3, PTL DEF Spec

\* What getWriteable lets a state write in place, no other state can see.
THEOREM OwnershipIsExclusive == Spec => []OwnedIsPrivate
<1>1. Init => IInv
  BY InitIInv
<1>2. IInv /\ [Next]_vars => IInv'
  BY NextStep
<1>3. IInv => OwnedIsPrivate
  BY DEF IInv
<1> QED  BY <1>1, <1>2, <1>3, PTL DEF Spec

\* Sharing object states copied on write gives every state a memory of its own.
THEOREM ImplementsPrivateMemory == Spec => PrivateSpec
<1>1. Init => IInv /\ Private!Init
  BY InitIInv
<1>2. IInv /\ [Next]_vars => IInv' /\ [Private!Next]_(Private!pmVars)
  BY NextStep
<1> QED  BY <1>1, <1>2, PTL DEF Spec, PrivateSpec, Private!Spec

\* An alloca that a state still holds is on one of its stack's lists, whatever
\* was forked, popped, freed or copied in since: the return of its function
\* will unbind it.
THEOREM LocalsStayOnStack == Spec => []LocalsOnStack
<1> DEFINE LInv == IInv /\ LocalsOnStack
<1>1. Init => LInv
  <2> SUFFICES ASSUME Init
               PROVE  LocalsOnStack
    BY InitIInv
  <2>1. kind = [o \in MO |-> IF o \in Global THEN "global" ELSE "unused"]
    BY DEF Init
  <2> QED  BY <2>1 DEF LocalsOnStack
<1>2. LInv /\ [Next]_vars => LInv'
  BY NextStep, NextKeepsLocals
<1>3. LInv => LocalsOnStack
  OBVIOUS
<1> QED  BY <1>1, <1>2, <1>3, PTL DEF Spec
===============================================================================
