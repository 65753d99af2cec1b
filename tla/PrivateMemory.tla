---------------------------- MODULE PrivateMemory ----------------------------
(***************************************************************************)
(* What the executor promises about memory: every execution state has a    *)
(* memory of its own.  A step of one state changes that state's memory and *)
(* nobody else's; a fork starts from an exact copy.  Nothing here shares,  *)
(* copies lazily or counts references: AddressSpace shows how klee gets    *)
(* this effect while sharing object states between the states.             *)
(*                                                                         *)
(* A memory maps every memory object to its contents: a concrete value,    *)
(* Symbolic, or Unbound when the state cannot reach the object.            *)
(***************************************************************************)
CONSTANTS State,          \* execution states
          Root,           \* the state main() starts in
          MO,             \* memory objects
          Global,         \* objects bound before the first instruction
          ReadOnly,       \* globals the program may not write
          UserSpecified,  \* objects of klee_define_fixed_object
          Value,          \* contents of a concrete object
          Initial,        \* contents of the globals at start
          Symbolic,       \* contents of an object made symbolic
          Unbound         \* contents of an object the state does not hold

VARIABLES live, mem

pmVars == <<live, mem>>

Content == Value \union {Symbolic}
Empty   == [o \in MO |-> Unbound]

Init ==
  /\ live = {Root}
  /\ mem = [s \in State |->
              IF s = Root
              THEN [o \in MO |-> IF o \in Global THEN Initial ELSE Unbound]
              ELSE Empty]

\* The program of s creates object o.
Bind(s, o, c) ==
  /\ s \in live /\ c \in Content
  /\ mem' = [mem EXCEPT ![s] = [mem[s] EXCEPT ![o] = c]]
  /\ UNCHANGED live

\* The program of s gives up the objects of U (free, function return).
Unbind(s, U) ==
  /\ s \in live
  /\ mem' = [mem EXCEPT ![s] = [o \in MO |-> IF o \in U THEN Unbound ELSE mem[s][o]]]
  /\ UNCHANGED live

\* A store to an object s holds and may write.
Store(s, o, c) ==
  /\ mem[s][o] # Unbound /\ o \notin ReadOnly
  /\ Bind(s, o, c)

\* realloc: the contents of o move to p.
Move(s, o, p) ==
  /\ s \in live /\ mem[s][o] # Unbound /\ mem[s][p] = Unbound
  /\ mem' = [mem EXCEPT ![s] = [mem[s] EXCEPT ![p] = mem[s][o], ![o] = Unbound]]
  /\ UNCHANGED live

\* t starts as a copy of s.
Fork(s, t) ==
  /\ s \in live /\ t \in State \ live
  /\ mem' = [mem EXCEPT ![t] = mem[s]]
  /\ live' = live \union {t}

\* A store through a pointer that may point to o or to p: s takes the case o
\* and the new state t the case p, each writing its own object.
ForkStore(s, t, o, p, c) ==
  /\ s \in live /\ t \in State \ live /\ c \in Content
  /\ mem[s][o] # Unbound /\ mem[s][p] # Unbound
  /\ {o, p} \intersect ReadOnly = {}
  /\ mem' = [mem EXCEPT ![s] = [mem[s] EXCEPT ![o] = c],
                        ![t] = [mem[s] EXCEPT ![p] = c]]
  /\ live' = live \union {t}

\* An external call may leave any concrete value in the objects it can reach,
\* and leaves the symbolic, the read-only and the user-specified ones alone.
External(s) ==
  /\ s \in live
  /\ mem' \in [State -> [MO -> Content \union {Unbound}]]
  /\ \A t \in State \ {s} : mem'[t] = mem[t]
  /\ \A o \in MO : IF mem[s][o] \in Value /\ o \notin ReadOnly \union UserSpecified
                   THEN mem'[s][o] \in Value
                   ELSE mem'[s][o] = mem[s][o]
  /\ UNCHANGED live

Terminate(s) ==
  /\ s \in live
  /\ live' = live \ {s}
  /\ mem' = [mem EXCEPT ![s] = Empty]

Next ==
  \E s \in State :
    \/ \E o \in MO, c \in Content : Bind(s, o, c) \/ Store(s, o, c)
    \/ \E U \in SUBSET MO : Unbind(s, U)
    \/ \E o, p \in MO : Move(s, o, p)
    \/ \E t \in State : Fork(s, t)
    \/ \E t \in State, o, p \in MO, c \in Content : ForkStore(s, t, o, p, c)
    \/ External(s)
    \/ Terminate(s)

Spec == Init /\ [][Next]_pmVars
===============================================================================
