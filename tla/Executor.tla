-------------------------------- MODULE Executor --------------------------------
(***************************************************************************)
(* The state bookkeeping of the executor (Executor.cpp, PTree.cpp): the    *)
(* seeding loop and the main loop of run(), fork() and branch(), and       *)
(* terminateState() and updateStates(), which put what an instruction adds *)
(* and removes into effect when the step ends.                             *)
(*                                                                         *)
(* A state is its id.  What an instruction computes is left out: it forks  *)
(* and terminates the states it was given, in any order.  A seed satisfies *)
(* one side of each condition, which is chosen.  A node of the process     *)
(* tree is the path to it, 0 for left and 1 for right.                     *)
(***************************************************************************)
EXTENDS Naturals, FiniteSets, SequencesExt

CONSTANTS Seed,
          MaxStates,  \* bound on stateID
          MaxBranch,  \* bound on the states one branch() adds
          NoState,    \* a null ExecutionState pointer
          NoSearcher  \* a null Searcher pointer

State  == 0 .. MaxStates
Root   == 0

\* The options that are read more than once; any other is a choice where it is read.
\* concolic: UseConcreteData and UseConcolicSearcher.
Option == [onlyReplaySeeds : BOOLEAN, concolic : BOOLEAN]

ASSUME ExecutorAssumption ==
  /\ Seed # {}
  /\ MaxStates \in Nat /\ MaxBranch \in Nat
  /\ NoState \notin State
  /\ \A S \in SUBSET State : NoSearcher # S

VARIABLES
  options,        \* command line options
  pc,             \* where run() is
  current,        \* the state whose instruction is executed
  stateID,        \* the last id given to a state
  states, addedStates, removedStates,
  deleted,        \* states whose memory is freed
  seedMap,        \* the seeds of the states that have an entry
  searcher,       \* the states the searcher holds, or NoSearcher
  tree,           \* the process tree: the data of each node
  ptreeNode,      \* the node of each state
  haltExecution

sets == <<states, addedStates, removedStates, deleted>>
vars == <<options, pc, current, stateID, sets, seedMap, searcher, tree, ptreeNode,
          haltExecution>>

IsSeeding(s)    == s \in DOMAIN seedMap
OnlyReplaySeeds == options.onlyReplaySeeds

\* A map with the entry of k set to v.
Put(f, k, v) == [x \in DOMAIN f \union {k} |-> IF x = k THEN v ELSE f[x]]

\* Mutants of WithSeeds and Without: empty entries stay; the entries of deleted states stay.
WithEntries(seeds) == seeds
WithAll(f, S)      == f

\* Entries without seeds are not made (the push_back that fills an entry makes it).
WithSeeds(seeds) == Restrict(seeds, {s \in DOMAIN seeds : seeds[s] # {}})

\* What is kept of each state, without the states S.
Without(f, S) == Restrict(f, DOMAIN f \ S)

\* PTree::split: the data of n moves to two new children.
SplitNode(t, n, left, right) ==
  Put(Put(Put(t, n, NoState), Append(n, 0), left), Append(n, 1), right)

\* Mutant of RemoveNodes: parents left without children stay.
RemoveLeaves(t, N) == Restrict(t, DOMAIN t \ N)

\* PTree::remove of the leaves N: a node goes with its last child.
RemoveNodes(t, N) ==
  Restrict(t, {n \in DOMAIN t : \E m \in DOMAIN t \ N :
                 IsPrefix(n, m) /\ \A i \in {0, 1} : Append(m, i) \notin DOMAIN t})

\* The start of run(): with seeds, without, or with one from UseConcreteData, read
\* from memory, which the main loop uses.
Init ==
  /\ options \in Option
  /\ pc \in {"seeding", "start"}
  /\ current = NoState
  /\ stateID = 0
  /\ states = {Root} /\ addedStates = {} /\ removedStates = {} /\ deleted = {}
  /\ \/ pc = "seeding" /\ \E given \in (SUBSET Seed) \ {{}} : seedMap = [s \in {Root} |-> given]
     \/ pc = "start" /\ \E seed \in Seed : seedMap = [s \in {Root} |-> {seed}]
     \/ pc = "start" /\ ~options.concolic /\ seedMap = <<>>
  /\ searcher = NoSearcher
  /\ tree = [n \in {<<>>} |-> Root]
  /\ ptreeNode = [s \in {Root} |-> <<>>]
  /\ haltExecution = FALSE

-------------------------------------------------------------------------------
(* The loops of run().                                                     *)

\* A signal, a HaltTimer or an instruction count stops the execution.
SetHaltExecution ==
  /\ pc \notin {"done", "crashed"} /\ ~haltExecution
  /\ haltExecution' = TRUE
  /\ UNCHANGED <<options, pc, current, stateID, sets, seedMap, searcher, tree, ptreeNode>>

\* Mutant of SeedingContinues: halting is not looked at.
SeedsRemain == DOMAIN seedMap # {}

\* The seeding loop steps the states of seedMap in the order of their addresses.
SeedingContinues == DOMAIN seedMap # {} /\ ~haltExecution

SelectSeeded(s) ==
  /\ pc = "seeding" /\ SeedingContinues /\ s \in DOMAIN seedMap
  /\ current' = s
  /\ pc' = "exec"
  /\ UNCHANGED <<options, stateID, sets, seedMap, searcher, tree, ptreeNode, haltExecution>>

LeaveSeeding ==
  /\ pc = "seeding" /\ ~SeedingContinues
  /\ pc' = IF DOMAIN seedMap # {} THEN "dump" ELSE "seeded"
  /\ UNCHANGED <<options, current, stateID, sets, seedMap, searcher, tree, ptreeNode,
                 haltExecution>>

OnlySeed ==
  /\ pc = "seeded"
  /\ pc' = "dump"
  /\ UNCHANGED <<options, current, stateID, sets, seedMap, searcher, tree, ptreeNode,
                 haltExecution>>

\* constructUserSearcher, and the searcher's first update.
StartSearch ==
  /\ pc \in {"start", "seeded"}
  /\ searcher' = states
  /\ pc' = "search"
  /\ UNCHANGED <<options, current, stateID, sets, seedMap, tree, ptreeNode, haltExecution>>

\* With use-merge, selectState may merge states, which it terminates, into others.
SelectState(s, merged) ==
  /\ pc = "search" /\ states # {} /\ ~haltExecution
  /\ s \in searcher
  /\ merged \subseteq states \ {s}
  /\ removedStates' = merged
  /\ current' = s
  /\ pc' = "exec"
  /\ UNCHANGED <<options, stateID, states, addedStates, deleted, seedMap, searcher, tree,
                 ptreeNode, haltExecution>>

EndSearch ==
  /\ pc = "search" /\ (states = {} \/ haltExecution)
  /\ searcher' = NoSearcher
  /\ pc' = "dump"
  /\ UNCHANGED <<options, current, stateID, sets, seedMap, tree, ptreeNode, haltExecution>>

-------------------------------------------------------------------------------
(* An instruction of the current state, and of the states it forks.        *)

\* The states an instruction still works on.
Active == ({current} \ removedStates) \union addedStates

\* A call through the null searcher ends the process.
CallSearcher(called) == pc' = IF called /\ searcher = NoSearcher THEN "crashed" ELSE pc

\* Mutant of Terminate: an added state is treated like any other.
TerminateLater(S, added, seeds, t, at) ==
  /\ addedStates' = added
  /\ removedStates' = removedStates \union S
  /\ deleted' = deleted
  /\ seedMap' = seeds
  /\ tree' = t
  /\ ptreeNode' = at

\* terminateState for the states S, after what their handler did before: a state
\* the searcher has not seen is deleted at once, and the searcher is told to
\* drop its flag; any other is removed when the step ends.
Terminate(S, added, seeds, t, at) ==
  LET now == S \intersect added
  IN  /\ addedStates' = added \ S
      /\ removedStates' = removedStates \union (S \ added)
      /\ deleted' = deleted \union now
      /\ seedMap' = Without(seeds, now)
      /\ tree' = RemoveNodes(t, {at[s] : s \in now})
      /\ ptreeNode' = Without(at, now)

\* Any error, exit or solver failure of one of the states.
TerminateState(s) ==
  /\ pc = "exec" /\ s \in Active
  /\ Terminate({s}, addedStates, seedMap, tree, ptreeNode)
  /\ CallSearcher(s \in addedStates)
  /\ UNCHANGED <<options, current, stateID, states, searcher, haltExecution>>

\* The seeds after a fork of s into yes and no.
SplitSeeds(s, yes, no, satisfied) ==
  IF IsSeeding(s)
  THEN WithSeeds(Put(Put(seedMap, no, seedMap[s] \ satisfied), yes, satisfied))
  ELSE seedMap

\* fork() with both sides feasible.  The new state takes the false side, or the
\* true one with RandomizeFork.  The side without seeds leaves seed mode.
Fork(s, newSide, satisfied, atMaxDepth) ==
  LET t   == stateID + 1
      yes == IF newSide THEN t ELSE s
      no  == IF newSide THEN s ELSE t
      n   == ptreeNode[s]
  IN  /\ pc = "exec" /\ s \in Active /\ stateID < MaxStates
      /\ satisfied \in SUBSET (IF IsSeeding(s) THEN seedMap[s] ELSE {})
      \* one-sided seeds: only-replay-seeds takes that side and does not fork
      /\ IsSeeding(s) /\ OnlyReplaySeeds => satisfied \notin {{}, seedMap[s]}
      /\ stateID' = t
      /\ Terminate(IF atMaxDepth THEN {s, t} ELSE {},
                   addedStates \union {t},
                   SplitSeeds(s, yes, no, satisfied),
                   SplitNode(tree, n, no, yes),
                   Put(Put(ptreeNode, no, Append(n, 0)), yes, Append(n, 1)))
      /\ CallSearcher(\/ atMaxDepth
                      \/ options.concolic /\ satisfied # {})
      /\ UNCHANGED <<options, current, states, searcher, haltExecution>>

\* The process tree after branch() split the states parent[1], ... in turn, each
\* into a new state (left) and itself.
Splits(parent) ==
  LET after[k \in 0 .. Len(parent)] ==
        IF k = 0 THEN <<tree, ptreeNode>>
        ELSE LET t  == after[k-1][1]
                 at == after[k-1][2]
                 es == parent[k]
                 n  == at[es]
             IN  <<SplitNode(t, n, stateID + k, es),
                   Put(Put(at, stateID + k, Append(n, 0)), es, Append(n, 1))>>
  IN  after[Len(parent)]

\* The seeds of the states result after branch() redistributed those of s.
DealSeeds(s, result, deal) ==
  IF IsSeeding(s)
  THEN WithSeeds([r \in result \union DOMAIN seedMap |->
                    IF r \in result THEN {d \in seedMap[s] : deal[d] = r} ELSE seedMap[r]])
  ELSE seedMap

\* branch() over 1 + Len(parent) conditions: the k-th new state comes from
\* parent[k], one of the results so far.  Seeds go to the condition they satisfy
\* and are lost where max-forks left no state; only-replay-seeds terminates the
\* results without seeds.
Branch(s, parent, deal) ==
  LET new    == (stateID + 1) .. (stateID + Len(parent))
      result == {s} \union new
      seeds  == DealSeeds(s, result, deal)
      after  == Splits(parent)
      idle   == IF IsSeeding(s) /\ OnlyReplaySeeds THEN result \ DOMAIN seeds ELSE {}
  IN  /\ pc = "exec" /\ s \in Active /\ stateID + Len(parent) =< MaxStates
      /\ new # {} => NoState \notin Range(deal)
      /\ \A k \in DOMAIN parent : parent[k] \in {s} \union (stateID + 1) .. (stateID + k - 1)
      /\ stateID' = stateID + Len(parent)
      /\ Terminate(idle, addedStates \union new, seeds, after[1], after[2])
      /\ CallSearcher(idle \intersect (addedStates \union new) # {})
      /\ UNCHANGED <<options, current, states, searcher, haltExecution>>

-------------------------------------------------------------------------------
(* The end of a step.                                                      *)

\* The instruction is done; processTimers ends a current state that took too long.
ProcessTimers(tooLong) ==
  /\ pc = "exec"
  /\ tooLong => current \notin removedStates
  /\ Terminate(IF tooLong THEN {current} ELSE {}, addedStates, seedMap, tree, ptreeNode)
  /\ pc' = IF searcher = NoSearcher THEN "update" ELSE "memory"
  /\ UNCHANGED <<options, current, stateID, states, searcher, haltExecution>>

\* Over the memory cap some states are killed, never as many as there are.
CheckMemory(killed) ==
  /\ pc = "memory"
  /\ killed \subseteq states /\ killed # states
  /\ Terminate(killed, addedStates, seedMap, tree, ptreeNode)
  /\ pc' = "update"
  /\ UNCHANGED <<options, current, stateID, states, searcher, haltExecution>>

\* Mutant of UpdateStates: the added states are dropped.
UpdateWithoutAdded ==
  /\ pc = "update"
  /\ searcher' = IF searcher = NoSearcher THEN NoSearcher ELSE searcher \ removedStates
  /\ states' = states \ removedStates
  /\ addedStates' = {} /\ removedStates' = {}
  /\ deleted' = deleted \union removedStates
  /\ seedMap' = Without(seedMap, removedStates)
  /\ tree' = RemoveNodes(tree, {ptreeNode[s] : s \in removedStates})
  /\ ptreeNode' = Without(ptreeNode, removedStates)
  /\ current' = NoState
  /\ IF searcher = NoSearcher THEN pc' \in {"seeding", "seeded"} ELSE pc' = "search"
  /\ UNCHANGED <<options, stateID, haltExecution>>

\* updateStates.  The seeding loop may find its time expired.
UpdateStates ==
  /\ pc = "update"
  /\ searcher' = IF searcher = NoSearcher THEN NoSearcher
                 ELSE (searcher \union addedStates) \ removedStates
  /\ states' = (states \union addedStates) \ removedStates
  /\ addedStates' = {} /\ removedStates' = {}
  /\ deleted' = deleted \union removedStates
  /\ seedMap' = Without(seedMap, removedStates)
  /\ tree' = RemoveNodes(tree, {ptreeNode[s] : s \in removedStates})
  /\ ptreeNode' = Without(ptreeNode, removedStates)
  /\ current' = NoState
  /\ IF searcher = NoSearcher THEN pc' \in {"seeding", "seeded"} ELSE pc' = "search"
  /\ UNCHANGED <<options, stateID, haltExecution>>

\* The end of run(): DumpStatesOnHalt terminates what is left, or it stays.
Dump ==
  /\ pc = "dump"
  /\ states' = {}
  /\ deleted' = deleted \union states
  /\ seedMap' = Without(seedMap, states)
  /\ tree' = RemoveNodes(tree, {ptreeNode[s] : s \in states})
  /\ ptreeNode' = Without(ptreeNode, states)
  /\ pc' = "done"
  /\ UNCHANGED <<options, current, stateID, addedStates, removedStates, searcher,
                 haltExecution>>

EndRun ==
  /\ pc = "dump"
  /\ pc' = "done"
  /\ UNCHANGED <<options, current, stateID, sets, seedMap, searcher, tree, ptreeNode,
                 haltExecution>>

\* What run() does by itself at the top of its loops and at the end of a step.
RunStep ==
  \/ \E s \in DOMAIN seedMap : SelectSeeded(s)
  \/ LeaveSeeding
  \/ OnlySeed
  \/ StartSearch
  \/ \E s \in states, merged \in SUBSET states : SelectState(s, merged)
  \/ EndSearch
  \/ \E tooLong \in BOOLEAN : ProcessTimers(tooLong)
  \/ \E killed \in SUBSET states : CheckMemory(killed)
  \/ UpdateStates
  \/ Dump
  \/ EndRun

\* What an instruction may do before it is done.
ExecuteInstruction ==
  \E s \in Active :
    \/ TerminateState(s)
    \/ \E newSide, atMaxDepth \in BOOLEAN, satisfied \in SUBSET Seed :
         Fork(s, newSide, satisfied, atMaxDepth)
    \/ \E n \in 0 .. MaxBranch : \E parent \in [1..n -> 0 .. MaxStates] :
         \E deal \in [IF IsSeeding(s) THEN seedMap[s] ELSE {} ->
                        {s, NoState} \union (stateID + 1) .. (stateID + n)] :
           Branch(s, parent, deal)

Next == SetHaltExecution \/ RunStep \/ ExecuteInstruction

\* run() is one thread that takes its next step; an instruction ends.
Fairness == WF_vars(RunStep)
Spec     == Init /\ [][Next]_vars /\ Fairness

-------------------------------------------------------------------------------
(* Properties.                                                             *)

Live == states \union addedStates

\* Every variable has its type; a step has a current state, which stays a member
\* of states until the step ends, and ids are given once.
TypeOK ==
  /\ options \in Option
  /\ pc \in {"start", "seeding", "seeded", "search", "exec", "memory", "update", "dump",
             "done", "crashed"}
  /\ stateID \in 0 .. MaxStates
  /\ Live \union deleted = 0 .. stateID
  /\ states \intersect addedStates = {}
  /\ IF pc \in {"exec", "memory", "update", "crashed"} THEN current \in states
     ELSE current = NoState /\ addedStates = {} /\ removedStates = {}
  /\ searcher \in {NoSearcher} \union SUBSET State
  /\ DOMAIN seedMap \subseteq State /\ Range(seedMap) \subseteq SUBSET Seed
  /\ haltExecution \in BOOLEAN

\* Executor.h: "addedStates and removedStates are disjoint", "removedStates is a
\* subset of states" (the assert of updateStates); the searcher, told of both at
\* the end of a step, knows exactly the executor's states.
StepSets ==
  /\ addedStates \intersect removedStates = {}
  /\ removedStates \subseteq states
  /\ searcher \in {NoSearcher, states}

\* A deleted state is in no set, has no seeds and no place in the process tree,
\* and is not the state being executed.
NoDangling ==
  deleted \intersect (Live \union removedStates \union DOMAIN seedMap \union Range(tree)
                      \union {current}) = {}

\* PTree: the leaves are the states, each at the node it points to; a node has
\* data exactly when it has no child (the asserts of split and remove).
TreeOfStates ==
  /\ \A s \in Live : ptreeNode[s] \in DOMAIN tree /\ tree[ptreeNode[s]] = s
  /\ \A n \in DOMAIN tree :
       IF \E i \in {0, 1} : Append(n, i) \in DOMAIN tree
       THEN tree[n] = NoState ELSE tree[n] \in Live

\* A state has an entry in seedMap only while it has seeds, and no seed drives two
\* states.  With only-replay-seeds, a path no seed takes is not explored.
SeedsHeld ==
  /\ \A s \in DOMAIN seedMap : s \in Live /\ seedMap[s] # {}
  /\ \A s, t \in DOMAIN seedMap : s # t => seedMap[s] \intersect seedMap[t] = {}
  /\ OnlyReplaySeeds /\ pc \in {"seeding", "exec", "update"} /\ searcher = NoSearcher
       => Live \ removedStates \subseteq DOMAIN seedMap

\* Every path forked is open until it is terminated, and accounted for after.
Paths == INSTANCE Exploration WITH
  Path <- 0 .. MaxStates, open <- Live \ removedStates, ended <- removedStates \union deleted
PathSpec == Paths!Spec

\* "Signals the executor to halt execution at the next instruction step."
HaltStops == haltExecution ~> pc \in {"done", "crashed"}

\* Seeds are run "outside the normal search interface" (Executor.h): there is no
\* searcher then, and none is called.
SeedingWithoutSearcher == pc # "crashed"
================================================================================
