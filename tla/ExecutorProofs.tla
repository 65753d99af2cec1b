---------------------------- MODULE ExecutorProofs ----------------------------
(***************************************************************************)
(* The executor's sets of states, its seeds and its process tree, for any  *)
(* number of states and seeds: what updateStates may rely on, that no path *)
(* is lost, that a seed drives one state, that the leaves of the tree are  *)
(* the states, and that nothing of a deleted state is left.                *)
(***************************************************************************)
EXTENDS Executor, Watchdog, FiniteSetTheorems, SequenceTheorems, WellFoundedInduction, TLAPS

\* A step is under way: the executor holds a pointer to the current state.
InStep == pc \in {"exec", "memory", "update", "crashed"}

\* StepSets, and why a new state is in no set yet.
Book ==
  /\ stateID \in Nat /\ stateID =< MaxStates
  /\ Live \union deleted = 0 .. stateID
  /\ states \intersect addedStates = {}
  /\ deleted \intersect Live = {}
  /\ StepSets
  /\ IF InStep THEN current \in states
     ELSE current = NoState /\ addedStates = {} /\ removedStates = {}
  /\ pc \in {"start", "seeding", "seeded", "dump", "done"} => searcher = NoSearcher
  /\ pc \in {"search", "memory"} => searcher # NoSearcher

\* Entries are of existing states, not empty, and share no seed.
SeedsOf(seeds, live) ==
  /\ seeds = [s \in DOMAIN seeds |-> seeds[s]]
  /\ DOMAIN seeds \subseteq live
  /\ \A s \in DOMAIN seeds : seeds[s] \subseteq Seed /\ seeds[s] # {}
  /\ \A s, t \in DOMAIN seeds : s # t => seeds[s] \intersect seeds[t] = {}

\* In the seeding loop of only-replay-seeds, an open path has seeds.
Replayed(open, seeds) ==
  OnlyReplaySeeds /\ pc \in {"seeding", "exec", "update"} /\ searcher = NoSearcher
    => open \subseteq DOMAIN seeds

Control ==
  /\ options \in Option
  /\ pc \in {"start", "seeding", "seeded", "search", "exec", "memory", "update", "dump",
             "done", "crashed"}
  /\ haltExecution \in BOOLEAN

\* What every step preserves.
IInv ==
  /\ Control
  /\ Book
  /\ SeedsOf(seedMap, Live)
  /\ Replayed(Live \ removedStates, seedMap)

\* What a step does to the paths: some split, some end, or nothing changes.
PathStep == [Paths!Advance]_(Paths!paths)

\* A set of states is never mistaken for the null searcher.
LEMMA SearcherIsDistinct == Book => states # NoSearcher /\ states \subseteq State
<1> SUFFICES ASSUME Book PROVE states # NoSearcher /\ states \subseteq State
  OBVIOUS
<1>1. states \subseteq State
  BY ExecutorAssumption DEF Book, State, Live
<1> QED
  BY <1>1, ExecutorAssumption

\* The initial state alone, with nothing added or removed.
LEMMA InitIInv == Init => IInv
<1> SUFFICES ASSUME Init PROVE IInv
  OBVIOUS
<1>1. Control /\ Book
  <2>1. pc \in {"seeding", "start"} /\ ~InStep /\ Control
    BY DEF Init, Control, InStep
  <2>2. /\ stateID = 0 /\ states = {0} /\ addedStates = {} /\ removedStates = {}
        /\ deleted = {} /\ current = NoState /\ searcher = NoSearcher
    BY DEF Init, Root
  <2> QED
    BY <2>1, <2>2, ExecutorAssumption DEF Book, StepSets, Live
<1>2. SeedsOf(seedMap, Live)
  <2>1. CASE \E given \in (SUBSET Seed) \ {{}} : seedMap = [s \in {Root} |-> given]
    BY <2>1 DEF Init, SeedsOf, Live
  <2>2. CASE \E seed \in Seed : seedMap = [s \in {Root} |-> {seed}]
    BY <2>2 DEF Init, SeedsOf, Live
  <2>3. CASE seedMap = <<>>
    BY <2>3 DEF SeedsOf
  <2> QED
    BY <2>1, <2>2, <2>3 DEF Init
<1>3. Replayed(Live \ removedStates, seedMap)
  BY DEF Init, Replayed, Live
<1> QED
  BY <1>1, <1>2, <1>3 DEF IInv

\* Erasing the entries of the states S, which are no longer live.
LEMMA WithoutSeeds ==
  ASSUME NEW seeds, NEW live, NEW S, SeedsOf(seeds, live)
  PROVE  SeedsOf(Without(seeds, S), live \ S) /\ DOMAIN Without(seeds, S) = DOMAIN seeds \ S
BY DEF SeedsOf, Without, Restrict

\* terminateState for the states S, after an instruction added the states new
\* and gave them seeds: whatever becomes of the process tree.
LEMMA TerminateStep ==
  ASSUME IInv, InStep, InStep', NEW S, NEW new, NEW seeds, NEW t, NEW at,
         Terminate(S, addedStates \union new, seeds, t, at),
         stateID' \in Nat, stateID' >= stateID, stateID' =< MaxStates,
         new = (stateID + 1) .. stateID',
         S \subseteq Live \union new,
         new # {} => Live \ removedStates # {},
         SeedsOf(seeds, Live \union new),
         OnlyReplaySeeds /\ searcher = NoSearcher
           => (Live \union new) \ (removedStates \union S) \subseteq DOMAIN seeds,
         UNCHANGED <<options, states, current, searcher, haltExecution>>,
         pc' \in {"exec", "memory", "update", "crashed"},
         pc' = "memory" => searcher # NoSearcher
  PROVE  IInv' /\ PathStep
<1> DEFINE added == addedStates \union new
<1>0. Book
  BY DEF IInv
<1>1. /\ addedStates' = added \ S
      /\ removedStates' = removedStates \union (S \ added)
      /\ deleted' = deleted \union (S \intersect added)
      /\ seedMap' = Without(seeds, S \intersect added)
      /\ states' = states /\ current' = current /\ searcher' = searcher
  BY DEF Terminate
<1>2. /\ new \intersect (states \union addedStates \union deleted) = {}
      /\ new \subseteq 0 .. MaxStates
      /\ 0 .. stateID' = (0 .. stateID) \union new
  BY <1>0, ExecutorAssumption DEF Book, Live
<1>3. Book'
  <2>1. (Live \union deleted)' = 0 .. stateID'
    BY <1>0, <1>1, <1>2 DEF Book, Live
  <2>2. /\ states' \intersect addedStates' = {}
        /\ deleted' \intersect (states' \union addedStates') = {}
    BY <1>0, <1>1, <1>2 DEF Book, Live
  <2>3. StepSets'
    BY <1>0, <1>1, <1>2 DEF Book, StepSets, Live
  <2> QED
    BY <2>1, <2>2, <2>3, <1>0, <1>1 DEF Book, InStep, Live
<1>4. PathStep
  <2> DEFINE open  == Live \ removedStates
             ended == removedStates \union deleted
             over  == S \ ended
  <2>1. /\ open' = (open \union new) \ over
        /\ ended' = ended \union over
        /\ new \subseteq (0 .. MaxStates) \ (open \union ended)
        /\ over \subseteq open \union new
    BY <1>0, <1>1, <1>2 DEF Book, StepSets, Live
  <2>2. CASE open = {}
    BY <2>1, <2>2 DEF PathStep, Paths!paths
  <2>3. CASE open # {}
    <3> HIDE DEF over
    <3> QED
      BY <2>1, <2>3 DEF PathStep, Paths!Advance
  <2> QED
    BY <2>2, <2>3
<1>5. Live' = (Live \union new) \ (S \intersect added)
  BY <1>0, <1>1, <1>2 DEF Book, Live
<1>6. SeedsOf(seedMap, Live)'
  <2>1. SeedsOf(seedMap', Live')
    BY <1>1, <1>5, WithoutSeeds
  <2> QED
    BY <2>1 DEF SeedsOf
<1>7. Replayed(Live \ removedStates, seedMap)'
  <2> SUFFICES ASSUME OnlyReplaySeeds /\ searcher = NoSearcher
               PROVE  Live' \ removedStates' \subseteq DOMAIN seedMap'
    BY <1>1 DEF Replayed, OnlyReplaySeeds
  <2>1. DOMAIN seedMap' = DOMAIN seeds \ (S \intersect added)
    BY <1>1, WithoutSeeds
  <2>2. Live' \ removedStates' \subseteq (Live \union new) \ (removedStates \union S)
    BY <1>0, <1>1, <1>2, <1>5 DEF Book, StepSets, Live
  <2> QED
    BY <2>1, <2>2, <1>5
<1>8. Control'
  BY DEF IInv, Control
<1> QED
  BY <1>3, <1>4, <1>6, <1>7, <1>8 DEF IInv

\* The two sides of a fork share the seeds of the state forked.
LEMMA ForkSeeds ==
  ASSUME IInv, NEW s \in Live, NEW yes, NEW no, NEW satisfied,
         yes # no, {yes, no} \intersect Live = {s},
         s \in DOMAIN seedMap => satisfied \subseteq seedMap[s]
  PROVE  SeedsOf(SplitSeeds(s, yes, no, satisfied), Live \union {yes, no})
<1>0. SeedsOf(seedMap, Live)
  BY DEF IInv
<1>1. CASE IsSeeding(s)
  <2> DEFINE seeds == Put(Put(seedMap, no, seedMap[s] \ satisfied), yes, satisfied)
  <2>1. /\ seeds = [x \in DOMAIN seeds |-> seeds[x]]
        /\ DOMAIN seeds = DOMAIN seedMap \union {yes, no}
        /\ seeds[yes] = satisfied /\ seeds[no] = seedMap[s] \ satisfied
        /\ \A x \in DOMAIN seedMap \ {s} : x \notin {yes, no} /\ seeds[x] = seedMap[x]
        /\ s \in DOMAIN seedMap /\ satisfied \subseteq seedMap[s]
    BY <1>0, <1>1 DEF Put, SeedsOf, IsSeeding
  <2>2. SplitSeeds(s, yes, no, satisfied) = WithSeeds(seeds)
    BY <1>1 DEF SplitSeeds
  <2> HIDE DEF seeds
  <2>3. \A x \in DOMAIN seeds : x \in {yes, no} \/ x \in DOMAIN seedMap \ {s}
    BY <2>1
  <2>4. \A x \in DOMAIN seeds : seeds[x] \subseteq Seed
    BY <1>0, <2>1, <2>3 DEF SeedsOf
  <2>5. \A x, y \in DOMAIN seeds : x # y => seeds[x] \intersect seeds[y] = {}
    BY <1>0, <2>1, <2>3 DEF SeedsOf
  <2>6. SeedsOf(WithSeeds(seeds), Live \union {yes, no})
    BY <1>0, <2>1, <2>4, <2>5 DEF SeedsOf, WithSeeds, Restrict
  <2> QED
    BY <2>2, <2>6
<1>2. CASE ~IsSeeding(s)
  BY <1>0, <1>2 DEF SplitSeeds, SeedsOf, IsSeeding
<1> QED
  BY <1>1, <1>2

\* With seeds on both sides, both have an entry.
LEMMA ForkBothSeeded ==
  ASSUME IInv, NEW s \in DOMAIN seedMap, NEW yes, NEW no, NEW satisfied,
         yes # no, s \in {yes, no},
         satisfied \subseteq seedMap[s], satisfied # {}, satisfied # seedMap[s]
  PROVE  DOMAIN seedMap \union {yes, no} \subseteq DOMAIN SplitSeeds(s, yes, no, satisfied)
<1> DEFINE seeds == Put(Put(seedMap, no, seedMap[s] \ satisfied), yes, satisfied)
<1>1. /\ DOMAIN seeds = DOMAIN seedMap \union {yes, no}
      /\ seeds[yes] = satisfied /\ seeds[no] = seedMap[s] \ satisfied
      /\ \A x \in DOMAIN seedMap \ {yes, no} : seeds[x] = seedMap[x] /\ seeds[x] # {}
  BY DEF IInv, Put, SeedsOf
<1>2. SplitSeeds(s, yes, no, satisfied) = WithSeeds(seeds)
  BY DEF SplitSeeds, IsSeeding
<1> HIDE DEF seeds
<1>3. \A x \in DOMAIN seeds : seeds[x] # {}
  BY <1>1
<1>4. DOMAIN WithSeeds(seeds) = DOMAIN seeds
  BY <1>3 DEF WithSeeds, Restrict
<1> QED
  BY <1>1, <1>2, <1>4

\* branch() deals the seeds of the state to the results.
LEMMA BranchSeeds ==
  ASSUME IInv, NEW s \in Live, NEW new, NEW deal, new \intersect Live = {}
  PROVE  /\ SeedsOf(DealSeeds(s, {s} \union new, deal), Live \union new)
         /\ DOMAIN seedMap \ {s} \subseteq DOMAIN DealSeeds(s, {s} \union new, deal)
<1> DEFINE result == {s} \union new
           seeds  == [r \in result \union DOMAIN seedMap |->
                        IF r \in result THEN {d \in seedMap[s] : deal[d] = r} ELSE seedMap[r]]
<1>0. SeedsOf(seedMap, Live)
  BY DEF IInv
<1>1. CASE IsSeeding(s)
  <2>1. DOMAIN seeds \subseteq Live \union new
    BY <1>0 DEF SeedsOf
  <2>2. \A x \in DOMAIN seeds : seeds[x] \subseteq Seed
    BY <1>0, <1>1 DEF SeedsOf, IsSeeding
  <2>3. \A x, y \in DOMAIN seeds : x # y => seeds[x] \intersect seeds[y] = {}
    BY <1>0, <1>1 DEF SeedsOf, IsSeeding
  <2>4. DealSeeds(s, result, deal) = WithSeeds(seeds)
    BY <1>1 DEF DealSeeds
  <2>6. \A x \in DOMAIN seedMap \ {s} : x \in DOMAIN seeds /\ seeds[x] # {}
    BY <1>0 DEF SeedsOf
  <2> HIDE DEF seeds
  <2>7. DOMAIN seedMap \ {s} \subseteq DOMAIN WithSeeds(seeds)
    BY <2>6 DEF WithSeeds, Restrict
  <2>5. SeedsOf(WithSeeds(seeds), Live \union new)
    BY <2>1, <2>2, <2>3 DEF SeedsOf, WithSeeds, Restrict
  <2> QED
    BY <2>4, <2>5, <2>7
<1>2. CASE ~IsSeeding(s)
  BY <1>0, <1>2 DEF DealSeeds, SeedsOf
<1> QED
  BY <1>1, <1>2

\* The steps of an instruction that fork, branch and terminate.
LEMMA InstructionStep == IInv /\ ExecuteInstruction => IInv' /\ PathStep
<1> SUFFICES ASSUME IInv, ExecuteInstruction PROVE IInv' /\ PathStep
  OBVIOUS
<1> PICK s \in Active : \/ TerminateState(s)
                        \/ \E newSide, atMaxDepth \in BOOLEAN, satisfied \in SUBSET Seed :
                             Fork(s, newSide, satisfied, atMaxDepth)
                        \/ \E n \in 0 .. MaxBranch : \E parent \in [1..n -> 0 .. MaxStates] : \E deal :
                             Branch(s, parent, deal)
  BY DEF ExecuteInstruction
<1>1. pc = "exec" /\ InStep
  BY DEF TerminateState, Fork, Branch, InStep
<1>b. Book
  BY DEF IInv
<1>2. s \in Live /\ s \notin removedStates
  BY <1>1, <1>b DEF Active, Book, StepSets, Live
<1>3. stateID \in Nat /\ stateID =< MaxStates /\ MaxStates \in Nat
  BY <1>b, ExecutorAssumption DEF Book
<1>r. /\ SeedsOf(seedMap, Live)
      /\ OnlyReplaySeeds /\ searcher = NoSearcher => Live \ removedStates \subseteq DOMAIN seedMap
  BY <1>1 DEF IInv, Replayed
<1>4. CASE TerminateState(s)
  <2> DEFINE new == (stateID + 1) .. stateID
  <2>0. new = {}
    BY <1>3
  <2>1. Terminate({s}, addedStates \union new, seedMap, tree, ptreeNode)
    BY <1>4, <2>0 DEF TerminateState
  <2>2. /\ UNCHANGED <<options, states, current, searcher, haltExecution>> /\ stateID' = stateID
        /\ InStep' /\ pc' \in {"exec", "crashed"}
    BY <1>1, <1>4 DEF TerminateState, InStep, CallSearcher
  <2>3. /\ stateID' \in Nat /\ stateID' =< MaxStates /\ stateID' >= stateID
        /\ new = (stateID + 1) .. stateID'
    BY <1>3, <2>2
  <2>4. /\ {s} \subseteq Live \union new
        /\ SeedsOf(seedMap, Live \union new)
        /\ OnlyReplaySeeds /\ searcher = NoSearcher
             => (Live \union new) \ (removedStates \union {s}) \subseteq DOMAIN seedMap
    BY <1>2, <1>r, <2>0
  <2> HIDE DEF new
  <2> QED
    BY <1>1, <2>0, <2>1, <2>2, <2>3, <2>4, TerminateStep
<1>5. CASE \E newSide, atMaxDepth \in BOOLEAN, satisfied \in SUBSET Seed : Fork(s, newSide, satisfied, atMaxDepth)
  <2> PICK newSide \in BOOLEAN, atMaxDepth \in BOOLEAN, satisfied \in SUBSET Seed :
        Fork(s, newSide, satisfied, atMaxDepth)
    BY <1>5
  <2> DEFINE S     == IF atMaxDepth THEN {s, stateID + 1} ELSE {}
             yes   == IF newSide THEN stateID + 1 ELSE s
             no    == IF newSide THEN s ELSE stateID + 1
             new   == {stateID + 1}
             seeds == SplitSeeds(s, yes, no, satisfied)
  <2>1. \E t, at : Terminate(S, addedStates \union new, seeds, t, at)
    BY DEF Fork
  <2>2. /\ UNCHANGED <<options, states, current, searcher, haltExecution>>
        /\ stateID' = stateID + 1 /\ stateID < MaxStates
        /\ InStep' /\ pc' \in {"exec", "crashed"}
    BY <1>1 DEF Fork, InStep, CallSearcher
  <2>3. /\ stateID' \in Nat /\ stateID' =< MaxStates /\ stateID' >= stateID
        /\ new = (stateID + 1) .. stateID'
        /\ S \subseteq Live \union new
    BY <1>2, <1>3, <2>2
  <2>4. yes # no /\ {yes, no} \intersect Live = {s} /\ {yes, no} = {s, stateID + 1}
    <3>1. stateID + 1 \notin Live
      BY <1>b, <1>3 DEF Book
    <3>2. CASE newSide
      BY <1>2, <3>1, <3>2
    <3>3. CASE ~newSide
      BY <1>2, <3>1, <3>3
    <3> QED
      BY <3>2, <3>3
  <2>5. /\ s \in DOMAIN seedMap => satisfied \subseteq seedMap[s]
        /\ s \in DOMAIN seedMap /\ OnlyReplaySeeds => satisfied # {} /\ satisfied # seedMap[s]
    BY DEF Fork, IsSeeding
  <2> HIDE DEF yes, no, S
  <2>6. SeedsOf(seeds, Live \union new)
    <3>1. s \in Live /\ yes # no /\ {yes, no} \intersect Live = {s}
      BY <1>2, <2>4
    <3>2. s \in DOMAIN seedMap => satisfied \subseteq seedMap[s]
      BY <2>5
    <3>3. SeedsOf(seeds, Live \union {yes, no})
      BY <3>1, <3>2, ForkSeeds
    <3>4. Live \union {yes, no} = Live \union new
      BY <1>2, <2>4
    <3> QED
      BY <3>3, <3>4
  <2>8. ASSUME s \in DOMAIN seedMap, OnlyReplaySeeds
        PROVE  DOMAIN seedMap \union new \subseteq DOMAIN seeds
    <3>1. satisfied \subseteq seedMap[s] /\ satisfied # {} /\ satisfied # seedMap[s]
      BY <2>5, <2>8
    <3>2. yes # no /\ s \in {yes, no} /\ new \subseteq {yes, no}
      BY <2>4
    <3>3. DOMAIN seedMap \union {yes, no} \subseteq DOMAIN seeds
      BY <3>1, <3>2, <2>8, ForkBothSeeded
    <3> HIDE DEF seeds, new
    <3> QED
      BY <3>2, <3>3
  <2>7. OnlyReplaySeeds /\ searcher = NoSearcher
          => (Live \union new) \ (removedStates \union S) \subseteq DOMAIN seeds
    BY <1>2, <1>r, <2>8
  <2> HIDE DEF new, seeds
  <2>9. Live \ removedStates # {}
    BY <1>2
  <2> QED
    BY <1>1, <2>1, <2>2, <2>3, <2>6, <2>7, <2>9, TerminateStep
<1>6. CASE \E n \in 0 .. MaxBranch : \E parent \in [1..n -> 0 .. MaxStates] : \E deal :
             Branch(s, parent, deal)
  <2> PICK n \in 0 .. MaxBranch : \E parent \in [1..n -> 0 .. MaxStates] : \E deal :
        Branch(s, parent, deal)
    BY <1>6
  <2> PICK parent \in [1..n -> 0 .. MaxStates] : \E deal : Branch(s, parent, deal)
    OBVIOUS
  <2> PICK deal : Branch(s, parent, deal)
    OBVIOUS
  <2> DEFINE new    == (stateID + 1) .. (stateID + Len(parent))
             result == {s} \union new
             seeds  == DealSeeds(s, result, deal)
             idle   == IF IsSeeding(s) /\ OnlyReplaySeeds THEN result \ DOMAIN seeds ELSE {}
  <2>0. Len(parent) \in Nat
    OBVIOUS
  <2>1. \E t, at : Terminate(idle, addedStates \union new, seeds, t, at)
    <3>1. Terminate(idle, addedStates \union new, seeds, Splits(parent)[1], Splits(parent)[2])
      BY DEF Branch
    <3> QED
      BY <3>1
  <2>2. /\ UNCHANGED <<options, states, current, searcher, haltExecution>>
        /\ stateID' = stateID + Len(parent) /\ stateID' =< MaxStates
        /\ InStep' /\ pc' \in {"exec", "crashed"}
    BY <1>1 DEF Branch, InStep, CallSearcher
  <2>3. /\ stateID' \in Nat /\ stateID' =< MaxStates /\ stateID' >= stateID
        /\ new = (stateID + 1) .. stateID'
    BY <1>3, <2>0, <2>2
  <2>4. new \intersect Live = {}
    BY <1>b, <1>3, <2>0 DEF Book
  <2> HIDE DEF new
  <2>5. SeedsOf(seeds, Live \union new) /\ DOMAIN seedMap \ {s} \subseteq DOMAIN seeds
    BY <1>2, <2>4, BranchSeeds
  <2> HIDE DEF seeds
  <2>6. OnlyReplaySeeds /\ searcher = NoSearcher
          => (Live \union new) \ (removedStates \union idle) \subseteq DOMAIN seeds
    BY <1>2, <1>r, <2>5 DEF IsSeeding
  <2>7. Live \ removedStates # {} /\ idle \subseteq Live \union new
    BY <1>2
  <2> HIDE DEF idle, result
  <2> QED
    BY <1>1, <2>1, <2>2, <2>3, <2>5, <2>6, <2>7, TerminateStep
<1> QED
  BY <1>4, <1>5, <1>6

\* The steps of run(), processTimers and updateStates.
LEMMA RunStepStep == IInv /\ RunStep => IInv' /\ PathStep
<1> SUFFICES ASSUME IInv, RunStep PROVE IInv' /\ PathStep
  OBVIOUS
<1>b. Book /\ Control /\ SeedsOf(seedMap, Live) /\ states # NoSearcher
  BY SearcherIsDistinct DEF IInv
<1>r. OnlyReplaySeeds /\ pc \in {"seeding", "exec", "update"} /\ searcher = NoSearcher
        => Live \ removedStates \subseteq DOMAIN seedMap
  BY DEF IInv, Replayed
<1>n. /\ stateID \in Nat /\ stateID =< MaxStates /\ removedStates \subseteq states
      /\ ~InStep => addedStates = {} /\ removedStates = {}
  BY <1>b DEF Book, StepSets
\* What these steps share: no state is added; merged ones are removed.
<1>0. ASSUME UNCHANGED <<options, stateID, states, addedStates, deleted, seedMap,
                         haltExecution>>,
             pc' \in {"seeding", "seeded", "search", "exec", "dump", "done"},
             ~InStep,
             IF pc' = "exec" THEN current' \in states /\ removedStates' \subseteq states
             ELSE current' = NoState /\ removedStates' = {},
             searcher' \in {NoSearcher, states},
             pc' \in {"seeding", "seeded", "dump", "done"} => searcher' = NoSearcher,
             pc' = "search" => searcher' # NoSearcher,
             Replayed(Live \ removedStates, seedMap)'
      PROVE  IInv' /\ PathStep
  <2>1. Book'
    BY <1>0, <1>b, <1>n DEF Book, StepSets, InStep, Live
  <2>2. Control' /\ SeedsOf(seedMap, Live)'
    BY <1>0, <1>b DEF Control, SeedsOf, Live
  <2>3. PathStep
    <3> DEFINE open  == Live \ removedStates
               ended == removedStates \union deleted
    <3>1. /\ Live = states /\ Live' = states
          /\ states \intersect deleted = {} /\ removedStates' \subseteq states
          /\ open = states /\ open' = open \ removedStates'
          /\ ended = deleted /\ ended' = ended \union removedStates'
      BY <1>0, <1>b, <1>n DEF Book, Live
    <3>2. CASE removedStates' = {}
      BY <3>1, <3>2 DEF PathStep, Paths!paths
    <3>3. CASE removedStates' # {}
      <4>1. open # {} /\ removedStates' \subseteq open \union {}
            /\ open' = (open \union {}) \ removedStates'
        BY <3>1, <3>3
      <4> QED
        BY <3>1, <4>1 DEF PathStep, Paths!Advance
    <3> QED
      BY <3>2, <3>3
  <2> QED
    BY <1>0, <2>1, <2>2, <2>3 DEF IInv
<1>1. CASE \E s \in DOMAIN seedMap : SelectSeeded(s)
  <2> PICK s \in DOMAIN seedMap : SelectSeeded(s)
    BY <1>1
  <2>1. pc = "seeding" /\ pc' = "exec" /\ current' = s /\ ~InStep
    BY DEF SelectSeeded, InStep
  <2>2. s \in states
    BY <1>b, <1>n, <2>1 DEF SeedsOf, Live
  <2>3. /\ UNCHANGED <<options, stateID, states, addedStates, removedStates, deleted, seedMap,
                       searcher, haltExecution>>
        /\ removedStates' = {}
    BY <1>n, <2>1 DEF SelectSeeded, sets
  <2>4. Replayed(Live \ removedStates, seedMap)'
    BY <1>r, <2>1, <2>3 DEF Replayed, Live, OnlyReplaySeeds
  <2> QED
    BY <1>0, <1>b, <2>1, <2>2, <2>3, <2>4 DEF Book, StepSets
<1>2. CASE LeaveSeeding \/ OnlySeed \/ StartSearch \/ EndSearch \/ EndRun
  <2>1. /\ pc \in {"start", "seeding", "seeded", "search", "dump"} /\ ~InStep
        /\ pc' \in {"seeded", "search", "dump", "done"} /\ current' = current
        /\ UNCHANGED <<options, stateID, states, addedStates, deleted, seedMap, haltExecution>>
        /\ removedStates' = removedStates
    BY <1>2 DEF LeaveSeeding, OnlySeed, StartSearch, EndSearch, EndRun, sets, InStep
  <2>2. /\ searcher' \in {NoSearcher, states}
        /\ pc' # "search" => searcher' = NoSearcher
        /\ pc' = "search" => searcher' # NoSearcher
    BY <1>2, <1>b DEF LeaveSeeding, OnlySeed, StartSearch, EndSearch, EndRun, Book
  <2>3. current' = NoState /\ removedStates' = {}
    BY <1>b, <2>1 DEF Book
  <2>4. Replayed(Live \ removedStates, seedMap)'
    BY <2>1 DEF Replayed
  <2> QED
    BY <1>0, <2>1, <2>2, <2>3, <2>4
<1>3. CASE \E s \in states, merged \in SUBSET states : SelectState(s, merged)
  <2> PICK s \in states, merged \in SUBSET states : SelectState(s, merged)
    BY <1>3
  <2>1. /\ pc = "search" /\ pc' = "exec" /\ current' = s /\ s \in searcher /\ ~InStep
        /\ removedStates' \subseteq states
    BY DEF SelectState, InStep
  <2>2. UNCHANGED <<options, stateID, states, addedStates, deleted, seedMap, searcher,
                    haltExecution>>
    BY DEF SelectState
  <2>3. Replayed(Live \ removedStates, seedMap)'
    BY <1>b, <2>1, <2>2 DEF Replayed, Book
  <2> QED
    BY <1>0, <1>b, <2>1, <2>2, <2>3 DEF Book, StepSets
<1>4. CASE \E tooLong \in BOOLEAN : ProcessTimers(tooLong)
  <2> PICK tooLong \in BOOLEAN : ProcessTimers(tooLong)
    BY <1>4
  <2> DEFINE S   == IF tooLong THEN {current} ELSE {}
             new == (stateID + 1) .. stateID
  <2>0. new = {}
    BY <1>n
  <2>1. Terminate(S, addedStates \union new, seedMap, tree, ptreeNode)
    BY <2>0 DEF ProcessTimers
  <2>2. /\ UNCHANGED <<options, stateID, states, current, searcher, haltExecution>>
        /\ pc = "exec" /\ InStep /\ InStep' /\ pc' \in {"update", "memory"}
        /\ pc' = "memory" => searcher # NoSearcher
    BY DEF ProcessTimers, InStep
  <2>3. /\ stateID' \in Nat /\ stateID' =< MaxStates /\ stateID' >= stateID
        /\ new = (stateID + 1) .. stateID'
    BY <1>n, <2>2
  <2>4. /\ S \subseteq Live \union new
        /\ SeedsOf(seedMap, Live \union new)
        /\ OnlyReplaySeeds /\ searcher = NoSearcher
             => (Live \union new) \ (removedStates \union S) \subseteq DOMAIN seedMap
    BY <1>b, <1>r, <2>0, <2>2 DEF Book, Live
  <2> HIDE DEF new, S
  <2> QED
    BY <2>0, <2>1, <2>2, <2>3, <2>4, TerminateStep
<1>5. CASE \E killed \in SUBSET states : CheckMemory(killed)
  <2> PICK killed \in SUBSET states : CheckMemory(killed)
    BY <1>5
  <2> DEFINE new == (stateID + 1) .. stateID
  <2>0. new = {}
    BY <1>n
  <2>1. Terminate(killed, addedStates \union new, seedMap, tree, ptreeNode)
    BY <2>0 DEF CheckMemory
  <2>2. /\ UNCHANGED <<options, stateID, states, current, searcher, haltExecution>>
        /\ pc = "memory" /\ InStep /\ InStep' /\ pc' = "update"
    BY DEF CheckMemory, InStep
  <2>3. /\ stateID' \in Nat /\ stateID' =< MaxStates /\ stateID' >= stateID
        /\ new = (stateID + 1) .. stateID'
    BY <1>n, <2>2
  <2>4. /\ killed \subseteq Live \union new
        /\ SeedsOf(seedMap, Live \union new)
        /\ searcher # NoSearcher
    BY <1>b, <2>0, <2>2 DEF Book, Live
  <2> HIDE DEF new
  <2> QED
    BY <2>0, <2>1, <2>2, <2>3, <2>4, TerminateStep
<1>6. CASE UpdateStates
  <2>1. /\ pc = "update" /\ pc' \in {"seeding", "seeded", "search"} /\ InStep /\ ~InStep'
        /\ states' = (states \union addedStates) \ removedStates
        /\ addedStates' = {} /\ removedStates' = {}
        /\ deleted' = deleted \union removedStates
        /\ seedMap' = Without(seedMap, removedStates)
        /\ current' = NoState
        /\ UNCHANGED <<options, stateID, haltExecution>>
    BY <1>6 DEF UpdateStates, InStep
  <2>2. /\ Live' = Live \ removedStates
        /\ (removedStates \union deleted)' = removedStates \union deleted
        /\ (Live \ removedStates)' = Live \ removedStates
    BY <2>1 DEF Live
  <2>3. states' # NoSearcher
    <3>1. states' \subseteq State
      BY <1>b, <1>n, <2>1, ExecutorAssumption DEF Book, Live, State
    <3> QED
      BY <3>1, ExecutorAssumption
  <2>4. /\ searcher' \in {NoSearcher, states'}
        /\ pc' = "search" => searcher' # NoSearcher
        /\ pc' # "search" => searcher' = NoSearcher /\ searcher = NoSearcher
    <3>1. CASE searcher = NoSearcher
      BY <1>6, <3>1 DEF UpdateStates
    <3>2. CASE searcher # NoSearcher
      BY <1>6, <1>b, <2>1, <2>3, <3>2 DEF UpdateStates, Book, StepSets
    <3> QED
      BY <3>1, <3>2
  <2>5. Book'
    <3>1. (Live \union deleted)' = 0 .. stateID' /\ (deleted \intersect Live)' = {}
      BY <1>b, <1>n, <2>1, <2>2 DEF Book, StepSets, Live
    <3> QED
      BY <1>b, <1>n, <2>1, <2>4, <3>1 DEF Book, StepSets, InStep
  <2>6. SeedsOf(seedMap, Live)'
    <3>1. SeedsOf(seedMap', Live')
      BY <1>b, <2>1, <2>2, WithoutSeeds
    <3> QED
      BY <3>1 DEF SeedsOf
  <2>7. Replayed(Live \ removedStates, seedMap)'
    <3>1. DOMAIN seedMap' = DOMAIN seedMap \ removedStates
      BY <1>b, <2>1, WithoutSeeds
    <3> QED
      BY <1>r, <2>1, <2>2, <2>4, <3>1 DEF Replayed, OnlyReplaySeeds
  <2>8. Control'
    BY <1>b, <2>1 DEF Control
  <2>9. PathStep
    BY <2>2 DEF PathStep, Paths!paths
  <2> QED
    BY <2>5, <2>6, <2>7, <2>8, <2>9 DEF IInv
<1>7. CASE Dump
  <2>1. /\ pc = "dump" /\ pc' = "done" /\ states' = {} /\ deleted' = deleted \union states
        /\ addedStates = {} /\ removedStates = {} /\ searcher = NoSearcher /\ current = NoState
        /\ seedMap' = Without(seedMap, states)
        /\ UNCHANGED <<options, stateID, addedStates, removedStates, searcher, current,
                       haltExecution>>
    BY <1>7, <1>b DEF Dump, Book, InStep
  <2>2. Live = states /\ Live' = Live \ states
    BY <2>1 DEF Live
  <2>3. Book'
    BY <1>b, <2>1, <2>2 DEF Book, StepSets, InStep, Live
  <2>4. SeedsOf(seedMap, Live)'
    <3>1. SeedsOf(seedMap', Live')
      BY <1>b, <2>1, <2>2, WithoutSeeds
    <3> QED
      BY <3>1 DEF SeedsOf
  <2>5. PathStep
    <3>1. CASE states = {}
      BY <2>1, <3>1 DEF PathStep, Paths!paths, Live
    <3>2. CASE states # {}
      BY <2>1, <3>2 DEF PathStep, Paths!Advance, Live
    <3> QED
      BY <3>1, <3>2
  <2>6. Control' /\ Replayed(Live \ removedStates, seedMap)'
    BY <1>b, <2>1 DEF Control, Replayed
  <2> QED
    BY <2>3, <2>4, <2>5, <2>6 DEF IInv
<1> QED
  BY <1>1, <1>2, <1>3, <1>4, <1>5, <1>6, <1>7 DEF RunStep

\* Every step preserves the invariant, and splits or ends paths or changes none.
LEMMA NextIInv == IInv /\ [Next]_vars => IInv' /\ PathStep
<1> SUFFICES ASSUME IInv, [Next]_vars PROVE IInv' /\ PathStep
  OBVIOUS
<1>1. CASE UNCHANGED <<options, pc, current, stateID, states, addedStates, removedStates,
                       deleted, seedMap, searcher>> /\ haltExecution' \in BOOLEAN
  <2>1. Book' /\ Control'
    BY <1>1 DEF IInv, Book, Control, StepSets, InStep, Live
  <2>2. SeedsOf(seedMap, Live)' /\ Replayed(Live \ removedStates, seedMap)'
    BY <1>1 DEF IInv, SeedsOf, Replayed, Live, OnlyReplaySeeds
  <2>3. PathStep
    BY <1>1 DEF PathStep, Paths!paths, Live
  <2> QED
    BY <2>1, <2>2, <2>3 DEF IInv
<1>2. CASE SetHaltExecution
  BY <1>1, <1>2 DEF SetHaltExecution, sets
<1>3. CASE UNCHANGED vars
  <2>1. haltExecution' \in BOOLEAN
    BY <1>3 DEF vars, IInv, Control
  <2> QED
    BY <1>1, <1>3, <2>1 DEF vars, sets
<1> QED
  BY <1>2, <1>3, InstructionStep, RunStepStep DEF Next

\* The invariant holds in every state a run reaches.
LEMMA IInvAlways == Init /\ [][Next]_vars => []IInv
BY InitIInv, NextIInv, PTL

\* Types, for any number of states and seeds: a step has a current state, which stays
\* in states until the step ends, and every id given is of a state that is live or deleted.
THEOREM TypeCorrect == Spec => []TypeOK
<1>1. IInv => TypeOK
  <2> SUFFICES ASSUME IInv PROVE TypeOK
    OBVIOUS
  <2>1. Control /\ Book /\ SeedsOf(seedMap, Live)
    BY DEF IInv
  <2>2. searcher \in {NoSearcher} \union SUBSET State
    BY <2>1, SearcherIsDistinct DEF Book, StepSets
  <2>3. DOMAIN seedMap \subseteq State
    BY <2>1, ExecutorAssumption DEF SeedsOf, Book, Live, State
  <2>4. Range(seedMap) \subseteq SUBSET Seed
    BY <2>1 DEF SeedsOf, Range
  <2>5. stateID \in 0 .. MaxStates
    BY <2>1, ExecutorAssumption DEF Book
  <2> QED
    BY <2>1, <2>2, <2>3, <2>4, <2>5 DEF TypeOK, Control, Book, InStep
<1> QED
  BY <1>1, IInvAlways, PTL DEF Spec

\* addedStates and removedStates stay apart and the searcher knows the executor's states
\* (the comments of Executor.h and the assert of updateStates).
THEOREM SetsOfStates == Spec => []StepSets
<1>1. IInv => StepSets
  BY DEF IInv, Book
<1> QED
  BY <1>1, IInvAlways, PTL DEF Spec

\* A seed drives one state, an entry of seedMap has seeds, and only-replay-seeds leaves
\* no open path without one (fork, branch, terminateState and updateStates).
THEOREM EverySeedOnce == Spec => []SeedsHeld
<1>1. IInv => SeedsHeld
  BY DEF IInv, SeedsOf, Replayed, SeedsHeld
<1> QED
  BY <1>1, IInvAlways, PTL DEF Spec

\* run() loses no path: each is open until it is terminated, and accounted for after.
THEOREM NoPathLost == Spec => PathSpec
<1>1. Init => Paths!Init
  BY DEF Init, Paths!Init, Live
<1> QED
  BY <1>1, InitIInv, NextIInv, PTL DEF Spec, PathSpec, Paths!Spec, PathStep

-------------------------------------------------------------------------------
(* Sets of numbers.                                                        *)

\* A set of numbers has a least element: the loop of branch() is followed by it.
LEMMA LeastNumber ==
  ASSUME NEW T \in SUBSET Nat, T # {}
  PROVE  \E m \in T : \A k \in T : m <= k
<1> DEFINE Below == {0 .. k : k \in T}
<1>1. Below \subseteq FiniteSubsetsOf(Nat)
  <2>1. ASSUME NEW k \in T PROVE 0 .. k \in SUBSET Nat /\ IsFiniteSet(0 .. k)
    BY FS_Interval
  <2> QED
    BY <2>1 DEF FiniteSubsetsOf
<1>2. PICK B \in Below : \A C \in Below : ~(<<C, B>> \in StrictSubsetOrdering(Nat))
  <2>1. Below # {}
    OBVIOUS
  <2>2. IsWellFoundedOn(StrictSubsetOrdering(Nat), FiniteSubsetsOf(Nat))
    BY FS_StrictSubsetOrderingWellFounded
  <2> HIDE DEF Below
  <2> QED
    BY <1>1, <2>1, <2>2, WFMin
<1>3. PICK m \in T : B = 0 .. m
  OBVIOUS
<1>4. ASSUME NEW k \in T PROVE m <= k
  <2>1. SUFFICES ASSUME k < m PROVE FALSE
    OBVIOUS
  <2>2. 0 .. k \subseteq 0 .. m /\ 0 .. k # 0 .. m /\ 0 .. k \in SUBSET Nat /\ 0 .. m \in SUBSET Nat
    <3>1. m \in 0 .. m /\ m \notin 0 .. k
      BY <2>1
    <3> QED
      BY <2>1, <3>1
  <2>3. 0 .. k \in Below
    OBVIOUS
  <2> QED
    BY <1>2, <1>3, <2>2, <2>3 DEF StrictSubsetOrdering
<1> QED
  BY <1>4

-------------------------------------------------------------------------------
(* The process tree.  A node is the path to it.                            *)

Node == Seq({0, 1})

HasChild(t, n) == \E i \in {0, 1} : Append(n, i) \in DOMAIN t

\* The tree t of the states live, each at its node: parents of nodes are nodes, and
\* the leaves and the states point to each other.
TreeOf(t, at, live) ==
  /\ DOMAIN t \subseteq Node
  /\ \A m \in DOMAIN t, n \in Node : IsPrefix(n, m) => n \in DOMAIN t
  /\ live \subseteq DOMAIN at
  /\ \A s \in live : at[s] \in DOMAIN t /\ t[at[s]] = s
  /\ \A n \in DOMAIN t : IF HasChild(t, n) THEN t[n] = NoState
                         ELSE t[n] \in live /\ at[t[n]] = n

\* A prefix, element by element.
LEMMA PrefixIs ==
  ASSUME NEW n \in Node, NEW m \in Node
  PROVE  IsPrefix(n, m) <=> Len(n) <= Len(m) /\ \A k \in 1 .. Len(n) : n[k] = m[k]
<1>1. Len(n) \in Nat /\ Len(m) \in Nat
  BY LenProperties DEF Node
<1>2. SubSeq(n, 1, Len(n)) = n
  BY SubSeqFull DEF Node
<1>3. CASE Len(n) <= Len(m)
  <2> DEFINE p == SubSeq(m, 1, Len(n))
  <2>1. \A i \in 1 .. Len(n) : m[i] \in {0, 1}
    <3>1. \A i \in 1 .. Len(m) : m[i] \in {0, 1}
      BY ElementOfSeq DEF Node
    <3> QED
      BY <1>1, <1>3, <3>1
  <2>2. /\ p \in Node /\ Len(p) = (IF 1 <= Len(n) THEN Len(n) - 1 + 1 ELSE 0)
        /\ \A i \in 1 .. Len(n) - 1 + 1 : p[i] = m[1 + i - 1]
    BY <1>1, <2>1, SubSeqProperties DEF Node
  <2> HIDE DEF p
  <2>3. Len(p) = Len(n) /\ \A i \in 1 .. Len(n) : p[i] = m[i]
    BY <1>1, <2>2
  <2>4. n = p <=> \A k \in 1 .. Len(n) : n[k] = m[k]
    <3>1. ASSUME \A k \in 1 .. Len(n) : n[k] = m[k] PROVE n = p
      BY <2>2, <2>3, <3>1, SeqEqual DEF Node
    <3> QED
      BY <2>3, <3>1
  <2> QED
    BY <1>2, <1>3, <2>4 DEF IsPrefix, p
<1>4. CASE ~(Len(n) <= Len(m))
  BY <1>4 DEF IsPrefix
<1> QED
  BY <1>3, <1>4

\* The children of a node.
LEMMA Child ==
  ASSUME NEW n \in Node, NEW i \in {0, 1}
  PROVE  /\ Append(n, i) \in Node /\ IsPrefix(n, Append(n, i)) /\ Append(n, i) # n
         /\ \A m \in Node, j \in {0, 1} : Append(m, j) = Append(n, i) => m = n /\ j = i
         /\ \A m \in Node : IsPrefix(m, Append(n, i)) => IsPrefix(m, n) \/ m = Append(n, i)
<1> DEFINE c == Append(n, i)
<1>1. /\ c \in Node /\ Len(c) = Len(n) + 1 /\ Len(n) \in Nat
      /\ \A k \in 1 .. Len(n) : c[k] = n[k]
      /\ c[Len(n) + 1] = i
  BY AppendProperties, LenProperties DEF Node
<1>3. ASSUME NEW m \in Node, NEW j \in {0, 1}, Append(m, j) = c PROVE m = n /\ j = i
  BY <1>3, AppendProperties DEF Node
<1> HIDE DEF c
<1>2. IsPrefix(n, c) /\ c # n
  <2>1. Len(n) <= Len(c) /\ Len(n) # Len(c) /\ \A k \in 1 .. Len(n) : n[k] = c[k]
    BY <1>1
  <2> QED
    BY <1>1, <2>1, PrefixIs
<1>4. ASSUME NEW m \in Node, IsPrefix(m, c) PROVE IsPrefix(m, n) \/ m = c
  <2>1. Len(m) \in Nat /\ Len(m) <= Len(c) /\ \A k \in 1 .. Len(m) : m[k] = c[k]
    BY <1>1, <1>4, PrefixIs, LenProperties DEF Node
  <2>2. CASE Len(m) = Len(c)
    BY <1>1, <2>1, <2>2, SeqEqual DEF Node
  <2>3. CASE Len(m) <= Len(n)
    BY <1>1, <2>1, <2>3, PrefixIs
  <2> QED
    BY <1>1, <2>1, <2>2, <2>3
<1> QED
  BY <1>1, <1>2, <1>3, <1>4 DEF c

\* The next node on the way from n down to m.
LEMMA NextDown ==
  ASSUME NEW n \in Node, NEW m \in Node, IsPrefix(n, m), n # m
  PROVE  \E i \in {0, 1} : IsPrefix(Append(n, i), m)
<1>1. /\ Len(n) \in Nat /\ Len(m) \in Nat /\ Len(n) <= Len(m)
      /\ \A k \in 1 .. Len(n) : n[k] = m[k]
  BY PrefixIs, LenProperties DEF Node
<1>2. Len(n) < Len(m)
  <2>1. Len(n) # Len(m)
    BY <1>1, SeqEqual DEF Node
  <2> QED
    BY <1>1, <2>1
<1> DEFINE i == m[Len(n) + 1]
           c == Append(n, i)
<1>3. i \in {0, 1}
  BY <1>1, <1>2, ElementOfSeq DEF Node
<1> HIDE DEF i
<1>4. /\ c \in Node /\ Len(c) = Len(n) + 1
      /\ \A k \in 1 .. Len(n) : c[k] = n[k]
      /\ c[Len(n) + 1] = i
  BY <1>1, <1>3, AppendProperties DEF Node
<1> HIDE DEF c
<1>5. \A k \in 1 .. Len(c) : c[k] = m[k]
  <2> SUFFICES ASSUME NEW k \in 1 .. Len(n) + 1 PROVE c[k] = m[k]
    BY <1>4
  <2>1. CASE k = Len(n) + 1
    BY <1>4, <2>1 DEF i
  <2>2. CASE k # Len(n) + 1
    <3>1. k \in 1 .. Len(n)
      BY <1>1, <2>2
    <3> QED
      BY <1>1, <1>4, <3>1
  <2> QED
    BY <2>1, <2>2
<1>6. IsPrefix(c, m)
  BY <1>1, <1>2, <1>4, <1>5, PrefixIs
<1> QED
  BY <1>3, <1>6 DEF c

\* Prefixes of prefixes.
LEMMA PrefixTransitive ==
  ASSUME NEW l \in Node, NEW n \in Node, NEW m \in Node, IsPrefix(l, n), IsPrefix(n, m)
  PROVE  IsPrefix(l, m)
<1>1. Len(l) \in Nat /\ Len(n) \in Nat /\ Len(m) \in Nat
  BY LenProperties DEF Node
<1>2. /\ Len(l) <= Len(n) /\ \A k \in 1 .. Len(l) : l[k] = n[k]
      /\ Len(n) <= Len(m) /\ \A k \in 1 .. Len(n) : n[k] = m[k]
  BY PrefixIs
<1>3. Len(l) <= Len(m) /\ \A k \in 1 .. Len(l) : l[k] = m[k]
  BY <1>1, <1>2
<1> QED
  BY <1>3, PrefixIs

\* PTree::split: the state at a leaf and the new one become its children.
LEMMA SplitTree ==
  ASSUME NEW t, NEW at, NEW live, TreeOf(t, at, live), NEW s \in live, NEW new,
         new \notin live, NoState \notin live, NoState # new,
         NEW yes, NEW no, yes # no, {yes, no} = {s, new}
  PROVE  TreeOf(SplitNode(t, at[s], no, yes),
                Put(Put(at, no, Append(at[s], 0)), yes, Append(at[s], 1)), live \union {new})
<1> DEFINE n  == at[s]
           l  == Append(n, 0)
           r  == Append(n, 1)
           T  == SplitNode(t, n, no, yes)
           At == Put(Put(at, no, l), yes, r)
<1>1. n \in DOMAIN t /\ t[n] = s /\ n \in Node /\ ~HasChild(t, n)
  BY DEF TreeOf
<1>2. /\ l \in Node /\ r \in Node /\ l # n /\ r # n /\ l # r
      /\ l \notin DOMAIN t /\ r \notin DOMAIN t
  <2>1. l \notin DOMAIN t /\ r \notin DOMAIN t
    BY <1>1 DEF HasChild
  <2> QED
    BY <1>1, <2>1, Child
<1>3. \A m \in Node, i \in {0, 1} : Append(m, i) \in {l, r} => m = n
  BY <1>1, Child
<1>4. \A m \in Node : IsPrefix(m, l) \/ IsPrefix(m, r) => IsPrefix(m, n) \/ m \in {l, r}
  BY <1>1, Child
<1>5. n = at[s] /\ l = Append(n, 0) /\ r = Append(n, 1)
  OBVIOUS
<1> HIDE DEF n, l, r
<1>6. /\ DOMAIN T = DOMAIN t \union {l, r}
      /\ T[n] = NoState /\ T[l] = no /\ T[r] = yes
      /\ \A m \in DOMAIN t \ {n} : T[m] = t[m]
  BY <1>1, <1>2, <1>5 DEF SplitNode, Put
<1>7. /\ DOMAIN At = DOMAIN at \union {no, yes}
      /\ At[no] = l /\ At[yes] = r
      /\ \A x \in DOMAIN at \ {no, yes} : At[x] = at[x]
  BY DEF Put
<1> HIDE DEF T, At
<1>8. DOMAIN T \subseteq Node
  BY <1>2, <1>6 DEF TreeOf
<1>9. ASSUME NEW m \in DOMAIN T, NEW p \in Node, IsPrefix(p, m) PROVE p \in DOMAIN T
  <2>1. CASE m \in DOMAIN t
    BY <1>6, <1>9, <2>1 DEF TreeOf
  <2>2. CASE m \in {l, r}
    BY <1>1, <1>4, <1>6, <1>9, <2>2 DEF TreeOf
  <2> QED
    BY <1>6, <2>1, <2>2
<1>10. ASSUME NEW x \in live \union {new} PROVE At[x] \in DOMAIN T /\ T[At[x]] = x
  <2>1. CASE x \in {yes, no}
    BY <1>6, <1>7, <2>1
  <2>2. CASE x \notin {yes, no}
    <3>1. x \in live /\ x # s /\ x \in DOMAIN at /\ at[x] \in DOMAIN t /\ t[at[x]] = x
      BY <2>2 DEF TreeOf
    <3> QED
      BY <1>1, <1>6, <1>7, <2>2, <3>1
  <2> QED
    BY <2>1, <2>2
<1>11. ASSUME NEW m \in DOMAIN T
       PROVE  IF HasChild(T, m) THEN T[m] = NoState
              ELSE T[m] \in live \union {new} /\ At[T[m]] = m
  <2>1. CASE m = n
    <3>1. HasChild(T, n)
      BY <1>5, <1>6 DEF HasChild
    <3> QED
      BY <1>6, <2>1, <3>1
  <2>2. CASE m \in {l, r}
    <3>1. ~HasChild(T, m)
      <4> SUFFICES ASSUME NEW i \in {0, 1}, Append(m, i) \in DOMAIN T PROVE FALSE
        BY DEF HasChild
      <4>1. m \in Node /\ Append(m, i) \in Node /\ IsPrefix(m, Append(m, i))
        BY <1>2, <2>2, Child
      <4>2. Append(m, i) \notin DOMAIN t
        BY <1>2, <2>2, <4>1 DEF TreeOf
      <4>3. Append(m, i) \notin {l, r}
        BY <1>2, <1>3, <2>2, <4>1
      <4> QED
        BY <1>6, <4>2, <4>3
    <3> QED
      BY <1>6, <1>7, <2>2, <3>1
  <2>3. CASE m \in DOMAIN t /\ m # n
    <3>1. HasChild(T, m) <=> HasChild(t, m)
      BY <1>3, <1>6, <1>8, <2>3 DEF HasChild
    <3>2. T[m] = t[m]
      BY <1>6, <2>3
    <3>3. CASE HasChild(t, m)
      BY <2>3, <3>1, <3>2, <3>3 DEF TreeOf
    <3>4. CASE ~HasChild(t, m)
      <4>1. t[m] \in live /\ at[t[m]] = m
        BY <2>3, <3>4 DEF TreeOf
      <4>2. t[m] \notin {yes, no}
        BY <1>5, <2>3, <4>1
      <4>3. t[m] \in DOMAIN at
        BY <4>1 DEF TreeOf
      <4> QED
        BY <1>7, <3>1, <3>2, <3>4, <4>1, <4>2, <4>3
    <3> QED
      BY <3>3, <3>4
  <2> QED
    BY <1>6, <2>1, <2>2, <2>3
<1>12. live \union {new} \subseteq DOMAIN At
  BY <1>7 DEF TreeOf
<1>13. TreeOf(T, At, live \union {new})
  BY <1>8, <1>9, <1>10, <1>11, <1>12 DEF TreeOf
<1> QED
  BY <1>13 DEF T, At, n, l, r

\* PTree::remove for the states gone: what is left is the tree of the others.
LEMMA RemoveTree ==
  ASSUME NEW t, NEW at, NEW live, TreeOf(t, at, live), NEW gone \in SUBSET live,
         NoState \notin live
  PROVE  TreeOf(RemoveNodes(t, {at[s] : s \in gone}), Without(at, gone), live \ gone)
<1> DEFINE N  == {at[s] : s \in gone}
           T  == RemoveNodes(t, N)
           At == Without(at, gone)
           Kept(n) == \E m \in DOMAIN t \ N : IsPrefix(n, m) /\ ~HasChild(t, m)
<1>1. /\ DOMAIN T = {n \in DOMAIN t : Kept(n)}
      /\ \A n \in DOMAIN T : T[n] = t[n]
  BY DEF RemoveNodes, Restrict, HasChild
<1>2. DOMAIN At = DOMAIN at \ gone /\ \A x \in DOMAIN at \ gone : At[x] = at[x]
  BY DEF Without, Restrict
<1>3. \A n \in DOMAIN t : t[n] \in gone /\ ~HasChild(t, n) => n \in N
  BY DEF TreeOf
<1>4. \A x \in live : at[x] \in N => x \in gone
  BY DEF TreeOf
<1>5. \A x \in live : ~HasChild(t, at[x])
  BY DEF TreeOf
<1> HIDE DEF N, T, At
<1>6. DOMAIN T \subseteq Node /\ DOMAIN T \subseteq DOMAIN t
  BY <1>1 DEF TreeOf
<1>7. ASSUME NEW m \in DOMAIN T, NEW p \in Node, IsPrefix(p, m) PROVE p \in DOMAIN T
  <2>1. PICK k \in DOMAIN t \ N : IsPrefix(m, k) /\ ~HasChild(t, k)
    BY <1>1
  <2>2. IsPrefix(p, k)
    BY <1>6, <1>7, <2>1, PrefixTransitive DEF TreeOf
  <2>3. p \in DOMAIN t
    BY <2>1, <2>2 DEF TreeOf
  <2> QED
    BY <1>1, <2>1, <2>2, <2>3
<1>8. ASSUME NEW x \in live \ gone PROVE x \in DOMAIN At /\ At[x] \in DOMAIN T /\ T[At[x]] = x
  <2>1. x \in DOMAIN at /\ at[x] \in DOMAIN t /\ t[at[x]] = x /\ at[x] \in Node
    BY DEF TreeOf
  <2>2. at[x] \notin N /\ ~HasChild(t, at[x])
    BY <1>4, <1>5
  <2>3. IsPrefix(at[x], at[x])
    BY <2>1, PrefixIs, LenProperties DEF Node
  <2>4. at[x] \in DOMAIN T
    BY <1>1, <2>1, <2>2, <2>3
  <2> QED
    BY <1>1, <1>2, <2>1, <2>4
<1>9. ASSUME NEW n \in DOMAIN T
      PROVE  IF HasChild(T, n) THEN T[n] = NoState
             ELSE T[n] \in live \ gone /\ At[T[n]] = n
  <2>1. CASE HasChild(T, n)
    <3>1. HasChild(t, n)
      BY <1>6, <2>1 DEF HasChild
    <3> QED
      BY <1>1, <1>6, <2>1, <3>1 DEF TreeOf
  <2>2. CASE ~HasChild(T, n)
    <3>1. PICK m \in DOMAIN t \ N : IsPrefix(n, m) /\ ~HasChild(t, m)
      BY <1>1
    <3>2. n = m
      <4> SUFFICES ASSUME n # m PROVE FALSE
        OBVIOUS
      <4>1. n \in Node /\ m \in Node
        BY <1>6 DEF TreeOf
      <4>2. PICK i \in {0, 1} : IsPrefix(Append(n, i), m)
        BY <3>1, <4>1, NextDown
      <4>3. Append(n, i) \in DOMAIN t
        BY <4>1, <4>2, Child DEF TreeOf
      <4>4. Append(n, i) \in DOMAIN T
        BY <1>1, <3>1, <4>2, <4>3
      <4> QED
        BY <2>2, <4>4 DEF HasChild
    <3>3. t[n] \in live /\ at[t[n]] = n /\ t[n] \notin gone
      BY <1>3, <3>1, <3>2 DEF TreeOf
    <3>4. t[n] \in DOMAIN at
      BY <3>3 DEF TreeOf
    <3> QED
      BY <1>1, <1>2, <2>2, <3>3, <3>4
  <2> QED
    BY <2>1, <2>2
<1>10. TreeOf(T, At, live \ gone)
  BY <1>6, <1>7, <1>8, <1>9 DEF TreeOf
<1> QED
  BY <1>10 DEF N, T, At

-------------------------------------------------------------------------------
(* branch() splits one node after the other.                               *)

\* The k-th split of branch(), of the tree and the nodes of the states in x.
SplitOne(parent, k, x) ==
  LET t  == x[1]
      at == x[2]
      es == parent[k]
      n  == at[es]
  IN  <<SplitNode(t, n, stateID + k, es),
        Put(Put(at, stateID + k, Append(n, 0)), es, Append(n, 1))>>

\* The trees after each of the splits up to the n-th.
UpTo(parent, n, f) ==
  f = [k \in 0 .. n |-> IF k = 0 THEN <<tree, ptreeNode>> ELSE SplitOne(parent, k, f[k-1])]

\* The loop of branch() has a result.
LEMMA SplitsExist ==
  ASSUME NEW parent, Len(parent) \in Nat
  PROVE  \E f : UpTo(parent, Len(parent), f) /\ Splits(parent) = f[Len(parent)]
<1> DEFINE bad == {n \in Nat : ~ \E f : UpTo(parent, n, f)}
<1>1. ASSUME NEW n \in bad, \A k \in bad : n <= k PROVE FALSE
  <2>1. CASE n = 0
    <3> DEFINE f == [k \in 0 .. 0 |-> <<tree, ptreeNode>>]
    <3>1. UpTo(parent, 0, f)
      BY DEF UpTo
    <3> QED
      BY <2>1, <3>1
  <2>2. CASE n # 0
    <3>1. n - 1 \in Nat /\ ~(n <= n - 1) /\ n \in Nat
      BY <2>2
    <3>2. PICK f : UpTo(parent, n - 1, f)
      BY <1>1, <3>1
    <3> DEFINE g == [k \in 0 .. n |-> IF k = n THEN SplitOne(parent, n, f[n-1]) ELSE f[k]]
               h == [k \in 0 .. n |-> IF k = 0 THEN <<tree, ptreeNode>>
                                      ELSE SplitOne(parent, k, g[k-1])]
    <3>3. ASSUME NEW k \in 0 .. n PROVE g[k] = h[k]
      <4>1. CASE k = n
        <5>1. n - 1 \in 0 .. n /\ n - 1 # n
          BY <3>1
        <5>2. g[n-1] = f[n-1]
          BY <5>1
        <5>3. h[n] = SplitOne(parent, n, g[n-1])
          BY <2>2, <3>1
        <5>4. g[n] = SplitOne(parent, n, f[n-1])
          BY <3>1
        <5> HIDE DEF g, h
        <5> QED
          BY <4>1, <5>2, <5>3, <5>4
      <4>2. CASE k # n
        <5>1. k \in 0 .. n - 1
          BY <3>1, <4>2
        <5>2. f[k] = IF k = 0 THEN <<tree, ptreeNode>> ELSE SplitOne(parent, k, f[k-1])
          BY <3>2, <5>1 DEF UpTo
        <5>3. g[k] = f[k]
          BY <4>2
        <5>4. k # 0 => k - 1 \in 0 .. n /\ k - 1 # n
          BY <3>1, <5>1
        <5>5. k # 0 => g[k-1] = f[k-1]
          BY <5>4
        <5>6. h[k] = IF k = 0 THEN <<tree, ptreeNode>> ELSE SplitOne(parent, k, g[k-1])
          OBVIOUS
        <5> HIDE DEF g, h
        <5> QED
          BY <5>2, <5>3, <5>5, <5>6
      <4> QED
        BY <4>1, <4>2
    <3>4. g = h
      BY <3>3
    <3>5. UpTo(parent, n, g)
      BY <3>4 DEF UpTo
    <3> HIDE DEF g
    <3> QED
      BY <3>5
  <2> QED
    BY <2>1, <2>2
<1>2. bad = {}
  <2>1. bad \in SUBSET Nat
    OBVIOUS
  <2> HIDE DEF bad
  <2> QED
    BY <1>1, <2>1, LeastNumber
<1>3. \E f : UpTo(parent, Len(parent), f)
  BY <1>2
<1> DEFINE after == CHOOSE f : UpTo(parent, Len(parent), f)
<1>4. UpTo(parent, Len(parent), after)
  BY <1>3
<1>5. Splits(parent) = after[Len(parent)]
  BY DEF Splits, UpTo, SplitOne
<1> HIDE DEF after
<1> QED
  BY <1>4, <1>5

\* After all splits the tree is that of the old states and the new ones.
LEMMA SplitsTree ==
  ASSUME Book, TreeOf(tree, ptreeNode, Live), NEW s \in Live, NEW parent, Len(parent) \in Nat,
         \A k \in 1 .. Len(parent) : parent[k] \in {s} \union (stateID + 1) .. (stateID + k - 1),
         stateID + Len(parent) =< MaxStates
  PROVE  TreeOf(Splits(parent)[1], Splits(parent)[2],
                Live \union (stateID + 1) .. (stateID + Len(parent)))
<1>1. PICK f : UpTo(parent, Len(parent), f) /\ Splits(parent) = f[Len(parent)]
  BY SplitsExist
<1> DEFINE L       == Len(parent)
           live(k) == Live \union (stateID + 1) .. (stateID + k)
           bad     == {k \in 0 .. L : ~TreeOf(f[k][1], f[k][2], live(k))}
<1>2. /\ stateID \in Nat /\ L \in Nat /\ stateID + L =< MaxStates /\ Live \subseteq 0 .. stateID
      /\ MaxStates \in Nat /\ NoState \notin 0 .. MaxStates
  BY ExecutorAssumption DEF Book, State
<1>3. f[0] = <<tree, ptreeNode>>
  BY <1>1 DEF UpTo
<1>4. ASSUME NEW k \in bad, \A j \in bad : k <= j PROVE FALSE
  <2>1. CASE k = 0
    <3>1. live(0) = Live
      <4>1. (stateID + 1) .. (stateID + 0) = {}
        BY <1>2
      <4> QED
        BY <4>1
    <3>2. f[0][1] = tree /\ f[0][2] = ptreeNode
      BY <1>3
    <3> HIDE DEF live
    <3> QED
      BY <1>4, <2>1, <3>1, <3>2
  <2>2. CASE k # 0
    <3>1. k - 1 \in 0 .. L /\ k \in 1 .. L /\ ~(k <= k - 1)
      BY <1>2, <2>2
    <3>2. TreeOf(f[k-1][1], f[k-1][2], live(k-1))
      BY <1>4, <3>1
    <3> DEFINE new == stateID + k
    <3>3. /\ new \notin live(k-1) /\ NoState \notin live(k-1) /\ NoState # new
          /\ live(k) = live(k-1) \union {new}
      <4>1. new \in Nat /\ new \in 0 .. MaxStates /\ stateID + (k - 1) = new - 1
        BY <1>2, <3>1
      <4>2. live(k-1) \subseteq 0 .. (new - 1)
        <5>1. 0 .. stateID \subseteq 0 .. (new - 1)
          BY <1>2, <3>1
        <5>2. (stateID + 1) .. (new - 1) \subseteq 0 .. (new - 1)
          BY <1>2
        <5> QED
          BY <1>2, <4>1, <5>1, <5>2
      <4>3. NoState \notin live(k-1) /\ NoState # new
        <5>1. live(k-1) \subseteq 0 .. MaxStates
          BY <1>2, <4>1, <4>2
        <5> QED
          BY <1>2, <4>1, <5>1
      <4>4. (stateID + 1) .. new = (stateID + 1) .. (new - 1) \union {new}
        <5>1. \A x \in Int : x \in (stateID + 1) .. new
                             <=> x \in (stateID + 1) .. (new - 1) \/ x = new
          BY <1>2, <3>1
        <5> HIDE DEF new
        <5> QED
          BY <4>1, <5>1
      <4> QED
        BY <4>1, <4>2, <4>3, <4>4
    <3>4. parent[k] \in live(k-1)
      <4>1. stateID + k - 1 = stateID + (k - 1)
        BY <1>2, <3>1
      <4> QED
        BY <3>1, <4>1
    <3>5. f[k] = SplitOne(parent, k, f[k-1])
      BY <1>1, <2>2, <3>1 DEF UpTo
    <3> DEFINE at == f[k-1][2]
               n  == at[parent[k]]
    <3>6. /\ f[k][1] = SplitNode(f[k-1][1], n, new, parent[k])
          /\ f[k][2] = Put(Put(at, new, Append(n, 0)), parent[k], Append(n, 1))
      BY <3>5 DEF SplitOne
    <3> DEFINE t    == f[k-1][1]
               es   == parent[k]
               held == live(k-1)
    <3>9. /\ TreeOf(t, at, held) /\ es \in held /\ n = at[es]
          /\ new \notin held /\ NoState \notin held /\ NoState # new /\ es # new
      BY <3>2, <3>3, <3>4
    <3>8. TreeOf(f[k][1], f[k][2], live(k-1) \union {new})
      <4> HIDE DEF live, new, at, n, t, es, held
      <4>1. TreeOf(SplitNode(t, at[es], new, es),
                   Put(Put(at, new, Append(at[es], 0)), es, Append(at[es], 1)),
                   held \union {new})
        BY <3>9, SplitTree
      <4> QED
        BY <3>6, <3>9, <4>1 DEF t, es, held
    <3> HIDE DEF new
    <3> QED
      BY <3>3, <3>8
  <2> QED
    BY <2>1, <2>2
<1>5. bad = {}
  <2>1. bad \in SUBSET Nat
    BY <1>2
  <2> HIDE DEF bad
  <2> QED
    BY <1>4, <2>1, LeastNumber
<1>6. TreeOf(f[L][1], f[L][2], live(L))
  <2>1. L \in 0 .. L
    BY <1>2
  <2> HIDE DEF live, L
  <2> QED
    BY <1>5, <2>1
<1> QED
  BY <1>1, <1>6

\* terminateState for the states S, after an instruction added the states new.
LEMMA TerminateTree ==
  ASSUME Book, NEW S, NEW new, NEW seeds, NEW t, NEW at,
         Terminate(S, addedStates \union new, seeds, t, at), UNCHANGED states,
         new \intersect states = {}, NoState \notin Live \union new,
         TreeOf(t, at, Live \union new)
  PROVE  TreeOf(tree, ptreeNode, Live)'
<1> DEFINE gone == S \intersect (addedStates \union new)
<1>1. /\ tree' = RemoveNodes(t, {at[s] : s \in gone})
      /\ ptreeNode' = Without(at, gone)
      /\ addedStates' = (addedStates \union new) \ S
  BY DEF Terminate
<1>2. gone \in SUBSET (Live \union new) /\ Live' = (Live \union new) \ gone
  BY <1>1 DEF Book, Live
<1> HIDE DEF gone
<1>3. TreeOf(tree', ptreeNode', Live')
  BY <1>1, <1>2, RemoveTree
<1> QED
  BY <1>3 DEF TreeOf, HasChild

\* The process tree is that of the executor's states.
TInv == IInv /\ TreeOf(tree, ptreeNode, Live)

\* The tree of the first state.
LEMMA InitTree == Init => TInv
<1> SUFFICES ASSUME Init PROVE TInv
  OBVIOUS
<1>1. tree = [n \in {<<>>} |-> 0] /\ ptreeNode = [s \in {0} |-> <<>>] /\ Live = {0}
  BY DEF Init, Root, Live
<1>2. <<>> \in Node /\ Len(<<>>) = 0
  BY EmptySeq DEF Node
<1>3. ASSUME NEW n \in Node, IsPrefix(n, <<>>) PROVE n = <<>>
  <2>1. Len(n) <= 0 /\ Len(n) \in Nat
    BY <1>2, <1>3, PrefixIs, LenProperties DEF Node
  <2>2. Len(n) = 0
    BY <2>1
  <2> QED
    BY <2>2, EmptySeq DEF Node
<1>4. ~HasChild(tree, <<>>)
  BY <1>1, <1>2, Child DEF HasChild
<1>5. TreeOf(tree, ptreeNode, Live)
  BY <1>1, <1>2, <1>3, <1>4 DEF TreeOf
<1> QED
  BY <1>5, InitIInv DEF TInv

\* Every step keeps the tree and the executor's states together.
LEMMA NextTree == TInv /\ [Next]_vars => TInv'
<1> SUFFICES ASSUME TInv, [Next]_vars PROVE TInv'
  OBVIOUS
<1>1. IInv' /\ IInv
  BY NextIInv DEF TInv
<1>2. Book /\ TreeOf(tree, ptreeNode, Live)
  BY DEF TInv, IInv
<1>3. /\ stateID \in Nat /\ stateID =< MaxStates /\ MaxStates \in Nat
      /\ Live \subseteq 0 .. stateID /\ NoState \notin 0 .. MaxStates /\ NoState \notin Live
  <2>1. /\ stateID \in Nat /\ stateID =< MaxStates /\ MaxStates \in Nat
        /\ Live \subseteq 0 .. stateID /\ NoState \notin 0 .. MaxStates
    BY <1>2, ExecutorAssumption DEF Book, State
  <2>2. 0 .. stateID \subseteq 0 .. MaxStates
    BY <2>1
  <2> QED
    BY <2>1, <2>2
<1>4. CASE UNCHANGED <<tree, ptreeNode, states, addedStates>>
  BY <1>1, <1>2, <1>4 DEF TInv, TreeOf, HasChild, Live
<1>5. ASSUME NEW S, NEW seeds, Terminate(S, addedStates, seeds, tree, ptreeNode), UNCHANGED states
      PROVE  TInv'
  <2>1. addedStates \union {} = addedStates /\ Live \union {} = Live
    OBVIOUS
  <2>2. TreeOf(tree, ptreeNode, Live)'
    BY <1>2, <1>3, <1>5, <2>1, TerminateTree
  <2> QED
    BY <1>1, <2>2 DEF TInv
<1>6. ASSUME NEW s \in Active, NEW newSide \in BOOLEAN, NEW atMaxDepth \in BOOLEAN,
             NEW satisfied, Fork(s, newSide, satisfied, atMaxDepth)
      PROVE  TInv'
  <2> DEFINE n   == ptreeNode[s]
             new == stateID + 1
             yes == IF newSide THEN new ELSE s
             no  == IF newSide THEN s ELSE new
             t   == SplitNode(tree, n, no, yes)
             at  == Put(Put(ptreeNode, no, Append(n, 0)), yes, Append(n, 1))
  <2>1. \E S, seeds : Terminate(S, addedStates \union {new}, seeds, t, at)
    BY <1>6 DEF Fork
  <2>2. UNCHANGED states /\ stateID < MaxStates /\ pc = "exec"
    BY <1>6 DEF Fork
  <2>3. s \in Live
    BY <1>2, <2>2 DEF Active, Book, InStep, Live
  <2>4. new \notin Live /\ NoState # new /\ new \notin states
    BY <1>3, <2>2 DEF Live
  <2>5. yes # no /\ {yes, no} = {s, new}
    BY <2>3, <2>4
  <2> HIDE DEF yes, no, new
  <2>6. TreeOf(t, at, Live \union {new})
    BY <1>2, <1>3, <2>3, <2>4, <2>5, SplitTree
  <2> HIDE DEF t, at, n
  <2>8. {new} \intersect states = {} /\ NoState \notin Live \union {new}
    BY <1>3, <2>4
  <2>7. TreeOf(tree, ptreeNode, Live)'
    BY <1>2, <2>1, <2>2, <2>6, <2>8, TerminateTree
  <2> QED
    BY <1>1, <2>7 DEF TInv
<1>7. ASSUME NEW s \in Active, NEW n \in 0 .. MaxBranch, NEW parent \in [1..n -> 0 .. MaxStates],
             NEW deal, Branch(s, parent, deal)
      PROVE  TInv'
  <2> DEFINE new == (stateID + 1) .. (stateID + Len(parent))
             t   == Splits(parent)[1]
             at  == Splits(parent)[2]
  <2>1. \E S, seeds : Terminate(S, addedStates \union new, seeds, t, at)
    BY <1>7 DEF Branch
  <2>2. UNCHANGED states /\ stateID + Len(parent) =< MaxStates /\ pc = "exec"
    BY <1>7 DEF Branch
  <2>3. s \in Live
    BY <1>2, <2>2 DEF Active, Book, InStep, Live
  <2>4. Len(parent) \in Nat /\ DOMAIN parent = 1 .. Len(parent)
    OBVIOUS
  <2>5. \A k \in 1 .. Len(parent) : parent[k] \in {s} \union (stateID + 1) .. (stateID + k - 1)
    BY <1>7, <2>4 DEF Branch
  <2>6. TreeOf(t, at, Live \union new)
    BY <1>2, <2>2, <2>3, <2>4, <2>5, SplitsTree
  <2>7. new \intersect Live = {} /\ new \subseteq 0 .. MaxStates
    BY <1>3, <2>2, <2>4
  <2>8. new \intersect states = {} /\ NoState \notin Live \union new
    BY <1>3, <2>7 DEF Live
  <2> HIDE DEF new, t, at
  <2>9. TreeOf(tree, ptreeNode, Live)'
    BY <1>2, <2>1, <2>2, <2>6, <2>8, TerminateTree
  <2> QED
    BY <1>1, <2>9 DEF TInv
<1>8. ASSUME NEW gone, gone \subseteq Live, Live' = Live \ gone,
             tree' = RemoveNodes(tree, {ptreeNode[s] : s \in gone}),
             ptreeNode' = Without(ptreeNode, gone)
      PROVE  TInv'
  <2>1. TreeOf(tree', ptreeNode', Live')
    BY <1>2, <1>3, <1>8, RemoveTree
  <2> QED
    BY <1>1, <2>1 DEF TInv, TreeOf, HasChild
<1>9. CASE UpdateStates
  <2>1. removedStates \subseteq Live /\ Live' = Live \ removedStates
    BY <1>2, <1>9 DEF UpdateStates, Book, StepSets, Live
  <2> QED
    BY <1>8, <1>9, <2>1 DEF UpdateStates
<1>10. CASE Dump
  <2>1. states \subseteq Live /\ Live' = Live \ states
    BY <1>2, <1>10 DEF Dump, Book, InStep, Live
  <2> QED
    BY <1>8, <1>10, <2>1 DEF Dump
<1>11. ASSUME NEW s, TerminateState(s) PROVE TInv'
  BY <1>5, <1>11 DEF TerminateState
<1>12. ASSUME NEW tooLong, ProcessTimers(tooLong) PROVE TInv'
  BY <1>5, <1>12 DEF ProcessTimers
<1>13. ASSUME NEW killed, CheckMemory(killed) PROVE TInv'
  BY <1>5, <1>13 DEF CheckMemory
<1>14. CASE ExecuteInstruction
  BY <1>6, <1>7, <1>11, <1>14 DEF ExecuteInstruction
<1>15. CASE RunStep
  <2>1. ASSUME NEW s, SelectSeeded(s) PROVE TInv'
    BY <1>4, <2>1 DEF SelectSeeded, sets
  <2>2. ASSUME NEW s, NEW merged, SelectState(s, merged) PROVE TInv'
    BY <1>4, <2>2 DEF SelectState
  <2>3. CASE LeaveSeeding \/ OnlySeed \/ StartSearch \/ EndSearch \/ EndRun
    BY <1>4, <2>3 DEF LeaveSeeding, OnlySeed, StartSearch, EndSearch, EndRun, sets
  <2> QED
    BY <1>9, <1>10, <1>12, <1>13, <1>15, <2>1, <2>2, <2>3 DEF RunStep
<1>16. CASE SetHaltExecution \/ UNCHANGED vars
  BY <1>4, <1>16 DEF SetHaltExecution, vars, sets
<1> QED
  BY <1>14, <1>15, <1>16 DEF Next

\* The tree is the executor's in every reachable state.
LEMMA TInvAlways == Init /\ [][Next]_vars => []TInv
BY InitTree, NextTree, PTL

\* The leaves of the process tree are the executor's states, each at the node it points
\* to, whatever is forked, branched and removed in a step: the asserts of PTree::split and
\* PTree::remove hold, and the walks of the random path searcher end at a state.
THEOREM TreeMatchesStates == Spec => []TreeOfStates
<1>1. TInv => TreeOfStates
  <2>1. TreeOf(tree, ptreeNode, Live) => TreeOfStates
    BY DEF TreeOf, TreeOfStates, HasChild
  <2> QED
    BY <2>1 DEF TInv
<1> QED
  BY <1>1, TInvAlways, PTL DEF Spec

\* A state that is deleted is out of every set and map of the executor and out of the
\* process tree, and is not the one being executed.
THEOREM DeletedAreGone == Spec => []NoDangling
<1>1. TInv => NoDangling
  <2> SUFFICES ASSUME TInv PROVE NoDangling
    OBVIOUS
  <2>1. Book /\ SeedsOf(seedMap, Live) /\ TreeOf(tree, ptreeNode, Live)
    BY DEF TInv, IInv
  <2>2. deleted \intersect (Live \union removedStates \union DOMAIN seedMap) = {}
    BY <2>1 DEF Book, StepSets, SeedsOf, Live
  <2>3. NoState \notin deleted
    <3>1. deleted \subseteq 0 .. MaxStates
      BY <2>1, ExecutorAssumption DEF Book
    <3> QED
      BY <3>1, ExecutorAssumption DEF State
  <2>4. Range(tree) \subseteq Live \union {NoState}
    BY <2>1 DEF TreeOf, Range
  <2>5. current \in Live \union {NoState}
    BY <2>1 DEF Book, Live
  <2> QED
    BY <2>2, <2>3, <2>4, <2>5 DEF NoDangling
<1> QED
  BY <1>1, TInvAlways, PTL DEF Spec

-------------------------------------------------------------------------------
(***************************************************************************)
(* How a run is stopped (Watchdog), for every limit, grace and delay, and  *)
(* however often the user interrupts: the watchdog kills last, it returns  *)
(* KLEE's status, and the signals it sends do not cut a dump short.        *)
(***************************************************************************)
\* What is compared or counted.
Counts ==
  /\ now \in Nat /\ nextStep \in Nat /\ interrupts \in Nat
  /\ level \in 0 .. 3
  /\ reaped \in BOOLEAN /\ interrupted \in BOOLEAN

\* When the next level comes, by what has been tried so far.
Steps ==
  /\ wd = "expired" => now > nextStep
  /\ wd = "gdb" => level = 2 /\ now > WatchTime + Grace
  /\ level = 0 => nextStep >= WatchTime
  /\ level = 1 => nextStep >= WatchTime + Grace
  /\ level = 2 /\ wd # "gdb" => nextStep >= WatchTime + 2 * Grace

\* What waitpid has told, and that the last level returns.
Reaped ==
  /\ reaped /\ wd # "returned" => mode \in {"crashed", "killed"}
  /\ level = 3 => wd = "returned"
  /\ mode = "killed" => wd = "returned"

\* Only the watchdog's first level and the user interrupt.
Interrupts == interrupted => level > 0 \/ interrupts > 0

WatchdogIInv == Counts /\ Steps /\ Reaped /\ Interrupts /\ KillIsLast /\ ReturnsStatus

\* The constants are natural numbers.
LEMMA Constants ==
  /\ MaxTime \in Nat /\ WatchTime \in Nat /\ Grace \in Nat
  /\ 0 < Grace
BY WatchdogAssumption

\* An interrupt ends a KLEE that has not ended, or asks it to halt.
LEMMA InterruptEffect ==
  ASSUME InterruptHandle
  PROVE  /\ Ended => UNCHANGED <<mode, code>>
         /\ mode' = mode \/ (mode' = "exited" /\ (interrupted \/ mode = "load"))
         /\ interrupted' = interrupted \/ interrupted' = TRUE
BY DEF InterruptHandle, Ended

\* The invariant holds at first,
LEMMA WatchdogInitInv == WatchdogInit => WatchdogIInv
<1> SUFFICES ASSUME WatchdogInit PROVE WatchdogIInv
  OBVIOUS
<1>1. Counts
  <2>1. reaped = FALSE /\ interrupted = FALSE
    BY DEF WatchdogInit
  <2>2. reaped \in BOOLEAN /\ interrupted \in BOOLEAN
    BY <2>1, Zenon
  <2> QED
    BY <2>2, Constants DEF WatchdogInit, Counts
<1>2. Steps /\ Reaped /\ Interrupts /\ KillIsLast /\ ReturnsStatus
  BY Constants DEF WatchdogInit, Steps, Reaped, Interrupts, KillIsLast, ReturnsStatus
<1> QED
  BY <1>1, <1>2 DEF WatchdogIInv

\* KLEE by itself leaves the watchdog alone, and stays ended.
LEMMA KleePreserves ==
  ASSUME WatchdogIInv, KleeStep
  PROVE  WatchdogIInv'
<1>1. UNCHANGED <<now, watchdog, interrupts, interrupted>>
  BY DEF KleeStep, Load, OnAlarm, Instruct, Enter, Leave, DumpStates, Exit, Crash
<1>2. /\ Ended => UNCHANGED <<mode, code>>
      /\ mode' = "killed" => mode = "killed"
  BY DEF KleeStep, Load, OnAlarm, Instruct, Enter, Leave, DumpStates, Exit, Crash, Ended
<1>3. Counts' /\ Steps' /\ Interrupts'
  BY <1>1 DEF WatchdogIInv, Counts, Steps, Interrupts, watchdog
<1>4. Reaped' /\ KillIsLast' /\ ReturnsStatus'
  BY <1>1, <1>2 DEF WatchdogIInv, Reaped, KillIsLast, ReturnsStatus, Ended, watchdog
<1> QED
  BY <1>3, <1>4 DEF WatchdogIInv

\* An interrupt of the user takes time from nobody.
LEMMA UserPreserves ==
  ASSUME WatchdogIInv, UserInterrupt
  PROVE  WatchdogIInv'
<1>1. UNCHANGED <<now, level, nextStep, reaped, outcome>> /\ interrupts' = interrupts + 1
  BY DEF UserInterrupt
<1>2. /\ Ended => UNCHANGED <<mode, code>>
      /\ mode' = mode \/ mode' = "exited"
  BY InterruptEffect DEF UserInterrupt
<1>3. wd' = wd \/ (wd \in {"sleep", "expired"} /\ wd' = "killed")
  BY DEF UserInterrupt, WatchdogInterrupted
<1>4. interrupted' \in BOOLEAN
  BY InterruptEffect DEF UserInterrupt, WatchdogIInv, Counts
<1>6. Counts' /\ Steps' /\ Interrupts'
  BY <1>1, <1>3, <1>4 DEF WatchdogIInv, Counts, Steps, Interrupts
<1>5. Reaped' /\ KillIsLast' /\ ReturnsStatus'
  BY <1>1, <1>2, <1>3 DEF WatchdogIInv, Reaped, KillIsLast, ReturnsStatus, Ended
<1> QED
  BY <1>5, <1>6 DEF WatchdogIInv

\* A look at the process and the clock: it is only due after the next step's time.
LEMMA PollPreserves ==
  ASSUME WatchdogIInv, Poll
  PROVE  WatchdogIInv'
<1>1. UNCHANGED <<now, klee, level, nextStep, interrupts>>
  BY DEF Poll
<1>2. Counts'
  <2>1. reaped' = reaped \/ reaped' = Ended
    BY DEF Poll
  <2>2. Ended \in BOOLEAN
    BY DEF Ended
  <2>4. reaped \in BOOLEAN
    BY DEF WatchdogIInv, Counts
  <2>3. reaped' \in BOOLEAN
    BY <2>1, <2>2, <2>4, Zenon
  <2> QED
    BY <1>1, <2>3 DEF WatchdogIInv, Counts, klee
<1>4. Steps' /\ Interrupts' /\ KillIsLast'
  BY <1>1 DEF WatchdogIInv, Counts, Steps, Interrupts, KillIsLast, Poll, klee
<1>3. Reaped' /\ ReturnsStatus'
  <2>1. CASE reaped
    BY <1>1, <2>1 DEF WatchdogIInv, Counts, Reaped, ReturnsStatus, Poll, Ended, klee
  <2>2. CASE ~reaped /\ mode = "exited"
    BY <1>1, <2>2 DEF WatchdogIInv, Counts, Reaped, ReturnsStatus, Poll, IfExited, Ended, klee
  <2>3. CASE ~reaped /\ mode # "exited"
    <3>1. wd' \in {"sleep", "expired"} /\ reaped' = Ended
      BY <2>3 DEF Poll, IfExited
    <3>2. level # 3 /\ mode # "killed"
      BY DEF WatchdogIInv, Reaped, Poll
    <3> QED
      BY <1>1, <2>3, <3>1, <3>2 DEF Reaped, ReturnsStatus, Ended, klee
  <2> QED
    BY <2>1, <2>2, <2>3
<1> QED
  BY <1>2, <1>3, <1>4 DEF WatchdogIInv

\* Each level grants another period of grace from now on.
LEMMA EscalationPreserves ==
  ASSUME WatchdogIInv, AttemptInt \/ AttemptGdb \/ GdbDone \/ Kill
  PROVE  WatchdogIInv'
<1>1. CASE AttemptInt
  <2>1. /\ Ended => UNCHANGED <<mode, code>>
        /\ mode' = mode \/ mode' = "exited"
    BY <1>1, InterruptEffect DEF AttemptInt
  <2>2. Counts'
    <3>1. interrupted' \in BOOLEAN
      BY <1>1, InterruptEffect DEF AttemptInt, WatchdogIInv, Counts
    <3> QED
      BY <1>1, <3>1, Constants DEF AttemptInt, NextStep, WatchdogIInv, Counts
  <2>4. Steps' /\ Interrupts'
    BY <1>1, Constants DEF AttemptInt, NextStep, WatchdogIInv, Counts, Steps, Interrupts
  <2>3. Reaped' /\ KillIsLast' /\ ReturnsStatus'
    BY <1>1, <2>1 DEF AttemptInt, WatchdogIInv, Reaped, KillIsLast, ReturnsStatus, Ended
  <2> QED
    BY <2>2, <2>3, <2>4 DEF WatchdogIInv
<1>2. CASE AttemptGdb
  BY <1>2, Constants DEF AttemptGdb, WatchdogIInv, Counts, Steps, Reaped, Interrupts, KillIsLast,
       ReturnsStatus, klee, Ended
<1>3. CASE GdbDone
  BY <1>3, Constants DEF GdbDone, NextStep, WatchdogIInv, Counts, Steps, Reaped, Interrupts, KillIsLast,
       ReturnsStatus, Ended
<1>4. CASE Kill
  BY <1>4, Constants DEF Kill, WatchdogIInv, Counts, Steps, Reaped, Interrupts, KillIsLast,
       ReturnsStatus, Ended
<1> QED
  BY <1>1, <1>2, <1>3, <1>4

\* and every step preserves it.
LEMMA WatchdogNextInv == WatchdogIInv /\ [WatchdogNext]_watchdogVars => WatchdogIInv'
<1> SUFFICES ASSUME WatchdogIInv, [WatchdogNext]_watchdogVars PROVE WatchdogIInv'
  OBVIOUS
<1>1. CASE Tick
  <2>1. now' = now + 1 /\ UNCHANGED <<klee, watchdog, interrupts>>
    BY <1>1 DEF Tick
  <2>2. Counts' /\ Steps' /\ KillIsLast'
    BY <2>1, Constants DEF WatchdogIInv, Counts, Steps, KillIsLast, klee, watchdog
  <2>3. Reaped' /\ Interrupts' /\ ReturnsStatus'
    BY <2>1 DEF WatchdogIInv, Reaped, Interrupts, ReturnsStatus, Ended, klee, watchdog
  <2> QED
    BY <2>2, <2>3 DEF WatchdogIInv
<1>2. CASE UNCHANGED watchdogVars
  BY <1>2 DEF WatchdogIInv, Counts, Steps, Reaped, Interrupts, KillIsLast, ReturnsStatus, watchdogVars, klee,
       watchdog, Ended
<1> QED
  BY <1>1, <1>2, KleePreserves, UserPreserves, PollPreserves, EscalationPreserves
     DEF WatchdogNext, WatchdogStep

\* main.cpp, the last attempt: the watchdog sends SIGKILL only after the limit and two
\* full periods of grace, whatever it and KLEE were delayed by.
THEOREM KillComesLast == WatchdogSpec => []KillIsLast
<1>1. WatchdogIInv => KillIsLast
  BY DEF WatchdogIInv
<1> QED
  BY <1>1, WatchdogInitInv, WatchdogNextInv, PTL DEF WatchdogSpec

\* main.cpp, WIFEXITED: the watchdog returns the exit code of a KLEE that exited before
\* the kill was due, and 1 otherwise.
THEOREM StatusReturned == WatchdogSpec => []ReturnsStatus
<1>1. WatchdogIInv => ReturnsStatus
  BY DEF WatchdogIInv
<1> QED
  BY <1>1, WatchdogInitInv, WatchdogNextInv, PTL DEF WatchdogSpec

\* interrupt_handle exits on a second interrupt: as long as the user sends none, there
\* is no second one, and a dump that has begun is finished.
THEOREM DumpIsFinished == WatchdogSpec => DumpIsSpared
<1> DEFINE Spared == mode = "dump" /\ mode' = "exited" /\ interrupts' = 0 => code' = 0
<1>1. WatchdogIInv /\ [WatchdogNext]_watchdogVars => [Spared]_watchdogVars
  <2> SUFFICES ASSUME WatchdogIInv, WatchdogNext, mode = "dump", mode' = "exited", interrupts' = 0
               PROVE  code' = 0
    OBVIOUS
  <2>1. CASE KleeStep
    BY <2>1 DEF KleeStep, Load, OnAlarm, Instruct, Enter, Leave, DumpStates, Exit, Crash
  <2>2. CASE UserInterrupt
    BY <2>2 DEF UserInterrupt, WatchdogIInv, Counts
  <2>3. CASE AttemptInt
    <3>1. level = 0 /\ interrupts = 0
      BY <2>3 DEF AttemptInt
    <3>2. ~interrupted
      BY <3>1 DEF WatchdogIInv, Interrupts, Counts
    <3>3. InterruptHandle \/ mode' = mode
      BY <2>3 DEF AttemptInt
    <3> QED
      BY <3>2, <3>3, InterruptEffect
  <2>4. CASE Poll \/ AttemptGdb \/ GdbDone \/ Kill \/ Tick
    BY <2>4 DEF Poll, AttemptGdb, GdbDone, Kill, Tick, klee
  <2> QED
    BY <2>1, <2>2, <2>3, <2>4 DEF WatchdogNext, WatchdogStep
<1>2. WatchdogIInv /\ [WatchdogNext]_watchdogVars => WatchdogIInv'
  BY WatchdogNextInv
<1> QED
  BY <1>1, <1>2, WatchdogInitInv, PTL DEF WatchdogSpec, DumpIsSpared
================================================================================
