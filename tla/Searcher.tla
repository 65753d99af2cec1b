-------------------------------- MODULE Searcher --------------------------------
(***************************************************************************)
(* The searchers (Searcher.cpp), nested as constructUserSearcher nests     *)
(* them: core searchers, interleaved when there are several, inside an     *)
(* optional batching searcher, inside an optional merging or bump merging  *)
(* searcher, inside an optional iterative deepening searcher; and the main *)
(* loop of run() that drives them.                                         *)
(*                                                                         *)
(* A state is its address: sets of pointers are ordered by it, and the     *)
(* address of a deleted state is given to a later one.  Weights, times and *)
(* merge() itself are choices.  A call of klee_merge is never followed     *)
(* directly by another.                                                    *)
(***************************************************************************)
EXTENDS Naturals, FiniteSets, SequencesExt

CONSTANTS MaxStates,   \* bound on the states that exist at once
          MergePoint,  \* the calls of klee_merge, ordered
          Config,      \* the compositions of searchers that are looked at
          RandomizeFork,  \* option: the new state may take the true side
          NoState,     \* a null ExecutionState pointer
          NoPoint,     \* an instruction that is no merge point
          Invalid      \* a core searcher after a failed assertion

State == 1 .. MaxStates

CoreSearchType == {"dfs", "bfs", "random", "path", "nurs", "depth", "concolic"}

\* kills: the memory cap may be met.
ConfigType == [cores : Seq(CoreSearchType), batching : BOOLEAN,
               merging : {"none", "merge", "bump"}, deepening : BOOLEAN, kills : BOOLEAN]

ASSUME SearcherAssumption ==
  /\ MaxStates \in Nat \ {0}
  /\ MergePoint \subseteq Nat
  /\ Config \subseteq ConfigType /\ RandomizeFork \in BOOLEAN
  /\ \A c \in Config : c.cores # <<>>
  \* the asserts of constructUserSearcher
  /\ \A c \in Config : c.merging = "merge" => "path" \notin Range(c.cores)
  /\ NoState \notin State /\ NoPoint \notin Nat /\ Invalid \notin Seq(State)

VARIABLES
  config,
  phase,          \* of the main loop: select, step, ended (a step whose current state
                  \* is terminated), done, or failed
  current,
  states, addedStates, removedStates,
  at,             \* the merge point a state is at, or NoPoint
  seeded,         \* the state with the seed of UseConcreteData
  base,           \* the core searchers' states, and the fields of the wrappers around them
  statesAtMerge,
  pausedStates

executor  == <<config, phase, current, states, addedStates, removedStates, at, seeded>>
searchers == <<base, statesAtMerge, pausedStates>>
vars      == <<executor, searchers>>

-------------------------------------------------------------------------------
(* The core searchers, and InterleavedSearcher and BatchingSearcher.       *)

\* The elements of S, each once, in the order Before.
Sorted(S, Before(_, _)) ==
  CHOOSE q \in [1 .. Cardinality(S) -> S] :
    \A i, j \in 1 .. Cardinality(S) : i < j => Before(q[i], q[j])

\* A set of pointers in the order of a std::set.
Ordered(S) == Sorted(S, <)

\* A list after erase() of the states in removed.
Erase(list, removed) ==
  LET kept == Ordered({i \in DOMAIN list : list[i] \notin removed})
  IN  [k \in DOMAIN kept |-> list[kept[k]]]

\* setFlags reaches a ConcolicDFSSearcher that no other searcher wraps.
FlagsReach ==
  config.cores = <<"concolic">> /\ ~config.batching /\ config.merging = "none" /\ ~config.deepening

\* What update() of a core searcher asserts or relies on.  A NURS searcher that
\* updates weights looks current up first.
Asserts(kind, list, swap, cur, added, removed) ==
  /\ removed \subseteq Range(list \o added)
  /\ kind \in {"nurs", "depth"} => Range(list) \intersect Range(added) = {}
  /\ kind = "nurs" /\ cur # NoState /\ cur \notin removed => cur \in Range(list)
  /\ kind = "concolic" /\ swap => Len(list \o added) >= 2

\* The last two states change places.
SwapLast(list) ==
  LET n == Len(list) IN [list EXCEPT ![n] = list[n - 1], ![n - 1] = list[n]]

\* A core searcher's states after update(): random path keeps none of its own.
UpdateCore(kind, list, swap, cur, added, removed) ==
  IF kind = "path" THEN list
  ELSE IF list = Invalid \/ ~Asserts(kind, list, swap, cur, added, removed) THEN Invalid
  ELSE LET all == IF kind = "concolic" /\ swap THEN SwapLast(list \o added) ELSE list \o added
       IN  Erase(all, removed)

\* Mutant of ForgetLast: the last state is kept.
KeepLast(last, removed) == last

ForgetLast(last, removed) == IF last \in removed THEN NoState ELSE last

\* update() of the batching searcher and of every core searcher.
Update(b, cur, added, removed) ==
  [b EXCEPT
    !.lists = [i \in DOMAIN config.cores |->
                 UpdateCore(config.cores[i], b.lists[i], b.swapLastState, cur, added, removed)],
    !.swapLastState = FALSE,
    !.lastState = ForgetLast(b.lastState, removed)]

AddStates(b, added)         == Update(b, NoState, added, {})
RemoveState(b, s)           == Update(b, NoState, <<>>, {s})

\* empty() of the interleaved searcher asks the first, and random path the executor.
Empty(b) == IF config.cores[1] = "path" THEN states = {} ELSE b.lists[1] = <<>>

Candidates(kind, list) ==
  CASE kind = "path"                  -> states
    [] kind \in {"dfs", "concolic"}   -> IF list = <<>> THEN {} ELSE {list[Len(list)]}
    [] kind = "bfs"                   -> IF list = <<>> THEN {} ELSE {Head(list)}
    [] OTHER                          -> Range(list)

\* searchers[--index], from 1, and back to the last at 0.
NextIndex(i) == IF i = 1 THEN Len(config.cores) ELSE i - 1

\* selectState() of the batching searcher, with its budget left or used up, and
\* of the searchers inside it.
Selections ==
  {[state |-> s,
    base  |-> [base EXCEPT !.index     = NextIndex(base.index),
                           !.lastState = IF config.batching THEN s ELSE NoState]] :
     s \in Candidates(config.cores[base.index], base.lists[base.index])}
  \union
  {[state |-> s, base |-> base] : s \in {base.lastState} \ {NoState}}

\* The assertion that failed ends the process.
Continue(b, next) == phase' = IF Invalid \in Range(b.lists) THEN "failed" ELSE next

-------------------------------------------------------------------------------
(* selectState(), one turn of its loops at a time.                         *)

AtMerge(s) == config.merging # "none" /\ at[s] # NoPoint

Select(sel) ==
  /\ ~AtMerge(sel.state)
  /\ current' = sel.state
  /\ phase' = "step"
  /\ base' = sel.base
  /\ UNCHANGED <<config, states, addedStates, removedStates, at, seeded, statesAtMerge,
                 pausedStates>>

\* The states parked where s is: any number when merging, at most one when bumping.
ParkedWith(s) == {p \in statesAtMerge : at[p] = at[s]}

\* A state at a merge point waits for others.
Park(sel) ==
  /\ AtMerge(sel.state)
  /\ config.merging = "merge" \/ ParkedWith(sel.state) = {}
  /\ base' = RemoveState(sel.base, sel.state)
  /\ Continue(base', "select")
  /\ statesAtMerge' = statesAtMerge \union {sel.state}
  /\ UNCHANGED <<config, current, states, addedStates, removedStates, at, seeded, pausedStates>>

\* Mutant of StepPast: the states stay at the call.
StayAt(S) == at

\* The states S go on behind the call, or back to what they executed before it.
StepPast(S) == [s \in states |-> IF s \in S THEN NoPoint ELSE at[s]]

\* BumpMergingSearcher: the state is merged into the one parked there, and shown
\* to the base searcher again because it is terminated.
BumpMerge(sel) ==
  /\ config.merging = "bump" /\ AtMerge(sel.state) /\ ParkedWith(sel.state) # {}
  /\ base' = AddStates(RemoveState(sel.base, sel.state), <<sel.state>>)
  /\ Continue(base', "select")
  /\ removedStates' = removedStates \union {sel.state}
  /\ at' = StepPast({sel.state})
  /\ UNCHANGED <<config, current, states, addedStates, seeded, statesAtMerge, pausedStates>>

\* ... or takes its place.
Bump(sel) ==
  /\ config.merging = "bump" /\ AtMerge(sel.state)
  /\ \E p \in ParkedWith(sel.state) :
       /\ base' = AddStates(RemoveState(sel.base, sel.state), <<p>>)
       /\ statesAtMerge' = (statesAtMerge \ {p}) \union {sel.state}
       /\ at' = StepPast({p})
  /\ Continue(base', "select")
  /\ UNCHANGED <<config, current, states, addedStates, removedStates, seeded, pausedStates>>

\* Out of base states, BumpMergingSearcher lets one parked state go.
PopParked(p) ==
  /\ config.merging = "bump" /\ Empty(base)
  /\ \A q \in statesAtMerge : at[p] =< at[q]
  /\ base' = AddStates(base, <<p>>)
  /\ Continue(base', "select")
  /\ statesAtMerge' = statesAtMerge \ {p}
  /\ at' = StepPast({p})
  /\ UNCHANGED <<config, current, states, addedStates, removedStates, seeded, pausedStates>>

\* Parked states by merge point, then by address.
MergeOrder(S) ==
  Sorted(S, LAMBDA s, t : at[s] < at[t] \/ (at[s] = at[t] /\ s < t))

\* All are at a merge point: MergingSearcher merges what it can into an earlier
\* state of the same point, terminates it and lets the others go.
MergeAll(merged) ==
  /\ config.merging = "merge" /\ Empty(base) /\ statesAtMerge # {}
  /\ \A s \in merged : \E b \in statesAtMerge \ merged : at[b] = at[s] /\ b < s
  /\ base' = AddStates(base, MergeOrder(statesAtMerge \ merged))
  /\ Continue(base', "select")
  /\ statesAtMerge' = merged
  /\ removedStates' = removedStates \union merged
  /\ at' = StepPast(statesAtMerge)
  /\ UNCHANGED <<config, current, states, addedStates, seeded, pausedStates>>

\* Nothing to select: a searcher reads past its states, or calls itself for ever.
SelectNothing ==
  /\ IF config.merging # "none" /\ Empty(base) THEN statesAtMerge = {} ELSE Selections = {}
  /\ phase' = "failed"
  /\ UNCHANGED <<config, current, states, addedStates, removedStates, at, seeded, searchers>>

SelectState ==
  /\ phase = "select"
  /\ \/ \E p \in statesAtMerge : PopParked(p)
     \/ \E merged \in SUBSET statesAtMerge : MergeAll(merged)
     \/ SelectNothing
     \/ /\ config.merging # "none" => ~Empty(base)
        /\ \E sel \in Selections : Select(sel) \/ Park(sel) \/ BumpMerge(sel) \/ Bump(sel)

-------------------------------------------------------------------------------
(* The instruction, and update().                                          *)

Active == IF phase = "step" THEN {current} \union addedStates ELSE addedStates

\* fork() of s into itself and t, which is the true side with RandomizeFork.
Fork(s, t, newSide, seedTrue) ==
  LET yes == IF newSide THEN t ELSE s
      no  == IF newSide THEN s ELSE t
  IN  /\ newSide => RandomizeFork
      /\ phase \in {"step", "ended"} /\ s \in Active /\ t \notin states \union addedStates
      /\ addedStates' = addedStates \union {t}
      /\ seeded' = IF seeded # s THEN seeded ELSE IF seedTrue THEN yes ELSE no
      /\ base' = [base EXCEPT !.swapLastState = @ \/ (FlagsReach /\ seeded = s /\ seedTrue)]
      /\ UNCHANGED <<config, phase, current, states, removedStates, at, statesAtMerge,
                     pausedStates>>

\* terminateState(): of a state added in this step, or of the current one.
TerminateState(s) ==
  /\ phase \in {"step", "ended"} /\ s \in Active
  /\ IF s \in addedStates
     THEN /\ addedStates' = addedStates \ {s}
          /\ seeded' = IF seeded = s THEN NoState ELSE seeded
          /\ base' = [base EXCEPT !.swapLastState = @ /\ ~FlagsReach]
          /\ UNCHANGED <<phase, removedStates>>
     ELSE /\ phase' = "ended"
          /\ removedStates' = removedStates \union {s}
          /\ UNCHANGED <<addedStates, seeded, base>>
  /\ UNCHANGED <<config, current, states, at, statesAtMerge, pausedStates>>

\* Mutant of BelowMerge: removals of parked states are passed on as well.
AllBelow(dead) == dead

\* MergingSearcher::update keeps removals of parked states from its base;
\* BumpMergingSearcher does not.
BelowMerge(dead) == IF config.merging = "merge" THEN dead \ statesAtMerge ELSE dead

\* Mutant of StillPaused: the paused states are added again and stay paused.
PausedAgain(paused, restart) == paused

StillPaused(paused, restart) == IF restart THEN {} ELSE paused

\* updateStates(): update() of the outermost searcher, where the deepening one may
\* pause the current state and starts the paused ones again when nothing else is
\* left; then the executor's own sets.
UpdateStates(killed, elapsed, next) ==
  LET dead    == removedStates \union killed
      parked  == IF config.merging = "merge" THEN statesAtMerge \ dead ELSE statesAtMerge
      updated == Update(base, current, Ordered(addedStates), BelowMerge(dead \ pausedStates))
      pause   == elapsed /\ current \notin dead
      paused  == IF pause THEN pausedStates \union {current} ELSE pausedStates
      left    == IF pause THEN RemoveState(updated, current) ELSE updated
      restart == config.deepening /\ Empty(left) /\ parked = {}
      after   == IF restart THEN AddStates(left, Ordered(paused)) ELSE left
      rest    == (states \union addedStates) \ dead
  IN  /\ phase \in {"step", "ended"}
      /\ killed # {} => config.kills /\ killed # states
      /\ elapsed => config.deepening
      /\ base' = after
      /\ statesAtMerge' = parked
      /\ pausedStates' = StillPaused(paused, restart)
      /\ IF dead \intersect pausedStates = {}
         THEN Continue(after, IF rest = {} THEN "done" ELSE "select")
         ELSE phase' = "failed"    \* erase() through an iterator of removedStates
      /\ states' = rest /\ addedStates' = {} /\ removedStates' = {}
      /\ at' = [s \in rest |-> IF s \in {current} \union addedStates THEN next[s] ELSE at[s]]
      /\ seeded' = IF seeded \in dead THEN NoState ELSE seeded
      /\ current' = NoState
      /\ UNCHANGED config

\* The start of the search: run() shows the searcher the initial state.
Init ==
  /\ config \in Config
  /\ phase = "select" /\ current = NoState
  /\ \E s \in State :
       /\ states = {s}
       /\ at = [x \in {s} |-> NoPoint]
       /\ seeded = IF "concolic" \in Range(config.cores) THEN s ELSE NoState
       /\ base = [lists |-> [i \in DOMAIN config.cores |->
                              IF config.cores[i] = "path" THEN <<>> ELSE <<s>>],
                  index |-> 1, lastState |-> NoState, swapLastState |-> FALSE]
  /\ addedStates = {} /\ removedStates = {} /\ statesAtMerge = {} /\ pausedStates = {}

\* Where the states an instruction leaves may be.
Points == IF config.merging = "none" THEN {NoPoint} ELSE MergePoint \union {NoPoint}

Step ==
  \/ \E s \in Active : TerminateState(s)
  \/ \E s \in Active, t \in State, newSide, seedTrue \in BOOLEAN : Fork(s, t, newSide, seedTrue)
  \/ \E killed \in SUBSET states, elapsed \in BOOLEAN,
        next \in [{current} \union addedStates -> Points] : UpdateStates(killed, elapsed, next)

Next == SelectState \/ Step

\* The main loop runs on: selectState() is not left half-way.
Spec == Init /\ [][Next]_vars /\ WF_vars(SelectState)

-------------------------------------------------------------------------------
(* Properties.                                                             *)

\* The compositions whose searchers agree on what they hold.  Random path selects from
\* the process tree, which still has the states that are paused or parked; and bump
\* merging and iterative deepening do not expect a removal of a state they hold back.
Supported(c) ==
  /\ c.merging = "bump" => "path" \notin Range(c.cores) /\ ~c.kills
  /\ c.deepening => "path" \notin Range(c.cores) /\ ~c.kills

\* "testing that the various combinations don't crash" (test/Feature/Searchers.c):
\* no searcher is asked to remove or update a state it does not hold, to insert
\* one it holds, or to select one when it has none.
SearcherOK == phase # "failed"

\* Every core searcher that keeps states of its own holds each state of the
\* executor once, but for those parked at a merge point or paused, which are
\* held there; so does the batching searcher's last state.
HeldOnce ==
  LET held == (states \ statesAtMerge) \ pausedStates
  IN  phase # "failed" =>
        /\ statesAtMerge \union pausedStates \subseteq states
        /\ statesAtMerge \intersect pausedStates = {}
        /\ \A i \in DOMAIN config.cores :
             config.cores[i] # "path" =>
               Range(base.lists[i]) = held /\ Len(base.lists[i]) = Cardinality(held)
        /\ base.lastState \in held \union {NoState}

\* What the main loop executes is a state of the executor that no searcher holds back:
\* not one deleted, parked at a merge point or paused.  Nor is it one that a merge or the
\* memory cap has terminated, but for bump merging, which shows a state it has merged
\* to its base searcher again.
ExecutesOpen ==
  [][phase = "select" /\ phase' = "step"
       => /\ current' \in (states \ statesAtMerge) \ pausedStates
          /\ config.merging # "bump" => current' \notin removedStates]_vars

\* selectState() returns: its loops over merge points end.
SelectReturns == phase = "select" ~> phase # "select"
===============================================================================
