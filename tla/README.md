# A verification development for xklee

xklee is a fork of KLEE, a symbolic execution engine for LLVM bitcode, extended by a
concolic mode (`UseConcreteData`, a concolic depth-first search) and by a focus on
chosen functions (xPath). It executes a program on symbolic inputs: where a condition
may be true or false it *forks* the execution state, and it keeps many states that
share memory. This directory holds TLA+ modules that model its core, the TLC
configurations that check them, theorems proved with TLAPS, and `PROJECT.json`, which
ties each definition to the lines it models.

Paths below are relative to `src/klee/` unless they start with `src/`.

## 1. Inventory

### The engine

| Component | State | Operations | Modelled |
|---|---|---|---|
| Executor (`lib/Core/Executor.cpp`, `PTree.cpp`) | `states`, `addedStates`, `removedStates`, `seedMap`, `processTree`, `searcher`, `haltExecution` | `run`, `fork`, `branch`, `terminateState`, `updateStates`, the memory cap; `executeInstruction` and what it calls | `Executor`; `Interpreter` |
| Execution states (`include/klee/ExecutionState.h`) | address space, stack frames with their allocas, symbolics, path condition, coverage | `branch`, `pushFrame`, `popFrame`, `merge` | `AddressSpace` (memory), `Interpreter` (frames, position, path condition) |
| Address spaces (`lib/Core/AddressSpace.cpp`) | `cowKey`, the map from memory objects to object states | copy, `bindObject`, `unbindObject`, `getWriteable`, `copyOutConcretes`, `copyInConcretes`, `resolve` | `AddressSpace`; `resolve` in `Interpreter` |
| Object states (`lib/Core/Memory.cpp`) | `concreteStore`, `concreteMask`, `flushMask`, `knownSymbolics`, `updates` | `read8`, `write8`, flushes, `getUpdates` | `ByteCache` |
| Searchers (`lib/Core/Searcher.cpp`, `UserSearcher.cpp`) | each core searcher's states, parked states, paused states, the last state of a batch | `selectState`, `update`, `empty`, `setFlags` | `Searcher` |
| Solver chain (`lib/Solver/`, `lib/Basic/ConstructSolverChain.cpp`) | the query cache, the counterexample cache, its table of assignments | `computeTruth`, `computeValidity`, `computeValue`, `computeInitialValues` of every layer | `SolverChain` |
| Solver back ends (`lib/Solver/Solver.cpp`, `STPBuilder.cpp`, `MetaSMTBuilder.h`) | a forked solver process | the same, by one counterexample or a failure; terms of expressions | in `SolverChain`; `SolverTerms`, `MetaSMTBuilder` |
| Timing solver and seeds (`lib/Core/TimingSolver.cpp`, `SeedInfo.cpp`) | seed assignments | `evaluate`, `ZESTEvaluate`, `patchSeed` | its queries, in `SolverChain` |
| Path streams (`lib/Support/TreeStream.cpp`) | a write buffer, a file of records with parents | `open`, `write`, `flush`, `readStream`; the `.path` files and their replay | `PathStreams` |
| POSIX model (`runtime/POSIX/`) | the descriptor table, symbolic and concolic files | `open`, `close`, `dup`, `read`, `write`, `lseek`, `getdents`, `chmod`, `unlink`, ... | `PosixFiles` |
| Timers and drivers (`lib/Core/ExecutorTimers.cpp`, `tools/klee/main.cpp`) | the interval timer, `haltExecution`, the watchdog process | `onAlarm`, `processTimers`, `interrupt_handle`, the kill sequence | `Watchdog` |
| Special functions, external calls | none of their own | `malloc`, `realloc`, `free`, `klee_make_symbolic`, calls of native code | `Interpreter`, `AddressSpace` |
| Memory manager (`lib/Core/MemoryManager.cpp`) | the set of memory objects and their reference counts | `allocate`, `allocateFixed`, `markFreed` | what `allocate` promises, in `Machine` |
| Immutable maps (`include/klee/Internal/ADT/ImmutableTree.h`) | a balanced tree with shared nodes | `insert`, `replace`, `remove`, `lookup_previous` | planned |
| Statistics, coverage, call paths | counters | computing distances, writing files | not planned |
| Expressions (`lib/Expr/Expr.cpp`, `Constraints.cpp`) | trees, the constraints of a path | the `create` functions, `addConstraint`, `simplifyExpr` | `Expressions`, `Constraints`, `PathCondition` |
| Expression builders, query languages (`ExprBuilder.cpp`, `ExprPPrinter.cpp`, `Parser.cpp`, `ExprSMTLIBPrinter.cpp`) | a query as text | building, printing, parsing | `Builders`, `KQuery`, `SMTLIB` |
| Fast solver (`FastCexSolver.cpp`) | ranges of bytes | propagation, evaluation | `FastCex` |
| Module preparation (`lib/Module/`), xPath | an LLVM module | rewriting before the run starts | not planned |

`PROJECT.json` lists all of them with reasons, tools and libraries included.

### How they interact

`run()` is one thread. It asks the searcher for a state, lets `executeInstruction`
work on it, and calls `updateStates` at the end of the step. Within an instruction,
`fork()` and `branch()` put new states into `addedStates` and `terminateState` puts
states into `removedStates`, or deletes a state that was added in the same step. Only
`updateStates` tells the searcher, and applies both sets to `states`, `seedMap` and the
process tree. The wrappers around core searchers pass on, hold back or invent such
updates. A searcher may call back: merging searchers call `terminateState`, random path
reads the process tree. States share object states through an epoch (`cowKey`); native
code called by the program sees memory through copies to and from real addresses that
all states share. Signals and timers only set flags, which `run()` looks at between
instructions.

`fork()` and the memory operations ask the solver chain, a stack of solvers of which
each answers or asks the next. `fork()` also writes what it decided to the state's path
stream and opens a stream for the new state; all streams go through one writer with one
buffer. The POSIX runtime is code of the program under test: its tables are memory of
each state, copied at forks, while the descriptors of the klee process behind them are
shared by all states. Expressions are made by `create` functions that fold and rearrange
them; the constraint manager rewrites the constraints of a path by each other; what the
solver gets, what the fast solver reasons about and what is logged for kleaver are all
made of these trees. The watchdog is the parent process of klee and talks to it by
signals only; the timer inside klee and the user's interrupts arrive on the same paths.

### What is hard

There are no threads; the hard part is order. One instruction may fork several times,
terminate what it just forked, and be followed by a timer and the memory cap that
terminate states again. Six structures must agree afterwards. Copy-on-write ownership is
decided by comparing counters that every fork changes on both sides. The byte cache has
three masks that describe one byte. Searchers are composed at run time from eleven kinds
in the nestings the options allow, and each composition must hand every update to exactly
one holder. Native memory outlives the state that changed it. The caches of the solver
chain answer for keys they were never asked, from entries left by queries that failed
half way, and only after constraints have been dropped. An expression is rewritten at
least three times before it is solved, by rules that each hold only for some widths,
constants and forms. Streams fork in the middle of a
buffer. The POSIX runtime turns one call into several system calls between which another
state may run. An instruction whose address, size, function pointer or condition is
symbolic works for all inputs of a path at once: it splits them by what the solver says,
may end some of them, and each input must find itself in one part and do there what the
program does. The watchdog, its child and the user act at the same time.
`PROJECT.json` lists the hazards at their lines with the properties that cover them.

## 2. The modules

`PrivateMemory` is the abstract specification of memory: a state's steps change that
state's memory and no other. `AddressSpace` is the sharing implementation. A slot of
`OS` stands for an `ObjectState` on the heap, an object is one byte wide, and `Collect`
is the reference count that `ObjectHolder` keeps. `mem` is the refinement mapping: what
each state reads of each object. Allocation and fork, realloc, free, return, stores to
one or two objects and external calls with each of their endings are actions.

`ByteCache` models one object state at the level of its bytes. An expression is the
value it takes under each valuation of the inputs and whether it is a constant; this is
all that the cache tells apart. The update list is a sequence, oldest first.

`Machine` is the program under test on one input: a configuration (position, registers,
frames, objects) and `Step`, which says what may follow it. `ProgramRuns` is the abstract
specification of symbolic execution: every input has a run of its own, which takes the
steps of `Machine`. `Interpreter` implements it. A state has an expression, a function
from the inputs, in every register and byte, and the inputs that its constraints admit.
`Outcomes` is `executeInstruction` and what it calls: `fork` and `branch` (`Kept`,
`Switch`), `resolve` and `resolveOne` as the search over objects that the code makes
(`Back`, `Forth`, `Resolved`, `Nearest`), `executeMemoryOperation` (`Accessed`),
`executeAlloc` with `doSizeControlledMalloc` (`Alloc`, `Controlled`), `executeCall`,
calls through pointers (`CallThrough`), returns and unwinding, and the special functions.
Each gives the sets of pieces that may replace the state. What an operation computes is
in the code of the program (`k.of`), since the expressions for it are the subject of
`Expressions`; native code is a choice, as its effect on memory is in `AddressSpace`.

An input does not always get the run it would have alone. Where the code differs,
`ProgramRuns` says how, and nothing else may happen: an input may be given up where
limits interfere or forking is disabled (`GivenUp`); and an input may be affected by
another one that is at the same instruction and differs in its operands (`Confused`).
These cases are behaviours of the code that a user may not expect: the default of a
switch loses its condition where a feasible case has the same block
(`Executor.cpp:1989`); of several illegal function pointers one is reported, in the state
of the first value whichever its own pointer is (2135); `klee_get_value` answers without
constraining; `klee_assume` and concretizations drop inputs; `malloc` reports a size that
is not unique although the size of each input would do. `malloc` and `MemoryObject` take
a size as `unsigned`, on one input as on many.

`Exploration` is the abstract specification of path exploration: paths split off open
ones, end, and stay accounted for. `Executor` implements it. Its `pc` is where `run()`
is: the seeding loop, the search loop, inside an instruction, after it, and the end. An
instruction is any sequence of forks, branches and terminations of the states it holds.
A process tree node is the path to it. `searcher` is only the set of states it holds;
that every composition of searchers holds exactly one copy of each is `HeldOnce` of
`Searcher`.

`Searcher` models all searchers at once: `config` is the composition, `base` the lists
of the core searchers with the fields of the interleaving and batching wrappers, and
`statesAtMerge` and `pausedStates` belong to the outer wrappers. One turn of the loops
in `selectState()` is one action. States are addresses, because `std::set` orders
pointers, and addresses of deleted states are used again. An assertion that fails, or
undefined behaviour such as reading the back of an empty vector, leads to `failed`.

`SolverChain` models the chain as `ConstructSolverChain.cpp` builds it. For every layer
and method there is an operator that gives the set of outcomes a call may have: the
caches it leaves, whether it succeeded, and its answer (`CachingTruth` calls `CexTruth`,
which calls `StagedTruth`, which calls `CoreTruth`). A query of the executor is one
action. An expression is the elements it reads, the arrays it reads at symbolic indices
and the assignments under which it holds; a counterexample is a binding of some arrays.
The core solver gives any counterexample there is, or fails. `answered` remembers the
queries that were answered.

`PathStreams` models a program as a tree of decision points (branches, switches, and
branches that a seed decides with forking off), the states that run through it, the
writer with its buffer and file, and the end of a state, at which its `.path` file is
written and replayed. `loadPathFile` reads one value too many, so a replay that runs out
of its file takes any branch (`ReplayReaches` covers those that do not).

`PosixFiles` has one descriptor table per path (`env`), the descriptors and positions of
the klee process (`hostOpen`, `hostPos`), and one action per call of the runtime. A call
that makes several system calls is as many steps: `pending` is where it is, and other
paths may run in between. Files have a size and the offsets that were written. Integers
have the width of `off64_t` (`Half`), with `Signed` and `Unsigned` for the conversions.

`Watchdog` has the klee process, the watchdog and the user as actors over a discrete
clock. The klee process executes instructions, calls external code that may take its
signals or its timer, writes its test cases, and ends; `wd` is the watchdog's loop with
its level (interrupt, gdb, kill) and next deadline. `Tick` lets time pass and bounds by
`MaxDelay` how late the watchdog is scheduled.

The expression subsystem is ten modules that run as one. `Expressions` defines trees,
what a tree is worth under an assignment of the input bytes (`Value`, the reference), and
the `create` functions of every operation. `SolverTerms` is what `STPBuilder` constructs,
as the value its term has; `MetaSMTBuilder` constructs terms of SMT-LIB, which tells
booleans from bit vectors, and gives each the sort and value a solver would. Both make
multiplications and divisions by constants of the sums and shifts of `ConstantDivision`.
`FastCex` is the fast counterexample solver: ranges, what it propagates, and the
three answers it gives. `Constraints` is the constraint manager and the closure of the
independent solver. `KQuery` prints a query to symbols and parses them, with the widths,
labels and abbreviations that the two sides have to agree on; `Builders` are the four
expression builders kleaver may use. `SMTLIB` is the script of a query: the scan for
arrays and for what occurs twice, the casts between booleans and bit vectors, and the one
assertion; a script is read by SMT-LIB's own rules of sorts (`SortOf`, `ResultOf`).
`PathCondition` puts them together: one path of a
program, its register `term` and its `constraints`, with `meaning` and `path`, what the
instructions compute and the inputs that take the path. Its actions are instructions.

Modules that prove: `AddressSpaceProofs`, `ByteCacheProofs`, `ExecutorProofs`,
`InterpreterProofs`, `SearcherProofs`, `SolverChainProofs`, `PathStreamsProofs`,
`PosixFilesProofs`; what is proved of `Watchdog` is in `ExecutorProofs`. Modules that give constants
their values for TLC begin with `MC`; the run of `Watchdog` needs none. An operator whose
comment says "Mutant" is the body of another definition with a plausible bug;
`PROJECT.json` names the property that catches each.

## 3. The runs

| Run | Configuration | What it shows |
|---|---|---|
| `address_space` | `AddressSpace.cfg` | ownership, stack discipline of allocas, refinement of `PrivateMemory` |
| `interpreter` | `Interpreter.cfg` | the paths partition the inputs, no objects overlap, every input has a run of the program (refinement of `ProgramRuns`); of the byte cache, the invariants of `Memory.h`, cache and array agree, an object is an array of bytes |
| `executor` | `Executor.cfg` | the sets of a step, no dangling reference, the process tree, seeds are held once, refinement of `Exploration`, a halt ends the run |
| `searchers` | `Searcher.cfg` | 120 compositions: no assertion fails, each state is held once, what is executed is neither deleted, parked, paused nor (bump merging apart) terminated, `selectState` returns |
| `solver_chain` | `SolverChain.cfg` | both caches are true, answers are correct for the whole path condition, only the core solver fails, what was answered is answered again |
| `path_streams` | `PathStreams.cfg` | every stream reads back what its state wrote, a `.path` file is its state's path, and its replay takes it |
| `posix_files` | `PosixFiles.cfg` | concrete descriptors stay open, injected failures are bounded, copies stay in their file, removed files are gone |
| `watchdog` | `Watchdog.cfg` | the status is KLEE's, the dump is spared, a watched KLEE ends, a KLEE that executes meets its limit |
| `expressions` | `Expressions.cfg` | built, simplified, translated (for STP and metaSMT), printed (KQuery, SMT-LIB) and parsed expressions mean what the instructions compute; the constraints are those of the path; dropped ones do not matter; the fast solver is right |
| `seeding_searcher` | `Executor_searcher.cfg` | violation, see below |
| `printed_queries` | `Expressions_logged.cfg` | violation |
| `switch_paths` | `PathStreams_switch.cfg` | violation |

### Disagreements between the code and what it says

1. `seeding_searcher`: `terminateState` of a state added in the same step calls the
   searcher, which does not exist while seeds are run.
2. `switch_paths`: `branch()` copies a state with its path stream and records nothing,
   and a branch that a seed decides with forking off is not recorded either. A state
   that went through one of them has a `.path` file whose replay fails the assertion of
   `fork()`, "hit invalid branch in replay path mode".
3. `printed_queries`: the printer leaves out the width of a constant that is the first
   child of an expression; the parser needs it for a child of `Concat`. The constraint
   manager makes such a `Concat` when it puts a known byte into a word, so kleaver
   rejects queries that KLEE logs. `expressions` checks everything else of the language
   with `pc-all-const-widths`, which prints all widths.

### Bounds, and why they are enough

- `address_space`: two states, a read-only global, a user-specified object and an
  ordinary one, two values, keys up to 2 (the root starts at 1, so a run has one fork),
  two frames, six slots (each state may bind three objects). Sharing, the loss of
  ownership at a fork, and leaks between the two sides need two states and one fork;
  further forks, which raise the keys again, are covered by the proofs. The `VIEW` drops
  which slot an object state sits in and values that no action can read before they are
  overwritten; `FirstFit` picks one placement, since slots are alike. The proofs use
  neither.
- `interpreter` is two systems side by side, of which one stands still while the other
  runs (`part`); a property of one is not touched by the other.
  The programs of `MCInterpreter`: three inputs, made symbolic in one global of two bytes
  next to a read-only one; bytes of two bits, addresses of four, sizes below 8, `malloc`
  gives 0 above 3. The nine programs have every instruction, each on a path of all three
  inputs: phis and a switch with a shared default, an address that may be in two objects,
  in none and past one, sizes and pointers that are symbolic, a realloc of them, calls,
  invokes and unwinding, a pointer that is a function for one input only, a `read` whose
  sum wraps, `klee_make_symbolic` of two objects of which one is read-only. Three inputs
  are two that share a path and one that does not. All limits are one flag (`limited`).
  `MaxArrays` bounds the objects made symbolic, here 2.
  The cache: two bytes, two byte values, two valuations, two updates (`MaxUpdates`). One
  byte that a symbolic offset may or may not hit and one other byte are what the masks
  tell apart; two updates are a flush and a write behind it. Both systems are proved for
  every value of their constants (section 4).
- `executor`: two seeds, states 0 to 3, branches into two results; this has seeds that
  part, a fork of a fork, a termination of a state added in the step, and a tree of depth
  three. A third fork is explored only on runs without seeds (`Bounded`). No symmetry.
- `searchers`: three states at once over any number of states in a run, since addresses
  are used again; two merge points, so that states wait at different ones; interleavings
  of two and three core searchers. Compositions that lead to undefined behaviour or a
  failed assertion are not in `Working`: deepening with random path (random path never
  counts as empty, so paused states are not started again), deepening with the memory cap (`Searcher.cpp:569` erases
  through an iterator of another set), bump merging with the memory cap
  (`Searcher.cpp:365` passes on removals of states that the base searcher dropped) and
  bump merging with random path (a parked state is selected and meets itself). Also left
  out is a call of `klee_merge` directly behind another.
- `solver_chain`: an array of two elements and one of one, three conditions (one reads
  the first array at an index held in the second) with their negations, two paths, one of
  which decides what the other leaves open, three queries, five command lines: the
  default, `use-cache=0`, `cex-cache-try-all`, `cex-cache-exp`, and the fast solver without
  the counterexample cache. Three queries are what a stale entry takes: one that fills a
  cache, one that meets it, and one behind it. The proofs have no bound.
- `expressions`: bytes of two bits, ints of two bytes, an input of two bytes (16
  assignments, all of them checked), one constant table. Widths 1, 2, 4 and, inside the
  divisions, 8 are the smallest at which booleans, bytes, words and double words differ;
  all values of each occur. `MCPrograms` has five programs: every operation and cast on
  bytes; products, quotients and shifts by constants; loads at a symbolic index; sums of
  differences; and paths of two branches. `depth` bounds trees at five; `let` says whether scripts name shared parts. A `Concat` has two
  bytes, so wider words, and casts that split a byte, do not occur.
- `path_streams`: programs of three points on two input bits, a buffer of two characters,
  so that every fork finds it empty, half full or about to be flushed. `SomePrograms`
  drops programs that differ only by what no state reaches.
- `posix_files`: two paths, one symbolic file besides the standard and the concolic one,
  three descriptors of a path and four of the process, three calls, files of one byte,
  and an `off64_t` of four bits. Three calls are an `open`, a `dup` or seek, and what
  uses it. Offsets given to `lseek` are -1 and 1: the run does not reach the end of
  `off64_t`, where the addition in `write` wraps the offset and `read`'s
  `assert(f->off >= 0)` (`fd.c:468`) would fail. `CopiesWithin` holds short
  of it, and is proved so (section 4); the other three properties of the run are proved
  without such a bound.
- `watchdog`: a limit of one unit (`MaxTime`), `WatchTime` and `Grace` of two, a
  watchdog up to one unit late, one external call, two interrupts of the user, and a
  horizon of 15 units, behind all deadlines.

### Fairness

`Executor` assumes weak fairness of `RunStep`, what `run()` does by itself. It is one
thread that takes its next step, and an instruction ends: within an instruction the step
is `ProcessTimers`. Nothing forces forks or signals. `HaltStops` needs this and no
more. `Searcher` assumes weak fairness of `SelectState`: the loop inside `selectState()`
is sequential code, so its turns follow each other. `SelectReturns` says the turns come
to an end; it assumes nothing of the choices made by `merge()`, weights or time.
`Watchdog` assumes weak fairness of `Tick`, that time passes, and of `WatchdogStep`, that
the operating system schedules a process that sleeps and polls. Nothing is assumed of
KLEE, which may hang in external code: `WatchedEnds` holds all the same, and `TimerHalts`
has the premise that instructions are executed again and again. The other modules state
safety only.

Deadlock is not checked in any run: a run of the program ends (`done`, `crashed`,
`failed`, all states terminated), and the other models stop at their bounds.

## 4. What is proved

All theorems hold for every value of the constants that satisfies the named assumption
of the module (`SpaceAssumption`, `CacheAssumption`, `ExecutorAssumption`,
`MachineAssumption`, `CodeAssumption`, `InterpreterAssumption`,
`SearcherAssumption`, `ChainAssumption`, `PathAssumption`, `FilesAssumption`,
`WatchdogAssumption`). These say that null values differ from real ones, that bounds are
naturals, that `constructUserSearcher` lets the compositions through, that `Allocate`, the
memory allocator, gives distinct free slots, that a program is what the LLVM verifier
and the module passes let through (`WellFormed`), that the globals do not overlap, that an expression's value depends on what
it reads, that the constraints of a path can be satisfied, that descriptors 0, 1 and 2
exist.

- `AddressSpaceProofs`. The inductive invariant is `TypeOK /\ OwnerWithinKey /\
  OwnedIsPrivate`. The documented rule, that owners do not exceed the key, is what makes
  ownership exclusive after a fork: the new epoch exceeds every owner, so neither side
  owns anything (`NothingOwnedAfterFork`). Exclusive ownership in turn makes a write in
  place invisible to others. Most actions are instances of one lemma, `Rebind`: objects
  of one state move to slots that are fresh or its own. The same lemma gives the step of
  `PrivateMemory`, so `ImplementsPrivateMemory` follows from the invariant. `TypeOK`
  includes that a slot is in use exactly when it is referenced. `LocalsOnStack` is
  inductive beside it: what a state maps after a step it, or the state it was forked
  from, mapped before with the same frames, or is no alloca, or was just put on a frame's
  list (`Accounted`).
- `ByteCacheProofs`. `CacheInvariants` is inductive with the types of the three masks.
  With the types of the store and the updates, and `ReadsAgree` (`CacheOK` is both), it is the invariant
  `DataInv` from which `ArrayOfBytes` follows: a flush writes what `read8` finds, hence
  changes no byte (`FlushKeeps`), and a write is found by the reads it should be found
  by. What `ReadFrom` gives is said by the last update that hits, not by induction.
- `ExecutorProofs`. The inductive invariant is `Control /\ Book /\ SeedsOf /\
  Replayed`. `Book` adds to `StepSets` that every id ever given is live or deleted, and
  never both: that is why a new state is in no set. `Replayed` says that the seeding loop
  of only-replay-seeds has seeds for every open path. Each action is shown to preserve
  the invariant and to be an `Advance` of `Exploration` or a stutter in the same lemma
  (`InstructionStep`, `RunStepStep`), from which `TypeCorrect`, `SetsOfStates`,
  `EverySeedOnce` and `NoPathLost` follow. `TInv` adds the process tree. `TreeOfStates`
  is not inductive: it allows a subtree that nothing leads to, whose parent a removal
  would not find. `TreeOf` has in addition that the nodes are closed under prefixes and
  that a leaf's state points back to it. `remove` walks up to the first ancestor with
  another child; `NoDangling` follows, as every state in the tree is live.
- `InterpreterProofs`, the largest. `PathsPartition` is inductive as it stands: paths have
  disjoint inputs, an input has a path exactly until it ended, and a state is well formed,
  which includes that its objects are apart from each other and within the address space.
  A set of pieces is `Good` for a state if its pieces are well formed and disjoint, each
  input of a piece moved there by a step of `ProgramRuns`, and each input in no piece may
  be given up. There is one lemma per instruction, that each of its outcomes is good
  (`BranchGood`, `AccessGood`, `FreeGood`, ..., put together by `OutcomesGood`);
  replacing a state by good pieces keeps the partition (`ReplacedPartition`) and moves
  the runs (`ReplacedRuns`), and both theorems follow. Three facts carry the argument.
  An operation on expressions is on each input the operation on its values (`BindOK`,
  `PushOK`, `PopToOK`, ...). Good pieces of good pieces are good, if the first ones only
  narrow the state (`GoodUnion`), as in `realloc`, which forks, frees and allocates in one
  instruction. And `ResolutionComplete`: the search backwards and forwards from an example,
  which stops at the first object that the solver rules out, misses no object that an
  input's address may be in. It needs that objects are apart, that is, the invariant; and
  that an input outside every object found is outside every object, is what makes the
  error of `executeMemoryOperation` one of exactly the inputs that have it
  (`AccessedGood`). Calls through pointers (`MixedGood`) take the longest, since the
  piece that is ended is another input's: the state of the first value.
- `SearcherProofs`. The invariant `SInv` is `SetsOK /\ LoopOK /\ MergeOK /\ BaseOK`: the
  core searchers hold, once, the open states that are neither parked nor paused (`Held`);
  when the searcher is asked for a state there is one that is not paused; and `MergeOK`,
  without which merging is not inductive: a state that was merged and still awaits its
  removal is behind its merge point, and so nothing parks again before the instruction
  that removes it. `removedStates` has only states that the base
  searcher can still take out (`Disposable`). The theorems have the hypothesis
  `AllSupported`, that `Supported` holds of the compositions; the others are those that
  section 3 lists under `searchers`, in which a searcher does fail. Of what is executed
  the theorem says more without bump merging than with it: `BumpMergingSearcher` may
  return a state that its merge has just terminated, but never a parked, paused or
  deleted one.
- `SolverChainProofs`. The invariant is `Good(chain)`, that both caches are true and the
  query cache has one entry per expression, with the two properties of the last answer.
  For each layer and method there is a lemma: from a good chain every outcome leaves a
  good chain, fails only with the core solver (`Sane`), and its answer is right for the
  constraints it was given (`Binds`, `Truthful`, `Validates`, `Evaluates`). `Separates`
  shows that the constraints the independent solver drops do not matter: they read none
  of the cells of those it keeps, so a solution of the rest can be put together with an
  assignment of the whole path, which exists because the path is feasible. It needs that
  `Required` is closed under shared cells, not the order in which the code visits them.
  `AnsweredAgain` has the invariant that for every answered query the caches are `Ready`.
  A hit of the counterexample cache stays a hit as it grows (`HitStays`), though the
  assignment it gives may become another. That is why a validity, which asks for an
  assignment and then for one on the other side, needs the query cache too: without it
  the property is false (see the end of section 5).
- `PathStreamsProofs`. The invariant `PInv` says that the file has each stream's opening
  once, below an earlier stream (`FileOK`), that what `readStream` would find after a
  flush is what the stream should hold (`Holds`), and, for programs that only branch,
  that each stream is the way its state took (`Recording`) and the replayed state is on
  the way of its goal (`Follows`). `ReadIs` brings `readStream` to the concatenation of
  the portions of a stream and of those above it, and `OpenHolds` and `WriteHolds`
  say what a record more does to each.
- `PosixFilesProofs`. The invariant is `Sound` of each path: its type without bounds on
  offsets, that the descriptors behind its concrete slots are open in the process, that
  failures injected and failures left add up to at most `--max-fail`, that bytes of the
  symbolic stdout are counted, and that only files with symbolic names are removed. Each
  call is shown to keep it and not to reach a file that is gone (`Keeps`).
  `CopiesStayWithin` has the hypothesis `[]ShortOfEnd`: that no path is about to write at
  an offset of a symbolic file from which the sum wraps. It holds in every state of the
  run; without it the property is false, as the code checks for no such overflow. The
  invariant `WInv` is that offsets of symbolic files are not negative and that a call
  between two of its system calls is one of a concrete file. That is what is needed of
  concrete files, whose offsets do become negative in the run, when a seek of another
  path comes between two system calls of `getdents`.
- The watchdog's proofs, at the end of `ExecutorProofs`, have also `KillComesLast`, for
  which there is no run. The invariant relates the watchdog's level to the deadlines that have passed and to the interrupts
  that were sent (`Counts`, `Steps`, `Reaped`, `Interrupts`).

The prover takes no induction whose statement is an operator, and no recursive operator.
Recursive functions are proved about by a least counterexample (`LeastNumber`, from the
library's well-founded order of finite sets): that the functions inside `FlattenSeq`
and `Roots` exist and what they contain, and that a finite set of states can be listed in
any strict total order (`OrderExists`); and, in `InterpreterProofs`, that an object found is
found at a first place (`SoonestObject`).

Only model-checked: the liveness properties `HaltStops`, `SelectReturns`, `WatchedEnds`
and `TimerHalts`, since liveness under fairness and ENABLED are out of the prover's
reach; and everything of the expression subsystem, the eight properties of the run
`expressions`. Expressions are trees and
the operators on them are recursive; what holds of them is checked over all trees that
the programs of the run can build.

## 5. What the models leave out

- In `AddressSpace` and `Executor`, which objects an address may hit and which way a
  branch may go are choices; `Interpreter` has them follow from the inputs, and has one
  object per address where `AddressSpace` has shared object states.
- Of `Interpreter`: seeds and replay (`fork` with them is in `Executor` and
  `PathStreams`), random forks, `--max-sym-array-size` and limits on resolutions, variable
  arguments and their intrinsics, function aliases, `klee_mark_global`,
  `klee_define_fixed_object` and `errno`, an `invoke` of a special function, and special
  functions or invokes called through a pointer. An `alloca` of a symbolic size is without
  an outcome: `doSizeControlledMalloc` takes the instruction for a call there. Undefined
  registers and fresh memory have one value, `Junk`. The trace of floating-point operations
  is that they concretize their operands.
- `merge()` of states, and in `Executor` the path condition: whether a
  condition is feasible or two states merge is a choice. `PathCondition` has one path,
  with the constraints themselves; `Interpreter` has all paths, with the inputs that the
  constraints admit.
- In `Expressions`, floating point, which the executor makes concrete, and expressions wider than the ints
  of the run.
- Of KQuery the lexer, recovery from errors, and the layout of the text; of SMT-LIB the
  options, the layout and the requests for values, and its parser, which is third-party.
- Forking disabled (`enableFork = false`, set by xPath) in `branch()`; in `fork()` it is
  modelled by `PathStreams`. Replay of a recorded test case.
- Answers under a seed: `ZESTEvaluate` and `patchSeed`.
- In `SolverChain`, the propagation of the fast counterexample solver: it says nothing or
  the truth, which is `FastAnswers` of `PathCondition`. The logging and validating solvers pass queries on.
- Of the POSIX model the `stat` family, terminal ioctls, `select`, `chroot` and the
  stubs, which change nothing that the modelled calls depend on; times, owners, `errno`.
- Of klee-replay, which watches its child much as the watchdog does, everything.
- Statistics, coverage and the other output files.
- Wrap-around of `cowKey`, which takes 2^32 forks along a path.
- `Executor`: bump merging may step a state that a merge has just terminated;
  `SelectState` there is that of the other searchers. A call through the null searcher
  ends the process at the step in which it happens, and the effects of that step are
  shown together.
- `Executor.h` says that `addedStates` is a subset of `states`. The code adds the new
  states to `states` in `updateStates` only; the model follows the code.
- `updateEx` of the concolic searcher, which nothing calls.

Seen while modelling, and followed by the models without a property of their own:
`dup2` of a descriptor onto itself closes it; the flag of the concolic searcher swaps the
last two states of its vector, whichever they are; read-only native bytes that an
external call changed stay changed for every later call; `realloc` of an alloca frees it
and leaves its pointer in the frame's list; the sum that `CheckMemoryOutofBound` compares wraps, so that a
`read` of a huge length passes its check; `HasPermission` of the POSIX model refuses
reading where it is allowed; `chmod_fail` is tested and never allocated; a byte that an
external function modified after it was flushed reads differently at a constant and at a
symbolic offset (`AddressSpace.cpp:356`); iterative deepening over the default core
searchers (`test/Feature/Searchers.c:16`) never starts its paused states again, and the
weighted one then chooses among no states and fails its assertion (`DiscretePDF.inc:163`);
`hasOrderedReads` of the printer compares the indices of reads and not their arrays, so
a word of bytes of two arrays is printed as a word of one; an array named as a label or
keyword of KQuery prints as one; the fast solver asserts where the constraints of a path
it is given leave a byte no value; the scan of the SMT-LIB printer looks at the updates of
a read only where it meets the array for the first time
(`ExprSMTLIBPrinter.cpp:579`), so an array that only the updates of a later read mention
is used and not declared; the query log empties its buffer before it knows how long the
query took (`QueryLoggingSolver.cpp`, `startQuery`), so that `min-query-time-to-log`
keeps or drops a query by the time of the one before; with `enableFork` false `branch()`
pushes a null for each target it does not take and then asserts one result
(`Executor.cpp:721-755`); without the query cache (`use-cache=0`) a validity that was
answered may need the core solver when it is asked again, and fail with it, because the
counterexample cache has meanwhile got another assignment of the constraints, under which
the expression is the other way round (`CexCachingSolver.cpp`, `computeValidity`).

## 6. Plan

Done, in this order: memory (`PrivateMemory`, `AddressSpace`), object states
(`ByteCache`), exploration (`Exploration`, `Executor`), search (`Searcher`), files of the
program (`PosixFiles`), the end of a run (`Watchdog`), path streams (`PathStreams`), the
solver chain (`SolverChain`), expressions (`PathCondition` and what it extends),
instructions (`Machine`, `ProgramRuns`, `Interpreter`).

Left, modules:

1. `MemoryObjects`: the memory manager and the reference counts of memory objects, the
   address of a freed object given to a new one; composed with `AddressSpace`.
2. `DiscretePDF` and `ImmutableTree` as pure algorithms, with recursive operators in
   modules of their own.

Left, theorems: what `ConstantDivision` computes, for every divisor and width, as facts
about integers.

The map covers the engine's control, its instructions and its expressions. What it leaves
out is mostly I/O and data of LLVM: the drivers, statistics, module passes, a third-party
parser.
