------------------------------- MODULE PathStreams ------------------------------
(***************************************************************************)
(* The branches of every path, in one file: TreeStreamWriter and           *)
(* TreeOStream, the places where the executor writes to them, the .path    *)
(* files made of them, and the mode that replays one (--replay-path).      *)
(*                                                                         *)
(* The program is a line of points, each of which decides one input bit.   *)
(* A bit that an earlier point decided forces the later ones.  A character *)
(* "1" is TRUE here and "0" FALSE.                                         *)
(***************************************************************************)
EXTENDS Naturals, FiniteSets, SequencesExt

CONSTANTS Bit,         \* the input bits the program tests
          Length,      \* the points of the program
          Kind,        \* what its points may be, see Point
          BufferSize   \* bufferSize of TreeStreamWriter

\* "branch": a conditional branch; "switch": a switch, or a fork that KLEE makes for
\* itself; "seeded": a branch a state with a seed takes when forking is off.
Point == [bit : Bit, kind : Kind]

\* Executor writes single characters: write() then always has room in the buffer.
ASSUME PathAssumption ==
  /\ Length \in Nat /\ BufferSize \in Nat /\ BufferSize > 1
  /\ Kind \subseteq {"branch", "switch", "seeded"}

VARIABLES
  writer,          \* the TreeStreamWriter: file, buffer, lastID, ids
  program,
  states,          \* the execution states in the order of their creation
  paths,           \* the .path files, by state
  goal,            \* where the state went whose .path file is replayed
  replayPath, replayPosition,
  failed,          \* the assertion that stopped the replay
  content          \* no part of the program: what each stream was asked to hold

replay == <<goal, replayPath, replayPosition, failed>>
vars   == <<writer, program, states, paths, replay, content>>

-------------------------------------------------------------------------------
(* TreeStreamWriter.  A record of the file opens a stream or holds data.   *)

OpenRecord(parent, child) == [id |-> parent, child |-> child]
DataRecord(id, data)      == [id |-> id, data |-> data]
IsFork(r) == "child" \in DOMAIN r

\* paths.ts once runFunctionAsMain has opened the stream of the first state.
NewWriter == [file |-> <<OpenRecord(0, 1)>>, buffer |-> <<>>, lastID |-> 0, ids |-> 2]

FlushBuffer(w) ==
  IF w.buffer = <<>> THEN w
  ELSE [w EXCEPT !.file = Append(@, DataRecord(w.lastID, w.buffer)), !.buffer = <<>>]

\* Mutant of Open: what is buffered for the parent reaches the file after the fork.
OpenUnflushed(w, os) == [w EXCEPT !.file = Append(@, OpenRecord(os, w.ids)), !.ids = @ + 1]

\* The new stream is the one numbered w.ids.
Open(w, os) ==
  [FlushBuffer(w) EXCEPT !.file = Append(@, OpenRecord(os, w.ids)), !.ids = @ + 1]

Write(w, os, c) ==
  LET flush == w.buffer # <<>> /\ (os # w.lastID \/ 1 + Len(w.buffer) > BufferSize)
      v     == IF flush THEN FlushBuffer(w) ELSE w
  IN  [v EXCEPT !.lastID = IF v.buffer = <<>> THEN os ELSE @, !.buffer = Append(@, c)]

\* The stream that stream i was opened under, 0 for the first.
Parent(file, i) == (CHOOSE r \in Range(file) : IsFork(r) /\ r.child = i).id

\* The chain from stream id up to the one opened first.
Roots(file, id) ==
  LET up[i \in 0 .. id] == IF i = 0 THEN {} ELSE {i} \cup up[Parent(file, i)]
  IN  up[id]

\* What the streams should hold: a stream begins with what the one it was opened under
\* held then, and from then on each holds what is written to it and nothing else.
Recorded(streams, id, c) == [streams EXCEPT ![id] = Append(@, c)]
Split(streams, id)       == Append(Recorded(streams, id, TRUE), Append(streams[id], FALSE))

\* What readStream finds in the file: the data of a stream counts until the next one of
\* the chain is opened.
ReadFile(file, id) ==
  LET roots == Roots(file, id)
      opens == {k \in DOMAIN file : IsFork(file[k]) /\ file[k].child \in roots}
      Counts(k) == /\ ~IsFork(file[k]) /\ file[k].id \in roots
                   /\ \A j \in opens : file[j].id = file[k].id => k < j
  IN  FlattenSeq([k \in DOMAIN file |-> IF Counts(k) THEN file[k].data ELSE <<>>])

ReadStream(id) == ReadFile(FlushBuffer(writer).file, id)

-------------------------------------------------------------------------------
(* The execution states.                                                   *)

Replaying == replayPath # <<>>

NewState == [pc |-> 1, bits |-> [b \in {} |-> TRUE], pathOS |-> 1, taken |-> <<>>, at |-> "run"]

Running(s) == states[s].at = "run" /\ failed = "none"

AtPoint(s, kind) == Running(s) /\ states[s].pc <= Length /\ program[states[s].pc].kind = kind

Tested(s)  == program[states[s].pc].bit
Decided(s) == Tested(s) \in DOMAIN states[s].bits

\* The function f that takes x to v as well.
With(f, x, v) == [y \in DOMAIN f \cup {x} |-> IF y = x THEN v ELSE f[y]]

\* State st with the tested bit equal to v; recorded: the branch is part of its path.
Taken(st, bit, v, recorded) ==
  [st EXCEPT !.pc = @ + 1, !.bits = With(@, bit, v),
             !.taken = IF recorded THEN Append(@, v) ELSE @]

Init ==
  /\ program \in [1 .. Length -> Point]
  /\ writer = NewWriter
  /\ states = <<NewState>>
  /\ paths = [s \in {} |-> <<>>]
  /\ goal = [bits |-> NewState.bits, at |-> "run"] /\ replayPath = <<>> /\ replayPosition = 0 /\ failed = "none"
  /\ content = << <<>> >>

-------------------------------------------------------------------------------
(* Executor::fork.                                                         *)

\* The constraints decide the branch, or fork() may not fork and tosses a coin.
TakeBranch(s) ==
  /\ AtPoint(s, "branch") /\ ~Replaying
  /\ \E v \in IF Decided(s) THEN {states[s].bits[Tested(s)]} ELSE BOOLEAN :
       /\ states' = [states EXCEPT ![s] = Taken(@, Tested(s), v, TRUE)]
       /\ writer' = Write(writer, states[s].pathOS, v)
       /\ content' = Recorded(content, states[s].pathOS, v)
  /\ UNCHANGED <<program, paths, replay>>

\* Both sides are possible.  The state on the false side gets a stream of its own,
\* be it the new one or, with randomize-fork, the one that forked.
Fork(s) ==
  /\ AtPoint(s, "branch") /\ ~Replaying /\ ~Decided(s)
  /\ LET child == writer.ids
         true  == Taken(states[s], Tested(s), TRUE, TRUE)
         false == [Taken(states[s], Tested(s), FALSE, TRUE) EXCEPT !.pathOS = child]
     IN  /\ \E swap \in BOOLEAN :
              states' = IF swap THEN Append([states EXCEPT ![s] = false], true)
                        ELSE Append([states EXCEPT ![s] = true], false)
         /\ writer' = Write(Write(Open(writer, states[s].pathOS), states[s].pathOS, TRUE),
                            child, FALSE)
         /\ content' = Split(content, states[s].pathOS)
  /\ UNCHANGED <<program, paths, replay>>

\* branch(), and an internal fork: the copy of the state holds the same stream, and
\* nothing is written.
Switch(s) ==
  /\ AtPoint(s, "switch")
  /\ IF Decided(s)
     THEN states' = [states EXCEPT ![s].pc = @ + 1]
     ELSE \E v \in BOOLEAN :
            states' = Append([states EXCEPT ![s] = Taken(@, Tested(s), v, FALSE)],
                             Taken(states[s], Tested(s), ~v, FALSE))
  /\ UNCHANGED <<writer, program, paths, replay, content>>

\* The branch of the seed is taken before the code that records branches.
TakeSeeded(s) ==
  /\ AtPoint(s, "seeded") /\ ~Replaying
  /\ \E v \in IF Decided(s) THEN {states[s].bits[Tested(s)]} ELSE BOOLEAN :
       states' = [states EXCEPT ![s] = Taken(@, Tested(s), v, FALSE)]
  /\ UNCHANGED <<writer, program, paths, replay, content>>

\* fork() with a replay path: its next branch must be possible.
ReplayBranch(s) ==
  /\ AtPoint(s, "branch") \/ AtPoint(s, "seeded")
  /\ Replaying
  /\ IF replayPosition = Len(replayPath)
     THEN failed' = "ran out of branches" /\ UNCHANGED <<states, replayPosition>>
     ELSE LET v == replayPath[replayPosition + 1] IN
          /\ replayPosition' = replayPosition + 1
          /\ IF Decided(s) /\ states[s].bits[Tested(s)] # v
             THEN failed' = "hit invalid branch" /\ UNCHANGED states
             ELSE /\ states' = [states EXCEPT ![s] = Taken(@, Tested(s), v, TRUE)]
                  /\ UNCHANGED failed
  /\ UNCHANGED <<writer, program, paths, goal, replayPath, content>>

-------------------------------------------------------------------------------
(* The end of a state, and the replay of its path.                         *)

\* processTestCase: readStream flushes, and the characters become the .path file.
\* A state ends at the end of the program, or early.
Terminate(s) ==
  /\ Running(s)
  /\ \E at \in {"exit", "early"} :
       /\ at = "exit" <=> states[s].pc > Length
       /\ states' = [states EXCEPT ![s].at = at]
  /\ IF Replaying THEN UNCHANGED <<writer, paths>>
     ELSE /\ writer' = FlushBuffer(writer)
          /\ paths' = With(paths, s, ReadStream(states[s].pathOS))
  /\ UNCHANGED <<program, replay, content>>

\* Mutant of LoadPathFile: the value of the failed extraction replaces the last one.
LoadOverLast(path) == {Append(SubSeq(path, 1, Len(path) - 1), v) : v \in BOOLEAN}

\* loadPathFile reads until an extraction fails, and appends the failed one too: its
\* value is not initialised.
LoadPathFile(path) == {Append(path, v) : v \in BOOLEAN}

\* Once KLEE is done, another run of it on the same program with --replay-path; goal
\* keeps where the state went that the path was written for.
Replay(s) ==
  /\ ~Replaying /\ DOMAIN paths = DOMAIN states
  /\ goal' = [bits |-> states[s].bits, at |-> states[s].at]
  /\ replayPath' \in LoadPathFile(paths[s])
  /\ replayPosition' = 0
  /\ states' = <<NewState>> /\ writer' = NewWriter /\ paths' = [t \in {} |-> <<>>] /\ content' = << <<>> >>
  /\ UNCHANGED <<program, failed>>

Next ==
  \E s \in DOMAIN states :
    \/ TakeBranch(s)
    \/ Fork(s)
    \/ Switch(s)
    \/ TakeSeeded(s)
    \/ ReplayBranch(s)
    \/ Terminate(s)
    \/ Replay(s)

Spec == Init /\ [][Next]_vars

-------------------------------------------------------------------------------
(* Properties.                                                             *)

\* readStream returns for each stream what it should hold, whatever is still in the
\* buffer and however the writes of the states are mixed in the file.
ReadsBack ==
  /\ Len(content) = writer.ids - 1
  /\ \A id \in DOMAIN content : ReadStream(id) = content[id]

\* A program that forks only at its branches.
OnlyBranches == \A i \in DOMAIN program : program[i].kind = "branch"

\* The replay of the path of a state that reached the end of the program meets neither
\* of fork()'s assertions and takes the same way through the program.
ReplayReaches ==
  OnlyBranches /\ Replaying /\ goal.at = "exit" =>
    /\ failed = "none"
    /\ \A s \in DOMAIN states : \A b \in DOMAIN states[s].bits :
         b \in DOMAIN goal.bits /\ states[s].bits[b] = goal.bits[b]

\* "hit invalid branch in replay path mode": the assertion of fork() holds when the path
\* of a state that reached the end of the program is replayed.
NoInvalidBranch == goal.at = "exit" => failed # "hit invalid branch"
================================================================================
