----------------------------- MODULE ProgramRuns -----------------------------
(* What symbolic execution promises: every input has a run of its own, which takes
   the steps the program takes on that input.  An input is given up only where the
   executor is limited or the program disabled forking; a run takes another step only
   because of another input that is at the same instruction.                       *)
CONSTANTS Assignment, Starts, Step(_, _, _), Confused(_, _, _), Unsure(_, _)
VARIABLES run,      \* the configuration run[a] each input a has reached
          limited   \* limits on time, memory, depth or forks may interfere

GivenUp(a) == /\ run[a].end = "running"
              /\ limited \/ ~run[a].forking
              /\ run'[a] = [end |-> "early"]

Init == \E c \in Starts : run = [a \in Assignment |-> c] /\ limited \in BOOLEAN

Next ==
  /\ limited' = limited
  /\ \A a \in Assignment :
       \/ run'[a] = run[a]
       \/ Step(a, run[a], run'[a])
       \/ \E b \in Assignment : Confused(run[a], run[b], run'[a])
       \/ limited /\ Unsure(run[a], run'[a])
       \/ GivenUp(a)

Spec == Init /\ [][Next]_<<run, limited>>
==============================================================================
