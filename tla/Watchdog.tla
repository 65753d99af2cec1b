-------------------------------- MODULE Watchdog --------------------------------
(***************************************************************************)
(* How a run of KLEE is stopped (tools/klee/main.cpp, ExecutorTimers.cpp): *)
(* the timer of --max-time, which only fires between two instructions; the *)
(* interrupt handler; and the watchdog, the parent process that polls KLEE *)
(* every second and goes from SIGINT over gdb to SIGKILL.                  *)
(*                                                                         *)
(* Time is counted in seconds.  SetInterruptFunction (of LLVM) is for one  *)
(* interrupt: the next one has its default effect unless it was called     *)
(* again, as interrupt_handle does.                                        *)
(***************************************************************************)
EXTENDS Naturals

CONSTANTS MaxTime,        \* --max-time
          WatchTime,      \* MaxTime * 1.1
          Grace,          \* max(15, MaxTime * .1)
          MaxCalls,       \* instructions without a look at the timers, 1000
          MaxDelay,       \* bound: seconds until a process that is due is scheduled
          MaxInterrupts,  \* bound: the interrupts of the user
          Horizon         \* bound: the seconds that are looked at

ASSUME WatchdogAssumption ==
  /\ {MaxTime, WatchTime, Grace, MaxCalls, MaxDelay, MaxInterrupts, Horizon} \subseteq Nat
  /\ 0 < MaxTime /\ MaxTime < WatchTime /\ 0 < Grace /\ 0 < MaxDelay
  /\ WatchTime + 2 * Grace + 3 * (MaxDelay + 2) <= Horizon

VARIABLES
  now,
  \* KLEE
  mode,         \* load, run, inside (one instruction: an external call or a query), dump
                \* (its states, and the end of main), exited, crashed, killed
  halt,         \* haltExecution
  interrupted,
  masked,       \* external code ignores SIGINT
  ticks,        \* timerTicks is not 0
  calls,        \* callsWithoutCheck
  alarmed,      \* onAlarm handles SIGALRM and the interval timer runs
  nextFire,     \* nextFireTime of the HaltTimer
  code,         \* the exit code
  \* the watchdog
  wd,           \* none, sleep, expired (about to act), gdb, returned, killed
  handles,      \* the interrupt function is in place
  level, nextStep,
  polled,       \* when it last looked
  reaped,       \* waitpid returned the process
  outcome,      \* what it returned
  \* the user
  interrupts

klee     == <<mode, halt, interrupted, masked, ticks, calls, alarmed, nextFire, code>>
watchdog == <<wd, handles, level, nextStep, polled, reaped, outcome>>
watchdogVars == <<now, klee, watchdog, interrupts>>

Ended    == mode \in {"exited", "crashed", "killed"}
Watching == wd \in {"sleep", "expired", "gdb"}

WatchdogInit ==
  /\ now = 0
  /\ mode = "load" /\ halt = FALSE /\ interrupted = FALSE /\ masked = FALSE
  /\ ticks = FALSE /\ calls = 0 /\ alarmed = FALSE /\ nextFire = 0 /\ code = 0
  /\ wd \in {"none", "sleep"}
  /\ handles = TRUE /\ level = 0 /\ nextStep = WatchTime /\ polled = 0
  /\ reaped = FALSE /\ outcome = 0
  /\ interrupts = 0

-------------------------------------------------------------------------------
(* KLEE.                                                                   *)

\* initTimers: the interval timer, and the HaltTimer when its time can come at all.
Load ==
  /\ mode = "load" /\ now + MaxTime <= Horizon
  /\ mode' = "run" /\ alarmed' = TRUE /\ nextFire' = now + MaxTime
  /\ UNCHANGED <<now, halt, interrupted, masked, ticks, calls, code, watchdog, interrupts>>

OnAlarm ==
  /\ alarmed /\ ~Ended /\ ~ticks
  /\ ticks' = TRUE
  /\ UNCHANGED <<now, mode, halt, interrupted, masked, calls, alarmed, nextFire, code,
                 watchdog, interrupts>>

\* Mutant of Check: only a tick makes it look.
CheckOnTick == ticks

\* processTimers looks at the timers after a tick, or after many calls without one: then
\* it takes the alarm back from whoever has it.
Check == ticks \/ calls + 1 > MaxCalls

\* An instruction of the main loop, and processTimers after it.
Instruct ==
  /\ mode = "run" /\ ~halt
  /\ IF Check
     THEN /\ alarmed' = (alarmed \/ ~ticks)
          /\ halt' = (now >= nextFire)
          /\ nextFire' = IF now >= nextFire THEN now + MaxTime ELSE nextFire
          /\ ticks' = FALSE /\ calls' = 0
     ELSE /\ calls' = (IF calls = MaxCalls THEN 0 ELSE calls + 1)
          /\ UNCHANGED <<alarmed, halt, nextFire, ticks>>
  /\ UNCHANGED <<now, mode, interrupted, masked, code, watchdog, interrupts>>

\* An instruction that takes long.  External code may take SIGALRM and SIGINT for itself.
Enter ==
  /\ mode = "run" /\ ~halt
  /\ mode' = "inside"
  /\ alarmed' \in {alarmed, FALSE} /\ masked' \in {masked, TRUE}
  /\ UNCHANGED <<now, halt, interrupted, ticks, calls, nextFire, code, watchdog, interrupts>>

Leave ==
  /\ mode = "inside" /\ mode' = "run"
  /\ UNCHANGED <<now, halt, interrupted, masked, ticks, calls, alarmed, nextFire, code,
                 watchdog, interrupts>>

\* The main loop ends: no state is left, or KLEE is to halt.  Then the states are dumped.
DumpStates ==
  /\ mode = "run" /\ mode' = "dump"
  /\ UNCHANGED <<now, halt, interrupted, masked, ticks, calls, alarmed, nextFire, code,
                 watchdog, interrupts>>

Exit ==
  /\ mode = "dump" /\ mode' = "exited" /\ code' = 0
  /\ UNCHANGED <<now, halt, interrupted, masked, ticks, calls, alarmed, nextFire,
                 watchdog, interrupts>>

\* A signal that is not caught: a failed assertion, or no memory.
Crash ==
  /\ ~Ended /\ mode' = "crashed"
  /\ UNCHANGED <<now, halt, interrupted, masked, ticks, calls, alarmed, nextFire, code,
                 watchdog, interrupts>>

-------------------------------------------------------------------------------
(* Interrupts.                                                             *)

\* interrupt_handle, on SIGINT: the first one asks KLEE to halt, once there is an
\* interpreter; the next one exits.
InterruptHandle ==
  IF masked \/ Ended THEN UNCHANGED <<mode, halt, interrupted, code>>
  ELSE /\ interrupted' = TRUE
       /\ IF interrupted \/ mode = "load"
          THEN mode' = "exited" /\ code' = 1 /\ UNCHANGED halt
          ELSE halt' = TRUE /\ UNCHANGED <<mode, code>>

\* interrupt_handle_watchdog does nothing, and is not put in place again.
WatchdogInterrupted ==
  IF wd \notin {"sleep", "expired"} THEN UNCHANGED <<wd, handles>>
  ELSE handles' = FALSE /\ wd' = IF handles THEN wd ELSE "killed"

\* The user interrupts both processes from the terminal, or one of them.
UserInterrupt ==
  /\ interrupts < MaxInterrupts /\ interrupts' = interrupts + 1
  /\ \/ InterruptHandle /\ WatchdogInterrupted
     \/ InterruptHandle /\ UNCHANGED <<wd, handles>>
     \/ WatchdogInterrupted /\ UNCHANGED <<mode, halt, interrupted, code>>
  /\ UNCHANGED <<now, masked, ticks, calls, alarmed, nextFire, level, nextStep, polled,
                 reaped, outcome>>

-------------------------------------------------------------------------------
(* The watchdog.                                                           *)

\* Mutant of IfExited: WIFEXITED is not asked.
IfEnded == Ended

\* What waitpid tells: the process exited, or it was a signal that ended it.
IfExited == mode = "exited"

\* Once a second: waitpid, and the time.
Poll ==
  /\ wd = "sleep" /\ now > polled
  /\ polled' = now
  /\ IF reaped                    \* ECHILD
     THEN wd' = "returned" /\ outcome' = 1 /\ UNCHANGED reaped
     ELSE /\ reaped' = Ended
          /\ IF IfExited THEN wd' = "returned" /\ outcome' = code
             ELSE wd' = (IF now > nextStep THEN "expired" ELSE wd) /\ UNCHANGED outcome
  /\ UNCHANGED <<now, klee, handles, level, nextStep, interrupts>>

\* Each level gives the process the same time to end.
NextStep == now + Grace

\* Level 1.
AttemptInt ==
  /\ wd = "expired" /\ level = 0
  /\ IF reaped THEN UNCHANGED <<mode, halt, interrupted, code>> ELSE InterruptHandle
  /\ wd' = "sleep" /\ level' = 1 /\ nextStep' = NextStep
  /\ UNCHANGED <<now, masked, ticks, calls, alarmed, nextFire, handles, polled, reaped,
                 outcome, interrupts>>

\* Mutant of GdbDone: another interrupt instead of gdb.
GdbInterrupts ==
  /\ wd = "gdb" /\ wd' = "sleep" /\ nextStep' = NextStep
  /\ InterruptHandle
  /\ UNCHANGED <<now, masked, ticks, calls, alarmed, nextFire,
                 handles, level, polled, reaped, outcome, interrupts>>

\* Level 2: gdb calls halt_execution() in KLEE, or fails to.
AttemptGdb ==
  /\ wd = "expired" /\ level = 1
  /\ wd' = "gdb" /\ level' = 2
  /\ UNCHANGED <<now, klee, handles, nextStep, polled, reaped, outcome, interrupts>>

GdbDone ==
  /\ wd = "gdb" /\ wd' = "sleep" /\ nextStep' = NextStep
  /\ halt' \in {halt, halt \/ ~(Ended \/ mode = "load")}
  /\ UNCHANGED <<now, mode, interrupted, masked, ticks, calls, alarmed, nextFire, code,
                 handles, level, polled, reaped, outcome, interrupts>>

\* Mutant of Kill: a third interrupt instead of SIGKILL.
KillPolitely ==
  /\ wd = "expired" /\ level = 2
  /\ IF reaped THEN UNCHANGED <<mode, halt, interrupted, code>> ELSE InterruptHandle
  /\ wd' = "returned" /\ level' = 3 /\ outcome' = 1
  /\ UNCHANGED <<now, masked, ticks, calls, alarmed, nextFire, handles, nextStep, polled,
                 reaped, interrupts>>

\* Level 3.
Kill ==
  /\ wd = "expired" /\ level = 2
  /\ mode' = IF Ended THEN mode ELSE "killed"
  /\ wd' = "returned" /\ level' = 3 /\ outcome' = 1
  /\ UNCHANGED <<now, halt, interrupted, masked, ticks, calls, alarmed, nextFire, code,
                 handles, nextStep, polled, reaped, interrupts>>

-------------------------------------------------------------------------------
(* A second passes; a watchdog that is due looks in the meantime.          *)

Tick ==
  /\ now < Horizon /\ (Watching => now - polled <= MaxDelay)
  /\ now' = now + 1
  /\ UNCHANGED <<klee, watchdog, interrupts>>

KleeStep == Load \/ OnAlarm \/ Instruct \/ Enter \/ Leave \/ DumpStates \/ Exit \/ Crash

WatchdogStep == Poll \/ AttemptInt \/ AttemptGdb \/ GdbDone \/ Kill

WatchdogNext == KleeStep \/ UserInterrupt \/ WatchdogStep \/ Tick

\* Time passes, and a watchdog that is due is scheduled.  Nothing is assumed of KLEE: an
\* instruction may take forever.
WatchdogFairness == WF_watchdogVars(Tick) /\ WF_watchdogVars(WatchdogStep)

WatchdogSpec == WatchdogInit /\ [][WatchdogNext]_watchdogVars /\ WatchdogFairness

-------------------------------------------------------------------------------
(* Properties.                                                             *)

\* "I tried to be nice": the watchdog kills KLEE only after the limit and two full
\* periods of grace.
KillIsLast == mode = "killed" => now > WatchTime + 2 * Grace

\* The watchdog returns the exit code of KLEE if it exited before the watchdog killed it
\* (or was about to), and 1 otherwise.
ReturnsStatus ==
  wd = "returned" => Ended /\ outcome = IF mode = "exited" /\ level < 3 THEN code ELSE 1

\* A dump that has begun is cut short by an exit only when the user interrupted: the one
\* SIGINT of the watchdog, the HaltTimer and gdb do not add up to two interrupts.
DumpIsSpared == [][mode = "dump" /\ mode' = "exited" /\ interrupts' = 0 => code' = 0]_watchdogVars

\* A watched KLEE ends, even inside an instruction that never ends and ignores SIGINT,
\* unless the watchdog itself was interrupted twice.
WatchedEnds == wd = "sleep" ~> Ended \/ wd = "killed"

\* A KLEE that keeps executing instructions meets --max-time, whatever external code did
\* to SIGALRM.
TimerHalts == []<><<Instruct>>_watchdogVars => <>(halt \/ Ended)
================================================================================
