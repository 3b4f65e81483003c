-------------------------------- MODULE Sched --------------------------------
(***************************************************************************)
(* A recurrent job of package sched: the goroutine Run starts, which waits *)
(* in a select for the timer, for SkipIfWait or for Quit, the goroutines   *)
(* running the job's function that it starts, and the callers of           *)
(* SkipIfWait and Quit.  Time is the ticks left on the timer.              *)
(***************************************************************************)
EXTENDS Integers, FiniteSets

CONSTANTS
  Units,            \* the arguments of Every tried: so many periods, in ticks
  Runs,             \* bound: the runJob goroutines that exist at a time
  Callers           \* goroutines that call SkipIfWait

ASSUME UnitsAssumption == Units \subseteq Nat

VARIABLES
  loop,       \* the goroutine of Run: "new", "select", "gone"
  next,       \* ticks until its timer fires
  units, done,   \* recurrent.units and recurrent.done
  quit, skip, \* messages in the channels Quit and skipWait, of capacity 1
  isRunning,
  run,        \* the runJob goroutines
  caller      \* the callers of SkipIfWait

vars == <<loop, next, units, done, quit, skip, isRunning, run, caller>>

Init ==
    /\ loop = "new" /\ next = 0
    /\ units \in Units
    /\ done \in BOOLEAN      \* TRUE: the job was built with RNotImmediately
    /\ quit = 0 /\ skip = 0
    /\ isRunning = FALSE
    /\ run = [r \in Runs |-> "none"]
    /\ caller = [c \in Callers |-> "idle"]

Tick ==
    /\ loop # "new"
    /\ next' = IF next > 0 THEN next - 1 ELSE 0
    /\ UNCHANGED <<loop, units, done, quit, skip, isRunning, run, caller>>

\* Run starts the goroutine, whose first wait is the zero value of next.
Run ==
    /\ loop = "new"
    /\ loop' = "select"
    /\ next' = 0
    /\ UNCHANGED <<units, done, quit, skip, isRunning, run, caller>>

\* recurrent.nextDurationWaitToRun: the first call answers 0, and so does the
\* one that fails for a period of 0.
NextDuration ==
    /\ next' = IF done THEN units ELSE 0
    /\ done' = (done \/ units # 0)
    /\ UNCHANGED units

\* go runJob(j), and the next wait.
StartRun(r) ==
    /\ loop = "select" /\ run[r] = "none"
    /\ run' = [run EXCEPT ![r] = "check"]
    /\ NextDuration

TimerFires(r) ==
    /\ next = 0 /\ StartRun(r)
    /\ UNCHANGED <<loop, quit, skip, isRunning, caller>>

SkipTaken(r) ==
    /\ skip = 1 /\ StartRun(r)
    /\ skip' = 0
    /\ UNCHANGED <<loop, quit, isRunning, caller>>

QuitTaken ==
    /\ loop = "select" /\ quit = 1
    /\ quit' = 0 /\ loop' = "gone"
    /\ UNCHANGED <<next, units, done, skip, isRunning, run, caller>>

-----------------------------------------------------------------------------
(* runJob: look, mark, call the function, unmark. *)

RunJobLooks(r) ==
    /\ run[r] = "check"
    /\ run' = [run EXCEPT ![r] = IF isRunning THEN "none" ELSE "mark"]
    /\ UNCHANGED <<loop, next, units, done, quit, skip, isRunning, caller>>

RunJobMarks(r) ==
    /\ run[r] = "mark"
    /\ isRunning' = TRUE
    /\ run' = [run EXCEPT ![r] = "fn"]
    /\ UNCHANGED <<loop, next, units, done, quit, skip, caller>>

FnReturns(r) ==
    /\ run[r] = "fn"
    /\ run' = [run EXCEPT ![r] = "unmark"]
    /\ UNCHANGED <<loop, next, units, done, quit, skip, isRunning, caller>>

\* Mutant: the mark stays.
RunJobStaysMarked(r) ==
    /\ run[r] = "unmark"
    /\ run' = [run EXCEPT ![r] = "none"]
    /\ UNCHANGED <<loop, next, units, done, quit, skip, isRunning, caller>>

RunJobUnmarks(r) ==
    /\ run[r] = "unmark"
    /\ isRunning' = FALSE
    /\ run' = [run EXCEPT ![r] = "none"]
    /\ UNCHANGED <<loop, next, units, done, quit, skip, caller>>

-----------------------------------------------------------------------------
(* SkipIfWait and the sender on Quit, once Run has made the channels. *)

SkipIfWait(c) ==
    /\ caller[c] = "idle" /\ loop = "select" /\ ~isRunning
    /\ caller' = [caller EXCEPT ![c] = "send"]
    /\ UNCHANGED <<loop, next, units, done, quit, skip, isRunning, run>>

SkipSent(c) ==
    /\ caller[c] = "send" /\ skip = 0
    /\ skip' = 1
    /\ caller' = [caller EXCEPT ![c] = "idle"]
    /\ UNCHANGED <<loop, next, units, done, quit, isRunning, run>>

SendQuit ==
    /\ loop # "new" /\ quit = 0
    /\ quit' = 1
    /\ UNCHANGED <<loop, next, units, done, skip, isRunning, run, caller>>

\* Job.Every and RNotImmediately on a job that may be running: the wait under
\* way goes on.
JobEveryUnits(n) ==
    /\ units' = n
    /\ UNCHANGED <<loop, next, done, quit, skip, isRunning, run, caller>>

NotImmediately ==
    /\ done' = TRUE
    /\ UNCHANGED <<loop, next, units, quit, skip, isRunning, run, caller>>

-----------------------------------------------------------------------------
RunJob(r) == RunJobLooks(r) \/ RunJobMarks(r) \/ FnReturns(r) \/ RunJobUnmarks(r)

Next ==
    \/ Tick \/ Run \/ SendQuit \/ QuitTaken \/ NotImmediately \/ (\E n \in Units : JobEveryUnits(n))
    \/ \E r \in Runs : TimerFires(r) \/ SkipTaken(r) \/ RunJob(r)
    \/ \E c \in Callers : SkipIfWait(c) \/ SkipSent(c)

Spec == Init /\ [][Next]_vars

\* Goroutines run, the clock goes on, the job's function returns, and select
\* chooses at random among the channels that are ready, so that it does not
\* pass over one for ever.
Fairness ==
    /\ WF_vars(Tick) /\ WF_vars(Run)
    /\ SF_vars(QuitTaken)
    /\ \A r \in Runs : WF_vars(RunJob(r))
    /\ SF_vars(\E r \in Runs : TimerFires(r))
    /\ SF_vars(\E r \in Runs : SkipTaken(r))
    /\ \A c \in Callers : SF_vars(SkipSent(c))

FairSpec == Spec /\ Fairness

-----------------------------------------------------------------------------
(* Properties. *)

\* A job that is not told to quit is run again and again.
KeepsRunning == []<>(\E r \in Runs : run[r] = "fn") \/ <>(quit = 1)

\* A caller of SkipIfWait gets its message into the channel, unless the job
\* was told to quit.
SkipIfWaitReturns ==
    \A c \in Callers : caller[c] = "send" ~> (caller[c] = "idle" \/ loop = "gone")

\* Neither the job nor a caller is held up for ever.
JobGoesOn == KeepsRunning /\ SkipIfWaitReturns
=============================================================================
