----------------------------- MODULE SchedBuild ------------------------------
(***************************************************************************)
(* How a job of package sched gets its schedule: Every, a chain of methods *)
(* in any order, and Run.  A method that does not fit what was called      *)
(* before leaves its error in the job, where Run finds it.                 *)
(***************************************************************************)
EXTENDS Integers, Sequences, FiniteSets, FiniteSetsExt

CONSTANTS
  Times,       \* the arguments tried for At: the numbers between the colons
  MaxCalls     \* bound

NotANumber == 1000        \* what strconv.Atoi refuses
NoFn == "nil"

ASSUME BuildAssumption == MaxCalls \in Nat /\ Times \subseteq Seq(Int)

VARIABLES
  made,     \* the arguments of Every
  calls,    \* the methods called so far, with their argument
  job       \* the Job

buildVars == <<made, calls, job>>

Midnight == <<0, 0, 0>>
NoSchedule == [kind |-> "nil"]
recurrent(n) == [kind |-> "recurrent", units |-> n, period |-> 0, done |-> FALSE]
daily == [kind |-> "daily", time |-> Midnight]
weekly(d) == [kind |-> "weekly", day |-> d, time |-> Midnight]
monthly(d) == [kind |-> "monthly", day |-> d, time |-> Midnight]

\* Every(times...): with no argument the schedule is left open.
BuildInit ==
    /\ made \in {<<>>, <<2>>}
    /\ calls = <<>>
    /\ job = [schedule |-> IF made = <<>> THEN NoSchedule ELSE recurrent(made[1]),
              err |-> FALSE, fn |-> NoFn, isStart |-> FALSE, panic |-> FALSE]

-----------------------------------------------------------------------------
Called(name, arg) == calls' = Append(calls, <<name, arg>>) /\ UNCHANGED made

Kind == job.schedule.kind
Schedule(s) == job' = [job EXCEPT !.schedule = s]
BadChaining == job' = [job EXCEPT !.err = TRUE]

MDay(d) ==
    /\ \/ Kind = "nil" /\ Schedule(monthly(d))
       \/ Kind = "monthly" /\ Schedule([job.schedule EXCEPT !.day = d])
       \/ Kind \notin {"nil", "monthly"} /\ BadChaining
    /\ Called("MDay", d)

RNotImmediately ==
    /\ IF Kind = "recurrent" THEN Schedule([job.schedule EXCEPT !.done = TRUE]) ELSE BadChaining
    /\ Called("RNotImmediately", 0)

\* Of "8", "8:30" or "8:30:00"; more than three parts give empty strings.
Parts3(s) == IF Len(s) <= 3 THEN [i \in 1..3 |-> IF i <= Len(s) THEN s[i] ELSE 0]
             ELSE [i \in 1..3 |-> NotANumber]
parseTimeFails(s) ==
    LET t == Parts3(s)
    IN  (\E i \in 1..3 : t[i] = NotANumber) \/ t[1] > 23 \/ t[2] > 59 \/ t[3] > 59

At(s) ==
    /\ \/ job.err /\ UNCHANGED job
       \/ ~job.err /\ (parseTimeFails(s) \/ Kind \in {"nil", "recurrent"}) /\ BadChaining
       \/ /\ ~job.err /\ ~parseTimeFails(s) /\ Kind \in {"daily", "weekly", "monthly"}
          /\ Schedule([job.schedule EXCEPT !.time = Parts3(s)])
    /\ Called("At", s)

\* Job.Every with one argument; the error for another kind is only answered.
JobEvery(n) ==
    /\ IF Kind = "recurrent" THEN Schedule([job.schedule EXCEPT !.units = n]) ELSE UNCHANGED job
    /\ Called("Every", n)

\* WMonday ... WSunday: the new schedule is set even when there was one.
dayOfWeek(d) ==
    /\ job' = [job EXCEPT !.schedule = weekly(d), !.err = @ \/ Kind # "nil"]
    /\ Called("dayOfWeek", d)

DDay ==
    /\ job' = [job EXCEPT !.schedule = daily, !.err = @ \/ Kind \notin {"nil", "daily"}]
    /\ Called("DDay", 0)

\* ESeconds, EMinutes, EHours: a type assertion that panics.
timeOfDay(d) ==
    /\ \/ job.err /\ UNCHANGED job
       \/ ~job.err /\ Kind = "recurrent" /\ Schedule([job.schedule EXCEPT !.period = d])
       \/ ~job.err /\ Kind # "recurrent" /\ job' = [job EXCEPT !.panic = TRUE]
    /\ Called("timeOfDay", d)

SetFunc(f) ==
    /\ job' = IF job.err THEN job ELSE [job EXCEPT !.fn = f]
    /\ Called("SetFunc", f)

\* Run starts the goroutine once; a second call still replaces the function.
RunJobOf(f) ==
    /\ job' = IF job.err \/ (f = NoFn /\ job.fn = NoFn) THEN job
              ELSE [job EXCEPT !.fn = IF f = NoFn THEN @ ELSE f, !.isStart = TRUE]
    /\ Called("Run", f)

BuildNext ==
    /\ Len(calls) < MaxCalls /\ ~job.panic
    /\ \/ (\E d \in {0, 3} : MDay(d)) \/ RNotImmediately \/ (\E s \in Times : At(s))
       \/ JobEvery(3) \/ dayOfWeek(1) \/ DDay \/ (\E d \in {1, 60} : timeOfDay(d))
       \/ SetFunc("f") \/ (\E f \in {"g", NoFn} : RunJobOf(f))

BuildSpec == BuildInit /\ [][BuildNext]_buildVars

-----------------------------------------------------------------------------
(* What a chain c of calls after Every(m) means: its first n calls, looked *)
(* at together.                                                            *)

Of(c, name, n) == {i \in 1..n : c[i][1] = name}
DaysOf(c, n) == Of(c, "MDay", n) \cup Of(c, "dayOfWeek", n) \cup Of(c, "DDay", n)
LastOf(c, S, default) == IF S = {} THEN default ELSE c[Max(S)][2]

\* A recurrent job takes none of the calls for days and times.  Another chooses
\* one kind of day, once for a day of the week, and only then its times.
Fits(m, c, n) ==
    IF m # <<>> THEN DaysOf(c, n) \cup Of(c, "At", n) = {}
    ELSE /\ Of(c, "RNotImmediately", n) = {}
         /\ \A i, j \in DaysOf(c, n) : c[i][1] = c[j][1] /\ (c[i][1] = "dayOfWeek" => i = j)
         /\ \A i \in Of(c, "At", n) : ~parseTimeFails(c[i][2]) /\ \E j \in DaysOf(c, n) : j < i

\* DDay starts again at midnight.
TimeOf(c, n) == Parts3(LastOf(c, {i \in Of(c, "At", n) : \A j \in Of(c, "DDay", n) : j < i}, <<0>>))

Asked(m, c, n) ==
    IF m # <<>> THEN [kind |-> "recurrent", units |-> LastOf(c, Of(c, "Every", n), m[1]),
                      period |-> LastOf(c, Of(c, "timeOfDay", n), 0), done |-> Of(c, "RNotImmediately", n) # {}]
    ELSE IF Of(c, "MDay", n) # {} THEN [kind |-> "monthly", day |-> LastOf(c, Of(c, "MDay", n), 0), time |-> TimeOf(c, n)]
    ELSE IF Of(c, "dayOfWeek", n) # {} THEN [kind |-> "weekly", day |-> LastOf(c, Of(c, "dayOfWeek", n), 0), time |-> TimeOf(c, n)]
    ELSE IF Of(c, "DDay", n) # {} THEN [kind |-> "daily", time |-> TimeOf(c, n)]
    ELSE NoSchedule

\* A function was given with one of the first n calls.
FnGiven(c, n) == \E k \in 1..n : c[k][1] \in {"SetFunc", "Run"} /\ c[k][2] # NoFn

\* A chain of calls gives the schedule it asks for, whatever their order, or an
\* error when they do not fit; and Run starts the job exactly when there was no
\* error before it and there is a function.
ChainHeeded ==
    LET n == Len(calls)
    IN  ~job.panic =>
          /\ ~job.err <=> Fits(made, calls, n)
          /\ ~job.err => job.schedule = Asked(made, calls, n)
          /\ job.isStart <=> \E i \in Of(calls, "Run", n) : Fits(made, calls, i) /\ FnGiven(calls, i)
=============================================================================
