------------------------------- MODULE MCSched -------------------------------
(***************************************************************************)
(* Packages sched, cron, sexec and goreaper on small instances.  The       *)
(* modules share nothing, so a behaviour drives one of them: a recurrent   *)
(* job, a job with a daily, weekly or monthly schedule on a calendar with  *)
(* days of four ticks, weeks of three days and months of three to five     *)
(* days, the calls that build a job, the list of jobs of cron, or two      *)
(* callers that run programs.                                              *)
(***************************************************************************)
EXTENDS Sched, SchedDates, Cron, Exec

CONSTANT Parts

VARIABLE part   \* which of them is driven

MCMonthStart == <<0, 4, 7, 12, 16>>
OfKind(kinds, days) == [kind : kinds, day : days, time : {1, DayTicks - 1}]
Everyday ==
    OfKind({"daily"}, {0}) \cup OfKind({"weekly"}, 0..(WeekDays - 1)) \cup OfKind({"monthly"}, {EndOfMonth})

MCTimes == {<<8, 30>>, <<8, 60>>, <<1, 2, 3, 4>>}

MCFieldsOf == [t \in Seconds |-> [f \in Fields |-> IF f = "Day" THEN t % 2 ELSE t \div 2]]

-----------------------------------------------------------------------------
(* What two callers run at once: programs that end, fail, go on, leave a   *)
(* process behind or are missing, scripts, and files in memory.            *)

NoText == [shebang |-> <<>>, source |-> FALSE]
EP(found, text, out, code, ends, forks) == [found |-> found, text |-> text, out |-> out, code |-> code, ends |-> ends, forks |-> forks]
EW(fn, prog, name, args, timeout, more) == [fn |-> fn, prog |-> prog, name |-> name, args |-> args, timeout |-> timeout, more |-> more]
EA(t, v) == [t |-> t, v |-> v]
NoEnv == [k \in {} |-> ""]
Lists == EP(TRUE, NoText, <<"o1", "o2">>, 0, TRUE, "no")
Fails == EP(TRUE, NoText, <<"o1">>, 2, TRUE, "no")
Serves == EP(TRUE, NoText, <<"o1">>, 0, FALSE, "no")
Leaves(f) == EP(TRUE, NoText, <<"o1">>, 0, TRUE, f)
Missing == EP(FALSE, NoText, <<>>, 0, TRUE, "no")
Text(w, s) == EP(TRUE, [shebang |-> w, source |-> s], <<"o1">>, 0, TRUE, "no")
File == <<EA("file", "f1"), EA("string", "x"), EA("writer", "w1")>>
Hooks == <<EA("prestart", "p"), EA("bool", TRUE), EA("started", "s"), EA("duration", 1), EA("arg0", "n"), EA("scriptname", "s"), EA("end", "e")>>
Pair(a, b) == [c \in {"c1", "c2"} |-> IF c = "c1" THEN a ELSE b]
MCWorks ==
  {Pair(EW("command", Lists, "none", <<>>, TRUE, NoEnv), EW("script", Serves, "none", <<EA("file", "f2"), EA("scriptname", "s")>>, TRUE, NoEnv)),
   Pair(EW("command", Leaves("ends"), "none", Hooks, FALSE, [TERM |-> "x"]), EW("bytes", Fails, "p", File, TRUE, NoEnv)),
   Pair(EW("command", Leaves("stays"), "none", <<>>, TRUE, NoEnv), EW("bytes", Text(<<"env", "sh">>, FALSE), "none", <<>>, FALSE, NoEnv)),
   Pair(EW("command", Fails, "none", File, FALSE, NoEnv), EW("tofile", Lists, "none", <<>>, FALSE, NoEnv)),
   Pair(EW("command", Missing, "none", File \o <<EA("other", 0)>>, FALSE, NoEnv), EW("bytes", Text(<<"sh", "-e">>, FALSE), "none", <<>>, FALSE, NoEnv)),
   Pair(EW("script", Missing, "none", <<>>, FALSE, NoEnv), EW("bytes", Text(<<"sh">>, TRUE), "p", <<>>, FALSE, NoEnv)),
   Pair(EW("tofile", Lists, "d", <<>>, FALSE, NoEnv), EW("tofile", Lists, "none", <<>>, FALSE, NoEnv)),
   Pair(EW("shell", Leaves("ends"), "none", <<>>, TRUE, NoEnv), EW("shell", Leaves("ends"), "none", <<>>, FALSE, NoEnv))}
Reap(s, p, d) == [start |-> s, pid1 |-> p, disable |-> d]
MCReapers == {Reap(FALSE, FALSE, FALSE), Reap(TRUE, FALSE, FALSE), Reap(TRUE, TRUE, FALSE), Reap(TRUE, FALSE, TRUE)}

-----------------------------------------------------------------------------

\* Callers that gave up before they started anything, and no reaper.
ExecAtRest ==
    /\ work = CHOOSE w \in Works : TRUE
    /\ host = Reap(FALSE, FALSE, FALSE) /\ PATH = {"bin"} /\ rp = ReaperOff
    /\ cmdRun = [c \in ExCallers |-> [NoRun EXCEPT !.pc = "panic"]]
    /\ prc = [c \in ExCallers |-> NoProcess] /\ orphan = [c \in ExCallers |-> "none"]

\* A job that was told to quit.
JobAtRest ==
    /\ loop = "gone" /\ next = 0 /\ units = 2 /\ done = TRUE /\ quit = 1 /\ skip = 0 /\ isRunning = FALSE
    /\ run = [r \in Runs |-> "none"] /\ caller = [c \in Callers |-> "idle"]

MCInit ==
    /\ part \in Parts
    /\ IF part = "recurrent" THEN Init ELSE JobAtRest
    /\ IF part = "dates" THEN TRUE ELSE now = 0 /\ sched = CHOOSE s \in Schedules : TRUE
    /\ DatesInit /\ CronInit
    /\ IF part = "build" THEN TRUE ELSE made = <<>>
    /\ BuildInit
    /\ IF part = "exec" THEN ExInit ELSE ExecAtRest

MCNext ==
    /\ \/ part = "recurrent" /\ Next /\ UNCHANGED <<dateVars, buildVars, cronVars, exVars>>
       \/ part = "dates" /\ DatesNext /\ UNCHANGED <<vars, buildVars, cronVars, exVars>>
       \/ part = "build" /\ BuildNext /\ UNCHANGED <<vars, dateVars, cronVars, exVars>>
       \/ part = "cron" /\ CronNext /\ UNCHANGED <<vars, dateVars, buildVars, exVars>>
       \/ part = "exec" /\ ExNext /\ UNCHANGED <<vars, dateVars, buildVars, cronVars>>
    /\ UNCHANGED part

\* Nothing is enabled in the jobs and the callers that are not driven.  Of dates
\* and cron only safety is checked.
MCSpec ==
    /\ MCInit /\ [][MCNext]_<<vars, dateVars, buildVars, cronVars, exVars, part>>
    /\ Fairness /\ ExFairness
=============================================================================
