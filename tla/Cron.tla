-------------------------------- MODULE Cron ---------------------------------
(***************************************************************************)
(* Package cron: the list of jobs, the calls that change it, and the       *)
(* goroutine of InitCron that looks at it once a second.                   *)
(*                                                                         *)
(* A job is a name and, for each field (month, day, ..., second), a value  *)
(* or ANY.  The list is sorted after an insertion by an order that says    *)
(* nothing about which jobs run, and names are unique (random), so it is   *)
(* kept as a function from names.  The fields of each second are a         *)
(* parameter.                                                              *)
(***************************************************************************)
EXTENDS Integers

CONSTANTS
  Names,      \* the task ids that may be handed out
  Fields,     \* the fields of a job; "Month" and "Day" are among them
  Values,     \* the values a field can take
  Seconds,    \* bound: the seconds that are looked at, 0..n
  FieldsOf    \* the fields of each second

ANY == -1
Keep == -2
Specs == [Fields -> Values \cup {ANY}]

ASSUME FieldsAssumption == {"Month", "Day"} \subseteq Fields
ASSUME ValuesAssumption == Values \subseteq Nat
ASSUME SecondsAssumption == Seconds \subseteq Nat /\ 0 \in Seconds
ASSUME FieldsOfAssumption == FieldsOf \in [Seconds -> [Fields -> Values]]

VARIABLES
  jobs,     \* the global list: from the ids in it to their fields
  asked,    \* the tasks inserted and not deleted, by the answers callers got
  second,   \* the clock, in seconds
  wake,     \* the second processJobs sleeps until
  started,  \* the tasks started: <<id, second>>, with how often
  seen      \* the jobs that were there at some time in the present second

cronVars == <<jobs, asked, second, wake, started, seen>>

Nobody == [n \in {} |-> <<>>]

CronInit ==
    /\ jobs = Nobody /\ asked = {}
    /\ second = 0 /\ wake = 0
    /\ started = [x \in Names \X Seconds |-> 0]
    /\ seen = Nobody

Set(f, n, v) == [m \in DOMAIN f \cup {n} |-> IF m = n THEN v ELSE f[m]]

Drop(f, n) == [m \in DOMAIN f \ {n} |-> f[m]]

-----------------------------------------------------------------------------
NewCronJob(n, s) ==
    /\ n \notin DOMAIN jobs
    /\ jobs' = Set(jobs, n, s)
    /\ asked' = asked \cup {n}
    /\ UNCHANGED <<second, wake, started, seen>>

\* slices.Delete(J, index, index) takes out the empty range, and the answer
\* is true.
DeleteTask(n) ==
    /\ n \in DOMAIN jobs
    /\ jobs' = jobs
    /\ asked' = asked \ {n}
    /\ seen' = Drop(seen, n)
    /\ UNCHANGED <<second, wake, started>>

\* The value that says whether a field is kept: the day follows the month's.
Guard(f, patch) == IF f = "Day" THEN patch["Month"] ELSE patch[f]

Patched(s, patch) == [f \in Fields |-> IF Guard(f, patch) = Keep THEN s[f] ELSE patch[f]]

UpdateTask(n, patch) ==
    /\ n \in DOMAIN jobs
    /\ jobs' = Set(jobs, n, Patched(jobs[n], patch))
    /\ seen' = Drop(seen, n)
    /\ UNCHANGED <<asked, second, wake, started>>

-----------------------------------------------------------------------------
Matches(s, t) == \A f \in Fields : s[f] \in {ANY, FieldsOf[t][f]}

\* Mutant: the goroutine sleeps until the second it is in.
NextSecondNow(t) == t

\* now.Truncate(time.Second).Add(time.Second).
NextSecond(t) == t + 1

\* One iteration of processJobs.  IsRunning is set on a copy of the job, so it
\* keeps no task from being started.
ProcessJobs ==
    /\ second >= wake
    /\ started' = [x \in Names \X Seconds |->
                     started[x] + (IF x[2] = second /\ x[1] \in DOMAIN jobs /\ Matches(jobs[x[1]], second)
                                   THEN 1 ELSE 0)]
    /\ wake' = NextSecond(second)
    /\ UNCHANGED <<jobs, asked, second, seen>>

\* A second passes; the goroutine wakes up in the second it sleeps for.
\* `seen' are now the jobs present from its start.
CronTick ==
    /\ second + 1 \in Seconds
    /\ wake > second
    /\ second' = second + 1
    /\ seen' = jobs
    /\ UNCHANGED <<jobs, asked, wake, started>>

-----------------------------------------------------------------------------
CronNext ==
    \/ CronTick \/ ProcessJobs
    \/ \E n \in Names :
         \/ \E s \in Specs : NewCronJob(n, s)
         \/ DeleteTask(n)
         \/ \E patch \in [Fields -> Values \cup {ANY, Keep}] : UpdateTask(n, patch)

CronSpec == CronInit /\ [][CronNext]_cronVars

-----------------------------------------------------------------------------
(* Properties. *)

\* In every second, each task is started at most once, whatever is inserted or
\* updated meanwhile, and exactly once if its job was in the list from the start
\* of the second, was not changed since, and matches: the goroutine sleeps into
\* the next second, neither the same one nor a later.
EverySecondServed ==
    /\ \A x \in Names \X Seconds : started[x] <= 1
    /\ wake > second =>
         \A n \in DOMAIN seen : Matches(seen[n], second) => started[<<n, second>>] = 1

\* "It returns true if the task is successfully deleted" (comment of
\* DeleteTask): a task whose deletion was answered with true is not in the list.
DeletedIsGone == DOMAIN jobs \subseteq asked
=============================================================================
