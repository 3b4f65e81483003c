----------------------------- MODULE SchedDates ------------------------------
(***************************************************************************)
(* The daily, weekly and monthly schedules of package sched: nextRunAt of  *)
(* each, and the loop of Run that sleeps until that instant, starts the    *)
(* job and asks again.  SchedBuild models how a job gets its schedule, on  *)
(* its own.  An instant is a number of ticks; the calendar is a *)
(* parameter, so that a small one can be checked.                          *)
(***************************************************************************)
EXTENDS SchedBuild

CONSTANTS
  DayTicks,    \* ticks in a day
  WeekDays,    \* days in a week
  MonthStart,  \* the first day of each month, and at last the day after the calendar
  Schedules,   \* the schedules tried: records [kind, day, time]
  MaxLag       \* bound: how late, in ticks, the goroutine may wake up

ASSUME CalendarAssumption ==
    /\ DayTicks \in Nat \ {0} /\ WeekDays \in Nat \ {0}
    /\ MonthStart \in Seq(Nat) /\ Len(MonthStart) > 1 /\ MonthStart[1] = 0
    /\ \A i, j \in DOMAIN MonthStart : i < j => MonthStart[i] < MonthStart[j]
\* Of the monthly schedules only the ends of months: a day of the month that is
\* still to come is taken for today (MonthlyNext).
ASSUME SchedulesAssumption ==
    \A s \in Schedules :
        /\ s \in [kind : {"daily", "weekly", "monthly"}, day : Nat, time : 0..(DayTicks - 1)]
        /\ s.kind = "weekly" => s.day < WeekDays
        /\ s.kind = "monthly" => s.day = 0
ASSUME LagAssumption == MaxLag \in Nat /\ MaxLag < DayTicks

VARIABLES
  sched,   \* the job's schedule
  planned,   \* what it was when due was computed
  now,     \* the clock
  start,   \* when Run was called, or the first wake-up after a call of At
  due,     \* the instant the goroutine sleeps until
  ran      \* the instants it was woken for since, the first wait of Run apart

dateVars == <<sched, planned, now, start, due, ran>>

EndOfMonth == 0

-----------------------------------------------------------------------------
(* The calendar. *)

Months == 1..(Len(MonthStart) - 1)
MonthLen(m) == MonthStart[m + 1] - MonthStart[m]
Days == 0..(MonthStart[Len(MonthStart)] - 1)

Today(t) == t \div DayTicks
Weekday(t) == Today(t) % WeekDays
Month(t) == CHOOSE m \in Months : MonthStart[m] <= Today(t) /\ Today(t) < MonthStart[m + 1]
DayOfMonth(t) == Today(t) - MonthStart[Month(t)] + 1

\* time.Date(year, month, day + n, time of s): days beyond the month carry over.
Date(t, n, s) == (Today(t) + n) * DayTicks + s.time

-----------------------------------------------------------------------------
(* nextRunAt at instant t. *)

DailyNext(t, s) == IF t < Date(t, 0, s) THEN Date(t, 0, s) ELSE Date(t, 1, s)

\* Mutant: a weekday that has passed is not carried into the next week.
WeeklyNextSameWeek(t, s) ==
    LET numDays == s.day - Weekday(t)
    IN  Date(t, IF numDays = 0 THEN (IF t > Date(t, 0, s) THEN WeekDays ELSE 0)
                ELSE IF numDays < 0 THEN 0 ELSE numDays, s)

WeeklyNext(t, s) ==
    LET numDays == s.day - Weekday(t)
    IN  Date(t, IF numDays = 0 THEN (IF t > Date(t, 0, s) THEN WeekDays ELSE 0)
                ELSE IF numDays < 0 THEN numDays + WeekDays ELSE numDays, s)

MonthlyNext(t, s) ==
    LET day == DayOfMonth(t)
        len == MonthLen(Month(t))
        passed == t > Date(t, 0, s)
        numDays ==
            IF s.day = EndOfMonth
              THEN IF day = len THEN (IF passed THEN MonthLen(Month(t) + 1) ELSE 0) ELSE len - day
              ELSE IF s.day < day \/ (s.day = day /\ passed) THEN len - day + s.day ELSE 0
    IN  Date(t, numDays, s)

NextRunAt(t, s) ==
    CASE s.kind = "daily"   -> DailyNext(t, s)
      [] s.kind = "weekly"  -> WeeklyNext(t, s)
      [] s.kind = "monthly" -> MonthlyNext(t, s)

-----------------------------------------------------------------------------
(* Run.  The first wait is 0, so the first instant is planned for at once. *)

\* Of the last month only the ends of waits are looked at.
LastDay == MonthStart[Len(MonthStart) - 1] - 1

DatesInit ==
    /\ sched \in Schedules /\ planned = sched
    /\ now \in 0..((LastDay + 1) * DayTicks - 1)
    /\ start = now
    /\ due = NextRunAt(now, sched)
    /\ ran = {}

\* The clock goes on, but no further than the goroutine can be late.
DatesTick ==
    /\ Today(now + 1) \in 0..LastDay
    /\ now + 1 <= due + MaxLag
    /\ now' = now + 1
    /\ UNCHANGED <<sched, planned, start, due, ran>>

\* At on a running job: the goroutine sleeps on.  (Of two calls during one wait
\* the first has no effect.)
AtWhileWaiting(t) ==
    /\ sched = planned
    /\ sched' = [sched EXCEPT !.time = t]
    /\ UNCHANGED <<planned, now, start, due, ran>>

\* The timer was set after the time until due was computed: it fires after it.
Wake ==
    /\ now > due
    /\ IF planned = sched THEN ran' = ran \cup {due} /\ start' = start ELSE ran' = {} /\ start' = now
    /\ due' = NextRunAt(now, sched) /\ planned' = sched
    /\ UNCHANGED <<sched, now>>

DatesNext == DatesTick \/ Wake \/ (\E t \in {0, DayTicks - 1} : AtWhileWaiting(t))

DatesSpec == DatesInit /\ [][DatesNext]_dateVars

-----------------------------------------------------------------------------
(* Properties. *)

\* What the schedule says: is t one of its instants?
OnSchedule(t, s) ==
    /\ t % DayTicks = s.time
    /\ s.kind = "weekly" => Weekday(t) = s.day
    /\ s.kind = "monthly" => DayOfMonth(t) = IF s.day = EndOfMonth THEN MonthLen(Month(t)) ELSE s.day

\* The goroutine is only ever woken for instants of the schedule.
RunsOnSchedule == Today(due) \in Days => OnSchedule(due, planned)

\* No instant of the schedule is passed over between the call of Run and the
\* instant the goroutine waits for, however late it wakes up each time.
NothingSkipped ==
    \A t \in (start + 1)..(due - 1) : OnSchedule(t, planned) => t \in ran

\* The goroutine is woken for every instant of the schedule and for no other; a
\* call of At counts from the next wake-up on.  The schedule is the one that the
\* chain of calls before Run asks for.
FollowsSchedule == RunsOnSchedule /\ NothingSkipped /\ ChainHeeded
=============================================================================
