---------------------------- MODULE SchedProofs -----------------------------
(***************************************************************************)
(* Proofs about package sched: the goroutine of a job is woken for every   *)
(* instant of its schedule and for no other, and the schedule is the one   *)
(* that the chain of calls before Run asked for.                           *)
(***************************************************************************)
EXTENDS SchedDates, TLAPS, WellFoundedInduction

-----------------------------------------------------------------------------
(* SchedDates: instants of a schedule.                                     *)

\* Division by a positive number, as the sum it undoes.
LEMMA Division ==
  ASSUME NEW k \in Nat \ {0}, NEW t \in Nat
  PROVE  /\ t \div k \in Nat /\ t % k \in 0..(k - 1)
         /\ t = (t \div k) * k + (t % k)
OBVIOUS

\* A product grows with its factor.
LEMMA Grows ==
  ASSUME NEW k \in Nat \ {0}, NEW p \in Nat, NEW q \in Nat, p < q
  PROVE  p * k + k <= q * k
OBVIOUS

\* There is one quotient and one remainder.
LEMMA OneQuotient ==
  ASSUME NEW k \in Nat \ {0}, NEW q \in Nat, NEW r \in 0..(k - 1)
  PROVE  (q * k + r) \div k = q /\ (q * k + r) % k = r
OBVIOUS

\* Two numbers with the same remainder are k apart.
LEMMA Apart ==
  ASSUME NEW k \in Nat \ {0}, NEW t \in Nat, NEW u \in Nat, t % k = u % k, t < u
  PROVE  t + k <= u
<1> DEFINE p == t \div k
           q == u \div k
<1>1. p \in Nat /\ q \in Nat /\ t % k \in 0..(k - 1) /\ t = p * k + (t % k) /\ u = q * k + (t % k)
  BY Division, Zenon
<1>2. CASE p < q
  BY <1>1, <1>2, Grows
<1>3. CASE q < p
  BY <1>1, <1>3, Grows
<1> QED BY <1>1, <1>2, <1>3

\* The number of a day.
LEMMA DayIn ==
  ASSUME NEW t \in Nat
  PROVE  Today(t) \in Nat
BY CalendarAssumption, Division, Zenon DEF Today

\* Instants are ordered by their day and, within a day, by their time.
LEMMA Earlier ==
  ASSUME NEW t \in Nat, NEW u \in Nat
  PROVE  /\ t < u => Today(t) <= Today(u)
         /\ Today(t) < Today(u) => t < u
         /\ Today(t) = Today(u) => (t < u <=> t % DayTicks < u % DayTicks)
<1> DEFINE k == DayTicks
           p == t \div k
           q == u \div k
<1>1. k \in Nat \ {0}
  BY CalendarAssumption
<1>2. p \in Nat /\ q \in Nat /\ t % k \in 0..(k - 1) /\ u % k \in 0..(k - 1)
  BY <1>1, Division, Zenon
<1>3. t = p * k + (t % k) /\ u = q * k + (u % k)
  BY <1>1, Division
<1>4. p < q => p * k + k <= q * k
  BY <1>1, <1>2, Grows
<1>5. q < p => q * k + k <= p * k
  BY <1>1, <1>2, Grows
<1>6. p * k \in Nat /\ q * k \in Nat
  BY <1>1, <1>2
<1> HIDE DEF p, q
<1>7. /\ t < u => p <= q
      /\ p < q => t < u
      /\ p = q => (t < u <=> t % k < u % k)
  BY <1>1, <1>2, <1>3, <1>4, <1>5, <1>6
<1> QED BY <1>7 DEF Today, p, q

\* A schedule that nextRunAt follows.
Sound(s) ==
    /\ s \in [kind : {"daily", "weekly", "monthly"}, day : Nat, time : 0..(DayTicks - 1)]
    /\ s.kind = "weekly" => s.day < WeekDays
    /\ s.kind = "monthly" => s.day = EndOfMonth

\* The day and the time of what time.Date answers.
LEMMA DateIs ==
  ASSUME NEW t \in Nat, NEW n \in Nat, NEW s, Sound(s)
  PROVE  /\ Today(t) \in Nat /\ Date(t, n, s) \in Nat
         /\ Today(Date(t, n, s)) = Today(t) + n /\ Date(t, n, s) % DayTicks = s.time
<1>1. Today(t) \in Nat /\ s.time \in 0..(DayTicks - 1) /\ DayTicks \in Nat \ {0}
  BY CalendarAssumption, Division, Zenon DEF Today, Sound
<1>2. PICK d \in Nat : d = Today(t) + n
  BY <1>1
<1>3. (d * DayTicks + s.time) \div DayTicks = d /\ (d * DayTicks + s.time) % DayTicks = s.time
  BY <1>1, OneQuotient, Zenon
<1>4. d * DayTicks + s.time \in Nat
  BY <1>1
<1> QED BY <1>1, <1>2, <1>3, <1>4, Zenon DEF Date, Today

\* A weekday that is n days ahead.
LEMMA WeekdayAhead ==
  ASSUME NEW d \in Nat, NEW day \in 0..(WeekDays - 1), NEW n \in Nat,
         n = day - (d % WeekDays) \/ n = day - (d % WeekDays) + WeekDays
  PROVE  (d + n) % WeekDays = day
<1>1. WeekDays \in Nat \ {0}
  BY CalendarAssumption
<1>2. PICK q \in Nat : d = q * WeekDays + (d % WeekDays)
  BY <1>1, Division, Zenon
<1>3. d % WeekDays \in 0..(WeekDays - 1)
  BY <1>1, Division
<1>4. CASE n = day - (d % WeekDays)
  <2>1. d + n = q * WeekDays + day
    BY <1>1, <1>2, <1>3, <1>4
  <2> QED BY <1>1, <2>1, OneQuotient, Zenon
<1>5. CASE n = day - (d % WeekDays) + WeekDays
  <2>1. PICK r \in Nat : r = q + 1
    OBVIOUS
  <2>2. d + n = r * WeekDays + day
    BY <1>1, <1>2, <1>3, <1>5, <2>1
  <2>3. (r * WeekDays + day) % WeekDays = day
    BY <1>1, OneQuotient, Zenon
  <2> QED BY <2>2, <2>3
<1> QED BY <1>4, <1>5

\* A day lies in one month.
LEMMA MonthIs ==
  ASSUME NEW t \in Nat, NEW m \in Months, MonthStart[m] <= Today(t), Today(t) < MonthStart[m + 1]
  PROVE  Month(t) = m
<1>1. Today(t) \in Nat
  BY DayIn
<1>2. \A i \in Months : i \in DOMAIN MonthStart /\ i + 1 \in DOMAIN MonthStart /\ MonthStart[i] \in Nat /\ MonthStart[i + 1] \in Nat
  BY CalendarAssumption DEF Months
<1>3. ASSUME NEW i \in Months, MonthStart[i] <= Today(t), Today(t) < MonthStart[i + 1]
      PROVE  i = m
  <2>1. i \in Nat /\ m \in Nat
    BY CalendarAssumption DEF Months
  <2>2. CASE i < m
    <3>1. i + 1 = m \/ MonthStart[i + 1] < MonthStart[m]
      BY <1>2, <2>1, <2>2, CalendarAssumption
    <3> QED BY <1>1, <1>2, <1>3, <3>1
  <2>3. CASE m < i
    <3>1. m + 1 = i \/ MonthStart[m + 1] < MonthStart[i]
      BY <1>2, <2>1, <2>3, CalendarAssumption
    <3> QED BY <1>1, <1>2, <1>3, <3>1
  <2> QED BY <2>1, <2>2, <2>3
<1> QED BY <1>3 DEF Month

\* Every day before the last month has a month.
LEMMA HasMonth ==
  ASSUME NEW t \in Nat, Today(t) \in 0..LastDay
  PROVE  \E m \in Months : /\ m + 1 \in Months /\ Month(t) = m
                            /\ MonthStart[m] <= Today(t) /\ Today(t) < MonthStart[m + 1]
<1> DEFINE L == Len(MonthStart)
           T == {i \in Nat : i \in 1..L /\ Today(t) < MonthStart[i]}
           R == OpToRel(<, Nat)
<1>1. L \in Nat /\ L > 1 /\ \A i \in 1..L : MonthStart[i] \in Nat
  BY CalendarAssumption
<1>2. Today(t) \in Nat /\ Today(t) < MonthStart[L - 1]
  BY <1>1 DEF LastDay
<1>3. T \subseteq Nat /\ L - 1 \in T
  BY <1>1, <1>2
<1>4. \E x \in T : \A y \in T : ~(<<y, x>> \in R)
  BY <1>3, WFMin, NatLessThanWellFounded, Zenon
<1>5. PICK x \in T : \A y \in T : ~(y < x)
  BY <1>3, <1>4, Zenon DEF OpToRel
<1>6. x # 1
  BY <1>2, <1>5, CalendarAssumption
<1>7. x <= L - 1 /\ x > 1
  BY <1>1, <1>3, <1>5, <1>6
<1>8. x - 1 \notin T
  BY <1>5
<1>9. MonthStart[x - 1] <= Today(t) /\ Today(t) < MonthStart[x]
  BY <1>1, <1>2, <1>5, <1>7, <1>8
<1>10. x - 1 \in Months /\ (x - 1) + 1 = x /\ x \in Months
  BY <1>1, <1>7 DEF Months
<1> QED BY <1>9, <1>10, MonthIs

-----------------------------------------------------------------------------
(* SchedDates: nextRunAt.                                                  *)

\* What nextRunAt promises at t: the time of day and, in the calendar, the day
\* are those of the schedule, and no instant of it lies between.
Next1(t, u, s) ==
    /\ u \in Nat /\ t <= u /\ u % DayTicks = s.time
    /\ Today(u) \in Days => OnSchedule(u, s)
    /\ \A v \in (t + 1)..(u - 1) : ~OnSchedule(v, s)

\* An instant of s after t and before Date(t, n, s) is of a day from today on and
\* before the n-th, and today only if the time has not come.
LEMMA Between ==
  ASSUME NEW t \in Nat, NEW n \in Nat, NEW s, Sound(s), NEW v \in (t + 1)..(Date(t, n, s) - 1),
         v % DayTicks = s.time
  PROVE  /\ v \in Nat /\ Today(v) \in Nat /\ Today(t) <= Today(v) /\ Today(v) < Today(t) + n
         /\ Today(v) = Today(t) => t < Date(t, 0, s)
<1>1. /\ Today(t) \in Nat /\ Date(t, n, s) \in Nat
      /\ Today(Date(t, n, s)) = Today(t) + n /\ Date(t, n, s) % DayTicks = s.time
  BY DateIs, Zenon
<1>2. /\ Date(t, 0, s) \in Nat
      /\ Today(Date(t, 0, s)) = Today(t) /\ Date(t, 0, s) % DayTicks = s.time
  BY DateIs
<1>3. v \in Nat /\ t < v /\ v < Date(t, n, s)
  BY <1>1
<1>4. Today(v) \in Nat /\ s.time \in Nat
  BY <1>3, DayIn, CalendarAssumption DEF Sound
<1>5. Today(t) <= Today(v) /\ Today(v) <= Today(t) + n
  BY <1>1, <1>3, Earlier
<1>6. Today(v) # Today(t) + n
  BY <1>1, <1>3, <1>4, Earlier
<1>7. ASSUME Today(v) = Today(t)
      PROVE  t < Date(t, 0, s)
  <2>1. t % DayTicks < v % DayTicks
    BY <1>3, <1>7, Earlier
  <2> QED BY <1>2, <2>1, Earlier
<1> QED BY <1>1, <1>3, <1>4, <1>5, <1>6, <1>7

\* Date(t, n, s) does not lie before t unless the time of today is over.
LEMMA NotBefore ==
  ASSUME NEW t \in Nat, NEW n \in Nat, NEW s, Sound(s), n = 0 => ~(t > Date(t, 0, s))
  PROVE  t <= Date(t, n, s)
<1>1. /\ Today(t) \in Nat /\ Date(t, n, s) \in Nat /\ Today(Date(t, n, s)) = Today(t) + n
  BY DateIs
<1>2. CASE n = 0
  BY <1>1, <1>2
<1>3. CASE n # 0
  <2>1. Today(t) < Today(Date(t, n, s))
    BY <1>1, <1>3
  <2> QED BY <1>1, <2>1, Earlier
<1> QED BY <1>2, <1>3

\* daily.nextRunAt.
LEMMA DailyIsNext ==
  ASSUME NEW t \in Nat, NEW s, Sound(s), s.kind = "daily"
  PROVE  Next1(t, DailyNext(t, s), s)
<1>1. PICK n \in {0, 1} : DailyNext(t, s) = Date(t, n, s) /\ (n = 0 <=> t < Date(t, 0, s))
  BY DEF DailyNext
<1>2. /\ Today(t) \in Nat /\ Date(t, n, s) \in Nat /\ Date(t, 0, s) \in Nat /\ Date(t, n, s) % DayTicks = s.time
  BY DateIs
<1>3. t <= Date(t, n, s)
  <2>1. n = 0 => ~(t > Date(t, 0, s))
    BY <1>1, <1>2
  <2> QED BY <2>1, NotBefore
<1>4. ASSUME NEW v \in (t + 1)..(Date(t, n, s) - 1), OnSchedule(v, s)
      PROVE  FALSE
  <2>1. v % DayTicks = s.time
    BY <1>4 DEF OnSchedule
  <2>2. /\ Today(v) \in Nat /\ Today(t) <= Today(v) /\ Today(v) < Today(t) + n
        /\ Today(v) = Today(t) => t < Date(t, 0, s)
    BY <2>1, Between, Zenon
  <2> QED BY <1>1, <1>2, <2>2
<1> QED BY <1>1, <1>2, <1>3, <1>4, Zenon DEF Next1, OnSchedule

\* weekly.nextRunAt.
LEMMA WeeklyIsNext ==
  ASSUME NEW t \in Nat, NEW s, Sound(s), s.kind = "weekly"
  PROVE  Next1(t, WeeklyNext(t, s), s)
<1> DEFINE passed == t > Date(t, 0, s)
<1>1. Today(t) \in Nat /\ WeekDays \in Nat \ {0} /\ s.day \in 0..(WeekDays - 1)
  <2>1. Today(t) \in Nat
    BY DayIn
  <2>2. WeekDays \in Nat \ {0}
    BY CalendarAssumption
  <2>3. s.day \in 0..(WeekDays - 1)
    BY <2>2 DEF Sound
  <2> QED BY <2>1, <2>2, <2>3
<1>2. Weekday(t) \in 0..(WeekDays - 1)
  BY <1>1, Division, Zenon DEF Weekday
<1>3. PICK n \in 0..WeekDays :
          /\ WeeklyNext(t, s) = Date(t, n, s)
          /\ n = s.day - Weekday(t) \/ n = s.day - Weekday(t) + WeekDays
          /\ n = 0 => ~passed
          /\ n = WeekDays => passed
  <2>1. CASE s.day = Weekday(t) /\ passed
    BY <1>1, <1>2, <2>1 DEF WeeklyNext
  <2>2. CASE s.day = Weekday(t) /\ ~passed
    BY <1>1, <1>2, <2>2 DEF WeeklyNext
  <2>3. CASE s.day < Weekday(t)
    BY <1>1, <1>2, <2>3 DEF WeeklyNext
  <2>4. CASE s.day > Weekday(t)
    BY <1>1, <1>2, <2>4 DEF WeeklyNext
  <2> QED BY <1>1, <1>2, <2>1, <2>2, <2>3, <2>4
<1>4. /\ n \in Nat /\ Date(t, n, s) \in Nat /\ Date(t, 0, s) \in Nat
      /\ Today(Date(t, n, s)) = Today(t) + n /\ Date(t, n, s) % DayTicks = s.time
  <2>1. n \in Nat
    BY <1>1
  <2> QED BY <2>1, DateIs
<1>5. t <= Date(t, n, s)
  BY <1>3, <1>4, NotBefore
<1>6. (Today(t) + n) % WeekDays = s.day
  BY <1>1, <1>3, <1>4, WeekdayAhead, Zenon DEF Weekday
<1>7. ASSUME NEW v \in (t + 1)..(Date(t, n, s) - 1), OnSchedule(v, s)
      PROVE  FALSE
  <2>1. v % DayTicks = s.time /\ Today(v) % WeekDays = s.day
    BY <1>7 DEF OnSchedule, Weekday
  <2>2. /\ Today(v) \in Nat /\ Today(t) <= Today(v) /\ Today(v) < Today(t) + n
        /\ Today(v) = Today(t) => t < Date(t, 0, s)
    BY <1>4, <2>1, Between, Zenon
  <2>3. Today(v) + WeekDays <= Today(t) + n
    <3>1. PICK e \in Nat : e = Today(t) + n
      BY <1>1, <1>4
    <3> QED BY <1>1, <1>6, <2>1, <2>2, <3>1, Apart
  <2>4. Today(v) = Today(t) /\ n = WeekDays
    BY <1>1, <1>4, <2>2, <2>3
  <2> QED BY <1>3, <1>4, <2>2, <2>4
<1>8. OnSchedule(Date(t, n, s), s)
  BY <1>4, <1>6 DEF OnSchedule, Weekday
<1> QED BY <1>3, <1>4, <1>5, <1>7, <1>8, Zenon DEF Next1

\* monthly.nextRunAt for the ends of the months.
LEMMA MonthlyIsNext ==
  ASSUME NEW t \in Nat, Today(t) \in 0..LastDay, NEW s, Sound(s), s.kind = "monthly"
  PROVE  Next1(t, MonthlyNext(t, s), s)
<1> DEFINE passed == t > Date(t, 0, s)
<1>1. PICK m \in Months : /\ m + 1 \in Months /\ Month(t) = m
                          /\ MonthStart[m] <= Today(t) /\ Today(t) < MonthStart[m + 1]
  BY HasMonth
<1>2. /\ Today(t) \in Nat /\ m \in Nat /\ (m + 1) + 1 = m + 2
      /\ MonthStart[m] \in Nat /\ MonthStart[m + 1] \in Nat /\ MonthStart[m + 2] \in Nat
      /\ MonthStart[m + 1] < MonthStart[m + 2]
  <2>1. m \in DOMAIN MonthStart /\ m + 1 \in DOMAIN MonthStart /\ m + 2 \in DOMAIN MonthStart
    BY <1>1, CalendarAssumption DEF Months
  <2>2. m \in Nat /\ m + 1 < m + 2
    BY <1>1 DEF Months
  <2>3. Today(t) \in Nat
    BY DayIn
  <2>4. \A i \in DOMAIN MonthStart : MonthStart[i] \in Nat
    BY CalendarAssumption
  <2>5. MonthStart[m + 1] < MonthStart[m + 2]
    BY <2>1, <2>2, CalendarAssumption
  <2> QED BY <2>1, <2>2, <2>3, <2>4, <2>5
<1>3. s.day = EndOfMonth
  BY DEF Sound
<1>4. PICK n \in Nat, k \in {m, m + 1} :
          /\ MonthlyNext(t, s) = Date(t, n, s)
          /\ Today(t) + n = MonthStart[k + 1] - 1
          /\ n = 0 => ~passed
          /\ k = m + 1 => passed /\ Today(t) = MonthStart[m + 1] - 1
  <2> DEFINE len == MonthStart[m + 1] - MonthStart[m]
             day == Today(t) - MonthStart[m] + 1
  <2>1. MonthlyNext(t, s) = Date(t, IF day = len THEN (IF passed THEN MonthStart[m + 2] - MonthStart[m + 1] ELSE 0) ELSE len - day, s)
    BY <1>1, <1>2, <1>3, Zenon DEF MonthlyNext, DayOfMonth, MonthLen
  <2>2. CASE day = len /\ passed
    <3>1. PICK n \in Nat : n = MonthStart[m + 2] - MonthStart[m + 1] /\ n # 0
      BY <1>2
    <3> QED BY <1>2, <2>1, <2>2, <3>1
  <2>3. CASE day = len /\ ~passed
    BY <1>2, <2>1, <2>3
  <2>4. CASE day # len
    <3>1. PICK n \in Nat : n = len - day /\ n # 0
      BY <1>1, <1>2, <2>4
    <3> QED BY <1>2, <2>1, <2>4, <3>1
  <2> QED BY <2>2, <2>3, <2>4, Zenon
<1>5. /\ Date(t, n, s) \in Nat /\ Date(t, 0, s) \in Nat
      /\ Today(Date(t, n, s)) = Today(t) + n /\ Date(t, n, s) % DayTicks = s.time
  BY DateIs, ZenonT(60)
<1>6. t <= Date(t, n, s)
  BY <1>4, NotBefore
<1>7. ASSUME NEW v \in Nat, NEW j \in {m, m + 1}, MonthStart[j] <= Today(v), Today(v) < MonthStart[j + 1]
      PROVE  DayOfMonth(v) = MonthLen(Month(v)) <=> Today(v) = MonthStart[j + 1] - 1
  <2>1. Month(v) = j
    BY <1>1, <1>7, MonthIs
  <2>2. Today(v) \in Nat /\ MonthStart[j] \in Nat /\ MonthStart[j + 1] \in Nat
    BY <1>2, DayIn
  <2> QED BY <2>1, <2>2 DEF DayOfMonth, MonthLen
<1>8. ASSUME NEW v \in (t + 1)..(Date(t, n, s) - 1), OnSchedule(v, s)
      PROVE  FALSE
  <2>1. v % DayTicks = s.time /\ DayOfMonth(v) = MonthLen(Month(v))
    BY <1>3, <1>8 DEF OnSchedule
  <2>2. /\ v \in Nat /\ Today(v) \in Nat /\ Today(t) <= Today(v) /\ Today(v) < Today(t) + n
        /\ Today(v) = Today(t) => t < Date(t, 0, s)
    BY <2>1, Between, Zenon
  <2>3. CASE Today(v) < MonthStart[m + 1]
    <3>1. Today(v) = MonthStart[m + 1] - 1
      BY <1>1, <1>2, <1>7, <2>1, <2>2, <2>3
    <3> QED BY <1>1, <1>2, <1>4, <1>5, <2>2, <3>1
  <2>4. CASE Today(v) >= MonthStart[m + 1]
    <3>1. k = m + 1
      BY <1>2, <1>4, <2>2, <2>4
    <3>2. Today(v) = MonthStart[m + 2] - 1
      BY <1>2, <1>4, <1>7, <2>1, <2>2, <2>4, <3>1
    <3> QED BY <1>2, <1>4, <2>2, <3>1, <3>2
  <2> QED BY <1>2, <2>2, <2>3, <2>4
<1>9. OnSchedule(Date(t, n, s), s)
  <2>1. MonthStart[k] < MonthStart[k + 1] /\ MonthStart[k] \in Nat /\ MonthStart[k + 1] \in Nat
    BY <1>1, <1>2
  <2>2. MonthStart[k] <= Today(Date(t, n, s)) /\ Today(Date(t, n, s)) < MonthStart[k + 1]
    BY <1>2, <1>4, <1>5, <2>1
  <2>3. DayOfMonth(Date(t, n, s)) = MonthLen(Month(Date(t, n, s)))
    BY <1>4, <1>5, <1>7, <2>2, Zenon
  <2> QED BY <1>3, <1>5, <2>3 DEF OnSchedule
<1> QED BY <1>4, <1>5, <1>6, <1>8, <1>9, Zenon DEF Next1

\* nextRunAt answers the next instant of the schedule.
LEMMA NextIsNext ==
  ASSUME NEW t \in Nat, Today(t) \in 0..LastDay, NEW s, Sound(s)
  PROVE  Next1(t, NextRunAt(t, s), s)
<1>1. s.kind \in {"daily", "weekly", "monthly"}
  BY DEF Sound
<1>2. CASE s.kind = "daily"
  BY <1>2, DailyIsNext DEF NextRunAt
<1>3. CASE s.kind = "weekly"
  BY <1>3, WeeklyIsNext DEF NextRunAt
<1>4. CASE s.kind = "monthly"
  BY <1>4, MonthlyIsNext DEF NextRunAt
<1> QED BY <1>1, <1>2, <1>3, <1>4

-----------------------------------------------------------------------------
(* SchedDates: the inductive invariant.                                    *)

\* The clock is in the calendar and at most MaxLag beyond the instant waited for,
\* which has the time of day of the schedule it was planned by.
Waiting ==
    /\ Sound(sched) /\ Sound(planned)
    /\ now \in Nat /\ start \in Nat /\ due \in Nat
    /\ Today(now) \in 0..LastDay
    /\ now <= due + MaxLag
    /\ due % DayTicks = planned.time

DInv == Waiting /\ RunsOnSchedule /\ NothingSkipped

\* What planning the next wait establishes.
LEMMA Planned ==
  ASSUME now \in Nat, Today(now) \in 0..LastDay, NEW s, Sound(s), NEW u, u = NextRunAt(now, s)
  PROVE  /\ u \in Nat /\ now <= u + MaxLag /\ u % DayTicks = s.time
         /\ Today(u) \in Days => OnSchedule(u, s)
         /\ \A v \in (now + 1)..(u - 1) : ~OnSchedule(v, s)
<1>1. Next1(now, u, s)
  BY NextIsNext
<1>2. u \in Nat /\ now <= u /\ MaxLag \in Nat
  BY <1>1, LagAssumption DEF Next1
<1>3. now <= u + MaxLag
  BY <1>2
<1> QED BY <1>1, <1>2, <1>3 DEF Next1

\* Run plans the first wait.
LEMMA DatesStart == DatesInit => DInv
<1> SUFFICES ASSUME DatesInit
             PROVE  DInv
  OBVIOUS
<1>1. Sound(sched) /\ planned = sched /\ start = now /\ due = NextRunAt(now, sched)
  BY SchedulesAssumption DEF DatesInit, Sound, EndOfMonth
<1>2. LastDay \in Int /\ DayTicks \in Nat \ {0} /\ LastDay + 1 \in Nat
  BY CalendarAssumption DEF LastDay
<1>3. now \in 0..((LastDay + 1) * DayTicks - 1)
  BY DEF DatesInit
<1>4. now \in Nat
  BY <1>2, <1>3
<1>5. Today(now) \in 0..LastDay
  <2>1. PICK d \in Nat : d = LastDay + 1
    BY <1>2
  <2>2. PICK u \in Nat : u = d * DayTicks + 0
    BY <1>2
  <2>3. u \div DayTicks = d /\ u % DayTicks = 0
    BY <1>2, <2>2, OneQuotient
  <2>4. now < u
    BY <1>2, <1>3, <2>1, <2>2
  <2>5. now % DayTicks \in Nat /\ Today(now) \in Nat
    BY <1>2, <1>4, Division DEF Today
  <2>6. Today(now) <= d /\ Today(now) # d
    BY <1>4, <2>3, <2>4, <2>5, Earlier DEF Today
  <2> QED BY <1>2, <2>1, <2>5, <2>6
<1>6. Waiting /\ RunsOnSchedule
  BY <1>1, <1>4, <1>5, Planned DEF Waiting, RunsOnSchedule
<1>7. NothingSkipped
  BY <1>1, <1>4, <1>5, Planned DEF NothingSkipped
<1> QED BY <1>6, <1>7 DEF DInv

\* The clock goes on, or At changes the time of day for the next wait.
LEMMA WaitKeeps ==
  ASSUME DInv, DatesTick \/ \E t \in {0, DayTicks - 1} : AtWhileWaiting(t)
  PROVE  DInv'
<1>1. UNCHANGED <<planned, start, due, ran>>
  BY DEF DatesTick, AtWhileWaiting
<1>2. RunsOnSchedule' /\ NothingSkipped'
  BY <1>1, Zenon DEF DInv, RunsOnSchedule, NothingSkipped, OnSchedule
<1>3. CASE DatesTick
  BY <1>1, <1>2, <1>3, LagAssumption DEF DInv, Waiting, DatesTick, Sound
<1>4. ASSUME NEW t \in {0, DayTicks - 1}, AtWhileWaiting(t)
      PROVE  DInv'
  <2>1. t \in 0..(DayTicks - 1)
    BY CalendarAssumption
  <2>2. Sound(sched)'
    BY <1>4, <2>1 DEF DInv, Waiting, AtWhileWaiting, Sound
  <2>3. now' = now
    BY <1>4 DEF AtWhileWaiting
  <2> QED BY <1>1, <1>2, <2>2, <2>3, Zenon DEF DInv, Waiting, Sound
<1> QED BY <1>3, <1>4

\* A wake-up: no instant lies between the one waited for and the clock, because
\* the goroutine is less than a day late, and none between the clock and the next.
LEMMA WakeKeeps ==
  ASSUME DInv, Wake
  PROVE  DInv'
<1>1. /\ now' = now /\ sched' = sched /\ planned' = sched /\ due' = NextRunAt(now, sched) /\ now > due
      /\ IF planned = sched THEN ran' = ran \cup {due} /\ start' = start ELSE ran' = {} /\ start' = now
  BY DEF Wake
<1>2. PICK u : u = NextRunAt(now, sched)
  OBVIOUS
<1>3. /\ Sound(sched) /\ now \in Nat /\ start \in Nat /\ due \in Nat
      /\ Today(now) \in 0..LastDay /\ now <= due + MaxLag /\ due % DayTicks = planned.time
  BY DEF DInv, Waiting
<1>4. /\ u \in Nat /\ now <= u + MaxLag /\ u % DayTicks = sched.time
      /\ Today(u) \in Days => OnSchedule(u, sched)
      /\ \A v \in (now + 1)..(u - 1) : ~OnSchedule(v, sched)
  BY <1>2, <1>3, Planned
<1>5. Waiting'
  <2>1. start' \in Nat
    BY <1>1, <1>3
  <2> QED BY <1>1, <1>2, <1>3, <1>4, <2>1, Zenon DEF Waiting, Sound
<1>6. RunsOnSchedule'
  BY <1>1, <1>2, <1>4, Zenon DEF RunsOnSchedule, OnSchedule
<1>7. ASSUME NEW t \in (start' + 1)..(u - 1), OnSchedule(t, sched)
      PROVE  t \in ran'
  <2>1. CASE planned # sched
    BY <1>1, <1>4, <1>7, <2>1
  <2>2. CASE planned = sched
    <3>1. start' = start /\ ran' = ran \cup {due} /\ t \in Nat
      BY <1>1, <1>3, <1>7, <2>2
    <3>2. CASE t < due
      BY <1>3, <1>4, <1>7, <2>2, <3>1, <3>2 DEF DInv, NothingSkipped
    <3>3. CASE due < t /\ t <= now
      <4>1. t % DayTicks = due % DayTicks
        BY <1>3, <1>7, <2>2 DEF OnSchedule
      <4>2. DayTicks \in Nat \ {0} /\ MaxLag \in Nat /\ MaxLag < DayTicks
        BY CalendarAssumption, LagAssumption
      <4>3. due + DayTicks <= t
        BY <1>3, <3>1, <3>3, <4>1, <4>2, Apart, Zenon
      <4> QED BY <1>3, <3>1, <3>3, <4>2, <4>3
    <3>4. CASE t > now
      BY <1>3, <1>4, <1>7, <3>1, <3>4
    <3> QED BY <1>3, <3>1, <3>2, <3>3, <3>4
  <2> QED BY <2>1, <2>2
<1>8. NothingSkipped'
  BY <1>1, <1>2, <1>7 DEF NothingSkipped, OnSchedule
<1> QED BY <1>5, <1>6, <1>8 DEF DInv

\* The goroutine of Run follows any daily, weekly or end-of-month schedule.
LEMMA DatesFollow == DatesSpec => [](RunsOnSchedule /\ NothingSkipped)
<1>1. DInv /\ [DatesNext]_dateVars => DInv'
  <2> SUFFICES ASSUME DInv, [DatesNext]_dateVars
               PROVE  DInv'
    OBVIOUS
  <2>1. CASE UNCHANGED dateVars
    BY <2>1, Zenon DEF dateVars, DInv, Waiting, RunsOnSchedule, NothingSkipped, OnSchedule, Sound
  <2> QED BY <2>1, WaitKeeps, WakeKeeps DEF DatesNext
<1>2. DInv => RunsOnSchedule /\ NothingSkipped
  BY DEF DInv
<1> QED BY <1>1, <1>2, DatesStart, PTL DEF DatesSpec

-----------------------------------------------------------------------------
(* SchedBuild: chains of calls.                                            *)

\* A set of numbers from 1 to n has a greatest one.
LEMMA Greatest ==
  ASSUME NEW n \in Nat, NEW S \in SUBSET (1..n), S # {}
  PROVE  Max(S) \in S
<1> DEFINE T == {n - x : x \in S}
           R == OpToRel(<, Nat)
<1>1. T \subseteq Nat /\ T # {}
  <2>1. \A x \in S : n - x \in Nat
    OBVIOUS
  <2> QED BY <2>1, Zenon
<1>2. \E x \in T : \A y \in T : ~(<<y, x>> \in R)
  BY <1>1, WFMin, NatLessThanWellFounded, Zenon
<1>3. PICK x \in T : \A y \in T : ~(y < x)
  BY <1>1, <1>2, Zenon DEF OpToRel
<1>4. PICK s \in S : x = n - s
  OBVIOUS
<1>5. ASSUME NEW r \in S
      PROVE  s >= r
  <2>1. ~(n - r < n - s)
    BY <1>3, <1>4, Zenon
  <2>2. r \in Nat /\ s \in Nat
    OBVIOUS
  <2> QED BY <2>1, <2>2
<1>6. \E z \in S : \A r \in S : z >= r
  BY <1>5
<1> QED BY <1>6, Zenon DEF Max

\* The call that comes last is the greatest.
LEMMA GreatestNew ==
  ASSUME NEW n \in Nat, NEW S \in SUBSET (1..n)
  PROVE  Max(S \cup {n + 1}) = n + 1
<1>1. \A r \in S \cup {n + 1} : n + 1 >= r
  OBVIOUS
<1>2. \A z \in S \cup {n + 1} : (\A r \in S \cup {n + 1} : z >= r) => z = n + 1
  OBVIOUS
<1> QED BY <1>1, <1>2, Zenon DEF Max

\* d is c, of n calls, with one more call e.
More(c, d, n, e) == n \in Nat /\ d[n + 1] = e /\ \A i \in 1..n : d[i] = c[i]

\* The calls of a name, after one more call e.
LEMMA Same ==
  ASSUME NEW c, NEW d, NEW n, NEW e, More(c, d, n, e), NEW x, NEW i \in 0..n
  PROVE  Of(d, x, i) = Of(c, x, i) /\ Of(c, x, i) \subseteq 1..n
BY DEF Of, More

OneMoreOf(c, d, n, e) ==
    \A x : Of(d, x, n + 1) = IF x = e[1] THEN Of(c, x, n) \cup {n + 1} ELSE Of(c, x, n)

\* One more call is one more of its name.
LEMMA Grown ==
  ASSUME NEW c, NEW d, NEW n, NEW e, More(c, d, n, e)
  PROVE  OneMoreOf(c, d, n, e)
BY DEF Of, More, OneMoreOf

\* The last argument, after one more call e.
LEMMA LastGrown ==
  ASSUME NEW c, NEW d, NEW n, NEW e, More(c, d, n, e), NEW S \in SUBSET (1..n), NEW v
  PROVE  LastOf(d, S, v) = LastOf(c, S, v) /\ LastOf(d, S \cup {n + 1}, v) = e[2]
<1>1. n \in Nat /\ d[n + 1] = e /\ \A i \in 1..n : d[i] = c[i]
  BY DEF More
<1>2. S # {} => Max(S) \in 1..n
  BY <1>1, Greatest, Zenon
<1>3. Max(S \cup {n + 1}) = n + 1
  BY <1>1, GreatestNew
<1> QED BY <1>1, <1>2, <1>3 DEF LastOf

\* Whether a call fits those before it.
FitsAfter(m, c, n, e) ==
    IF m # <<>> THEN e[1] \notin {"MDay", "dayOfWeek", "DDay", "At"}
    ELSE /\ e[1] # "RNotImmediately"
         /\ e[1] \in {"MDay", "dayOfWeek", "DDay"} =>
                \A j \in DaysOf(c, n) : c[j][1] = e[1] /\ e[1] # "dayOfWeek"
         /\ e[1] = "At" => ~parseTimeFails(e[2]) /\ DaysOf(c, n) # {}

\* Days are of one kind, and times come after a day.
OneDay(c, D) == \A i, j \in D : c[i][1] = c[j][1] /\ (c[i][1] = "dayOfWeek" => i = j)
TimesAfter(c, T, D) == \A i \in T : ~parseTimeFails(c[i][2]) /\ \E j \in D : j < i

\* What Fits says of a recurrent job and of one with days.
LEMMA FitsIs ==
  ASSUME NEW m, NEW c, NEW n
  PROVE  /\ m # <<>> => (Fits(m, c, n) <=> DaysOf(c, n) \cup Of(c, "At", n) = {})
         /\ m = <<>> => (Fits(m, c, n) <=> /\ Of(c, "RNotImmediately", n) = {} /\ OneDay(c, DaysOf(c, n))
                                          /\ TimesAfter(c, Of(c, "At", n), DaysOf(c, n)))
BY Zenon DEF Fits, OneDay, TimesAfter

\* What was said of the first calls is not changed by one more.
LEMMA FitsBefore ==
  ASSUME NEW c, NEW d, NEW n, NEW e, More(c, d, n, e),
         NEW i \in 0..n, NEW m
  PROVE  Fits(m, d, i) <=> Fits(m, c, i)
<1>1. n \in Nat /\ \A k \in 1..n : d[k] = c[k]
  BY DEF More
<1>2. \A x : Of(d, x, i) = Of(c, x, i) /\ Of(c, x, i) \subseteq 1..n
  BY Same, Zenon
<1>3. DaysOf(d, i) = DaysOf(c, i) /\ DaysOf(c, i) \subseteq 1..n /\ Of(c, "At", i) \subseteq 1..n
  BY <1>2 DEF DaysOf
<1>4. OneDay(d, DaysOf(c, i)) <=> OneDay(c, DaysOf(c, i))
  BY <1>1, <1>3 DEF OneDay
<1>5. TimesAfter(d, Of(c, "At", i), DaysOf(c, i)) <=> TimesAfter(c, Of(c, "At", i), DaysOf(c, i))
  <2>1. \A k \in Of(c, "At", i) : d[k] = c[k]
    BY <1>1, <1>3
  <2> QED BY <2>1, Zenon DEF TimesAfter
<1>6. Of(d, "At", i) = Of(c, "At", i) /\ Of(d, "RNotImmediately", i) = Of(c, "RNotImmediately", i) /\ DaysOf(d, i) = DaysOf(c, i)
  BY <1>2, <1>3, Zenon
<1> QED BY <1>4, <1>5, <1>6, FitsIs, Zenon

\* A chain fits if it did before and the call does.
LEMMA FitsGrown ==
  ASSUME NEW c, NEW d, NEW n, NEW e, More(c, d, n, e), NEW m
  PROVE  Fits(m, d, n + 1) <=> Fits(m, c, n) /\ FitsAfter(m, c, n, e)
<1>1. n \in Nat /\ d[n + 1] = e /\ \A k \in 1..n : d[k] = c[k]
  BY DEF More
<1>2. \A x : Of(d, x, n + 1) = IF x = e[1] THEN Of(c, x, n) \cup {n + 1} ELSE Of(c, x, n)
  BY Grown DEF OneMoreOf
<1>3. /\ DaysOf(d, n + 1) = IF e[1] \in {"MDay", "dayOfWeek", "DDay"} THEN DaysOf(c, n) \cup {n + 1} ELSE DaysOf(c, n)
      /\ DaysOf(c, n) \subseteq 1..n
  <2>1. \A x : Of(c, x, n) \subseteq 1..n
    BY DEF Of
  <2>2. DaysOf(c, n) \subseteq 1..n
    BY <2>1 DEF DaysOf
  <2>3. /\ Of(d, "MDay", n + 1) = IF "MDay" = e[1] THEN Of(c, "MDay", n) \cup {n + 1} ELSE Of(c, "MDay", n)
        /\ Of(d, "dayOfWeek", n + 1) = IF "dayOfWeek" = e[1] THEN Of(c, "dayOfWeek", n) \cup {n + 1} ELSE Of(c, "dayOfWeek", n)
        /\ Of(d, "DDay", n + 1) = IF "DDay" = e[1] THEN Of(c, "DDay", n) \cup {n + 1} ELSE Of(c, "DDay", n)
    BY <1>2, Zenon
  <2> QED BY <2>2, <2>3, Zenon DEF DaysOf
<1>4. Of(c, "At", n) \subseteq 1..n
  BY DEF Of
<1>6. \A j \in DaysOf(c, n) : c[j][1] \in {"MDay", "dayOfWeek", "DDay"}
  BY DEF DaysOf, Of
<1>7. CASE m # <<>>
  <2>1. Of(d, "At", n + 1) = IF "At" = e[1] THEN Of(c, "At", n) \cup {n + 1} ELSE Of(c, "At", n)
    BY <1>2, Zenon
  <2>2. FitsAfter(m, c, n, e) <=> e[1] \notin {"MDay", "dayOfWeek", "DDay", "At"}
    BY <1>7, Zenon DEF FitsAfter
  <2>3. DaysOf(d, n + 1) \cup Of(d, "At", n + 1) = {} <=> DaysOf(c, n) \cup Of(c, "At", n) = {} /\ e[1] \notin {"MDay", "dayOfWeek", "DDay", "At"}
    BY <1>3, <2>1
  <2> QED BY <1>7, <2>2, <2>3, FitsIs, Zenon
<1>8. CASE m = <<>> /\ e[1] = "At"
  <2>1. Of(d, "At", n + 1) = Of(c, "At", n) \cup {n + 1} /\ DaysOf(d, n + 1) = DaysOf(c, n) /\ Of(d, "RNotImmediately", n + 1) = Of(c, "RNotImmediately", n)
    BY <1>2, <1>3, <1>8, Zenon
  <2>2. (\E j \in DaysOf(c, n) : j < n + 1) <=> DaysOf(c, n) # {}
    BY <1>1, <1>3
  <2>3. \A i \in DaysOf(c, n) : d[i] = c[i]
    BY <1>1, <1>3
  <2>4. \A i \in Of(c, "At", n) : d[i] = c[i]
    BY <1>1, <1>4
  <2>5. OneDay(d, DaysOf(c, n)) <=> OneDay(c, DaysOf(c, n))
    BY <2>3 DEF OneDay
  <2>6. TimesAfter(d, Of(c, "At", n) \cup {n + 1}, DaysOf(c, n)) <=>
          TimesAfter(c, Of(c, "At", n), DaysOf(c, n)) /\ ~parseTimeFails(e[2]) /\ DaysOf(c, n) # {}
    BY <1>1, <2>2, <2>4, Zenon DEF TimesAfter
  <2>7. FitsAfter(m, c, n, e) <=> ~parseTimeFails(e[2]) /\ DaysOf(c, n) # {}
    BY <1>8, Zenon DEF FitsAfter
  <2> QED BY <1>8, <2>1, <2>5, <2>6, <2>7, FitsIs, Zenon
<1>9. CASE m = <<>> /\ e[1] \in {"MDay", "dayOfWeek", "DDay"}
  <2>1. Of(d, "At", n + 1) = Of(c, "At", n) /\ DaysOf(d, n + 1) = DaysOf(c, n) \cup {n + 1} /\ Of(d, "RNotImmediately", n + 1) = Of(c, "RNotImmediately", n)
    BY <1>2, <1>3, <1>9, Zenon
  <2>2. \A i \in Of(c, "At", n) : d[i] = c[i] /\ ((\E j \in DaysOf(c, n) \cup {n + 1} : j < i) <=> (\E j \in DaysOf(c, n) : j < i))
    BY <1>1, <1>4
  <2>3. OneDay(d, DaysOf(c, n) \cup {n + 1}) <=>
          OneDay(c, DaysOf(c, n)) /\ \A j \in DaysOf(c, n) : c[j][1] = e[1] /\ e[1] # "dayOfWeek"
    BY <1>1, <1>3 DEF OneDay
  <2>4. TimesAfter(d, Of(c, "At", n), DaysOf(c, n) \cup {n + 1}) <=> TimesAfter(c, Of(c, "At", n), DaysOf(c, n))
    BY <2>2, Zenon DEF TimesAfter
  <2>5. FitsAfter(m, c, n, e) <=> \A j \in DaysOf(c, n) : c[j][1] = e[1] /\ e[1] # "dayOfWeek"
    BY <1>9 DEF FitsAfter
  <2> QED BY <1>9, <2>1, <2>3, <2>4, <2>5, FitsIs, Zenon
<1>10. CASE m = <<>> /\ e[1] \notin {"MDay", "dayOfWeek", "DDay", "At"}
  <2>1. Of(d, "At", n + 1) = Of(c, "At", n) /\ DaysOf(d, n + 1) = DaysOf(c, n)
    BY <1>2, <1>3, <1>10, Zenon
  <2>2. Of(d, "RNotImmediately", n + 1) = {} <=> Of(c, "RNotImmediately", n) = {} /\ e[1] # "RNotImmediately"
    BY <1>2, Zenon
  <2>3. \A i \in DaysOf(c, n) : d[i] = c[i]
    BY <1>1, <1>3
  <2>4. \A i \in Of(c, "At", n) : d[i] = c[i]
    BY <1>1, <1>4
  <2>5. OneDay(d, DaysOf(c, n)) <=> OneDay(c, DaysOf(c, n))
    BY <2>3 DEF OneDay
  <2>6. TimesAfter(d, Of(c, "At", n), DaysOf(c, n)) <=> TimesAfter(c, Of(c, "At", n), DaysOf(c, n))
    BY <2>4, Zenon DEF TimesAfter
  <2>7. FitsAfter(m, c, n, e) <=> e[1] # "RNotImmediately"
    BY <1>10 DEF FitsAfter
  <2> QED BY <1>10, <2>1, <2>2, <2>5, <2>6, <2>7, FitsIs, Zenon
<1> QED BY <1>7, <1>8, <1>9, <1>10

\* The times that count, after one more call e.
TimesOf(c, n) == {i \in Of(c, "At", n) : \A j \in Of(c, "DDay", n) : j < i}

OneMoreTime(c, d, n, e) ==
    TimesOf(d, n + 1) = IF e[1] = "At" THEN TimesOf(c, n) \cup {n + 1}
                        ELSE IF e[1] = "DDay" THEN {} ELSE TimesOf(c, n)

\* One more call adds a time, starts again at midnight, or does neither.
LEMMA TimesGrown ==
  ASSUME NEW c, NEW d, NEW n, NEW e, More(c, d, n, e)
  PROVE  OneMoreTime(c, d, n, e)
<1>0. \A x : Of(d, x, n + 1) = IF x = e[1] THEN Of(c, x, n) \cup {n + 1} ELSE Of(c, x, n)
  BY Grown DEF OneMoreOf
<1>1. /\ Of(d, "At", n + 1) = IF "At" = e[1] THEN Of(c, "At", n) \cup {n + 1} ELSE Of(c, "At", n)
      /\ Of(d, "DDay", n + 1) = IF "DDay" = e[1] THEN Of(c, "DDay", n) \cup {n + 1} ELSE Of(c, "DDay", n)
  BY <1>0, Zenon
<1>2. n \in Nat /\ Of(c, "At", n) \subseteq 1..n /\ Of(c, "DDay", n) \subseteq 1..n
  BY DEF More, Of
<1>3. CASE e[1] = "At"
  BY <1>1, <1>2, <1>3 DEF TimesOf, OneMoreTime
<1>4. CASE e[1] = "DDay"
  BY <1>1, <1>2, <1>4 DEF TimesOf, OneMoreTime
<1>5. CASE e[1] \notin {"At", "DDay"}
  BY <1>1, <1>2, <1>5 DEF TimesOf, OneMoreTime
<1> QED BY <1>3, <1>4, <1>5

\* The time of day, after one more call e.
LEMMA TimeGrown ==
  ASSUME NEW c, NEW d, NEW n, NEW e, More(c, d, n, e)
  PROVE  TimeOf(d, n + 1) = IF e[1] = "At" THEN Parts3(e[2])
                            ELSE IF e[1] = "DDay" THEN Midnight ELSE TimeOf(c, n)
<1>0. \A S \in SUBSET (1..n) : \A v : LastOf(d, S, v) = LastOf(c, S, v) /\ LastOf(d, S \cup {n + 1}, v) = e[2]
  BY LastGrown
<1>1. \A k, l : TimeOf(k, l) = Parts3(LastOf(k, TimesOf(k, l), <<0>>))
  BY DEF TimeOf, TimesOf
<1>2. TimesOf(c, n) \subseteq 1..n
  BY DEF TimesOf, Of
<1>8. TimesOf(d, n + 1) = IF e[1] = "At" THEN TimesOf(c, n) \cup {n + 1}
                          ELSE IF e[1] = "DDay" THEN {} ELSE TimesOf(c, n)
  <2>1. OneMoreTime(c, d, n, e)
    BY TimesGrown
  <2> QED BY <2>1, Zenon DEF OneMoreTime
<1>3. /\ LastOf(d, TimesOf(c, n), <<0>>) = LastOf(c, TimesOf(c, n), <<0>>)
      /\ LastOf(d, TimesOf(c, n) \cup {n + 1}, <<0>>) = e[2]
  BY <1>0, <1>2, Zenon
<1>4. LastOf(d, {}, <<0>>) = <<0>> /\ Parts3(<<0>>) = Midnight
  BY DEF LastOf, Parts3, Midnight
<1> HIDE DEF Parts3
<1>5. CASE e[1] = "At"
  BY <1>1, <1>8, <1>3, <1>5
<1>6. CASE e[1] = "DDay"
  BY <1>1, <1>8, <1>4, <1>6
<1>7. CASE e[1] \notin {"At", "DDay"}
  BY <1>1, <1>8, <1>3, <1>7
<1> QED BY <1>5, <1>6, <1>7

\* The last argument of a name, after one more call e.
LEMMA ArgGrown ==
  ASSUME NEW c, NEW d, NEW n, NEW e, More(c, d, n, e), NEW x, NEW w
  PROVE  LastOf(d, Of(d, x, n + 1), w) = IF x = e[1] THEN e[2] ELSE LastOf(c, Of(c, x, n), w)
<1>0. \A S \in SUBSET (1..n) : \A v : LastOf(d, S, v) = LastOf(c, S, v) /\ LastOf(d, S \cup {n + 1}, v) = e[2]
  BY LastGrown
<1>1. Of(c, x, n) \subseteq 1..n
  BY DEF Of
<1>2. Of(d, x, n + 1) = IF x = e[1] THEN Of(c, x, n) \cup {n + 1} ELSE Of(c, x, n)
  BY Grown DEF OneMoreOf
<1>3. LastOf(d, Of(c, x, n), w) = LastOf(c, Of(c, x, n), w) /\ LastOf(d, Of(c, x, n) \cup {n + 1}, w) = e[2]
  BY <1>0, <1>1, Zenon
<1> QED BY <1>2, <1>3, Zenon

\* Whether there is a function, after one more call e.
LEMMA FnSame ==
  ASSUME NEW c, NEW d, NEW n, NEW e, More(c, d, n, e), NEW i \in 0..n
  PROVE  FnGiven(d, i) <=> FnGiven(c, i)
BY DEF FnGiven, More

\* One more call may give a function.
LEMMA FnGrown ==
  ASSUME NEW c, NEW d, NEW n, NEW e, More(c, d, n, e)
  PROVE  FnGiven(d, n + 1) <=> FnGiven(c, n) \/ (e[1] \in {"SetFunc", "Run"} /\ e[2] # NoFn)
BY DEF FnGiven, More

\* What a recurrent job is asked for, after one more call e.
RecurrentAsked(A, e) ==
    [kind |-> "recurrent",
     units |-> IF e[1] = "Every" THEN e[2] ELSE A.units,
     period |-> IF e[1] = "timeOfDay" THEN e[2] ELSE A.period,
     done |-> IF e[1] = "RNotImmediately" THEN TRUE ELSE A.done]

\* What a recurrent job is asked for is what it was asked for before, changed by the call.
LEMMA RecurrentGrown ==
  ASSUME NEW c, NEW d, NEW n, NEW e, More(c, d, n, e), NEW m, m # <<>>
  PROVE  Asked(m, d, n + 1) = RecurrentAsked(Asked(m, c, n), e)
<1>1. \A k, l : Asked(m, k, l) = [kind |-> "recurrent", units |-> LastOf(k, Of(k, "Every", l), m[1]),
                                  period |-> LastOf(k, Of(k, "timeOfDay", l), 0), done |-> Of(k, "RNotImmediately", l) # {}]
  BY Zenon DEF Asked
<1>2. /\ LastOf(d, Of(d, "Every", n + 1), m[1]) = IF "Every" = e[1] THEN e[2] ELSE LastOf(c, Of(c, "Every", n), m[1])
      /\ LastOf(d, Of(d, "timeOfDay", n + 1), 0) = IF "timeOfDay" = e[1] THEN e[2] ELSE LastOf(c, Of(c, "timeOfDay", n), 0)
  <2>1. \A x, v : LastOf(d, Of(d, x, n + 1), v) = IF x = e[1] THEN e[2] ELSE LastOf(c, Of(c, x, n), v)
    BY ArgGrown
  <2> QED BY <2>1, Zenon
<1>3. Of(d, "RNotImmediately", n + 1) = IF "RNotImmediately" = e[1] THEN Of(c, "RNotImmediately", n) \cup {n + 1} ELSE Of(c, "RNotImmediately", n)
  <2>1. \A x : Of(d, x, n + 1) = IF x = e[1] THEN Of(c, x, n) \cup {n + 1} ELSE Of(c, x, n)
    <3>1. OneMoreOf(c, d, n, e)
      BY Grown
    <3> QED BY <3>1, Zenon DEF OneMoreOf
  <2> QED BY <2>1, Zenon
<1>4. /\ Asked(m, c, n).kind = "recurrent" /\ Asked(m, c, n).units = LastOf(c, Of(c, "Every", n), m[1])
      /\ Asked(m, c, n).period = LastOf(c, Of(c, "timeOfDay", n), 0)
      /\ Asked(m, c, n).done = (Of(c, "RNotImmediately", n) # {})
  BY <1>1
<1>5. (Of(d, "RNotImmediately", n + 1) # {}) = IF e[1] = "RNotImmediately" THEN TRUE ELSE Asked(m, c, n).done
  BY <1>3, <1>4, Zenon
<1> QED BY <1>1, <1>2, <1>4, <1>5, Zenon DEF RecurrentAsked

\* The kind of schedule a chain that fits asks for is that of its days.
LEMMA KindIs ==
  ASSUME NEW c, NEW n, Fits(<<>>, c, n), NEW k, k = Asked(<<>>, c, n).kind
  PROVE  /\ k \in {"nil", "monthly", "weekly", "daily"}
         /\ k = "nil" <=> DaysOf(c, n) = {}
         /\ k \in {"nil", "monthly"} <=> \A j \in DaysOf(c, n) : c[j][1] = "MDay"
         /\ k \in {"nil", "daily"} <=> \A j \in DaysOf(c, n) : c[j][1] = "DDay"
         /\ k = "monthly" => Of(c, "MDay", n) # {} /\ Of(c, "dayOfWeek", n) = {} /\ Of(c, "DDay", n) = {}
         /\ k = "weekly" => Of(c, "MDay", n) = {} /\ Of(c, "dayOfWeek", n) # {} /\ Of(c, "DDay", n) = {}
         /\ k = "daily" => Of(c, "MDay", n) = {} /\ Of(c, "dayOfWeek", n) = {} /\ Of(c, "DDay", n) # {}
<1>1. \A j \in Of(c, "MDay", n) : j \in DaysOf(c, n) /\ c[j][1] = "MDay"
  BY DEF DaysOf, Of
<1>2. \A j \in Of(c, "dayOfWeek", n) : j \in DaysOf(c, n) /\ c[j][1] = "dayOfWeek"
  BY DEF DaysOf, Of
<1>3. \A j \in Of(c, "DDay", n) : j \in DaysOf(c, n) /\ c[j][1] = "DDay"
  BY DEF DaysOf, Of
<1>4. DaysOf(c, n) = Of(c, "MDay", n) \cup Of(c, "dayOfWeek", n) \cup Of(c, "DDay", n)
  BY DEF DaysOf
<1>5. \A i, j \in DaysOf(c, n) : c[i][1] = c[j][1]
  BY Zenon DEF Fits
<1>6. CASE Of(c, "MDay", n) # {}
  <2>1. k = "monthly"
    BY <1>6, Zenon DEF Asked
  <2> QED BY <1>1, <1>2, <1>3, <1>4, <1>5, <1>6, <2>1
<1>7. CASE Of(c, "MDay", n) = {} /\ Of(c, "dayOfWeek", n) # {}
  <2>1. k = "weekly"
    BY <1>7, Zenon DEF Asked
  <2> QED BY <1>2, <1>3, <1>4, <1>5, <1>7, <2>1, Zenon
<1>8. CASE Of(c, "MDay", n) = {} /\ Of(c, "dayOfWeek", n) = {} /\ Of(c, "DDay", n) # {}
  <2>1. k = "daily"
    BY <1>8, Zenon DEF Asked
  <2> QED BY <1>3, <1>4, <1>5, <1>8, <2>1, Zenon
<1>9. CASE Of(c, "MDay", n) = {} /\ Of(c, "dayOfWeek", n) = {} /\ Of(c, "DDay", n) = {}
  <2>1. k = "nil"
    BY <1>9, Zenon DEF Asked, NoSchedule
  <2> QED BY <1>4, <1>9, <2>1, Zenon
<1> QED BY <1>6, <1>7, <1>8, <1>9, Zenon

\* Without a day there is no time.
LEMMA NoDayNoTime ==
  ASSUME NEW c, NEW n, Fits(<<>>, c, n), DaysOf(c, n) = {}
  PROVE  TimeOf(c, n) = Midnight
<1>1. Of(c, "At", n) = {}
  BY Zenon DEF Fits
<1>2. TimesOf(c, n) = {}
  BY <1>1 DEF TimesOf
<1>3. TimeOf(c, n) = Parts3(LastOf(c, TimesOf(c, n), <<0>>))
  BY DEF TimeOf, TimesOf
<1>4. LastOf(c, {}, <<0>>) = <<0>> /\ Parts3(<<0>>) = Midnight
  BY DEF LastOf, Parts3, Midnight
<1> QED BY <1>2, <1>3, <1>4, Zenon

\* What a job with days is asked for, after one more call e that fits.
DaysAsked(A, e) ==
    CASE e[1] = "MDay" -> [kind |-> "monthly", day |-> e[2], time |-> IF A.kind = "nil" THEN Midnight ELSE A.time]
      [] e[1] = "dayOfWeek" -> weekly(e[2])
      [] e[1] = "DDay" -> daily
      [] e[1] = "At" /\ A.kind = "daily" -> [kind |-> "daily", time |-> Parts3(e[2])]
      [] e[1] = "At" /\ A.kind # "daily" -> [kind |-> A.kind, day |-> A.day, time |-> Parts3(e[2])]
      [] OTHER -> A

\* What a job with days is asked for is what it was asked for before, changed by the call.
LEMMA DaysGrown ==
  ASSUME NEW c, NEW d, NEW n, NEW e, More(c, d, n, e), Fits(<<>>, c, n), FitsAfter(<<>>, c, n, e)
  PROVE  Asked(<<>>, d, n + 1) = DaysAsked(Asked(<<>>, c, n), e)
<1> DEFINE A == Asked(<<>>, c, n)
           md == Of(c, "MDay", n)
           wd == Of(c, "dayOfWeek", n)
           dd == Of(c, "DDay", n)
<1>1. OneMoreOf(c, d, n, e)
  BY Grown
<1>2. /\ Of(d, "MDay", n + 1) = IF "MDay" = e[1] THEN md \cup {n + 1} ELSE md
      /\ Of(d, "dayOfWeek", n + 1) = IF "dayOfWeek" = e[1] THEN wd \cup {n + 1} ELSE wd
      /\ Of(d, "DDay", n + 1) = IF "DDay" = e[1] THEN dd \cup {n + 1} ELSE dd
  BY <1>1, Zenon DEF OneMoreOf
<1>3. /\ LastOf(d, Of(d, "MDay", n + 1), 0) = IF "MDay" = e[1] THEN e[2] ELSE LastOf(c, md, 0)
      /\ LastOf(d, Of(d, "dayOfWeek", n + 1), 0) = IF "dayOfWeek" = e[1] THEN e[2] ELSE LastOf(c, wd, 0)
  <2>1. \A x, v : LastOf(d, Of(d, x, n + 1), v) = IF x = e[1] THEN e[2] ELSE LastOf(c, Of(c, x, n), v)
    BY ArgGrown
  <2> QED BY <2>1, Zenon
<1>4. TimeOf(d, n + 1) = IF e[1] = "At" THEN Parts3(e[2]) ELSE IF e[1] = "DDay" THEN Midnight ELSE TimeOf(c, n)
  BY TimeGrown
<1>5. /\ A.kind \in {"nil", "monthly", "weekly", "daily"}
      /\ A.kind = "nil" <=> DaysOf(c, n) = {}
      /\ A.kind \in {"nil", "monthly"} <=> \A j \in DaysOf(c, n) : c[j][1] = "MDay"
      /\ A.kind \in {"nil", "daily"} <=> \A j \in DaysOf(c, n) : c[j][1] = "DDay"
      /\ A.kind = "monthly" => md # {} /\ wd = {} /\ dd = {}
      /\ A.kind = "weekly" => md = {} /\ wd # {} /\ dd = {}
      /\ A.kind = "daily" => md = {} /\ wd = {} /\ dd # {}
  BY KindIs, Zenon
<1>6. A.kind = "nil" => md = {} /\ wd = {} /\ dd = {} /\ TimeOf(c, n) = Midnight
  BY <1>5, NoDayNoTime, Zenon DEF DaysOf
<1>7. A = IF md # {} THEN [kind |-> "monthly", day |-> LastOf(c, md, 0), time |-> TimeOf(c, n)]
          ELSE IF wd # {} THEN [kind |-> "weekly", day |-> LastOf(c, wd, 0), time |-> TimeOf(c, n)]
          ELSE IF dd # {} THEN [kind |-> "daily", time |-> TimeOf(c, n)]
          ELSE NoSchedule
  BY Zenon DEF Asked
<1>8. Asked(<<>>, d, n + 1) =
          IF Of(d, "MDay", n + 1) # {} THEN [kind |-> "monthly", day |-> LastOf(d, Of(d, "MDay", n + 1), 0), time |-> TimeOf(d, n + 1)]
          ELSE IF Of(d, "dayOfWeek", n + 1) # {} THEN [kind |-> "weekly", day |-> LastOf(d, Of(d, "dayOfWeek", n + 1), 0), time |-> TimeOf(d, n + 1)]
          ELSE IF Of(d, "DDay", n + 1) # {} THEN [kind |-> "daily", time |-> TimeOf(d, n + 1)]
          ELSE NoSchedule
  BY Zenon DEF Asked
<1> HIDE DEF A, md, wd, dd, Parts3
<1>9. CASE e[1] = "MDay"
  <2>1. A.kind \in {"nil", "monthly"}
    BY <1>5, <1>9 DEF FitsAfter
  <2>2. TimeOf(c, n) = IF A.kind = "nil" THEN Midnight ELSE A.time
    BY <1>5, <1>6, <1>7, <2>1, Zenon
  <2> QED BY <1>2, <1>3, <1>4, <1>8, <1>9, <2>2, Zenon DEF DaysAsked, A
<1>10. CASE e[1] = "dayOfWeek"
  <2>1. A.kind = "nil"
    BY <1>5, <1>10 DEF FitsAfter
  <2> QED BY <1>2, <1>3, <1>4, <1>6, <1>8, <1>10, <2>1 DEF DaysAsked, A, weekly
<1>11. CASE e[1] = "DDay"
  <2>1. A.kind \in {"nil", "daily"}
    BY <1>5, <1>11 DEF FitsAfter
  <2> QED BY <1>2, <1>4, <1>5, <1>6, <1>8, <1>11, <2>1 DEF DaysAsked, A, daily
<1>12. CASE e[1] = "At"
  <2>1. A.kind \in {"monthly", "weekly", "daily"}
    BY <1>5, <1>12 DEF FitsAfter
  <2> QED BY <1>2, <1>3, <1>4, <1>5, <1>7, <1>8, <1>12, <2>1 DEF DaysAsked, A
<1>13. CASE e[1] \notin {"MDay", "dayOfWeek", "DDay", "At"}
  <2>1. Asked(<<>>, d, n + 1) = A
    BY <1>2, <1>3, <1>4, <1>7, <1>8, <1>13, Zenon
  <2> QED BY <1>13, <2>1 DEF DaysAsked, A
<1> QED BY <1>9, <1>10, <1>11, <1>12, <1>13

-----------------------------------------------------------------------------
(* SchedBuild: the inductive invariant.                                    *)

Methods == {"MDay", "RNotImmediately", "At", "Every", "dayOfWeek", "DDay", "timeOfDay", "SetFunc", "Run"}
Entries == Methods \X ({0, 1, 3, 60, "f", "g", NoFn} \cup Times)

JobOf(s, e, f, i, p) == [schedule |-> s, err |-> e, fn |-> f, isStart |-> i, panic |-> p]

Built ==
    /\ made \in {<<>>, <<2>>} /\ calls \in Seq(Entries)
    /\ job = JobOf(job.schedule, job.err, job.fn, job.isStart, job.panic)
    /\ job.err \in BOOLEAN /\ job.isStart \in BOOLEAN /\ job.panic \in BOOLEAN

\* While there is no error the job has the function that was given.
FnKept == ~job.panic /\ ~job.err => (job.fn # NoFn <=> FnGiven(calls, Len(calls)))

BInv == Built /\ ChainHeeded /\ FnKept

\* One more call.
LEMMA OneMoreCall ==
  ASSUME Built, NEW name, NEW arg, <<name, arg>> \in Entries, Called(name, arg)
  PROVE  /\ More(calls, calls', Len(calls), <<name, arg>>)
         /\ Len(calls') = Len(calls) + 1 /\ calls' \in Seq(Entries) /\ made' = made
BY DEF Built, Called, More

\* A call sets the schedule, the error or the panic.
FnAlone == job' = JobOf(job'.schedule, job'.err, job.fn, job.isStart, job'.panic)

\* A call that leaves the function alone keeps the invariant if it sets the error
\* when it does not fit, and otherwise the schedule that is asked for.
LEMMA CallHeeded ==
  ASSUME BInv, ~job.panic, NEW name, NEW arg, NEW e, e = <<name, arg>>, e \in Entries, Called(name, arg),
         name \notin {"SetFunc", "Run"},
         FnAlone, job'.err \in BOOLEAN, job'.panic \in BOOLEAN,
         ~job'.panic => (~job'.err <=> ~job.err /\ FitsAfter(made, calls, Len(calls), e)),
         ~job'.panic /\ ~job'.err => job'.schedule = Asked(made, calls', Len(calls) + 1)
  PROVE  BInv'
<1> DEFINE n == Len(calls)
<1>1. /\ More(calls, calls', n, e) /\ Len(calls') = n + 1 /\ calls' \in Seq(Entries) /\ made' = made
  BY OneMoreCall DEF BInv
<1>2. n \in Nat /\ e[1] = name /\ e[2] = arg
  <2>1. n \in Nat
    BY <1>1, Zenon DEF More
  <2>2. e[1] = name /\ e[2] = arg
    OBVIOUS
  <2> QED BY <2>1, <2>2
<1>3. job'.fn = job.fn /\ job'.isStart = job.isStart
  BY DEF FnAlone, JobOf
<1>4. Built'
  <2>1. made \in {<<>>, <<2>>} /\ job.isStart \in BOOLEAN
    BY Zenon DEF BInv, Built
  <2>2. job' = JobOf(job'.schedule, job'.err, job'.fn, job'.isStart, job'.panic)
    BY <1>3, Zenon DEF FnAlone
  <2> QED BY <1>1, <1>3, <2>1, <2>2 DEF Built
<1>5. /\ Fits(made, calls', n + 1) <=> Fits(made, calls, n) /\ FitsAfter(made, calls, n, e)
      /\ \A i \in 0..n : Fits(made, calls', i) <=> Fits(made, calls, i)
  BY <1>1, FitsGrown, FitsBefore, Zenon
<1>6. /\ Of(calls', "Run", n + 1) = Of(calls, "Run", n)
      /\ Of(calls, "Run", n) \subseteq 0..n
  <2>1. OneMoreOf(calls, calls', n, e)
    BY <1>1, Grown
  <2>2. Of(calls', "Run", n + 1) = IF "Run" = e[1] THEN Of(calls, "Run", n) \cup {n + 1} ELSE Of(calls, "Run", n)
    BY <2>1, Zenon DEF OneMoreOf
  <2>3. Of(calls, "Run", n) \subseteq 0..n
    BY <1>2 DEF Of
  <2> QED BY <1>2, <2>2, <2>3
<1>7. \A i \in 0..n : FnGiven(calls', i) <=> FnGiven(calls, i)
  BY <1>1, FnSame
<1>8. FnGiven(calls', n + 1) <=> FnGiven(calls, n)
  BY <1>1, <1>2, FnGrown
<1>9. /\ ~job.err <=> Fits(made, calls, n)
      /\ job.isStart <=> \E i \in Of(calls, "Run", n) : Fits(made, calls, i) /\ FnGiven(calls, i)
  BY Zenon DEF BInv, ChainHeeded
<1>10. CASE job'.panic
  BY <1>3, <1>4, <1>10, Zenon DEF BInv, ChainHeeded, FnKept
<1>11. CASE ~job'.panic
  <2>1. ~job'.err <=> Fits(made, calls', n + 1)
    BY <1>5, <1>9, <1>11
  <2>2. job.isStart <=> \E i \in Of(calls', "Run", n + 1) : Fits(made, calls', i) /\ FnGiven(calls', i)
    BY <1>5, <1>6, <1>7, <1>9, Zenon
  <2>3. ChainHeeded'
    BY <1>1, <1>3, <1>11, <2>1, <2>2 DEF ChainHeeded
  <2>4. FnKept'
    BY <1>1, <1>3, <1>5, <1>8, <1>9, <1>11, <2>1, Zenon DEF BInv, FnKept
  <2> QED BY <1>4, <2>3, <2>4 DEF BInv
<1> QED BY <1>10, <1>11

RecurrentOf(u, p, o) == [kind |-> "recurrent", units |-> u, period |-> p, done |-> o]

\* The schedules that are asked for.
LEMMA AskedIs ==
  ASSUME NEW m, NEW c, NEW n
  PROVE  /\ m # <<>> => \E u, p, o : Asked(m, c, n) = RecurrentOf(u, p, o)
         /\ m = <<>> => \/ Asked(m, c, n) = NoSchedule
                        \/ \E t : Asked(m, c, n) = [kind |-> "daily", time |-> t]
                        \/ \E k \in {"monthly", "weekly"} : \E a, t : Asked(m, c, n) = [kind |-> k, day |-> a, time |-> t]
BY Zenon DEF Asked, RecurrentOf

\* Job.Every sets the units.
LEMMA EveryNext ==
  ASSUME NEW u, NEW p, NEW o, NEW e, e[1] = "Every"
  PROVE  RecurrentAsked(RecurrentOf(u, p, o), e) = RecurrentOf(e[2], p, o)
<1> DEFINE R == RecurrentOf(u, p, o)
<1>1. R.units = u /\ R.period = p /\ R.done = o
  BY DEF RecurrentOf
<1> HIDE DEF R
<1>2. RecurrentAsked(R, e) = RecurrentOf(e[2], p, o)
  BY <1>1 DEF RecurrentAsked, RecurrentOf
<1> QED BY <1>2, Zenon DEF R

\* ESeconds, EMinutes and EHours set the period.
LEMMA PeriodNext ==
  ASSUME NEW u, NEW p, NEW o, NEW e, e[1] = "timeOfDay"
  PROVE  RecurrentAsked(RecurrentOf(u, p, o), e) = RecurrentOf(u, e[2], o)
<1> DEFINE R == RecurrentOf(u, p, o)
<1>1. R.units = u /\ R.period = p /\ R.done = o
  BY DEF RecurrentOf
<1> HIDE DEF R
<1>2. RecurrentAsked(R, e) = RecurrentOf(u, e[2], o)
  BY <1>1 DEF RecurrentAsked, RecurrentOf
<1> QED BY <1>2, Zenon DEF R

\* RNotImmediately sets done.
LEMMA NotNowNext ==
  ASSUME NEW u, NEW p, NEW o, NEW e, e[1] = "RNotImmediately"
  PROVE  RecurrentAsked(RecurrentOf(u, p, o), e) = RecurrentOf(u, p, TRUE)
<1> DEFINE R == RecurrentOf(u, p, o)
<1>1. R.units = u /\ R.period = p /\ R.done = o
  BY DEF RecurrentOf
<1> HIDE DEF R
<1>2. RecurrentAsked(R, e) = RecurrentOf(u, p, TRUE)
  BY <1>1 DEF RecurrentAsked, RecurrentOf
<1> QED BY <1>2, Zenon DEF R

\* SetFunc and Run set nothing of the schedule.
LEMMA FnNext ==
  ASSUME NEW u, NEW p, NEW o, NEW e, e[1] \in {"SetFunc", "Run"}
  PROVE  RecurrentAsked(RecurrentOf(u, p, o), e) = RecurrentOf(u, p, o)
<1> DEFINE R == RecurrentOf(u, p, o)
<1>1. R.units = u /\ R.period = p /\ R.done = o
  BY DEF RecurrentOf
<1> HIDE DEF R
<1>2. RecurrentAsked(R, e) = RecurrentOf(u, p, o)
  BY <1>1, Zenon DEF RecurrentAsked, RecurrentOf
<1> QED BY <1>2, Zenon DEF R

\* The schedule of a job without an error.
LEMMA ScheduleNow ==
  ASSUME BInv, ~job.panic, ~job.err
  PROVE  /\ Fits(made, calls, Len(calls)) /\ job.schedule = Asked(made, calls, Len(calls))
         /\ made # <<>> => /\ Kind = "recurrent"
                           /\ job.schedule = [kind |-> "recurrent", units |-> job.schedule.units,
                                              period |-> job.schedule.period, done |-> job.schedule.done]
         /\ made = <<>> =>
              /\ Kind \in {"nil", "monthly", "weekly", "daily"}
              /\ Kind = "nil" <=> DaysOf(calls, Len(calls)) = {}
              /\ Kind \in {"nil", "monthly"} <=> \A j \in DaysOf(calls, Len(calls)) : calls[j][1] = "MDay"
              /\ Kind \in {"nil", "daily"} <=> \A j \in DaysOf(calls, Len(calls)) : calls[j][1] = "DDay"
              /\ Kind = "daily" => job.schedule = [kind |-> "daily", time |-> job.schedule.time]
              /\ Kind \in {"monthly", "weekly"} =>
                    job.schedule = [kind |-> Kind, day |-> job.schedule.day, time |-> job.schedule.time]
<1> DEFINE n == Len(calls)
<1>1. Fits(made, calls, n) /\ job.schedule = Asked(made, calls, n)
  BY DEF BInv, ChainHeeded
<1>2. ASSUME made # <<>>
      PROVE  /\ Kind = "recurrent"
             /\ job.schedule = [kind |-> "recurrent", units |-> job.schedule.units,
                                period |-> job.schedule.period, done |-> job.schedule.done]
  <2>1. PICK u, p, o : job.schedule = RecurrentOf(u, p, o)
    BY <1>1, <1>2, AskedIs
  <2> QED BY <2>1 DEF RecurrentOf, Kind
<1>3. ASSUME made = <<>>
      PROVE  /\ Kind \in {"nil", "monthly", "weekly", "daily"}
             /\ Kind = "nil" <=> DaysOf(calls, n) = {}
             /\ Kind \in {"nil", "monthly"} <=> \A j \in DaysOf(calls, n) : calls[j][1] = "MDay"
             /\ Kind \in {"nil", "daily"} <=> \A j \in DaysOf(calls, n) : calls[j][1] = "DDay"
  BY <1>1, <1>3, KindIs, Zenon DEF Kind
<1>4. ASSUME made = <<>>
      PROVE  /\ Kind = "daily" => job.schedule = [kind |-> "daily", time |-> job.schedule.time]
             /\ Kind \in {"monthly", "weekly"} =>
                   job.schedule = [kind |-> Kind, day |-> job.schedule.day, time |-> job.schedule.time]
  <2>1. CASE job.schedule = NoSchedule
    BY <2>1 DEF Kind, NoSchedule
  <2>2. CASE \E t : job.schedule = [kind |-> "daily", time |-> t]
    <3>1. PICK t : job.schedule = [kind |-> "daily", time |-> t]
      BY <2>2, Zenon
    <3> QED BY <3>1 DEF Kind
  <2>3. CASE \E k \in {"monthly", "weekly"} : \E a, t : job.schedule = [kind |-> k, day |-> a, time |-> t]
    <3>1. PICK k \in {"monthly", "weekly"} : \E a, t : job.schedule = [kind |-> k, day |-> a, time |-> t]
      BY <2>3, Zenon
    <3>2. PICK a, t : job.schedule = [kind |-> k, day |-> a, time |-> t]
      BY <3>1, Zenon
    <3> QED BY <3>2 DEF Kind
  <2>4. \/ job.schedule = NoSchedule
        \/ \E t : job.schedule = [kind |-> "daily", time |-> t]
        \/ \E k \in {"monthly", "weekly"} : \E a, t : job.schedule = [kind |-> k, day |-> a, time |-> t]
    BY <1>1, <1>4, AskedIs
  <2> QED BY <2>1, <2>2, <2>3, <2>4, Zenon
<1> QED BY <1>1, <1>2, <1>3, <1>4, Zenon

\* The schedule of a recurrent job without an error.
LEMMA RecurrentNow ==
  ASSUME BInv, ~job.panic, ~job.err, made # <<>>
  PROVE  \E u, p, o : job.schedule = RecurrentOf(u, p, o)
<1>1. job.schedule = Asked(made, calls, Len(calls))
  BY ScheduleNow, Zenon
<1>2. \E u, p, o : Asked(made, calls, Len(calls)) = RecurrentOf(u, p, o)
  BY AskedIs
<1> QED BY <1>1, <1>2, Zenon

\* What is asked for after one more call.
LEMMA AskedNext ==
  ASSUME BInv, ~job.panic, ~job.err, NEW name, NEW arg, NEW e, e = <<name, arg>>, e \in Entries,
         Called(name, arg), FitsAfter(made, calls, Len(calls), e)
  PROVE  /\ made = <<>> => Asked(made, calls', Len(calls) + 1) = DaysAsked(job.schedule, e)
         /\ made # <<>> => Asked(made, calls', Len(calls) + 1) = RecurrentAsked(job.schedule, e)
<1>1. More(calls, calls', Len(calls), e)
  BY OneMoreCall DEF BInv
<1>2. Fits(made, calls, Len(calls)) /\ job.schedule = Asked(made, calls, Len(calls))
  BY ScheduleNow, Zenon
<1>4. CASE made = <<>>
  BY <1>1, <1>2, <1>4, DaysGrown
<1>5. CASE made # <<>>
  BY <1>1, <1>2, <1>5, RecurrentGrown
<1> QED BY <1>4, <1>5

\* The methods set the schedule or the error.
LEMMA ScheduleIs ==
  ASSUME Built, NEW v, Schedule(v)
  PROVE  FnAlone /\ job'.schedule = v /\ job'.err = job.err /\ job'.panic = job.panic
<1>1. PICK s, e, f, i, p : job = JobOf(s, e, f, i, p)
  BY Zenon DEF Built
<1>2. job' = [JobOf(s, e, f, i, p) EXCEPT !.schedule = v]
  BY <1>1, Zenon DEF Schedule
<1>3. job.schedule = s /\ job.err = e /\ job.fn = f /\ job.isStart = i /\ job.panic = p
  BY <1>1 DEF JobOf
<1>4. job' = JobOf(v, e, f, i, p)
  BY <1>2 DEF JobOf
<1>5. job'.schedule = v /\ job'.err = e /\ job'.panic = p
  BY <1>4 DEF JobOf
<1> QED BY <1>3, <1>4, <1>5, Zenon DEF FnAlone

\* An error leaves the rest of the job as it was.
LEMMA BadChainingIs ==
  ASSUME Built, BadChaining
  PROVE  FnAlone /\ job'.schedule = job.schedule /\ job'.err = TRUE /\ job'.panic = job.panic
<1>1. PICK s, e, f, i, p : job = JobOf(s, e, f, i, p)
  BY Zenon DEF Built
<1>2. job' = [JobOf(s, e, f, i, p) EXCEPT !.err = TRUE]
  BY <1>1, Zenon DEF BadChaining
<1>3. job.schedule = s /\ job.err = e /\ job.fn = f /\ job.isStart = i /\ job.panic = p
  BY <1>1 DEF JobOf
<1>4. job' = JobOf(s, TRUE, f, i, p)
  BY <1>2, Zenon DEF JobOf
<1>5. job'.schedule = s /\ job'.err = TRUE /\ job'.panic = p
  BY <1>4 DEF JobOf
<1> QED BY <1>3, <1>4, <1>5, Zenon DEF FnAlone

\* So does a panic.
LEMMA PanicIs ==
  ASSUME Built, job' = [job EXCEPT !.panic = TRUE]
  PROVE  FnAlone /\ job'.schedule = job.schedule /\ job'.err = job.err /\ job'.panic = TRUE
<1>1. PICK s, e, f, i, p : job = JobOf(s, e, f, i, p)
  BY Zenon DEF Built
<1>2. job' = [JobOf(s, e, f, i, p) EXCEPT !.panic = TRUE]
  BY <1>1, Zenon DEF Built
<1>3. job.schedule = s /\ job.err = e /\ job.fn = f /\ job.isStart = i /\ job.panic = p
  BY <1>1 DEF JobOf
<1>4. job' = JobOf(s, e, f, i, TRUE)
  BY <1>2, Zenon DEF JobOf
<1>5. job'.schedule = s /\ job'.err = e /\ job'.panic = TRUE
  BY <1>4 DEF JobOf
<1> QED BY <1>3, <1>4, <1>5, Zenon DEF FnAlone

\* A call that does nothing leaves all of it.
LEMMA NothingIs ==
  ASSUME Built, UNCHANGED job
  PROVE  FnAlone /\ job'.schedule = job.schedule /\ job'.err = job.err /\ job'.panic = job.panic
BY Zenon DEF Built, FnAlone

\* A call may set the schedule and the error.
LEMMA BothAre ==
  ASSUME Built, NEW v, NEW w, job' = [job EXCEPT !.schedule = v, !.err = w]
  PROVE  FnAlone /\ job'.schedule = v /\ job'.err = w /\ job'.panic = job.panic
<1>1. PICK s, e, f, i, p : job = JobOf(s, e, f, i, p)
  BY Zenon DEF Built
<1>2. [JobOf(s, e, f, i, p) EXCEPT !.schedule = v, !.err = w] = [[JobOf(s, e, f, i, p) EXCEPT !.schedule = v] EXCEPT !.err = w]
  BY Zenon DEF JobOf
<1>3. job.fn = f /\ job.isStart = i /\ job.panic = p
  BY <1>1 DEF JobOf
<1>4. [JobOf(s, e, f, i, p) EXCEPT !.schedule = v] = JobOf(v, e, f, i, p)
  BY DEF JobOf
<1>5. [JobOf(v, e, f, i, p) EXCEPT !.err = w] = JobOf(v, w, f, i, p)
  BY DEF JobOf
<1>6. job' = JobOf(v, w, f, i, p)
  <2>1. job' = [JobOf(s, e, f, i, p) EXCEPT !.schedule = v, !.err = w]
    BY <1>1
  <2> QED BY <1>2, <1>4, <1>5, <2>1, Zenon
<1>7. job'.schedule = v /\ job'.err = w /\ job'.panic = p
  <2>1. JobOf(v, w, f, i, p).schedule = v /\ JobOf(v, w, f, i, p).err = w /\ JobOf(v, w, f, i, p).panic = p
    BY DEF JobOf
  <2> QED BY <1>6, <2>1, Zenon
<1> QED BY <1>3, <1>6, <1>7, Zenon DEF FnAlone

\* Setting a field of a recurrent schedule.
LEMMA RecurrentSet ==
  ASSUME NEW u, NEW p, NEW o, NEW v
  PROVE  /\ [RecurrentOf(u, p, o) EXCEPT !.units = v] = RecurrentOf(v, p, o)
         /\ [RecurrentOf(u, p, o) EXCEPT !.period = v] = RecurrentOf(u, v, o)
         /\ [RecurrentOf(u, p, o) EXCEPT !.done = v] = RecurrentOf(u, p, v)
BY DEF RecurrentOf

\* MDay.
LEMMA MDayKeeps ==
  ASSUME BInv, ~job.panic, NEW d \in {0, 3}, MDay(d)
  PROVE  BInv'
<1> DEFINE n == Len(calls)
<1>1. PICK e : e = <<"MDay", d>>
  BY Zenon
<1>2. Called("MDay", d) /\ e \in Entries /\ e[1] = "MDay" /\ e[2] = d
  <2>1. Called("MDay", d)
    BY DEF MDay
  <2>2. e \in Entries
    BY <1>1 DEF Entries, Methods
  <2> QED BY <1>1, <2>1, <2>2
<1>3. /\ FnAlone /\ job'.panic = job.panic /\ job'.err \in BOOLEAN
      /\ job'.err <=> job.err \/ Kind \notin {"nil", "monthly"}
      /\ Kind = "nil" => job'.schedule = monthly(d)
      /\ Kind = "monthly" => job'.schedule = [job.schedule EXCEPT !.day = d]
  <2>1. Built /\ job.err \in BOOLEAN
    BY DEF BInv, Built
  <2>2. CASE Kind = "nil" /\ Schedule(monthly(d))
    BY <2>1, <2>2, ScheduleIs
  <2>3. CASE Kind = "monthly" /\ Schedule([job.schedule EXCEPT !.day = d])
    BY <2>1, <2>3, ScheduleIs
  <2>4. CASE Kind \notin {"nil", "monthly"} /\ BadChaining
    BY <2>1, <2>4, BadChainingIs, Zenon
  <2> QED BY <2>2, <2>3, <2>4 DEF MDay
<1>4. ~job'.err <=> ~job.err /\ FitsAfter(made, calls, n, e)
  BY <1>2, <1>3, ScheduleNow DEF FitsAfter
<1>5. ASSUME ~job'.err
      PROVE  job'.schedule = Asked(made, calls', n + 1)
  <2>1. ~job.err /\ FitsAfter(made, calls, n, e) /\ made = <<>> /\ Kind \in {"nil", "monthly"}
    BY <1>2, <1>3, <1>4, <1>5 DEF FitsAfter
  <2>2. Asked(made, calls', n + 1) = DaysAsked(job.schedule, e)
    BY <1>1, <1>2, <2>1, AskedNext
  <2>3. DaysAsked(job.schedule, e) = [kind |-> "monthly", day |-> d, time |-> IF Kind = "nil" THEN Midnight ELSE job.schedule.time]
    BY <1>2 DEF DaysAsked, Kind
  <2>4. CASE Kind = "nil"
    BY <1>3, <2>2, <2>3, <2>4 DEF monthly
  <2>5. CASE Kind = "monthly"
    <3>1. job.schedule = [kind |-> "monthly", day |-> job.schedule.day, time |-> job.schedule.time]
      BY <2>1, <2>5, ScheduleNow
    <3> QED BY <1>3, <2>2, <2>3, <2>5, <3>1
  <2> QED BY <2>1, <2>4, <2>5
<1>6. job.panic \in BOOLEAN
  BY DEF BInv, Built
<1> QED BY <1>1, <1>2, <1>3, <1>4, <1>5, <1>6, CallHeeded

\* RNotImmediately.
LEMMA RNotImmediatelyKeeps ==
  ASSUME BInv, ~job.panic, RNotImmediately
  PROVE  BInv'
<1> DEFINE n == Len(calls)
<1>1. PICK e : e = <<"RNotImmediately", 0>>
  BY Zenon
<1>2. Called("RNotImmediately", 0) /\ e \in Entries /\ e[1] = "RNotImmediately" /\ e[2] = 0
  <2>1. Called("RNotImmediately", 0)
    BY DEF RNotImmediately
  <2>2. e \in Entries
    BY <1>1 DEF Entries, Methods
  <2> QED BY <1>1, <2>1, <2>2
<1>3. /\ FnAlone /\ job'.panic = job.panic /\ job'.err \in BOOLEAN
      /\ job'.err <=> job.err \/ Kind # "recurrent"
      /\ Kind = "recurrent" => job'.schedule = [job.schedule EXCEPT !.done = TRUE]
  <2>1. Built /\ job.err \in BOOLEAN
    BY DEF BInv, Built
  <2>2. CASE Kind = "recurrent"
    <3>1. Schedule([job.schedule EXCEPT !.done = TRUE])
      BY <2>2 DEF RNotImmediately
    <3> QED BY <2>1, <2>2, <3>1, ScheduleIs
  <2>3. CASE Kind # "recurrent"
    BY <2>1, <2>3, BadChainingIs, Zenon DEF RNotImmediately
  <2> QED BY <2>2, <2>3
<1>4. ~job'.err <=> ~job.err /\ FitsAfter(made, calls, n, e)
  BY <1>2, <1>3, ScheduleNow DEF FitsAfter
<1>5. ASSUME ~job'.err
      PROVE  job'.schedule = Asked(made, calls', n + 1)
  <2>1. ~job.err /\ FitsAfter(made, calls, n, e) /\ made # <<>> /\ Kind = "recurrent"
    BY <1>2, <1>3, <1>4, <1>5 DEF FitsAfter
  <2>2. Asked(made, calls', n + 1) = RecurrentAsked(job.schedule, e)
    BY <1>1, <1>2, <2>1, AskedNext
  <2>3. PICK u, p, o : job.schedule = RecurrentOf(u, p, o)
    BY <2>1, RecurrentNow, Zenon
  <2>4. [job.schedule EXCEPT !.done = TRUE] = RecurrentOf(u, p, TRUE)
    <3>1. PICK y : y = TRUE
      OBVIOUS
    <3>2. [RecurrentOf(u, p, o) EXCEPT !.done = y] = RecurrentOf(u, p, y)
      BY RecurrentSet
    <3> QED BY <2>3, <3>1, <3>2, Zenon
  <2>5. RecurrentAsked(job.schedule, e) = RecurrentOf(u, p, TRUE)
    BY <1>2, <2>3, NotNowNext, Zenon
  <2> QED BY <1>3, <2>1, <2>2, <2>4, <2>5, Zenon
<1>6. job.panic \in BOOLEAN
  BY DEF BInv, Built
<1> QED BY <1>1, <1>2, <1>3, <1>4, <1>5, <1>6, CallHeeded

\* At.
LEMMA AtKeeps ==
  ASSUME BInv, ~job.panic, NEW t \in Times, At(t)
  PROVE  BInv'
<1> DEFINE n == Len(calls)
<1>1. PICK e : e = <<"At", t>>
  BY Zenon
<1>2. Called("At", t) /\ e \in Entries /\ e[1] = "At" /\ e[2] = t
  <2>1. Called("At", t)
    BY DEF At
  <2>2. e \in Entries
    BY <1>1 DEF Entries, Methods
  <2> QED BY <1>1, <2>1, <2>2
<1>3. /\ FnAlone /\ job'.panic = job.panic /\ job'.err \in BOOLEAN
      /\ job'.err <=> job.err \/ parseTimeFails(t) \/ Kind \notin {"daily", "weekly", "monthly"}
      /\ ~job'.err => job'.schedule = [job.schedule EXCEPT !.time = Parts3(t)]
  <2>1. Built /\ job.err \in BOOLEAN /\ (parseTimeFails(t) \in BOOLEAN)
    BY DEF BInv, Built, parseTimeFails
  <2> HIDE DEF parseTimeFails
  <2>2. CASE job.err /\ UNCHANGED job
    BY <2>1, <2>2, NothingIs, Zenon
  <2>3. CASE ~job.err /\ (parseTimeFails(t) \/ Kind \in {"nil", "recurrent"}) /\ BadChaining
    BY <2>1, <2>3, BadChainingIs, Zenon
  <2>4. CASE /\ ~job.err /\ ~parseTimeFails(t) /\ Kind \in {"daily", "weekly", "monthly"}
             /\ Schedule([job.schedule EXCEPT !.time = Parts3(t)])
    BY <2>1, <2>4, ScheduleIs
  <2> QED BY <2>2, <2>3, <2>4 DEF At
<1> HIDE DEF parseTimeFails, Parts3
<1>4. ~job'.err <=> ~job.err /\ FitsAfter(made, calls, n, e)
  BY <1>2, <1>3, ScheduleNow DEF FitsAfter
<1>5. ASSUME ~job'.err
      PROVE  job'.schedule = Asked(made, calls', n + 1)
  <2>1. ~job.err /\ FitsAfter(made, calls, n, e) /\ made = <<>> /\ Kind \in {"daily", "weekly", "monthly"}
    BY <1>2, <1>3, <1>4, <1>5 DEF FitsAfter
  <2>2. Asked(made, calls', n + 1) = DaysAsked(job.schedule, e)
    BY <1>1, <1>2, <2>1, AskedNext
  <2>3. CASE Kind = "daily"
    <3>1. job.schedule = [kind |-> "daily", time |-> job.schedule.time]
      BY <2>1, <2>3, ScheduleNow
    <3>2. [job.schedule EXCEPT !.time = Parts3(t)] = [kind |-> "daily", time |-> Parts3(t)]
      BY <3>1
    <3>3. DaysAsked(job.schedule, e) = [kind |-> "daily", time |-> Parts3(t)]
      BY <1>2, <2>3 DEF DaysAsked, Kind
    <3> QED BY <1>3, <1>5, <2>2, <3>2, <3>3
  <2>4. CASE Kind # "daily"
    <3>1. PICK k, a, b : job.schedule = [kind |-> k, day |-> a, time |-> b] /\ k # "daily"
      BY <2>1, <2>4, ScheduleNow, Zenon
    <3>2. [job.schedule EXCEPT !.time = Parts3(t)] = [kind |-> k, day |-> a, time |-> Parts3(t)]
      BY <3>1
    <3>3. DaysAsked(job.schedule, e) = [kind |-> k, day |-> a, time |-> Parts3(t)]
      BY <1>2, <3>1 DEF DaysAsked
    <3> QED BY <1>3, <1>5, <2>2, <3>2, <3>3
  <2> QED BY <2>3, <2>4
<1>6. job.panic \in BOOLEAN
  BY DEF BInv, Built
<1> QED BY <1>1, <1>2, <1>3, <1>4, <1>5, <1>6, CallHeeded

\* Job.Every.
LEMMA JobEveryKeeps ==
  ASSUME BInv, ~job.panic, JobEvery(3)
  PROVE  BInv'
<1> DEFINE n == Len(calls)
<1>1. PICK e : e = <<"Every", 3>>
  BY Zenon
<1>2. Called("Every", 3) /\ e \in Entries /\ e[1] = "Every" /\ e[2] = 3
  <2>1. Called("Every", 3)
    BY DEF JobEvery
  <2>2. e \in Entries
    BY <1>1 DEF Entries, Methods
  <2> QED BY <1>1, <2>1, <2>2
<1>3. /\ FnAlone /\ job'.panic = job.panic /\ job'.err \in BOOLEAN
      /\ job'.err = job.err
      /\ Kind = "recurrent" => job'.schedule = [job.schedule EXCEPT !.units = 3]
      /\ Kind # "recurrent" => job'.schedule = job.schedule
  <2>1. Built /\ job.err \in BOOLEAN
    BY DEF BInv, Built
  <2>2. CASE Kind = "recurrent"
    <3>1. Schedule([job.schedule EXCEPT !.units = 3])
      BY <2>2 DEF JobEvery
    <3> QED BY <2>1, <2>2, <3>1, ScheduleIs
  <2>3. CASE Kind # "recurrent"
    <3>1. UNCHANGED job
      BY <2>3 DEF JobEvery
    <3> QED BY <2>1, <2>3, <3>1, NothingIs
  <2> QED BY <2>2, <2>3
<1>4. ~job'.err <=> ~job.err /\ FitsAfter(made, calls, n, e)
  BY <1>2, <1>3 DEF FitsAfter
<1>5. ASSUME ~job'.err
      PROVE  job'.schedule = Asked(made, calls', n + 1)
  <2>1. ~job.err /\ FitsAfter(made, calls, n, e)
    BY <1>4, <1>5
  <2>2. CASE made # <<>>
    <3>1. Asked(made, calls', n + 1) = RecurrentAsked(job.schedule, e)
      BY <1>1, <1>2, <2>1, <2>2, AskedNext
    <3>2. PICK u, p, o : job.schedule = RecurrentOf(u, p, o)
      BY <2>1, <2>2, RecurrentNow, Zenon
    <3>3. [job.schedule EXCEPT !.units = 3] = RecurrentOf(3, p, o)
      <4>1. [RecurrentOf(u, p, o) EXCEPT !.units = 3] = RecurrentOf(3, p, o)
        BY RecurrentSet
      <4> QED BY <3>2, <4>1, Zenon
    <3>4. RecurrentAsked(job.schedule, e) = RecurrentOf(3, p, o)
      <4>1. RecurrentAsked(RecurrentOf(u, p, o), e) = RecurrentOf(e[2], p, o)
        BY <1>2, EveryNext
      <4> QED BY <1>2, <3>2, <4>1, Zenon
    <3>5. Kind = "recurrent"
      BY <2>1, <2>2, ScheduleNow
    <3> QED BY <1>3, <3>1, <3>3, <3>4, <3>5
  <2>3. CASE made = <<>>
    <3>1. Asked(made, calls', n + 1) = DaysAsked(job.schedule, e)
      BY <1>1, <1>2, <2>1, <2>3, AskedNext
    <3>2. DaysAsked(job.schedule, e) = job.schedule
      BY <1>2 DEF DaysAsked
    <3>3. Kind # "recurrent"
      BY <2>1, <2>3, ScheduleNow
    <3> QED BY <1>3, <3>1, <3>2, <3>3
  <2> QED BY <2>2, <2>3
<1>6. job.panic \in BOOLEAN
  BY DEF BInv, Built
<1> QED BY <1>1, <1>2, <1>3, <1>4, <1>5, <1>6, CallHeeded

\* A day of the week.
LEMMA DayOfWeekKeeps ==
  ASSUME BInv, ~job.panic, dayOfWeek(1)
  PROVE  BInv'
<1> DEFINE n == Len(calls)
<1>1. PICK e : e = <<"dayOfWeek", 1>>
  BY Zenon
<1>2. Called("dayOfWeek", 1) /\ e \in Entries /\ e[1] = "dayOfWeek" /\ e[2] = 1
  <2>1. Called("dayOfWeek", 1)
    BY DEF dayOfWeek
  <2>2. e \in Entries
    BY <1>1 DEF Entries, Methods
  <2> QED BY <1>1, <2>1, <2>2
<1>3. /\ FnAlone /\ job'.panic = job.panic /\ job'.err \in BOOLEAN
      /\ job'.err <=> job.err \/ Kind # "nil"
      /\ job'.schedule = weekly(1)
  <2>1. Built /\ job.err \in BOOLEAN
    BY DEF BInv, Built
  <2>2. job' = [job EXCEPT !.schedule = weekly(1), !.err = job.err \/ Kind # "nil"]
    BY Zenon DEF dayOfWeek
  <2>3. FnAlone /\ job'.schedule = weekly(1) /\ job'.err = (job.err \/ Kind # "nil") /\ job'.panic = job.panic
    BY <2>1, <2>2, BothAre, Zenon
  <2> QED BY <2>1, <2>3, Zenon
<1>4. ~job'.err <=> ~job.err /\ FitsAfter(made, calls, n, e)
  BY <1>2, <1>3, ScheduleNow, Zenon DEF FitsAfter
<1>5. ASSUME ~job'.err
      PROVE  job'.schedule = Asked(made, calls', n + 1)
  <2>1. ~job.err /\ FitsAfter(made, calls, n, e) /\ made = <<>>
    BY <1>2, <1>4, <1>5 DEF FitsAfter
  <2>2. Asked(made, calls', n + 1) = DaysAsked(job.schedule, e)
    BY <1>1, <1>2, <2>1, AskedNext
  <2>3. DaysAsked(job.schedule, e) = weekly(1)
    BY <1>2 DEF DaysAsked
  <2> QED BY <1>3, <2>2, <2>3, Zenon
<1>6. job.panic \in BOOLEAN
  BY DEF BInv, Built
<1> QED BY <1>1, <1>2, <1>3, <1>4, <1>5, <1>6, CallHeeded

\* DDay.
LEMMA DDayKeeps ==
  ASSUME BInv, ~job.panic, DDay
  PROVE  BInv'
<1> DEFINE n == Len(calls)
<1>1. PICK e : e = <<"DDay", 0>>
  BY Zenon
<1>2. Called("DDay", 0) /\ e \in Entries /\ e[1] = "DDay" /\ e[2] = 0
  <2>1. Called("DDay", 0)
    BY DEF DDay
  <2>2. e \in Entries
    BY <1>1 DEF Entries, Methods
  <2> QED BY <1>1, <2>1, <2>2
<1>3. /\ FnAlone /\ job'.panic = job.panic /\ job'.err \in BOOLEAN
      /\ job'.err <=> job.err \/ Kind \notin {"nil", "daily"}
      /\ job'.schedule = daily
  <2>1. Built /\ job.err \in BOOLEAN
    BY DEF BInv, Built
  <2>2. job' = [job EXCEPT !.schedule = daily, !.err = job.err \/ Kind \notin {"nil", "daily"}]
    BY Zenon DEF DDay
  <2>3. FnAlone /\ job'.schedule = daily /\ job'.err = (job.err \/ Kind \notin {"nil", "daily"}) /\ job'.panic = job.panic
    BY <2>1, <2>2, BothAre, Zenon
  <2> QED BY <2>1, <2>3, Zenon
<1>4. ~job'.err <=> ~job.err /\ FitsAfter(made, calls, n, e)
  BY <1>2, <1>3, ScheduleNow, Zenon DEF FitsAfter
<1>5. ASSUME ~job'.err
      PROVE  job'.schedule = Asked(made, calls', n + 1)
  <2>1. ~job.err /\ FitsAfter(made, calls, n, e) /\ made = <<>>
    BY <1>2, <1>4, <1>5 DEF FitsAfter
  <2>2. Asked(made, calls', n + 1) = DaysAsked(job.schedule, e)
    BY <1>1, <1>2, <2>1, AskedNext
  <2>3. DaysAsked(job.schedule, e) = daily
    BY <1>2 DEF DaysAsked
  <2> QED BY <1>3, <2>2, <2>3, Zenon
<1>6. job.panic \in BOOLEAN
  BY DEF BInv, Built
<1> QED BY <1>1, <1>2, <1>3, <1>4, <1>5, <1>6, CallHeeded

\* ESeconds, EMinutes and EHours.
LEMMA TimeOfDayKeeps ==
  ASSUME BInv, ~job.panic, NEW d \in {1, 60}, timeOfDay(d)
  PROVE  BInv'
<1> DEFINE n == Len(calls)
<1>1. PICK e : e = <<"timeOfDay", d>>
  BY Zenon
<1>2. Called("timeOfDay", d) /\ e \in Entries /\ e[1] = "timeOfDay" /\ e[2] = d
  <2>1. Called("timeOfDay", d)
    BY DEF timeOfDay
  <2>2. e \in Entries
    BY <1>1 DEF Entries, Methods
  <2> QED BY <1>1, <2>1, <2>2
<1>3. /\ FnAlone /\ job'.panic \in BOOLEAN /\ job'.err = job.err /\ job.err \in BOOLEAN
      /\ ~job.err /\ Kind = "recurrent" => job'.schedule = [job.schedule EXCEPT !.period = d]
      /\ ~job.err /\ Kind # "recurrent" => job'.panic
  <2>1. Built /\ job.err \in BOOLEAN /\ job.panic \in BOOLEAN
    BY DEF BInv, Built
  <2>2. CASE job.err /\ UNCHANGED job
    BY <2>1, <2>2, NothingIs, Zenon
  <2>3. CASE ~job.err /\ Kind = "recurrent" /\ Schedule([job.schedule EXCEPT !.period = d])
    BY <2>1, <2>3, ScheduleIs
  <2>4. CASE ~job.err /\ Kind # "recurrent" /\ job' = [job EXCEPT !.panic = TRUE]
    <3>1. FnAlone /\ job'.err = job.err /\ job'.panic = TRUE
      BY <2>1, <2>4, PanicIs, Zenon
    <3> QED BY <2>1, <2>4, <3>1, Zenon
  <2> QED BY <2>2, <2>3, <2>4 DEF timeOfDay
<1>4. ~job'.err <=> ~job.err /\ FitsAfter(made, calls, n, e)
  BY <1>2, <1>3 DEF FitsAfter
<1>5. ASSUME ~job'.err, ~job'.panic
      PROVE  job'.schedule = Asked(made, calls', n + 1)
  <2>1. ~job.err /\ FitsAfter(made, calls, n, e) /\ Kind = "recurrent"
    BY <1>3, <1>4, <1>5
  <2>2. made # <<>>
    BY <2>1, ScheduleNow
  <2>3. Asked(made, calls', n + 1) = RecurrentAsked(job.schedule, e)
    BY <1>1, <1>2, <2>1, <2>2, AskedNext
  <2>4. PICK u, p, o : job.schedule = RecurrentOf(u, p, o)
    BY <2>1, <2>2, RecurrentNow, Zenon
  <2>5. [job.schedule EXCEPT !.period = d] = RecurrentOf(u, d, o)
    <3>1. [RecurrentOf(u, p, o) EXCEPT !.period = d] = RecurrentOf(u, d, o)
      BY RecurrentSet
    <3> QED BY <2>4, <3>1, Zenon
  <2>6. RecurrentAsked(job.schedule, e) = RecurrentOf(u, d, o)
    <3>1. RecurrentAsked(RecurrentOf(u, p, o), e) = RecurrentOf(u, e[2], o)
      BY <1>2, PeriodNext
    <3> QED BY <1>2, <2>4, <3>1, Zenon
  <2> QED BY <1>3, <2>1, <2>3, <2>5, <2>6
<1> QED BY <1>1, <1>2, <1>3, <1>4, <1>5, CallHeeded

\* A call that gives a function, or runs the job, keeps the invariant if without
\* an error it keeps the function given and starts the job when there is one.
LEMMA FnHeeded ==
  ASSUME BInv, ~job.panic, NEW name \in {"SetFunc", "Run"}, NEW arg, NEW e, e = <<name, arg>>, e \in Entries,
         Called(name, arg),
         NEW f, NEW i \in BOOLEAN, job' = JobOf(job.schedule, job.err, f, i, job.panic),
         ~job.err => (f # NoFn <=> job.fn # NoFn \/ arg # NoFn),
         i <=> job.isStart \/ (name = "Run" /\ ~job.err /\ f # NoFn)
  PROVE  BInv'
<1> DEFINE n == Len(calls)
<1>1. /\ More(calls, calls', n, e) /\ Len(calls') = n + 1 /\ calls' \in Seq(Entries) /\ made' = made
  BY OneMoreCall DEF BInv
<1>2. n \in Nat /\ e[1] = name /\ e[2] = arg
  <2>1. n \in Nat
    BY <1>1, Zenon DEF More
  <2>2. e[1] = name /\ e[2] = arg
    OBVIOUS
  <2> QED BY <2>1, <2>2
<1>3. job'.schedule = job.schedule /\ job'.err = job.err /\ job'.fn = f /\ job'.isStart = i /\ job'.panic = job.panic
  BY DEF JobOf
<1>4. Built'
  <2>1. made \in {<<>>, <<2>>} /\ job.err \in BOOLEAN /\ job.panic \in BOOLEAN
    BY DEF BInv, Built
  <2>2. job' = JobOf(job'.schedule, job'.err, job'.fn, job'.isStart, job'.panic)
    BY <1>3, Zenon
  <2> QED BY <1>1, <1>3, <2>1, <2>2 DEF Built
<1>5. /\ Fits(made, calls', n + 1) <=> Fits(made, calls, n)
      /\ \A k \in 0..n : Fits(made, calls', k) <=> Fits(made, calls, k)
  <2>1. FitsAfter(made, calls, n, e)
    BY <1>2 DEF FitsAfter
  <2> QED BY <1>1, <2>1, FitsGrown, FitsBefore
<1>6. /\ Of(calls', "Run", n + 1) = IF name = "Run" THEN Of(calls, "Run", n) \cup {n + 1} ELSE Of(calls, "Run", n)
      /\ Of(calls, "Run", n) \subseteq 0..n
  <2>1. OneMoreOf(calls, calls', n, e)
    BY <1>1, Grown
  <2>2. Of(calls', "Run", n + 1) = IF "Run" = e[1] THEN Of(calls, "Run", n) \cup {n + 1} ELSE Of(calls, "Run", n)
    BY <2>1, Zenon DEF OneMoreOf
  <2>3. Of(calls, "Run", n) \subseteq 0..n
    BY <1>2 DEF Of
  <2> QED BY <1>2, <2>2, <2>3
<1>7. \A k \in 0..n : FnGiven(calls', k) <=> FnGiven(calls, k)
  BY <1>1, FnSame
<1>8. FnGiven(calls', n + 1) <=> FnGiven(calls, n) \/ arg # NoFn
  BY <1>1, <1>2, FnGrown
<1>9. /\ ~job.err <=> Fits(made, calls, n)
      /\ ~job.err => job.schedule = Asked(made, calls, n)
      /\ job.isStart <=> \E k \in Of(calls, "Run", n) : Fits(made, calls, k) /\ FnGiven(calls, k)
      /\ ~job.err => (job.fn # NoFn <=> FnGiven(calls, n))
  BY Zenon DEF BInv, ChainHeeded, FnKept
<1>10. ~job.err => (f # NoFn <=> FnGiven(calls', n + 1))
  BY <1>8, <1>9
<1>11. i <=> \E k \in Of(calls', "Run", n + 1) : Fits(made, calls', k) /\ FnGiven(calls', k)
  <2>1. job.isStart <=> \E k \in Of(calls, "Run", n) : Fits(made, calls', k) /\ FnGiven(calls', k)
    BY <1>5, <1>6, <1>7, <1>9, Zenon
  <2> QED BY <1>5, <1>6, <1>9, <1>10, <2>1, Zenon
<1>12. ~job.err => Asked(made, calls', n + 1) = job.schedule
  <2>1. FitsAfter(made, calls, n, e)
    BY <1>2 DEF FitsAfter
  <2>2. ASSUME ~job.err, made = <<>>
        PROVE  Asked(made, calls', n + 1) = job.schedule
    <3>1. Asked(made, calls', n + 1) = DaysAsked(job.schedule, e)
      BY <2>1, <2>2, AskedNext
    <3> QED BY <1>2, <3>1 DEF DaysAsked
  <2>3. ASSUME ~job.err, made # <<>>
        PROVE  Asked(made, calls', n + 1) = job.schedule
    <3>1. Asked(made, calls', n + 1) = RecurrentAsked(job.schedule, e)
      BY <2>1, <2>3, AskedNext
    <3>2. PICK u, p, o : job.schedule = RecurrentOf(u, p, o)
      BY <2>3, RecurrentNow, Zenon
    <3>3. RecurrentAsked(job.schedule, e) = RecurrentOf(u, p, o)
      <4>1. e[1] \in {"SetFunc", "Run"}
        BY <1>2
      <4>2. RecurrentAsked(RecurrentOf(u, p, o), e) = RecurrentOf(u, p, o)
        BY <4>1, FnNext
      <4> QED BY <3>2, <4>2, Zenon
    <3> QED BY <3>1, <3>2, <3>3, Zenon
  <2> QED BY <2>2, <2>3
<1>13. ChainHeeded'
  BY <1>1, <1>3, <1>5, <1>9, <1>11, <1>12, Zenon DEF ChainHeeded
<1>14. FnKept'
  BY <1>1, <1>3, <1>10 DEF FnKept
<1> QED BY <1>4, <1>13, <1>14 DEF BInv

\* SetFunc.
LEMMA SetFuncKeeps ==
  ASSUME BInv, ~job.panic, SetFunc("f")
  PROVE  BInv'
<1>1. PICK s, e, g, i, p : job = JobOf(s, e, g, i, p)
  BY Zenon DEF BInv, Built
<1>2. job.schedule = s /\ job.err = e /\ job.fn = g /\ job.isStart = i /\ job.panic = p
  BY <1>1 DEF JobOf
<1>3. e \in BOOLEAN /\ i \in BOOLEAN
  BY <1>2 DEF BInv, Built
<1>4. Called("SetFunc", "f") /\ <<"SetFunc", "f">> \in Entries
  BY DEF SetFunc, Entries, Methods
<1>5. CASE e
  <2>1. job' = JobOf(s, e, g, i, p)
    BY <1>1, <1>2, <1>5 DEF SetFunc
  <2> QED BY <1>2, <1>3, <1>4, <1>5, <2>1, FnHeeded, Zenon
<1>6. CASE ~e
  <2>1. job' = [JobOf(s, e, g, i, p) EXCEPT !.fn = "f"]
    BY <1>1, <1>2, <1>6, Zenon DEF SetFunc
  <2>2. job' = JobOf(s, e, "f", i, p)
    BY <2>1 DEF JobOf
  <2> QED BY <1>2, <1>3, <1>4, <1>6, <2>2, FnHeeded DEF NoFn
<1> QED BY <1>3, <1>5, <1>6

\* Run.
LEMMA RunKeeps ==
  ASSUME BInv, ~job.panic, NEW f \in {"g", NoFn}, RunJobOf(f)
  PROVE  BInv'
<1>1. PICK s, e, g, i, p : job = JobOf(s, e, g, i, p)
  BY Zenon DEF BInv, Built
<1>2. job.schedule = s /\ job.err = e /\ job.fn = g /\ job.isStart = i /\ job.panic = p
  BY <1>1 DEF JobOf
<1>3. e \in BOOLEAN /\ i \in BOOLEAN
  BY <1>2 DEF BInv, Built
<1>4. Called("Run", f) /\ <<"Run", f>> \in Entries
  BY DEF RunJobOf, Entries, Methods
<1>5. CASE e \/ (f = NoFn /\ g = NoFn)
  <2>1. job' = JobOf(s, e, g, i, p)
    BY <1>1, <1>2, <1>5 DEF RunJobOf
  <2> QED BY <1>2, <1>3, <1>4, <1>5, <2>1, FnHeeded
<1>6. CASE ~(e \/ (f = NoFn /\ g = NoFn))
  <2>0. PICK h : h = IF f = NoFn THEN g ELSE f
    OBVIOUS
  <2>1. job' = [JobOf(s, e, g, i, p) EXCEPT !.fn = h, !.isStart = TRUE]
    BY <1>1, <1>2, <1>6, <2>0, Zenon DEF RunJobOf
  <2>2. PICK y : y = TRUE
    OBVIOUS
  <2>3. [JobOf(s, e, g, i, p) EXCEPT !.fn = h, !.isStart = y] = JobOf(s, e, h, y, p)
    <3>1. [JobOf(s, e, g, i, p) EXCEPT !.fn = h, !.isStart = y] = [[JobOf(s, e, g, i, p) EXCEPT !.fn = h] EXCEPT !.isStart = y]
      BY Zenon DEF JobOf
    <3>2. [JobOf(s, e, g, i, p) EXCEPT !.fn = h] = JobOf(s, e, h, i, p)
      BY DEF JobOf
    <3>3. [JobOf(s, e, h, i, p) EXCEPT !.isStart = y] = JobOf(s, e, h, y, p)
      BY DEF JobOf
    <3> QED BY <3>1, <3>2, <3>3, Zenon
  <2>5. job' = JobOf(s, e, h, TRUE, p)
    BY <2>1, <2>2, <2>3, Zenon
  <2>6. h # NoFn /\ (h # NoFn <=> g # NoFn \/ f # NoFn)
    BY <1>6, <2>0
  <2> QED BY <1>2, <1>3, <1>4, <1>6, <2>5, <2>6, FnHeeded, Zenon
<1> QED BY <1>5, <1>6

\* Every starts the invariant.
LEMMA BuildStart ==
  BuildInit => BInv
<1> SUFFICES ASSUME BuildInit PROVE BInv
  OBVIOUS
<1>1. /\ calls = <<>> /\ Len(calls) = 0 /\ made \in {<<>>, <<2>>} /\ calls \in Seq(Entries)
  BY DEF BuildInit
<1>2. PICK s : s = IF made = <<>> THEN NoSchedule ELSE recurrent(made[1])
  OBVIOUS
<1>3. job = JobOf(s, FALSE, NoFn, FALSE, FALSE)
  BY <1>2, Zenon DEF BuildInit, JobOf
<1>4. job.schedule = s /\ job.err = FALSE /\ job.fn = NoFn /\ job.isStart = FALSE /\ job.panic = FALSE
  BY <1>3 DEF JobOf
<1>5. Built
  BY <1>1, <1>3, <1>4, Zenon DEF Built
<1>6. \A x : Of(calls, x, 0) = {}
  BY DEF Of
<1>7. DaysOf(calls, 0) = {} /\ ~FnGiven(calls, 0)
  BY <1>6 DEF DaysOf, FnGiven
<1>8. Fits(made, calls, 0)
  BY <1>6, <1>7 DEF Fits
<1>9. s = Asked(made, calls, 0)
  BY <1>2, <1>6, Zenon DEF Asked, LastOf, recurrent
<1> QED BY <1>1, <1>4, <1>5, <1>6, <1>7, <1>8, <1>9 DEF BInv, ChainHeeded, FnKept

\* What a chain of calls asks for is what the job gets, whatever their order.
LEMMA ChainIsHeeded ==
  BuildSpec => []ChainHeeded
<1>1. BInv /\ [BuildNext]_buildVars => BInv'
  <2> SUFFICES ASSUME BInv, [BuildNext]_buildVars PROVE BInv'
    OBVIOUS
  <2>1. CASE UNCHANGED buildVars
    BY <2>1, Zenon DEF buildVars, BInv, Built, ChainHeeded, FnKept
  <2>2. CASE BuildNext
    <3>1. ~job.panic
      BY <2>2 DEF BuildNext
    <3> QED BY <2>2, <3>1, MDayKeeps, RNotImmediatelyKeeps, AtKeeps, JobEveryKeeps, DayOfWeekKeeps, DDayKeeps,
               TimeOfDayKeeps, SetFuncKeeps, RunKeeps, Zenon DEF BuildNext
  <2> QED BY <2>1, <2>2
<1>2. BInv => ChainHeeded
  BY DEF BInv
<1> QED BY <1>1, <1>2, BuildStart, PTL DEF BuildSpec

\* The goroutine of a job is woken for every instant of its schedule and for no
\* other, whatever the calendar and however late it wakes within a day, and its
\* schedule is the one that the chain of calls before Run asks for.
THEOREM ScheduleIsFollowed ==
  DatesSpec /\ BuildSpec => []FollowsSchedule
<1>1. RunsOnSchedule /\ NothingSkipped /\ ChainHeeded => FollowsSchedule
  BY DEF FollowsSchedule
<1> QED BY <1>1, DatesFollow, ChainIsHeeded, PTL
=============================================================================
