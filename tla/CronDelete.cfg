SPECIFICATION MCSpec
CONSTANTS
  Units = {0, 2}
  Runs = {r1, r2}
  Callers = {c1, c2}
  DayTicks = 4
  WeekDays = 3
  MonthStart <- MCMonthStart
  Schedules <- Everyday
  MaxLag = 3
  Times <- MCTimes
  MaxCalls = 3
  Names = {j1}
  Fields = {"Month", "Day"}
  Values = {0, 1}
  Seconds = {0, 1, 2, 3}
  FieldsOf <- MCFieldsOf
  ExCallers = {"c1", "c2"}
  Works <- MCWorks
  Reapers <- MCReapers
  Shell = "sh"
  SigCap = 3
  Parts = {"cron"}
INVARIANT DeletedIsGone
CHECK_DEADLOCK FALSE
