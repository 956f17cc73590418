CONSTANTS
  t1 = t1
  t2 = t2
  t3 = t3
  Task = {t1, t2, t3}
  NoTask = NoTask
  None = None
  Duration <- MCDuration
  Priority <- MCPriority
  Slots <- LateSlots
  DeadlinesOf <- MCDeadlines
  Links <- MCLinks
  DayLength = 2
  HorizonDays = 3
  LastInstant = 3
SPECIFICATION ReportsSpec
INVARIANTS NoConflictMeansOnTime
