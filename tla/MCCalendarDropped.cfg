CONSTANTS
  Task = {t1, t2}
  Calls = {c1}
  NoCall = NoCall
  NoTask = NoTask
  MaxBlockedBy = 2
SPECIFICATION CalendarSpec
INVARIANTS NeverSilentlyDropped
