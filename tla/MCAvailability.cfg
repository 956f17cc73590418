CONSTANTS
  Event = {e1, e2}
  NoEvent = NoEvent
  Null = Null
  Absent = Absent
  DayLength = 4
  WeekLength = 2
  EventTimes = {2, 6, 9, 10}
  EventDays = {1, 2}
  WindowTables <- MCWindowTables
  Horizons = {1}
  LastInstant = 4
SPECIFICATION AvailabilitySpec
SYMMETRY EventSymmetry
INVARIANTS AvailabilityTypeOK AllDayHasDate OfferedTimeIsFree FreeTimeIsOffered
