CONSTANTS
  Task = {t1, t2}
  Horizon = 8
  MinBlock = 2
  FocusMinBlock = 3
  FocusMinutes = {0, 1}
  Durations = {1, 3, 5}
  WindowSets <- MCWindowSets
  BlockerSets <- MCBlockerSets
SPECIFICATION PlacementSpec
CHECK_DEADLOCK FALSE
INVARIANTS HardConstraintsHold
