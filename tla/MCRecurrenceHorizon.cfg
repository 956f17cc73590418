CONSTANTS
  Template = {r1, r2}
  Patterns <- DailyPatterns
  DateOf <- MCDateOf
  CreateHorizon = 2
  Horizons = {1}
  LastMoment = 2
  MaxCopies = 2
  MaxCompleted = 0
SPECIFICATION RecurrenceSpec
INVARIANTS HorizonAlwaysCovered
