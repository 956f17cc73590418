CONSTANTS
  Template = {r1, r2}
  Patterns <- MCPatterns
  DateOf <- MCDateOf
  CreateHorizon = 1
  Horizons = {1, 2}
  LastMoment = 1
  MaxCopies = 2
  MaxCompleted = 1
SPECIFICATION RecurrenceSpec
SYMMETRY TemplateSymmetry
INVARIANTS RecurrenceTypeOK OncePerLaterOccurrence EndedSeriesStaysEnded HorizonCovered
PROPERTIES CompletedIsKept
