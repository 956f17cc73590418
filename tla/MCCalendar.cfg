CONSTANTS
  Task = {t1, t2}
  Calls = {c1}
  NoCall = NoCall
  NoTask = NoTask
  MaxBlockedBy = 2
SPECIFICATION CalendarSpec
SYMMETRY TaskSymmetry
INVARIANTS CalendarTypeOK DepsAcyclic CompletedHasActual CurrentMeansInSync ReplansStartClean
PROPERTIES TerminalIsFinal TimeOnlyForReady
