CONSTANTS
  Task = {t1, t2, t3, t4}
  None = None
SPECIFICATION FairSearchSpec
INVARIANTS VerdictCorrect CyclePathIsReal
PROPERTIES SearchEnds
