CONSTANTS
  Calls = {c1, c2}
  NoCall = NoCall
SPECIFICATION FairSpec
INVARIANTS TypeOK RequestArmed ReplanningOnlyInFrame StaleIsRequested AnswerCoversRequests
PROPERTIES RequestTakenUp EveryCallAnswered PlanCatchesUp PromiseKept
