---------------------- MODULE ReplanCoordinatorProofs ----------------------
(***************************************************************************)
(* The safety of the replan coordinator for any set of calls: of Spec,     *)
(* where writes of the schedule's status may throw, and what holds only of *)
(* ReliableSpec, where they do not.                                        *)
(***************************************************************************)
EXTENDS ReplanCoordinator, TLAPS

\* The frame of executeReplan once it has taken the request up.
Started == Frame \ {"execute"}

(***************************************************************************)
(* The inductive invariant, by topic.                                      *)
(***************************************************************************)
\* Where the flags and the timer stand at each point of the stack.
FlagsInv ==
  /\ pendingTimeout => dirty /\ ~replanning
  /\ pc \in {"idle", "handler"} /\ dirty => pendingTimeout \/ replanning
  /\ pc = "execute" => dirty /\ ~replanning
  /\ pc \in Started => replanning /\ ~dirty

\* Whose frame is on the stack, and who waits in awaitCallbacks.
CallsInv ==
  /\ pc \in {"idle", "handler"} => caller = NoCall
  /\ \A c \in Calls : calls[c] = "running" <=> caller = c
  /\ \A c \in Calls : calls[c] = "waiting" => c \in awaitCallbacks
  /\ \A c \in owing : calls[c] \in {"running", "waiting"}

\* Where a stale plan is accounted for.
PlanInv ==
  /\ pc \in {"idle", "handler", "execute"} => planCurrent \/ uncovered \/ dirty
  /\ pc = "finish" => planCurrent \/ uncovered

IInv == TypeOK /\ FlagsInv /\ CallsInv /\ PlanInv

\* Of ReliableSpec only: the flag never outlives the frame.
NoWedgeInv ==
  /\ pc \notin Started => ~replanning
  /\ awaitCallbacks = {}

USE DEF Frame, TryPhases, Started, CallStates, Statuses, memory, stack, history

LEMMA InitIInv == Init => IInv
BY CallsAssumption DEF Init, IInv, TypeOK, FlagsInv, CallsInv, PlanInv

LEMMA TypeStep == TypeOK /\ [Next]_vars => TypeOK'
<1> SUFFICES ASSUME TypeOK, [Next]_vars PROVE TypeOK'
  OBVIOUS
<1> USE DEF TypeOK
<1>1. CASE BeginHandler \/ Commit \/ RequestReplan \/ HandlerEndsWithoutRequest
  BY <1>1 DEF BeginHandler, Commit, RequestReplan, HandlerEndsWithoutRequest
<1>2. ASSUME NEW c \in Calls, AwaitReplan(c) PROVE TypeOK'
  BY <1>2 DEF AwaitReplan
<1>3. ASSUME NEW c \in Calls, Answer(c) PROVE TypeOK'
  BY <1>3 DEF Answer
<1>4. CASE TimerFires
  BY <1>4 DEF TimerFires
<1>5. CASE ExecuteReplan
  BY <1>5 DEF ExecuteReplan, ReturnTo
<1>6. CASE \/ MarkInProgress \/ CreateInstances \/ ExpandHorizon \/ GenerateSchedule
           \/ ReplaceSchedule
  BY <1>6 DEF MarkInProgress, CreateInstances, ExpandHorizon, GenerateSchedule,
              ReplaceSchedule, Advance
<1>7. CASE UpdateTaskStatuses \/ PipelineThrows
  BY <1>7 DEF UpdateTaskStatuses, PipelineThrows
<1>8. CASE FinishReplan
  BY <1>8 DEF FinishReplan
<1>9. CASE StatusWriteThrows
  BY <1>9 DEF StatusWriteThrows, Restarted
<1>10. CASE Crash
  BY <1>10 DEF Crash, Restarted
<1>11. CASE UNCHANGED vars
  BY <1>11 DEF vars
<1>12. QED
  BY <1>1, <1>2, <1>3, <1>4, <1>5, <1>6, <1>7, <1>8, <1>9, <1>10, <1>11
     DEF Next, ReliableNext, Replan

LEMMA NextIInv == IInv /\ [Next]_vars => IInv'
<1> SUFFICES ASSUME IInv, [Next]_vars PROVE IInv'
  OBVIOUS
<1>0. TypeOK'
  BY TypeStep DEF IInv
<1> USE CallsAssumption, <1>0 DEF IInv
<1>1. CASE BeginHandler \/ Commit \/ RequestReplan \/ HandlerEndsWithoutRequest
  <2> USE <1>1 DEF BeginHandler, Commit, RequestReplan, HandlerEndsWithoutRequest
  <2>1. FlagsInv'
    BY DEF FlagsInv, TypeOK
  <2>2. CallsInv'
    BY DEF CallsInv
  <2>3. PlanInv'
    BY DEF PlanInv
  <2>4. QED
    BY <2>1, <2>2, <2>3
<1>2. ASSUME NEW c \in Calls, AwaitReplan(c) PROVE IInv'
  <2> USE <1>2 DEF AwaitReplan
  <2>1. FlagsInv'
    BY DEF FlagsInv, TypeOK
  <2>2. CallsInv'
    BY DEF CallsInv, TypeOK
  <2>3. PlanInv'
    BY DEF PlanInv
  <2>4. QED
    BY <2>1, <2>2, <2>3
<1>3. ASSUME NEW c \in Calls, Answer(c) PROVE IInv'
  BY <1>3 DEF Answer, FlagsInv, CallsInv, PlanInv, TypeOK
<1>4. CASE TimerFires
  BY <1>4 DEF TimerFires, FlagsInv, CallsInv, PlanInv, TypeOK
<1>5. CASE ExecuteReplan
  <2>1. dirty
    BY <1>5 DEF ExecuteReplan, FlagsInv
  <2>2. QED
    BY <1>5, <2>1 DEF ExecuteReplan, FlagsInv, CallsInv, PlanInv
<1>6. CASE \/ MarkInProgress \/ CreateInstances \/ ExpandHorizon \/ GenerateSchedule
           \/ ReplaceSchedule
  BY <1>6 DEF MarkInProgress, CreateInstances, ExpandHorizon, GenerateSchedule,
              ReplaceSchedule, Advance, FlagsInv, CallsInv, PlanInv
<1>7. CASE UpdateTaskStatuses \/ PipelineThrows
  BY <1>7 DEF UpdateTaskStatuses, PipelineThrows, FlagsInv, CallsInv, PlanInv
<1>8. CASE FinishReplan
  <2>1. ~dirty
    BY <1>8 DEF FinishReplan, FlagsInv
  <2>2. FlagsInv' /\ PlanInv'
    BY <1>8, <2>1 DEF FinishReplan, FlagsInv, PlanInv
  <2>3. CallsInv'
    BY <1>8, <2>1 DEF FinishReplan, CallsInv, TypeOK
  <2>4. QED
    BY <2>2, <2>3
<1>9. CASE StatusWriteThrows
  <2>1. CASE caller = NoCall
    BY <1>9, <2>1 DEF StatusWriteThrows, Restarted, FlagsInv, CallsInv, PlanInv
  <2>2. CASE caller # NoCall
    <3> USE <1>9, <2>2 DEF StatusWriteThrows
    <3>1. FlagsInv' /\ PlanInv'
      BY DEF FlagsInv, PlanInv
    <3>2. CallsInv'
      BY DEF CallsInv, TypeOK
    <3>3. QED
      BY <3>1, <3>2
  <2>3. QED
    BY <2>1, <2>2
<1>10. CASE Crash
  BY <1>10 DEF Crash, Restarted, FlagsInv, CallsInv, PlanInv
<1>11. CASE UNCHANGED vars
  BY <1>11 DEF vars, FlagsInv, CallsInv, PlanInv
<1>12. QED
  BY <1>1, <1>2, <1>3, <1>4, <1>5, <1>6, <1>7, <1>8, <1>9, <1>10, <1>11
     DEF Next, ReliableNext, Replan

LEMMA Invariance == Spec => []IInv
BY InitIInv, NextIInv, PTL DEF Spec

LEMMA NextNoWedge == IInv /\ NoWedgeInv /\ [ReliableNext]_vars => NoWedgeInv'
<1> SUFFICES ASSUME IInv, NoWedgeInv, [ReliableNext]_vars PROVE NoWedgeInv'
  OBVIOUS
<1> USE DEF NoWedgeInv
<1>1. CASE BeginHandler \/ Commit \/ RequestReplan \/ HandlerEndsWithoutRequest
  BY <1>1 DEF BeginHandler, Commit, RequestReplan, HandlerEndsWithoutRequest
<1>2. ASSUME NEW c \in Calls, AwaitReplan(c) \/ Answer(c) PROVE NoWedgeInv'
  BY <1>2 DEF AwaitReplan, Answer
<1>3. CASE TimerFires \/ Crash \/ UNCHANGED vars
  BY <1>3 DEF TimerFires, Crash, Restarted, vars
<1>4. CASE Replan
  BY <1>4 DEF Replan, ExecuteReplan, MarkInProgress, CreateInstances, ExpandHorizon,
              GenerateSchedule, ReplaceSchedule, Advance, UpdateTaskStatuses,
              PipelineThrows, FinishReplan
<1>5. QED
  BY <1>1, <1>2, <1>3, <1>4 DEF ReliableNext

LEMMA ReliableInvariance == ReliableSpec => [](IInv /\ NoWedgeInv)
<1>1. Init => NoWedgeInv
  BY DEF Init, NoWedgeInv
<1>2. [ReliableNext]_vars => [Next]_vars
  BY DEF Next
<1>3. QED
  BY <1>1, <1>2, InitIInv, NextIInv, NextNoWedge, PTL DEF ReliableSpec

(***************************************************************************)
(* The theorems.                                                           *)
(***************************************************************************)
\* Every variable keeps its type (the fields of ReplanCoordinator).
THEOREM TypeCorrect == Spec => []TypeOK
BY Invariance, PTL DEF IInv

\* requestReplan, awaitReplan and executeReplan never leave a timer behind for
\* a request that has been taken up, nor arm one while a replan runs.
THEOREM TimerOnlyForRequests == Spec => []TimerMeansDirty
<1>1. IInv => TimerMeansDirty
  BY DEF IInv, FlagsInv, TimerMeansDirty
<1>2. QED
  BY <1>1, Invariance, PTL

\* No request is lost: between handlers it has a timer, or a replan flag that
\* an escaped error left set.
THEOREM NoLostRequest == Spec => []RequestArmed
<1>1. IInv => RequestArmed
  BY DEF IInv, FlagsInv, RequestArmed
<1>2. QED
  BY <1>1, Invariance, PTL

\* The replan tool answers a call only after the requests made before the call.
THEOREM AnswersCoverRequests == Spec => []AnswerCoversRequests
<1>1. IInv => AnswerCoversRequests
  BY DEF IInv, CallsInv, AnswerCoversRequests
<1>2. QED
  BY <1>1, Invariance, PTL

\* Neither a timer nor a call starts a replan inside another, or for nothing.
THEOREM ReplansStartClean == Spec => []EveryReplanStartsClean
<1>1. IInv => EveryReplanStartsClean
  BY DEF IInv, FlagsInv, EveryReplanStartsClean
<1>2. QED
  BY <1>1, Invariance, PTL

\* A stale plan has a request on its way, or a change that lost its request.
THEOREM StalePlanIsRequested == Spec => []StaleIsRequested
<1>1. IInv => StaleIsRequested
  BY DEF IInv, PlanInv, StaleIsRequested
<1>2. QED
  BY <1>1, Invariance, PTL

\* As long as the database accepts writes, no tool call finds a replan running.
THEOREM FlagStaysInFrame == ReliableSpec => []ReplanningOnlyInFrame
<1>1. IInv /\ NoWedgeInv => ReplanningOnlyInFrame
  BY DEF IInv, FlagsInv, NoWedgeInv, ReplanningOnlyInFrame, TypeOK
<1>2. QED
  BY <1>1, ReliableInvariance, PTL

(***************************************************************************)
(* The coordinator implements ReplanPromise: every step of it is a step of *)
(* the promise or leaves what the promise is about unchanged.              *)
(***************************************************************************)
\* The initial state and every step of the coordinator keep the promise, as
\* long as the database accepts writes (liveness is model-checked only).
THEOREM PromiseSafety ==
  ReliableSpec => Promise!PromiseInit /\ [][Promise!PromiseNext]_(Promise!promiseVars)
<1> USE DEF Promise!promiseVars
<1>1. Init => Promise!PromiseInit
  BY DEF Init, Promise!PromiseInit
<1>2. IInv /\ NoWedgeInv /\ [ReliableNext]_vars => [Promise!PromiseNext]_(Promise!promiseVars)
  <2> SUFFICES ASSUME IInv, NoWedgeInv, [ReliableNext]_vars
               PROVE  [Promise!PromiseNext]_(Promise!promiseVars)
    OBVIOUS
  <2> USE CallsAssumption DEF IInv, TypeOK
  <2>1. CASE BeginHandler \/ Commit \/ HandlerEndsWithoutRequest
    BY <2>1 DEF BeginHandler, Commit, HandlerEndsWithoutRequest
  <2>2. CASE RequestReplan
    BY <2>2 DEF RequestReplan, Promise!PromiseNext, Promise!Request
  <2>3. ASSUME NEW c \in Calls, AwaitReplan(c)
        PROVE  Promise!PromiseNext
    <3>1. {x \in Calls : calls'[x] # "free"}
            = {x \in Calls : calls[x] # "free"} \cup {c}
      BY <2>3 DEF AwaitReplan
    <3>2. Promise!Call(c)
      BY <2>3, <3>1 DEF AwaitReplan, Promise!Call
    <3>3. QED
      BY <3>2 DEF Promise!PromiseNext
  <2>4. ASSUME NEW c \in Calls, Answer(c)
        PROVE  Promise!PromiseNext
    <3>1. {x \in Calls : calls'[x] # "free"}
            = {x \in Calls : calls[x] # "free"} \ {c}
      BY <2>4 DEF Answer
    <3>2. Promise!Reply(c)
      BY <2>4, <3>1 DEF Answer, CallsInv, Promise!Reply
    <3>3. QED
      BY <3>2 DEF Promise!PromiseNext
  <2>5. CASE TimerFires
    BY <2>5 DEF TimerFires
  <2>6. CASE ExecuteReplan
    <3>1. dirty /\ ~replanning
      BY <2>6 DEF ExecuteReplan, FlagsInv
    <3>2. Promise!Start
      BY <2>6, <3>1 DEF ExecuteReplan, Promise!Start
    <3>3. QED
      BY <3>2 DEF Promise!PromiseNext
  <2>7. CASE \/ MarkInProgress \/ CreateInstances \/ ExpandHorizon \/ GenerateSchedule
             \/ ReplaceSchedule \/ UpdateTaskStatuses \/ PipelineThrows
    BY <2>7 DEF MarkInProgress, CreateInstances, ExpandHorizon, GenerateSchedule,
                ReplaceSchedule, Advance, UpdateTaskStatuses, PipelineThrows
  <2>8. CASE FinishReplan
    <3>1. replanning /\ ~dirty /\ awaitCallbacks = {}
      BY <2>8 DEF FinishReplan, FlagsInv, NoWedgeInv
    <3>2. {x \in Calls : calls'[x] # "free"} = {x \in Calls : calls[x] # "free"}
      BY <2>8, <3>1 DEF FinishReplan, CallsInv
    <3>3. Promise!End
      BY <2>8, <3>1, <3>2 DEF FinishReplan, Promise!End
    <3>4. QED
      BY <3>3 DEF Promise!PromiseNext
  <2>9. CASE Crash
    BY <2>9 DEF Crash, Restarted, Promise!PromiseNext, Promise!Restart
  <2>10. CASE UNCHANGED vars
    BY <2>10 DEF vars
  <2>11. QED
    BY <2>1, <2>2, <2>3, <2>4, <2>5, <2>6, <2>7, <2>8, <2>9, <2>10
       DEF ReliableNext, Replan
<1>3. QED
  BY <1>1, <1>2, ReliableInvariance, PTL DEF ReliableSpec
=============================================================================
