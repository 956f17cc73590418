------------------------- MODULE ReplanCoordinator -------------------------
(***************************************************************************)
(* engine/replan-coordinator.ts on the event loop of one server process.   *)
(*                                                                         *)
(* JavaScript runs to completion, so the tool handlers and executeReplan   *)
(* never interleave with each other; what does interleave is where each    *)
(* of them starts, the continuation of a `replan` call after its await     *)
(* (a microtask), and the death of the process between two statements.     *)
(* `pc` is the point the JavaScript stack has reached: "idle" when it is   *)
(* empty, "handler" inside a tool handler that changes data, and one value *)
(* for each statement of executeReplan at which it can throw or be killed. *)
(***************************************************************************)
CONSTANTS
  Calls,          \* replan tool calls that may be outstanding at a time
  NoCall          \* the caller of executeReplan when it is the timer

ASSUME CallsAssumption == NoCall \notin Calls

VARIABLES
  dirty, replanning,   \* the coordinator's two flags
  pendingTimeout,      \* pendingTimeout !== null
  awaitCallbacks,      \* the calls whose promise resolver is in the list
  pc, caller,          \* where the stack is, and who called executeReplan
  succeeded,           \* executeReplan's local
  calls,               \* the state of each replan tool call
  scheduleStatus       \* the row of table schedule_status

VARIABLES              \* history: read by the properties only
  planCurrent,         \* the stored plan was computed from the stored data
  uncovered,           \* a change no request covers: see StaleIsRequested
  owing                \* calls that came while a request was not yet through

memory == <<dirty, replanning, pendingTimeout, awaitCallbacks>>
stack == <<pc, caller, succeeded>>
history == <<planCurrent, uncovered, owing>>
vars == <<memory, stack, calls, scheduleStatus, history>>

Statuses == {"up_to_date", "replan_in_progress"}
TryPhases == {"expand", "generate", "replace", "statuses"}
Frame == {"execute", "mark", "finish"} \cup TryPhases
CallStates == {"free", "running", "waiting", "resumed"}

TypeOK ==
  /\ dirty \in BOOLEAN /\ replanning \in BOOLEAN /\ pendingTimeout \in BOOLEAN
  /\ awaitCallbacks \subseteq Calls
  /\ pc \in {"idle", "handler"} \cup Frame
  /\ caller \in Calls \cup {NoCall}
  /\ succeeded \in BOOLEAN
  /\ calls \in [Calls -> CallStates]
  /\ scheduleStatus \in Statuses
  /\ planCurrent \in BOOLEAN /\ uncovered \in BOOLEAN
  /\ owing \subseteq Calls

(***************************************************************************)
(* A fresh database: no data, an empty plan, status "up_to_date".          *)
(***************************************************************************)
Init ==
  /\ dirty = FALSE /\ replanning = FALSE /\ pendingTimeout = FALSE
  /\ awaitCallbacks = {}
  /\ pc = "idle" /\ caller = NoCall /\ succeeded = FALSE
  /\ calls = [c \in Calls |-> "free"]
  /\ scheduleStatus = "up_to_date"
  /\ planCurrent = TRUE /\ uncovered = FALSE
  /\ owing = {}

\* getScheduleStatus: what get_schedule and get_conflicts report.
GetScheduleStatus == IF replanning THEN "replan_in_progress" ELSE "up_to_date"

-----------------------------------------------------------------------------
(***************************************************************************)
(* A tool handler that changes data: it commits any number of statements,  *)
(* then requests a replan, unless an error thrown in between takes it out. *)
(***************************************************************************)
BeginHandler ==
  /\ pc = "idle"
  /\ pc' = "handler"
  /\ UNCHANGED <<memory, caller, succeeded, calls, scheduleStatus, history>>

Commit ==
  /\ pc = "handler"
  /\ planCurrent' = FALSE
  /\ uncovered' = TRUE
  /\ UNCHANGED <<memory, stack, calls, scheduleStatus, owing>>

\* Mutant: the stored status, not the flag, says whether a replan is running.
RequestReplanByStoredStatus ==
  /\ pc = "handler"
  /\ pc' = "idle"
  /\ dirty' = (dirty \/ scheduleStatus = "up_to_date")
  /\ pendingTimeout' = (pendingTimeout \/ scheduleStatus = "up_to_date")
  /\ uncovered' = FALSE
  /\ UNCHANGED <<replanning, awaitCallbacks, caller, succeeded, calls,
                 scheduleStatus, planCurrent, owing>>

\* Mutant: the timer is armed whether or not a replan is running.
RequestReplanAlwaysArms ==
  /\ pc = "handler"
  /\ pc' = "idle"
  /\ dirty' = TRUE
  /\ pendingTimeout' = TRUE
  /\ uncovered' = FALSE
  /\ UNCHANGED <<replanning, awaitCallbacks, caller, succeeded, calls,
                 scheduleStatus, planCurrent, owing>>

RequestReplan ==
  /\ pc = "handler"
  /\ pc' = "idle"
  /\ dirty' = TRUE
  /\ pendingTimeout' = (pendingTimeout \/ ~replanning)
  /\ uncovered' = FALSE
  /\ UNCHANGED <<replanning, awaitCallbacks, caller, succeeded, calls,
                 scheduleStatus, planCurrent, owing>>

HandlerEndsWithoutRequest ==
  /\ pc = "handler"
  /\ pc' = "idle"
  /\ UNCHANGED <<memory, caller, succeeded, calls, scheduleStatus, history>>

(***************************************************************************)
(* The `replan` tool: awaitReplan returns at once, or clears the timer and *)
(* runs executeReplan on the caller's own stack, or leaves a resolver in   *)
(* awaitCallbacks. Its continuation is a microtask of its own (Answer).    *)
(***************************************************************************)
\* Mutant: nothing to wait for unless a replan is running.
AwaitReplanIgnoresDirty(c) ==
  /\ pc = "idle"
  /\ calls[c] = "free"
  /\ owing' = IF dirty \/ replanning THEN owing \cup {c} ELSE owing
  /\ calls' = [calls EXCEPT ![c] = IF replanning THEN "waiting" ELSE "resumed"]
  /\ awaitCallbacks' = IF replanning THEN awaitCallbacks \cup {c} ELSE awaitCallbacks
  /\ UNCHANGED <<dirty, replanning, pendingTimeout, stack, scheduleStatus, planCurrent,
                 uncovered>>

\* Mutant: the call clears the timer, then leaves the replan to the timer.
AwaitReplanQueues(c) ==
  /\ pc = "idle"
  /\ calls[c] = "free"
  /\ owing' = IF dirty \/ replanning THEN owing \cup {c} ELSE owing
  /\ calls' = [calls EXCEPT ![c] = IF dirty \/ replanning THEN "waiting" ELSE "resumed"]
  /\ awaitCallbacks' = IF dirty \/ replanning THEN awaitCallbacks \cup {c} ELSE awaitCallbacks
  /\ pendingTimeout' = FALSE
  /\ UNCHANGED <<dirty, replanning, stack, scheduleStatus, planCurrent, uncovered>>

AwaitReplan(c) ==
  /\ pc = "idle"
  /\ calls[c] = "free"
  /\ owing' = IF dirty \/ replanning THEN owing \cup {c} ELSE owing
  /\ IF ~dirty /\ ~replanning
       THEN /\ calls' = [calls EXCEPT ![c] = "resumed"]
            /\ UNCHANGED <<memory, stack>>
       ELSE IF ~replanning
         THEN /\ calls' = [calls EXCEPT ![c] = "running"]
              /\ pendingTimeout' = FALSE
              /\ pc' = "execute"
              /\ caller' = c
              /\ UNCHANGED <<dirty, replanning, awaitCallbacks, succeeded>>
         ELSE /\ calls' = [calls EXCEPT ![c] = "waiting"]
              /\ awaitCallbacks' = awaitCallbacks \cup {c}
              /\ UNCHANGED <<dirty, replanning, pendingTimeout, stack>>
  /\ UNCHANGED <<scheduleStatus, planCurrent, uncovered>>

Answer(c) ==
  /\ pc = "idle"
  /\ calls[c] = "resumed"
  /\ calls' = [calls EXCEPT ![c] = "free"]
  /\ UNCHANGED <<memory, stack, scheduleStatus, history>>

(***************************************************************************)
(* The setTimeout(0) callback: a macrotask, so the microtasks drain first. *)
(***************************************************************************)
TimerFires ==
  /\ pc = "idle"
  /\ pendingTimeout
  /\ \A c \in Calls : calls[c] # "resumed"
  /\ pc' = "execute"
  /\ caller' = NoCall
  /\ UNCHANGED <<memory, succeeded, calls, scheduleStatus, history>>

-----------------------------------------------------------------------------
(***************************************************************************)
(* executeReplan, statement by statement.                                  *)
(***************************************************************************)
\* The return to the caller: the timer's frame is gone, a call is resumed.
ReturnTo(c) == IF c = NoCall THEN calls ELSE [calls EXCEPT ![c] = "resumed"]

\* Mutant: the flag is not cleared when the request is taken up.
ExecuteReplanStaysDirty ==
  /\ pc = "execute"
  /\ dirty
  /\ pendingTimeout' = FALSE
  /\ replanning' = TRUE
  /\ succeeded' = FALSE
  /\ pc' = "mark"
  /\ UNCHANGED <<dirty, awaitCallbacks, caller, calls, scheduleStatus, history>>

ExecuteReplan ==
  /\ pc = "execute"
  /\ pendingTimeout' = FALSE
  /\ IF dirty
       THEN /\ dirty' = FALSE
            /\ replanning' = TRUE
            /\ succeeded' = FALSE
            /\ pc' = "mark"
            /\ UNCHANGED <<caller, calls>>
       ELSE /\ pc' = "idle"
            /\ caller' = NoCall
            /\ calls' = ReturnTo(caller)
            /\ UNCHANGED <<dirty, replanning, succeeded>>
  /\ UNCHANGED <<awaitCallbacks, scheduleStatus, history>>

\* Mutant: a status of its own for a plan that is out of date, which no reader knows.
MarkInProgressAsStale ==
  /\ pc = "mark"
  /\ scheduleStatus' = "stale"
  /\ pc' = "expand"
  /\ UNCHANGED <<memory, caller, succeeded, calls, history>>

MarkInProgress ==
  /\ pc = "mark"
  /\ scheduleStatus' = "replan_in_progress"
  /\ pc' = "expand"
  /\ UNCHANGED <<memory, caller, succeeded, calls, history>>

\* The statements of the try block, in order.
Advance(from, to) ==
  /\ pc = from
  /\ pc' = to
  /\ UNCHANGED <<memory, caller, succeeded, calls, scheduleStatus, history>>

\* expandHorizon commits tasks, one by one, that the stored plan knows nothing of.
CreateInstances ==
  /\ pc = "expand"
  /\ planCurrent' = FALSE
  /\ UNCHANGED <<memory, stack, calls, scheduleStatus, uncovered, owing>>

ExpandHorizon == Advance("expand", "generate")
GenerateSchedule == Advance("generate", "replace")

\* The new blocks are in; the task statuses that go with them are not yet.
ReplaceSchedule ==
  /\ pc = "replace"
  /\ pc' = "statuses"
  /\ planCurrent' = FALSE
  /\ UNCHANGED <<memory, caller, succeeded, calls, scheduleStatus, uncovered, owing>>

UpdateTaskStatuses ==
  /\ pc = "statuses"
  /\ pc' = "finish"
  /\ succeeded' = TRUE
  /\ planCurrent' = TRUE
  /\ uncovered' = FALSE
  /\ UNCHANGED <<memory, caller, calls, scheduleStatus, owing>>

\* The catch clause: the error is logged and swallowed.
PipelineThrows ==
  /\ pc \in TryPhases
  /\ pc' = "finish"
  /\ uncovered' = TRUE
  /\ UNCHANGED <<memory, caller, succeeded, calls, scheduleStatus, planCurrent,
                 owing>>

\* Mutant: the replanning flag is reset on success only.
FinishReplanOnSuccess ==
  /\ pc = "finish"
  /\ replanning' = ~succeeded
  /\ scheduleStatus' = IF succeeded THEN "up_to_date" ELSE scheduleStatus
  /\ awaitCallbacks' = {}
  /\ calls' = [c \in Calls |-> IF c \in awaitCallbacks \/ c = caller
                                 THEN "resumed" ELSE calls[c]]
  /\ pendingTimeout' = (pendingTimeout \/ dirty)
  /\ pc' = "idle"
  /\ caller' = NoCall
  /\ owing' = IF dirty THEN owing ELSE {}
  /\ UNCHANGED <<dirty, succeeded, planCurrent, uncovered>>

\* The finally clause.
FinishReplan ==
  /\ pc = "finish"
  /\ replanning' = FALSE
  /\ scheduleStatus' = IF succeeded THEN "up_to_date" ELSE scheduleStatus
  /\ awaitCallbacks' = {}
  /\ calls' = [c \in Calls |-> IF c \in awaitCallbacks \/ c = caller
                                 THEN "resumed" ELSE calls[c]]
  /\ pendingTimeout' = (pendingTimeout \/ dirty)
  /\ pc' = "idle"
  /\ caller' = NoCall
  /\ owing' = IF dirty THEN owing ELSE {}
  /\ UNCHANGED <<dirty, succeeded, planCurrent, uncovered>>

-----------------------------------------------------------------------------
(***************************************************************************)
(* The process dies: killed, or stopped by SIGTERM, or by an error nothing *)
(* caught. The client starts it again on the same database; nothing in     *)
(* createApp asks for a replan.                                            *)
(***************************************************************************)
Restarted ==
  /\ dirty' = FALSE /\ replanning' = FALSE /\ pendingTimeout' = FALSE
  /\ awaitCallbacks' = {}
  /\ pc' = "idle" /\ caller' = NoCall /\ succeeded' = FALSE
  /\ calls' = [c \in Calls |-> "free"]
  /\ uncovered' = (uncovered \/ ~planCurrent)
  /\ owing' = {}

Crash ==
  /\ Restarted
  /\ UNCHANGED <<scheduleStatus, planCurrent>>

(***************************************************************************)
(* setScheduleStatus throws (disk full, database locked). Neither of its   *)
(* two calls is inside the try block, so the error leaves executeReplan:   *)
(* out of the timer's callback it ends the process, out of a call it       *)
(* becomes an error reply.                                                 *)
(***************************************************************************)
StatusWriteThrows ==
  /\ pc = "mark" \/ (pc = "finish" /\ succeeded)
  /\ IF caller = NoCall
       THEN Restarted
       ELSE /\ replanning' = (pc = "mark")
            /\ calls' = [calls EXCEPT ![caller] = "free"]
            /\ owing' = owing \ {caller}
            /\ uncovered' = (uncovered \/ ~planCurrent)
            /\ pc' = "idle"
            /\ caller' = NoCall
            /\ UNCHANGED <<dirty, pendingTimeout, awaitCallbacks, succeeded>>
  /\ UNCHANGED <<scheduleStatus, planCurrent>>

Replan ==
  \/ ExecuteReplan \/ MarkInProgress
  \/ CreateInstances \/ ExpandHorizon \/ GenerateSchedule
  \/ ReplaceSchedule \/ UpdateTaskStatuses
  \/ PipelineThrows \/ FinishReplan

\* As long as the status of the schedule can be written.
ReliableNext ==
  \/ BeginHandler \/ Commit \/ RequestReplan \/ HandlerEndsWithoutRequest
  \/ \E c \in Calls : AwaitReplan(c) \/ Answer(c)
  \/ TimerFires
  \/ Replan
  \/ Crash

Next == ReliableNext \/ StatusWriteThrows

(***************************************************************************)
(* Code that runs to completion returns (weak fairness of the steps on the *)
(* stack). The event loop comes round to its timers phase in every         *)
(* iteration and drains the microtask queue in order, however much input   *)
(* there is, so a due timer and a resumed call are not passed over for     *)
(* ever (strong fairness). Nothing is assumed of clients or of crashes.    *)
(***************************************************************************)
Fairness ==
  /\ WF_vars(RequestReplan \/ HandlerEndsWithoutRequest)
  /\ WF_vars(Replan)
  /\ SF_vars(TimerFires)
  /\ \A c \in Calls : SF_vars(Answer(c))

Spec == Init /\ [][Next]_vars
ReliableSpec == Init /\ [][ReliableNext]_vars
FairSpec == ReliableSpec /\ Fairness

-----------------------------------------------------------------------------
\* A timer is only ever armed for a request that is still to be taken up, and
\* never while a replan runs: executeReplan's early return on a clean flag is
\* never taken, and two replans never overlap.
TimerMeansDirty == pendingTimeout => dirty /\ ~replanning

\* No lost wake-up: when the stack is empty, a request not yet taken up has a
\* timer, whichever of requestReplan, awaitReplan and the finally clause ran last.
RequestArmed == pc = "idle" /\ dirty => pendingTimeout \/ replanning

\* The replanning flag marks exactly the frame of executeReplan from the moment
\* it takes the request up, so no tool call ever finds it set and none waits.
ReplanningOnlyInFrame ==
  /\ replanning <=> pc \in Frame \ {"execute"}
  /\ awaitCallbacks = {}

\* A plan that does not match the stored data has a request on its way, unless
\* since the last request a handler threw after a commit, a replan failed, or
\* the process died.
StaleIsRequested == pc = "idle" /\ ~planCurrent /\ ~uncovered => dirty

\* The replan tool never answers a call before every request made ahead of that
\* call has been through a replan, whether or not that replan succeeded.
AnswerCoversRequests == \A c \in Calls : calls[c] = "resumed" => c \notin owing

\* Whoever starts executeReplan, it starts with a request to take up and with
\* the replanning flag clear, even after an error left that flag set.
EveryReplanStartsClean == pc = "execute" => dirty /\ ~replanning

\* Every request is eventually taken up by a replan (or dies with the process).
RequestTakenUp == dirty ~> ~dirty

\* Every call of the replan tool is eventually answered.
EveryCallAnswered == \A c \in Calls : calls[c] # "free" ~> calls[c] = "free"

\* The plan catches up: a request is followed by a current plan, unless
\* a change stays uncovered.
PlanCatchesUp == dirty ~> planCurrent \/ uncovered

\* The coordinator keeps the abstract promise, its liveness included.
Promise == INSTANCE ReplanPromise WITH
  requested <- dirty, running <- replanning,
  waiting <- {c \in Calls : calls[c] # "free"}, owing <- owing
PromiseKept == Promise!PromiseSpec
=============================================================================
