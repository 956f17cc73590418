----------------------------- MODULE Calendar -----------------------------
(***************************************************************************)
(* The task tools, the task and dependency tables, the stored schedule and *)
(* the replan pipeline, composed with the ReplanCoordinator that starts    *)
(* it.  Every statement that commits is a step of its own, so the process  *)
(* can die, or a handler throw, between any two of them.                   *)
(*                                                                         *)
(* What the scheduler finds room for depends on availability, events and   *)
(* durations that are not modelled here: GenerateSchedule places any       *)
(* subset of the tasks it is given, some of them in part.                  *)
(***************************************************************************)
EXTENDS DependencyGraph, Naturals, Sequences, FiniteSets

CONSTANTS
  Calls, NoCall,    \* as in ReplanCoordinator
  NoTask,           \* the task of no handler
  MaxBlockedBy      \* bound: the longest blocked_by list a client sends

ASSUME TasksAssumption ==
  NoTask \notin Task /\ NoCall \notin Calls /\ MaxBlockedBy \in Nat

VARIABLES           \* the database
  status,           \* tasks.status, "absent" for an id not in the table yet
  actual,           \* the tasks whose actual_duration is recorded
  deps,             \* table dependencies
  blocks            \* the tasks that have rows in time_blocks

VARIABLES
  handler,          \* the task tool on the stack and its locals
  plan              \* executeReplan's result, and the part not yet applied

VARIABLES dirty, replanning, pendingTimeout, awaitCallbacks, pc, caller,
          succeeded, calls, scheduleStatus, planCurrent, uncovered, owing

RC == INSTANCE ReplanCoordinator

coordinator == <<dirty, replanning, pendingTimeout, awaitCallbacks, pc, caller,
                 succeeded, calls, scheduleStatus, planCurrent, uncovered, owing>>

db == <<status, actual, deps, blocks>>
local == <<handler, plan>>
calendarVars == <<db, local, coordinator>>

-----------------------------------------------------------------------------
(***************************************************************************)
(* Task statuses (storage/task-repository.ts, common/constants.ts).        *)
(***************************************************************************)
TaskStatus == {"pending", "scheduled", "at_risk", "completed", "cancelled"}
Terminal == {"completed", "cancelled"}

\* VALID_TRANSITIONS
ValidTransitions(s) ==
  CASE s = "pending"   -> {"scheduled", "cancelled", "at_risk"}
    [] s = "scheduled" -> {"completed", "cancelled", "at_risk", "pending"}
    [] s = "at_risk"   -> {"scheduled", "cancelled", "completed"}
    [] s = "completed" -> {"completed"}
    [] OTHER           -> {}

Existing == {t \in Task : status[t] # "absent"}
Active == {t \in Task : status[t] \in {"pending", "scheduled", "at_risk"}}

-----------------------------------------------------------------------------
(***************************************************************************)
(* The handler's locals: the statement it is about to run, the task it is  *)
(* about, the dependencies still to add, allEdges, and whether any field   *)
(* is to be updated.                                                       *)
(***************************************************************************)
Points == {"none", "insert", "targets", "unlink", "link", "fields", "record",
           "complete", "cancel", "inputs", "request"}

Handler == [at : Points, task : Task \cup {NoTask}, todo : Seq(Task),
            edges : Graph, fields : BOOLEAN]

NoHandler == [at |-> "none", task |-> NoTask, todo |-> <<>>, edges |-> {},
              fields |-> FALSE]

Plan == [placed : SUBSET Task, toSchedule : SUBSET Task,
         short : SUBSET Task, blocked : SUBSET Task]

NoPlan == [placed |-> {}, toSchedule |-> {}, short |-> {}, blocked |-> {}]

\* The blocked_by lists over S, a repeated id included.
BlockedByLists(S) == UNION {[1 .. n -> S] : n \in 0 .. MaxBlockedBy}

CalendarTypeOK ==
  /\ status \in [Task -> TaskStatus \cup {"absent"}]
  /\ actual \subseteq Existing
  /\ deps \subseteq Existing \X Existing
  /\ blocks \subseteq Task
  /\ handler \in Handler
  /\ plan \in Plan

CalendarInit ==
  /\ status = [t \in Task |-> "absent"]
  /\ actual = {} /\ deps = {} /\ blocks = {}
  /\ handler = NoHandler
  /\ plan = NoPlan
  /\ RC!Init

-----------------------------------------------------------------------------
(***************************************************************************)
(* The tools. Each begins with an empty stack and what it reads first.     *)
(***************************************************************************)
Begin(t, first, list, hasFields) ==
  /\ RC!BeginHandler
  /\ handler' = [NoHandler EXCEPT !.at = first, !.task = t, !.todo = list,
                                  !.fields = hasFields]
  /\ UNCHANGED <<db, plan>>

\* create_task: the server makes the id up, so no list can hold it yet; other
\* ids in the list may be of no task at all.
CreateTask(t) ==
  /\ status[t] = "absent"
  /\ \E list \in BlockedByLists(Task \ {t}) : Begin(t, "insert", list, FALSE)

\* update_task: with blocked_by, with other fields, or with both.
UpdateTask(t) ==
  /\ t \in Existing
  /\ \/ Begin(t, "fields", <<>>, TRUE)
     \/ \E list \in BlockedByLists(Task), hasFields \in BOOLEAN :
          Begin(t, "targets", list, hasFields)

\* Mutant: the status is set and the actual duration is not recorded first.
CompleteTaskUnrecorded(t) ==
  t \in Existing /\ status[t] # "completed" /\ Begin(t, "complete", <<>>, FALSE)

\* complete_task returns at once for a completed task.
CompleteTask(t) == t \in Existing /\ status[t] # "completed" /\ Begin(t, "record", <<>>, FALSE)

DeleteTask(t) == t \in Existing /\ Begin(t, "cancel", <<>>, FALSE)

\* The event and configuration tools: they change what the scheduler reads.
ChangeInputs == Begin(NoTask, "inputs", <<>>, FALSE)

(***************************************************************************)
(* Their statements.                                                       *)
(***************************************************************************)
\* A statement that commits, after which the handler is at point `next`.
Write(next, rest) ==
  /\ RC!Commit
  /\ handler' = [handler EXCEPT !.at = next, !.todo = rest]
  /\ UNCHANGED plan

\* The statement the handler is about to run throws: a dependency target is
\* not found, a dependency closes a cycle with allEdges, is of a task that is
\* not in the table or is in the table already (its primary key), a finished
\* task is updated, or the status may not change that way.
Rejected ==
  \/ handler.at = "targets" /\ \E i \in DOMAIN handler.todo : handler.todo[i] \notin Existing
  \/ /\ handler.at = "link"
     /\ LET t == handler.task
            d == Head(handler.todo)
        IN  \/ ~MayDependOn(handler.edges, t, d)
            \/ ~({t, d} \subseteq Existing)
            \/ <<t, d>> \in deps
  \/ handler.at = "fields" /\ status[handler.task] \in Terminal
  \/ handler.at = "complete" /\ "completed" \notin ValidTransitions(status[handler.task])
  \/ handler.at = "cancel" /\ "cancelled" \notin ValidTransitions(status[handler.task])

\* wrapToolHandler makes the error the reply. No replan is requested.
Throw ==
  /\ Rejected
  /\ RC!HandlerEndsWithoutRequest
  /\ handler' = NoHandler
  /\ UNCHANGED <<db, plan>>

\* Where the handler goes once `rest` is what is left to link.
AfterLink(rest) ==
  IF rest # <<>> THEN "link" ELSE IF handler.fields THEN "fields" ELSE "request"

InsertTask ==
  /\ handler.at = "insert"
  /\ status' = [status EXCEPT ![handler.task] = "pending"]
  /\ Write(IF handler.todo = <<>> THEN "request" ELSE "targets", handler.todo)
  /\ UNCHANGED <<actual, deps, blocks>>

CheckTargets ==
  /\ handler.at = "targets"
  /\ ~Rejected
  /\ handler' = [handler EXCEPT !.at = "unlink"]
  /\ UNCHANGED <<db, plan, coordinator>>

\* updateTask removes the existing dependencies one by one (a task that was
\* just created has none), then reads allEdges.
Unlink ==
  /\ handler.at = "unlink"
  /\ \E d \in Task :
       /\ <<handler.task, d>> \in deps
       /\ deps' = deps \ {<<handler.task, d>>}
       /\ Write("unlink", handler.todo)
  /\ UNCHANGED <<status, actual, blocks>>

ReadEdges ==
  /\ handler.at = "unlink"
  /\ \A d \in Task : <<handler.task, d>> \notin deps
  /\ handler' = [handler EXCEPT !.at = AfterLink(handler.todo), !.edges = deps]
  /\ UNCHANGED <<db, plan, coordinator>>

\* addDependency, once validateNoCycles has accepted it; it looks both tasks up
\* once more.
Link ==
  /\ handler.at = "link"
  /\ ~Rejected
  /\ deps' = deps \cup {<<handler.task, Head(handler.todo)>>}
  /\ Write(AfterLink(Tail(handler.todo)), Tail(handler.todo))
  /\ UNCHANGED <<status, actual, blocks>>

UpdateFields ==
  /\ handler.at = "fields"
  /\ ~Rejected
  /\ Write("request", <<>>)
  /\ UNCHANGED db

RecordActualDuration ==
  /\ handler.at = "record"
  /\ actual' = actual \cup {handler.task}
  /\ Write("complete", <<>>)
  /\ UNCHANGED <<status, deps, blocks>>

\* Mutant: VALID_TRANSITIONS is not consulted.
SetStatusUnchecked(at, new) ==
  /\ handler.at = at
  /\ status' = [status EXCEPT ![handler.task] = new]
  /\ Write("request", <<>>)
  /\ UNCHANGED <<actual, deps, blocks>>

\* updateStatus, the last statement of complete_task and of delete_task.
SetStatus(at, new) ==
  /\ handler.at = at
  /\ ~Rejected
  /\ status' = [status EXCEPT ![handler.task] = new]
  /\ Write("request", <<>>)
  /\ UNCHANGED <<actual, deps, blocks>>

SetCompleted == SetStatus("complete", "completed")

\* Mutant: delete_task deletes the row, and the dependencies keep the id.
SetCancelledDeletesRow == SetStatus("cancel", "absent")

\* delete_task keeps the row.
SetCancelled == SetStatus("cancel", "cancelled")

WriteInputs == handler.at = "inputs" /\ Write("request", <<>>) /\ UNCHANGED db

RequestReplan ==
  /\ handler.at = "request"
  /\ RC!RequestReplan
  /\ handler' = NoHandler
  /\ UNCHANGED <<db, plan>>

Tools ==
  \/ \E t \in Task : CreateTask(t) \/ UpdateTask(t) \/ CompleteTask(t) \/ DeleteTask(t)
  \/ ChangeInputs
  \/ Throw \/ InsertTask \/ CheckTargets \/ Unlink \/ ReadEdges \/ Link \/ UpdateFields
  \/ RecordActualDuration \/ SetCompleted \/ SetCancelled \/ WriteInputs
  \/ RequestReplan

-----------------------------------------------------------------------------
(***************************************************************************)
(* The replan pipeline: the coordinator's steps with what they do.         *)
(***************************************************************************)
\* No recurring tasks here, so expandHorizon creates none.
CoordinatorOnly ==
  /\ \/ \E c \in Calls : RC!AwaitReplan(c) \/ RC!Answer(c)
     \/ RC!TimerFires
     \/ RC!ExecuteReplan
     \/ RC!MarkInProgress
     \/ RC!ExpandHorizon
  /\ UNCHANGED <<db, local>>

\* Mutant: the blocked tasks are handed to the placement like the others.
GenerateScheduleForAll ==
  /\ RC!GenerateSchedule
  /\ \E placed, short \in SUBSET Active :
       /\ placed \cup short = Active
       /\ plan' = [placed |-> placed, toSchedule |-> placed \ short,
                   short |-> short, blocked |-> BlockedTasks(Active, deps)]
  /\ UNCHANGED <<db, handler>>

\* Every task not blocked is placed, or is left short of minutes, or both.
GenerateSchedule ==
  /\ RC!GenerateSchedule
  /\ \E placed, short \in SUBSET Schedulable(Active, deps) :
       /\ placed \cup short = Schedulable(Active, deps)
       /\ plan' = [placed |-> placed, toSchedule |-> placed \ short,
                   short |-> short, blocked |-> BlockedTasks(Active, deps)]
  /\ UNCHANGED <<db, handler>>

ReplaceSchedule ==
  /\ RC!ReplaceSchedule
  /\ blocks' = plan.placed
  /\ UNCHANGED <<status, actual, deps, local>>

\* The first loop of updateTaskStatuses: a task that is scheduled stays so.
MarkScheduled(t) ==
  /\ pc = "statuses"
  /\ t \in plan.toSchedule
  /\ status' = IF status[t] \in {"pending", "at_risk"}
                 THEN [status EXCEPT ![t] = "scheduled"] ELSE status
  /\ plan' = [plan EXCEPT !.toSchedule = @ \ {t}]
  /\ UNCHANGED <<actual, deps, blocks, handler, coordinator>>

\* The second loop, in the order of result.atRiskTasks: the short tasks, then
\* the blocked ones. updateStatus throws for a task that is at risk already.
MarkAtRisk(t) ==
  /\ pc = "statuses"
  /\ plan.toSchedule = {}
  /\ t \in IF plan.short # {} THEN plan.short ELSE plan.blocked
  /\ status[t] \notin Terminal
  /\ IF "at_risk" \in ValidTransitions(status[t])
       THEN /\ status' = [status EXCEPT ![t] = "at_risk"]
            /\ plan' = [plan EXCEPT !.short = @ \ {t}, !.blocked = @ \ {t}]
            /\ UNCHANGED coordinator
       ELSE /\ RC!PipelineThrows
            /\ UNCHANGED <<status, plan>>
  /\ UNCHANGED <<actual, deps, blocks, handler>>

\* Mutant: the blocked tasks are not among result.atRiskTasks.
StatusesDoneWithoutBlocked ==
  /\ plan.toSchedule = {} /\ plan.short = {}
  /\ RC!UpdateTaskStatuses
  /\ UNCHANGED <<db, local>>

StatusesDone ==
  /\ plan.toSchedule = {} /\ plan.short = {} /\ plan.blocked = {}
  /\ RC!UpdateTaskStatuses
  /\ UNCHANGED <<db, local>>

FinishReplan ==
  /\ RC!FinishReplan
  /\ plan' = NoPlan
  /\ UNCHANGED <<db, handler>>

\* Whether it ends the process or only the call, nothing is left on the stack.
StatusWriteThrows ==
  /\ RC!StatusWriteThrows
  /\ plan' = NoPlan
  /\ UNCHANGED <<db, handler>>

Crash ==
  /\ RC!Crash
  /\ handler' = NoHandler
  /\ plan' = NoPlan
  /\ UNCHANGED db

Pipeline ==
  \/ GenerateSchedule \/ ReplaceSchedule
  \/ \E t \in Task : MarkScheduled(t) \/ MarkAtRisk(t)
  \/ StatusesDone \/ FinishReplan \/ StatusWriteThrows

CalendarNext == Tools \/ CoordinatorOnly \/ Pipeline \/ Crash

CalendarSpec == CalendarInit /\ [][CalendarNext]_calendarVars

-----------------------------------------------------------------------------
\* The dependency table never holds a cycle: not between two statements of an
\* update that replaces a task's dependencies, not after an update that fails
\* half way, not after a crash, although each check uses the edges read before
\* the first row was added.
DepsAcyclic == Acyclic(deps)

\* A task that is completed or cancelled stays so, whatever replans or tools
\* run afterwards with what they read before.
TerminalIsFinal ==
  [][\A t \in Task : status[t] \in Terminal => status'[t] = status[t]]_status

\* No task counts as completed without its actual duration: the two are
\* separate statements, and the process may die between them.
CompletedHasActual ==
  \A t \in Task : status[t] = "completed" => t \in actual

\* A stored plan that counts as current agrees with the tasks: time only for active
\* tasks without an active dependency, and every active task either scheduled with
\* time reserved or at risk. In the code a dependency that was cancelled no longer
\* blocks, and a blocked task is put at risk; business-rules.md DR-3.1 and DR-3.2
\* say of both otherwise (README.md, section 6).
InSync ==
  /\ blocks \subseteq Schedulable(Active, deps)
  /\ \A t \in Active : status[t] = "at_risk" \/ (status[t] = "scheduled" /\ t \in blocks)
CurrentMeansInSync == planCurrent => InSync

\* When a replan stores time, none of it is for a task that is finished, or that
\* depends on an active one (the code's reading of "blocked"), as the tables stand
\* at that statement and not only when they were read.
TimeOnlyForReady ==
  [][blocks' # blocks => blocks' \subseteq Schedulable(Active, deps)]_calendarVars

\* Whoever starts executeReplan, it starts with a request to take up and with
\* the replanning flag clear, even after a failed write left that flag set.
ReplansStartClean == RC!EveryReplanStartsClean

\* business-rules.md SR-1.6: a task that cannot be placed "is marked at_risk -
\* it is never silently dropped".
NeverSilentlyDropped ==
  pc = "finish" => \A t \in Active : t \in blocks \/ status[t] = "at_risk"
=============================================================================
