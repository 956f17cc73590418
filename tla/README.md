# Smart Agentic Calendar: specifications, model checks and proofs

The server keeps tasks, events and preferences in SQLite, and after every change
recomputes a schedule in the background. An agent talks to it over MCP tools. This
directory holds TLA+ modules translated from `src/src`, the TLC configurations that
check them on small instances, and TLAPS proofs of the properties that matter most.

Run, in this directory:

    tlc -workers 2 -config MCCalendar.cfg MCCalendar.tla     # one run
    tlapm CalendarProofs.tla                                 # one module's proofs

`PROJECT.json` lists the runs, the source lines behind every definition, the mutants
(operators whose name says what is broken, preceded by "Mutant:" in the modules; put in
place of the original they must make the run of the named property fail), the hazards
and the theorems.

## 1. Inventory

One Node process, one thread. better-sqlite3 is synchronous: every statement commits on
its own unless it is in an explicit `transaction`. Tool handlers and `executeReplan` run
to completion; what interleaves is where each of them starts, the continuation of
`replan` after its `await`, and the death of the process between two statements.

| Component | State | Operations | Talks to | Module |
|---|---|---|---|---|
| `engine/replan-coordinator.ts` | `dirty`, `replanning`, `pendingTimeout`, `awaitCallbacks` | `requestReplan`, `awaitReplan`, `getScheduleStatus`, `executeReplan` | called by every tool that changes data; calls recurrence, scheduler, repositories | `ReplanCoordinator`, `ReplanPromise` |
| `mcp/tools/task-tools.ts` | none | create, update, complete, delete, get, list | repositories, resolver, recurrence, coordinator | `Calendar` (tasks), `Recurrence` (series) |
| `storage/task-repository.ts` | `tasks`, `dependencies` | rows and status transitions | database | `Calendar`, `DependencyGraph`; deadlines and `updated_at` in `Reports` |
| `engine/dependency-resolver.ts` | none | `validateNoCycles`, `getBlockedTasks`, `topologicalSort` | pure | `DependencyResolver`, `DependencyGraph` |
| `engine/scheduler.ts` | none | `generateSchedule` | reads all tables | `Placement`, `Availability`; abstracted in `Calendar` and `Reports` |
| `storage/schedule-repository.ts` | `time_blocks`, `schedule_status` | `replaceSchedule` (transaction), `setScheduleStatus` | database | `Calendar`, `ReplanCoordinator` |
| `engine/recurrence-manager.ts`, `storage/recurrence-repository.ts` | templates, instances, `currentHorizonEnd` in memory | `createRecurringTask`, `expandHorizon`, `deleteTemplate` | task repository | `Recurrence` |
| `mcp/tools/schedule-tools.ts` | none | `replan`, `get_schedule`, `get_conflicts` | coordinator, repositories | `ReplanCoordinator` (`replan`), `Reports` (conflicts) |
| event tools, `storage/event-repository.ts` | `events` | create, merge-update, delete, `findInRange` | coordinator | `Availability` |
| configuration tools and repository | `config_availability`, `config_focus_time`, `config_preferences` | replace-all, upserts | coordinator | `Availability` (windows, horizon); inputs of `Recurrence`, `Placement` |
| `engine/conflict-detector.ts` | none | `detectConflicts`, `suggestDeprioritizations` | called by the schedule tools, with their own range of blocks | `Reports` |
| `analytics/*`, `storage/analytics-repository.ts` | none | reports over closed tasks | read the tables | `Reports` (completed tasks of a day) |
| `mcp/validators.ts` | none | checks and mappings of inputs | all tools | what rows can exist: `Calendar`, `Availability`, `Reports` |
| `mcp/server.ts` | none | `wrapToolHandler` | all tools | the error path of `Calendar` |
| `index.ts` | none | `createApp`, shutdown | all | `Crash`, `Restarted` |
| logger, ids, time helpers, migrations | none (pure, or one-shot) | | | not modelled, see section 7 |

What is hard here: the flag, timer and callback list of the coordinator; handlers of
several commits without a transaction, which may throw or die half way; a plan computed
first and applied statement by statement afterwards; a horizon shared by all series and
lost by a restart; boundary arithmetic in the placement; ranges of time that several parts
compute each for itself (the replan's horizon, the days its map visits, the days an event
listing or a conflict report loads); rows merged from partial updates. `PROJECT.json` "hazards" lists
each at its line, with the properties that would catch it.

What makes each component correct: the coordinator loses no request and answers calls
in order; the tools keep dependencies acyclic and finished tasks final; the resolver
decides cycles exactly; the pipeline leaves plan and tasks in agreement; placement uses
free time only and accounts for every minute; a series has each occurrence once, and
none after its end; what is offered to the scheduler is what the events leave free;
conflicts agree with the tasks put at risk, and reports of the past do not change.

## 2. Modules

- **`ReplanPromise`** is the abstract specification: requests coalesce, runs take them up
  one at a time, a call is answered after the requests made before it, a restart
  forgets. It has no timer, flags or list.
- **`ReplanCoordinator`** is `replan-coordinator.ts` with one value of `pc` for each
  statement of `executeReplan` at which it may throw or be killed. Handlers of other
  tools are `BeginHandler`, any number of `Commit`, then `RequestReplan` or an error.
  `CreateInstances` are the tasks `expandHorizon` commits, one by one, in front of a stored
  plan that does not have them.
  `ReliableNext` is all that happens while `setScheduleStatus`, which is outside the `try`,
  can write; `Next` adds that it throws.
  `planCurrent`, `uncovered` and `owing` are history variables that no guard reads.
- **`DependencyGraph`** has the operators on the dependency table: reachability and
  acyclicity by closed sets (no recursion, so it can be proved about), what
  `validateNoCycles` lets pass, `BlockedTasks`, `Schedulable`.
- **`DependencyResolver`** is the depth-first search with its stack, `visited` and
  `parent`, one step per loop iteration; it justifies `MayDependOn`.
- **`Calendar`** composes the task tools, the tables and the pipeline with
  `ReplanCoordinator` (`RC`, whose actions it conjoins). Every committing statement is an
  action. `Rejected` says when the statement the handler has reached throws. What the
  scheduler finds room for is open: any subset of the schedulable tasks, some in part.
- **`Placement`** is `buildAvailabilityMap` and `placeAllTasks` on a line of minutes. Which
  candidate scores best, and which task comes first, is open.
- **`Recurrence`** counts time in moments, in each of which a rule has at most one
  occurrence, and `DateOf` says on which date a moment is, so a rule may have several
  occurrences on a date. `NewDates` is what the loop of `generateInstancesForTemplate` does
  not skip: `existingDates` is read before the loop, so it holds back whole dates, and only
  those of earlier calls. What comes first within a moment is left open where it matters
  (whether the last one of a horizon still holds an occurrence, which of two horizons that
  end in it is later). A set of moments stands for an RRULE; the rrule library is external.

- **`Availability`** keeps the tables of events and windows, the horizon and the clock. Its
  actions are the event tools (an update merges the fields given into the row, after
  checks that see the call only) and the configuration tools; `FindInRange` is the SQL
  with its null comparisons, `AvailabilityMap` what `buildAvailabilityMap` would offer at
  this moment. Where `Placement` follows the loops over one horizon, `Availability` has
  the map as a set and asks whether the horizon, its days and the events loaded fit.
- **`Reports`** keeps deadlines, dependencies, statuses, blocks and the clock, and states
  `detectConflicts` and its suggestions, and `getCompletedTasks`, as operators on them. A
  tool call or a replan is one step: `Calendar` has their interleavings. A replan books
  any slots it may offer for any schedulable task, then `Mark` is `updateTaskStatuses`,
  cut short when it meets a task at risk already.

`MC*` modules add the definitions a `.cfg` cannot write; runs without such definitions
check the module itself. `*Proofs` modules extend the module they are about;
`FiniteSetLemmas` has the lemmas on finite sets they share.

## 3. Runs

| Run | Instance | Shows |
|---|---|---|
| `replan` | 2 calls, `FairSpec` (no failing status writes) | no lost request, no overlap, answers after earlier requests, every call answered, refinement of `ReplanPromise` with its fairness |
| `resolver` | all acyclic graphs on 4 tasks, every new edge | exact verdict, real cycle path, termination |
| `calendar` | 2 tasks, 1 call, lists of up to 2 ids, status writes may throw | acyclicity, final statuses, recorded durations, plan in step with tasks, time only for ready tasks, replans that never overlap |
| `placement` | 8 units, 2 tasks, minimum block 2, 4 window sets, 0 to 2 of 5 blockers | free slots, no lost time, minimum blocks, minutes, bounded overrun, tasks short only where no slot is left to them |
| `recurrence` | 2 series, dates of 2 moments, a rule on two dates and one with two occurrences on a date, horizons of 1 and 2 moments, clock 0 to 1, 2 copies, 1 completion | one instance for each occurrence after the first date, ended series stay ended, coverage of the horizon, completed instances kept |
| `inputs` | 2 events, days of 4 instants, weeks of 2 days, horizon of 1 week, clock 0 to 4 | no all-day event without its day, no event's time offered, no free time kept back |
| `reports` | 3 tasks (chain, fork, triangle), days of 2 instants, horizon of 2 days, 3 slots on 3 days, clock 0 to 3 | conflicts agree with tasks at risk, chains too long are reported, advice is not circular, past reports are final |
| `calendar_dropped`, `placement_hard`, `recurrence_duplicates`, `recurrence_horizon`, `reports_late` | as above (`recurrence_horizon`: horizon 1, `create_task`'s own 2, clock 0 to 2; `reports_late`: horizon of 3 days, one slot) | the code departs from what its documents say, section 6 |

Why the bounds are enough. The coordinator tells calls apart by identity only; two are
needed for one to arrive while another runs or has been resumed, and the proofs cover
any number. Two tasks give every kind of cycle the table could get in one call or two
(self, mutual) and the at-risk sequence; the proofs cover any number of tasks. In
`Placement`, durations of one, three and five units against a minimum of two give a
task below the minimum, one below two minimums and one that splits with a short tail;
the windows abut, overlap and stand apart, the blockers nest, touch and cover.
`Recurrence` needs a moment before and one after the first expansion, dates that a
horizon may end on or cut in two, a second series to disturb the shared horizon, and a
second copy for a duplicate to exist. `RoomForCopies` stops expansions once an occurrence
has its second copy. `MaxCompleted` bounds completions, `LastMoment` the clock, `MaxBlockedBy` the lists of ids. Tasks and templates are symmetric
where a run uses `SYMMETRY`, and those runs check no liveness.

In `Availability`, `EventTimes` gives events inside a day, over midnight, over a whole day,
that touch, nest and reach past the horizon, and, through updates, events that end before
they start; the windows of `MCAvailability` include a full day, a pair that overlaps and
a day without any. With the clock on each instant of a day and on the next midnight,
the horizon's end falls on every part of its last day. `Horizons` has one value: another
only moves the end. In `Reports` the last slot lies on the day that a replan offers and
`get_conflicts` does not load; deadlines are missing, passed, equal and distinct; the
chain of three is the shortest in which the walk goes beyond a task's own edges.

`CHECK_DEADLOCK FALSE` is set for `Placement` only, which is a function that returns.

## 4. Fairness

`ReplanCoordinator!Fairness`: code on the stack runs to its end (weak fairness of
`Replan` and of the end of a handler: JavaScript is not preempted). Strong fairness of
`TimerFires` and `Answer`: the event loop visits its timers phase in each turn and
drains microtasks in order, however many inputs arrive in between. Nothing is assumed of
clients, of errors or of crashes; `RequestTakenUp` and `EveryCallAnswered` hold because a
crash ends the request or the call with the process. `DependencyResolver` has weak
fairness of its loop.

## 5. Proofs

Every invariant and action property of the passing runs is a theorem, for all values of
the constants that satisfy the named assumptions.

| Module | Theorems | Argument |
|---|---|---|
| `ReplanCoordinatorProofs` | `TypeCorrect`, `TimerOnlyForRequests`, `NoLostRequest`, `AnswersCoverRequests`, `ReplansStartClean`, `StalePlanIsRequested`, `FlagStaysInFrame`, `PromiseSafety` | `IInv`: types, how flags and timer relate at each `pc`, which calls may be resumed, when the plan is current |
| `CalendarProofs` | `CheckedEdgesKeepAcyclic`, `NoEdgeAmongSchedulable`, `SomeTaskSchedulable` (the dependency table) | a cycle through new edges of one task would make it reachable from one of its checked targets in the old graph |
| | `CalendarTypeCorrect`, `NeverACycle`, `CompletedIsRecorded`, `PlanAndTasksAgree`, `OnlyReadyTasksGetTime`, `FinishedStaysFinished`, `CoordinatorImplemented`, `CalendarReplansStartClean` | `CalendarIInv`, below; the last one is the coordinator's own theorem carried over by `CoordinatorImplemented` |
| `DependencyResolverProofs` | `SearchCorrect` | `SearchInv`: what is visited is closed up to the stack, and all of it is reached from the start |
| | `CyclePathReconstructed` | `TreeInv`: the pointers have a rank that falls along them |
| `PlacementProofs` | `PlacementTypeCorrect`, `SlotsStayFree`, `NoMicroBlockPlaced`, `OverrunIsBounded` | `PlacementInv` |
| | `FreeTimeIsKept`, `EveryMinuteAccountedFor` | with `FreeInv` and `MinutesInv` added |
| | `ShortWhenFullOnly` | with `ShortInv` added |
| `RecurrenceProofs` | `RecurrenceTypeCorrect`, `OneInstancePerLaterOccurrence`, `NoRevival`, `CompletedForGood` | `RecurrenceInv` |
| | `HorizonIsCovered` | with `CoverInv` added |
| `AvailabilityProofs` | `AvailabilityTypeCorrect`, `AllDayKeepsDate` | what a merged row looks like, field by field, given the checks on the call |
| | `OfferedTimeStaysFree`, `FreeTimeStaysOffered` | consequences of the types alone: the map is computed afresh from the tables |
| `ReportsProofs` | `ReportsTypeCorrect`, `ReportsFinal`, `AdviceIsSound` | rows of tasks are never deleted, and no action changes a closed task's columns except `CompleteRefused`, which is about cancelled ones and writes the present time; a task is only put off for one with an earlier deadline, and while the plan is current time is booked for active tasks only (`PlanOfActive`) |
| | `RiskIsReported`, `ImpossibleAlwaysReported` | `PlanInv`; and that the edges walked lead to every task waited for |
| `FiniteSetLemmas` | lemmas only | least and greatest elements and sums, used by the five modules from `DependencyResolverProofs` down |

Why the invariants are not inductive as they stand, and what is added:

- **`DepsAcyclic`**: each new row is checked against `allEdges`, read before
  the first row was added. `DepsInv` says that `allEdges` is acyclic, has no edge out
  of the task, and that every row added since goes from that task to a target the check
  accepts in `allEdges`; `CheckedEdgesKeepAcyclic` then gives the acyclicity of the table.
- **`CurrentMeansInSync`** needs `SyncInv`, which says at each statement of the pipeline
  which tasks have been marked, that the tables are those the plan was computed from, and
  that no handler runs meanwhile.
- **`CyclePathIsReal`**: a node may be pushed several times and its parent overwritten
  before it is visited. Once visited its pointer is settled, so numbering nodes in order of
  their visit, with the stack above them all, gives a rank that every pointer lowers
  (`TreeInv`). Hence the walk from the task back to the start ends and meets no node twice.
- **Placement**: `WindowInv` places the cursor of the window being subtracted behind all
  blockers still to come and ahead of the slots already cut. `SlotsInv` adds to
  `SlotsAreFree` that slots of one window are apart, without which cutting a block from
  its own slot would leave it in another. `SelectInv` ties each allocation to the slot it
  was taken from and says that what remains to place is nothing, everything or enough for
  a block, which is what the trailing adjustment is for. `FreeInv` says where free time is
  while it is cut up: in a slot, or ahead of the cursor. `MinutesInv` is the balance of the
  task being placed. `ShortInv` says of every slot tried so far that the task was kept out
  of it or, as long as minutes remain, that its block leaves less than the minimum; a piece
  of a slot began in a focus block when the slot did (`BeganInFocusIsKept`).
- **Recurrence**: between two inserts of one instance its occurrence is still in
  `job.dates` (`HalfInv`), and no occurrence in `job.dates` on a later date has an instance
  yet (`OnceInv`): so a second one never comes, and a crash between the two leaves only a task. `EndedInv` says which
  instances a half-done delete has still to cancel. `CoverInv` keeps the horizon in memory
  behind the one an expansion aims at, so that `HorizonReached` never cuts one off.
- **Reports**: `PlanInv` says that with a current plan being at risk means having fewer
  minutes booked than the task takes. The rest compares two sums over sets of blocks: what
  is loaded is part of what is booked (`TotalSubset`). `ImpossibleIsReported` compares a
  sum over tasks with one over edges, which count each of those tasks at least once
  (`TotalByEnds`).

Induction over data. The induction theorems of the library take an operator and cannot be
used here; `FiniteSetLemmas` makes the same argument from `SmallestSet` (well-foundedness
of strict inclusion of finite sets): were there a counterexample, there would be a
smallest one, and removing an element from it gives a smaller. Greatest elements, the
length of paths and sums come from it. For a sum, `MapThenSumSet` is first shown to be some
function on subsets that satisfies its recursive equation (`SumsExist`, `TotalIsSum`);
what it gives for a set with one element more or less follows (`TotalAdd`, `TotalRemove`).

Assumptions: the named `ASSUME`s of the modules: an id that is no task or call, natural
bounds, and finite sets of tasks (`DependencyResolver`, `Reports`), slots and horizons,
over which the code iterates. Three theorems are about less than the whole specification:

- `FlagStaysInFrame` and `PromiseSafety` are about `ReliableSpec`: a status write
  that throws in a replan started by a call leaves `replanning` set, and calls wait for
  ever. The other theorems of the coordinator are about `Spec`, failing writes included.
- `HorizonIsCovered` assumes that no scheduling horizon is shorter than the 28 days of
  `create_task`, as the default of four weeks is not; with a shorter one coverage fails,
  which is what `recurrence_horizon` shows. `MCRecurrence` satisfies it.

Only model-checked: liveness and what rests on fairness (`RequestTakenUp`,
`EveryCallAnswered`, `PlanCatchesUp`, the liveness part of `PromiseKept`, `SearchEnds`), which with `ENABLED` is beyond the prover.

## 6. Where code and documents disagree

1. `at_risk` to `at_risk` is not an allowed transition, so a replan that meets a task still
   at risk aborts and later tasks are left `pending` without time (`calendar_dropped`,
   SR-1.6).
2. A lengthened block leaves its slot (`placement_hard`, SR-1.1 and SR-1.2);
   `OverrunBounded` shows by less than the minimum block.
3. The date a series was created on gets its instances a second time
   (`recurrence_duplicates`, RR-2.5). On later dates `OncePerLaterOccurrence` shows that no
   occurrence is generated twice, but a date may still get several instances: no validator
   refuses a rule with several occurrences on a date (`FREQ=HOURLY`, `BYHOUR=9,15`), the
   loop inserts one for each, and `existingDates` was read before it. A call that ends
   within such a date, at its horizon or by a crash, leaves the other occurrences of the
   date out for good, since the next call finds the date taken. `HorizonCovered` therefore
   asks for an instance on every date, not for every occurrence.
4. Creating a series moves the horizon of all (`recurrence_horizon`, RR-2.1);
   `HorizonCovered` shows when coverage does hold.
5. A task booked after its deadline is in no conflict and not at risk (`reports_late`,
   README.md:561, SR-1.4).

Seen while modelling, without a run of their own:

- A task counts as blocked by its active dependencies only (`getBlockedTasks` gets the
  edges and the active tasks, `dependency-resolver.ts:173`), so a cancelled prerequisite
  blocks nothing and the task is given time; DR-3.1 says that any status other than
  completed blocks. And a replan puts blocked tasks `at_risk` (`scheduler.ts:313`,
  `replan-coordinator.ts:151`), where DR-3.2 says that they "remain in `pending` status",
  as does `business-logic-model.md:271`.
  `CurrentMeansInSync` and `TimeOnlyForReady` state what the code does in both cases: that
  they hold says nothing for DR-3.1 and DR-3.2, which the code does not follow.
- Requests live in memory only: after a crash between a commit and its replan the plan
  stays stale until the next change or `replan` call. The same holds after a replan that
  threw. `StaleIsRequested` and `PlanCatchesUp` exempt both.
- `replan` answers "up_to_date" whatever happened (`server.ts:360`), and
  `getScheduleStatus` says so while a replan is pending (RC-2.1); calls wait for ever after
  a failed status write (RC-3.3).
- A refused call has written already (EH-4): `create_task` its row, `update_task` the
  removal of the old dependencies, `complete_task` the duration and `updated_at`, also of
  a cancelled task, which moves it in the reports of cancelled tasks.
- Recurring tasks with `blocked_by` always fail after the series is committed; `findAll`
  stops at 1000 tasks; `set_preferences` writes its keys without a transaction.
- Blocks of completed tasks do not survive a replan (SR-5.1).
- A replan offers the whole last day of its horizon but loads the events only up to the
  present time of that day, so a block may be put over a later event there (SR-1.2,
  `scheduler.ts:196` and `:339`). `OfferedTimeIsFree` therefore stops at the horizon's end.
  It also offers the part of today that is over.
- `update_event` may leave an event that ends before it starts, or a timed event without
  times, which blocks nothing.
- `findInRange` compares times as texts (`event-repository.ts:111`), which orders them
  rightly only when all are UTC in one shape. The validators check the shape of
  deadlines but not that of event times (`validators.ts:201-210`), so one with an offset is
  stored as it is. `Availability` has times as numbers, so what it shows is for the
  documented UTC format.
- The dependency chain counts a shared prerequisite once for each edge and cancelled
  prerequisites as work to do (CD-1.3): a chain may be reported that could be finished in
  time; the other direction is `ImpossibleIsReported`.
- `get_conflicts` ends its range at a midnight, before the plan does: a task partly booked
  on the last day is reported short of time although it is not at risk
  (`ReportMatchesRisk` excludes it). After a completion and before the next replan the
  finished task may be among those advised to be put off.
- The productivity report counts deadlines still ahead in its period as overdue, and
  tasks without a deadline as not on time.

## 7. Not modelled

The `get_*` and `list_*` tools read and change nothing; of them the conflicts, the event
listing and the completed tasks of a report are modelled, the rates, estimation,
allocation and health score computed from them are arithmetic. Scores, wording, field formats, logging and
MCP transport are data or I/O. Validation that fails before the first statement leaves
the state as it was and is left out. `skipInstance`, `modifyInstance`,
`generateInstances`, `TaskRepository.delete`, `saveSchedule` and `clearSchedule` are called
by no tool. Recurring tasks are not in `Calendar`: they reach its pipeline as tasks like
any other. Focus time enters `Placement` as a constant; its table is like that of windows.
`Calendar`, `Availability` and `Reports` are not composed into one specification: the
first leaves open what the second computes and the third assumes no more of a replan
than the first shows.

## 8. Plan

Written: all modules of section 2 with their runs, and proofs of every safety property
those runs check.

Next, in this order:

1. Recurring creation with `blocked_by`, and series inside `Calendar`'s pipeline.
2. The placement and the availability map as one specification: that the blocks of
   `Placement` are among what `Availability` offers, by refinement.
3. The variant behind `SearchEnds` as a lemma: each step lowers a natural number, although
   the conclusion stays with TLC.
4. The health score and the other analytics as operators, if their bounds are worth it.
