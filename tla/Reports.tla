------------------------------ MODULE Reports ------------------------------
(***************************************************************************)
(* What an agent is told about its tasks: the conflicts of get_conflicts   *)
(* and replan (engine/conflict-detector.ts), with the tasks they suggest   *)
(* to put off, and the completed tasks of the productivity report.         *)
(*                                                                         *)
(* A call, and a replan, is one step here; what happens between their      *)
(* statements is Calendar's subject. A replan books slots that do not      *)
(* overlap, as Placement says of it; which tasks get which is open.        *)
(***************************************************************************)
EXTENDS DependencyGraph, Integers, FiniteSetsExt

CONSTANTS
  NoTask, None,    \* a slot that is not booked; no deadline
  Duration,        \* of each task
  Priority,        \* of each task, 1 for P1 to 4 for P4
  Slots,           \* bound: the times blocks may have
  DeadlinesOf,     \* bound: the deadlines each task may be given
  Links,           \* bound: the dependencies that may be asked for
  DayLength,       \* instants in a day
  HorizonDays,     \* the scheduling horizon
  LastInstant      \* bound: the clock stops here

ASSUME ReportsAssumption ==
  /\ IsFiniteSet(Task) /\ NoTask \notin Task /\ None \notin Nat
  /\ Duration \in [Task -> Nat \ {0}] /\ Priority \in [Task -> 1 .. 4]
  /\ Slots \subseteq [from : Nat, to : Nat] /\ IsFiniteSet(Slots)
  /\ \A s \in Slots : s.from < s.to
  /\ DeadlinesOf \in [Task -> SUBSET (Nat \cup {None})]
  /\ Links \subseteq Task \X Task
  /\ DayLength \in Nat \ {0} /\ HorizonDays \in Nat \ {0} /\ LastInstant \in Nat

VARIABLES
  now,
  status, deadline,  \* columns of table tasks
  closedAt,          \* updated_at of the tasks completed or cancelled
  deps,              \* table dependencies
  booked,            \* table time_blocks: the task of each slot
  planCurrent        \* history: the plan was computed from the stored data

tasks == <<status, deadline, closedAt>>
reportVars == <<now, tasks, deps, booked, planCurrent>>

Active == {t \in Task : status[t] \in {"pending", "scheduled", "at_risk"}}
Existing == {t \in Task : status[t] # "absent"}

ReportsTypeOK ==
  /\ now \in 0 .. LastInstant
  /\ status \in [Task -> {"absent", "pending", "scheduled", "at_risk", "completed", "cancelled"}]
  /\ deadline \in [Task -> Nat \cup {None}]
  /\ closedAt \in [Task -> 0 .. LastInstant]
  /\ deps \subseteq Existing \X Existing
  /\ booked \in [Slots -> Existing \cup {NoTask}]
  /\ planCurrent \in BOOLEAN

ReportsInit ==
  /\ now = 0
  /\ status = [t \in Task |-> "absent"]
  /\ deadline = [t \in Task |-> None]
  /\ closedAt = [t \in Task |-> 0]
  /\ deps = {}
  /\ booked = [s \in Slots |-> NoTask]
  /\ planCurrent = TRUE

Day(i) == i \div DayLength
Midnight(d) == d * DayLength

Length(s) == s.to - s.from
TimeOf(S) == MapThenSumSet(Length, S)

\* The minutes task t has in the slots of S.
Minutes(t, S) == TimeOf({s \in S : booked[s] = t})

-----------------------------------------------------------------------------
(***************************************************************************)
(* The tools.                                                              *)
(***************************************************************************)
CreateTask(t) ==
  /\ status[t] = "absent"
  /\ \E d \in DeadlinesOf[t], E \in SUBSET {e \in Links : e[1] = t /\ e[2] \in Existing} :
       /\ deadline' = [deadline EXCEPT ![t] = d]
       /\ deps' = deps \cup E
  /\ status' = [status EXCEPT ![t] = "pending"]
  /\ planCurrent' = FALSE
  /\ UNCHANGED <<now, closedAt, booked>>

\* update_task of a deadline, which cannot be taken away again.
UpdateDeadline(t) ==
  /\ t \in Active
  /\ \E d \in DeadlinesOf[t] \ {None} : deadline' = [deadline EXCEPT ![t] = d]
  /\ planCurrent' = FALSE
  /\ UNCHANGED <<now, status, closedAt, deps, booked>>

Close(t, new) ==
  /\ status' = [status EXCEPT ![t] = new]
  /\ closedAt' = [closedAt EXCEPT ![t] = now]
  /\ planCurrent' = FALSE
  /\ UNCHANGED <<now, deadline, deps, booked>>

\* Mutant: a task may be completed again.
CompleteAgain(t) ==
  status[t] \in {"scheduled", "at_risk", "completed"} /\ Close(t, "completed")

\* complete_task does nothing for a completed task.
CompleteTask(t) == status[t] \in {"scheduled", "at_risk"} /\ Close(t, "completed")

\* For a cancelled task, as for one that is pending, it records the actual
\* duration, which sets updated_at, before updateStatus refuses.
CompleteRefused(t) ==
  /\ status[t] = "cancelled"
  /\ closedAt' = [closedAt EXCEPT ![t] = now]
  /\ UNCHANGED <<now, status, deadline, deps, booked, planCurrent>>

\* Mutant: the row goes, its dependencies and blocks stay.
DeleteTaskRow(t) == t \in Active /\ Close(t, "absent")

DeleteTask(t) == t \in Active /\ Close(t, "cancelled")

Tick ==
  /\ now < LastInstant
  /\ now' = now + 1
  /\ UNCHANGED <<tasks, deps, booked, planCurrent>>

-----------------------------------------------------------------------------
(***************************************************************************)
(* A replan, which any tool may have asked for.                            *)
(***************************************************************************)
\* The slots of the days from today's midnight to the end of the horizon.
Offered ==
  {s \in Slots : /\ s.from >= Midnight(Day(now))
                 /\ Midnight(Day(s.from)) < now + Midnight(HorizonDays)}

\* The blocks of completed tasks that getSchedule finds in the same range.
Pinned ==
  {s \in Slots : /\ booked[s] # NoTask /\ status[booked[s]] = "completed"
                 /\ s.from < now + Midnight(HorizonDays) /\ s.to > Midnight(Day(now))}

\* Mutant: the blocks of completed tasks are kept.
PlaceKeepsPinned(placed) ==
  booked' = [s \in Slots |-> IF s \in Pinned THEN booked[s] ELSE placed[s]]

\* replaceSchedule stores the new blocks only: the pinned ones are gone.
Place(placed) == booked' = placed

\* updateTaskStatuses. It stops at a task that is at risk already.
Mark(short) ==
  LET ready == Schedulable(Active, deps)
      blocked == BlockedTasks(Active, deps)
      risky == short \cup blocked
      again == {t \in risky : status[t] = "at_risk"}
  IN  \E marked \in SUBSET (risky \ again) :
        /\ again = {} => marked = risky
        /\ marked \cap blocked # {} => short \subseteq marked
        /\ status' = [t \in Task |-> IF t \in ready \ short THEN "scheduled"
                                     ELSE IF t \in marked THEN "at_risk" ELSE status[t]]
        /\ planCurrent' = (again = {})

Replan ==
  /\ \E placed \in [Slots -> Schedulable(Active, deps) \cup {NoTask}] :
       LET time(t) == TimeOf({s \in Slots : placed[s] = t})
       IN  /\ \A s \in Slots : placed[s] # NoTask => s \in Offered \ Pinned
           /\ \A t \in Active : time(t) <= Duration[t]
           /\ Place(placed)
           /\ Mark({t \in Schedulable(Active, deps) : time(t) < Duration[t]})
  /\ UNCHANGED <<now, deadline, closedAt, deps>>

ReportsNext ==
  \/ \E t \in Task : \/ CreateTask(t) \/ UpdateDeadline(t) \/ CompleteTask(t)
                     \/ CompleteRefused(t) \/ DeleteTask(t)
  \/ Tick \/ Replan

ReportsSpec == ReportsInit /\ [][ReportsNext]_reportVars

-----------------------------------------------------------------------------
(***************************************************************************)
(* detectConflicts on all tasks and the blocks get_conflicts loads.        *)
(***************************************************************************)
Loaded ==
  {s \in Slots : /\ s.from < Midnight(Day(now) + HorizonDays)
                 /\ s.to > Midnight(Day(now))}

Due(t) == t \in Active /\ deadline[t] # None

Overdue(t) == Due(t) /\ deadline[t] < now

\* computeAvailableMinutesBeforeDeadline
Available(t) == Max({0, deadline[t] - now})

\* Mutant: only the dependencies of the task itself.
WalkedDirect(t) == {e \in deps : e[1] = t /\ status[e[2]] # "completed"}

\* walkDependencyChain: the edges to unfinished tasks met from t on.
Walked(t) ==
  LET open == {e \in deps : status[e[2]] # "completed"}
  IN  {e \in open : Reaches(open, t, e[1])}

\* A task is counted once for each edge that leads to it.
DurationAhead(e) == Duration[e[2]]
ChainMinutes(t) == Duration[t] + MapThenSumSet(DurationAhead, Walked(t))

ChainTooLong(t) ==
  /\ Due(t) /\ ~Overdue(t)
  /\ Walked(t) # {}
  /\ ChainMinutes(t) > Available(t)

\* Mutant: the blocks are not those of the task alone.
ScheduledOfAll(t) == MapThenSumSet(LAMBDA u : Minutes(u, Loaded), Task)

\* getScheduledMinutes
Scheduled(t) == Minutes(t, Loaded)

TooLittleTime(t) ==
  /\ Due(t) /\ ~Overdue(t) /\ ~ChainTooLong(t)
  /\ Scheduled(t) < Duration[t]

InConflict == {t \in Task : Overdue(t) \/ ChainTooLong(t) \/ TooLittleTime(t)}

(***************************************************************************)
(* findCompetingTasks and suggestDeprioritizations.                        *)
(***************************************************************************)
BeforeDeadlineOf(t) == {s \in Loaded : s.to <= deadline[t]}

Competing(t) == {booked[s] : s \in BeforeDeadlineOf(t)} \ {t, NoTask}

\* Mutant: a task with the same deadline may be put off too.
LaterDueOrEqual(t) == {c \in Competing(t) : deadline[c] # None => deadline[c] >= deadline[t]}

LaterDue(t) == {c \in Competing(t) : deadline[c] # None => deadline[c] > deadline[t]}

DueFirst(c, d) == deadline[c] # None /\ (deadline[d] # None => deadline[c] < deadline[d])

FirstStart(c) == Min({s.from : s \in {s \in Loaded : booked[s] = c}})

\* The order of the sort, which keeps the order of the blocks for equals.
Precedes(c, d) ==
  \/ Priority[c] > Priority[d]
  \/ /\ Priority[c] = Priority[d]
     /\ \/ DueFirst(d, c)
        \/ ~DueFirst(c, d) /\ ~DueFirst(d, c) /\ FirstStart(c) < FirstStart(d)

\* As long as the tasks before it do not free the minutes that are missing.
Suggested(t) ==
  {c \in LaterDue(t) :
     MapThenSumSet(LAMBDA d : Minutes(d, BeforeDeadlineOf(t)),
                   {d \in LaterDue(t) : Precedes(d, c)}) < Duration[t] - Scheduled(t)}

(***************************************************************************)
(* getCompletedTasks for a day: the tasks and whether they were on time.   *)
(***************************************************************************)
CompletedOn(d) ==
  {[task |-> t, onTime |-> deadline[t] # None /\ closedAt[t] <= deadline[t]] :
     t \in {t \in Task : status[t] = "completed" /\ Day(closedAt[t]) = d}}

-----------------------------------------------------------------------------
\* The two verdicts on a task agree: updateTaskStatuses marks it at risk from
\* the minutes the placement left over, the detector reports it from the blocks
\* of the days it loads. While the plan is current every task at risk with a
\* deadline is in a conflict, and what is reported as short of time is at risk
\* unless part of its blocks lies outside the days loaded.
ReportMatchesRisk ==
  planCurrent => \A t \in Active :
    /\ status[t] = "at_risk" /\ deadline[t] # None => t \in InConflict
    /\ TooLittleTime(t) /\ (\A s \in Slots : booked[s] = t => s \in Loaded)
         => status[t] = "at_risk"

\* A task that cannot be finished in time, because it and the active tasks it
\* waits for, however far down, take longer than is left, is reported as that.
ImpossibleIsReported ==
  \A t \in Active :
    LET waits == {e \in deps : e[1] \in Active /\ e[2] \in Active}
        chain == {u \in Active : Reaches(waits, t, u)}
    IN  /\ deadline[t] # None /\ chain # {t}
        /\ MapThenSumSet(LAMBDA u : Duration[u], chain) > deadline[t] - now
        => Overdue(t) \/ ChainTooLong(t)

\* The advice of one report can be followed: no task is to be put off for one
\* that is itself to be put off for the first, over any number of conflicts, and
\* with a current plan none of those named is finished.
PutOff == {e \in Task \X Task : TooLittleTime(e[1]) /\ e[2] \in Suggested(e[1])}
AdviceCanBeFollowed ==
  /\ \A e \in PutOff : ~Reaches(PutOff, e[2], e[1])
  /\ planCurrent => \A e \in PutOff : e[2] \in Active

\* The completed tasks of a day that is over, and which of them were on time,
\* never change: not when they are completed again, when their deadline is to be
\* moved, or when other tasks are.
PastReportsAreFinal ==
  [][\A d \in 0 .. Day(now) - 1 : CompletedOn(d)' = CompletedOn(d)]_reportVars

\* README.md:561: "An empty conflicts array means all tasks fit within available
\* time before their deadlines."
NoConflictMeansOnTime ==
  planCurrent /\ InConflict = {} =>
    \A s \in Slots : LET t == booked[s] IN
      t # NoTask /\ deadline[t] # None => s.to <= deadline[t]
=============================================================================
