--------------------------- MODULE CalendarProofs ---------------------------
(***************************************************************************)
(* Invariants of the tools and the replan pipeline for any number of tasks *)
(* and calls.                                                              *)
(***************************************************************************)
EXTENDS Calendar, SequenceTheorems, TLAPS

(***************************************************************************)
(* Why validateNoCycles is enough, for any set of tasks and any graph.     *)
(***************************************************************************)
LEMMA ReachesSelf == \A E \in Graph, a \in Task : Reaches(E, a, a)
BY DEF Reaches

\* What a task reaches is closed under the edges.
LEMMA ReachedClosed ==
  ASSUME NEW E \in Graph, NEW a \in Task, NEW x \in Task, NEW y \in Task,
         Reaches(E, a, x), <<x, y>> \in E
  PROVE  Reaches(E, a, y)
BY DEF Reaches, Closed

\* In an acyclic graph the end of an edge never leads back to its start.
LEMMA AcyclicEdge ==
  ASSUME NEW E \in Graph, Acyclic(E), NEW t \in Task, NEW d \in Task, <<t, d>> \in E
  PROVE  MayDependOn(E, t, d)
<1>1. t # d
  <2>1. {t} \in (SUBSET Task) \ {{}}
    OBVIOUS
  <2>2. \E x \in {t} : \A y \in {t} : <<x, y>> \notin E
    BY <2>1 DEF Acyclic
  <2>3. QED
    BY <2>2
<1>2. ASSUME Reaches(E, d, t) PROVE FALSE
  <2> DEFINE Fore(x) == Reaches(E, d, x) /\ Reaches(E, x, t)
             S == {x \in Task : Fore(x)}
  <2>1. S # {} /\ S \in SUBSET Task
    BY <1>2, ReachesSelf
  <2>2. PICK x \in S : \A y \in S : <<x, y>> \notin E
    BY <2>1 DEF Acyclic
  <2>3. x # t
    BY <2>2, <1>2, ReachesSelf
  <2>4. \E y \in Task : <<x, y>> \in E /\ Reaches(E, y, t)
    <3> SUFFICES ASSUME \A y \in Task : <<x, y>> \in E => ~Reaches(E, y, t)
                 PROVE  FALSE
      OBVIOUS
    <3> DEFINE B == {y \in Task : ~Reaches(E, y, t)}
    <3>1. Closed(E, B \cup {x})
      <4> SUFFICES ASSUME NEW e \in E, e[1] \in B \cup {x} PROVE e[2] \in B \cup {x}
        BY DEF Closed
      <4>1. e[1] \in Task /\ e[2] \in Task /\ e = <<e[1], e[2]>>
        BY DEF Graph
      <4>2. CASE e[1] = x
        BY <4>1, <4>2
      <4>3. CASE e[1] \in B
        <5>1. PICK S1 \in SUBSET Task : e[1] \in S1 /\ Closed(E, S1) /\ t \notin S1
          BY <4>3 DEF Reaches
        <5>2. e[2] \in S1
          BY <5>1 DEF Closed
        <5>3. QED
          BY <4>1, <5>1, <5>2 DEF Reaches
      <4>4. QED
        BY <4>2, <4>3
    <3>2. t \notin B
      BY ReachesSelf
    <3>3. ~Reaches(E, x, t)
      BY <3>1, <3>2, <2>3 DEF Reaches
    <3>4. QED
      BY <3>3
  <2>5. PICK y \in Task : <<x, y>> \in E /\ Reaches(E, y, t)
    BY <2>4
  <2>6. y \in S
    BY <2>5, ReachedClosed
  <2>7. QED
    BY <2>2, <2>5, <2>6
<1>3. QED
  BY <1>1, <1>2 DEF MayDependOn

\* Removing edges makes no cycle.
LEMMA AcyclicSubset ==
  ASSUME NEW E \in Graph, NEW F \in Graph, F \subseteq E, Acyclic(E)
  PROVE  Acyclic(F)
BY DEF Acyclic

\* The check of one task's dependencies may all be made on the graph as it was
\* before the first of them was added (taskTools computes allEdges once and
\* then adds in a loop): the edges they add all leave that task, and no path
\* back to it can use one of them.
THEOREM CheckedEdgesKeepAcyclic ==
  ASSUME NEW E \in Graph, Acyclic(E),
         NEW t \in Task, NEW D \in SUBSET Task,
         \A d \in D : MayDependOn(E, t, d)
  PROVE  Acyclic(E \cup ({t} \X D))
<1> DEFINE R == {x \in Task : \E d \in D : Reaches(E, d, x)}
<1>1. Closed(E, R)
  <2> SUFFICES ASSUME NEW e \in E, e[1] \in R PROVE e[2] \in R
    BY DEF Closed
  <2>1. e[1] \in Task /\ e[2] \in Task /\ e = <<e[1], e[2]>>
    BY DEF Graph
  <2>2. QED
    BY <2>1, ReachedClosed
<1>2. D \subseteq R /\ t \notin R
  BY ReachesSelf DEF MayDependOn
<1>3. SUFFICES ASSUME NEW S \in (SUBSET Task) \ {{}}
               PROVE \E x \in S : \A y \in S : <<x, y>> \notin E \cup ({t} \X D)
  BY DEF Acyclic
<1>4. CASE S \cap R = {}
  <2>1. PICK x \in S : \A y \in S : <<x, y>> \notin E
    BY DEF Acyclic
  <2>2. QED
    BY <1>2, <1>4, <2>1
<1>5. CASE S \cap R # {}
  <2>1. PICK x \in S \cap R : \A y \in S \cap R : <<x, y>> \notin E
    BY <1>5 DEF Acyclic
  <2>2. \A y \in S : <<x, y>> \notin E
    BY <1>1, <2>1 DEF Closed
  <2>3. QED
    BY <1>2, <2>1, <2>2
<1>6. QED
  BY <1>4, <1>5

\* orderSchedulableTasks hands the topological sort no edge at all: a task with
\* an active dependency is blocked, so it is not among the tasks to place.
THEOREM NoEdgeAmongSchedulable ==
  ASSUME NEW E \in Graph, NEW active \in SUBSET Task
  PROVE  E \cap (Schedulable(active, E) \X Schedulable(active, E)) = {}
BY DEF Schedulable, BlockedTasks

\* Replanning is never stuck on dependencies: if some task is active, some
\* active task is not blocked.
THEOREM SomeTaskSchedulable ==
  ASSUME NEW E \in Graph, Acyclic(E), NEW active \in SUBSET Task, active # {}
  PROVE  Schedulable(active, E) # {}
BY DEF Acyclic, Schedulable, BlockedTasks

-----------------------------------------------------------------------------
(***************************************************************************)
(* What a handler has established when it reaches each of its statements.  *)
(***************************************************************************)
HandlerInv ==
  /\ handler.at = "insert" => handler.task \in Task /\ status[handler.task] = "absent"
  /\ handler.at \in Points \ {"none", "insert", "inputs", "request"} =>
       handler.task \in Existing
  /\ handler.at = "complete" => handler.task \in actual
  /\ handler.at \in {"unlink", "link"} =>
       \A i \in DOMAIN handler.todo : handler.todo[i] \in Existing
  /\ handler.at = "link" => handler.todo # <<>>

(***************************************************************************)
(* While a handler links, allEdges are acyclic, and the rows added since   *)
(* they were read leave its own task and passed the check against them.    *)
(***************************************************************************)
LinkInv ==
  handler.at = "link" =>
    /\ Acyclic(handler.edges)
    /\ \A e \in deps \ handler.edges :
         e[1] = handler.task /\ MayDependOn(handler.edges, handler.task, e[2])

(***************************************************************************)
(* How far the tasks have come to agree with the plan being applied.       *)
(***************************************************************************)
Ready == Schedulable(Active, deps)
Waiting == BlockedTasks(Active, deps)

PlanInv ==
  /\ pc = "replace" => /\ plan.placed \cup plan.short = Ready
                       /\ plan.toSchedule = plan.placed \ plan.short
                       /\ plan.blocked = Waiting
  /\ pc = "statuses" =>
       /\ ~planCurrent
       /\ blocks \subseteq Ready
       /\ plan.toSchedule \subseteq blocks
       /\ \A t \in Active : \/ t \in plan.toSchedule \cup plan.short \cup plan.blocked
                            \/ status[t] = "at_risk"
                            \/ status[t] = "scheduled" /\ t \in blocks
       /\ \A t \in Waiting : t \in plan.blocked \/ status[t] = "at_risk"

BaseInv == CalendarTypeOK /\ HandlerInv /\ CompletedHasActual
DepsInv == LinkInv /\ DepsAcyclic
SyncInv == PlanInv /\ CurrentMeansInSync

CalendarIInv == BaseInv /\ DepsInv /\ SyncInv

-----------------------------------------------------------------------------
(***************************************************************************)
(* The steps, by what they do to the database and the locals.              *)
(***************************************************************************)
LEMMA ListsAreSequences == \A S : BlockedByLists(S) \subseteq Seq(S)
BY SeqDef, TasksAssumption DEF BlockedByLists

\* Both branches of a statement that ends in Write keep the handler typed.
LEMMA WriteType ==
  ASSUME handler \in Handler, NEW next \in Points, NEW rest \in Seq(Task), Write(next, rest)
  PROVE  /\ handler' \in Handler
         /\ handler'.at = next /\ handler'.todo = rest
         /\ handler'.task = handler.task /\ handler'.edges = handler.edges
         /\ plan' = plan
BY DEF Write, Handler

LEMMA BeginType ==
  ASSUME NEW t \in Task \cup {NoTask}, NEW first \in Points,
         NEW list \in Seq(Task), NEW hasFields \in BOOLEAN, Begin(t, first, list, hasFields)
  PROVE  /\ handler' \in Handler
         /\ handler'.at = first /\ handler'.task = t /\ handler'.todo = list
         /\ UNCHANGED <<db, plan>>
BY DEF Begin, NoHandler, Handler, Points, Graph, db

-----------------------------------------------------------------------------
(***************************************************************************)
(* Types, handlers and recorded durations.                                 *)
(***************************************************************************)
LEMMA BaseInit == CalendarInit => BaseInv
BY DEF CalendarInit, BaseInv, CalendarTypeOK, HandlerInv, CompletedHasActual,
       TaskStatus, Existing, NoHandler, Handler, Points, NoPlan, Plan, Graph

LEMMA ToolsBase == BaseInv /\ Tools => BaseInv'
<1> SUFFICES ASSUME BaseInv, Tools PROVE BaseInv'
  OBVIOUS
<1> USE DEF BaseInv, db
<1>0. /\ status \in [Task -> TaskStatus \cup {"absent"}]
      /\ actual \subseteq Existing /\ deps \subseteq Existing \X Existing
      /\ blocks \subseteq Task /\ handler \in Handler /\ plan \in Plan
  BY DEF CalendarTypeOK
<1>e. <<>> \in Seq(Task)
  OBVIOUS
<1>1. ASSUME NEW t \in Task, CreateTask(t) PROVE BaseInv'
  <2>1. PICK list \in BlockedByLists(Task \ {t}) : Begin(t, "insert", list, FALSE)
    BY <1>1 DEF CreateTask
  <2>2. list \in Seq(Task)
    <3>1. list \in Seq(Task \ {t})
      BY ListsAreSequences
    <3>2. QED
      BY <3>1, SeqMonotonic
  <2>3. /\ handler' \in Handler
        /\ handler'.at = "insert" /\ handler'.task = t /\ UNCHANGED <<db, plan>>
    <3>1. "insert" \in Points /\ FALSE \in BOOLEAN /\ t \in Task \cup {NoTask}
      BY DEF Points
    <3>2. QED
      BY <2>1, <2>2, <3>1, BeginType
  <2>4. QED
    BY <1>1, <2>3 DEF CreateTask, CalendarTypeOK, HandlerInv, CompletedHasActual, Existing, Points
<1>2. ASSUME NEW t \in Task, UpdateTask(t) PROVE BaseInv'
  <2>1. PICK list \in Seq(Task), first \in {"fields", "targets"}, hasFields \in BOOLEAN :
          Begin(t, first, list, hasFields)
    BY <1>2, <1>e, ListsAreSequences DEF UpdateTask
  <2>2. /\ handler' \in Handler
        /\ handler'.at \in {"fields", "targets"} /\ handler'.task = t /\ UNCHANGED <<db, plan>>
    BY <1>e, <2>1, BeginType DEF Points
  <2>3. QED
    BY <1>2, <2>2 DEF UpdateTask, CalendarTypeOK, HandlerInv, CompletedHasActual, Existing, Points
<1>3. ASSUME NEW t \in Task, CompleteTask(t) \/ DeleteTask(t) PROVE BaseInv'
  <2>1. PICK first \in {"record", "cancel"} : Begin(t, first, <<>>, FALSE)
    BY <1>3 DEF CompleteTask, DeleteTask
  <2>2. /\ handler' \in Handler
        /\ handler'.at \in {"record", "cancel"} /\ handler'.task = t /\ UNCHANGED <<db, plan>>
    BY <1>e, <2>1, BeginType DEF Points
  <2>3. QED
    BY <1>3, <2>2 DEF CompleteTask, DeleteTask, CalendarTypeOK, HandlerInv,
                      CompletedHasActual, Existing, Points
<1>4. CASE ChangeInputs
  <2>1. handler' \in Handler /\ handler'.at = "inputs" /\ UNCHANGED <<db, plan>>
    BY <1>e, <1>4, BeginType DEF ChangeInputs, Points
  <2>2. QED
    BY <2>1 DEF CalendarTypeOK, HandlerInv, CompletedHasActual, Existing, Points
<1>5. CASE Throw \/ RequestReplan
  <2>1. handler' = NoHandler /\ UNCHANGED <<db, plan>>
    BY <1>5 DEF Throw, RequestReplan
  <2>2. QED
    BY <2>1 DEF CalendarTypeOK, HandlerInv, CompletedHasActual, Existing, NoHandler,
                Handler, Points, Graph
<1>6. CASE InsertTask
  <2> DEFINE next == IF handler.todo = <<>> THEN "request" ELSE "targets"
  <2>1. Write(next, handler.todo) /\ handler.todo \in Seq(Task) /\ next \in Points
    BY <1>0, <1>6 DEF InsertTask, Handler, Points
  <2>2. /\ handler' \in Handler /\ handler'.at \in {"request", "targets"}
        /\ handler'.task = handler.task /\ plan' = plan
    BY <1>0, <2>1, WriteType
  <2>3. /\ handler.task \in Task
        /\ status' = [status EXCEPT ![handler.task] = "pending"]
        /\ UNCHANGED <<actual, deps, blocks>>
    BY <1>6 DEF InsertTask, HandlerInv
  <2>4. Existing' = Existing \cup {handler.task}
    BY <2>3 DEF CalendarTypeOK, Existing
  <2>5. CalendarTypeOK'
    BY <2>2, <2>3, <2>4 DEF CalendarTypeOK, TaskStatus
  <2>6. HandlerInv' /\ CompletedHasActual'
    BY <2>2, <2>3, <2>4 DEF HandlerInv, CompletedHasActual, CalendarTypeOK
  <2>7. QED
    BY <2>5, <2>6
<1>7. CASE CheckTargets
  <2>1. /\ handler.at = "targets" /\ ~Rejected
        /\ handler' = [handler EXCEPT !.at = "unlink"] /\ UNCHANGED <<db, plan>>
    BY <1>7 DEF CheckTargets
  <2>2. \A i \in DOMAIN handler.todo : handler.todo[i] \in Existing
    BY <2>1 DEF Rejected
  <2>3. QED
    BY <2>1, <2>2 DEF CalendarTypeOK, HandlerInv, CompletedHasActual, Existing, Handler, Points
<1>8. CASE Unlink
  <2>1. /\ handler.at = "unlink" /\ Write("unlink", handler.todo) /\ handler.todo \in Seq(Task)
        /\ deps' \subseteq deps /\ UNCHANGED <<status, actual, blocks>>
    BY <1>0, <1>8 DEF Unlink, Handler
  <2>2. /\ handler' \in Handler /\ handler'.at = "unlink" /\ handler'.todo = handler.todo
        /\ handler'.task = handler.task /\ plan' = plan
    BY <1>0, <2>1, WriteType DEF Points
  <2>3. QED
    BY <2>1, <2>2 DEF CalendarTypeOK, HandlerInv, CompletedHasActual, Existing, Points
<1>9. CASE ReadEdges
  <2> DEFINE next == AfterLink(handler.todo)
  <2>1. /\ handler.at = "unlink"
        /\ handler' = [handler EXCEPT !.at = next, !.edges = deps] /\ UNCHANGED <<db, plan>>
    BY <1>9 DEF ReadEdges
  <2>2. /\ next \in {"link", "fields", "request"}
        /\ next = "link" => handler.todo # <<>>
    BY DEF AfterLink
  <2>3. deps \in Graph
    BY DEF CalendarTypeOK, Graph, Existing
  <2>4. handler' \in Handler /\ handler'.at = next /\ handler'.todo = handler.todo
        /\ handler'.task = handler.task
    BY <2>1, <2>2, <2>3 DEF CalendarTypeOK, Handler, Points
  <2>5. QED
    BY <2>1, <2>2, <2>4 DEF CalendarTypeOK, HandlerInv, CompletedHasActual, Existing, Points
<1>10. CASE Link
  <2> DEFINE rest == Tail(handler.todo)
             next == AfterLink(rest)
  <2>1. /\ handler.at = "link" /\ Write(next, rest)
        /\ deps' = deps \cup {<<handler.task, Head(handler.todo)>>}
        /\ UNCHANGED <<status, actual, blocks>>
    BY <1>10 DEF Link
  <2>2. handler.todo \in Seq(Existing) /\ handler.todo # <<>> /\ handler.task \in Existing
    <3>1. handler.todo \in Seq(Task) /\ handler.task \in Existing /\ handler.todo # <<>>
      BY <2>1 DEF CalendarTypeOK, Handler, HandlerInv, Points
    <3>2. \A i \in DOMAIN handler.todo : handler.todo[i] \in Existing
      BY <2>1 DEF HandlerInv
    <3>3. QED
      BY <3>1, <3>2
  <2>3. rest \in Seq(Existing) /\ Head(handler.todo) \in Existing
    BY <2>2, HeadTailProperties
  <2>4. rest \in Seq(Task)
    BY <2>3, SeqMonotonic DEF Existing
  <2>5. next \in {"link", "fields", "request"} /\ (next = "link" => rest # <<>>)
    BY DEF AfterLink
  <2>6. /\ handler' \in Handler /\ handler'.at = next /\ handler'.todo = rest
        /\ handler'.task = handler.task /\ plan' = plan
    BY <1>0, <2>1, <2>4, <2>5, WriteType DEF Points
  <2>7. Existing' = Existing
    BY <2>1 DEF Existing
  <2>8. CalendarTypeOK'
    BY <1>0, <2>1, <2>2, <2>3, <2>6, <2>7 DEF CalendarTypeOK
  <2>9. HandlerInv'
    <3>1. \A i \in DOMAIN rest : rest[i] \in Existing
      BY <2>3
    <3>2. QED
      BY <2>1, <2>2, <2>5, <2>6, <2>7, <3>1 DEF HandlerInv, Points
  <2>10. QED
    BY <2>1, <2>8, <2>9 DEF CompletedHasActual
<1>11. CASE UpdateFields \/ WriteInputs
  <2>1. Write("request", <<>>) /\ UNCHANGED db
    BY <1>11 DEF UpdateFields, WriteInputs
  <2>2. handler' \in Handler /\ handler'.at = "request" /\ plan' = plan
    BY <1>0, <1>e, <2>1, WriteType DEF Points
  <2>3. QED
    BY <2>1, <2>2 DEF CalendarTypeOK, HandlerInv, CompletedHasActual, Existing, Points
<1>12. CASE RecordActualDuration
  <2>1. /\ handler.at = "record" /\ Write("complete", <<>>)
        /\ actual' = actual \cup {handler.task} /\ UNCHANGED <<status, deps, blocks>>
    BY <1>12 DEF RecordActualDuration
  <2>2. /\ handler' \in Handler /\ handler'.at = "complete" /\ plan' = plan
        /\ handler'.task = handler.task /\ handler'.todo = <<>>
    BY <1>0, <1>e, <2>1, WriteType DEF Points
  <2>3. handler.task \in Existing
    BY <2>1 DEF HandlerInv, Points
  <2>4. QED
    BY <2>1, <2>2, <2>3 DEF CalendarTypeOK, HandlerInv, CompletedHasActual, Existing
<1>13. ASSUME NEW at \in {"complete", "cancel"}, NEW new \in Terminal, SetStatus(at, new),
              at = "cancel" => new = "cancelled"
       PROVE  BaseInv'
  <2>1. /\ handler.at = at /\ Write("request", <<>>)
        /\ status' = [status EXCEPT ![handler.task] = new] /\ UNCHANGED <<actual, deps, blocks>>
    BY <1>13 DEF SetStatus
  <2>2. handler' \in Handler /\ handler'.at = "request" /\ plan' = plan
    BY <1>0, <1>e, <2>1, WriteType DEF Points
  <2>3. handler.task \in Existing /\ (at = "complete" => handler.task \in actual)
    BY <2>1 DEF HandlerInv, Points
  <2>4. Existing' = Existing
    BY <1>0, <2>1, <2>3 DEF Existing, Terminal
  <2>5. CalendarTypeOK'
    BY <1>0, <2>1, <2>2, <2>4 DEF CalendarTypeOK, Terminal, TaskStatus
  <2>6. CompletedHasActual'
    BY <1>0, <1>13, <2>1, <2>3 DEF CompletedHasActual
  <2>7. QED
    BY <2>2, <2>5, <2>6 DEF HandlerInv, Points
<1>14. QED
  BY <1>1, <1>2, <1>3, <1>4, <1>5, <1>6, <1>7, <1>8, <1>9, <1>10, <1>11, <1>12, <1>13
     DEF Tools, SetCompleted, SetCancelled, Terminal

\* The pipeline moves no task into or out of the active ones.
LEMMA MarksKeepActive ==
  ASSUME CalendarTypeOK, NEW t \in Task, MarkScheduled(t) \/ MarkAtRisk(t)
  PROVE  /\ Active' = Active /\ Existing' = Existing
         /\ status' \in [Task -> TaskStatus \cup {"absent"}]
         /\ \A u \in Task : status'[u] = status[u] \/ status'[u] \in {"scheduled", "at_risk"}
         /\ \A u \in Task : status[u] \in Terminal \cup {"absent"} => status'[u] = status[u]
         /\ UNCHANGED <<actual, deps, blocks, handler>>
<1>0. status \in [Task -> TaskStatus \cup {"absent"}]
  BY DEF CalendarTypeOK
<1>1. \/ UNCHANGED status
      \/ /\ status[t] \in {"pending", "scheduled", "at_risk"}
         /\ \E s \in {"scheduled", "at_risk"} : status' = [status EXCEPT ![t] = s]
  <2>1. CASE MarkScheduled(t)
    BY <2>1 DEF MarkScheduled
  <2>2. CASE MarkAtRisk(t)
    BY <1>0, <2>2 DEF MarkAtRisk, ValidTransitions, Terminal, TaskStatus
  <2>3. QED
    BY <2>1, <2>2
<1>2. UNCHANGED <<actual, deps, blocks, handler>>
  BY DEF MarkScheduled, MarkAtRisk
<1>3. CASE UNCHANGED status
  BY <1>0, <1>2, <1>3 DEF Active, Existing
<1>4. CASE /\ status[t] \in {"pending", "scheduled", "at_risk"}
           /\ \E s \in {"scheduled", "at_risk"} : status' = [status EXCEPT ![t] = s]
  BY <1>0, <1>2, <1>4 DEF Active, Existing, Terminal, TaskStatus
<1>5. QED
  BY <1>1, <1>3, <1>4

LEMMA PlanTyped ==
  ASSUME CalendarTypeOK, NEW t \in Task, MarkScheduled(t) \/ MarkAtRisk(t)
  PROVE  plan' \in Plan
<1>1. plan \in Plan
  BY DEF CalendarTypeOK
<1>2. CASE MarkScheduled(t)
  BY <1>1, <1>2 DEF MarkScheduled, Plan
<1>3. CASE MarkAtRisk(t)
  <2>1. \/ plan' = plan
        \/ plan' = [plan EXCEPT !.short = @ \ {t}, !.blocked = @ \ {t}]
    BY <1>3 DEF MarkAtRisk
  <2>2. QED
    BY <1>1, <2>1 DEF Plan
<1>4. QED
  BY <1>2, <1>3

LEMMA PipelineBase ==
  BaseInv /\ (CoordinatorOnly \/ Pipeline \/ Crash \/ UNCHANGED calendarVars) => BaseInv'
<1> SUFFICES ASSUME BaseInv, CoordinatorOnly \/ Pipeline \/ Crash \/ UNCHANGED calendarVars
             PROVE  BaseInv'
  OBVIOUS
<1> USE DEF BaseInv, db, local
<1>1. CASE CoordinatorOnly \/ UNCHANGED calendarVars \/ StatusesDone
  <2>1. UNCHANGED <<db, local>>
    BY <1>1 DEF CoordinatorOnly, calendarVars, StatusesDone
  <2>2. QED
    BY <2>1 DEF CalendarTypeOK, HandlerInv, CompletedHasActual, Existing
<1>2. CASE GenerateSchedule
  <2>1. plan' \in Plan
    BY <1>2 DEF GenerateSchedule, Plan, Schedulable, BlockedTasks, Active
  <2>2. UNCHANGED <<db, handler>>
    BY <1>2 DEF GenerateSchedule
  <2>3. QED
    BY <2>1, <2>2 DEF CalendarTypeOK, HandlerInv, CompletedHasActual, Existing
<1>3. CASE FinishReplan \/ StatusWriteThrows \/ Crash
  <2>1. UNCHANGED db /\ plan' = NoPlan /\ handler' \in {handler, NoHandler}
    BY <1>3 DEF FinishReplan, StatusWriteThrows, Crash
  <2>2. NoPlan \in Plan /\ NoHandler \in Handler
    BY DEF NoPlan, Plan, NoHandler, Handler, Points, Graph
  <2>3. NoHandler.at = "none"
    BY DEF NoHandler
  <2>4. CalendarTypeOK' /\ CompletedHasActual'
    BY <2>1, <2>2 DEF CalendarTypeOK, CompletedHasActual, Existing
  <2>5. HandlerInv'
    BY <2>1, <2>3 DEF HandlerInv, Existing, Points
  <2>6. QED
    BY <2>4, <2>5
<1>4. ASSUME NEW t \in Task, MarkScheduled(t) \/ MarkAtRisk(t) PROVE BaseInv'
  <2>1. CalendarTypeOK'
    BY <1>4, MarksKeepActive, PlanTyped DEF CalendarTypeOK
  <2>2. HandlerInv'
    BY <1>4, MarksKeepActive DEF HandlerInv, CalendarTypeOK, Handler
  <2>3. CompletedHasActual'
    BY <1>4, MarksKeepActive DEF CompletedHasActual
  <2>4. QED
    BY <2>1, <2>2, <2>3
<1>5. CASE ReplaceSchedule
  <2>1. blocks' \subseteq Task
    BY <1>5 DEF ReplaceSchedule, CalendarTypeOK, Plan
  <2>2. UNCHANGED <<status, actual, deps, local>>
    BY <1>5 DEF ReplaceSchedule
  <2>3. QED
    BY <2>1, <2>2 DEF CalendarTypeOK, HandlerInv, CompletedHasActual, Existing
<1>6. QED
  BY <1>1, <1>2, <1>3, <1>4, <1>5 DEF Pipeline

-----------------------------------------------------------------------------
(***************************************************************************)
(* The dependency graph.                                                   *)
(***************************************************************************)
LEMMA OtherStepsKeepDeps ==
  ASSUME BaseInv, [CalendarNext]_calendarVars, ~Unlink, ~ReadEdges, ~Link
  PROVE  deps' = deps /\ (handler' = handler \/ handler'.at # "link")
<1> USE DEF db, local
<1>0. handler \in Handler /\ <<>> \in Seq(Task)
  BY DEF BaseInv, CalendarTypeOK
<1>b. \A t, first, list, hasFields :
        Begin(t, first, list, hasFields) => deps' = deps /\ handler'.at = first
  BY DEF Begin, NoHandler
<1>1. ASSUME NEW t \in Task, CreateTask(t) \/ UpdateTask(t) \/ CompleteTask(t) \/ DeleteTask(t)
      PROVE  deps' = deps /\ handler'.at # "link"
  <2>1. \E first \in {"insert", "fields", "targets", "record", "cancel"} :
          \E list, hasFields : Begin(t, first, list, hasFields)
    BY <1>1 DEF CreateTask, UpdateTask, CompleteTask, DeleteTask
  <2>2. QED
    BY <1>b, <2>1
<1>2. CASE ChangeInputs \/ Throw \/ RequestReplan
  <2>1. NoHandler.at = "none"
    BY DEF NoHandler
  <2>2. CASE ChangeInputs
    <3>1. \E list, hasFields : Begin(NoTask, "inputs", list, hasFields)
      BY <2>2 DEF ChangeInputs
    <3>2. QED
      BY <1>b, <3>1
  <2>3. QED
    BY <1>2, <2>1, <2>2 DEF Throw, RequestReplan
<1>3. CASE InsertTask
  BY <1>0, <1>3 DEF InsertTask, Write, Handler
<1>4. CASE CheckTargets
  BY <1>0, <1>4 DEF CheckTargets, Handler
<1>5. CASE UpdateFields \/ WriteInputs \/ RecordActualDuration \/ SetCompleted \/ SetCancelled
  BY <1>0, <1>5 DEF UpdateFields, WriteInputs, RecordActualDuration, SetCompleted,
                    SetCancelled, SetStatus, Write, Handler
<1>6. CASE CoordinatorOnly \/ GenerateSchedule \/ ReplaceSchedule \/ StatusesDone
           \/ FinishReplan \/ StatusWriteThrows \/ Crash \/ UNCHANGED calendarVars
  BY <1>6 DEF CoordinatorOnly, GenerateSchedule, ReplaceSchedule, StatusesDone,
              FinishReplan, StatusWriteThrows, Crash, NoHandler, calendarVars
<1>7. ASSUME NEW t \in Task, MarkScheduled(t) \/ MarkAtRisk(t)
      PROVE  deps' = deps /\ handler' = handler
  BY <1>7 DEF MarkScheduled, MarkAtRisk
<1>8. QED
  BY <1>1, <1>2, <1>3, <1>4, <1>5, <1>6, <1>7 DEF CalendarNext, Tools, Pipeline

LEMMA DepsStep == BaseInv /\ DepsInv /\ [CalendarNext]_calendarVars => DepsInv'
<1> SUFFICES ASSUME BaseInv, DepsInv, [CalendarNext]_calendarVars PROVE DepsInv'
  OBVIOUS
<1>0. /\ deps \in Graph /\ handler \in Handler /\ handler.edges \in Graph
      /\ handler.at = "link" => handler.task \in Task
  BY DEF BaseInv, CalendarTypeOK, Existing, Graph, Handler, HandlerInv, Points
<1> USE DEF DepsInv, DepsAcyclic
<1>1. CASE Unlink
  <2>1. deps' \subseteq deps /\ handler'.at = "unlink"
    BY <1>0, <1>1 DEF Unlink, Write, Handler
  <2>2. Acyclic(deps')
    BY <1>0, <2>1, AcyclicSubset DEF Graph
  <2>3. QED
    BY <2>1, <2>2 DEF LinkInv
<1>2. CASE ReadEdges
  <2>1. deps' = deps /\ handler'.edges = deps
    BY <1>0, <1>2 DEF ReadEdges, Handler, db
  <2>2. QED
    BY <2>1 DEF LinkInv
<1>3. CASE Link
  <2> DEFINE t == handler.task
             d == Head(handler.todo)
             E == handler.edges
             D == {x \in Task : MayDependOn(E, t, x)}
  <2>1. /\ handler.at = "link" /\ t \in Task
        /\ deps' = deps \cup {<<t, d>>} /\ MayDependOn(E, t, d)
        /\ handler'.task = t /\ handler'.edges = E
    BY <1>0, <1>3 DEF Link, Rejected, Write, Handler
  <2>2. d \in Task
    <3>1. handler.todo \in Seq(Task) /\ handler.todo # <<>>
      BY <1>0, <2>1 DEF BaseInv, HandlerInv, Handler
    <3>2. QED
      BY <3>1, HeadTailProperties
  <2>3. \A e \in deps' \ E : e[1] = t /\ MayDependOn(E, t, e[2])
    BY <2>1 DEF LinkInv
  <2>4. Acyclic(E) /\ E \in Graph
    BY <1>0, <2>1 DEF LinkInv
  <2>5. Acyclic(E \cup ({t} \X D))
    BY <2>1, <2>4, CheckedEdgesKeepAcyclic
  <2>6. deps' \in Graph /\ deps' \subseteq E \cup ({t} \X D)
    <3>1. deps' \in Graph
      BY <1>0, <2>1, <2>2 DEF Graph
    <3>2. ASSUME NEW e \in deps', e \notin E PROVE e \in {t} \X D
      <4>1. e \in Task \X Task /\ e = <<e[1], e[2]>>
        BY <3>1 DEF Graph
      <4>2. QED
        BY <2>3, <3>2, <4>1
    <3>3. QED
      BY <3>1, <3>2
  <2>7. E \cup ({t} \X D) \in Graph
    BY <2>1, <2>4 DEF Graph
  <2>8. Acyclic(deps')
    BY <2>5, <2>6, <2>7, AcyclicSubset
  <2>9. QED
    BY <2>1, <2>3, <2>4, <2>8 DEF LinkInv
<1>4. CASE ~Unlink /\ ~ReadEdges /\ ~Link
  <2>1. deps' = deps /\ (handler' = handler \/ handler'.at # "link")
    BY <1>4, OtherStepsKeepDeps
  <2>2. QED
    BY <2>1 DEF LinkInv
<1>5. QED
  BY <1>1, <1>2, <1>3, <1>4

-----------------------------------------------------------------------------
(***************************************************************************)
(* The plan and the tasks.                                                 *)
(***************************************************************************)
\* The steps of the tools that commit nothing.
QuietTools ==
  \/ \E t \in Task : CreateTask(t) \/ UpdateTask(t) \/ CompleteTask(t) \/ DeleteTask(t)
  \/ ChangeInputs \/ Throw \/ CheckTargets \/ ReadEdges \/ RequestReplan

LEMMA QuietToolsKeepPlan ==
  ASSUME QuietTools
  PROVE  /\ UNCHANGED <<db, plan, planCurrent>>
         /\ pc' \in {"handler", "idle"} \/ pc' = pc
<1>1. ASSUME NEW t, NEW first, NEW list, NEW hasFields, Begin(t, first, list, hasFields)
      PROVE  UNCHANGED <<db, plan, planCurrent>> /\ pc' = "handler"
  BY <1>1 DEF Begin, RC!BeginHandler, RC!history
<1>2. ASSUME NEW t \in Task, CreateTask(t) \/ UpdateTask(t) \/ CompleteTask(t) \/ DeleteTask(t)
      PROVE  \E first, list, hasFields : Begin(t, first, list, hasFields)
  BY <1>2 DEF CreateTask, UpdateTask, CompleteTask, DeleteTask
<1>3. ChangeInputs => \E list, hasFields : Begin(NoTask, "inputs", list, hasFields)
  BY DEF ChangeInputs
<1>4. CASE Throw \/ RequestReplan
  BY <1>4 DEF Throw, RequestReplan, RC!HandlerEndsWithoutRequest, RC!RequestReplan, RC!history
<1>5. CASE CheckTargets \/ ReadEdges
  BY <1>5 DEF CheckTargets, ReadEdges, coordinator
<1>6. QED
  BY <1>1, <1>2, <1>3, <1>4, <1>5 DEF QuietTools

LEMMA OtherToolsCommit == ASSUME Tools, ~QuietTools PROVE RC!Commit
BY DEF Tools, QuietTools, InsertTask, Unlink, Link, UpdateFields, RecordActualDuration,
       SetCompleted, SetCancelled, SetStatus, WriteInputs, Write

LEMMA CoordinatorKeepsPlan ==
  ASSUME CoordinatorOnly \/ FinishReplan \/ StatusWriteThrows \/ Crash
  PROVE  /\ UNCHANGED <<db, planCurrent>>
         /\ \/ pc' \notin {"replace", "statuses"}
            \/ UNCHANGED <<pc, plan>>
<1>1. CASE CoordinatorOnly
  <2>1. ASSUME NEW c \in Calls, RC!AwaitReplan(c) \/ RC!Answer(c)
        PROVE  planCurrent' = planCurrent /\ (pc' = pc \/ pc' = "execute")
    BY <2>1 DEF RC!AwaitReplan, RC!Answer, RC!history, RC!stack
  <2>2. ASSUME RC!TimerFires \/ RC!ExecuteReplan \/ RC!MarkInProgress \/ RC!ExpandHorizon
        PROVE  planCurrent' = planCurrent /\ pc' \notin {"replace", "statuses"}
    BY <2>2 DEF RC!TimerFires, RC!ExecuteReplan, RC!MarkInProgress, RC!ExpandHorizon,
                RC!Advance, RC!history
  <2>3. QED
    BY <1>1, <2>1, <2>2 DEF CoordinatorOnly, local
<1>2. CASE FinishReplan
  BY <1>2 DEF FinishReplan, RC!FinishReplan
<1>3. CASE Crash
  BY <1>3 DEF Crash, RC!Crash, RC!Restarted
<1>4. CASE StatusWriteThrows
  BY <1>4 DEF StatusWriteThrows, RC!StatusWriteThrows, RC!Restarted
<1>5. QED
  BY <1>1, <1>2, <1>3, <1>4

LEMMA SyncStep == BaseInv /\ SyncInv /\ [CalendarNext]_calendarVars => SyncInv'
<1> SUFFICES ASSUME BaseInv, SyncInv, [CalendarNext]_calendarVars PROVE SyncInv'
  OBVIOUS
<1> USE DEF SyncInv
<1>0. CalendarTypeOK
  BY DEF BaseInv
<1>1. ASSUME UNCHANGED <<db, planCurrent>>,
             pc' \notin {"replace", "statuses"} \/ UNCHANGED <<pc, plan>>
      PROVE  SyncInv'
  <2>1. /\ Active' = Active /\ Ready' = Ready /\ Waiting' = Waiting
        /\ UNCHANGED <<status, blocks, deps>>
    BY <1>1 DEF db, Active, Ready, Waiting
  <2>2. PlanInv'
    BY <1>1, <2>1 DEF PlanInv
  <2>3. CurrentMeansInSync'
    BY <1>1, <2>1 DEF CurrentMeansInSync, InSync, Ready, Waiting
  <2>4. QED
    BY <2>2, <2>3
<1>2. CASE Tools
  <2>1. CASE QuietTools
    BY <1>1, <2>1, QuietToolsKeepPlan
  <2>2. CASE ~QuietTools
    <3>1. RC!Commit
      BY <1>2, <2>2, OtherToolsCommit
    <3>2. pc' = "handler" /\ ~planCurrent'
      BY <3>1 DEF RC!Commit, RC!stack
    <3>3. QED
      BY <3>2 DEF PlanInv, CurrentMeansInSync
  <2>3. QED
    BY <2>1, <2>2
<1>3. CASE CoordinatorOnly \/ FinishReplan \/ StatusWriteThrows \/ Crash
  BY <1>1, <1>3, CoordinatorKeepsPlan
<1>4. CASE GenerateSchedule
  <2>1. pc' = "replace" /\ UNCHANGED <<db, planCurrent>>
    BY <1>4 DEF GenerateSchedule, RC!GenerateSchedule, RC!Advance, RC!history
  <2>2. /\ Active' = Active /\ Ready' = Ready /\ Waiting' = Waiting
        /\ UNCHANGED <<status, blocks, deps>>
    BY <2>1 DEF db, Active, Ready, Waiting
  <2>3. PICK placed \in SUBSET Ready, short \in SUBSET Ready :
          /\ placed \cup short = Ready
          /\ plan' = [placed |-> placed, toSchedule |-> placed \ short,
                      short |-> short, blocked |-> Waiting]
    BY <1>4 DEF GenerateSchedule, Ready, Waiting
  <2>4. PlanInv'
    BY <2>1, <2>2, <2>3 DEF PlanInv
  <2>5. QED
    BY <2>1, <2>2, <2>4 DEF CurrentMeansInSync, InSync, Ready, Waiting
<1>5. CASE ReplaceSchedule
  <2>1. /\ pc = "replace" /\ pc' = "statuses" /\ ~planCurrent'
        /\ blocks' = plan.placed /\ UNCHANGED <<status, deps, plan>>
    BY <1>5 DEF ReplaceSchedule, RC!ReplaceSchedule, local
  <2>2. Active' = Active /\ Ready' = Ready /\ Waiting' = Waiting
    BY <2>1 DEF Active, Ready, Waiting
  <2>3. Active = Ready \cup Waiting
    BY DEF Ready, Waiting, Schedulable, BlockedTasks
  <2>4. PlanInv'
    BY <2>1, <2>2, <2>3 DEF PlanInv
  <2>5. QED
    BY <2>1, <2>4 DEF CurrentMeansInSync
<1>6. ASSUME NEW t \in Task, MarkScheduled(t) PROVE SyncInv'
  <2>1. /\ pc = "statuses" /\ pc' = "statuses" /\ planCurrent' = planCurrent
        /\ t \in plan.toSchedule
        /\ plan' = [plan EXCEPT !.toSchedule = @ \ {t}]
        /\ UNCHANGED <<blocks, deps>>
    BY <1>6 DEF MarkScheduled, coordinator
  <2>2. /\ plan'.toSchedule = plan.toSchedule \ {t}
        /\ plan'.short = plan.short /\ plan'.blocked = plan.blocked
    BY <1>0, <2>1 DEF CalendarTypeOK, Plan
  <2>3. Active' = Active /\ Ready' = Ready /\ Waiting' = Waiting
    BY <1>0, <1>6, <2>1, MarksKeepActive DEF Ready, Waiting
  <2>4. \A u \in Task \ {t} : status'[u] = status[u]
    BY <1>0, <1>6 DEF MarkScheduled, CalendarTypeOK
  <2>5. t \in Active => status'[t] = "scheduled"
    <3>1. CASE status[t] \in {"pending", "at_risk"}
      BY <1>0, <1>6, <3>1 DEF MarkScheduled, CalendarTypeOK
    <3>2. CASE status[t] \notin {"pending", "at_risk"}
      BY <1>6, <3>2 DEF MarkScheduled, Active
    <3>3. QED
      BY <3>1, <3>2
  <2>6. \A u \in Active : \/ u \in (plan.toSchedule \ {t}) \cup plan.short \cup plan.blocked
                          \/ status'[u] = "at_risk"
                          \/ status'[u] = "scheduled" /\ u \in blocks
    BY <2>1, <2>4, <2>5 DEF PlanInv, Active
  <2>7. \A u \in Waiting : u \in plan.blocked \/ status'[u] = "at_risk"
    <3>1. t \notin Waiting
      BY <2>1 DEF PlanInv, Ready, Waiting, Schedulable
    <3>2. QED
      BY <2>1, <2>4, <3>1 DEF PlanInv, Waiting, BlockedTasks, Active
  <2>8. PlanInv'
    BY <2>1, <2>2, <2>3, <2>6, <2>7 DEF PlanInv
  <2>9. QED
    BY <2>1, <2>8 DEF PlanInv, CurrentMeansInSync
<1>7. ASSUME NEW t \in Task, MarkAtRisk(t) PROVE SyncInv'
  <2>1. CASE RC!PipelineThrows /\ UNCHANGED <<status, plan>>
    <3>1. pc' = "finish" /\ UNCHANGED <<db, planCurrent>>
      BY <1>7, <2>1 DEF MarkAtRisk, RC!PipelineThrows, db
    <3>2. QED
      BY <1>1, <3>1
  <2>2. CASE /\ status' = [status EXCEPT ![t] = "at_risk"]
             /\ plan' = [plan EXCEPT !.short = @ \ {t}, !.blocked = @ \ {t}]
             /\ UNCHANGED coordinator
    <3>1. /\ pc = "statuses" /\ pc' = "statuses" /\ planCurrent' = planCurrent
          /\ UNCHANGED <<blocks, deps>>
      BY <1>7, <2>2 DEF MarkAtRisk, coordinator
    <3>2. /\ plan'.toSchedule = plan.toSchedule
          /\ plan'.short = plan.short \ {t} /\ plan'.blocked = plan.blocked \ {t}
      BY <1>0, <2>2 DEF CalendarTypeOK, Plan
    <3>3. Active' = Active /\ Ready' = Ready /\ Waiting' = Waiting
      BY <1>0, <1>7, <3>1, MarksKeepActive DEF Ready, Waiting
    <3>4. status'[t] = "at_risk" /\ \A u \in Task \ {t} : status'[u] = status[u]
      BY <1>0, <2>2 DEF CalendarTypeOK
    <3>5. PlanInv'
      BY <3>1, <3>2, <3>3, <3>4 DEF PlanInv, Active, Waiting, BlockedTasks
    <3>6. QED
      BY <3>1, <3>5 DEF PlanInv, CurrentMeansInSync
  <2>3. QED
    BY <1>7, <2>1, <2>2 DEF MarkAtRisk
<1>8. CASE StatusesDone
  <2>1. /\ pc = "statuses" /\ pc' = "finish" /\ UNCHANGED db
        /\ plan.toSchedule = {} /\ plan.short = {} /\ plan.blocked = {}
    BY <1>8 DEF StatusesDone, RC!UpdateTaskStatuses
  <2>2. InSync
    BY <2>1 DEF PlanInv, InSync, Ready, Waiting
  <2>3. InSync'
    BY <2>1, <2>2 DEF InSync, Active, db
  <2>4. QED
    BY <2>1, <2>3 DEF PlanInv, CurrentMeansInSync
<1>9. CASE UNCHANGED calendarVars
  <2>1. UNCHANGED <<db, planCurrent, pc, plan>>
    BY <1>9 DEF calendarVars, local, coordinator
  <2>2. QED
    BY <1>1, <2>1
<1>10. QED
  BY <1>2, <1>3, <1>4, <1>5, <1>6, <1>7, <1>8, <1>9 DEF CalendarNext, Pipeline

-----------------------------------------------------------------------------
(***************************************************************************)
(* The inductive invariant.                                                *)
(***************************************************************************)
LEMMA CalendarInvariance == CalendarSpec => []CalendarIInv
<1>1. CalendarInit => CalendarIInv
  <2> SUFFICES ASSUME CalendarInit PROVE CalendarIInv
    OBVIOUS
  <2>1. BaseInv
    BY BaseInit
  <2>2. DepsInv
    BY DEF CalendarInit, NoHandler, DepsInv, LinkInv, DepsAcyclic, Acyclic
  <2>3. Active = {} /\ blocks = {} /\ pc = "idle"
    BY DEF CalendarInit, Active, RC!Init
  <2>4. SyncInv
    BY <2>3 DEF SyncInv, PlanInv, CurrentMeansInSync, InSync, BlockedTasks
  <2>5. QED
    BY <2>1, <2>2, <2>4 DEF CalendarIInv
<1>2. CalendarIInv /\ [CalendarNext]_calendarVars => CalendarIInv'
  <2> SUFFICES ASSUME CalendarIInv, [CalendarNext]_calendarVars PROVE CalendarIInv'
    OBVIOUS
  <2>1. BaseInv'
    BY ToolsBase, PipelineBase DEF CalendarIInv, CalendarNext
  <2>2. QED
    BY <2>1, DepsStep, SyncStep DEF CalendarIInv
<1>3. QED
  BY <1>1, <1>2, PTL DEF CalendarSpec

\* Every table, handler and plan keeps its type, the foreign keys of the
\* dependencies included.
THEOREM CalendarTypeCorrect == CalendarSpec => []CalendarTypeOK
<1>1. CalendarIInv => CalendarTypeOK
  BY DEF CalendarIInv, BaseInv
<1>2. QED
  BY <1>1, CalendarInvariance, PTL

\* create_task and update_task never leave a cycle in the dependency table, at
\* whichever statement they fail or the process dies.
THEOREM NeverACycle == CalendarSpec => []DepsAcyclic
<1>1. CalendarIInv => DepsAcyclic
  BY DEF CalendarIInv, DepsInv
<1>2. QED
  BY <1>1, CalendarInvariance, PTL

\* complete_task never leaves a completed task without its actual duration.
THEOREM CompletedIsRecorded == CalendarSpec => []CompletedHasActual
<1>1. CalendarIInv => CompletedHasActual
  BY DEF CalendarIInv, BaseInv
<1>2. QED
  BY <1>1, CalendarInvariance, PTL

\* After a replan that went through, and until the next commit, the tasks
\* agree with the stored time blocks.
THEOREM PlanAndTasksAgree == CalendarSpec => []CurrentMeansInSync
<1>1. CalendarIInv => CurrentMeansInSync
  BY DEF CalendarIInv, SyncInv
<1>2. QED
  BY <1>1, CalendarInvariance, PTL

\* A replan stores time only for active tasks that nothing active blocks.
THEOREM OnlyReadyTasksGetTime == CalendarSpec => TimeOnlyForReady
<1>1. ASSUME CalendarIInv, CalendarNext, blocks' # blocks
      PROVE  blocks' \subseteq Schedulable(Active, deps)
  <2>1. ReplaceSchedule
    <3>1. CASE Tools
      <4>1. CASE QuietTools
        BY <1>1, <4>1, QuietToolsKeepPlan DEF db
      <4>2. CASE ~QuietTools
        BY <1>1, <3>1, <4>2 DEF Tools, QuietTools, InsertTask, Unlink, Link, UpdateFields,
           RecordActualDuration, SetCompleted, SetCancelled, SetStatus, WriteInputs, db
      <4>3. QED
        BY <4>1, <4>2
    <3>2. CASE CoordinatorOnly \/ Crash
      BY <1>1, <3>2 DEF CoordinatorOnly, Crash, db
    <3>3. CASE Pipeline
      BY <1>1, <3>3 DEF Pipeline, GenerateSchedule, StatusesDone, FinishReplan,
                        StatusWriteThrows, MarkScheduled, MarkAtRisk, db
    <3>4. QED
      BY <1>1, <3>1, <3>2, <3>3 DEF CalendarNext
  <2>2. blocks' = plan.placed /\ pc = "replace"
    BY <2>1 DEF ReplaceSchedule, RC!ReplaceSchedule
  <2>3. QED
    BY <1>1, <2>2 DEF CalendarIInv, SyncInv, PlanInv, Ready
<1>2. CalendarIInv /\ [CalendarNext]_calendarVars
        => [blocks' # blocks => blocks' \subseteq Schedulable(Active, deps)]_calendarVars
  BY <1>1
<1>3. QED
  BY <1>2, CalendarInvariance, PTL DEF CalendarSpec, TimeOnlyForReady

\* No tool and no replan takes a task out of "completed" or "cancelled".
THEOREM FinishedStaysFinished == CalendarSpec => TerminalIsFinal
<1> DEFINE Kept == \A t \in Task : status[t] \in Terminal => status'[t] = status[t]
<1>1. ASSUME CalendarIInv, [CalendarNext]_calendarVars PROVE Kept
  <2>0. CalendarTypeOK /\ HandlerInv
    BY <1>1 DEF CalendarIInv, BaseInv
  <2>1. CASE Tools
    <3>1. CASE QuietTools
      BY <3>1, QuietToolsKeepPlan DEF db
    <3>2. CASE InsertTask
      BY <2>0, <3>2 DEF InsertTask, HandlerInv, CalendarTypeOK, Terminal
    <3>3. ASSUME NEW at \in {"complete", "cancel"}, NEW new \in Terminal,
                 at = "complete" => new = "completed", at = "cancel" => new = "cancelled",
                 SetStatus(at, new)
          PROVE  Kept
      <4>1. /\ handler.at = at /\ ~Rejected
            /\ status' = [status EXCEPT ![handler.task] = new]
        BY <3>3 DEF SetStatus
      <4>2. new \in ValidTransitions(status[handler.task])
        BY <3>3, <4>1 DEF Rejected
      <4>3. status[handler.task] \in Terminal => status[handler.task] = new
        BY <4>2 DEF ValidTransitions, Terminal
      <4>4. QED
        BY <2>0, <4>1, <4>3 DEF CalendarTypeOK
    <3>4. CASE Unlink \/ Link \/ UpdateFields \/ RecordActualDuration \/ WriteInputs
      BY <3>4 DEF Unlink, Link, UpdateFields, RecordActualDuration, WriteInputs, db
    <3>5. QED
      BY <2>1, <3>1, <3>2, <3>3, <3>4 DEF Tools, QuietTools, SetCompleted, SetCancelled, Terminal
  <2>2. CASE CoordinatorOnly \/ Crash \/ UNCHANGED calendarVars
    BY <2>2 DEF CoordinatorOnly, Crash, calendarVars, db
  <2>3. CASE \/ GenerateSchedule \/ ReplaceSchedule \/ StatusesDone
             \/ FinishReplan \/ StatusWriteThrows
    BY <2>3 DEF GenerateSchedule, ReplaceSchedule, StatusesDone, FinishReplan,
                StatusWriteThrows, db
  <2>4. ASSUME NEW t \in Task, MarkScheduled(t) \/ MarkAtRisk(t) PROVE Kept
    BY <2>0, <2>4, MarksKeepActive
  <2>5. QED
    BY <1>1, <2>1, <2>2, <2>3, <2>4 DEF CalendarNext, Pipeline
<1>2. CalendarIInv /\ [CalendarNext]_calendarVars => [Kept]_status
  BY <1>1
<1>3. QED
  BY <1>2, CalendarInvariance, PTL DEF CalendarSpec, TerminalIsFinal

\* The tools and the pipeline drive the coordinator as its own module says:
\* what is proved of ReplanCoordinator holds of it here.
THEOREM CoordinatorImplemented == CalendarSpec => RC!Spec
<1>1. CalendarInit => RC!Init
  BY DEF CalendarInit
<1>2. [CalendarNext]_calendarVars => [RC!Next]_(RC!vars)
  <2> SUFFICES ASSUME [CalendarNext]_calendarVars PROVE RC!Next \/ UNCHANGED RC!vars
    OBVIOUS
  <2>0. UNCHANGED coordinator => UNCHANGED RC!vars
    BY DEF coordinator, RC!vars, RC!memory, RC!stack, RC!history
  <2>1. CASE Tools
    <3>1. CASE QuietTools
      <4>1. (\E t, first, list, hasFields : Begin(t, first, list, hasFields)) => RC!BeginHandler
        BY DEF Begin
      <4>2. CASE \/ \E t \in Task : CreateTask(t) \/ UpdateTask(t) \/ CompleteTask(t) \/ DeleteTask(t)
                 \/ ChangeInputs
        <5>1. \E t, first, list, hasFields : Begin(t, first, list, hasFields)
          BY <4>2 DEF CreateTask, UpdateTask, CompleteTask, DeleteTask, ChangeInputs
        <5>2. QED
          BY <4>1, <5>1 DEF RC!Next, RC!ReliableNext
      <4>3. CASE Throw \/ RequestReplan
        BY <4>3 DEF Throw, RequestReplan, RC!Next, RC!ReliableNext
      <4>4. CASE CheckTargets \/ ReadEdges
        BY <2>0, <4>4 DEF CheckTargets, ReadEdges
      <4>5. QED
        BY <3>1, <4>2, <4>3, <4>4 DEF QuietTools
    <3>2. CASE ~QuietTools
      BY <2>1, <3>2, OtherToolsCommit DEF RC!Next, RC!ReliableNext
    <3>3. QED
      BY <3>1, <3>2
  <2>2. CASE CoordinatorOnly
    BY <2>2 DEF CoordinatorOnly, RC!Next, RC!ReliableNext, RC!Replan
  <2>3. CASE \/ GenerateSchedule \/ ReplaceSchedule \/ StatusesDone
             \/ FinishReplan \/ StatusWriteThrows
    BY <2>3 DEF GenerateSchedule, ReplaceSchedule, StatusesDone, FinishReplan,
                StatusWriteThrows, RC!Next, RC!ReliableNext, RC!Replan
  <2>4. ASSUME NEW t \in Task, MarkScheduled(t) \/ MarkAtRisk(t)
        PROVE  RC!PipelineThrows \/ UNCHANGED coordinator
    BY <2>4 DEF MarkScheduled, MarkAtRisk
  <2>5. CASE Crash
    BY <2>5 DEF Crash, RC!Next, RC!ReliableNext
  <2>6. CASE UNCHANGED calendarVars
    BY <2>0, <2>6 DEF calendarVars
  <2>7. QED
    BY <2>0, <2>1, <2>2, <2>3, <2>4, <2>5, <2>6
       DEF CalendarNext, Pipeline, RC!Next, RC!ReliableNext, RC!Replan
<1>3. QED
  BY <1>1, <1>2, PTL DEF CalendarSpec, RC!Spec

-----------------------------------------------------------------------------
\* The coordinator's theorems, about the coordinator of a calendar.
RCP == INSTANCE ReplanCoordinatorProofs

\* Both instances of the coordinator are the same specification.
LEMMA SameCoordinator == RC!Spec => RCP!Spec
<1> USE DEF RC!vars, RCP!vars, RC!memory, RCP!memory, RC!stack, RCP!stack,
            RC!history, RCP!history
<1>1. RC!Init => RCP!Init
  BY DEF RC!Init, RCP!Init
<1>2. [RC!Next]_(RC!vars) => [RCP!Next]_(RCP!vars)
  <2>1. RC!Replan <=> RCP!Replan
    BY DEF RC!Replan, RCP!Replan, RC!ExecuteReplan, RCP!ExecuteReplan,
      RC!ReturnTo, RCP!ReturnTo, RC!MarkInProgress, RCP!MarkInProgress,
      RC!CreateInstances, RCP!CreateInstances,
      RC!ExpandHorizon, RCP!ExpandHorizon, RC!GenerateSchedule, RCP!GenerateSchedule,
      RC!Advance, RCP!Advance, RC!ReplaceSchedule, RCP!ReplaceSchedule,
      RC!UpdateTaskStatuses, RCP!UpdateTaskStatuses, RC!PipelineThrows, RCP!PipelineThrows,
      RC!TryPhases, RCP!TryPhases, RC!FinishReplan, RCP!FinishReplan
  <2>2. RC!Next <=> RCP!Next
    BY <2>1 DEF RC!Next, RCP!Next, RC!ReliableNext, RCP!ReliableNext,
      RC!BeginHandler, RCP!BeginHandler, RC!Commit, RCP!Commit,
      RC!RequestReplan, RCP!RequestReplan,
      RC!HandlerEndsWithoutRequest, RCP!HandlerEndsWithoutRequest,
      RC!AwaitReplan, RCP!AwaitReplan, RC!Answer, RCP!Answer, RC!TimerFires, RCP!TimerFires,
      RC!StatusWriteThrows, RCP!StatusWriteThrows, RC!Crash, RCP!Crash,
      RC!Restarted, RCP!Restarted
  <2>3. QED
    BY <2>2
<1>3. QED
  BY <1>1, <1>2, PTL DEF RC!Spec, RCP!Spec

\* No replan starts without a request or while another seems to run, whatever
\* tools and pipeline did, whichever status write failed before.
THEOREM CalendarReplansStartClean == CalendarSpec => []ReplansStartClean
<1>1. RCP!Spec => []RCP!EveryReplanStartsClean
  BY RCP!ReplansStartClean, TasksAssumption
<1>2. RCP!EveryReplanStartsClean => ReplansStartClean
  BY DEF ReplansStartClean, RC!EveryReplanStartsClean, RCP!EveryReplanStartsClean
<1>3. QED
  BY <1>1, <1>2, CoordinatorImplemented, SameCoordinator, PTL
=============================================================================
