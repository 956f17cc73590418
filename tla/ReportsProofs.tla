--------------------------- MODULE ReportsProofs ---------------------------
(***************************************************************************)
(* The tables behind the reports keep their types, the report of a past    *)
(* day is final, and the advice of a report goes round in no circle, for   *)
(* any tasks, slots, deadlines and horizon.                                *)
(***************************************************************************)
EXTENDS Reports, FiniteSetLemmas

LEMMA ReportsTypeInit == ReportsInit => ReportsTypeOK
BY ReportsAssumption DEF ReportsInit, ReportsTypeOK, Existing

\* A task that is not absent stays so.
LEMMA ExistingGrows ==
  ASSUME ReportsTypeOK, [ReportsNext]_reportVars
  PROVE  Existing \subseteq Existing'
<1> USE DEF ReportsTypeOK, Existing
<1>1. ASSUME NEW t \in Task, CreateTask(t) PROVE Existing \subseteq Existing'
  BY <1>1 DEF CreateTask
<1>2. ASSUME NEW t \in Task, CompleteTask(t) \/ DeleteTask(t) PROVE Existing \subseteq Existing'
  BY <1>2 DEF CompleteTask, DeleteTask, Close
<1>3. ASSUME NEW t \in Task, UpdateDeadline(t) \/ CompleteRefused(t)
      PROVE  Existing \subseteq Existing'
  BY <1>3 DEF UpdateDeadline, CompleteRefused
<1>4. CASE Tick \/ UNCHANGED reportVars
  BY <1>4 DEF Tick, reportVars, tasks
<1>5. CASE Replan
  <2>1. PICK short : Mark(short)
    BY <1>5 DEF Replan
  <2>2. QED
    BY <2>1 DEF Mark, Schedulable, Active
<1>6. QED
  BY <1>1, <1>2, <1>3, <1>4, <1>5 DEF ReportsNext

LEMMA ReportsTypeStep == ReportsTypeOK /\ [ReportsNext]_reportVars => ReportsTypeOK'
<1> SUFFICES ASSUME ReportsTypeOK, [ReportsNext]_reportVars PROVE ReportsTypeOK'
  OBVIOUS
<1>0. Existing \subseteq Existing'
  BY ExistingGrows
<1> USE ReportsAssumption DEF ReportsTypeOK
<1>1. ASSUME NEW t \in Task, CreateTask(t) PROVE ReportsTypeOK'
  <2>1. PICK d \in DeadlinesOf[t], E \in SUBSET {e \in Links : e[1] = t /\ e[2] \in Existing} :
          deadline' = [deadline EXCEPT ![t] = d] /\ deps' = deps \cup E
    BY <1>1 DEF CreateTask
  <2>2. /\ status' = [status EXCEPT ![t] = "pending"] /\ planCurrent' = FALSE
        /\ UNCHANGED <<now, closedAt, booked>>
    BY <1>1 DEF CreateTask
  <2>3. t \in Existing'
    BY <2>2 DEF Existing
  <2>4. deps' \subseteq Existing' \X Existing'
    <3>1. \A e \in E : e \in Task \X Task /\ e[1] \in Existing' /\ e[2] \in Existing'
      BY <1>0, <2>3
    <3>2. QED
      BY <1>0, <2>1, <3>1
  <2>5. deadline' \in [Task -> Nat \cup {None}]
    BY <2>1
  <2>6. QED
    BY <1>0, <2>2, <2>4, <2>5
<1>2. ASSUME NEW t \in Task, UpdateDeadline(t) PROVE ReportsTypeOK'
  BY <1>0, <1>2 DEF UpdateDeadline
<1>3. ASSUME NEW t \in Task, CompleteTask(t) \/ DeleteTask(t) PROVE ReportsTypeOK'
  <2>1. PICK new \in {"completed", "cancelled"} : Close(t, new)
    BY <1>3 DEF CompleteTask, DeleteTask
  <2>2. /\ status' = [status EXCEPT ![t] = new] /\ closedAt' = [closedAt EXCEPT ![t] = now]
        /\ planCurrent' = FALSE /\ UNCHANGED <<now, deadline, deps, booked>>
    BY <2>1 DEF Close
  <2>3. deps' \subseteq Existing' \X Existing' /\ booked' \in [Slots -> Existing' \cup {NoTask}]
    BY <1>0, <2>2
  <2>4. QED
    BY <2>2, <2>3
<1>4. ASSUME NEW t \in Task, CompleteRefused(t) PROVE ReportsTypeOK'
  BY <1>0, <1>4 DEF CompleteRefused
<1>5. CASE Tick
  BY <1>0, <1>5 DEF Tick, tasks
<1>6. CASE Replan
  <2>1. PICK placed \in [Slots -> Schedulable(Active, deps) \cup {NoTask}],
             short \in SUBSET Active : Place(placed) /\ Mark(short)
    BY <1>6 DEF Replan, Schedulable, BlockedTasks
  <2>2. UNCHANGED <<now, deadline, closedAt, deps>>
    BY <1>6 DEF Replan
  <2>3. /\ status' \in [Task -> {"absent", "pending", "scheduled", "at_risk",
                                 "completed", "cancelled"}]
        /\ planCurrent' \in BOOLEAN
    BY <2>1 DEF Mark
  <2>4. booked' \in [Slots -> Existing' \cup {NoTask}]
    BY <1>0, <2>1 DEF Place, Schedulable, Active, Existing
  <2>5. QED
    BY <1>0, <2>2, <2>3, <2>4
<1>7. CASE UNCHANGED reportVars
  BY <1>0, <1>7 DEF reportVars, tasks
<1>8. QED
  BY <1>1, <1>2, <1>3, <1>4, <1>5, <1>6, <1>7 DEF ReportsNext

\* The tables the reports are made of keep their types and their foreign keys.
THEOREM ReportsTypeCorrect == ReportsSpec => []ReportsTypeOK
BY ReportsTypeInit, ReportsTypeStep, PTL DEF ReportsSpec

-----------------------------------------------------------------------------
\* What CompletedOn reads of a task changes only when the task is completed,
\* and then to the present time.
LEMMA ClosedOnlyNow ==
  ASSUME ReportsTypeOK, [ReportsNext]_reportVars, NEW u \in Task
  PROVE  \/ status[u] # "completed" /\ status'[u] # "completed"
         \/ /\ status[u] = "completed" /\ status'[u] = "completed"
            /\ closedAt'[u] = closedAt[u] /\ deadline'[u] = deadline[u]
         \/ status[u] # "completed" /\ closedAt'[u] = now
<1> DEFINE Kept == /\ status'[u] = status[u]
                   /\ closedAt'[u] = closedAt[u] /\ deadline'[u] = deadline[u]
<1> USE DEF ReportsTypeOK
<1>1. ASSUME NEW t \in Task, CreateTask(t)
      PROVE  IF u = t THEN status[u] # "completed" /\ status'[u] # "completed" ELSE Kept
  BY <1>1 DEF CreateTask
<1>2. ASSUME NEW t \in Task, UpdateDeadline(t)
      PROVE  IF u = t THEN status[u] # "completed" /\ status'[u] = status[u] ELSE Kept
  BY <1>2 DEF UpdateDeadline, Active
<1>3. ASSUME NEW t \in Task, CompleteTask(t) \/ DeleteTask(t)
      PROVE  IF u = t THEN status[u] # "completed" /\ closedAt'[u] = now ELSE Kept
  BY <1>3 DEF CompleteTask, DeleteTask, Close, Active
<1>4. ASSUME NEW t \in Task, CompleteRefused(t)
      PROVE  IF u = t THEN status[u] # "completed" /\ status'[u] = status[u] ELSE Kept
  BY <1>4 DEF CompleteRefused
<1>5. CASE Tick \/ UNCHANGED reportVars
  BY <1>5 DEF Tick, reportVars, tasks
<1>6. CASE Replan
  <2>1. PICK short \in SUBSET Active : Mark(short)
    BY <1>6 DEF Replan, Schedulable, BlockedTasks
  <2>2. status'[u] = status[u] \/ (u \in Active /\ status'[u] \in {"scheduled", "at_risk"})
    BY <2>1 DEF Mark, Schedulable, BlockedTasks
  <2>3. closedAt' = closedAt /\ deadline' = deadline
    BY <1>6 DEF Replan
  <2>4. QED
    BY <2>2, <2>3 DEF Active
<1>7. QED
  BY <1>1, <1>2, <1>3, <1>4, <1>5, <1>6 DEF ReportsNext

\* No call and no replan changes the report of the tasks completed on a day that
\* is over.
THEOREM ReportsFinal == ReportsSpec => PastReportsAreFinal
<1>1. ASSUME ReportsTypeOK, [ReportsNext]_reportVars, NEW d \in 0 .. Day(now) - 1
      PROVE  CompletedOn(d)' = CompletedOn(d)
  <2>1. Day(now) # d
    BY <1>1, ReportsAssumption DEF ReportsTypeOK, Day
  <2> DEFINE Done == {t \in Task : status[t] = "completed" /\ Day(closedAt[t]) = d}
  <2>2. Done' = Done /\ \A t \in Done : closedAt'[t] = closedAt[t] /\ deadline'[t] = deadline[t]
    BY <1>1, <2>1, ClosedOnlyNow DEF Day
  <2>3. QED
    BY <2>2 DEF CompletedOn
<1>2. ReportsTypeOK /\ [ReportsNext]_reportVars
        => [\A d \in 0 .. Day(now) - 1 : CompletedOn(d)' = CompletedOn(d)]_reportVars
  BY <1>1
<1>3. QED
  BY <1>2, ReportsTypeCorrect, PTL DEF ReportsSpec, PastReportsAreFinal

-----------------------------------------------------------------------------
\* While the plan is current, time is booked for active tasks only.
PlanOfActive ==
  planCurrent => \A s \in Slots : booked[s] # NoTask => booked[s] \in Active

LEMMA PlanOfActiveStep ==
  ASSUME ReportsTypeOK, PlanOfActive, [ReportsNext]_reportVars
  PROVE  PlanOfActive'
<1>1. ASSUME NEW t \in Task, CreateTask(t) \/ UpdateDeadline(t) \/ CompleteTask(t) \/ DeleteTask(t)
      PROVE  PlanOfActive'
  BY <1>1 DEF CreateTask, UpdateDeadline, CompleteTask, DeleteTask, Close, PlanOfActive
<1>2. ASSUME NEW t \in Task, CompleteRefused(t) PROVE PlanOfActive'
  BY <1>2 DEF CompleteRefused, PlanOfActive, Active
<1>3. CASE Tick \/ UNCHANGED reportVars
  BY <1>3 DEF Tick, reportVars, tasks, PlanOfActive, Active
<1>4. CASE Replan
  <2>1. PICK placed \in [Slots -> Schedulable(Active, deps) \cup {NoTask}],
             short \in SUBSET Active : Place(placed) /\ Mark(short)
    BY <1>4 DEF Replan, Schedulable, BlockedTasks
  <2>2. Active \subseteq Active'
    BY <2>1 DEF Mark, Schedulable, BlockedTasks, Active
  <2>3. QED
    BY <2>1, <2>2 DEF Place, PlanOfActive, Schedulable
<1>5. QED
  BY <1>1, <1>2, <1>3, <1>4 DEF ReportsNext

\* A task is only put off for one with an earlier deadline, and has time booked.
LEMMA PutOffLater ==
  ASSUME ReportsTypeOK, NEW e \in PutOff
  PROVE  /\ deadline[e[1]] \in Nat
         /\ deadline[e[2]] = None \/ deadline[e[2]] > deadline[e[1]]
         /\ \E s \in Slots : booked[s] = e[2] /\ booked[s] # NoTask
<1>1. e \in Task \X Task /\ Due(e[1]) /\ e[2] \in LaterDue(e[1])
  BY DEF PutOff, TooLittleTime, Suggested
<1>2. e[2] \in Competing(e[1]) /\ (deadline[e[2]] # None => deadline[e[2]] > deadline[e[1]])
  BY <1>1 DEF LaterDue
<1>3. PICK s \in Slots : booked[s] = e[2] /\ booked[s] # NoTask
  BY <1>2 DEF Competing, BeforeDeadlineOf, Loaded
<1>4. QED
  BY <1>1, <1>2, <1>3 DEF Due, ReportsTypeOK

\* The tasks due after t, or never, are closed under PutOff and t is not among
\* them, so advice that starts with putting something off for t never returns to t.
LEMMA NoCircle ==
  ASSUME ReportsTypeOK, NEW e \in PutOff
  PROVE  ~Reaches(PutOff, e[2], e[1])
<1> DEFINE later == {u \in Task : deadline[u] = None \/ deadline[u] > deadline[e[1]]}
<1>1. e \in Task \X Task /\ deadline[e[1]] \in Nat /\ e[2] \in later
  BY PutOffLater DEF PutOff
<1>2. e[1] \notin later
  BY <1>1, ReportsAssumption
<1>3. Closed(PutOff, later)
  <2>1. ASSUME NEW f \in PutOff, f[1] \in later PROVE f[2] \in later
    <3>1. f[2] \in Task /\ deadline[f[1]] \in Nat
          /\ (deadline[f[2]] = None \/ deadline[f[2]] > deadline[f[1]])
      BY PutOffLater DEF PutOff
    <3>2. deadline[f[1]] > deadline[e[1]]
      BY <2>1, <3>1, ReportsAssumption
    <3>3. deadline[f[2]] \in Nat \cup {None}
      BY <3>1 DEF ReportsTypeOK
    <3>4. QED
      BY <1>1, <3>1, <3>2, <3>3
  <2>2. QED
    BY <2>1 DEF Closed
<1>4. QED
  BY <1>1, <1>2, <1>3 DEF Reaches

\* No report advises to put tasks off in a circle, and with a current plan none
\* of the tasks it names is finished.
THEOREM AdviceIsSound == ReportsSpec => []AdviceCanBeFollowed
<1>1. ReportsInit => PlanOfActive
  BY DEF ReportsInit, PlanOfActive
<1>2. PlanOfActive /\ ReportsTypeOK /\ [ReportsNext]_reportVars => PlanOfActive'
  BY PlanOfActiveStep
<1>3. ReportsTypeOK /\ PlanOfActive => AdviceCanBeFollowed
  BY NoCircle, PutOffLater DEF AdviceCanBeFollowed, PlanOfActive
<1>4. QED
  BY <1>1, <1>2, <1>3, ReportsTypeCorrect, PTL DEF ReportsSpec

-----------------------------------------------------------------------------
(***************************************************************************)
(* The sums of the reports, as sums of the values of a function.           *)
(***************************************************************************)
lengthOf == [s \in Slots |-> Length(s)]
aheadOf == [e \in Task \X Task |-> DurationAhead(e)]

LEMMA LengthFacts == lengthOf \in [Slots -> Nat] /\ \A s \in Slots : Length(s) \in Nat
<1>1. \A s \in Slots : s.from \in Nat /\ s.to \in Nat /\ s.from < s.to
  BY ReportsAssumption
<1>2. QED
  BY <1>1 DEF lengthOf, Length

LEMMA TimeIsTotal ==
  ASSUME NEW S \in SUBSET Slots
  PROVE  TimeOf(S) = Total(lengthOf, S) /\ TimeOf(S) \in Nat /\ IsFiniteSet(S)
<1> DEFINE Iter(g) == g = [s \in SUBSET S |-> IF s = {} THEN 0 ELSE Length(Pick(s)) + g[Rest(s)]]
           h == CHOOSE g : Iter(g)
<1>1. IsFiniteSet(S)
  BY ReportsAssumption, FS_Subset
<1>2. TimeOf(S) = h[S]
  BY DEF TimeOf, MapThenSumSet, MapThenFoldSet, Pick, Rest
<1>3. ASSUME NEW g PROVE Iter(g) <=> Sums(lengthOf, S, g)
  <2>1. ASSUME NEW s \in SUBSET S, s # {} PROVE lengthOf[Pick(s)] = Length(Pick(s))
    BY <2>1, RestFacts DEF lengthOf
  <2>2. [s \in SUBSET S |-> IF s = {} THEN 0 ELSE Length(Pick(s)) + g[Rest(s)]]
          = [s \in SUBSET S |-> IF s = {} THEN 0 ELSE lengthOf[Pick(s)] + g[Rest(s)]]
    BY <2>1
  <2>3. QED
    BY <2>2 DEF Sums
<1>4. Sums(lengthOf, S, h)
  <2>1. Sums(lengthOf, S, SumsOf(lengthOf, S))
    BY <1>1, SumsExist
  <2> HIDE DEF Iter
  <2>2. Iter(h)
    BY <1>3, <2>1
  <2> HIDE DEF h
  <2>3. QED
    BY <1>3, <2>2
<1> HIDE DEF h
<1>5. h[S] = Total(lengthOf, S)
  BY <1>1, <1>4, SumsTotal
<1>6. Total(lengthOf, S) \in Nat
  BY <1>1, LengthFacts, TotalType
<1>7. QED
  BY <1>1, <1>2, <1>5, <1>6

LEMMA AheadIsTotal ==
  ASSUME NEW E \in SUBSET (Task \X Task), IsFiniteSet(E)
  PROVE  MapThenSumSet(DurationAhead, E) = Total(aheadOf, E)
<1> DEFINE Iter(g) ==
             g = [s \in SUBSET E |-> IF s = {} THEN 0 ELSE DurationAhead(Pick(s)) + g[Rest(s)]]
           h == CHOOSE g : Iter(g)
<1>1. MapThenSumSet(DurationAhead, E) = h[E]
  BY DEF MapThenSumSet, MapThenFoldSet, Pick, Rest
<1>2. ASSUME NEW g PROVE Iter(g) <=> Sums(aheadOf, E, g)
  <2>1. ASSUME NEW s \in SUBSET E, s # {} PROVE aheadOf[Pick(s)] = DurationAhead(Pick(s))
    BY <2>1, RestFacts DEF aheadOf
  <2>2. [s \in SUBSET E |-> IF s = {} THEN 0 ELSE DurationAhead(Pick(s)) + g[Rest(s)]]
          = [s \in SUBSET E |-> IF s = {} THEN 0 ELSE aheadOf[Pick(s)] + g[Rest(s)]]
    BY <2>1
  <2>3. QED
    BY <2>2 DEF Sums
<1>3. Sums(aheadOf, E, h)
  <2>1. Sums(aheadOf, E, SumsOf(aheadOf, E))
    BY SumsExist
  <2> HIDE DEF Iter
  <2>2. Iter(h)
    BY <1>2, <2>1
  <2> HIDE DEF h
  <2>3. QED
    BY <1>2, <2>2
<1> HIDE DEF h
<1>4. h[E] = Total(aheadOf, E)
  BY <1>3, SumsTotal
<1>5. QED
  BY <1>1, <1>4

-----------------------------------------------------------------------------
\* With a current plan the tasks at risk are those with too little time booked,
\* none at all if they wait for another: that is what the placement left over.
PlanInv ==
  planCurrent => \A t \in Active : status[t] = "at_risk" <=> Minutes(t, Slots) < Duration[t]

LEMMA PlanInit == ReportsInit => PlanInv
BY DEF ReportsInit, PlanInv, Active

LEMMA ReplanPlan ==
  ASSUME ReportsTypeOK, Replan
  PROVE  PlanInv'
<1> DEFINE ready == Schedulable(Active, deps)
           blocked == BlockedTasks(Active, deps)
<1>1. PICK placed \in [Slots -> ready \cup {NoTask}] :
        /\ \A t \in Active : TimeOf({s \in Slots : placed[s] = t}) <= Duration[t]
        /\ Place(placed)
        /\ Mark({t \in ready : TimeOf({s \in Slots : placed[s] = t}) < Duration[t]})
  BY DEF Replan
<1> DEFINE time(t) == TimeOf({s \in Slots : placed[s] = t})
           short == {t \in ready : time(t) < Duration[t]}
<1>2. SUFFICES ASSUME planCurrent' PROVE PlanInv'
  BY DEF PlanInv
<1>3. status' = [t \in Task |-> IF t \in ready \ short THEN "scheduled"
                               ELSE IF t \in short \cup blocked THEN "at_risk" ELSE status[t]]
  BY <1>1, <1>2 DEF Mark
<1>4. booked' = placed
  BY <1>1 DEF Place
<1>5. \A t \in Task : time(t) \in Nat /\ Duration[t] \in Nat \ {0}
  BY TimeIsTotal, ReportsAssumption
<1>6. \A t \in blocked : t \in Task /\ time(t) = 0
  <2>1. ASSUME NEW t \in blocked PROVE t \in Task /\ time(t) = 0
    <3>1. t \in Task /\ t \notin ready
      BY DEF Schedulable, BlockedTasks, Active
    <3>2. {s \in Slots : placed[s] = t} = {}
      BY <1>1, <3>1, ReportsAssumption
    <3>3. TimeOf({}) = 0
      BY TimeIsTotal, TotalEmpty
    <3>4. QED
      BY <3>1, <3>2, <3>3
  <2>2. QED
    BY <2>1
<1>7. \A t \in Task : Minutes(t, Slots)' = time(t)
  BY <1>4 DEF Minutes
<1>8. Active' \subseteq ready \cup blocked /\ ready \cap blocked = {} /\ ready \subseteq Task
  BY <1>3 DEF Active, Schedulable, BlockedTasks
<1> HIDE DEF time, ready, blocked
<1>9. ASSUME NEW t \in Active' PROVE status'[t] = "at_risk" <=> time(t) < Duration[t]
  <2>1. CASE t \in blocked
    BY <1>3, <1>5, <1>6, <1>8, <2>1
  <2>2. CASE t \in ready
    BY <1>3, <1>8, <2>2
  <2>3. QED
    BY <1>8, <1>9, <2>1, <2>2
<1>10. Active' \subseteq Task
  BY DEF Active
<1>11. QED
  BY <1>7, <1>9, <1>10 DEF PlanInv

LEMMA PlanStep ==
  ASSUME ReportsTypeOK, PlanInv, [ReportsNext]_reportVars
  PROVE  PlanInv'
<1>1. ASSUME NEW t \in Task, CreateTask(t) \/ UpdateDeadline(t) \/ CompleteTask(t) \/ DeleteTask(t)
      PROVE  PlanInv'
  BY <1>1 DEF CreateTask, UpdateDeadline, CompleteTask, DeleteTask, Close, PlanInv
<1>2. CASE (\E t \in Task : CompleteRefused(t)) \/ Tick \/ UNCHANGED reportVars
  <2>1. UNCHANGED <<status, booked, planCurrent>>
    BY <1>2 DEF CompleteRefused, Tick, reportVars, tasks
  <2>2. QED
    BY <2>1 DEF PlanInv, Active, Minutes
<1>3. QED
  BY <1>1, <1>2, ReplanPlan DEF ReportsNext

LEMMA RiskMatches == ASSUME ReportsTypeOK, PlanInv PROVE ReportMatchesRisk
<1> SUFFICES ASSUME planCurrent, NEW t \in Active
             PROVE  /\ status[t] = "at_risk" /\ deadline[t] # None => t \in InConflict
                    /\ TooLittleTime(t) /\ (\A s \in Slots : booked[s] = t => s \in Loaded)
                         => status[t] = "at_risk"
  BY DEF ReportMatchesRisk
<1>1. t \in Task /\ (status[t] = "at_risk" <=> Minutes(t, Slots) < Duration[t])
  BY DEF PlanInv, Active
<1> DEFINE all == {s \in Slots : booked[s] = t}
           some == {s \in Loaded : booked[s] = t}
<1>2. some \in SUBSET all
  BY DEF Loaded
<1>3. Scheduled(t) = TimeOf(some) /\ Minutes(t, Slots) = TimeOf(all)
  BY DEF Scheduled, Minutes
<1>4. all \in SUBSET Slots /\ some \in SUBSET Slots
  BY <1>2
<1>5. CASE status[t] = "at_risk" /\ deadline[t] # None
  <2> HIDE DEF all, some
  <2>1. TimeOf(some) <= TimeOf(all)
    BY <1>2, <1>4, TimeIsTotal, LengthFacts, TotalSubset
  <2>2. TimeOf(some) < Duration[t]
    BY <1>1, <1>3, <1>4, <1>5, <2>1, TimeIsTotal, ReportsAssumption
  <2>3. QED
    BY <1>1, <1>3, <1>5, <2>2 DEF InConflict, TooLittleTime, Due, Active
<1>6. ASSUME TooLittleTime(t), \A s \in Slots : booked[s] = t => s \in Loaded
      PROVE  status[t] = "at_risk"
  <2>1. all = some
    BY <1>2, <1>6
  <2>2. QED
    BY <1>1, <1>3, <1>6, <2>1 DEF TooLittleTime
<1>7. QED
  BY <1>5, <1>6

\* updateTaskStatuses and detectConflicts come to the same verdict on a task,
\* for any tasks, slots, deadlines and horizon, as long as the plan is current.
THEOREM RiskIsReported == ReportsSpec => []ReportMatchesRisk
<1>1. PlanInv /\ ReportsTypeOK /\ [ReportsNext]_reportVars => PlanInv'
  BY PlanStep
<1>2. ReportsTypeOK /\ PlanInv => ReportMatchesRisk
  BY RiskMatches
<1>3. QED
  BY <1>1, <1>2, PlanInit, ReportsTypeCorrect, PTL DEF ReportsSpec

-----------------------------------------------------------------------------
\* What is reached, other than the start, is reached by an edge from what is.
LEMMA LastEdge ==
  ASSUME NEW E \in Graph, NEW t \in Task, NEW u \in Task, u # t, Reaches(E, t, u)
  PROVE  \E e \in E : e[2] = u /\ Reaches(E, t, e[1])
<1> DEFINE S == {x \in Task : Reaches(E, t, x)} \ {u}
<1> SUFFICES ASSUME \A e \in E : e[2] = u => ~Reaches(E, t, e[1]) PROVE FALSE
  OBVIOUS
<1>1. t \in S
  BY DEF Reaches
<1>2. ASSUME NEW e \in E, e[1] \in S PROVE e[2] \in S
  <2>1. e[2] \in Task /\ Reaches(E, t, e[1])
    BY <1>2 DEF Graph
  <2>2. Reaches(E, t, e[2])
    BY <2>1 DEF Reaches, Closed
  <2>3. QED
    BY <2>1, <2>2
<1>3. Closed(E, S)
  BY <1>2 DEF Closed
<1>4. QED
  BY <1>1, <1>3 DEF Reaches

LEMMA ReachesMore ==
  ASSUME NEW E, NEW F, E \subseteq F, NEW t, NEW u, Reaches(E, t, u)
  PROVE  Reaches(F, t, u)
BY DEF Reaches, Closed

LEMMA ImpossibleReported == ASSUME ReportsTypeOK PROVE ImpossibleIsReported
<1> SUFFICES ASSUME NEW t \in Active PROVE
      LET waits == {e \in deps : e[1] \in Active /\ e[2] \in Active}
          chain == {u \in Active : Reaches(waits, t, u)}
      IN  /\ deadline[t] # None /\ chain # {t}
          /\ MapThenSumSet(LAMBDA u : Duration[u], chain) > deadline[t] - now
          => Overdue(t) \/ ChainTooLong(t)
  BY DEF ImpossibleIsReported
<1> DEFINE waits == {e \in deps : e[1] \in Active /\ e[2] \in Active}
           chain == {u \in Active : Reaches(waits, t, u)}
           open == {e \in deps : status[e[2]] # "completed"}
           others == chain \ {t}
<1>1. /\ deps \in SUBSET (Task \X Task) /\ waits \in Graph /\ open \in Graph /\ waits \subseteq open
      /\ Active \subseteq Task /\ t \in Task
  BY DEF ReportsTypeOK, Existing, Active, Graph
<1>2. /\ chain \in SUBSET Task /\ IsFiniteSet(chain) /\ others \in SUBSET Task /\ IsFiniteSet(others)
      /\ Walked(t) \in SUBSET (Task \X Task) /\ IsFiniteSet(Walked(t))
  <2>1. IsFiniteSet(Task \X Task)
    BY ReportsAssumption, FS_Product
  <2>2. Walked(t) \in SUBSET (Task \X Task)
    BY <1>1 DEF Walked
  <2>3. chain \in SUBSET Task /\ others \in SUBSET Task
    BY <1>1
  <2> HIDE DEF chain, others
  <2>4. QED
    BY <2>1, <2>2, <2>3, ReportsAssumption, FS_Subset
<1>3. t \in chain
  BY DEF Reaches
<1>4. ASSUME NEW u \in others PROVE \E e \in Walked(t) : e[2] = u
  <2>1. u \in Task /\ u # t /\ Reaches(waits, t, u)
    BY <1>1
  <2>2. PICK e \in waits : e[2] = u /\ Reaches(waits, t, e[1])
    <3> HIDE DEF waits
    <3>1. QED
      BY <1>1, <2>1, LastEdge
  <2>3. e \in open /\ Reaches(open, t, e[1])
    <3>1. e \in open
      BY <1>1
    <3> HIDE DEF waits, open
    <3>2. QED
      BY <1>1, <2>2, <3>1, ReachesMore
  <2>4. QED
    BY <2>2, <2>3 DEF Walked
<1>5. SUFFICES ASSUME deadline[t] # None, chain # {t}, Total(Duration, chain) > deadline[t] - now,
                      ~Overdue(t)
               PROVE  ChainTooLong(t)
  BY DEF Total
<1> HIDE DEF waits, chain, open
<1>6. Walked(t) # {}
  BY <1>3, <1>4, <1>5
<1>7. Duration \in [Task -> Nat] /\ aheadOf \in [Task \X Task -> Nat]
  BY ReportsAssumption DEF aheadOf, DurationAhead
<1>8. Total(Duration, chain) = Duration[t] + Total(Duration, others)
  BY <1>2, <1>3, <1>7, TotalRemove
<1>9. Total(Duration, others) <= Total(aheadOf, Walked(t))
  <2>1. \A u \in others : \E e \in Walked(t) : e[2] = u /\ aheadOf[e] = Duration[u]
    BY <1>2, <1>4 DEF aheadOf, DurationAhead
  <2> HIDE DEF others
  <2>2. QED
    BY <1>2, <1>7, <2>1, TotalByEnds
<1>10. ChainMinutes(t) = Duration[t] + Total(aheadOf, Walked(t))
  BY <1>2, AheadIsTotal DEF ChainMinutes
<1>11. /\ Duration[t] \in Nat /\ Total(Duration, others) \in Nat
       /\ Total(aheadOf, Walked(t)) \in Nat
  BY <1>1, <1>2, <1>7, TotalType
<1>12. deadline[t] \in Nat /\ now \in Nat /\ deadline[t] >= now /\ Due(t)
  BY <1>1, <1>5, ReportsAssumption DEF ReportsTypeOK, Overdue, Due
<1>13. Available(t) = deadline[t] - now
  <2> DEFINE M == {0, deadline[t] - now}
  <2>1. M \in SUBSET Nat /\ M # {} /\ \A m \in M : m <= deadline[t]
    BY <1>12
  <2>2. Max(M) \in M /\ \A m \in M : m <= Max(M)
    <3> HIDE DEF M
    <3>1. QED
      BY <1>12, <2>1, MaxOfBounded
  <2>3. Max(M) = deadline[t] - now
    BY <1>12, <2>2
  <2>4. QED
    BY <2>3 DEF Available
<1> HIDE DEF others
<1>14. ChainMinutes(t) > Available(t)
  BY <1>5, <1>8, <1>9, <1>10, <1>11, <1>12, <1>13
<1>15. QED
  BY <1>5, <1>6, <1>12, <1>14 DEF ChainTooLong

\* walkDependencyChain never underestimates a chain: a task that cannot be done
\* in time because of what it waits for is reported, whatever the graph.
THEOREM ImpossibleAlwaysReported == ReportsSpec => []ImpossibleIsReported
BY ImpossibleReported, ReportsTypeCorrect, PTL
=============================================================================
