-------------------------- MODULE RecurrenceProofs --------------------------
(***************************************************************************)
(* The recurrence manager with the process killed between any two of its   *)
(* statements, for any series, rules and horizons.              *)
(***************************************************************************)
EXTENDS Recurrence, FiniteSetLemmas

Generating == job.op \in {"create", "expand"}

\* A method works on one series; a series is active as long as it is expanded.
JobInv ==
  /\ ~Generating => job.half = NoId /\ job.dates = {} /\ job.queue = {}
  /\ job.op \in {"create", "delete"} \/ job.dates # {} => \E t \in Template : job.of = {t}
  /\ Generating => \A t \in job.of \cup job.queue : series[t] = "active"
  /\ job.of \cap job.queue = {}

\* Between the two inserts the task is open and has no other row.
HalfInv ==
  job.half # NoId => /\ job.half[1] \in job.of /\ job.half[2] \in job.dates
                     /\ status[job.half] = "open"

\* The bound on copies is not met in the middle of an expansion.
RoomInv ==
  /\ \A i \in Id : series[i[1]] = "absent" => status[i] = "absent"
  /\ Generating =>
       /\ \A t \in job.of : \A d \in job.dates :
            job.half = NoId \/ job.half[2] # d => status[<<t, d, MaxCopies>>] = "absent"
       /\ \A t \in job.queue : \A d \in Moment : status[<<t, d, MaxCopies>>] = "absent"

\* The instance is on a later date than the series was created on.
Later(i) == DateOf[i[2]] > DateOf[createdOn[i[1]]]

\* A later occurrence has one instance, and none while it is still to be generated.
OnceInv ==
  /\ \A i, j \in instances : i[1] = j[1] /\ i[2] = j[2] /\ Later(i) => i = j
  /\ \A i \in instances : Generating /\ i[1] \in job.of /\ i[2] \in job.dates => ~Later(i)

\* Until the template is deactivated, the open instances from that date on are those
\* still to be cancelled.
EndedInv ==
  /\ job.op = "delete" =>
       \A i \in instances :
         i[1] \in job.of /\ DateOf[i[2]] >= DateOf[now] /\ status[i] = "open"
           => i \in job.ids
  /\ EndedSeriesStaysEnded

RecurrenceInv ==
  /\ RecurrenceTypeOK /\ JobInv /\ HalfInv /\ RoomInv /\ OnceInv /\ EndedInv

-----------------------------------------------------------------------------
LEMMA MomentFacts ==
  /\ Moment \subseteq Nat
  /\ \A m \in Moment : 0 .. m \subseteq Moment
  /\ 0 .. LastMoment \subseteq Moment
  /\ \A m \in Moment : DateOf[m] \in Nat
  /\ \A a \in 0 .. LastMoment, h \in Horizons \cup {CreateHorizon} : a + h \in Moment
<1> DEFINE H == Horizons \cup {CreateHorizon}
<1>1. H \in SUBSET Int /\ H # {} /\ IsFiniteSet(H)
  BY RecurrenceAssumption, FS_AddElement
<1>2. Max(H) \in H /\ \A h \in H : h <= Max(H)
  <2> HIDE DEF H
  <2>1. QED
    BY <1>1, MaxOfFinite
<1>3. Max(H) \in Nat /\ \A h \in H : h \in Nat /\ h <= Max(H)
  BY <1>2, RecurrenceAssumption
<1>4. Moment = 0 .. LastMoment + Max(H)
  BY DEF Moment
<1>5. QED
  <2> HIDE DEF H
  <2>1. \A a \in 0 .. LastMoment, h \in H : a + h \in Moment
    BY <1>3, <1>4, RecurrenceAssumption
  <2>2. /\ Moment \subseteq Nat /\ \A m \in Moment : 0 .. m \subseteq Moment
        /\ 0 .. LastMoment \subseteq Moment
    BY <1>3, <1>4, RecurrenceAssumption
  <2>3. \A m \in Moment : DateOf[m] \in Nat
    BY RecurrenceAssumption
  <2>4. QED
    BY <2>1, <2>2, <2>3 DEF H

\* The occurrences generated lie in the model's range of moments.
LEMMA OccurrencesAreMoments ==
  ASSUME NEW rule \in SUBSET Nat, NEW start \in Nat, NEW end \in Moment,
         NEW dates \in Occurrences(rule, start, end)
  PROVE  dates \subseteq Moment
<1>1. PICK last \in {end - 1, end} : dates = rule \cap (start .. last)
  BY DEF Occurrences
<1>2. QED
  BY <1>1, MomentFacts

LEMMA OccurrencesReachEnd ==
  ASSUME NEW rule, NEW start \in Nat, NEW end \in Nat, NEW dates \in Occurrences(rule, start, end)
  PROVE  \A d \in rule \cap (start .. end - 1) : d \in dates
<1>1. PICK last \in {end - 1, end} : dates = rule \cap (start .. last)
  BY DEF Occurrences
<1>2. QED
  BY <1>1

LEMMA IdParts ==
  /\ NoId \notin Id
  /\ \A i \in Id : /\ i[1] \in Template /\ i[2] \in Moment /\ i[3] \in 1 .. MaxCopies
                   /\ i = <<i[1], i[2], i[3]>>
BY DEF Id, NoId

\* The task CreateTask adds is a new one of the series it works on.
Adds(t, d, k) ==
  /\ job.of = {t} /\ status[<<t, d, k>>] = "absent"
  /\ status' = [status EXCEPT ![<<t, d, k>>] = "open"]
  /\ job' = [job EXCEPT !.half = <<t, d, k>>]

LEMMA CreateTaskNew ==
  ASSUME RecurrenceInv, CreateTask
  PROVE  \E t \in Template, d \in job.dates, k \in 1 .. MaxCopies : Adds(t, d, k)
<1> DEFINE t == CHOOSE t \in job.of : TRUE
           d == Min(job.dates)
           K == {k \in 1 .. MaxCopies : status[<<t, d, k>>] = "absent"}
<1>1. /\ Generating /\ job.half = NoId /\ job.dates # {}
      /\ status' = [status EXCEPT ![<<t, d, Min(K)>>] = "open"]
      /\ job' = [job EXCEPT !.half = <<t, d, Min(K)>>]
  BY DEF CreateTask, Generating
<1>2. t \in Template /\ job.of = {t}
  BY <1>1 DEF RecurrenceInv, JobInv
<1>3. d \in job.dates
  <2>1. job.dates \in SUBSET Nat
    BY MomentFacts DEF RecurrenceInv, RecurrenceTypeOK, Job
  <2>2. QED
    BY <1>1, <2>1, MinOfNaturals
<1>4. MaxCopies \in K
  BY <1>1, <1>2, <1>3, RecurrenceAssumption DEF RecurrenceInv, RoomInv
<1> HIDE DEF t, d
<1>5. Min(K) \in K
  <2>1. K \in SUBSET Nat /\ K # {}
    BY <1>4
  <2> HIDE DEF K
  <2>2. QED
    BY <2>1, MinOfNaturals
<1> DEFINE k == Min(K)
<1>6. k \in 1 .. MaxCopies /\ status[<<t, d, k>>] = "absent"
  BY <1>5
<1> HIDE DEF K
<1>7. QED
  BY <1>1, <1>2, <1>3, <1>6 DEF Adds

-----------------------------------------------------------------------------
LEMMA RecurrenceInitInv == RecurrenceInit => RecurrenceInv
<1> SUFFICES ASSUME RecurrenceInit PROVE RecurrenceInv
  OBVIOUS
<1> USE RecurrenceAssumption DEF RecurrenceInit, NoJob
<1>1. RecurrenceTypeOK
  <2>1. 0 \in Moment
    BY MomentFacts
  <2>2. NoJob \in Job
    BY <2>1 DEF Job
  <2>3. horizon \in Horizons /\ 0 \in 0 .. LastMoment
    OBVIOUS
  <2>4. /\ status \in [Id -> {"absent", "open", "completed", "cancelled"}]
        /\ instances \subseteq {i \in Id : status[i] # "absent"}
    OBVIOUS
  <2>5. QED
    BY <2>2, <2>3, <2>4 DEF RecurrenceTypeOK
<1>2. JobInv /\ HalfInv
  BY DEF JobInv, HalfInv, Generating
<1>3. RoomInv
  BY IdParts DEF RoomInv, Generating
<1>4. OnceInv /\ EndedInv
  BY DEF OnceInv, EndedInv, EndedSeriesStaysEnded, Generating
<1>5. QED
  BY <1>1, <1>2, <1>3, <1>4 DEF RecurrenceInv

LEMMA RecurrenceTypeStep ==
  ASSUME RecurrenceInv, [RecurrenceNext]_recurrenceVars
  PROVE  RecurrenceTypeOK'
<1> USE RecurrenceAssumption DEF RecurrenceInv, RecurrenceTypeOK, rows
<1>0. NoJob \in Job
  BY MomentFacts DEF NoJob, Job
<1>1. ASSUME NEW t \in Template, NEW rule \in Patterns, CreateRecurringTask(t, rule)
      PROVE  RecurrenceTypeOK'
  <2>1. now + CreateHorizon \in Moment
    BY MomentFacts
  <2>2. PICK dates \in Occurrences(rule, now, now + CreateHorizon) :
          job' = [NoJob EXCEPT !.op = "create", !.of = {t}, !.dates = dates,
                               !.end = now + CreateHorizon]
    BY <1>1 DEF CreateRecurringTask
  <2>3. dates \subseteq Moment
    BY <2>1, OccurrencesAreMoments
  <2>4. job' \in Job
    BY <1>0, <2>1, <2>2, <2>3 DEF Job
  <2>5. QED
    BY <1>1, <2>4 DEF CreateRecurringTask
<1>2. CASE CreateTask
  <2>1. PICK t \in Template, d \in job.dates, k \in 1 .. MaxCopies : Adds(t, d, k)
    BY <1>2, CreateTaskNew
  <2>2. <<t, d, k>> \in Id
    BY DEF Job, Id
  <2>3. job' \in Job /\ status' \in [Id -> {"absent", "open", "completed", "cancelled"}]
    BY <2>1, <2>2 DEF Job, Adds
  <2>4. instances' \subseteq {i \in Id : status'[i] # "absent"}
    BY <1>2, <2>1, <2>2 DEF CreateTask, Adds
  <2>5. QED
    BY <1>2, <2>3, <2>4 DEF CreateTask
<1>3. CASE CreateInstance
  <2>1. job' \in Job
    BY <1>3, IdParts DEF CreateInstance, Job
  <2>2. job.half \in Id /\ status[job.half] = "open"
    BY <1>3 DEF CreateInstance, Job, HalfInv
  <2>3. QED
    BY <1>3, <2>1, <2>2 DEF CreateInstance
<1>4. CASE FinishCreate
  <2>1. job.end \in Moment
    BY DEF Job
  <2>2. QED
    BY <1>0, <1>4, <2>1 DEF FinishCreate
<1>5. CASE ExpandHorizon
  <2>1. now + horizon \in Moment
    BY MomentFacts
  <2>2. job' \in Job
    BY <1>5, <2>1 DEF ExpandHorizon, NoJob, Job
  <2>3. QED
    BY <1>5, <2>2 DEF ExpandHorizon
<1>6. ASSUME NEW t \in job.queue, NextTemplate(t) PROVE RecurrenceTypeOK'
  <2>1. PICK dates \in Occurrences(pattern[t], createdOn[t], job.end) :
          job' = [job EXCEPT !.queue = @ \ {t}, !.of = {t},
                             !.dates = NewDates(t, dates, createdOn[t], job.end)]
    BY <1>6 DEF NextTemplate
  <2>2. t \in Template /\ job.end \in Moment
    BY DEF Job
  <2>3. createdOn[t] \in Nat /\ pattern[t] \in SUBSET Nat
    <3>1. createdOn[t] \in 0 .. LastMoment /\ (pattern[t] \in Patterns \/ pattern[t] = {})
      BY <2>2
    <3>2. pattern[t] \in SUBSET Nat
      BY <3>1
    <3>3. QED
      BY <3>1, <3>2
  <2>4. dates \subseteq Moment
    BY <2>2, <2>3, OccurrencesAreMoments
  <2>5. job' \in Job
    BY <2>1, <2>2, <2>4 DEF Job, NewDates
  <2>6. QED
    BY <1>6, <2>5 DEF NextTemplate
<1>7. CASE FinishExpand
  <2>1. job.end \in Moment
    BY DEF Job
  <2>2. QED
    BY <1>0, <1>7, <2>1 DEF FinishExpand
<1>8. ASSUME NEW i \in Id, DeleteTask(i) PROVE RecurrenceTypeOK'
  <2>1. i[1] \in Template
    BY IdParts
  <2>2. job' \in Job
    BY <1>8, <1>0, <2>1 DEF DeleteTask, NoJob, Job
  <2>3. QED
    BY <1>8, <2>2 DEF DeleteTask
<1>9. ASSUME NEW i \in job.ids, CancelInstance(i) PROVE RecurrenceTypeOK'
  <2>1. job' \in Job /\ i \in Id
    BY <1>9 DEF CancelInstance, Job
  <2>2. QED
    BY <1>9, <2>1 DEF CancelInstance
<1>10. CASE DeactivateTemplate
  <2>1. PICK t \in Template :
          /\ series' = [series EXCEPT ![t] = "inactive"]
          /\ deletedOn' = [deletedOn EXCEPT ![t] = IF series[t] = "inactive" THEN @ ELSE now]
    BY <1>10 DEF DeactivateTemplate, JobInv
  <2>2. /\ series' \in [Template -> {"absent", "active", "inactive"}]
        /\ deletedOn' \in [Template -> 0 .. LastMoment]
    BY <2>1
  <2>3. QED
    BY <1>10, <1>0, <2>2 DEF DeactivateTemplate
<1>11. ASSUME NEW i \in Id, CompleteTask(i) PROVE RecurrenceTypeOK'
  BY <1>11 DEF CompleteTask
<1>12. ASSUME NEW h \in Horizons, SetPreferences(h) PROVE RecurrenceTypeOK'
  BY <1>12 DEF SetPreferences
<1>13. CASE HorizonReached
  BY <1>13 DEF HorizonReached
<1>14. CASE Tick
  <2>1. now' \in 0 .. LastMoment
    BY <1>14 DEF Tick
  <2>2. QED
    BY <1>14, <2>1 DEF Tick
<1>15. CASE Crash
  BY <1>0, <1>15 DEF Crash
<1>16. CASE UNCHANGED recurrenceVars
  BY <1>16 DEF recurrenceVars
<1>17. QED
  BY <1>1, <1>2, <1>3, <1>4, <1>5, <1>6, <1>7, <1>8, <1>9, <1>10, <1>11, <1>12, <1>13,
     <1>14, <1>15, <1>16 DEF RecurrenceNext

LEMMA JobStep ==
  ASSUME RecurrenceInv, [RecurrenceNext]_recurrenceVars
  PROVE  JobInv' /\ HalfInv'
<1>0. CreateTask => \E t \in Template, d \in job.dates, k \in 1 .. MaxCopies : Adds(t, d, k)
  BY CreateTaskNew
<1> USE DEF RecurrenceInv, RecurrenceTypeOK, Job, JobInv, HalfInv, Generating, rows
<1>1. ASSUME NEW t \in Template, NEW rule \in Patterns, CreateRecurringTask(t, rule)
      PROVE  JobInv' /\ HalfInv'
  BY <1>1 DEF CreateRecurringTask, NoJob
<1>2. CASE CreateTask
  <2>1. PICK t \in Template, d \in job.dates, k \in 1 .. MaxCopies : Adds(t, d, k)
    BY <1>0, <1>2
  <2>2. <<t, d, k>> \in Id
    BY DEF Id
  <2>3. /\ job'.half = <<t, d, k>> /\ job'.of = job.of /\ job'.dates = job.dates
        /\ job'.op = job.op /\ job'.queue = job.queue /\ series' = series
    BY <1>2, <2>1 DEF CreateTask, Adds
  <2>4. job.op \in {"create", "expand"}
    BY <1>2 DEF CreateTask
  <2>5. HalfInv'
    BY <2>1, <2>2, <2>3 DEF Adds
  <2>6. JobInv'
    BY <2>3, <2>4
  <2>7. QED
    BY <2>5, <2>6
<1>3. CASE CreateInstance
  BY <1>3 DEF CreateInstance
<1>4. CASE FinishCreate \/ FinishExpand \/ DeactivateTemplate \/ Crash
  BY <1>4 DEF FinishCreate, FinishExpand, DeactivateTemplate, Crash, NoJob
<1>5. CASE ExpandHorizon
  BY <1>5 DEF ExpandHorizon, NoJob
<1>6. ASSUME NEW t \in job.queue, NextTemplate(t) PROVE JobInv' /\ HalfInv'
  <2>1. PICK dates \in Occurrences(pattern[t], createdOn[t], job.end) :
          job' = [job EXCEPT !.queue = @ \ {t}, !.of = {t},
                             !.dates = NewDates(t, dates, createdOn[t], job.end)]
    BY <1>6 DEF NextTemplate
  <2>2. job.op = "expand" /\ job.dates = {} /\ job.half = NoId
    BY <1>6 DEF NextTemplate
  <2>3. QED
    BY <1>6, <2>1, <2>2 DEF NextTemplate
<1>7. ASSUME NEW i \in Id, DeleteTask(i) PROVE JobInv' /\ HalfInv'
  BY <1>7, IdParts DEF DeleteTask, NoJob
<1>8. ASSUME NEW i \in job.ids, CancelInstance(i) PROVE JobInv' /\ HalfInv'
  BY <1>8 DEF CancelInstance
<1>9. ASSUME NEW i \in Id, CompleteTask(i) PROVE JobInv' /\ HalfInv'
  BY <1>9 DEF CompleteTask
<1>10. ASSUME NEW h \in Horizons, SetPreferences(h) PROVE JobInv' /\ HalfInv'
  BY <1>10 DEF SetPreferences
<1>11. CASE HorizonReached \/ Tick \/ UNCHANGED recurrenceVars
  BY <1>11 DEF HorizonReached, Tick, recurrenceVars
<1>12. QED
  BY <1>1, <1>2, <1>3, <1>4, <1>5, <1>6, <1>7, <1>8, <1>9, <1>10, <1>11 DEF RecurrenceNext

LEMMA RoomStep ==
  ASSUME RecurrenceInv, [RecurrenceNext]_recurrenceVars
  PROVE  RoomInv'
<1>0. CreateTask => \E t \in Template, d \in job.dates, k \in 1 .. MaxCopies : Adds(t, d, k)
  BY CreateTaskNew
<1> USE RecurrenceAssumption
    DEF RecurrenceInv, RecurrenceTypeOK, Job, JobInv, HalfInv, RoomInv, Generating, rows
<1>1. ASSUME NEW t \in Template, NEW rule \in Patterns, CreateRecurringTask(t, rule)
      PROVE  RoomInv'
  <2>1. PICK dates \in Occurrences(rule, now, now + CreateHorizon) :
          job' = [NoJob EXCEPT !.op = "create", !.of = {t}, !.dates = dates,
                               !.end = now + CreateHorizon]
    BY <1>1 DEF CreateRecurringTask
  <2>2. dates \subseteq Moment
    BY MomentFacts, OccurrencesAreMoments
  <2>3. \A d \in dates : <<t, d, MaxCopies>> \in Id /\ status[<<t, d, MaxCopies>>] = "absent"
    BY <1>1, <2>2 DEF CreateRecurringTask, Id
  <2>4. \A i \in Id : series'[i[1]] = "absent" => status'[i] = "absent"
    BY <1>1, IdParts DEF CreateRecurringTask
  <2>5. job'.of = {t} /\ job'.dates = dates /\ job'.queue = {}
    BY <2>1 DEF NoJob
  <2>6. \A u \in job'.of, d \in job'.dates : status'[<<u, d, MaxCopies>>] = "absent"
    BY <1>1, <2>3, <2>5 DEF CreateRecurringTask
  <2>7. QED
    BY <2>4, <2>5, <2>6
<1>2. CASE CreateTask
  <2>1. PICK t \in Template, d \in job.dates, k \in 1 .. MaxCopies : Adds(t, d, k)
    BY <1>0, <1>2
  <2>2. <<t, d, k>> \in Id /\ d \in Moment
    BY DEF Id
  <2>3. /\ job'.half = <<t, d, k>> /\ job'.of = {t} /\ job'.dates = job.dates
        /\ job'.op = job.op /\ job'.queue = job.queue /\ series' = series
    BY <1>2, <2>1 DEF CreateTask, Adds
  <2>4. \A i \in Id : i # <<t, d, k>> => status'[i] = status[i]
    BY <2>1 DEF Adds
  <2>5. series[t] = "active" /\ t \notin job.queue
    BY <1>2, <2>1 DEF CreateTask, Adds
  <2>6. \A i \in Id : series'[i[1]] = "absent" => status'[i] = "absent"
    BY <2>3, <2>4, <2>5
  <2>7. ASSUME NEW e \in job.dates, e # d PROVE status'[<<t, e, MaxCopies>>] = "absent"
    <3>1. <<t, e, MaxCopies>> \in Id /\ <<t, e, MaxCopies>> # <<t, d, k>>
      BY <2>7 DEF Id
    <3>2. QED
      BY <1>2, <2>1, <2>4, <3>1 DEF CreateTask, Adds
  <2>8. ASSUME NEW u \in job.queue, NEW e \in Moment PROVE status'[<<u, e, MaxCopies>>] = "absent"
    <3>1. <<u, e, MaxCopies>> \in Id /\ <<u, e, MaxCopies>> # <<t, d, k>>
      BY <2>5 DEF Id
    <3>2. QED
      BY <1>2, <2>4, <3>1 DEF CreateTask
  <2>9. \A u \in job'.of, e \in job'.dates :
          job'.half = NoId \/ job'.half[2] # e => status'[<<u, e, MaxCopies>>] = "absent"
    <3>1. job'.half # NoId /\ job'.half[2] = d
      BY <2>2, <2>3, IdParts
    <3>2. QED
      BY <2>3, <2>7, <3>1
  <2>10. \A u \in job'.queue, e \in Moment : status'[<<u, e, MaxCopies>>] = "absent"
    BY <2>3, <2>8
  <2>11. QED
    BY <2>6, <2>9, <2>10
<1>3. CASE CreateInstance
  BY <1>3 DEF CreateInstance
<1>4. CASE FinishCreate \/ FinishExpand \/ Crash
  BY <1>4 DEF FinishCreate, FinishExpand, Crash, NoJob
<1>5. CASE ExpandHorizon
  BY <1>5 DEF ExpandHorizon, NoJob, RoomForCopies
<1>6. ASSUME NEW t \in job.queue, NextTemplate(t) PROVE RoomInv'
  <2>1. PICK dates \in Occurrences(pattern[t], createdOn[t], job.end) :
          job' = [job EXCEPT !.queue = @ \ {t}, !.of = {t},
                             !.dates = NewDates(t, dates, createdOn[t], job.end)]
    BY <1>6 DEF NextTemplate
  <2>2. \A d \in Moment : status[<<t, d, MaxCopies>>] = "absent"
    BY <1>6 DEF NextTemplate
  <2>3. t \in Template /\ pattern[t] \in SUBSET Nat /\ createdOn[t] \in Nat /\ job.end \in Moment
    <3>1. /\ t \in Template /\ createdOn[t] \in 0 .. LastMoment
          /\ pattern[t] \in Patterns \/ pattern[t] = {}
      OBVIOUS
    <3>2. pattern[t] \in SUBSET Nat
      BY <3>1
    <3>3. QED
      BY <3>1, <3>2
  <2>4. dates \subseteq Moment
    BY <2>3, OccurrencesAreMoments
  <2>5. /\ job'.of = {t} /\ job'.dates \subseteq Moment /\ job'.queue \subseteq job.queue
        /\ job'.op = job.op /\ series' = series /\ status' = status
    BY <1>6, <2>1, <2>4 DEF NextTemplate, NewDates
  <2>6. \A u \in job'.of, d \in job'.dates : status'[<<u, d, MaxCopies>>] = "absent"
    BY <2>2, <2>5
  <2>7. QED
    BY <1>6, <2>5, <2>6 DEF NextTemplate
<1>7. ASSUME NEW i \in Id, DeleteTask(i) PROVE RoomInv'
  BY <1>7 DEF DeleteTask, NoJob
<1>8. ASSUME NEW i \in job.ids, CancelInstance(i) PROVE RoomInv'
  BY <1>8 DEF CancelInstance
<1>9. CASE DeactivateTemplate
  <2>1. PICK t \in Template : series' = [series EXCEPT ![t] = "inactive"]
    BY <1>9 DEF DeactivateTemplate
  <2>2. QED
    BY <1>9, <2>1, IdParts DEF DeactivateTemplate, NoJob
<1>10. ASSUME NEW i \in Id, CompleteTask(i) PROVE RoomInv'
  BY <1>10 DEF CompleteTask
<1>11. ASSUME NEW h \in Horizons, SetPreferences(h) PROVE RoomInv'
  BY <1>11 DEF SetPreferences
<1>12. CASE HorizonReached \/ Tick \/ UNCHANGED recurrenceVars
  BY <1>12 DEF HorizonReached, Tick, recurrenceVars
<1>13. QED
  BY <1>1, <1>2, <1>3, <1>4, <1>5, <1>6, <1>7, <1>8, <1>9, <1>10, <1>11, <1>12
     DEF RecurrenceNext

LEMMA OnceStep ==
  ASSUME RecurrenceInv, [RecurrenceNext]_recurrenceVars
  PROVE  OnceInv'
<1>0. CreateTask => \E t \in Template, d \in job.dates, k \in 1 .. MaxCopies : Adds(t, d, k)
  BY CreateTaskNew
<1> USE DEF RecurrenceInv, RecurrenceTypeOK, Job, OnceInv, Generating, Later, rows
<1>1. ASSUME NEW t \in Template, NEW rule \in Patterns, CreateRecurringTask(t, rule)
      PROVE  OnceInv'
  <2>1. \A i \in instances : i \in Id /\ i[1] \in Template /\ series[i[1]] # "absent"
    BY IdParts DEF RoomInv
  <2>2. \A i \in instances : i[1] # t /\ createdOn'[i[1]] = createdOn[i[1]]
    BY <1>1, <2>1 DEF CreateRecurringTask
  <2>3. job'.of = {t} /\ instances' = instances
    BY <1>1 DEF CreateRecurringTask, NoJob
  <2>4. QED
    BY <2>2, <2>3
<1>2. CASE CreateTask
  <2>1. PICK t \in Template, d \in job.dates, k \in 1 .. MaxCopies : Adds(t, d, k)
    BY <1>0, <1>2
  <2>2. job'.of = job.of /\ job'.dates = job.dates /\ job'.op = job.op
    BY <2>1 DEF Adds
  <2>3. QED
    BY <1>2, <2>2 DEF CreateTask
<1>3. CASE CreateInstance
  <2> DEFINE new == job.half
  <2>1. /\ new \in Id /\ Generating /\ new[1] \in job.of /\ new[2] \in job.dates
        /\ job.of = {new[1]}
    BY <1>3 DEF CreateInstance, HalfInv, JobInv
  <2>2. /\ instances' = instances \cup {new} /\ createdOn' = createdOn
        /\ job'.of = job.of /\ job'.dates = job.dates \ {new[2]} /\ job'.op = job.op
    BY <1>3 DEF CreateInstance
  <2>3. \A i \in instances : i[1] = new[1] /\ i[2] = new[2] => ~Later(i)
    BY <2>1
  <2>4. \A i : Later(i)' = Later(i)
    BY <2>2 DEF Later
  <2>8. \A i : i[1] = new[1] /\ i[2] = new[2] => Later(i) = Later(new)
    BY DEF Later
  <2>5. \A i, j \in instances' : i[1] = j[1] /\ i[2] = j[2] /\ Later(i)' => i = j
    BY <2>2, <2>3, <2>4, <2>8
  <2>6. \A i \in instances' : i[2] \in job'.dates => i # new
    BY <2>2
  <2>7. QED
    BY <2>2, <2>4, <2>5, <2>6
<1>4. CASE FinishCreate \/ FinishExpand \/ Crash \/ DeactivateTemplate
  BY <1>4 DEF FinishCreate, FinishExpand, Crash, DeactivateTemplate, NoJob, Later
<1>5. CASE ExpandHorizon
  BY <1>5 DEF ExpandHorizon, NoJob, Later
<1>6. ASSUME NEW t \in job.queue, NextTemplate(t) PROVE OnceInv'
  <2>1. PICK dates \in Occurrences(pattern[t], createdOn[t], job.end) :
          job' = [job EXCEPT !.queue = @ \ {t}, !.of = {t},
                             !.dates = NewDates(t, dates, createdOn[t], job.end)]
    BY <1>6 DEF NextTemplate
  <2>2. job'.of = {t} /\ job'.dates = NewDates(t, dates, createdOn[t], job.end)
    BY <2>1
  <2>3. \A o \in dates : DateOf[o] <= DateOf[job.end]
    <3>1. PICK last \in {job.end - 1, job.end} : dates = pattern[t] \cap (createdOn[t] .. last)
      BY DEF Occurrences
    <3>2. createdOn[t] \in Nat /\ job.end \in Moment /\ job.end \in Nat
      BY MomentFacts
    <3> HIDE DEF RecurrenceInv, RecurrenceTypeOK, Job, OnceInv
    <3>3. \A o \in dates : o \in 0 .. job.end
      BY <3>1, <3>2
    <3>4. 0 .. job.end \subseteq Moment
      BY <3>2, MomentFacts
    <3>5. \A o \in dates : o \in Moment /\ o <= job.end
      BY <3>2, <3>3, <3>4
    <3>6. QED
      BY <3>2, <3>5, RecurrenceAssumption
  <2>4. ASSUME NEW i \in instances, i[1] = t, i[2] \in dates, Later(i)
        PROVE  DateOf[i[2]] \in ExistingDates(t, createdOn[t], job.end)
    <3>1. DateOf[i[2]] \in Nat /\ DateOf[createdOn[t]] \in Nat
      BY IdParts, MomentFacts
    <3>2. QED
      BY <2>3, <2>4, <3>1 DEF ExistingDates, Later
  <2>5. \A i \in instances : i[1] = t /\ i[2] \in job'.dates => ~Later(i)
    BY <2>2, <2>4 DEF NewDates
  <2>6. \A i : Later(i)' = Later(i)
    BY <1>6 DEF NextTemplate, Later
  <2>7. QED
    BY <1>6, <2>2, <2>5, <2>6 DEF NextTemplate
<1>7. ASSUME NEW i \in Id, DeleteTask(i) PROVE OnceInv'
  BY <1>7 DEF DeleteTask, NoJob
<1>8. ASSUME NEW i \in job.ids, CancelInstance(i) PROVE OnceInv'
  BY <1>8 DEF CancelInstance
<1>9. ASSUME NEW i \in Id, CompleteTask(i) PROVE OnceInv'
  BY <1>9 DEF CompleteTask
<1>10. ASSUME NEW h \in Horizons, SetPreferences(h) PROVE OnceInv'
  BY <1>10 DEF SetPreferences
<1>11. CASE HorizonReached \/ Tick \/ UNCHANGED recurrenceVars
  BY <1>11 DEF HorizonReached, Tick, recurrenceVars
<1>12. QED
  BY <1>1, <1>2, <1>3, <1>4, <1>5, <1>6, <1>7, <1>8, <1>9, <1>10, <1>11 DEF RecurrenceNext

LEMMA EndedStep ==
  ASSUME RecurrenceInv, [RecurrenceNext]_recurrenceVars
  PROVE  EndedInv'
<1>0. CreateTask => \E t \in Template, d \in job.dates, k \in 1 .. MaxCopies : Adds(t, d, k)
  BY CreateTaskNew
<1> USE DEF RecurrenceInv, RecurrenceTypeOK, Job, EndedInv, EndedSeriesStaysEnded,
            Generating, rows
<1>1. ASSUME NEW t \in Template, NEW rule \in Patterns, CreateRecurringTask(t, rule)
      PROVE  EndedInv'
  <2>1. \A i \in instances : i[1] \in Template
    BY IdParts
  <2>2. QED
    BY <1>1, <2>1 DEF CreateRecurringTask, NoJob
<1>2. CASE CreateTask
  <2>1. PICK t \in Template, d \in job.dates, k \in 1 .. MaxCopies : Adds(t, d, k)
    BY <1>0, <1>2
  <2>2. <<t, d, k>> \in Id /\ <<t, d, k>> \notin instances
    BY <2>1 DEF Id, Adds
  <2>3. \A i \in instances : status'[i] = status[i]
    BY <2>1, <2>2 DEF Adds
  <2>4. job'.op # "delete"
    BY <1>2, <2>1 DEF CreateTask, Adds
  <2>5. QED
    BY <1>2, <2>3, <2>4 DEF CreateTask
<1>3. CASE CreateInstance
  <2>1. job.half[1] \in job.of /\ job.op # "delete" /\ series[job.half[1]] = "active"
    BY <1>3 DEF CreateInstance, HalfInv, JobInv
  <2>2. QED
    BY <1>3, <2>1 DEF CreateInstance
<1>4. CASE FinishCreate \/ FinishExpand \/ Crash
  BY <1>4 DEF FinishCreate, FinishExpand, Crash, NoJob
<1>5. CASE ExpandHorizon
  BY <1>5 DEF ExpandHorizon, NoJob
<1>6. ASSUME NEW t \in job.queue, NextTemplate(t) PROVE EndedInv'
  BY <1>6 DEF NextTemplate
<1>7. ASSUME NEW i \in Id, DeleteTask(i) PROVE EndedInv'
  <2>1. /\ job'.of = {i[1]}
        /\ job'.ids = {j \in instances : j[1] = i[1] /\ DateOf[j[2]] >= DateOf[now]}
        /\ instances' = instances /\ now' = now /\ series' = series
        /\ deletedOn' = deletedOn /\ status' = [status EXCEPT ![i] = "cancelled"]
    BY <1>7 DEF DeleteTask, NoJob
  <2>2. \A j \in instances : status'[j] = "open" => status[j] = "open"
    BY <2>1
  <2>3. QED
    BY <2>1, <2>2
<1>8. ASSUME NEW i \in job.ids, CancelInstance(i) PROVE EndedInv'
  <2>1. /\ job'.ids = job.ids \ {i} /\ job'.of = job.of /\ job'.op = job.op
        /\ status'[i] # "open" /\ \A j \in Id : j # i => status'[j] = status[j]
        /\ UNCHANGED <<instances, now, series, deletedOn>>
    BY <1>8 DEF CancelInstance
  <2>2. QED
    BY <2>1
<1>9. CASE DeactivateTemplate
  <2>1. PICK t \in Template :
          /\ job.of = {t}
          /\ series' = [series EXCEPT ![t] = "inactive"]
          /\ deletedOn' = [deletedOn EXCEPT ![t] = IF series[t] = "inactive" THEN @ ELSE now]
    BY <1>9 DEF DeactivateTemplate, JobInv
  <2>2. /\ job.op = "delete" /\ job.ids = {} /\ job'.op = "none"
        /\ status' = status /\ instances' = instances
    BY <1>9 DEF DeactivateTemplate, NoJob
  <2>3. \A i \in instances : i[1] \in Template
    BY IdParts
  <2>4. ASSUME NEW i \in instances, i[1] = t, DateOf[i[2]] >= DateOf[deletedOn'[t]]
        PROVE  status[i] # "open"
    <3>1. CASE series[t] = "inactive"
      BY <2>1, <2>4, <3>1
    <3>2. CASE series[t] # "inactive"
      BY <2>1, <2>2, <2>4, <3>2
    <3>3. QED
      BY <3>1, <3>2
  <2>5. ASSUME NEW i \in instances, i[1] # t, series'[i[1]] = "inactive",
               DateOf[i[2]] >= DateOf[deletedOn'[i[1]]]
        PROVE  status[i] # "open"
    BY <2>1, <2>3, <2>5
  <2>6. QED
    BY <2>2, <2>4, <2>5
<1>10. ASSUME NEW i \in Id, CompleteTask(i) PROVE EndedInv'
  BY <1>10 DEF CompleteTask
<1>11. ASSUME NEW h \in Horizons, SetPreferences(h) PROVE EndedInv'
  BY <1>11 DEF SetPreferences
<1>12. CASE HorizonReached \/ Tick \/ UNCHANGED recurrenceVars
  BY <1>12 DEF HorizonReached, Tick, recurrenceVars
<1>13. QED
  BY <1>1, <1>2, <1>3, <1>4, <1>5, <1>6, <1>7, <1>8, <1>9, <1>10, <1>11, <1>12
     DEF RecurrenceNext

LEMMA RecurrenceInvariance == RecurrenceSpec => []RecurrenceInv
<1>1. RecurrenceInv /\ [RecurrenceNext]_recurrenceVars => RecurrenceInv'
  BY RecurrenceTypeStep, JobStep, RoomStep, OnceStep, EndedStep DEF RecurrenceInv
<1>2. QED
  BY RecurrenceInitInv, <1>1, PTL DEF RecurrenceSpec

-----------------------------------------------------------------------------
\* The rows, the job and the memory of the manager keep their types; above all
\* the numbers CreateTask and the moments the horizons give stay within the model.
THEOREM RecurrenceTypeCorrect == RecurrenceSpec => []RecurrenceTypeOK
<1>1. RecurrenceInv => RecurrenceTypeOK
  BY DEF RecurrenceInv
<1>2. QED
  BY <1>1, RecurrenceInvariance, PTL

\* Expansion is idempotent after the first date, occurrence by occurrence, whatever
\* was completed, deleted or lost in a crash in between.
THEOREM OneInstancePerLaterOccurrence == RecurrenceSpec => []OncePerLaterOccurrence
<1>1. ASSUME RecurrenceInv, NEW t \in Template, NEW o \in Moment,
             DateOf[o] > DateOf[createdOn[t]]
      PROVE  Cardinality(InstancesOf(t, o)) <= 1
  <2> DEFINE I == InstancesOf(t, o)
  <2>1. \A i, j \in I : i = j
    BY <1>1 DEF InstancesOf, RecurrenceInv, OnceInv, Later
  <2>2. I = {} \/ \E i : I = {i}
    BY <2>1
  <2>3. Cardinality(I) = 0 \/ Cardinality(I) = 1
    <3> HIDE DEF I
    <3>1. QED
      BY <2>2, FS_EmptySet, FS_Singleton
  <2>4. QED
    BY <2>3
<1>2. RecurrenceInv => OncePerLaterOccurrence
  BY <1>1 DEF OncePerLaterOccurrence
<1>3. QED
  BY <1>2, RecurrenceInvariance, PTL

\* No expansion, crash or half-done delete brings an ended series back.
THEOREM NoRevival == RecurrenceSpec => []EndedSeriesStaysEnded
<1>1. RecurrenceInv => EndedSeriesStaysEnded
  BY DEF RecurrenceInv, EndedInv
<1>2. QED
  BY <1>1, RecurrenceInvariance, PTL

\* Ending a series, or anything else, leaves completed instances as they are.
THEOREM CompletedForGood == RecurrenceSpec => CompletedIsKept
<1> DEFINE Kept == \A i \in Id : status[i] = "completed" => status'[i] = "completed"
<1>1. ASSUME RecurrenceInv, RecurrenceNext PROVE Kept
  <2> USE DEF RecurrenceInv, RecurrenceTypeOK, Job, rows
  <2>1. CASE CreateTask
    <3>1. PICK t \in Template, d \in job.dates, k \in 1 .. MaxCopies : Adds(t, d, k)
      <4> HIDE DEF RecurrenceInv
      <4>1. QED
        BY <1>1, <2>1, CreateTaskNew
    <3>2. QED
      BY <1>1, <3>1 DEF Adds
  <2>2. ASSUME NEW i \in Id, DeleteTask(i) \/ CompleteTask(i) PROVE Kept
    BY <1>1, <2>2 DEF DeleteTask, CompleteTask
  <2>3. ASSUME NEW i \in job.ids, CancelInstance(i) PROVE Kept
    BY <1>1, <2>3 DEF CancelInstance
  <2>4. CASE UNCHANGED status
    BY <2>4
  <2>5. QED
    BY <1>1, <2>1, <2>2, <2>3, <2>4
       DEF RecurrenceNext, CreateRecurringTask, CreateInstance, FinishCreate, ExpandHorizon,
           HorizonReached, FinishExpand, NextTemplate, DeactivateTemplate, SetPreferences,
           Tick, Crash
<1>2. RecurrenceInv /\ [RecurrenceNext]_recurrenceVars => [Kept]_recurrenceVars
  BY <1>1
<1>3. QED
  BY <1>2, RecurrenceInvariance, PTL DEF RecurrenceSpec, CompletedIsKept

-----------------------------------------------------------------------------
(***************************************************************************)
(* The horizon, when it is no shorter than create_task's and never changed. *)
(* currentHorizonEnd is then no later than the new end, so an expansion is *)
(* never skipped; a template it has taken from the queue lacks at most the *)
(* occurrences still to generate.                                          *)
(***************************************************************************)
HorizonInv ==
  /\ job.op = "create" => job.end = now + CreateHorizon
  /\ job.op = "expand" => job.end = now + horizon
  /\ currentHorizonEnd # NoHorizon =>
       /\ currentHorizonEnd.setOn <= now
       /\ currentHorizonEnd.end <= currentHorizonEnd.setOn + horizon

ExpandInv ==
  job.op = "expand" =>
    \A t \in Template : series[t] = "active" /\ t \notin job.queue =>
      \A o \in pattern[t] \cap (createdOn[t] .. now + horizon - 1) :
        InstancesOn(t, DateOf[o]) # {} \/ (t \in job.of /\ o \in job.dates)

CoverInv == ~resized => HorizonInv /\ ExpandInv /\ HorizonCovered

LEMMA CoverInit == RecurrenceInit => CoverInv
BY DEF RecurrenceInit, NoJob, CoverInv, HorizonInv, ExpandInv, HorizonCovered

LEMMA HorizonEndTyped ==
  ASSUME RecurrenceTypeOK, currentHorizonEnd # NoHorizon
  PROVE  currentHorizonEnd.end \in Nat /\ currentHorizonEnd.setOn \in Nat
<1>1. currentHorizonEnd.end \in Moment /\ currentHorizonEnd.setOn \in 0 .. LastMoment
  BY DEF RecurrenceTypeOK
<1>2. currentHorizonEnd.end \in Nat
  BY <1>1, MomentFacts
<1>3. currentHorizonEnd.setOn \in Nat
  BY <1>1, RecurrenceAssumption
<1>4. QED
  BY <1>2, <1>3

\* An expansion is never skipped.
LEMMA NeverReached ==
  ASSUME RecurrenceInv, HorizonInv
  PROVE  ~HorizonReached
<1>0. currentHorizonEnd # NoHorizon =>
        currentHorizonEnd.end \in Nat /\ currentHorizonEnd.setOn \in Nat
  BY HorizonEndTyped DEF RecurrenceInv
<1> USE DEF RecurrenceInv, RecurrenceTypeOK
<1>1. now \in Nat /\ horizon \in Nat \ {0}
  BY RecurrenceAssumption
<1>2. CASE currentHorizonEnd = NoHorizon
  BY <1>1, <1>2 DEF NoHorizon, HorizonReached, MustBeLater
<1>3. CASE currentHorizonEnd # NoHorizon
  <2>1. /\ currentHorizonEnd.setOn <= now
        /\ currentHorizonEnd.end <= currentHorizonEnd.setOn + horizon
    BY <1>3 DEF HorizonInv
  <2>2. QED
    BY <1>0, <1>1, <1>3, <2>1 DEF HorizonReached, MustBeLater
<1>4. QED
  BY <1>2, <1>3

LEMMA HorizonStep ==
  ASSUME \A h \in Horizons : CreateHorizon <= h, ~resized',
         RecurrenceInv, HorizonInv, [RecurrenceNext]_recurrenceVars
  PROVE  HorizonInv'
<1>0. CreateTask => \E t \in Template, d \in job.dates, k \in 1 .. MaxCopies : Adds(t, d, k)
  BY CreateTaskNew
<1>2. currentHorizonEnd # NoHorizon =>
        currentHorizonEnd.end \in Nat /\ currentHorizonEnd.setOn \in Nat
  BY HorizonEndTyped DEF RecurrenceInv
<1> USE DEF RecurrenceInv, RecurrenceTypeOK, Job, HorizonInv, rows
<1>1. now \in Nat /\ horizon \in Nat /\ CreateHorizon \in Nat
  BY RecurrenceAssumption
<1>3. CASE FinishCreate
  <2>1. CASE UNCHANGED currentHorizonEnd
    BY <1>3, <2>1 DEF FinishCreate, NoJob
  <2>2. CASE currentHorizonEnd' = [end |-> job.end, setOn |-> now]
    BY <1>1, <1>3, <2>2 DEF FinishCreate, NoJob
  <2>3. QED
    BY <1>3, <2>1, <2>2 DEF FinishCreate
<1>4. CASE FinishExpand
  BY <1>1, <1>4 DEF FinishExpand, NoJob
<1>5. CASE Tick
  BY <1>1, <1>2, <1>5 DEF Tick
<1>6. CASE Crash
  BY <1>6 DEF Crash, NoJob
<1>7. CASE CreateTask
  BY <1>0, <1>7 DEF CreateTask, Adds
<1>8. CASE CreateInstance \/ HorizonReached \/ UNCHANGED recurrenceVars
  BY <1>8 DEF CreateInstance, HorizonReached, recurrenceVars
<1>9. CASE ExpandHorizon
  BY <1>9 DEF ExpandHorizon, NoJob
<1>16. CASE DeactivateTemplate
  BY <1>16 DEF DeactivateTemplate, NoJob
<1>10. ASSUME NEW t \in Template, NEW rule \in Patterns, CreateRecurringTask(t, rule)
       PROVE  HorizonInv'
  BY <1>10 DEF CreateRecurringTask, NoJob
<1>11. ASSUME NEW t \in job.queue, NextTemplate(t) PROVE HorizonInv'
  BY <1>11 DEF NextTemplate
<1>12. ASSUME NEW i \in Id, DeleteTask(i) \/ CompleteTask(i) PROVE HorizonInv'
  BY <1>12 DEF DeleteTask, CompleteTask, NoJob
<1>13. ASSUME NEW i \in job.ids, CancelInstance(i) PROVE HorizonInv'
  BY <1>13 DEF CancelInstance
<1>14. ASSUME NEW h \in Horizons, SetPreferences(h) PROVE HorizonInv'
  BY <1>14 DEF SetPreferences
<1>15. QED
  BY <1>3, <1>4, <1>5, <1>6, <1>7, <1>8, <1>9, <1>10, <1>11, <1>12, <1>13, <1>14, <1>16
     DEF RecurrenceNext

LEMMA ExpandStep ==
  ASSUME RecurrenceInv, HorizonInv, ExpandInv, HorizonCovered, ~resized',
         [RecurrenceNext]_recurrenceVars
  PROVE  ExpandInv' /\ HorizonCovered'
<1>0. CreateTask => \E t \in Template, d \in job.dates, k \in 1 .. MaxCopies : Adds(t, d, k)
  BY CreateTaskNew
<1>1. ~HorizonReached
  BY NeverReached
<1> USE DEF RecurrenceInv, RecurrenceTypeOK, Job, ExpandInv, HorizonCovered, Covered, rows
<1>2. ASSUME NEW t \in Template, NEW rule \in Patterns, CreateRecurringTask(t, rule)
      PROVE  ExpandInv' /\ HorizonCovered'
  BY <1>2 DEF CreateRecurringTask, NoJob
<1>3. CASE CreateTask
  <2>1. PICK t \in Template, d \in job.dates, k \in 1 .. MaxCopies : Adds(t, d, k)
    BY <1>0, <1>3
  <2>2. /\ job'.of = job.of /\ job'.dates = job.dates /\ job'.op = job.op
        /\ job'.queue = job.queue
    BY <2>1 DEF Adds
  <2>3. QED
    BY <1>3, <2>2 DEF CreateTask, InstancesOn
<1>4. CASE CreateInstance
  <2> DEFINE new == job.half
  <2>1. /\ new \in instances' /\ instances \subseteq instances' /\ job.of = {new[1]}
        /\ job'.dates = job.dates \ {new[2]} /\ job'.of = job.of /\ job'.op = job.op
        /\ job'.queue = job.queue
        /\ UNCHANGED <<series, pattern, createdOn, now, horizon, expanded, resized>>
    BY <1>4 DEF CreateInstance, HalfInv, JobInv
  <2>2. \A t, d : InstancesOn(t, d) \subseteq InstancesOn(t, d)'
    BY <2>1 DEF InstancesOn
  <2>3. \A t, o : t = new[1] /\ o = new[2] => new \in InstancesOn(t, DateOf[o])'
    BY <2>1 DEF InstancesOn
  <2>4. \A t, o : t \in job.of /\ o \in job.dates =>
          InstancesOn(t, DateOf[o])' # {} \/ (t \in job'.of /\ o \in job'.dates)
    BY <2>1, <2>3
  <2>5. ExpandInv'
    BY <2>1, <2>2, <2>4
  <2>6. HorizonCovered'
    BY <2>1, <2>2
  <2>7. QED
    BY <2>5, <2>6
<1>5. CASE FinishCreate
  BY <1>5 DEF FinishCreate, NoJob, InstancesOn
<1>6. CASE ExpandHorizon
  BY <1>6 DEF ExpandHorizon, NoJob, InstancesOn
<1>7. CASE FinishExpand
  BY <1>7 DEF FinishExpand, NoJob, InstancesOn
<1>8. ASSUME NEW t \in job.queue, NextTemplate(t) PROVE ExpandInv' /\ HorizonCovered'
  <2>1. PICK dates \in Occurrences(pattern[t], createdOn[t], job.end) :
          job' = [job EXCEPT !.queue = @ \ {t}, !.of = {t},
                             !.dates = NewDates(t, dates, createdOn[t], job.end)]
    BY <1>8 DEF NextTemplate
  <2>2. /\ job.op = "expand" /\ job.dates = {} /\ job.end = now + horizon
        /\ job'.of = {t} /\ job'.queue = job.queue \ {t}
        /\ job'.dates = NewDates(t, dates, createdOn[t], job.end)
        /\ UNCHANGED <<series, pattern, createdOn, instances, now, horizon, expanded, resized>>
    BY <1>8, <2>1 DEF NextTemplate, HorizonInv
  <2>3. \A d \in pattern[t] \cap (createdOn[t] .. now + horizon - 1) : d \in dates
    <3>1. now \in Nat /\ horizon \in Nat /\ createdOn[t] \in Nat
      BY RecurrenceAssumption
    <3>0. job.end = now + horizon
      BY <2>2
    <3> HIDE DEF RecurrenceInv, RecurrenceTypeOK, ExpandInv, HorizonCovered, Covered, Job, rows
    <3>2. job.end \in Nat /\ \A d \in pattern[t] \cap (createdOn[t] .. job.end - 1) : d \in dates
      BY <3>0, <3>1, OccurrencesReachEnd
    <3>3. QED
      BY <3>0, <3>1, <3>2
  <2>4. \A d \in ExistingDates(t, createdOn[t], job.end) : InstancesOn(t, d) # {}
    BY DEF ExistingDates, InstancesOn
  <2>5. ExpandInv'
    BY <2>2, <2>3, <2>4 DEF InstancesOn, NewDates
  <2>6. HorizonCovered'
    BY <2>2 DEF InstancesOn
  <2>7. QED
    BY <2>5, <2>6
<1>9. ASSUME NEW i \in Id, DeleteTask(i) PROVE ExpandInv' /\ HorizonCovered'
  BY <1>9 DEF DeleteTask, NoJob, InstancesOn
<1>16. ASSUME NEW i \in Id, CompleteTask(i) PROVE ExpandInv' /\ HorizonCovered'
  BY <1>16 DEF CompleteTask, InstancesOn
<1>10. ASSUME NEW i \in job.ids, CancelInstance(i) PROVE ExpandInv' /\ HorizonCovered'
  BY <1>10 DEF CancelInstance, InstancesOn
<1>11. CASE DeactivateTemplate
  <2>1. PICK t \in Template : series' = [series EXCEPT ![t] = "inactive"]
    BY <1>11 DEF DeactivateTemplate, JobInv
  <2>2. job'.op = "none"
    BY <1>11 DEF DeactivateTemplate, NoJob
  <2>3. QED
    BY <1>11, <2>1, <2>2 DEF DeactivateTemplate, InstancesOn
<1>12. ASSUME NEW h \in Horizons, SetPreferences(h) PROVE FALSE
  BY <1>12 DEF SetPreferences
<1>13. CASE Tick \/ Crash
  BY <1>13 DEF Tick, Crash, NoJob
<1>14. CASE UNCHANGED recurrenceVars
  BY <1>14 DEF recurrenceVars, InstancesOn
<1>15. QED
  BY <1>1, <1>2, <1>3, <1>4, <1>5, <1>6, <1>7, <1>8, <1>9, <1>10, <1>11, <1>12, <1>13, <1>14,
     <1>16 DEF RecurrenceNext

\* After every expansion each active series has an instance on every date of its
\* rule up to the horizon, if that is no shorter than create_task's own and is left alone.
THEOREM HorizonIsCovered ==
  ASSUME \A h \in Horizons : CreateHorizon <= h
  PROVE  RecurrenceSpec => []HorizonCovered
<1>1. ASSUME [RecurrenceNext]_recurrenceVars, ~resized' PROVE ~resized
  <2> USE DEF rows
  <2>1. ASSUME NEW t \in Template, NEW rule \in Patterns, CreateRecurringTask(t, rule)
        PROVE  resized' = resized
    BY <2>1 DEF CreateRecurringTask
  <2>2. ASSUME NEW i \in Id, DeleteTask(i) \/ CompleteTask(i) PROVE resized' = resized
    BY <2>2 DEF DeleteTask, CompleteTask
  <2>3. QED
    BY <1>1, <2>1, <2>2
       DEF RecurrenceNext, CreateTask, CreateInstance, FinishCreate, ExpandHorizon,
           HorizonReached, FinishExpand, NextTemplate, CancelInstance, DeactivateTemplate,
           SetPreferences, Tick, Crash, recurrenceVars
<1>2. RecurrenceInv /\ CoverInv /\ [RecurrenceNext]_recurrenceVars => CoverInv'
  BY <1>1, HorizonStep, ExpandStep DEF CoverInv
<1>3. CoverInv => HorizonCovered
  BY DEF CoverInv, HorizonCovered
<1>4. QED
  BY <1>2, <1>3, CoverInit, RecurrenceInvariance, PTL DEF RecurrenceSpec
=============================================================================
