----------------------------- MODULE Recurrence -----------------------------
(***************************************************************************)
(* engine/recurrence-manager.ts and storage/recurrence-repository.ts: the  *)
(* series a client creates, the instances expandHorizon adds at the start  *)
(* of every replan, and the end of a series. Each statement that commits   *)
(* is a step, so the process can die between the row of a task and the row *)
(* of its instance.                                                        *)
(*                                                                         *)
(* Time is counted in moments, so fine that a rule has at most one         *)
(* occurrence in a moment; DateOf gives the date a moment is on, and a     *)
(* rule may have several occurrences on a date. What comes first within a  *)
(* moment matters in two places, and is left open there: whether the last  *)
(* moment of a horizon still holds an occurrence, and which of two         *)
(* horizons that end in one moment is later.                               *)
(***************************************************************************)
EXTENDS Integers, FiniteSets, FiniteSetsExt

CONSTANTS
  Template,        \* the ids of recurrence templates
  Patterns,        \* bound: the sets of moments an RRULE may stand for
  DateOf,          \* the date of a moment
  CreateHorizon,   \* create_task's own horizon: 28 days, in moments
  Horizons,        \* bound: the values of scheduling_horizon_weeks, in moments
  LastMoment,      \* bound: the last moment at which anything is done
  MaxCopies,       \* bound: the tasks created for one occurrence of a series
  MaxCompleted     \* bound: the tasks completed

Moment == 0 .. LastMoment + Max(Horizons \cup {CreateHorizon})

ASSUME RecurrenceAssumption ==
  /\ CreateHorizon \in Nat \ {0} /\ Horizons \subseteq Nat \ {0} /\ IsFiniteSet(Horizons)
  /\ LastMoment \in Nat /\ MaxCopies \in Nat \ {0} /\ MaxCompleted \in Nat
  /\ Patterns \subseteq SUBSET Nat
  /\ DateOf \in [Moment -> Nat]
  /\ \A m, n \in Moment : m <= n => DateOf[m] <= DateOf[n]

VARIABLES            \* the database
  series,            \* recurrence_templates: absent, active or inactive
  pattern,           \* rrule
  createdOn,         \* created_at
  status,            \* tasks, known by series, occurrence and number
  instances,         \* recurrence_instances: the tasks that have a row
  horizon            \* scheduling_horizon_weeks

VARIABLES            \* memory
  currentHorizonEnd, \* with the moment it was set; NoHorizon if undefined
  job,               \* the manager's method on the stack and its locals
  now

VARIABLES            \* history: read by the properties only
  expanded,          \* expandHorizon has returned since anything changed
  resized,           \* scheduling_horizon_weeks has been changed
  deletedOn          \* the moment a series was deactivated

rows == <<series, pattern, createdOn, status, instances, horizon>>
recurrenceVars == <<rows, currentHorizonEnd, job, now, expanded, resized, deletedOn>>

Id == Template \X Moment \X (1 .. MaxCopies)
NoId == <<>>

NoHorizon == [end |-> -1, setOn |-> -1]

\* op: the method; of: its template; dates: the occurrences still to generate;
\* half: the task whose instance row is not in yet; queue: the templates still
\* to expand; ids: the tasks still to cancel; end: the new horizon.
NoJob == [op |-> "none", of |-> {}, dates |-> {}, half |-> NoId, queue |-> {}, ids |-> {},
          end |-> 0]

Job == [op : {"none", "create", "expand", "delete"}, of : SUBSET Template, dates : SUBSET Moment,
        half : Id \cup {NoId}, queue : SUBSET Template, ids : SUBSET Id, end : Moment]

RecurrenceTypeOK ==
  /\ series \in [Template -> {"absent", "active", "inactive"}]
  /\ pattern \in [Template -> Patterns \cup {{}}]
  /\ createdOn \in [Template -> 0 .. LastMoment]
  /\ status \in [Id -> {"absent", "open", "completed", "cancelled"}]
  /\ instances \subseteq {i \in Id : status[i] # "absent"}
  /\ horizon \in Horizons
  /\ currentHorizonEnd = NoHorizon \/ currentHorizonEnd \in [end : Moment, setOn : 0 .. LastMoment]
  /\ job \in Job
  /\ now \in 0 .. LastMoment
  /\ expanded \in BOOLEAN /\ resized \in BOOLEAN /\ deletedOn \in [Template -> 0 .. LastMoment]

RecurrenceInit ==
  /\ series = [t \in Template |-> "absent"]
  /\ pattern = [t \in Template |-> {}]
  /\ createdOn = [t \in Template |-> 0]
  /\ status = [i \in Id |-> "absent"]
  /\ instances = {}
  /\ horizon \in Horizons
  /\ currentHorizonEnd = NoHorizon
  /\ job = NoJob
  /\ now = 0
  /\ expanded = FALSE /\ resized = FALSE /\ deletedOn = [t \in Template |-> 0]

-----------------------------------------------------------------------------
(***************************************************************************)
(* generateInstancesForTemplate                                            *)
(***************************************************************************)
\* rule.between(start, end, true): all occurrences of the rule, also several on
\* a date; the moment the horizon ends in has its occurrence if that is not later
\* than the horizon's end.
Occurrences(rule, start, end) ==
  {rule \cap (start .. last) : last \in {end - 1, end}}

\* Mutant: a date counts as taken only while its task is open.
ExistingDatesOpen(t, start, end) ==
  {DateOf[i[2]] : i \in {i \in instances : /\ i[1] = t /\ status[i] = "open"
                                           /\ DateOf[start] < DateOf[i[2]]
                                           /\ DateOf[i[2]] <= DateOf[end]}}

\* existingDates. A scheduled_date is compared with full timestamps: the date of
\* `start` itself sorts before `start`, so its instances are not found.
ExistingDates(t, start, end) ==
  {DateOf[i[2]] : i \in {i \in instances : /\ i[1] = t
                                           /\ DateOf[start] < DateOf[i[2]]
                                           /\ DateOf[i[2]] <= DateOf[end]}}

\* The occurrences the loop does not skip. existingDates is read once, before the
\* first insert: it holds back the dates of earlier calls, not those of this one.
NewDates(t, dates, start, end) ==
  {o \in dates : DateOf[o] \notin ExistingDates(t, start, end)}

\* Mutant: the row of the instance is written for a task that is not in yet.
CreateTaskLate ==
  /\ job.op \in {"create", "expand"}
  /\ job.half = NoId /\ job.dates # {}
  /\ LET t == CHOOSE t \in job.of : TRUE
         o == Min(job.dates)
     IN  job' = [job EXCEPT !.half = <<t, o, 1>>]
  /\ UNCHANGED <<rows, currentHorizonEnd, now, expanded, resized, deletedOn>>

CreateTask ==
  /\ job.op \in {"create", "expand"}
  /\ job.half = NoId /\ job.dates # {}
  /\ LET t == CHOOSE t \in job.of : TRUE
         o == Min(job.dates)
         k == Min({k \in 1 .. MaxCopies : status[<<t, o, k>>] = "absent"})
     IN  /\ status' = [status EXCEPT ![<<t, o, k>>] = "open"]
         /\ job' = [job EXCEPT !.half = <<t, o, k>>]
  /\ UNCHANGED <<series, pattern, createdOn, instances, horizon, currentHorizonEnd, now,
                 expanded, resized, deletedOn>>

CreateInstance ==
  /\ job.half # NoId
  /\ instances' = instances \cup {job.half}
  /\ job' = [job EXCEPT !.half = NoId, !.dates = @ \ {job.half[2]}]
  /\ UNCHANGED <<series, pattern, createdOn, status, horizon, currentHorizonEnd, now,
                 expanded, resized, deletedOn>>

-----------------------------------------------------------------------------
(***************************************************************************)
(* createRecurringTask: the template, then its instances.                  *)
(***************************************************************************)
CreateRecurringTask(t, rule) ==
  /\ job.op = "none"
  /\ series[t] = "absent"
  /\ series' = [series EXCEPT ![t] = "active"]
  /\ pattern' = [pattern EXCEPT ![t] = rule]
  /\ createdOn' = [createdOn EXCEPT ![t] = now]
  /\ \E dates \in Occurrences(rule, now, now + CreateHorizon) :
       job' = [NoJob EXCEPT !.op = "create", !.of = {t}, !.dates = dates,
                            !.end = now + CreateHorizon]
  /\ expanded' = FALSE
  /\ UNCHANGED <<status, instances, horizon, currentHorizonEnd, now, resized, deletedOn>>

\* horizonEnd > currentHorizonEnd, for the later of two that end in one moment.
MayBeLater(end) ==
  \/ end > currentHorizonEnd.end
  \/ end = currentHorizonEnd.end
MustBeLater(end) ==
  \/ end > currentHorizonEnd.end
  \/ end = currentHorizonEnd.end /\ currentHorizonEnd.setOn = now

FinishCreate ==
  /\ job.op = "create"
  /\ job.dates = {}
  /\ \/ MayBeLater(job.end) /\ currentHorizonEnd' = [end |-> job.end, setOn |-> now]
     \/ ~MustBeLater(job.end) /\ UNCHANGED currentHorizonEnd
  /\ job' = NoJob
  /\ UNCHANGED <<rows, now, expanded, resized, deletedOn>>

(***************************************************************************)
(* expandHorizon, called at the start of every replan.                     *)
(***************************************************************************)
\* Bound: no occurrence of a series has reached MaxCopies.
RoomForCopies == \A t \in Template, o \in Moment : status[<<t, o, MaxCopies>>] = "absent"

\* Mutant: inactive templates are expanded like active ones.
ExpandHorizonOfAll ==
  /\ job.op = "none" /\ RoomForCopies
  /\ MayBeLater(now + horizon)
  /\ job' = [NoJob EXCEPT !.op = "expand", !.end = now + horizon,
                          !.queue = {t \in Template : series[t] # "absent"}]
  /\ UNCHANGED <<rows, currentHorizonEnd, now, expanded, resized, deletedOn>>

ExpandHorizon ==
  /\ job.op = "none" /\ RoomForCopies
  /\ MayBeLater(now + horizon)
  /\ job' = [NoJob EXCEPT !.op = "expand", !.end = now + horizon,
                          !.queue = {t \in Template : series[t] = "active"}]
  /\ UNCHANGED <<rows, currentHorizonEnd, now, expanded, resized, deletedOn>>

\* newHorizonEnd <= this.currentHorizonEnd: nothing to do.
HorizonReached ==
  /\ job.op = "none"
  /\ ~MustBeLater(now + horizon)
  /\ expanded' = TRUE
  /\ UNCHANGED <<rows, currentHorizonEnd, job, now, resized, deletedOn>>

\* Mutant: the instances are generated from now on, not from the creation on.
NextTemplateFromNow(t) ==
  /\ job.op = "expand"
  /\ job.dates = {}
  /\ \E dates \in Occurrences(pattern[t], now, job.end) :
       job' = [job EXCEPT !.queue = @ \ {t}, !.of = {t},
                          !.dates = NewDates(t, dates, now, job.end)]
  /\ UNCHANGED <<rows, currentHorizonEnd, now, expanded, resized, deletedOn>>

\* getActiveTemplates: in the order they were created in.
NextTemplate(t) ==
  /\ job.op = "expand"
  /\ job.dates = {}
  /\ \A u \in job.queue : createdOn[t] <= createdOn[u]
  /\ \E dates \in Occurrences(pattern[t], createdOn[t], job.end) :
       job' = [job EXCEPT !.queue = @ \ {t}, !.of = {t},
                          !.dates = NewDates(t, dates, createdOn[t], job.end)]
  /\ UNCHANGED <<rows, currentHorizonEnd, now, expanded, resized, deletedOn>>

FinishExpand ==
  /\ job.op = "expand"
  /\ job.dates = {} /\ job.queue = {}
  /\ currentHorizonEnd' = [end |-> job.end, setOn |-> now]
  /\ job' = NoJob
  /\ expanded' = TRUE
  /\ UNCHANGED <<rows, now, resized, deletedOn>>

(***************************************************************************)
(* delete_task on an instance ends its series: the task first, then, one   *)
(* by one, the instances from now on, and last the template.               *)
(***************************************************************************)
DeleteTask(i) ==
  /\ job.op = "none"
  /\ status[i] = "open"
  /\ status' = [status EXCEPT ![i] = "cancelled"]
  /\ job' = [NoJob EXCEPT !.op = "delete", !.of = {i[1]},
                          !.ids = {j \in instances : j[1] = i[1] /\ DateOf[j[2]] >= DateOf[now]}]
  /\ UNCHANGED <<series, pattern, createdOn, instances, horizon, currentHorizonEnd, now,
                 expanded, resized, deletedOn>>

\* Mutant: completed instances are cancelled like the others.
CancelInstanceAlways(i) ==
  /\ job.op = "delete"
  /\ status' = [status EXCEPT ![i] = "cancelled"]
  /\ job' = [job EXCEPT !.ids = @ \ {i}]
  /\ UNCHANGED <<series, pattern, createdOn, instances, horizon, currentHorizonEnd, now,
                 expanded, resized, deletedOn>>

\* getInstances: in the order of their dates.
CancelInstance(i) ==
  /\ job.op = "delete"
  /\ \A j \in job.ids : DateOf[i[2]] <= DateOf[j[2]]
  /\ status' = IF status[i] = "open" THEN [status EXCEPT ![i] = "cancelled"] ELSE status
  /\ job' = [job EXCEPT !.ids = @ \ {i}]
  /\ UNCHANGED <<series, pattern, createdOn, instances, horizon, currentHorizonEnd, now,
                 expanded, resized, deletedOn>>

DeactivateTemplate ==
  /\ job.op = "delete"
  /\ job.ids = {}
  /\ LET t == CHOOSE t \in job.of : TRUE
     IN  /\ series' = [series EXCEPT ![t] = "inactive"]
         /\ deletedOn' = [deletedOn EXCEPT ![t] = IF series[t] = "inactive" THEN @ ELSE now]
  /\ job' = NoJob
  /\ UNCHANGED <<pattern, createdOn, status, instances, horizon, currentHorizonEnd, now,
                 expanded, resized>>

-----------------------------------------------------------------------------
(***************************************************************************)
(* Around the manager.                                                     *)
(***************************************************************************)
CompleteTask(i) ==
  /\ job.op = "none"
  /\ status[i] = "open"
  /\ Cardinality({j \in Id : status[j] = "completed"}) < MaxCompleted
  /\ status' = [status EXCEPT ![i] = "completed"]
  /\ UNCHANGED <<series, pattern, createdOn, instances, horizon, currentHorizonEnd, job, now,
                 expanded, resized, deletedOn>>

SetPreferences(h) ==
  /\ job.op = "none"
  /\ h # horizon
  /\ horizon' = h
  /\ resized' = TRUE
  /\ expanded' = FALSE
  /\ UNCHANGED <<series, pattern, createdOn, status, instances, currentHorizonEnd, job, now,
                 deletedOn>>

Tick ==
  /\ job.op = "none"
  /\ now < LastMoment
  /\ now' = now + 1
  /\ expanded' = FALSE
  /\ UNCHANGED <<rows, currentHorizonEnd, job, resized, deletedOn>>

Crash ==
  /\ job' = NoJob
  /\ currentHorizonEnd' = NoHorizon
  /\ expanded' = FALSE
  /\ UNCHANGED <<rows, now, resized, deletedOn>>

RecurrenceNext ==
  \/ \E t \in Template, rule \in Patterns : CreateRecurringTask(t, rule)
  \/ CreateTask \/ CreateInstance \/ FinishCreate
  \/ ExpandHorizon \/ HorizonReached \/ FinishExpand
  \/ \E t \in job.queue : NextTemplate(t)
  \/ \E i \in Id : DeleteTask(i) \/ CompleteTask(i)
  \/ \E i \in job.ids : CancelInstance(i)
  \/ DeactivateTemplate
  \/ \E h \in Horizons : SetPreferences(h)
  \/ Tick \/ Crash

RecurrenceSpec == RecurrenceInit /\ [][RecurrenceNext]_recurrenceVars

-----------------------------------------------------------------------------
\* The instances of a series on a date, and for an occurrence on it.
InstancesOn(t, date) == {i \in instances : i[1] = t /\ DateOf[i[2]] = date}
InstancesOf(t, o) == {i \in instances : i[1] = t /\ i[2] = o}

\* An occurrence of a series on a later date than the one it was created on has
\* one instance, however often the horizon is expanded, moved or forgotten, and
\* whether its task is open, completed or cancelled.
OncePerLaterOccurrence ==
  \A t \in Template : \A o \in Moment :
    DateOf[o] > DateOf[createdOn[t]] => Cardinality(InstancesOf(t, o)) <= 1

\* A series that was ended has no open instance from that date on: expansions,
\* restarts and half-done deletes do not bring one back.
EndedSeriesStaysEnded ==
  \A i \in instances :
    series[i[1]] = "inactive" /\ DateOf[i[2]] >= DateOf[deletedOn[i[1]]] => status[i] # "open"

\* business-rules.md RR-1.4: completed instances are never modified or cancelled.
CompletedIsKept ==
  [][\A i \in Id : status[i] = "completed" => status'[i] = "completed"]_recurrenceVars

Covered(t) ==
  \A o \in pattern[t] \cap (createdOn[t] .. now + horizon - 1) : InstancesOn(t, DateOf[o]) # {}

\* When expandHorizon has returned, every active series has an instance on every
\* date its rule gives up to the scheduling horizon, as long as that horizon has
\* never been changed and is no shorter than create_task's own.
HorizonCovered ==
  expanded /\ ~resized => \A t \in Template : series[t] = "active" => Covered(t)

\* business-rules.md RR-2.1: "Instances are generated for dates within
\* [now, horizonEnd]", here of every active series after every expansion.
HorizonAlwaysCovered ==
  expanded => \A t \in Template : series[t] = "active" => Covered(t)

\* business-rules.md RR-2.5: "instances are not generated for dates that already
\* have a RecurrenceInstance record".
NoDuplicates ==
  \A t \in Template : \A o \in Moment : Cardinality(InstancesOn(t, DateOf[o])) <= 1
=============================================================================
