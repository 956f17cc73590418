---------------------------- MODULE Availability ----------------------------
(***************************************************************************)
(* What the scheduler may plan into: the table of events, the weekly       *)
(* availability windows and the scheduling horizon, the tools that change  *)
(* them, and the free slots the next replan would compute from them        *)
(* (findInRange, then buildAvailabilityMap) at the present moment.         *)
(*                                                                         *)
(* Time is counted in instants of equal length, DayLength to a day; an     *)
(* interval holds the instants from .. to - 1. Every tool also requests a  *)
(* replan, which is Calendar's ChangeInputs.                               *)
(***************************************************************************)
EXTENDS Integers, FiniteSets

CONSTANTS
  Event,           \* event ids
  NoEvent,         \* no row has the id
  Null,            \* SQL NULL
  Absent,          \* a field an update_event call leaves out
  DayLength,       \* instants in a day
  WeekLength,      \* days in a week
  EventTimes,      \* bound: the times events start and end at
  EventDays,       \* bound: the dates of all-day events
  WindowTables,    \* bound: what set_availability may be given
  Horizons,        \* bound: scheduling_horizon_weeks
  LastInstant      \* bound: the clock stops here

ASSUME AvailabilityAssumption ==
  /\ DayLength \in Nat \ {0} /\ WeekLength \in Nat \ {0} /\ LastInstant \in Nat
  /\ EventTimes \subseteq Nat /\ EventDays \subseteq Nat /\ Horizons \subseteq Nat \ {0}
  /\ Null \notin Nat /\ Absent \notin Nat /\ Absent \notin BOOLEAN

VARIABLES
  now,
  events,          \* table events
  windows,         \* table config_availability, by day of the week
  horizon          \* the preference scheduling_horizon_weeks

inputVars == <<now, events, windows, horizon>>

Time == Nat \cup {Null}
Row == [allDay : BOOLEAN, start : Time, end : Time, date : Time]

\* validateDayAndTime: a window lies within its day and ends after its start.
DayWindow == {w \in [from : 0 .. DayLength, to : 0 .. DayLength] : w.from < w.to}
WindowTable == [0 .. WeekLength - 1 -> SUBSET DayWindow]

AvailabilityTypeOK ==
  /\ now \in 0 .. LastInstant
  /\ events \in [Event -> Row \cup {NoEvent}]
  /\ windows \in WindowTable
  /\ horizon \in Horizons

Stored == {e \in Event : events[e] # NoEvent}

\* A fresh database: no availability is configured.
AvailabilityInit ==
  /\ now = 0
  /\ events = [e \in Event |-> NoEvent]
  /\ windows = [d \in 0 .. WeekLength - 1 |-> {}]
  /\ horizon \in Horizons

-----------------------------------------------------------------------------
(***************************************************************************)
(* The event tools.                                                        *)
(***************************************************************************)
TimedEvent(from, to) == [allDay |-> FALSE, start |-> from, end |-> to, date |-> Null]
AllDayEvent(day) == [allDay |-> TRUE, start |-> Null, end |-> Null, date |-> day]

CreateEvent(e) ==
  /\ events[e] = NoEvent
  /\ \/ \E from, to \in EventTimes :
          from < to /\ events' = [events EXCEPT ![e] = TimedEvent(from, to)]
     \/ \E day \in EventDays : events' = [events EXCEPT ![e] = AllDayEvent(day)]
  /\ UNCHANGED <<now, windows, horizon>>

\* The fields of an update_event call.
EventUpdates ==
  [allDay : BOOLEAN \cup {Absent}, start : EventTimes \cup {Absent},
   end : EventTimes \cup {Absent}, date : EventDays \cup {Absent}]

\* Mutant: an event may be made all-day without a day.
ValidEventUpdateNoDate(u) ==
  u.start # Absent /\ u.end # Absent => u.start < u.end

\* validateUpdateEventInput looks at the call only, never at the stored row.
ValidEventUpdate(u) ==
  /\ u.start # Absent /\ u.end # Absent => u.start < u.end
  /\ u.allDay = TRUE => u.date # Absent

Merge(old, new) == IF new = Absent THEN old ELSE new

UpdateEvent(e) ==
  /\ e \in Stored
  /\ \E u \in EventUpdates :
       /\ ValidEventUpdate(u)
       /\ events' = [events EXCEPT ![e] =
            [f \in DOMAIN @ |-> Merge(@[f], u[f])]]
  /\ UNCHANGED <<now, windows, horizon>>

DeleteEvent(e) ==
  /\ e \in Stored
  /\ events' = [events EXCEPT ![e] = NoEvent]
  /\ UNCHANGED <<now, windows, horizon>>

(***************************************************************************)
(* The configuration tools: the windows are replaced in one transaction,   *)
(* which the primary key (day, start_time) undoes when two windows of a    *)
(* day start together; windows that overlap otherwise are accepted.        *)
(***************************************************************************)
\* Mutant: nothing is checked.
SetAvailabilityUnchecked ==
  /\ windows' \in WindowTables
  /\ UNCHANGED <<now, events, horizon>>

SetAvailability ==
  /\ windows' \in WindowTables \cap WindowTable
  /\ \E d \in DOMAIN windows' : windows'[d] # {}
  /\ \A d \in DOMAIN windows' : \A v, w \in windows'[d] : v.from = w.from => v = w
  /\ UNCHANGED <<now, events, horizon>>

SetHorizon ==
  /\ horizon' \in Horizons
  /\ UNCHANGED <<now, events, windows>>

Tick ==
  /\ now < LastInstant
  /\ now' = now + 1
  /\ UNCHANGED <<events, windows, horizon>>

AvailabilityNext ==
  \/ \E e \in Event : CreateEvent(e) \/ UpdateEvent(e) \/ DeleteEvent(e)
  \/ SetAvailability \/ SetHorizon \/ Tick

AvailabilitySpec == AvailabilityInit /\ [][AvailabilityNext]_inputVars

-----------------------------------------------------------------------------
(***************************************************************************)
(* The calendar of the horizon.                                            *)
(***************************************************************************)
Day(i) == i \div DayLength
Midnight(d) == d * DayLength

\* executeReplan: from today's midnight, but to the present time of day.
HorizonStart == Midnight(Day(now))
HorizonEnd == now + Midnight(horizon * WeekLength)

(***************************************************************************)
(* findInRange. A comparison with NULL is never true.                      *)
(***************************************************************************)
\* Mutant: only the events that start within the range.
TimedInStarting(r, from, to) ==
  /\ ~r.allDay
  /\ r.start # Null /\ r.end # Null
  /\ from <= r.start /\ r.start < to

TimedIn(r, from, to) ==
  /\ ~r.allDay
  /\ r.start # Null /\ r.start < to
  /\ r.end # Null /\ r.end > from

AllDayIn(r, first, last) == r.allDay /\ r.date # Null /\ first <= r.date /\ r.date <= last

FindInRange(from, to, first, last) ==
  {events[e] : e \in {e \in Stored : TimedIn(events[e], from, to) \/ AllDayIn(events[e], first, last)}}

\* list_events from one day to the same day, whose last millisecond is the end.
ListEvents(d) == FindInRange(Midnight(d), Midnight(d + 1), d, d)

LoadedEvents == FindInRange(HorizonStart, HorizonEnd, Day(HorizonStart), Day(HorizonEnd))

(***************************************************************************)
(* buildAvailabilityMap.                                                   *)
(***************************************************************************)
\* Mutant: the loop stops before a day it cannot finish.
WholeDays == {d \in Day(HorizonStart) .. Day(HorizonEnd) : Midnight(d + 1) <= HorizonEnd}

\* The loop steps from midnight to midnight while it is before the end.
VisitedDays == {d \in Day(HorizonStart) .. Day(HorizonEnd) : Midnight(d) < HorizonEnd}

AllDayBlocked(d) == \E r \in LoadedEvents : r.allDay /\ r.date = d

WindowsOf(d) ==
  {[from |-> Midnight(d) + w.from, to |-> Midnight(d) + w.to] : w \in windows[d % WeekLength]}

\* collectBlockers and clipToWindow.
BlockersIn(w) ==
  {[from |-> IF r.start < w.from THEN w.from ELSE r.start,
    to   |-> IF r.end > w.to THEN w.to ELSE r.end] :
     r \in {r \in LoadedEvents : /\ ~r.allDay /\ r.start # Null /\ r.end # Null
                                 /\ r.start < w.to /\ r.end > w.from}}

\* subtractBlockers: the cursor, once the blockers of B are behind it.
Cursor(w, B) == CHOOSE c \in {w.from} \cup {b.to : b \in B} :
                  c >= w.from /\ \A b \in B : c >= b.to

Ahead(b, B) == {c \in B : c.from < b.from}

FreeSlots(w) ==
  LET B == BlockersIn(w)
      gaps == {[from |-> Cursor(w, Ahead(b, B)), to |-> b.from] : b \in B}
              \cup {[from |-> Cursor(w, B), to |-> w.to]}
  IN  {g \in gaps : g.from < g.to}

AvailabilityMap ==
  UNION {UNION {FreeSlots(w) : w \in WindowsOf(d)} : d \in {d \in VisitedDays : ~AllDayBlocked(d)}}

-----------------------------------------------------------------------------
Offered(i) == \E s \in AvailabilityMap : s.from <= i /\ i < s.to

Occupies(r, i) ==
  IF r.allDay THEN Day(i) = r.date
  ELSE r.start # Null /\ r.end # Null /\ r.start <= i /\ i < r.end

\* An all-day event always has the day it blocks, whichever of its fields were
\* changed in whichever order: the checks of update_event see one call each.
AllDayHasDate == \A e \in Stored : events[e].allDay => events[e].date # Null

\* Up to the end of the horizon no event's time is offered to a task, for
\* events of any shape: under way at midnight, over several days, nested, of
\* the length nought an update may leave behind.
OfferedTimeIsFree ==
  \A s \in AvailabilityMap : \A i \in s.from .. s.to - 1 :
    i < HorizonEnd => \A e \in Stored : ~Occupies(events[e], i)

\* No time is lost: an instant of a window within the horizon at which
\* list_events shows no event is offered. A replan and the listing, which ask
\* the table for different ranges, agree on what is in the way.
FreeTimeIsOffered ==
  \A i \in HorizonStart .. HorizonEnd - 1 :
    /\ \E w \in WindowsOf(Day(i)) : w.from <= i /\ i < w.to
    /\ \A r \in ListEvents(Day(i)) : ~Occupies(r, i)
    => Offered(i)
=============================================================================
