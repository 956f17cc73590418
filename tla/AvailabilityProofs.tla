------------------------- MODULE AvailabilityProofs -------------------------
(***************************************************************************)
(* The tables of events and windows, for any events, times, windows and    *)
(* lengths of day, week and horizon.                                       *)
(***************************************************************************)
EXTENDS Availability, FiniteSetLemmas

\* Updates are merged into the stored row one call at a time, so that a stored
\* all-day event keeps its date takes the types as well.
EventsInv == AvailabilityTypeOK /\ AllDayHasDate

LEMMA EventsInit == AvailabilityInit => EventsInv
BY AvailabilityAssumption
   DEF AvailabilityInit, EventsInv, AvailabilityTypeOK, AllDayHasDate, Stored,
       WindowTable, DayWindow

\* A valid update of a row with a date, where it needs one, leaves such a row.
LEMMA MergedRow ==
  ASSUME NEW r \in Row, r.allDay => r.date # Null,
         NEW u \in EventUpdates, ValidEventUpdate(u)
  PROVE  LET m == [f \in DOMAIN r |-> Merge(r[f], u[f])]
         IN  m \in Row /\ (m.allDay => m.date # Null)
<1> DEFINE m == [f \in DOMAIN r |-> Merge(r[f], u[f])]
<1>1. DOMAIN r = {"allDay", "start", "end", "date"}
  BY DEF Row
<1>2. m = [allDay |-> Merge(r.allDay, u.allDay), start |-> Merge(r.start, u.start),
           end |-> Merge(r.end, u.end), date |-> Merge(r.date, u.date)]
  BY <1>1
<1>3. /\ Merge(r.allDay, u.allDay) \in BOOLEAN
      /\ Merge(r.start, u.start) \in Time /\ Merge(r.end, u.end) \in Time
      /\ Merge(r.date, u.date) \in Time
  BY AvailabilityAssumption DEF Merge, Row, EventUpdates, Time
<1>4. Merge(r.allDay, u.allDay) => Merge(r.date, u.date) # Null
  <2>1. CASE u.date = Absent
    <3>1. u.allDay # TRUE
      BY <2>1 DEF ValidEventUpdate
    <3>2. Merge(r.allDay, u.allDay) => r.allDay
      BY <3>1 DEF Merge, EventUpdates
    <3>3. QED
      BY <2>1, <3>2 DEF Merge
  <2>2. CASE u.date # Absent
    BY <2>2, AvailabilityAssumption DEF Merge, EventUpdates
  <2>3. QED
    BY <2>1, <2>2
<1>5. QED
  BY <1>2, <1>3, <1>4 DEF Row

LEMMA EventsStep == EventsInv /\ [AvailabilityNext]_inputVars => EventsInv'
<1> SUFFICES ASSUME EventsInv, [AvailabilityNext]_inputVars PROVE EventsInv'
  OBVIOUS
<1> USE AvailabilityAssumption DEF EventsInv, AvailabilityTypeOK, AllDayHasDate, Stored
<1>1. ASSUME NEW e \in Event, NEW r \in Row \cup {NoEvent},
             events' = [events EXCEPT ![e] = r], UNCHANGED <<now, windows, horizon>>,
             r # NoEvent => (r.allDay => r.date # Null)
      PROVE  EventsInv'
  BY <1>1
<1>2. ASSUME NEW e \in Event, CreateEvent(e) PROVE EventsInv'
  <2>1. PICK r \in Row : /\ events' = [events EXCEPT ![e] = r]
                         /\ r.allDay => r.date # Null
    <3>1. ASSUME NEW from \in EventTimes, NEW to \in EventTimes
          PROVE  TimedEvent(from, to) \in Row /\ ~TimedEvent(from, to).allDay
      BY <3>1 DEF TimedEvent, Row, Time
    <3>2. ASSUME NEW day \in EventDays
          PROVE  AllDayEvent(day) \in Row /\ AllDayEvent(day).date # Null
      BY <3>2 DEF AllDayEvent, Row, Time
    <3>3. QED
      BY <1>2, <3>1, <3>2 DEF CreateEvent
  <2>2. QED
    BY <1>1, <1>2, <2>1 DEF CreateEvent
<1>3. ASSUME NEW e \in Event, UpdateEvent(e) PROVE EventsInv'
  <2>1. PICK u \in EventUpdates :
          /\ ValidEventUpdate(u)
          /\ events' = [events EXCEPT ![e] = [f \in DOMAIN @ |-> Merge(@[f], u[f])]]
    BY <1>3 DEF UpdateEvent
  <2> DEFINE m == [f \in DOMAIN events[e] |-> Merge(events[e][f], u[f])]
  <2>2. events[e] \in Row /\ (events[e].allDay => events[e].date # Null)
    BY <1>3 DEF UpdateEvent
  <2>3. m \in Row /\ (m.allDay => m.date # Null)
    BY <2>1, <2>2, MergedRow
  <2>4. events' = [events EXCEPT ![e] = m] /\ UNCHANGED <<now, windows, horizon>>
    BY <1>3, <2>1 DEF UpdateEvent
  <2>5. QED
    BY <1>1, <2>3, <2>4
<1>4. ASSUME NEW e \in Event, DeleteEvent(e) PROVE EventsInv'
  BY <1>1, <1>4 DEF DeleteEvent
<1>5. CASE SetAvailability \/ SetHorizon \/ Tick \/ UNCHANGED inputVars
  BY <1>5 DEF SetAvailability, SetHorizon, Tick, inputVars
<1>6. QED
  BY <1>2, <1>3, <1>4, <1>5 DEF AvailabilityNext

LEMMA EventsInvariance == AvailabilitySpec => []EventsInv
BY EventsInit, EventsStep, PTL DEF AvailabilitySpec

\* Events, windows and horizon keep their types under every tool.
THEOREM AvailabilityTypeCorrect == AvailabilitySpec => []AvailabilityTypeOK
<1>1. EventsInv => AvailabilityTypeOK
  BY DEF EventsInv
<1>2. QED
  BY <1>1, EventsInvariance, PTL

\* No sequence of partial updates leaves an all-day event without its day.
THEOREM AllDayKeepsDate == AvailabilitySpec => []AllDayHasDate
<1>1. EventsInv => AllDayHasDate
  BY DEF EventsInv
<1>2. QED
  BY <1>1, EventsInvariance, PTL

-----------------------------------------------------------------------------
(***************************************************************************)
(* Days and their midnights.                                               *)
(***************************************************************************)
LEMMA DayFacts ==
  ASSUME NEW i \in Nat
  PROVE  /\ Day(i) \in Nat /\ Midnight(Day(i)) \in Nat
         /\ Midnight(Day(i)) <= i /\ i < Midnight(Day(i) + 1)
BY AvailabilityAssumption DEF Day, Midnight

LEMMA DayUnique ==
  ASSUME NEW i \in Nat, NEW d \in Nat, Midnight(d) <= i, i < Midnight(d + 1)
  PROVE  Day(i) = d
BY AvailabilityAssumption DEF Day, Midnight

LEMMA MidnightFacts ==
  ASSUME NEW d \in Nat
  PROVE  /\ Midnight(d) \in Nat /\ Midnight(d + 1) = Midnight(d) + DayLength
         /\ \A e \in Nat : e <= d => Midnight(e) <= Midnight(d)
BY AvailabilityAssumption DEF Midnight

LEMMA DayMonotonic ==
  ASSUME NEW i \in Nat, NEW j \in Nat, i <= j
  PROVE  Day(i) <= Day(j)
BY AvailabilityAssumption DEF Day

\* The horizon, and the windows of a day, which are within the day.
LEMMA HorizonFacts ==
  ASSUME AvailabilityTypeOK
  PROVE  /\ HorizonStart \in Nat /\ HorizonEnd \in Nat /\ Day(HorizonStart) \in Nat
         /\ Day(HorizonEnd) \in Nat
         /\ \A d \in Nat : Day(HorizonStart) <= d => HorizonStart <= Midnight(d)
<1>1. now \in Nat /\ horizon * WeekLength \in Nat
  BY AvailabilityAssumption DEF AvailabilityTypeOK
<1>2. HorizonStart \in Nat /\ HorizonEnd \in Nat
  <2>1. Midnight(horizon * WeekLength) \in Nat
    BY <1>1, MidnightFacts
  <2>2. QED
    BY <1>1, <2>1, DayFacts DEF HorizonStart, HorizonEnd
<1>3. Day(HorizonStart) = Day(now)
  <2>1. Day(now) \in Nat /\ Midnight(Day(now) + 1) = Midnight(Day(now)) + DayLength
    BY <1>1, DayFacts, MidnightFacts
  <2>2. QED
    BY <1>2, <2>1, DayUnique, AvailabilityAssumption DEF HorizonStart
<1>4. QED
  BY <1>1, <1>2, <1>3, DayFacts, MidnightFacts DEF HorizonStart

LEMMA WindowFacts ==
  ASSUME AvailabilityTypeOK, NEW d \in Nat, NEW w \in WindowsOf(d)
  PROVE  /\ w.from \in Nat /\ w.to \in Nat /\ w.from < w.to
         /\ Midnight(d) <= w.from /\ w.to <= Midnight(d + 1)
<1>1. PICK v \in windows[d % WeekLength] :
        w = [from |-> Midnight(d) + v.from, to |-> Midnight(d) + v.to]
  BY DEF WindowsOf
<1>2. d % WeekLength \in 0 .. WeekLength - 1
  BY AvailabilityAssumption
<1>3. v \in DayWindow
  BY <1>1, <1>2 DEF AvailabilityTypeOK, WindowTable
<1>4. /\ v.from \in Nat /\ v.to \in Nat /\ v.from < v.to /\ v.to <= DayLength
      /\ w.from = Midnight(d) + v.from /\ w.to = Midnight(d) + v.to
  BY <1>1, <1>3, AvailabilityAssumption DEF DayWindow
<1>5. Midnight(d) \in Nat /\ Midnight(d + 1) = Midnight(d) + DayLength /\ DayLength \in Nat
  BY MidnightFacts, AvailabilityAssumption
<1>6. QED
  BY <1>4, <1>5

\* The part of a timed event that lies in a window.
Clipped(r, w) == [from |-> IF r.start < w.from THEN w.from ELSE r.start,
                  to   |-> IF r.end > w.to THEN w.to ELSE r.end]

Timed(r) == ~r.allDay /\ r.start # Null /\ r.end # Null

LEMMA RowFacts ==
  ASSUME AvailabilityTypeOK, NEW r \in LoadedEvents
  PROVE  r \in Row /\ \E e \in Stored : r = events[e]
BY DEF LoadedEvents, FindInRange, AvailabilityTypeOK, Stored

LEMMA BlockerFacts ==
  ASSUME AvailabilityTypeOK, NEW w, w.from \in Nat, w.to \in Nat, w.from < w.to
  PROVE  /\ \A b \in BlockersIn(w) :
              /\ b.from \in Nat /\ b.to \in Nat /\ w.from <= b.from /\ b.to <= w.to
              /\ \E r \in LoadedEvents : Timed(r) /\ b = Clipped(r, w)
         /\ \A r \in LoadedEvents :
              Timed(r) /\ r.start < w.to /\ r.end > w.from => Clipped(r, w) \in BlockersIn(w)
<1>1. ASSUME NEW b \in BlockersIn(w)
      PROVE  /\ b.from \in Nat /\ b.to \in Nat /\ w.from <= b.from /\ b.to <= w.to
             /\ \E r \in LoadedEvents : Timed(r) /\ b = Clipped(r, w)
  <2>1. PICK r \in LoadedEvents : Timed(r) /\ b = Clipped(r, w)
    BY DEF BlockersIn, Timed, Clipped
  <2>2. r.start \in Nat /\ r.end \in Nat
    BY <2>1, RowFacts DEF Row, Time, Timed
  <2>3. QED
    BY <2>1, <2>2 DEF Clipped
<1>2. \A r \in LoadedEvents :
        Timed(r) /\ r.start < w.to /\ r.end > w.from => Clipped(r, w) \in BlockersIn(w)
  BY DEF BlockersIn, Timed, Clipped
<1>3. QED
  BY <1>1, <1>2

\* The cursor is at the start of the window or at the end of a blocker, and no
\* blocker reaches beyond it.
LEMMA CursorFacts ==
  ASSUME NEW w, w.from \in Nat, w.to \in Nat, w.from < w.to,
         NEW B, \A b \in B : b.to \in Nat /\ b.to <= w.to
  PROVE  /\ Cursor(w, B) \in {w.from} \cup {b.to : b \in B}
         /\ Cursor(w, B) \in Nat /\ Cursor(w, B) >= w.from
         /\ \A b \in B : Cursor(w, B) >= b.to
<1> DEFINE C == {w.from} \cup {b.to : b \in B}
<1>1. C \in SUBSET Nat /\ C # {} /\ \A c \in C : c <= w.to
  OBVIOUS
<1>2. Max(C) \in C /\ \A c \in C : c <= Max(C)
  <2> HIDE DEF C
  <2>1. QED
    BY <1>1, MaxOfBounded
<1> DEFINE m == Max(C)
<1>3. m \in C /\ m >= w.from /\ \A b \in B : m >= b.to
  BY <1>1, <1>2
<1> HIDE DEF m
<1>4. /\ Cursor(w, B) \in C
      /\ Cursor(w, B) >= w.from /\ \A b \in B : Cursor(w, B) >= b.to
  BY <1>3 DEF Cursor
<1>5. QED
  BY <1>1, <1>4

\* An instant of a slot is in the window, and no blocker of the window holds it.
LEMMA SlotFacts ==
  ASSUME AvailabilityTypeOK, NEW w, w.from \in Nat, w.to \in Nat, w.from < w.to,
         NEW s \in FreeSlots(w), NEW i \in s.from .. s.to - 1
  PROVE  /\ i \in Nat /\ w.from <= i /\ i < w.to
         /\ \A b \in BlockersIn(w) : ~(b.from <= i /\ i < b.to)
<1> DEFINE B == BlockersIn(w)
<1>1. \A b \in B : b.from \in Nat /\ b.to \in Nat /\ w.from <= b.from /\ b.to <= w.to
  BY BlockerFacts
<1> HIDE DEF B
<1>2. CASE s = [from |-> Cursor(w, B), to |-> w.to]
  <2>1. /\ Cursor(w, B) \in Nat /\ Cursor(w, B) >= w.from
        /\ \A b \in B : Cursor(w, B) >= b.to
    BY <1>1, CursorFacts
  <2>2. QED
    BY <1>1, <1>2, <2>1 DEF B
<1>3. ASSUME NEW a \in B, s = [from |-> Cursor(w, Ahead(a, B)), to |-> a.from]
      PROVE  /\ i \in Nat /\ w.from <= i /\ i < w.to
             /\ \A b \in BlockersIn(w) : ~(b.from <= i /\ i < b.to)
  <2> DEFINE A == Ahead(a, B)
  <2>1. A \subseteq B /\ \A b \in B : b.from < a.from => b \in A
    BY DEF Ahead
  <2>2. \A b \in A : b.to \in Nat /\ b.to <= w.to
    BY <1>1, <2>1
  <2> HIDE DEF A
  <2>3. /\ Cursor(w, A) \in Nat /\ Cursor(w, A) >= w.from
        /\ \A b \in A : Cursor(w, A) >= b.to
    BY <2>2, CursorFacts
  <2>4. s.from = Cursor(w, A) /\ s.to = a.from
    BY <1>3 DEF A
  <2>5. i \in Nat /\ Cursor(w, A) <= i /\ i < a.from
    BY <1>1, <2>3, <2>4
  <2>6. a.from <= w.to
    <3>1. PICK r \in LoadedEvents : /\ Timed(r) /\ a = Clipped(r, w)
                                    /\ r.start < w.to
      BY DEF B, BlockersIn, Timed, Clipped
    <3>2. r.start \in Nat
      BY <3>1, RowFacts DEF Row, Time, Timed
    <3>3. QED
      BY <3>1, <3>2 DEF Clipped
  <2>7. ASSUME NEW b \in B, b.from <= i, i < b.to PROVE FALSE
    <3>1. b.from < a.from
      BY <1>1, <2>5, <2>7
    <3>2. Cursor(w, A) >= b.to
      BY <2>1, <2>3, <3>1
    <3>3. QED
      BY <1>1, <2>3, <2>5, <2>7, <3>2
  <2>8. QED
    BY <1>1, <2>3, <2>5, <2>6, <2>7 DEF B
<1>4. QED
  BY <1>2, <1>3 DEF FreeSlots, B

\* An instant of a window that no blocker of it holds is in one of its slots.
LEMMA GapFound ==
  ASSUME AvailabilityTypeOK, NEW w, w.from \in Nat, w.to \in Nat, w.from < w.to,
         NEW i \in Nat, w.from <= i, i < w.to,
         \A b \in BlockersIn(w) : ~(b.from <= i /\ i < b.to)
  PROVE  \E s \in FreeSlots(w) : s.from <= i /\ i < s.to
<1> DEFINE B == BlockersIn(w)
           Later == {b \in B : b.from > i}
<1>1. \A b \in B : b.from \in Nat /\ b.to \in Nat /\ b.to <= w.to
  BY BlockerFacts
<1>2. \A b \in B : b.from > i \/ b.to <= i
  BY <1>1
<1> HIDE DEF B
<1>3. CASE Later = {}
  <2> DEFINE s == [from |-> Cursor(w, B), to |-> w.to]
  <2>1. \A b \in B : b.to <= i
    BY <1>2, <1>3
  <2>2. Cursor(w, B) \in Nat /\ Cursor(w, B) <= i
    BY <1>1, <2>1, CursorFacts
  <2>3. s \in FreeSlots(w)
    BY <2>2 DEF FreeSlots, B
  <2>4. QED
    BY <2>2, <2>3
<1>4. CASE Later # {}
  <2> DEFINE F == {b.from : b \in Later}
  <2>1. F \in SUBSET Nat /\ F # {}
    BY <1>1, <1>4
  <2>2. Min(F) \in F /\ \A f \in F : Min(F) <= f
    <3> HIDE DEF F
    <3>1. QED
      BY <2>1, MinOfNaturals
  <2>3. PICK a \in Later : a.from = Min(F)
    BY <2>2
  <2>4. a \in B /\ a.from > i /\ \A b \in Later : a.from <= b.from
    BY <2>2, <2>3
  <2> DEFINE A == Ahead(a, B)
             s == [from |-> Cursor(w, A), to |-> a.from]
  <2>5. \A b \in A : b.to \in Nat /\ b.to <= w.to /\ b.to <= i
    <3>1. ASSUME NEW b \in A PROVE b.to \in Nat /\ b.to <= w.to /\ b.to <= i
      <4>1. b \in B /\ b.from < a.from
        BY DEF Ahead
      <4>2. ~(a.from <= b.from)
        BY <1>1, <2>4, <4>1
      <4>3. b \notin Later
        BY <2>4, <4>2
      <4>4. QED
        BY <1>1, <1>2, <4>1, <4>3
    <3>2. QED
      BY <3>1
  <2> HIDE DEF A
  <2>6. Cursor(w, A) \in Nat /\ Cursor(w, A) <= i
    BY <2>5, CursorFacts
  <2>7. s \in FreeSlots(w)
    <3>1. s.from < s.to
      BY <1>1, <2>4, <2>6
    <3>2. QED
      BY <2>4, <3>1 DEF FreeSlots, B, A
  <2>8. QED
    BY <2>4, <2>6, <2>7
<1>5. QED
  BY <1>3, <1>4

-----------------------------------------------------------------------------
LEMMA OfferedIsFree == ASSUME AvailabilityTypeOK PROVE OfferedTimeIsFree
<1> SUFFICES ASSUME NEW s \in AvailabilityMap, NEW i \in s.from .. s.to - 1, i < HorizonEnd,
                    NEW e \in Stored, Occupies(events[e], i)
             PROVE  FALSE
  BY DEF OfferedTimeIsFree
<1>1. PICK d \in VisitedDays : ~AllDayBlocked(d) /\ \E w \in WindowsOf(d) : s \in FreeSlots(w)
  BY DEF AvailabilityMap
<1>2. PICK w \in WindowsOf(d) : s \in FreeSlots(w)
  BY <1>1
<1>3. /\ Day(HorizonStart) <= d /\ d <= Day(HorizonEnd) /\ d \in Nat
      /\ HorizonStart \in Nat /\ HorizonEnd \in Nat /\ HorizonStart <= Midnight(d)
  BY HorizonFacts DEF VisitedDays
<1>4. /\ w.from \in Nat /\ w.to \in Nat /\ w.from < w.to
      /\ Midnight(d) <= w.from /\ w.to <= Midnight(d + 1)
  BY <1>3, WindowFacts
<1>5. /\ i \in Nat /\ w.from <= i /\ i < w.to
      /\ \A b \in BlockersIn(w) : ~(b.from <= i /\ i < b.to)
  BY <1>2, <1>4, SlotFacts
<1>6. Midnight(d) \in Nat /\ Midnight(d + 1) \in Nat /\ Midnight(d) <= i /\ i < Midnight(d + 1)
  <2>1. Midnight(d) \in Nat /\ Midnight(d + 1) \in Nat
    BY <1>3, MidnightFacts, AvailabilityAssumption
  <2>2. QED
    BY <1>4, <1>5, <2>1
<1> DEFINE r == events[e]
<1>7. r \in Row /\ Null \notin Nat
  BY AvailabilityAssumption DEF Stored, AvailabilityTypeOK
<1>8. CASE r.allDay
  <2>1. r.date = d
    BY <1>3, <1>5, <1>6, <1>8, DayUnique DEF Occupies
  <2>2. r \in LoadedEvents
    BY <1>3, <1>7, <1>8, <2>1 DEF LoadedEvents, FindInRange, AllDayIn
  <2>3. QED
    BY <1>1, <1>8, <2>1, <2>2 DEF AllDayBlocked
<1>9. CASE ~r.allDay
  <2>1. /\ Timed(r) /\ r.start \in Nat /\ r.end \in Nat /\ r.start <= i /\ i < r.end
    BY <1>7, <1>9 DEF Occupies, Timed, Row, Time
  <2>2. r.start < HorizonEnd /\ r.end > HorizonStart /\ r.start < w.to /\ r.end > w.from
    BY <1>3, <1>4, <1>5, <1>6, <2>1
  <2>3. r \in LoadedEvents
    BY <2>1, <2>2 DEF LoadedEvents, FindInRange, TimedIn, Timed
  <2>4. Clipped(r, w) \in BlockersIn(w)
    BY <1>4, <2>1, <2>2, <2>3, BlockerFacts
  <2>5. Clipped(r, w).from <= i /\ i < Clipped(r, w).to
    BY <1>4, <1>5, <2>1 DEF Clipped
  <2>6. QED
    BY <1>5, <2>4, <2>5
<1>10. QED
  BY <1>8, <1>9

\* Whatever is put into the tables, and whenever, the free slots keep clear of
\* the events: buildAvailabilityMap and findInRange, for every length of day.
THEOREM OfferedTimeStaysFree == AvailabilitySpec => []OfferedTimeIsFree
BY OfferedIsFree, AvailabilityTypeCorrect, PTL

LEMMA FreeIsOffered == ASSUME AvailabilityTypeOK PROVE FreeTimeIsOffered
<1> SUFFICES ASSUME NEW i \in HorizonStart .. HorizonEnd - 1,
                    NEW w \in WindowsOf(Day(i)), w.from <= i, i < w.to,
                    \A r \in ListEvents(Day(i)) : ~Occupies(r, i)
             PROVE  Offered(i)
  BY DEF FreeTimeIsOffered
<1> DEFINE d == Day(i)
<1>1. /\ HorizonStart \in Nat /\ HorizonEnd \in Nat /\ i \in Nat
      /\ HorizonStart <= i /\ i < HorizonEnd
  BY HorizonFacts
<1>2. /\ d \in Nat /\ Midnight(d) \in Nat /\ Midnight(d) <= i /\ i < Midnight(d + 1)
      /\ Midnight(d + 1) \in Nat
  BY <1>1, DayFacts, MidnightFacts
<1>3. d \in VisitedDays
  <2>1. Day(HorizonStart) <= d /\ d <= Day(HorizonEnd)
    BY <1>1, DayMonotonic
  <2>2. QED
    BY <1>1, <1>2, <2>1, HorizonFacts DEF VisitedDays
<1> HIDE DEF d
<1>4. /\ w \in WindowsOf(d) /\ w.from \in Nat /\ w.to \in Nat /\ w.from < w.to
  BY <1>2, WindowFacts DEF d
<1>5. \A r \in ListEvents(d) : ~Occupies(r, i)
  BY DEF d
<1>6. ~AllDayBlocked(d)
  <2> SUFFICES ASSUME NEW r \in LoadedEvents, r.allDay, r.date = d PROVE FALSE
    BY DEF AllDayBlocked
  <2>1. PICK e \in Stored : r = events[e]
    BY RowFacts
  <2>2. r.date # Null
    BY <1>2, AvailabilityAssumption
  <2>3. r \in ListEvents(d)
    BY <1>2, <2>1, <2>2 DEF ListEvents, FindInRange, AllDayIn
  <2>4. QED
    BY <1>5, <2>3 DEF Occupies, d
<1>7. \A b \in BlockersIn(w) : ~(b.from <= i /\ i < b.to)
  <2> SUFFICES ASSUME NEW b \in BlockersIn(w), b.from <= i, i < b.to PROVE FALSE
    OBVIOUS
  <2>1. PICK r \in LoadedEvents : Timed(r) /\ b = Clipped(r, w)
    BY <1>4, BlockerFacts
  <2>2. r.start \in Nat /\ r.end \in Nat
    BY <2>1, RowFacts DEF Row, Time, Timed
  <2>3. r.start <= i /\ i < r.end
    BY <1>1, <1>4, <2>1, <2>2 DEF Clipped
  <2>4. PICK e \in Stored : r = events[e]
    BY RowFacts
  <2>5. r \in ListEvents(d)
    BY <1>1, <1>2, <2>1, <2>2, <2>3, <2>4 DEF ListEvents, FindInRange, TimedIn, Timed
  <2>6. QED
    BY <1>5, <2>1, <2>3, <2>5 DEF Occupies, Timed
<1>8. PICK s \in FreeSlots(w) : s.from <= i /\ i < s.to
  BY <1>1, <1>4, <1>7, GapFound
<1>9. s \in AvailabilityMap
  BY <1>3, <1>4, <1>6 DEF AvailabilityMap
<1>10. QED
  BY <1>8, <1>9 DEF Offered

\* The range a replan asks findInRange for and the range list_events asks for
\* agree: time of a window that no event listed for its day takes is offered.
THEOREM FreeTimeStaysOffered == AvailabilitySpec => []FreeTimeIsOffered
BY FreeIsOffered, AvailabilityTypeCorrect, PTL
=============================================================================
