----------------------------- MODULE Placement -----------------------------
(***************************************************************************)
(* engine/scheduler.ts: from the availability windows and what blocks them *)
(* to free slots (buildAvailabilityMap), and from the slots to the time    *)
(* blocks of the tasks (placeAllTasks), one step per loop iteration.       *)
(*                                                                         *)
(* The horizon is one line of minutes 0 .. Horizon - 1; an interval holds  *)
(* the minutes from .. to - 1. Which slot scores best and which task comes *)
(* first is left open: any slot may be tried next, any task placed next.   *)
(***************************************************************************)
EXTENDS Integers, FiniteSets, FiniteSetsExt

CONSTANTS
  Task,            \* the tasks to place: active and not blocked
  Horizon,
  MinBlock,        \* preferences.minimumBlockMinutes
  FocusMinBlock,   \* focusTime.minimumBlockMinutes
  FocusMinutes,    \* the minutes inside a focus block
  Durations,       \* bound: the durations tasks may have
  WindowSets,      \* bound: the availability windows of the horizon
  BlockerSets      \* bound: the timed events and pinned blocks

Interval == {i \in [from : Nat, to : Nat] : i.from < i.to}

ASSUME PlacementAssumption ==
  /\ Horizon \in Nat /\ MinBlock \in Nat \ {0} /\ FocusMinBlock \in Nat
  /\ FocusMinutes \subseteq Nat /\ Durations \subseteq Nat \ {0}
  \* setAvailability refuses an end before the start and, by the primary key
  \* (day, start_time), two windows that start together; they may overlap.
  /\ WindowSets \subseteq SUBSET Interval
  /\ \A W \in WindowSets : \A v, w \in W : v.from = w.from => v = w
  /\ BlockerSets \subseteq SUBSET Interval

VARIABLES
  windows, blockers, duration, focusTasks,   \* the inputs
  phase,                                     \* the loop that is running
  todoWindows, window, cursor, todoBlockers, \* buildAvailabilityMap
  slots,                                     \* the slots that are left
  todoTasks, task, remaining, candidates,    \* placeAllTasks, placeTask
  allocations,
  blocks,                                    \* the time blocks placed
  unscheduled                                \* unscheduledMinutes, -1 before

inputs == <<windows, blockers, duration, focusTasks>>
mapping == <<todoWindows, window, cursor, todoBlockers>>
selecting == <<task, remaining, candidates, allocations>>
placementVars == <<inputs, phase, mapping, slots, todoTasks, selecting, blocks, unscheduled>>

Overlap(i, j) == i.from < j.to /\ j.from < i.to
Length(i) == i.to - i.from

\* A slot is known by its window and its start, so two windows that overlap
\* give two slots for the same time, as in the code's list.
Slot == [window : Nat, from : Nat, to : Nat]
Piece(w, from, to) == [window |-> w, from |-> from, to |-> to]
Block == [task : Task, window : Nat, from : Nat, to : Nat]

PlacementTypeOK ==
  /\ windows \in WindowSets /\ blockers \in BlockerSets
  /\ duration \in [Task -> Durations] /\ focusTasks \subseteq Task
  /\ phase \in {"windows", "subtract", "tasks", "slots", "done"}
  /\ todoWindows \subseteq windows /\ window \in Interval /\ cursor \in Nat
  /\ todoBlockers \subseteq Interval
  /\ slots \subseteq Slot /\ candidates \subseteq Slot
  /\ todoTasks \subseteq Task /\ (phase = "slots" => task \in Task) /\ remaining \in Nat
  /\ allocations \subseteq Block /\ blocks \subseteq Block
  /\ unscheduled \in [Task -> Nat \cup {-1}]

PlacementInit ==
  /\ windows \in WindowSets /\ blockers \in BlockerSets
  /\ duration \in [Task -> Durations] /\ focusTasks \in SUBSET Task
  /\ phase = "windows"
  /\ todoWindows = windows /\ window = [from |-> 0, to |-> 1] /\ cursor = 0
  /\ todoBlockers = {}
  /\ slots = {} /\ blocks = {}
  /\ todoTasks = Task /\ task = CHOOSE t \in Task : TRUE
  /\ remaining = 0 /\ candidates = {} /\ allocations = {}
  /\ unscheduled = [t \in Task |-> -1]

-----------------------------------------------------------------------------
(***************************************************************************)
(* buildAvailabilityMap: each window, less its blockers in order of start. *)
(***************************************************************************)
\* clipToWindow
Clip(b, w) == [from |-> IF b.from < w.from THEN w.from ELSE b.from,
               to   |-> IF b.to > w.to THEN w.to ELSE b.to]

\* collectBlockers: timed events and the blocks of completed tasks.
CollectBlockers(w) == {Clip(b, w) : b \in {b \in blockers : Overlap(b, w)}}

OpenWindow(w) ==
  /\ phase = "windows"
  /\ phase' = "subtract"
  /\ todoWindows' = todoWindows \ {w}
  /\ window' = w
  /\ cursor' = w.from
  /\ todoBlockers' = CollectBlockers(w)
  /\ UNCHANGED <<inputs, slots, todoTasks, selecting, blocks, unscheduled>>

Free(from, to) ==
  IF from < to THEN {Piece(window.from, from, to)} ELSE {}

\* Mutant: the cursor goes to the end of the blocker even if that is earlier.
SubtractBlockerMovesBack(b) ==
  /\ phase = "subtract"
  /\ \A c \in todoBlockers : b.from <= c.from
  /\ slots' = slots \cup Free(cursor, b.from)
  /\ cursor' = b.to
  /\ todoBlockers' = todoBlockers \ {b}
  /\ UNCHANGED <<inputs, phase, todoWindows, window, todoTasks, selecting, blocks,
                 unscheduled>>

SubtractBlocker(b) ==
  /\ phase = "subtract"
  /\ \A c \in todoBlockers : b.from <= c.from
  /\ slots' = slots \cup Free(cursor, b.from)
  /\ cursor' = IF b.to > cursor THEN b.to ELSE cursor
  /\ todoBlockers' = todoBlockers \ {b}
  /\ UNCHANGED <<inputs, phase, todoWindows, window, todoTasks, selecting, blocks,
                 unscheduled>>

\* Mutant: the time after the last blocker is forgotten.
CloseWindowAtBlocker ==
  /\ phase = "subtract"
  /\ todoBlockers = {}
  /\ phase' = "windows"
  /\ UNCHANGED <<inputs, mapping, slots, todoTasks, selecting, blocks, unscheduled>>

CloseWindow ==
  /\ phase = "subtract"
  /\ todoBlockers = {}
  /\ slots' = slots \cup Free(cursor, window.to)
  /\ phase' = "windows"
  /\ UNCHANGED <<inputs, mapping, todoTasks, selecting, blocks, unscheduled>>

MapBuilt ==
  /\ phase = "windows"
  /\ todoWindows = {}
  /\ phase' = "tasks"
  /\ UNCHANGED <<inputs, mapping, slots, todoTasks, selecting, blocks, unscheduled>>

-----------------------------------------------------------------------------
(***************************************************************************)
(* placeAllTasks: selectSlotsForTask, then emit the blocks and consume.    *)
(***************************************************************************)
\* The slots are filtered and scored once, before the first is taken.
StartTask(t) ==
  /\ phase = "tasks"
  /\ phase' = "slots"
  /\ task' = t
  /\ todoTasks' = todoTasks \ {t}
  /\ remaining' = duration[t]
  /\ candidates' = {s \in slots : Length(s) >= MinBlock}
  /\ allocations' = {}
  /\ UNCHANGED <<inputs, mapping, slots, blocks, unscheduled>>

\* isSlotInFocusBlock looks at the start of the slot only.
InFocusBlock(s) == s.from \in FocusMinutes

\* A short task without a focus tag stays out of focus blocks.
KeptOutOfFocus(s) ==
  task \notin focusTasks /\ InFocusBlock(s) /\ duration[task] < FocusMinBlock

\* Mutant: a short last block is lengthened to the minimum.
AdjustAddsMinBlock(minutes) ==
  LET leftover == remaining - minutes
  IN  IF 0 < leftover /\ leftover < MinBlock THEN minutes + MinBlock ELSE minutes

\* Mutant: no adjustment.
AdjustNothing(minutes) == minutes

\* adjustForTrailingBlock: leave enough for a last block of MinBlock minutes,
\* or else take all that remains, which may be more than the slot has.
AdjustForTrailingBlock(minutes) ==
  LET leftover == remaining - minutes
  IN  IF 0 < leftover /\ leftover < MinBlock
        THEN IF remaining - MinBlock >= MinBlock THEN remaining - MinBlock ELSE remaining
        ELSE minutes

\* Math.min(remainingMinutes, slot.durationMinutes)
RawDuration(s) == IF remaining < Length(s) THEN remaining ELSE Length(s)

\* Mutant: the loop over the slots is left, where the code continues with the next.
SkipSlotBreaks(s) ==
  /\ phase = "slots" /\ remaining > 0
  /\ KeptOutOfFocus(s)
  /\ candidates' = {}
  /\ UNCHANGED <<inputs, phase, mapping, slots, todoTasks, task, remaining, allocations,
                 blocks, unscheduled>>

SkipSlot(s) ==
  /\ phase = "slots" /\ remaining > 0
  /\ KeptOutOfFocus(s)
  /\ candidates' = candidates \ {s}
  /\ UNCHANGED <<inputs, phase, mapping, slots, todoTasks, task, remaining, allocations,
                 blocks, unscheduled>>

\* Mutant: the minutes still to place are counted before the adjustment.
TakeSlotUnadjusted(s) ==
  /\ phase = "slots" /\ remaining > 0
  /\ ~KeptOutOfFocus(s)
  /\ LET minutes == AdjustForTrailingBlock(RawDuration(s))
     IN  /\ allocations' = allocations \cup
              {[task |-> task, window |-> s.window, from |-> s.from, to |-> s.from + minutes]}
         /\ remaining' = remaining - RawDuration(s)
  /\ candidates' = candidates \ {s}
  /\ UNCHANGED <<inputs, phase, mapping, slots, todoTasks, task, blocks, unscheduled>>

TakeSlot(s) ==
  /\ phase = "slots" /\ remaining > 0
  /\ ~KeptOutOfFocus(s)
  /\ LET minutes == AdjustForTrailingBlock(RawDuration(s))
     IN  /\ allocations' = allocations \cup
              {[task |-> task, window |-> s.window, from |-> s.from, to |-> s.from + minutes]}
         /\ remaining' = remaining - minutes
  /\ candidates' = candidates \ {s}
  /\ UNCHANGED <<inputs, phase, mapping, slots, todoTasks, task, blocks, unscheduled>>

\* consumeSlotSpace: what splitSlotAroundBlock leaves of slot s, B consumed.
LeftOf(s, B) ==
  {Piece(s.window, f, e) : f \in {s.from} \cup {b.to : b \in B},
                           e \in {s.to} \cup {b.from : b \in B}}

\* Mutant: a block is consumed from the slots of its own window only.
ConsumeOwnWindow(S, B) ==
  UNION {{r \in LeftOf(s, B) :
            /\ s.from <= r.from /\ r.from < r.to /\ r.to <= s.to
            /\ \A b \in B : b.window = s.window => ~Overlap(r, b)} : s \in S}

Consume(S, B) ==
  UNION {{r \in LeftOf(s, B) : /\ s.from <= r.from /\ r.from < r.to /\ r.to <= s.to
                               /\ \A b \in B : ~Overlap(r, b)} : s \in S}

PlaceTask ==
  /\ phase = "slots"
  /\ remaining = 0 \/ candidates = {}
  /\ blocks' = blocks \cup allocations
  /\ slots' = Consume(slots, allocations)
  /\ unscheduled' = [unscheduled EXCEPT ![task] = remaining]
  /\ phase' = "tasks"
  /\ UNCHANGED <<inputs, mapping, todoTasks, selecting>>

AllPlaced ==
  /\ phase = "tasks"
  /\ todoTasks = {}
  /\ phase' = "done"
  /\ UNCHANGED <<inputs, mapping, slots, todoTasks, selecting, blocks, unscheduled>>

\* Scoring orders the candidates, and the topological sort the tasks (they
\* have no dependency on each other): any order of either is covered.
NextSlots == candidates
NextTasks == todoTasks

Step ==
  \/ \E w \in todoWindows : OpenWindow(w)
  \/ \E b \in todoBlockers : SubtractBlocker(b)
  \/ CloseWindow \/ MapBuilt
  \/ \E t \in NextTasks : StartTask(t)
  \/ \E s \in NextSlots : SkipSlot(s) \/ TakeSlot(s)
  \/ PlaceTask \/ AllPlaced

PlacementSpec == PlacementInit /\ [][Step]_placementVars

-----------------------------------------------------------------------------
InWindow(m, from) == \E w \in windows : w.from = from /\ w.from <= m /\ m < w.to
Holds(i, m) == i.from <= m /\ m < i.to

\* A slot is free time: inside the window it was cut from, clear of every
\* event, pinned block and time block placed so far, however often it has been
\* split and wherever the blocks of other slots reach.
SlotsAreFree ==
  \A s \in slots :
    /\ s.from < s.to
    /\ \E w \in windows : w.from = s.window /\ w.from <= s.from /\ s.to <= w.to
    /\ \A b \in blockers \cup blocks : ~Overlap(s, b)

\* No free time is lost: a minute of a window that no event, pinned block or
\* time block takes is in a slot of that window.
NoFreeTimeLost ==
  phase \in {"tasks", "done"} =>
    \A w \in windows : \A m \in w.from .. w.to - 1 :
      (\A b \in blockers \cup blocks : ~Holds(b, m)) =>
        \E s \in slots : s.window = w.from /\ Holds(s, m)

\* business-rules.md SR-4.2, SR-4.3: no block is shorter than the minimum, but
\* for a task that is shorter itself, whichever slots it was cut to fit.
NoMicroBlocks ==
  \A b \in blocks : Length(b) >= MinBlock \/ Length(b) = duration[b.task]

MinutesOf(B) == MapThenSumSet(Length, B)

\* The blocks of a task and the minutes reported as unscheduled make up its
\* duration, although blocks are shortened and lengthened on the way.
MinutesAccountedFor ==
  \A t \in Task : unscheduled[t] >= 0 =>
    MinutesOf({b \in blocks : b.task = t}) + unscheduled[t] = duration[t]

\* When a block reaches outside its window, into an event or into a block of
\* an earlier task, it does so by less than the minimum block.
OverrunBounded ==
  [][\A b \in blocks' \ blocks : \A m \in b.from .. b.to - MinBlock :
       /\ InWindow(m, b.window)
       /\ \A c \in blockers \cup blocks : ~Holds(c, m)]_placementVars

\* The free time before s in its window, back to the start of a focus block, has
\* been taken by tasks and not by an event or a pinned block.
BeganInFocus(s) ==
  \E m \in FocusMinutes :
    /\ m <= s.from /\ InWindow(m, s.window)
    /\ \A c \in blockers : ~Overlap(Piece(s.window, m, s.to), c)

\* business-rules.md SR-4.4: a task has minutes left over only "after exhausting
\* all valid slots". A slot of a minimum block or more that is left while a task
\* is short is a part of one in a focus block, which the task was kept out of:
\* what its own blocks, shortened or not, leave of the other slots is too short.
ShortOnlyWhenFull ==
  \A t \in Task : \A s \in slots :
    unscheduled[t] > 0 /\ Length(s) >= MinBlock =>
      t \notin focusTasks /\ duration[t] < FocusMinBlock /\ BeganInFocus(s)

\* business-rules.md SR-1.1, SR-1.2, SR-1.3: a block "MUST NOT be placed outside
\* configured availability windows", nor overlap an event or a pinned block.
HardConstraintsHold ==
  \A b \in blocks :
    /\ \A m \in b.from .. b.to - 1 : InWindow(m, b.window)
    /\ \A c \in blockers : ~Overlap(b, c)
=============================================================================
