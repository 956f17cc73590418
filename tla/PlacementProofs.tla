--------------------------- MODULE PlacementProofs ---------------------------
(***************************************************************************)
(* The free slots and the time blocks, for any tasks, windows, blockers,   *)
(* durations and minimum block, and whichever slot is tried next.          *)
(***************************************************************************)
EXTENDS Placement, FiniteSetLemmas

\* Of the window that is open: what of it is behind the cursor is done, and what
\* blocks it ahead of the cursor is still to be subtracted.
WindowInv ==
  phase = "subtract" =>
    /\ window \in windows \ todoWindows
    /\ window.from <= cursor /\ cursor <= window.to
    /\ \A c \in todoBlockers : /\ window.from <= c.from /\ c.to <= window.to
                               /\ \E b \in blockers : c = Clip(b, window)
    /\ \A b \in blockers : Overlap(b, window) =>
         Clip(b, window) \in todoBlockers \/ Clip(b, window).to <= cursor
    /\ \A s \in slots : s.window = window.from => s.to <= cursor

\* Every slot lies in a window that has been opened; the slots of a window do
\* not overlap.
SlotsInv ==
  /\ SlotsAreFree
  /\ \A s \in slots : \A w \in todoWindows : s.window # w.from
  /\ \A r, s \in slots : r.window = s.window /\ Overlap(r, s) => r = s
  /\ phase \in {"windows", "subtract"} => blocks = {}

\* A slot is tried once. What is allocated starts with it and outlasts it by
\* less than the minimum block; what remains is enough for another block.
TakenFrom(a, s) ==
  /\ a.window = s.window /\ a.from = s.from
  /\ Length(s) >= MinBlock /\ a.to < s.to + MinBlock

SelectInv ==
  phase = "slots" =>
    /\ task \in Task \ todoTasks
    /\ candidates \subseteq slots
    /\ \A s \in candidates : Length(s) >= MinBlock
    /\ \A a \in allocations :
         /\ a.task = task /\ a.from < a.to
         /\ Length(a) >= MinBlock \/ Length(a) = duration[task]
         /\ \E s \in slots \ candidates : TakenFrom(a, s)
    /\ remaining \in {0, duration[task]} \/ remaining >= MinBlock

BlocksInv ==
  /\ \A b \in blocks : b.from < b.to /\ b.task \notin todoTasks
                       /\ (phase = "slots" => b.task # task)
  /\ NoMicroBlocks

\* The tasks placed are those with a number of unscheduled minutes, and every
\* minute is accounted for at each step.
MinutesInv ==
  /\ IsFiniteSet(allocations)
  /\ phase = "slots" => MinutesOf(allocations) + remaining = duration[task]
  /\ \A t \in todoTasks : unscheduled[t] = -1
  /\ phase = "slots" => unscheduled[task] = -1
  /\ MinutesAccountedFor

\* What is free of an opened window is in a slot, or ahead of the cursor.
FreeInv ==
  /\ phase \in {"tasks", "slots", "done"} => todoWindows = {}
  /\ \A w \in windows \ todoWindows : \A m \in w.from .. w.to - 1 :
       (\A b \in blockers \cup blocks : ~Holds(b, m)) =>
         \/ phase = "subtract" /\ w = window /\ cursor <= m
         \/ \E s \in slots : s.window = w.from /\ Holds(s, m)

\* A slot that was tried is one the task was kept out of, or the task's block
\* leaves less than the minimum of it, as long as minutes remain.
TakenUpTo(a, s) == a.window = s.window /\ a.from = s.from /\ s.to < a.to + MinBlock

ShortInv ==
  /\ phase \in {"windows", "subtract"} => \A t \in Task : unscheduled[t] = -1
  /\ phase = "slots" /\ remaining > 0 =>
       \A s \in slots \ candidates : Length(s) >= MinBlock =>
         KeptOutOfFocus(s) \/ \E a \in allocations : TakenUpTo(a, s)
  /\ ShortOnlyWhenFull

PlacementInv ==
  /\ PlacementTypeOK /\ WindowInv /\ SlotsInv /\ SelectInv /\ BlocksInv

-----------------------------------------------------------------------------
LEMMA InputFacts ==
  ASSUME PlacementTypeOK
  PROVE  /\ windows \subseteq Interval /\ blockers \subseteq Interval
         /\ \A w \in windows \cup blockers : w.from \in Nat /\ w.to \in Nat /\ w.from < w.to
         /\ \A v, w \in windows : v.from = w.from => v = w
         /\ \A t \in Task : duration[t] \in Nat \ {0}
         /\ MinBlock \in Nat \ {0}
<1>1. windows \subseteq Interval /\ blockers \subseteq Interval
  BY PlacementAssumption DEF PlacementTypeOK
<1>2. QED
  BY <1>1, PlacementAssumption DEF PlacementTypeOK, Interval

\* What of a blocker lies in a window.
LEMMA ClipFacts ==
  ASSUME NEW b \in Interval, NEW w \in Interval, Overlap(b, w)
  PROVE  /\ Clip(b, w) \in Interval
         /\ w.from <= Clip(b, w).from /\ Clip(b, w).to <= w.to
         /\ \A m \in Nat : w.from <= m /\ m < w.to => (Holds(b, m) <=> Holds(Clip(b, w), m))
BY DEF Interval, Overlap, Clip, Holds

\* What a block may leave of a slot.
LEMMA ConsumeFacts ==
  ASSUME NEW S \in SUBSET Slot, NEW B \in SUBSET Block, NEW r \in Consume(S, B)
  PROVE  /\ r \in Slot /\ r.from < r.to
         /\ \A b \in B : ~Overlap(r, b)
         /\ \E s \in S : /\ r \in LeftOf(s, B) /\ r.window = s.window
                         /\ s.from <= r.from /\ r.to <= s.to
<1>1. PICK s \in S : /\ r \in LeftOf(s, B)
                     /\ s.from <= r.from /\ r.from < r.to /\ r.to <= s.to
                     /\ \A b \in B : ~Overlap(r, b)
  BY DEF Consume
<1>2. PICK f \in {s.from} \cup {b.to : b \in B}, e \in {s.to} \cup {b.from : b \in B} :
        r = Piece(s.window, f, e)
  BY <1>1 DEF LeftOf
<1>3. f \in Nat /\ e \in Nat /\ s.window \in Nat
  BY DEF Slot, Block
<1>4. QED
  BY <1>1, <1>2, <1>3 DEF Slot, Piece

\* Two pieces of one slot do not overlap.
LEMMA PiecesApart ==
  ASSUME NEW s \in Slot, NEW B \in SUBSET Block, \A b \in B : b.from < b.to,
         NEW p \in LeftOf(s, B), NEW q \in LeftOf(s, B),
         s.from <= p.from, p.from < p.to, p.to <= s.to,
         s.from <= q.from, q.from < q.to, q.to <= s.to,
         \A b \in B : ~Overlap(p, b) /\ ~Overlap(q, b),
         Overlap(p, q)
  PROVE  p = q
<1>1. PICK pf \in {s.from} \cup {b.to : b \in B}, pe \in {s.to} \cup {b.from : b \in B} :
        p = Piece(s.window, pf, pe)
  BY DEF LeftOf
<1>2. PICK qf \in {s.from} \cup {b.to : b \in B}, qe \in {s.to} \cup {b.from : b \in B} :
        q = Piece(s.window, qf, qe)
  BY DEF LeftOf
<1>3. /\ p.from \in Nat /\ p.to \in Nat /\ q.from \in Nat /\ q.to \in Nat
      /\ s.from \in Nat /\ s.to \in Nat
      /\ \A b \in B : b.from \in Nat /\ b.to \in Nat
  BY <1>1, <1>2 DEF Slot, Block, Piece
<1>4. p.from = q.from
  <2>1. ~(p.from < q.from)
    <3> SUFFICES ASSUME p.from < q.from PROVE FALSE
      OBVIOUS
    <3>1. PICK b \in B : b.to = q.from
      BY <1>2, <1>3 DEF Piece
    <3>2. QED
      BY <3>1, <1>3 DEF Overlap
  <2>2. ~(q.from < p.from)
    <3> SUFFICES ASSUME q.from < p.from PROVE FALSE
      OBVIOUS
    <3>1. PICK b \in B : b.to = p.from
      BY <1>1, <1>3 DEF Piece
    <3>2. QED
      BY <3>1, <1>3 DEF Overlap
  <2>3. QED
    BY <2>1, <2>2, <1>3
<1>5. p.to = q.to
  <2>1. ~(p.to < q.to)
    <3> SUFFICES ASSUME p.to < q.to PROVE FALSE
      OBVIOUS
    <3>1. PICK b \in B : b.from = p.to
      BY <1>1, <1>3 DEF Piece
    <3>2. QED
      BY <3>1, <1>3 DEF Overlap
  <2>2. ~(q.to < p.to)
    <3> SUFFICES ASSUME q.to < p.to PROVE FALSE
      OBVIOUS
    <3>1. PICK b \in B : b.from = q.to
      BY <1>2, <1>3 DEF Piece
    <3>2. QED
      BY <3>1, <1>3 DEF Overlap
  <2>3. QED
    BY <2>1, <2>2, <1>3
<1>6. QED
  BY <1>1, <1>2, <1>4, <1>5 DEF Piece

\* A minute of a slot that no block takes is in a piece that is left.
LEMMA FreeMinuteIsLeft ==
  ASSUME NEW S \in SUBSET Slot, NEW B \in SUBSET Block, NEW s \in S, NEW m \in Nat,
         Holds(s, m), \A b \in B : ~Holds(b, m)
  PROVE  \E r \in Consume(S, B) : r.window = s.window /\ Holds(r, m)
<1> DEFINE F == {s.from} \cup {b.to : b \in {b \in B : b.to <= m}}
           E == {s.to} \cup {b.from : b \in {b \in B : m < b.from}}
<1>1. /\ s.window \in Nat /\ s.from \in Nat /\ s.to \in Nat /\ s.from <= m /\ m < s.to
      /\ \A b \in B : b.from \in Nat /\ b.to \in Nat /\ (b.to <= m \/ m < b.from)
  BY DEF Slot, Block, Holds
<1>2. F \in SUBSET Nat /\ F # {} /\ (\A x \in F : x <= m)
  BY <1>1
<1>3. E \in SUBSET Nat /\ E # {} /\ (\A x \in E : m < x)
  BY <1>1
<1>4. \A b \in B : b.to \in F \/ b.from \in E
  BY <1>1
<1>5. /\ s.from \in F /\ F \subseteq {s.from} \cup {b.to : b \in B}
      /\ s.to \in E /\ E \subseteq {s.to} \cup {b.from : b \in B}
  OBVIOUS
<1> HIDE DEF F, E
<1>6. Max(F) \in F /\ \A x \in F : x <= Max(F)
  BY <1>2, MaxOfBounded
<1>7. Min(E) \in E /\ \A x \in E : Min(E) <= x
  BY <1>3, MinOfNaturals
<1> DEFINE f == Max(F)
           e == Min(E)
           r == Piece(s.window, f, e)
<1>8. f \in Nat /\ e \in Nat /\ s.from <= f /\ f <= m /\ m < e /\ e <= s.to
  BY <1>2, <1>3, <1>5, <1>6, <1>7
<1>9. \A b \in B : b.to <= f \/ e <= b.from
  BY <1>4, <1>6, <1>7
<1>10. r \in LeftOf(s, B)
  <2>1. f \in {s.from} \cup {b.to : b \in B} /\ e \in {s.to} \cup {b.from : b \in B}
    BY <1>5, <1>6, <1>7
  <2> HIDE DEF f, e
  <2>2. QED
    BY <2>1 DEF LeftOf
<1> HIDE DEF f, e
<1>11. \A b \in B : ~Overlap(r, b)
  BY <1>1, <1>8, <1>9 DEF Overlap, Piece
<1>12. r \in Consume(S, B)
  BY <1>1, <1>8, <1>10, <1>11 DEF Consume, Piece
<1>13. QED
  BY <1>8, <1>12 DEF Holds, Piece

-----------------------------------------------------------------------------
\* What a slot gives to the task: more than nothing, no more than remains, less
\* than the minimum block beyond its end, and a block of at least the minimum.
LEMMA MinutesTaken ==
  ASSUME PlacementTypeOK, SelectInv, phase = "slots", remaining > 0,
         NEW s \in Slot, s.from < s.to, Length(s) >= MinBlock
  PROVE  LET minutes == AdjustForTrailingBlock(RawDuration(s))
         IN  /\ minutes \in Nat /\ 0 < minutes /\ minutes <= remaining
             /\ minutes < Length(s) + MinBlock
             /\ minutes >= MinBlock \/ minutes = duration[task]
             /\ remaining - minutes = 0 \/ remaining - minutes >= MinBlock
<1>1. /\ remaining \in Nat /\ task \in Task /\ MinBlock \in Nat \ {0}
      /\ Length(s) \in Nat /\ duration[task] \in Nat
  BY InputFacts DEF PlacementTypeOK, Slot, Length
<1>2. remaining = duration[task] \/ remaining >= MinBlock
  BY DEF SelectInv
<1> HIDE DEF Length
<1>3. QED
  BY <1>1, <1>2 DEF AdjustForTrailingBlock, RawDuration

LEMMA PlacementInitInv == PlacementInit => PlacementInv
<1> SUFFICES ASSUME PlacementInit PROVE PlacementInv
  OBVIOUS
<1> USE PlacementAssumption DEF PlacementInit
<1>1. PlacementTypeOK
  BY DEF PlacementTypeOK, Interval
<1>2. QED
  BY <1>1 DEF PlacementInv, WindowInv, SlotsInv, SlotsAreFree, SelectInv, BlocksInv, NoMicroBlocks

LEMMA PlacementStepTypeOK ==
  ASSUME PlacementTypeOK, SelectInv, SlotsInv, Step
  PROVE  PlacementTypeOK'
<1> USE DEF PlacementTypeOK
<1>1. ASSUME NEW w \in todoWindows, OpenWindow(w) PROVE PlacementTypeOK'
  <2>1. w \in Interval /\ w.from \in Nat
    BY InputFacts
  <2>2. CollectBlockers(w) \subseteq Interval
    BY <2>1, InputFacts, ClipFacts DEF CollectBlockers
  <2>3. QED
    BY <1>1, <2>1, <2>2 DEF OpenWindow, inputs, selecting
<1>2. ASSUME NEW b \in todoBlockers, SubtractBlocker(b) PROVE PlacementTypeOK'
  <2>1. b.from \in Nat /\ b.to \in Nat /\ window.from \in Nat
    BY DEF Interval
  <2>2. Free(cursor, b.from) \subseteq Slot
    BY <2>1 DEF Free, Piece, Slot
  <2>3. QED
    BY <1>2, <2>1, <2>2 DEF SubtractBlocker, inputs, selecting
<1>3. ASSUME CloseWindow PROVE PlacementTypeOK'
  <2>1. Free(cursor, window.to) \subseteq Slot
    BY DEF Free, Piece, Slot, Interval
  <2>2. QED
    BY <1>3, <2>1 DEF CloseWindow, inputs, mapping, selecting
<1>4. ASSUME MapBuilt PROVE PlacementTypeOK'
  BY <1>4 DEF MapBuilt, inputs, mapping, selecting
<1>5. ASSUME NEW t \in todoTasks, StartTask(t) PROVE PlacementTypeOK'
  <2>1. duration[t] \in Nat /\ t \in Task
    BY InputFacts
  <2>2. QED
    BY <1>5, <2>1 DEF StartTask, inputs, mapping
<1>6. ASSUME NEW s \in candidates, SkipSlot(s) PROVE PlacementTypeOK'
  BY <1>6 DEF SkipSlot, inputs, mapping
<1>7. ASSUME NEW s \in candidates, TakeSlot(s) PROVE PlacementTypeOK'
  <2> DEFINE minutes == AdjustForTrailingBlock(RawDuration(s))
             a == [task |-> task, window |-> s.window, from |-> s.from, to |-> s.from + minutes]
  <2>1. s \in Slot /\ s.from < s.to /\ Length(s) >= MinBlock /\ phase = "slots" /\ remaining > 0
    BY <1>7 DEF TakeSlot, SelectInv, SlotsInv, SlotsAreFree
  <2>2. minutes \in Nat /\ minutes <= remaining
    <3> HIDE DEF PlacementTypeOK
    <3>1. QED
      BY <2>1, MinutesTaken
  <2> HIDE DEF minutes
  <2>3. a \in Block
    BY <2>1, <2>2 DEF Block, Slot
  <2>4. allocations' = allocations \cup {a} /\ remaining' = remaining - minutes
    BY <1>7 DEF TakeSlot, minutes
  <2>5. remaining' \in Nat
    BY <2>2, <2>4
  <2> HIDE DEF a
  <2>6. QED
    BY <1>7, <2>3, <2>4, <2>5 DEF TakeSlot, inputs, mapping
<1>8. ASSUME PlaceTask PROVE PlacementTypeOK'
  <2>1. Consume(slots, allocations) \subseteq Slot
    BY ConsumeFacts
  <2>2. task \in Task
    BY <1>8 DEF PlaceTask
  <2>3. QED
    BY <1>8, <2>1, <2>2 DEF PlaceTask, inputs, mapping, selecting
<1>9. ASSUME AllPlaced PROVE PlacementTypeOK'
  BY <1>9 DEF AllPlaced, inputs, mapping, selecting
<1>10. QED
  BY <1>1, <1>2, <1>3, <1>4, <1>5, <1>6, <1>7, <1>8, <1>9 DEF Step, NextSlots, NextTasks

\* The time between the cursor and the next blocker, or the end of the window.
LEMMA NewSlotIsFree ==
  ASSUME PlacementTypeOK, WindowInv, SlotsInv, phase = "subtract",
         NEW to \in Nat, to <= window.to, \A c \in todoBlockers : to <= c.from,
         NEW s \in Free(cursor, to)
  PROVE  /\ s.from < s.to /\ s.window = window.from /\ s.from = cursor /\ s.to = to
         /\ window.from <= s.from /\ s.to <= window.to
         /\ \A b \in blockers \cup blocks : ~Overlap(s, b)
         /\ \A r \in slots : r.window = s.window => ~Overlap(r, s)
<1>1. s = Piece(window.from, cursor, to) /\ s.window = window.from /\ s.from = cursor /\ s.to = to
      /\ cursor < to
  BY DEF Free, Piece
<1>2. /\ window \in windows /\ window.from \in Nat /\ window.to \in Nat /\ window.from < window.to
      /\ cursor \in Nat /\ window.from <= cursor
  BY InputFacts DEF PlacementTypeOK, WindowInv
<1>3. ASSUME NEW b \in blockers PROVE ~Overlap(s, b)
  <2>1. b.from \in Nat /\ b.to \in Nat /\ b.from < b.to
    BY InputFacts
  <2>2. CASE Overlap(b, window)
    <3>1. to <= Clip(b, window).from \/ Clip(b, window).to <= cursor
      BY <2>2 DEF WindowInv
    <3>2. QED
      BY <1>1, <1>2, <2>1, <3>1 DEF Overlap, Clip
  <2>3. CASE ~Overlap(b, window)
    BY <1>1, <1>2, <2>1, <2>3 DEF Overlap
  <2>4. QED
    BY <2>2, <2>3
<1>4. blocks = {}
  BY DEF SlotsInv
<1>5. \A r \in slots : r.window = s.window => ~Overlap(r, s)
  <2>1. \A r \in slots : r.window = window.from => r.to <= cursor
    BY DEF WindowInv
  <2>2. \A r \in slots : r.from \in Nat /\ r.to \in Nat
    BY DEF PlacementTypeOK, Slot
  <2>3. QED
    BY <1>1, <1>2, <2>1, <2>2 DEF Overlap
<1>6. QED
  BY <1>1, <1>2, <1>3, <1>4, <1>5

LEMMA PlacementStepWindow ==
  ASSUME PlacementInv, Step
  PROVE  WindowInv'
<1> USE DEF WindowInv
<1>1. ASSUME NEW w \in todoWindows, OpenWindow(w) PROVE WindowInv'
  <2>1. /\ w \in windows /\ w \in Interval /\ w.from \in Nat /\ w.to \in Nat /\ w.from < w.to
        /\ blockers \subseteq Interval
    BY InputFacts DEF PlacementInv, PlacementTypeOK
  <2>2. /\ windows' = windows /\ blockers' = blockers /\ slots' = slots
        /\ window' = w /\ todoWindows' = todoWindows \ {w} /\ cursor' = w.from
        /\ todoBlockers' = {Clip(b, w) : b \in {b \in blockers : Overlap(b, w)}}
    BY <1>1 DEF OpenWindow, inputs, CollectBlockers
  <2>3. \A s \in slots : s.window # w.from
    BY DEF PlacementInv, SlotsInv
  <2>4. \A c \in todoBlockers' : /\ w.from <= c.from /\ c.to <= w.to
                                 /\ \E b \in blockers : c = Clip(b, w)
    BY <2>1, <2>2, ClipFacts
  <2>5. QED
    BY <2>1, <2>2, <2>3, <2>4
<1>2. ASSUME NEW b \in todoBlockers, SubtractBlocker(b) PROVE WindowInv'
  <2>1. /\ windows' = windows /\ blockers' = blockers /\ window' = window
        /\ todoWindows' = todoWindows /\ phase = "subtract" /\ phase' = phase
        /\ todoBlockers' = todoBlockers \ {b}
        /\ slots' = slots \cup Free(cursor, b.from)
        /\ cursor' = IF b.to > cursor THEN b.to ELSE cursor
        /\ \A c \in todoBlockers : b.from <= c.from
    BY <1>2 DEF SubtractBlocker, inputs
  <2>2. /\ b.from \in Nat /\ b.to \in Nat /\ b.from < b.to /\ cursor \in Nat
        /\ window.from \in Nat /\ window.to \in Nat
    BY DEF PlacementInv, PlacementTypeOK, Interval
  <2>3. window.from <= cursor /\ cursor <= window.to /\ window.from <= b.from /\ b.to <= window.to
    BY <2>1 DEF PlacementInv
  <2>4. cursor \in Nat /\ cursor' \in Nat /\ cursor <= cursor' /\ b.to <= cursor' /\ cursor' <= window.to
    BY <2>1, <2>2, <2>3
  <2>5. ASSUME NEW s \in slots', s.window = window.from PROVE s.to <= cursor'
    <3>1. CASE s \in slots
      <4>1. s.to <= cursor /\ s.to \in Nat
        BY <2>1, <2>5, <3>1 DEF PlacementInv, PlacementTypeOK, Slot
      <4>2. QED
        BY <2>4, <4>1
    <3>2. CASE s \in Free(cursor, b.from)
      <4>1. s.to = b.from
        BY <3>2 DEF Free, Piece
      <4>2. QED
        BY <2>2, <2>4, <4>1
    <3>3. QED
      BY <2>1, <3>1, <3>2
  <2>6. ASSUME NEW x \in blockers, Overlap(x, window)
        PROVE  Clip(x, window) \in todoBlockers' \/ Clip(x, window).to <= cursor'
    <3>1. Clip(x, window) \in Interval
      <4>1. x \in Interval /\ window \in Interval
        BY InputFacts DEF PlacementInv, PlacementTypeOK
      <4>2. QED
        BY <2>6, <4>1, ClipFacts
    <3>2. Clip(x, window).to \in Nat
      BY <3>1 DEF Interval
    <3>3. Clip(x, window) \in todoBlockers \/ Clip(x, window).to <= cursor
      BY <2>1, <2>6 DEF PlacementInv
    <3> HIDE DEF WindowInv
    <3>4. CASE Clip(x, window).to <= cursor
      BY <2>4, <3>2, <3>4
    <3>5. CASE Clip(x, window) \in todoBlockers
      BY <2>1, <2>4, <3>5
    <3>6. QED
      BY <3>3, <3>4, <3>5
  <2>7. /\ window \in windows \ todoWindows
        /\ \A c \in todoBlockers' : /\ window.from <= c.from /\ c.to <= window.to
                                   /\ \E x \in blockers : c = Clip(x, window)
    <3>1. todoBlockers' \subseteq todoBlockers
      BY <2>1
    <3>2. QED
      BY <2>1, <3>1 DEF PlacementInv
  <2>8. QED
    <3>1. window.from <= cursor' /\ cursor' <= window.to
      BY <2>2, <2>3, <2>4
    <3>2. QED
      BY <2>1, <2>5, <2>6, <2>7, <3>1
<1>3. CASE phase' # "subtract"
  BY <1>3
<1>4. ASSUME CloseWindow \/ MapBuilt \/ PlaceTask \/ AllPlaced
             \/ (\E t \in NextTasks : StartTask(t))
             \/ (\E s \in NextSlots : SkipSlot(s) \/ TakeSlot(s))
      PROVE  phase' # "subtract"
  BY <1>4 DEF CloseWindow, MapBuilt, PlaceTask, AllPlaced, StartTask, SkipSlot, TakeSlot
<1>5. QED
  BY <1>1, <1>2, <1>3, <1>4 DEF Step

\* A slot that is added is of the open window, free, and clear of its other slots.
LEMMA AddedSlots ==
  ASSUME PlacementInv, phase = "subtract",
         NEW to \in Nat, to <= window.to, \A c \in todoBlockers : to <= c.from,
         slots' = slots \cup Free(cursor, to),
         UNCHANGED <<inputs, todoWindows, blocks>>
  PROVE  SlotsInv'
<1>1. /\ PlacementTypeOK /\ WindowInv /\ SlotsInv /\ window \in windows \ todoWindows
      /\ blocks = {} /\ windows' = windows /\ blockers' = blockers /\ todoWindows' = todoWindows
      /\ blocks' = blocks
  BY DEF PlacementInv, WindowInv, SlotsInv, inputs
<1>2. \A s \in Free(cursor, to) :
        /\ s.from < s.to /\ s.window = window.from /\ window.from <= s.from /\ s.to <= window.to
        /\ \A b \in blockers \cup blocks : ~Overlap(s, b)
        /\ \A r \in slots : r.window = s.window => ~Overlap(r, s)
  BY <1>1, NewSlotIsFree
<1>3. \A r, s \in Free(cursor, to) : r = s
  BY DEF Free
<1>4. SlotsAreFree'
  BY <1>1, <1>2 DEF SlotsInv, SlotsAreFree
<1>5. \A s \in slots' : \A w \in todoWindows : s.window # w.from
  <2>1. \A w \in todoWindows : window.from # w.from
    BY <1>1, InputFacts DEF PlacementTypeOK
  <2>2. QED
    BY <1>1, <1>2, <2>1 DEF SlotsInv
<1>6. ASSUME NEW r \in slots', NEW s \in slots', r.window = s.window, Overlap(r, s)
      PROVE  r = s
  <2>1. CASE r \in slots /\ s \in slots
    BY <1>1, <1>6, <2>1 DEF SlotsInv
  <2>2. Overlap(s, r)
    BY <1>6 DEF Overlap
  <2>3. CASE r \in Free(cursor, to) \/ s \in Free(cursor, to)
    BY <1>2, <1>3, <1>6, <2>2, <2>3
  <2>4. QED
    BY <2>1, <2>3
<1>7. QED
  BY <1>1, <1>4, <1>5, <1>6 DEF SlotsInv

\* The pieces that are left are free of the earlier blocks and of the new ones.
LEMMA ConsumedSlots ==
  ASSUME PlacementInv, PlaceTask
  PROVE  SlotsInv'
<1>1. /\ slots \subseteq Slot /\ allocations \subseteq Block /\ phase = "slots" /\ phase' = "tasks"
      /\ windows' = windows /\ blockers' = blockers /\ todoWindows' = todoWindows
      /\ blocks' = blocks \cup allocations /\ slots' = Consume(slots, allocations)
      /\ \A a \in allocations : a.from < a.to
  BY DEF PlacementInv, PlacementTypeOK, SelectInv, PlaceTask, inputs, mapping
<1>2. \A r \in slots' : \E s \in slots :
        /\ r \in Slot /\ r.from < r.to /\ \A b \in allocations : ~Overlap(r, b)
        /\ r \in LeftOf(s, allocations) /\ r.window = s.window
        /\ s.from <= r.from /\ r.to <= s.to
  BY <1>1, ConsumeFacts
<1>3. ASSUME NEW r \in slots'
      PROVE  /\ r.from < r.to
             /\ \E w \in windows : w.from = r.window /\ w.from <= r.from /\ r.to <= w.to
             /\ \A b \in blockers \cup blocks \cup allocations : ~Overlap(r, b)
             /\ \A w \in todoWindows : r.window # w.from
  <2>1. PICK s \in slots :
        /\ r \in Slot /\ r.from < r.to /\ \A b \in allocations : ~Overlap(r, b)
        /\ r.window = s.window /\ s.from <= r.from /\ r.to <= s.to
    BY <1>2
  <2>2. PICK w \in windows : w.from = s.window /\ w.from <= s.from /\ s.to <= w.to
    BY DEF PlacementInv, SlotsInv, SlotsAreFree
  <2>3. /\ r.from \in Nat /\ r.to \in Nat /\ s.from \in Nat /\ s.to \in Nat
        /\ w.from \in Nat /\ w.to \in Nat
        /\ \A b \in blockers \cup blocks : b.from \in Nat /\ b.to \in Nat
    <3>1. PlacementTypeOK /\ blocks \subseteq Block
      BY DEF PlacementInv, PlacementTypeOK
    <3>2. QED
      BY <1>1, <2>1, <3>1, InputFacts DEF Slot, Block
  <2>4. w.from <= r.from /\ r.to <= w.to
    BY <2>1, <2>2, <2>3
  <2>5. \A b \in blockers \cup blocks : ~Overlap(s, b)
    BY DEF PlacementInv, SlotsInv, SlotsAreFree
  <2>6. \A b \in blockers \cup blocks : ~Overlap(r, b)
    BY <2>1, <2>3, <2>5 DEF Overlap
  <2>7. QED
    BY <2>1, <2>2, <2>4, <2>6 DEF PlacementInv, SlotsInv
<1>4. ASSUME NEW p \in slots', NEW q \in slots', p.window = q.window, Overlap(p, q)
      PROVE  p = q
  <2>1. PICK s \in slots :
        /\ p \in Slot /\ p.from < p.to /\ \A b \in allocations : ~Overlap(p, b)
        /\ p \in LeftOf(s, allocations) /\ p.window = s.window
        /\ s.from <= p.from /\ p.to <= s.to
    BY <1>2
  <2>2. PICK z \in slots :
        /\ q \in Slot /\ q.from < q.to /\ \A b \in allocations : ~Overlap(q, b)
        /\ q \in LeftOf(z, allocations) /\ q.window = z.window
        /\ z.from <= q.from /\ q.to <= z.to
    BY <1>2
  <2>3. s = z
    <3>1. /\ p.from \in Nat /\ p.to \in Nat /\ q.from \in Nat /\ q.to \in Nat
          /\ s.from \in Nat /\ s.to \in Nat /\ z.from \in Nat /\ z.to \in Nat
      BY <1>1, <2>1, <2>2 DEF Slot
    <3>2. Overlap(s, z)
      BY <1>4, <2>1, <2>2, <3>1 DEF Overlap
    <3>3. QED
      BY <1>4, <2>1, <2>2, <3>2 DEF PlacementInv, SlotsInv
  <2>4. QED
    BY <1>1, <1>4, <2>1, <2>2, <2>3, PiecesApart
<1>5. QED
  BY <1>1, <1>3, <1>4 DEF SlotsInv, SlotsAreFree

LEMMA PlacementStepSlots ==
  ASSUME PlacementInv, Step
  PROVE  SlotsInv'
<1>1. ASSUME NEW w \in todoWindows, OpenWindow(w) PROVE SlotsInv'
  BY <1>1 DEF OpenWindow, inputs, PlacementInv, SlotsInv, SlotsAreFree
<1>2. ASSUME NEW b \in todoBlockers, SubtractBlocker(b) PROVE SlotsInv'
  <2>1. b.from \in Nat /\ b.from <= window.to
    <3>1. b.from \in Nat /\ b.to \in Nat /\ b.from < b.to /\ window.to \in Nat
      BY DEF PlacementInv, PlacementTypeOK, Interval
    <3>2. b.to <= window.to
      BY <1>2 DEF SubtractBlocker, PlacementInv, WindowInv
    <3>3. QED
      BY <3>1, <3>2
  <2>2. QED
    BY <1>2, <2>1, AddedSlots DEF SubtractBlocker
<1>3. ASSUME CloseWindow PROVE SlotsInv'
  <2>1. window.to \in Nat
    BY DEF PlacementInv, PlacementTypeOK, Interval
  <2>2. QED
    BY <1>3, <2>1, AddedSlots DEF CloseWindow, mapping
<1>4. ASSUME MapBuilt PROVE SlotsInv'
  BY <1>4 DEF MapBuilt, inputs, mapping, PlacementInv, SlotsInv, SlotsAreFree
<1>5. ASSUME NEW t \in todoTasks, StartTask(t) PROVE SlotsInv'
  BY <1>5 DEF StartTask, inputs, mapping, PlacementInv, SlotsInv, SlotsAreFree
<1>6. ASSUME NEW s \in candidates, SkipSlot(s) PROVE SlotsInv'
  BY <1>6 DEF SkipSlot, inputs, mapping, PlacementInv, SlotsInv, SlotsAreFree
<1>7. ASSUME NEW s \in candidates, TakeSlot(s) PROVE SlotsInv'
  BY <1>7 DEF TakeSlot, inputs, mapping, PlacementInv, SlotsInv, SlotsAreFree
<1>8. ASSUME PlaceTask PROVE SlotsInv'
  BY <1>8, ConsumedSlots
<1>9. ASSUME AllPlaced PROVE SlotsInv'
  BY <1>9 DEF AllPlaced, inputs, mapping, PlacementInv, SlotsInv, SlotsAreFree
<1>10. QED
  BY <1>1, <1>2, <1>3, <1>4, <1>5, <1>6, <1>7, <1>8, <1>9 DEF Step, NextSlots, NextTasks

\* The block a slot gives.
Allocated(s) ==
  [task |-> task, window |-> s.window, from |-> s.from,
   to |-> s.from + AdjustForTrailingBlock(RawDuration(s))]

LEMMA AllocatedFacts ==
  ASSUME PlacementInv, NEW s \in candidates, TakeSlot(s)
  PROVE  /\ allocations' = allocations \cup {Allocated(s)}
         /\ remaining' = remaining - Length(Allocated(s))
         /\ Allocated(s).task = task /\ TakenFrom(Allocated(s), s)
         /\ Length(Allocated(s)) \in Nat /\ Length(Allocated(s)) <= remaining
         /\ Allocated(s).from < Allocated(s).to
         /\ Length(Allocated(s)) >= MinBlock \/ Length(Allocated(s)) = duration[task]
         /\ remaining' = 0 \/ remaining' >= MinBlock
<1> DEFINE minutes == AdjustForTrailingBlock(RawDuration(s))
<1>1. /\ s \in Slot /\ s.from < s.to /\ Length(s) >= MinBlock /\ phase = "slots" /\ remaining > 0
      /\ PlacementTypeOK /\ SelectInv /\ MinBlock \in Nat
  BY PlacementAssumption
     DEF TakeSlot, PlacementInv, SelectInv, SlotsInv, SlotsAreFree, PlacementTypeOK
<1>2. /\ minutes \in Nat /\ 0 < minutes /\ minutes <= remaining
      /\ minutes < Length(s) + MinBlock
      /\ minutes >= MinBlock \/ minutes = duration[task]
      /\ remaining - minutes = 0 \/ remaining - minutes >= MinBlock
  BY <1>1, MinutesTaken
<1>3. allocations' = allocations \cup {Allocated(s)} /\ remaining' = remaining - minutes
  BY DEF TakeSlot, Allocated
<1>4. Allocated(s) = [task |-> task, window |-> s.window, from |-> s.from, to |-> s.from + minutes]
  BY DEF Allocated
<1> HIDE DEF minutes
<1>5. s.from \in Nat /\ s.to \in Nat
  BY <1>1 DEF Slot
<1>6. /\ Allocated(s).task = task /\ Allocated(s).window = s.window
      /\ Allocated(s).from = s.from /\ Allocated(s).to = s.from + minutes
  BY <1>4
<1>7. Length(Allocated(s)) = minutes
  BY <1>2, <1>5, <1>6 DEF Length
<1>8. TakenFrom(Allocated(s), s) /\ Allocated(s).from < Allocated(s).to
  BY <1>1, <1>2, <1>5, <1>6 DEF TakenFrom, Length
<1>9. QED
  BY <1>2, <1>3, <1>6, <1>7, <1>8

LEMMA PlacementStepSelect ==
  ASSUME PlacementInv, Step
  PROVE  SelectInv'
<1>1. ASSUME NEW t \in todoTasks, StartTask(t) PROVE SelectInv'
  BY <1>1 DEF StartTask, inputs, PlacementInv, PlacementTypeOK, SelectInv, TakenFrom, Length
<1>2. ASSUME NEW s \in candidates, SkipSlot(s) PROVE SelectInv'
  BY <1>2 DEF SkipSlot, inputs, PlacementInv, SelectInv, TakenFrom, Length
<1>3. ASSUME NEW s \in candidates, TakeSlot(s) PROVE SelectInv'
  <2>1. /\ duration' = duration /\ todoTasks' = todoTasks /\ task' = task /\ slots' = slots
        /\ candidates' = candidates \ {s} /\ phase = "slots" /\ phase' = phase
    BY <1>3 DEF TakeSlot, inputs, mapping
  <2>2. /\ task \in Task \ todoTasks /\ candidates \subseteq slots
        /\ \A r \in candidates : Length(r) >= MinBlock
    BY <2>1 DEF PlacementInv, SelectInv
  <2>3. /\ allocations' = allocations \cup {Allocated(s)}
        /\ Allocated(s).task = task /\ TakenFrom(Allocated(s), s)
        /\ Allocated(s).from < Allocated(s).to
        /\ Length(Allocated(s)) >= MinBlock \/ Length(Allocated(s)) = duration[task]
        /\ remaining' = 0 \/ remaining' >= MinBlock
    BY <1>3, AllocatedFacts
  <2>4. ASSUME NEW a \in allocations'
        PROVE  /\ a.task = task /\ a.from < a.to
               /\ Length(a) >= MinBlock \/ Length(a) = duration[task]
               /\ \E r \in slots \ candidates' : TakenFrom(a, r)
    <3>1. CASE a \in allocations
      <4>1. PICK r \in slots \ candidates : TakenFrom(a, r)
        BY <2>1, <3>1 DEF PlacementInv, SelectInv
      <4>2. /\ a.task = task /\ a.from < a.to
            /\ Length(a) >= MinBlock \/ Length(a) = duration[task]
        BY <2>1, <3>1 DEF PlacementInv, SelectInv
      <4>3. QED
        BY <2>1, <4>1, <4>2
    <3>2. CASE a = Allocated(s)
      <4>1. s \in slots \ candidates'
        BY <2>1, <2>2
      <4>2. QED
        BY <2>3, <3>2, <4>1
    <3>3. QED
      BY <2>3, <3>1, <3>2
  <2>5. QED
    BY <2>1, <2>2, <2>3, <2>4 DEF SelectInv, TakenFrom, Length
<1>4. ASSUME CloseWindow \/ MapBuilt \/ PlaceTask \/ AllPlaced
             \/ (\E w \in todoWindows : OpenWindow(w))
             \/ (\E b \in todoBlockers : SubtractBlocker(b))
      PROVE  phase' # "slots"
  BY <1>4 DEF CloseWindow, MapBuilt, PlaceTask, AllPlaced, OpenWindow, SubtractBlocker
<1>5. QED
  BY <1>1, <1>2, <1>3, <1>4 DEF Step, NextSlots, NextTasks, SelectInv

LEMMA PlacementStepBlocks ==
  ASSUME PlacementInv, Step
  PROVE  BlocksInv'
<1> USE DEF BlocksInv, NoMicroBlocks
<1>1. ASSUME NEW t \in todoTasks, StartTask(t) PROVE BlocksInv'
  BY <1>1 DEF StartTask, inputs, PlacementInv, Length
<1>2. ASSUME NEW s \in candidates, SkipSlot(s) \/ TakeSlot(s) PROVE BlocksInv'
  BY <1>2 DEF SkipSlot, TakeSlot, inputs, PlacementInv, Length
<1>3. ASSUME PlaceTask PROVE BlocksInv'
  <2>1. /\ duration' = duration /\ todoTasks' = todoTasks /\ phase = "slots" /\ phase' = "tasks"
        /\ blocks' = blocks \cup allocations
    BY <1>3 DEF PlaceTask, inputs, selecting
  <2>2. \A a \in allocations : /\ a.from < a.to /\ a.task \notin todoTasks
                               /\ Length(a) >= MinBlock \/ Length(a) = duration[a.task]
    BY <2>1 DEF PlacementInv, SelectInv
  <2>3. QED
    BY <2>1, <2>2 DEF PlacementInv, Length
<1>4. ASSUME CloseWindow \/ MapBuilt \/ AllPlaced
             \/ (\E w \in todoWindows : OpenWindow(w))
             \/ (\E b \in todoBlockers : SubtractBlocker(b))
      PROVE  BlocksInv'
  <2>1. UNCHANGED <<duration, todoTasks, blocks>> /\ phase' # "slots"
    BY <1>4 DEF CloseWindow, MapBuilt, AllPlaced, OpenWindow, SubtractBlocker, inputs
  <2>2. QED
    BY <2>1 DEF PlacementInv, Length
<1>5. QED
  BY <1>1, <1>2, <1>3, <1>4 DEF Step, NextSlots, NextTasks

LEMMA PlacementStepInv ==
  ASSUME PlacementInv, [Step]_placementVars
  PROVE  PlacementInv'
<1>1. CASE Step
  BY <1>1, PlacementStepTypeOK, PlacementStepWindow, PlacementStepSlots, PlacementStepSelect,
     PlacementStepBlocks DEF PlacementInv
<1>2. CASE UNCHANGED placementVars
  BY <1>2 DEF placementVars, inputs, mapping, selecting, PlacementInv, PlacementTypeOK, WindowInv,
     SlotsInv, SlotsAreFree, SelectInv, TakenFrom, BlocksInv, NoMicroBlocks, Overlap, Clip, Length
<1>3. QED
  BY <1>1, <1>2

LEMMA PlacementAlwaysInv == PlacementSpec => []PlacementInv
<1>1. QED
  BY PlacementInitInv, PlacementStepInv, PTL DEF PlacementSpec

-----------------------------------------------------------------------------
\* Where a slot was, after the step of a task there is a slot or one of its blocks.
LEMMA PlacementStepFree ==
  ASSUME PlacementInv, FreeInv, Step
  PROVE  FreeInv'
<1> DEFINE Open(w, m) ==
      \/ phase = "subtract" /\ w = window /\ cursor <= m
      \/ \E s \in slots : s.window = w.from /\ Holds(s, m)
<1>1. \A w \in windows \ todoWindows : \A m \in w.from .. w.to - 1 :
        (\A b \in blockers \cup blocks : ~Holds(b, m)) => Open(w, m)
  BY DEF FreeInv
<1>2. ASSUME NEW w \in todoWindows, OpenWindow(w) PROVE FreeInv'
  <2>1. /\ windows' = windows /\ blockers' = blockers /\ blocks' = blocks /\ slots' = slots
        /\ phase = "windows" /\ phase' = "subtract" /\ todoWindows' = todoWindows \ {w}
        /\ window' = w /\ cursor' = w.from
    BY <1>2 DEF OpenWindow, inputs
  <2>2. w.from \in Nat /\ w.to \in Nat
    BY InputFacts DEF PlacementInv, PlacementTypeOK
  <2>3. \A m \in w.from .. w.to - 1 : cursor' <= m
    BY <2>1, <2>2
  <2>4. QED
    BY <1>1, <2>1, <2>3 DEF FreeInv, Holds
<1>3. ASSUME NEW b \in todoBlockers, SubtractBlocker(b) PROVE FreeInv'
  <2>1. /\ windows' = windows /\ blockers' = blockers /\ blocks' = blocks
        /\ slots' = slots \cup Free(cursor, b.from)
        /\ phase = "subtract" /\ phase' = phase /\ todoWindows' = todoWindows
        /\ window' = window /\ cursor' = IF b.to > cursor THEN b.to ELSE cursor
    BY <1>3 DEF SubtractBlocker, inputs
  <2>2. /\ window \in Interval /\ blockers \subseteq Interval
        /\ cursor \in Nat /\ b.from \in Nat /\ b.to \in Nat
    BY InputFacts DEF PlacementInv, PlacementTypeOK, Interval
  <2>3. PICK x \in blockers : b = Clip(x, window)
    BY <2>1 DEF PlacementInv, WindowInv
  <2>4. ASSUME NEW m \in window.from .. window.to - 1, cursor <= m,
               \A y \in blockers \cup blocks : ~Holds(y, m)
        PROVE  \/ cursor' <= m
               \/ \E s \in Free(cursor, b.from) : s.window = window.from /\ Holds(s, m)
    <3>1. m \in Nat /\ window.from <= m /\ m < window.to
      BY <2>2 DEF Interval
    <3>2. ~Holds(b, m)
      BY <2>2, <2>3, <2>4, <3>1 DEF Holds, Clip, Interval
    <3>3. CASE m < b.from
      <4>1. Piece(window.from, cursor, b.from) \in Free(cursor, b.from)
        BY <2>2, <2>4, <3>1, <3>3 DEF Free
      <4>2. QED
        BY <2>4, <3>3, <4>1 DEF Piece, Holds
    <3>4. CASE b.to <= m
      BY <2>1, <2>2, <2>4, <3>1, <3>4
    <3>5. QED
      BY <2>2, <3>1, <3>2, <3>3, <3>4 DEF Holds
  <2>5. ASSUME NEW w \in windows \ todoWindows, NEW m \in w.from .. w.to - 1,
               \A y \in blockers \cup blocks : ~Holds(y, m)
        PROVE  \/ w = window /\ cursor' <= m
               \/ \E s \in slots' : s.window = w.from /\ Holds(s, m)
    BY <1>1, <2>1, <2>4, <2>5
  <2>6. QED
    BY <2>1, <2>5 DEF FreeInv, Holds
<1>4. ASSUME CloseWindow PROVE FreeInv'
  <2>1. /\ windows' = windows /\ blockers' = blockers /\ blocks' = blocks
        /\ slots' = slots \cup Free(cursor, window.to)
        /\ phase = "subtract" /\ phase' = "windows" /\ todoWindows' = todoWindows
    BY <1>4 DEF CloseWindow, inputs, mapping
  <2>2. /\ cursor \in Nat /\ window.from \in Nat /\ window.to \in Nat
    BY DEF PlacementInv, PlacementTypeOK, Interval
  <2>3. ASSUME NEW m \in window.from .. window.to - 1, cursor <= m
        PROVE  \E s \in Free(cursor, window.to) : s.window = window.from /\ Holds(s, m)
    <3>1. Piece(window.from, cursor, window.to) \in Free(cursor, window.to)
      BY <2>2, <2>3 DEF Free
    <3>2. QED
      BY <2>2, <2>3, <3>1 DEF Piece, Holds
  <2>4. ASSUME NEW w \in windows \ todoWindows, NEW m \in w.from .. w.to - 1,
               \A y \in blockers \cup blocks : ~Holds(y, m)
        PROVE  \E s \in slots' : s.window = w.from /\ Holds(s, m)
    BY <1>1, <2>1, <2>3, <2>4
  <2>5. QED
    BY <2>1, <2>4 DEF FreeInv, Holds
<1>5. ASSUME PlaceTask PROVE FreeInv'
  <2>1. /\ windows' = windows /\ blockers' = blockers /\ todoWindows' = todoWindows
        /\ blocks' = blocks \cup allocations /\ slots' = Consume(slots, allocations)
        /\ phase = "slots" /\ phase' = "tasks" /\ todoWindows = {}
        /\ slots \subseteq Slot /\ allocations \subseteq Block
    BY <1>5 DEF PlaceTask, inputs, mapping, PlacementInv, PlacementTypeOK, FreeInv
  <2>2. ASSUME NEW w \in windows, NEW m \in w.from .. w.to - 1,
               \A y \in blockers \cup blocks' : ~Holds(y, m)
        PROVE  \E s \in slots' : s.window = w.from /\ Holds(s, m)
    <3>1. m \in Nat
      BY InputFacts DEF PlacementInv, PlacementTypeOK
    <3>2. PICK s \in slots : s.window = w.from /\ Holds(s, m)
      BY <1>1, <2>1, <2>2
    <3>3. PICK r \in Consume(slots, allocations) : r.window = s.window /\ Holds(r, m)
      BY <2>1, <2>2, <3>1, <3>2, FreeMinuteIsLeft
    <3>4. QED
      BY <2>1, <3>2, <3>3
  <2>3. QED
    BY <2>1, <2>2 DEF FreeInv, Holds
<1>6. ASSUME MapBuilt \/ AllPlaced \/ (\E t \in todoTasks : StartTask(t))
             \/ (\E s \in candidates : SkipSlot(s) \/ TakeSlot(s))
      PROVE  FreeInv'
  <2>1. UNCHANGED <<windows, blockers, blocks, slots, todoWindows>>
    BY <1>6 DEF MapBuilt, AllPlaced, StartTask, SkipSlot, TakeSlot, inputs, mapping
  <2>2. phase # "subtract" /\ phase' # "subtract" /\ todoWindows' = {}
    BY <1>6, <2>1 DEF MapBuilt, AllPlaced, StartTask, SkipSlot, TakeSlot, inputs, mapping, FreeInv
  <2>3. QED
    BY <1>1, <2>1, <2>2 DEF FreeInv, Holds
<1>7. QED
  BY <1>2, <1>3, <1>4, <1>5, <1>6 DEF Step, NextSlots, NextTasks

-----------------------------------------------------------------------------
\* The sum of lengths, as a sum of the values of a function.
Timed == {b \in Block : b.from < b.to}
lengthOf == [b \in Timed |-> Length(b)]

LEMMA MinutesAreTotal ==
  ASSUME NEW B \in SUBSET Timed, IsFiniteSet(B)
  PROVE  MinutesOf(B) = Total(lengthOf, B)
<1> DEFINE Iter(g) == g = [s \in SUBSET B |-> IF s = {} THEN 0 ELSE Length(Pick(s)) + g[Rest(s)]]
           h == CHOOSE g : Iter(g)
<1>1. MinutesOf(B) = h[B]
  BY DEF MinutesOf, MapThenSumSet, MapThenFoldSet, Pick, Rest
<1>2. ASSUME NEW g PROVE Iter(g) <=> Sums(lengthOf, B, g)
  <2>1. ASSUME NEW s \in SUBSET B, s # {} PROVE lengthOf[Pick(s)] = Length(Pick(s))
    BY <2>1, RestFacts DEF lengthOf
  <2>2. \A s \in SUBSET B : (IF s = {} THEN 0 ELSE Length(Pick(s)) + g[Rest(s)])
                          = (IF s = {} THEN 0 ELSE lengthOf[Pick(s)] + g[Rest(s)])
    BY <2>1
  <2>3. [s \in SUBSET B |-> IF s = {} THEN 0 ELSE Length(Pick(s)) + g[Rest(s)]]
          = [s \in SUBSET B |-> IF s = {} THEN 0 ELSE lengthOf[Pick(s)] + g[Rest(s)]]
    BY <2>2
  <2>4. QED
    BY <2>3 DEF Sums
<1>3. Sums(lengthOf, B, h)
  <2>1. Sums(lengthOf, B, SumsOf(lengthOf, B))
    BY SumsExist
  <2> HIDE DEF Iter
  <2>2. Iter(h)
    BY <1>2, <2>1
  <2> HIDE DEF h
  <2>3. QED
    BY <1>2, <2>2
<1> HIDE DEF h
<1>4. h[B] = Total(lengthOf, B)
  BY <1>3, SumsTotal
<1>5. QED
  BY <1>1, <1>4

LEMMA MinutesOfNone == MinutesOf({}) = 0
BY MinutesAreTotal, TotalEmpty, FS_EmptySet

LEMMA MinutesOfOneMore ==
  ASSUME NEW B \in SUBSET Timed, IsFiniteSet(B), NEW b \in Timed \ B
  PROVE  MinutesOf(B) \in Nat /\ MinutesOf(B \cup {b}) = MinutesOf(B) + Length(b)
<1>1. lengthOf \in [Timed -> Nat] /\ lengthOf[b] = Length(b)
  BY DEF lengthOf, Timed, Block, Length
<1>2. B \cup {b} \in SUBSET Timed /\ IsFiniteSet(B \cup {b})
  BY FS_AddElement
<1>3. MinutesOf(B) = Total(lengthOf, B) /\ MinutesOf(B \cup {b}) = Total(lengthOf, B \cup {b})
  BY <1>2, MinutesAreTotal
<1>4. QED
  BY <1>1, <1>3, TotalAdd, TotalType

LEMMA MinutesInit == PlacementInit => MinutesInv
<1> SUFFICES ASSUME PlacementInit PROVE MinutesInv
  OBVIOUS
<1>1. QED
  BY FS_EmptySet DEF PlacementInit, MinutesInv, MinutesAccountedFor

\* A slot is tried once, so its block is a new one; a task is placed once.
LEMMA PlacementStepMinutes ==
  ASSUME PlacementInv, MinutesInv, Step
  PROVE  MinutesInv'
<1>1. ASSUME NEW t \in todoTasks, StartTask(t) PROVE MinutesInv'
  <2>1. /\ UNCHANGED <<duration, blocks, unscheduled>> /\ task' = t /\ t \in Task
        /\ todoTasks' = todoTasks \ {t} /\ remaining' = duration[t] /\ allocations' = {}
    BY <1>1 DEF StartTask, inputs, PlacementInv, PlacementTypeOK
  <2>2. MinutesOf({}) + duration[t] = duration[t]
    BY <2>1, MinutesOfNone, InputFacts DEF PlacementInv
  <2>3. IsFiniteSet({})
    BY FS_EmptySet
  <2>4. QED
    BY <2>1, <2>2, <2>3 DEF MinutesInv, MinutesAccountedFor
<1>2. ASSUME NEW s \in candidates, SkipSlot(s) PROVE MinutesInv'
  BY <1>2 DEF SkipSlot, inputs, MinutesInv, MinutesAccountedFor
<1>3. ASSUME NEW s \in candidates, TakeSlot(s) PROVE MinutesInv'
  <2> DEFINE a == Allocated(s)
  <2>1. /\ UNCHANGED <<duration, blocks, unscheduled, task, todoTasks, phase>> /\ phase = "slots"
    BY <1>3 DEF TakeSlot, inputs, mapping
  <2>2. /\ allocations' = allocations \cup {a} /\ remaining' = remaining - Length(a)
        /\ Length(a) \in Nat /\ Length(a) <= remaining /\ TakenFrom(a, s) /\ a.from < a.to
    BY <1>3, AllocatedFacts
  <2>3. allocations \subseteq Timed
    BY <2>1 DEF PlacementInv, PlacementTypeOK, SelectInv, Timed
  <2>4. a \in Timed
    <3>1. PlacementTypeOK'
      BY <1>3, PlacementStepTypeOK DEF PlacementInv, Step, NextSlots
    <3>2. a \in Block
      BY <2>2, <3>1 DEF PlacementTypeOK
    <3>3. QED
      BY <2>2, <3>2 DEF Timed
  <2>5. a \notin allocations
    <3> SUFFICES ASSUME a \in allocations PROVE FALSE
      OBVIOUS
    <3>1. PICK r \in slots \ candidates : TakenFrom(a, r)
      BY <2>1 DEF PlacementInv, SelectInv
    <3>2. r \in slots /\ s \in slots /\ r # s /\ r.window = s.window /\ r.from = s.from
      BY <2>1, <2>2, <3>1 DEF PlacementInv, SelectInv, TakenFrom
    <3>3. r.from < r.to /\ s.from < s.to
      BY <3>2 DEF PlacementInv, SlotsInv, SlotsAreFree
    <3>4. Overlap(r, s)
      BY <3>2, <3>3 DEF Overlap
    <3>5. QED
      BY <3>2, <3>4 DEF PlacementInv, SlotsInv
  <2>6. IsFiniteSet(allocations) /\ MinutesOf(allocations) + remaining = duration[task]
    BY <2>1 DEF MinutesInv
  <2> HIDE DEF a
  <2>7. /\ MinutesOf(allocations) \in Nat
        /\ MinutesOf(allocations \cup {a}) = MinutesOf(allocations) + Length(a)
    BY <2>3, <2>4, <2>5, <2>6, MinutesOfOneMore
  <2>8. MinutesOf(allocations') + remaining' = duration[task]
    <3>1. remaining \in Nat
      BY DEF PlacementInv, PlacementTypeOK
    <3>2. (MinutesOf(allocations) + Length(a)) + (remaining - Length(a))
            = MinutesOf(allocations) + remaining
      BY <2>2, <2>7, <3>1
    <3>3. QED
      BY <2>2, <2>6, <2>7, <3>2
  <2>9. IsFiniteSet(allocations')
    BY <2>2, <2>6, FS_AddElement
  <2>10. QED
    BY <2>1, <2>8, <2>9 DEF MinutesInv, MinutesAccountedFor
<1>4. ASSUME PlaceTask PROVE MinutesInv'
  <2>1. /\ UNCHANGED <<duration, task, todoTasks, allocations>>
        /\ phase = "slots" /\ phase' = "tasks" /\ task \in Task \ todoTasks
        /\ blocks' = blocks \cup allocations
        /\ unscheduled' = [unscheduled EXCEPT ![task] = remaining]
        /\ unscheduled \in [Task -> Nat \cup {-1}]
    BY <1>4 DEF PlaceTask, inputs, selecting, PlacementInv, PlacementTypeOK, SelectInv
  <2>2. /\ IsFiniteSet(allocations) /\ MinutesOf(allocations) + remaining = duration[task]
        /\ unscheduled[task] = -1 /\ \A t \in todoTasks : unscheduled[t] = -1
    BY <2>1 DEF MinutesInv
  <2>3. /\ \A a \in allocations : a.task = task
        /\ \A b \in blocks : b.task # task
    BY <2>1 DEF PlacementInv, SelectInv, BlocksInv
  <2>4. ASSUME NEW t \in Task, unscheduled'[t] >= 0
        PROVE  MinutesOf({b \in blocks' : b.task = t}) + unscheduled'[t] = duration[t]
    <3>1. CASE t = task
      <4>1. {b \in blocks' : b.task = t} = allocations
        BY <2>1, <2>3, <3>1
      <4>2. unscheduled'[t] = remaining
        BY <2>1, <3>1
      <4>3. QED
        BY <2>2, <3>1, <4>1, <4>2
    <3>2. CASE t # task
      <4>1. {b \in blocks' : b.task = t} = {b \in blocks : b.task = t}
        BY <2>1, <2>3, <3>2
      <4>2. unscheduled'[t] = unscheduled[t]
        BY <2>1, <3>2
      <4>3. QED
        BY <2>4, <4>1, <4>2 DEF MinutesInv, MinutesAccountedFor
    <3>3. QED
      BY <3>1, <3>2
  <2>5. \A t \in todoTasks' : unscheduled'[t] = -1
    BY <2>1, <2>2 DEF PlacementInv, PlacementTypeOK
  <2>6. QED
    BY <2>1, <2>2, <2>4, <2>5 DEF MinutesInv, MinutesAccountedFor
<1>5. ASSUME CloseWindow \/ MapBuilt \/ AllPlaced
             \/ (\E w \in todoWindows : OpenWindow(w))
             \/ (\E b \in todoBlockers : SubtractBlocker(b))
      PROVE  MinutesInv'
  <2>1. UNCHANGED <<duration, todoTasks, blocks, unscheduled, allocations>> /\ phase' # "slots"
    BY <1>5 DEF CloseWindow, MapBuilt, AllPlaced, OpenWindow, SubtractBlocker, inputs, selecting
  <2>2. QED
    BY <2>1 DEF MinutesInv, MinutesAccountedFor
<1>6. QED
  BY <1>1, <1>2, <1>3, <1>4, <1>5 DEF Step, NextSlots, NextTasks

-----------------------------------------------------------------------------
\* A slot that is cut shorter began where it was cut from.
LEMMA BeganInFocusIsKept ==
  ASSUME PlacementTypeOK, NEW s \in Slot, NEW r \in Slot, BeganInFocus(s),
         r.window = s.window, s.from <= r.from, r.to <= s.to
  PROVE  BeganInFocus(r)
<1>1. PICK m \in FocusMinutes :
        /\ m <= s.from /\ InWindow(m, s.window)
        /\ \A c \in blockers : ~Overlap(Piece(s.window, m, s.to), c)
  BY DEF BeganInFocus
<1>2. /\ m \in Nat /\ s.from \in Nat /\ s.to \in Nat /\ r.from \in Nat /\ r.to \in Nat
      /\ \A c \in blockers : c.from \in Nat /\ c.to \in Nat
  BY InputFacts, PlacementAssumption DEF Slot
<1>3. \A c \in blockers : ~Overlap(Piece(r.window, m, r.to), c)
  BY <1>1, <1>2 DEF Overlap, Piece
<1>4. m <= r.from /\ InWindow(m, r.window)
  BY <1>1, <1>2
<1>5. QED
  BY <1>3, <1>4 DEF BeganInFocus

\* A slot whose start is in a focus block began there.
LEMMA FocusSlotBegan ==
  ASSUME PlacementTypeOK, SlotsInv, NEW s \in slots, InFocusBlock(s)
  PROVE  BeganInFocus(s)
<1>1. PICK w \in windows : w.from = s.window /\ w.from <= s.from /\ s.to <= w.to
  BY DEF SlotsInv, SlotsAreFree
<1>2. s.from < s.to /\ \A c \in blockers : ~Overlap(s, c)
  BY DEF SlotsInv, SlotsAreFree
<1>3. /\ s.from \in Nat /\ s.to \in Nat /\ w.from \in Nat /\ w.to \in Nat
      /\ s.from \in FocusMinutes
  BY InputFacts DEF PlacementTypeOK, Slot, InFocusBlock
<1>4. InWindow(s.from, s.window)
  BY <1>1, <1>2, <1>3 DEF InWindow
<1>5. \A c \in blockers : ~Overlap(Piece(s.window, s.from, s.to), c)
  BY <1>2 DEF Overlap, Piece
<1>6. QED
  BY <1>3, <1>4, <1>5 DEF BeganInFocus

\* While minutes remain after a block, it leaves less than the minimum of its slot.
LEMMA MinutesLeaveLittle ==
  ASSUME PlacementTypeOK, remaining > 0, NEW s \in Slot, s.from < s.to,
         remaining - AdjustForTrailingBlock(RawDuration(s)) > 0
  PROVE  Length(s) < AdjustForTrailingBlock(RawDuration(s)) + MinBlock
<1>1. remaining \in Nat /\ MinBlock \in Nat \ {0} /\ Length(s) \in Nat
  BY InputFacts DEF PlacementTypeOK, Slot, Length
<1> HIDE DEF Length
<1>2. QED
  BY <1>1 DEF AdjustForTrailingBlock, RawDuration

\* Where the task that is placed stays short, every slot was tried; the pieces
\* that are left of a slot it used are shorter than the minimum.
LEMMA PlacedShort ==
  ASSUME PlacementInv, ShortInv, PlaceTask
  PROVE  ShortOnlyWhenFull'
<1>1. /\ phase = "slots" /\ task \in Task /\ slots \subseteq Slot /\ allocations \subseteq Block
      /\ PlacementTypeOK /\ SlotsInv /\ unscheduled \in [Task -> Nat \cup {-1}]
      /\ remaining \in Nat /\ MinBlock \in Nat
  BY PlacementAssumption DEF PlaceTask, PlacementInv, PlacementTypeOK
<1>2. /\ windows' = windows /\ blockers' = blockers /\ duration' = duration
      /\ focusTasks' = focusTasks /\ slots' = Consume(slots, allocations)
      /\ unscheduled' = [unscheduled EXCEPT ![task] = remaining]
  BY DEF PlaceTask, inputs
<1>3. ASSUME NEW t \in Task, NEW r \in slots', unscheduled'[t] > 0, Length(r) >= MinBlock
      PROVE  t \notin focusTasks /\ duration[t] < FocusMinBlock /\ BeganInFocus(r)
  <2>1. r \in Slot /\ r.from < r.to /\ \A a \in allocations : ~Overlap(r, a)
    BY <1>1, <1>2, ConsumeFacts
  <2>2. PICK s \in slots : r.window = s.window /\ s.from <= r.from /\ r.to <= s.to
    BY <1>1, <1>2, ConsumeFacts
  <2>3. /\ s \in Slot /\ s.from \in Nat /\ s.to \in Nat /\ r.from \in Nat /\ r.to \in Nat
        /\ \A a \in allocations : a.from \in Nat /\ a.to \in Nat
    BY <1>1, <2>1, <2>2 DEF Slot, Block
  <2>4. Length(s) >= MinBlock
    BY <1>1, <1>3, <2>2, <2>3 DEF Length
  <2>5. CASE t # task
    <3>1. unscheduled[t] > 0
      BY <1>1, <1>2, <1>3, <2>5
    <3>2. t \notin focusTasks /\ duration[t] < FocusMinBlock /\ BeganInFocus(s)
      BY <2>4, <3>1 DEF ShortInv, ShortOnlyWhenFull
    <3>3. QED
      BY <1>1, <2>1, <2>2, <2>3, <3>2, BeganInFocusIsKept
  <2>6. CASE t = task
    <3>1. remaining > 0 /\ s \in slots \ candidates
      BY <1>1, <1>2, <1>3, <2>6 DEF PlaceTask
    <3>2. KeptOutOfFocus(s) \/ \E a \in allocations : TakenUpTo(a, s)
      BY <1>1, <2>4, <3>1 DEF ShortInv
    <3>3. CASE KeptOutOfFocus(s)
      <4>1. BeganInFocus(s)
        BY <1>1, <3>3, FocusSlotBegan DEF KeptOutOfFocus
      <4>2. BeganInFocus(r)
        BY <1>1, <2>1, <2>2, <2>3, <4>1, BeganInFocusIsKept
      <4>3. QED
        BY <2>6, <3>3, <4>2 DEF KeptOutOfFocus
    <3>4. ASSUME NEW a \in allocations, TakenUpTo(a, s) PROVE FALSE
      <4>1. a.from = s.from /\ s.to < a.to + MinBlock
        BY <3>4 DEF TakenUpTo
      <4>2. r.from >= a.to
        <5>1. ~Overlap(r, a)
          BY <2>1
        <5>2. s.from <= r.from /\ r.from < r.to
          BY <2>1, <2>2
        <5>3. QED
          BY <2>3, <4>1, <5>1, <5>2 DEF Overlap
      <4>3. QED
        BY <1>1, <1>3, <2>2, <2>3, <4>1, <4>2 DEF Length
    <3>5. QED
      BY <3>2, <3>3, <3>4
  <2>7. QED
    BY <2>5, <2>6
<1>4. QED
  <2>1. \A r \in slots' : BeganInFocus(r) => BeganInFocus(r)'
    BY <1>2 DEF BeganInFocus, InWindow, Overlap, Piece
  <2>2. QED
    BY <1>2, <1>3, <2>1 DEF ShortOnlyWhenFull, Length

LEMMA PlacementStepShort ==
  ASSUME PlacementInv, ShortInv, Step
  PROVE  ShortInv'
<1>1. /\ PlacementTypeOK /\ SlotsInv /\ SelectInv
  BY DEF PlacementInv
<1>2. ASSUME (\E w \in todoWindows : OpenWindow(w)) \/ (\E b \in todoBlockers : SubtractBlocker(b))
             \/ CloseWindow
      PROVE  ShortInv'
  <2>1. /\ phase \in {"windows", "subtract"} /\ phase' \in {"windows", "subtract"}
        /\ unscheduled' = unscheduled
    BY <1>2 DEF OpenWindow, SubtractBlocker, CloseWindow
  <2>2. \A t \in Task : unscheduled'[t] = -1
    BY <2>1 DEF ShortInv
  <2>3. QED
    BY <2>1, <2>2 DEF ShortInv, ShortOnlyWhenFull
<1>3. ASSUME UNCHANGED <<inputs, slots, unscheduled>> PROVE ShortOnlyWhenFull'
  BY <1>3 DEF inputs, ShortInv, ShortOnlyWhenFull, BeganInFocus, InWindow, Overlap, Piece, Length
<1>4. ASSUME MapBuilt \/ AllPlaced PROVE ShortInv'
  <2>1. UNCHANGED <<inputs, slots, unscheduled>> /\ phase' \in {"tasks", "done"}
    BY <1>4 DEF MapBuilt, AllPlaced
  <2>2. QED
    BY <1>3, <2>1 DEF ShortInv
<1>5. ASSUME NEW t \in todoTasks, StartTask(t) PROVE ShortInv'
  <2>1. /\ UNCHANGED <<inputs, slots, unscheduled>> /\ phase' = "slots"
        /\ candidates' = {s \in slots : Length(s) >= MinBlock}
    BY <1>5 DEF StartTask
  <2>2. \A s \in slots' \ candidates' : ~(Length(s) >= MinBlock)
    BY <2>1
  <2>3. QED
    BY <1>3, <2>1, <2>2 DEF ShortInv, Length
<1>6. ASSUME NEW s \in candidates, SkipSlot(s) \/ TakeSlot(s),
             remaining' > 0 => KeptOutOfFocus(s) \/ \E a \in allocations' : TakenUpTo(a, s)
      PROVE  ShortInv'
  <2>1. /\ UNCHANGED <<inputs, slots, unscheduled, task, focusTasks, duration>>
        /\ phase = "slots" /\ phase' = "slots" /\ remaining > 0
        /\ candidates' = candidates \ {s} /\ allocations \subseteq allocations'
    BY <1>6 DEF SkipSlot, TakeSlot, inputs, mapping
  <2>2. ASSUME NEW r \in slots \ candidates', Length(r) >= MinBlock, remaining' > 0
        PROVE  KeptOutOfFocus(r) \/ \E a \in allocations' : TakenUpTo(a, r)
    <3>1. CASE r = s
      BY <1>6, <2>2, <3>1
    <3>2. CASE r # s
      <4>1. r \in slots \ candidates
        BY <2>1, <3>2
      <4>2. KeptOutOfFocus(r) \/ \E a \in allocations : TakenUpTo(a, r)
        BY <2>1, <2>2, <4>1 DEF ShortInv
      <4>3. QED
        BY <2>1, <4>2
    <3>3. QED
      BY <3>1, <3>2
  <2>3. \A r \in slots : KeptOutOfFocus(r) => KeptOutOfFocus(r)'
    BY <2>1 DEF KeptOutOfFocus, InFocusBlock
  <2>4. QED
    BY <1>3, <2>1, <2>2, <2>3 DEF ShortInv, Length, TakenUpTo
<1>7. ASSUME NEW s \in candidates, SkipSlot(s) PROVE ShortInv'
  BY <1>6, <1>7 DEF SkipSlot
<1>8. ASSUME NEW s \in candidates, TakeSlot(s) PROVE ShortInv'
  <2> DEFINE minutes == AdjustForTrailingBlock(RawDuration(s))
  <2>1. /\ s \in Slot /\ s.from < s.to /\ Length(s) >= MinBlock
        /\ phase = "slots" /\ remaining > 0
    BY <1>1, <1>8 DEF TakeSlot, SelectInv, SlotsInv, SlotsAreFree, PlacementTypeOK
  <2>2. minutes \in Nat
    BY <1>1, <2>1, MinutesTaken
  <2>3. remaining' = remaining - minutes
    BY <1>8 DEF TakeSlot
  <2>4. ASSUME remaining' > 0 PROVE Length(s) < minutes + MinBlock
    BY <1>1, <2>1, <2>3, <2>4, MinutesLeaveLittle
  <2>5. /\ Allocated(s).window = s.window /\ Allocated(s).from = s.from
        /\ Allocated(s).to = s.from + minutes
    BY DEF Allocated
  <2>6. Allocated(s) \in allocations'
    BY <1>8, AllocatedFacts
  <2> HIDE DEF minutes
  <2>7. s.from \in Nat /\ s.to \in Nat /\ MinBlock \in Nat
    BY <2>1, PlacementAssumption DEF Slot
  <2>8. remaining' > 0 => TakenUpTo(Allocated(s), s)
    BY <2>2, <2>4, <2>5, <2>7 DEF TakenUpTo, Length
  <2>9. QED
    BY <1>6, <1>8, <2>6, <2>8
<1>9. ASSUME PlaceTask PROVE ShortInv'
  <2>1. phase' = "tasks"
    BY <1>9 DEF PlaceTask
  <2>2. QED
    BY <1>9, <2>1, PlacedShort DEF ShortInv
<1>10. QED
  BY <1>2, <1>4, <1>5, <1>7, <1>8, <1>9 DEF Step, NextSlots, NextTasks

-----------------------------------------------------------------------------
PlacementAllInv == PlacementInv /\ FreeInv /\ MinutesInv /\ ShortInv

LEMMA PlacementAlwaysAllInv == PlacementSpec => []PlacementAllInv
<1>1. PlacementInit => PlacementAllInv
  <2>1. PlacementInit => FreeInv
    BY DEF PlacementInit, FreeInv
  <2>2. PlacementInit => ShortInv
    BY DEF PlacementInit, ShortInv, ShortOnlyWhenFull
  <2>3. QED
    BY <2>1, <2>2, PlacementInitInv, MinutesInit DEF PlacementAllInv
<1>2. PlacementAllInv /\ [Step]_placementVars => PlacementAllInv'
  <2> SUFFICES ASSUME PlacementAllInv, [Step]_placementVars PROVE PlacementAllInv'
    OBVIOUS
  <2>1. CASE Step
    BY <2>1, PlacementStepInv, PlacementStepFree, PlacementStepMinutes, PlacementStepShort
       DEF PlacementAllInv
  <2>2. CASE UNCHANGED placementVars
    <3>1. PlacementInv'
      BY PlacementStepInv DEF PlacementAllInv
    <3>2. FreeInv'
      BY <2>2 DEF placementVars, inputs, mapping, PlacementAllInv, FreeInv, Holds
    <3>3. MinutesInv'
      BY <2>2 DEF placementVars, inputs, selecting, PlacementAllInv, MinutesInv, MinutesAccountedFor
    <3>4. ShortInv'
      BY <2>2 DEF placementVars, inputs, selecting, PlacementAllInv, ShortInv, ShortOnlyWhenFull,
         BeganInFocus, InWindow, Overlap, Piece, KeptOutOfFocus, InFocusBlock, TakenUpTo, Length
    <3>5. QED
      BY <3>1, <3>2, <3>3, <3>4 DEF PlacementAllInv
  <2>3. QED
    BY <2>1, <2>2
<1>3. QED
  BY <1>1, <1>2, PTL DEF PlacementSpec

\* The scheduler's state is of its type: a block's length is a whole number of
\* minutes, though the minutes still to place are counted down by more than the
\* slot at hand has.
THEOREM PlacementTypeCorrect == PlacementSpec => []PlacementTypeOK
<1>1. PlacementInv => PlacementTypeOK
  BY DEF PlacementInv
<1>2. QED
  BY <1>1, PlacementAlwaysInv, PTL

\* A slot left by buildAvailabilityMap and by any number of splits around blocks
\* is inside its window and clear of every event, pinned block and time block.
THEOREM SlotsStayFree == PlacementSpec => []SlotsAreFree
<1>1. PlacementInv => SlotsAreFree
  BY DEF PlacementInv, SlotsInv
<1>2. QED
  BY <1>1, PlacementAlwaysInv, PTL

\* selectSlotsForTask never makes a block shorter than the minimum of a task
\* that is longer, whichever slots it meets and in whichever order.
THEOREM NoMicroBlockPlaced == PlacementSpec => []NoMicroBlocks
<1>1. PlacementInv => NoMicroBlocks
  BY DEF PlacementInv, BlocksInv
<1>2. QED
  BY <1>1, PlacementAlwaysInv, PTL

\* A free minute of a window is in a slot of that window when a task is placed:
\* subtracting blockers and splitting slots loses none.
THEOREM FreeTimeIsKept == PlacementSpec => []NoFreeTimeLost
<1>1. PlacementAllInv => NoFreeTimeLost
  BY DEF PlacementAllInv, FreeInv, NoFreeTimeLost
<1>2. QED
  BY <1>1, PlacementAlwaysAllInv, PTL

\* The minutes of a task's blocks and those reported as unscheduled are its
\* duration, for any number of slots, each shortened or lengthened.
THEOREM EveryMinuteAccountedFor == PlacementSpec => []MinutesAccountedFor
<1>1. PlacementAllInv => MinutesAccountedFor
  BY DEF PlacementAllInv, MinutesInv
<1>2. QED
  BY <1>1, PlacementAlwaysAllInv, PTL

\* selectSlotsForTask leaves a task short only when every slot of a minimum block
\* or more was used up or is one that began in a focus block it was kept out of,
\* however often that slot has been split since.
THEOREM ShortWhenFullOnly == PlacementSpec => []ShortOnlyWhenFull
<1>1. PlacementAllInv => ShortOnlyWhenFull
  BY DEF PlacementAllInv, ShortInv
<1>2. QED
  BY <1>1, PlacementAlwaysAllInv, PTL

\* adjustForTrailingBlock may take more than the slot has, but a block reaches
\* beyond its free slot by less than the minimum block.
THEOREM OverrunIsBounded == PlacementSpec => OverrunBounded
<1> DEFINE Within(b) == \A m \in b.from .. b.to - MinBlock :
                          InWindow(m, b.window) /\ \A c \in blockers \cup blocks : ~Holds(c, m)
<1>1. ASSUME PlacementInv, PlaceTask, NEW b \in allocations PROVE Within(b)
  <2>1. phase = "slots"
    BY <1>1 DEF PlaceTask
  <2>2. PICK s \in slots : TakenFrom(b, s)
    BY <1>1, <2>1 DEF PlacementInv, SelectInv
  <2>3. PICK w \in windows : w.from = s.window /\ w.from <= s.from /\ s.to <= w.to
    BY <1>1 DEF PlacementInv, SlotsInv, SlotsAreFree
  <2>4. \A c \in blockers \cup blocks : ~Overlap(s, c)
    BY <1>1 DEF PlacementInv, SlotsInv, SlotsAreFree
  <2>5. /\ s.from \in Nat /\ s.to \in Nat /\ w.from \in Nat /\ w.to \in Nat
        /\ b.to \in Nat /\ MinBlock \in Nat
        /\ \A c \in blockers \cup blocks : c.from \in Nat /\ c.to \in Nat
    <3>1. s \in Slot /\ b \in Block /\ blocks \subseteq Block
      BY <1>1 DEF PlacementInv, PlacementTypeOK
    <3>2. QED
      BY <1>1, <3>1, InputFacts DEF PlacementInv, Slot, Block
  <2>6. ASSUME NEW m \in b.from .. b.to - MinBlock
        PROVE  InWindow(m, b.window) /\ \A c \in blockers \cup blocks : ~Holds(c, m)
    <3>1. m \in Int /\ s.from <= m /\ m < s.to
      BY <2>2, <2>5 DEF TakenFrom
    <3>2. w.from <= m /\ m < w.to /\ w.from = b.window
      BY <2>2, <2>3, <2>5, <3>1 DEF TakenFrom
    <3>3. \A c \in blockers \cup blocks : ~Holds(c, m)
      BY <2>4, <2>5, <3>1 DEF Overlap, Holds
    <3>4. QED
      BY <3>2, <3>3 DEF InWindow
  <2>7. QED
    BY <2>6
<1>2. ASSUME PlacementInv, [Step]_placementVars
      PROVE  [\A b \in blocks' \ blocks : \A m \in b.from .. b.to - MinBlock :
                /\ InWindow(m, b.window)
                /\ \A c \in blockers \cup blocks : ~Holds(c, m)]_placementVars
  <2>1. CASE PlaceTask
    <3>1. blocks' \ blocks \subseteq allocations
      BY <2>1 DEF PlaceTask
    <3>2. QED
      BY <1>1, <1>2, <2>1, <3>1
  <2>2. CASE Step /\ ~PlaceTask
    <3>1. blocks' = blocks
      BY <2>2 DEF Step, OpenWindow, SubtractBlocker, CloseWindow, MapBuilt, StartTask, SkipSlot,
         TakeSlot, AllPlaced
    <3>2. QED
      BY <3>1
  <2>3. CASE UNCHANGED placementVars
    BY <2>3
  <2>4. QED
    BY <1>2, <2>1, <2>2, <2>3
<1>3. QED
  BY <1>2, PlacementAlwaysInv, PTL DEF PlacementSpec, OverrunBounded
=============================================================================
