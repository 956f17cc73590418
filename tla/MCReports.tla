----------------------------- MODULE MCReports -----------------------------
(***************************************************************************)
(* Reports with days of two instants, three tasks that may form a chain, a *)
(* fork or a triangle, and slots on three days, the last of them offered,  *)
(* but not loaded by get_conflicts, in the second half of the first day.   *)
(***************************************************************************)
EXTENDS Reports, TLC

CONSTANTS t1, t2, t3

Slot(f, t) == [from |-> f, to |-> t]

MCSlots == {Slot(0, 1), Slot(2, 3), Slot(4, 5)}
MCDuration == t1 :> 1 @@ t2 :> 2 @@ t3 :> 2
MCPriority == t1 :> 2 @@ t2 :> 4 @@ t3 :> 4
MCDeadlines == t1 :> {3} @@ t2 :> {4, None} @@ t3 :> {1, 4}
MCLinks == {<<t2, t1>>, <<t3, t2>>, <<t3, t1>>}

\* The only time there is lies after every deadline.
LateSlots == {Slot(4, 5)}
=============================================================================
