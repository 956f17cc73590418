---------------------------- MODULE MCRecurrence ----------------------------
(***************************************************************************)
(* Recurrence with two series. The first day has one moment, the next two: *)
(* a series has an occurrence on each of two days, or both of its          *)
(* occurrences on one, which the horizon of a call may cut between them.   *)
(***************************************************************************)
EXTENDS Recurrence, TLC

MCPatterns == {{0, 2}, {1, 2}}
DailyPatterns == {{0, 2}}
MCDateOf == [m \in Moment |-> (m + 1) \div 2]
TemplateSymmetry == Permutations(Template)
=============================================================================
