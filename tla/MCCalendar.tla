---------------------------- MODULE MCCalendar ----------------------------
(***************************************************************************)
(* Calendar on a small instance: the tasks differ in nothing a step or a   *)
(* safety property looks at, so permuting them is a symmetry.              *)
(***************************************************************************)
EXTENDS Calendar, TLC

TaskSymmetry == Permutations(Task)
=============================================================================
