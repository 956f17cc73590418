---------------------------- MODULE MCPlacement ----------------------------
(***************************************************************************)
(* Placement on a line of eight units of time with a minimum block of two: *)
(* windows that abut, that overlap and that stand alone, and every set of  *)
(* at most two blockers from a few, nested and adjacent ones included.     *)
(***************************************************************************)
EXTENDS Placement, TLC

At(f, t) == [from |-> f, to |-> t]

MCWindowSets == {{At(0, 8)}, {At(0, 4), At(4, 8)}, {At(0, 5), At(3, 8)}, {At(1, 4), At(5, 8)}}

MCBlockerSets ==
  {B \in SUBSET {At(0, 2), At(2, 4), At(3, 4), At(2, 6), At(5, 7)} : Cardinality(B) <= 2}
=============================================================================
