-------------------------- MODULE MCAvailability --------------------------
(***************************************************************************)
(* Availability with days of four instants and weeks of two days: windows  *)
(* on both days, on one, two that overlap, and tables that are refused. The *)
(* clock runs past a midnight, so the horizon ends inside a day and at its *)
(* end, and events begin before the midnight the map begins with.          *)
(***************************************************************************)
EXTENDS Availability, TLC

Of(f, t) == [from |-> f, to |-> t]

MCWindowTables ==
  {(0 :> {Of(0, 4)} @@ 1 :> {Of(1, 3)}),
   (0 :> {Of(0, 3), Of(1, 4)} @@ 1 :> {}),
   (0 :> {} @@ 1 :> {}),
   (0 :> {Of(2, 1)} @@ 1 :> {Of(0, 4)}),
   (0 :> {Of(0, 2), Of(0, 3)} @@ 1 :> {})}

EventSymmetry == Permutations(Event)
=============================================================================
