--------------------------- MODULE MCHovmollerPage ----------------------------
(* HovmollerPage for TLC: a few selections that the page accepts, refuses or *)
(* passes on to a server that refuses them. *)
EXTENDS HovmollerPage, TLC

CONSTANTS a1, a2, v1, v2, f1, f2

Pick(axes, pe, ps, start, end, resolution) ==
  [axes |-> axes, data |-> "PE" :> pe @@ "PS" :> ps,
   start |-> start, end |-> end, resolution |-> resolution]

MCSelections ==
  {Pick(a1, v1, v1, 2, 4, 1),       \* both ships show one variable
   Pick(a2, v2, None, 2, 8, 1),     \* as much as is allowed
   Pick(a1, v1, v2, 3, Empty, 2),   \* counted to the present, refused by the server
   Pick(a2, v1, v2, 2, 6, 1),       \* too much
   Pick(a2, v2, v1, 5, 3, 2)}       \* start after end

Typed(n) == [min |-> n, max |-> n + 1]
Untyped == [min |-> Empty, max |-> Empty]

MCLimitChoices ==
  {[s \in Ships |-> Untyped], [s \in Ships |-> Typed(9)],
   "PE" :> [min |-> 0, max |-> Empty] @@ "PS" :> Untyped}

==============================================================================
