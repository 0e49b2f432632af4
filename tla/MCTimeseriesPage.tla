--------------------------- MODULE MCTimeseriesPage ---------------------------
(* TimeseriesPage for TLC: two datasets, one or two ships, one or two variables. *)
EXTENDS TimeseriesPage, TLC

CONSTANTS v1, v2, t1

MCSelections ==
  {[independent |-> v1, data |-> 1 :> <<"PE", v1>> @@ 2 :> <<"PS", v2>>],
   [independent |-> v2, data |-> 1 :> None @@ 2 :> <<"PS", v1>>]}

==============================================================================
