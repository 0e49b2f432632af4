----------------------------- MODULE MCMetIngest -----------------------------
(* Instances of MetIngest for model checking. *)
EXTENDS MetIngest

CONSTANTS f1, f2

\* f1 is a well-behaved file of two data lines; one data line of f2 is enough
\* to abort a transaction, to kill the process or to share a batch's fate.
MixedKinds ==
  [f \in Files |-> IF f = f1 THEN {"row", "short"} ELSE LineKinds]
MixedLines == [f \in Files |-> IF f = f1 THEN 3 ELSE 2]

\* Every file of a ship has the same columns in the same order.
OneLayout == [f \in Files |-> "a"]

\* One file, a header and three rows, one of which PostgreSQL may refuse.
RefusedKinds == [f \in Files |-> {"row", "sqlbad"}]
FourLines == [f \in Files |-> 4]

\* The ship's technician changes the columns between two files of rows.
RowsOnly == [f \in Files |-> {"row"}]
ThreeLines == [f \in Files |-> 3]
TwoLayouts == [f \in Files |-> IF f = f1 THEN "a" ELSE "b"]

==============================================================================
