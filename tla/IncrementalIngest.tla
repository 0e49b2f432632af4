-------------------------- MODULE IncrementalIngest --------------------------
(***************************************************************************)
(* What an incremental reader of growing text files promises: the rows of  *)
(* a file reach the table together with the recorded position, in file     *)
(* order, each of them once, however often the reader stops and resumes.   *)
(*                                                                         *)
(* file[f] is what the file holds (complete lines only), pos[f] the number *)
(* of lines the database has recorded as consumed and stored the pairs     *)
(* <<f, i>> of the rows in the table.  Only a line in RowKinds carries a   *)
(* row; the header and malformed lines are consumed and leave no row.      *)
(* dropped holds the lines <<f, i>> of attempts that failed as a whole:    *)
(* only those may be consumed later without their rows.                    *)
(***************************************************************************)
EXTENDS Naturals, Sequences

CONSTANTS Files, Kinds, RowKinds

VARIABLES file, pos, stored, dropped

ingestVars == <<file, pos, stored, dropped>>

\* The rows among lines a+1 .. b of file f.
RowsBetween(f, a, b) ==
  {<<f, i>> : i \in {j \in 1..Len(file[f]) : a < j /\ j <= b /\ file[f][j] \in RowKinds}}

Init ==
  /\ file \in [Files -> Seq(Kinds)]
  /\ pos = [f \in Files |-> 0]
  /\ stored = {}
  /\ dropped = {}

\* The instrument, or whoever copies its file here, adds a line.
Grow(f) ==
  /\ \E k \in Kinds : file' = [file EXCEPT ![f] = Append(@, k)]
  /\ UNCHANGED <<pos, stored, dropped>>

\* An attempt to ingest some of the lines not yet consumed fails.
Drop(f) ==
  /\ \E S \in SUBSET ((pos[f] + 1)..Len(file[f])) : dropped' = dropped \union ({f} \X S)
  /\ UNCHANGED <<file, pos, stored>>

\* One transaction: some more lines are consumed and all their rows stored,
\* those of a failed attempt perhaps excepted.
Ingest(f) ==
  \E p \in pos[f]..Len(file[f]) :
    LET rows == RowsBetween(f, pos[f], p)
    IN /\ pos' = [pos EXCEPT ![f] = p]
       /\ \E missed \in SUBSET (rows \intersect dropped) :
            stored' = stored \union (rows \ missed)
       /\ UNCHANGED <<file, dropped>>

Next == \E f \in Files : Grow(f) \/ Drop(f) \/ Ingest(f)

Spec == Init /\ [][Next]_ingestVars

Consumed == UNION {RowsBetween(f, 0, pos[f]) : f \in Files}

\* The table is the rows of the consumed part of the files: what a position
\* says is consumed was stored unless an attempt dropped it, and nothing else
\* was stored.
ExactPrefix == stored \subseteq Consumed /\ Consumed \ dropped \subseteq stored

==============================================================================
