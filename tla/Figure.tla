-------------------------------- MODULE Figure --------------------------------
(***************************************************************************)
(* What the timeseries plot promises, whichever axis is the independent    *)
(* one ("this is agnostic to which axis is independent", timeseries.js 121 *)
(* and 126): data, with their labels, are those of one load; switching the *)
(* axes and applying settings keep both.                                   *)
(***************************************************************************)
CONSTANTS Datasets, Ships, Variables, Texts, Loads, Empty

VARIABLES
  across,   \* the independent axis is the horizontal one
  names,    \* what each dataset is of: a ship and a variable
  shown,    \* each dataset's columns and the two axes they are drawn along
  legend,   \* each dataset's entry
  labels    \* of the independent axis, and of each dataset's own

figureVars == <<across, names, shown, legend, labels>>

Named == (Ships \X Variables) \union {Empty}

Drawn(k, i, name) ==
  [independent |-> IF name = Empty THEN Empty ELSE [of |-> k, ship |-> name[1]],
   dependent |-> IF name = Empty THEN Empty ELSE [of |-> k, dataset |-> i],
   axes |-> <<1, i>>]

Nothing == [i \in Datasets |-> Drawn(0, i, Empty)]
NoNames == [i \in Datasets |-> Empty]
NoLabels == [independent |-> Empty, dependent |-> NoNames]

Fresh ==
  /\ across = TRUE
  /\ names = NoNames /\ shown = Nothing /\ legend = NoNames /\ labels = NoLabels

\* The page is loaded again.
Renew ==
  /\ across' = TRUE
  /\ names' = NoNames /\ shown' = Nothing /\ legend' = NoNames /\ labels' = NoLabels

\* The data of load k replace all others.  The axis of a dataset without data
\* keeps its label.
Show(k) ==
  /\ names' \in [Datasets -> Named] /\ legend' = names'
  /\ shown' = [i \in Datasets |-> Drawn(k, i, names'[i])]
  /\ \E v \in Variables :
       labels' = [independent |-> v,
                  dependent |-> [i \in Datasets |->
                    IF names'[i] = Empty THEN labels.dependent[i] ELSE names'[i][2]]]
  /\ UNCHANGED across

\* The user writes a label or an entry of the legend.
Write ==
  /\ \/ \E t \in Texts : labels' = [labels EXCEPT !.independent = t] /\ UNCHANGED legend
     \/ \E t \in Texts, i \in Datasets :
          labels' = [labels EXCEPT !.dependent[i] = t] /\ UNCHANGED legend
     \/ \E t \in Texts, i \in Datasets :
          legend' = [legend EXCEPT ![i] = t] /\ UNCHANGED labels
  /\ UNCHANGED <<across, names, shown>>

\* Only the legend is written anew.
Turn ==
  /\ across' = ~across
  /\ legend' = names
  /\ UNCHANGED <<names, shown, labels>>

Next == (\E k \in Loads : Show(k)) \/ Write \/ Turn \/ Renew

FigureSpec == Fresh /\ [][Next]_figureVars

==============================================================================
