---------------------------- MODULE TimeseriesPage ----------------------------
(***************************************************************************)
(* The timeseries plot in a browser: public_html/development/js/           *)
(* timeseries.js and timeseries_load_data.js, with the preferences.        *)
(*                                                                         *)
(* JavaScript runs one task at a time.  With traces of this kind Plotly    *)
(* has redrawn the plot when it returns, so its promises are fulfilled and *)
(* a click is one task, with its chain of promises; only the answer to a   *)
(* request is awaited.  An undefined value in an update leaves the plot's  *)
(* value as it is, an object replaces the one before as a whole.           *)
(*                                                                         *)
(* A column of data is known by its load and what it is of; an empty array *)
(* is Empty.  Each variable stands for its label, too.  Settings of figure *)
(* and axes and the place of the legend are left out.                      *)
(***************************************************************************)
EXTENDS DataRequest, PagePreferences, Sequences

CONSTANTS
  Datasets,     \* 1..4
  Selections,   \* what the controls of the set "Set Data" may hold
  Variables,    \* of either ship
  Texts,        \* what the user may write in place of a label or a name
  Times,        \* what the controls of start and end may hold
  Clock,        \* when buttons may be clicked
  MaxLoads,     \* bound: loads since the page was opened
  None,         \* the choice 'None' of a selector
  Undefined     \* a title that is not there, a label that is not known

Ships == {"PE", "PS"}

ASSUME DatasetsAssumption == 1 \in Datasets /\ Datasets \subseteq 1..4
ASSUME ControlsAssumption ==
  /\ Selections \subseteq [independent : Variables,
                           data : [Datasets -> (Ships \X Variables) \union {None}]]
  /\ Times \subseteq Nat \union {Empty} /\ Clock \subseteq Nat
ASSUME MarksAssumption ==
  /\ Empty \notin Variables \union Texts \union Nat \union (Ships \X Variables)
  /\ Empty \notin [of : Nat, ship : Ships] \union [of : Nat, dataset : Datasets]
  /\ None \notin Ships \X Variables
  /\ Undefined \notin Variables \union Texts \union {Empty}
ASSUME BoundsAssumption == MaxLoads \in Nat

VARIABLES
  independent_axis_x,   \* the x axis is the independent one
  loads,                \* the requests sent
  settled,              \* those that have been answered or have failed
  datasets,
  plot,                 \* the traces of the plot: Plotly's data
  titles                \* the titles of its axes: Plotly's layout

requestVars == <<loads, settled>>
pageVars == <<independent_axis_x, requestVars, datasets, plot, titles>>
vars == <<pageVars, preferenceVars>>

Named == (Ships \X Variables) \union {Empty}
Column == [of : Nat, ship : Ships] \union [of : Nat, dataset : Datasets] \union {Empty}
Label == Variables \union Texts \union {Empty}
Axes == {"x", "y"} \X Datasets

\* The letters of the independent axis and of the dependent ones.
iaxis(x) == IF x THEN "x" ELSE "y"
daxis(x) == IF x THEN "y" ELSE "x"

InUse(x) == {<<iaxis(x), 1>>} \union {<<daxis(x), i>> : i \in Datasets}

TypeOK ==
  /\ PreferencesTypeOK
  /\ independent_axis_x \in BOOLEAN
  /\ loads \in Seq([independent : Variables,
                    data : [Datasets -> (Ships \X Variables) \union {None}],
                    start : Times, end : Times, resolution : Resolutions])
  /\ Len(loads) <= MaxLoads /\ settled \subseteq 1..Len(loads)
  /\ datasets \in [Datasets -> [name : Named, independent : Column, dependent : Column]]
  /\ plot \in [x : [Datasets -> Column], y : [Datasets -> Column],
               name : [Datasets -> Named \union Texts],
               xaxis : [Datasets -> Datasets], yaxis : [Datasets -> Datasets]]
  /\ titles \in [Axes -> Label \union {Undefined}]
  /\ \A a \in InUse(independent_axis_x) : titles[a] \in Label

------------------------------------------------------------------------------
(* The plot (timeseries.js 236-400) *)

dataUpdate(x, ds) ==
  [x |-> [i \in Datasets |-> IF x THEN ds[i].independent ELSE ds[i].dependent],
   y |-> [i \in Datasets |-> IF x THEN ds[i].dependent ELSE ds[i].independent],
   name |-> [i \in Datasets |-> ds[i].name],
   xaxis |-> [i \in Datasets |-> IF x THEN 1 ELSE i],
   yaxis |-> [i \in Datasets |-> IF x THEN i ELSE 1]]

\* The axes in use are replaced by new ones, without titles.
modifyAxesProperties(x, shown) ==
  [a \in Axes |-> IF a \in InUse(x) THEN Undefined ELSE shown[a]]

getLabels(x) ==
  [independent |-> titles[<<iaxis(x), 1>>],
   dependent |-> [i \in Datasets |-> titles[<<daxis(x), i>>]]]

\* Mutant: an undefined label removes the one before.
Taken(label, shown) == label

Given(label, shown) == IF label = Undefined THEN shown ELSE label

setLabels(x, shown, labels) ==
  [a \in Axes |-> IF a = <<iaxis(x), 1>> THEN Given(labels.independent, shown[a])
                  ELSE IF a[1] = daxis(x) THEN Given(labels.dependent[a[2]], shown[a])
                  ELSE shown[a]]

------------------------------------------------------------------------------
(* Loading data (timeseries_load_data.js) *)

\* Mutant: only dependent values are counted.
CountDependent(pass) == Cardinality({i \in Datasets : pass.data[i] # None})

\* The ship's independent values are a column of their own.
NumberOfVariables(pass) ==
  Cardinality({i \in Datasets : pass.data[i] # None})
    + Cardinality({s \in Ships : \E i \in Datasets : pass.data[i] # None /\ pass.data[i][1] = s})

computeNumberDatapoints(pass, now) == NumberOfVariables(pass) * RowsRequested(pass, now)

Blank == [name |-> Empty, independent |-> Empty, dependent |-> Empty]

NoLabels == [independent |-> Empty, dependent |-> [i \in Datasets |-> Empty]]

Blanks == [i \in Datasets |-> Blank]

BlankTitles == setLabels(TRUE, [a \in Axes |-> Undefined], NoLabels)

Init ==
  /\ localStorage = NoKeys /\ checked = setPreferences(localStorage)
  /\ independent_axis_x = TRUE
  /\ loads = <<>> /\ settled = {}
  /\ datasets = Blanks /\ plot = dataUpdate(TRUE, Blanks) /\ titles = BlankTitles

\* The user loads the document again; requests under way are dropped.
Reload ==
  /\ checked' = setPreferences(localStorage)
  /\ UNCHANGED localStorage
  /\ independent_axis_x' = TRUE
  /\ loads' = <<>> /\ settled' = {}
  /\ datasets' = Blanks /\ plot' = dataUpdate(TRUE, Blanks) /\ titles' = BlankTitles

\* Button "Load Data": a request, unless the page refuses it.  That an
\* independent variable is chosen is checked, too; 'None' is not offered.
loadData(selection, start, end, now) ==
  /\ Len(loads) < MaxLoads
  /\ \E r \in Resolutions :
       LET pass == [independent |-> selection.independent, data |-> selection.data,
                    start |-> start, end |-> end, resolution |-> r]
       IN /\ checked[r]
          /\ validateNumberDatapoints(computeNumberDatapoints(pass, now))
          /\ loads' = Append(loads, pass)
  /\ UNCHANGED <<independent_axis_x, settled, datasets, plot, titles, preferenceVars>>

\* generateData and updateDatasets.
updateDatasets(k, pass) ==
  [i \in Datasets |->
     IF pass.data[i] = None THEN Blank
     ELSE [name |-> pass.data[i],
           independent |-> [of |-> k, ship |-> pass.data[i][1]],
           dependent |-> [of |-> k, dataset |-> i]]]

\* Mutant: the labels are looked up before the datasets are replaced.
LabelsBefore(pass, ds) ==
  [independent |-> pass.independent,
   dependent |-> [i \in Datasets |->
                    IF datasets[i].name = Empty THEN Undefined ELSE datasets[i].name[2]]]

\* LABELS of each dataset's variable: of an empty name there is none.
LabelsOf(pass, ds) ==
  [independent |-> pass.independent,
   dependent |-> [i \in Datasets |->
                    IF ds[i].name = Empty THEN Undefined ELSE ds[i].name[2]]]

\* The answer to request k comes: updateDatasets, replotData, setLabels.
Answer(k) ==
  /\ k \in 1..Len(loads) \ settled
  /\ settled' = settled \union {k}
  /\ datasets' = updateDatasets(k, loads[k])
  /\ plot' = dataUpdate(independent_axis_x, datasets')
  /\ titles' = setLabels(independent_axis_x, titles, LabelsOf(loads[k], datasets'))
  /\ UNCHANGED <<independent_axis_x, loads, preferenceVars>>

\* The request fails or its answer is not JSON: catch logs it.
Fail(k) ==
  /\ k \in 1..Len(loads) \ settled
  /\ settled' = settled \union {k}
  /\ UNCHANGED <<independent_axis_x, loads, datasets, plot, titles, preferenceVars>>

------------------------------------------------------------------------------
(* The other buttons, and the plot itself *)

\* Button "Apply Changes": the axes are made anew and get their labels again.
applyChanges ==
  /\ titles' = setLabels(independent_axis_x,
                         modifyAxesProperties(independent_axis_x, titles),
                         getLabels(independent_axis_x))
  /\ UNCHANGED <<independent_axis_x, requestVars, datasets, plot, preferenceVars>>

\* Mutant: the labels are read when the axes have been switched.
SwitchFirst ==
  /\ independent_axis_x' = ~independent_axis_x
  /\ plot' = dataUpdate(independent_axis_x', datasets)
  /\ titles' = setLabels(independent_axis_x',
                         modifyAxesProperties(independent_axis_x', titles),
                         getLabels(~independent_axis_x))
  /\ UNCHANGED <<requestVars, datasets, preferenceVars>>

\* Button "Switch Axes": data, axes and labels change places.
switchAxes ==
  /\ independent_axis_x' = ~independent_axis_x
  /\ plot' = dataUpdate(independent_axis_x', datasets)
  /\ titles' = setLabels(independent_axis_x',
                         modifyAxesProperties(independent_axis_x', titles),
                         getLabels(independent_axis_x))
  /\ UNCHANGED <<requestVars, datasets, preferenceVars>>

\* The plot is editable: the user writes over a title or an entry of the legend.
Edit ==
  /\ \/ \E a \in InUse(independent_axis_x), t \in Texts :
          titles' = [titles EXCEPT ![a] = t] /\ UNCHANGED plot
     \/ \E i \in Datasets, t \in Texts :
          plot' = [plot EXCEPT !.name[i] = t] /\ UNCHANGED titles
  /\ UNCHANGED <<independent_axis_x, requestVars, datasets, preferenceVars>>

Next ==
  \/ \E selection \in Selections, start, end \in Times, now \in Clock :
       loadData(selection, start, end, now)
  \/ \E k \in 1..Len(loads) : Answer(k) \/ Fail(k)
  \/ applyChanges \/ switchAxes \/ Edit \/ Reload
  \/ Preferences /\ UNCHANGED pageVars

Spec == Init /\ [][Next]_vars

------------------------------------------------------------------------------
(* Properties *)

\* The figure a user sees, told without regard to which axis is which.
figure == INSTANCE Figure WITH
  Loads <- 1..MaxLoads,
  across <- independent_axis_x,
  names <- [i \in Datasets |-> datasets[i].name],
  shown <- [i \in Datasets |->
              [independent |-> IF independent_axis_x THEN plot.x[i] ELSE plot.y[i],
               dependent |-> IF independent_axis_x THEN plot.y[i] ELSE plot.x[i],
               axes |-> IF independent_axis_x THEN <<plot.xaxis[i], plot.yaxis[i]>>
                        ELSE <<plot.yaxis[i], plot.xaxis[i]>>]],
  legend <- plot.name,
  labels <- getLabels(independent_axis_x)

\* The page does to the figure what Figure says and nothing else: over any
\* sequence of loads, answers, clicks and edits, a switch or new settings lose
\* no label and mix no data (timeseries.js 453-469).
RefinesFigure == figure!FigureSpec

\* The axis of a dataset bears the label of its variable, or what the user wrote
\* there; the request was made before, and the axes may have been switched
\* since (timeseries_load_data.js 19-28).
LabelsFitData ==
  \A i \in Datasets :
    datasets[i].name # Empty =>
      getLabels(independent_axis_x).dependent[i] \in {datasets[i].name[2]} \union Texts

\* As many columns are shown as were counted before the request was allowed
\* (timeseries_load_data.js 98).
CountedIsShown ==
  LET columns == ({plot.x[i] : i \in Datasets} \union {plot.y[i] : i \in Datasets}) \ {Empty}
  IN \A c \in columns : Cardinality(columns) = NumberOfVariables(loads[c.of])

==============================================================================
