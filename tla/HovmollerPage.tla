---------------------------- MODULE HovmollerPage -----------------------------
(***************************************************************************)
(* The Hovmoller plot in a browser: public_html/plot/js/hovmoller.js and   *)
(* hovmoller_load_data.js, and what load_hovmoller_data.php answers.       *)
(*                                                                         *)
(* JavaScript runs one task at a time.  A load is a chain of promises that *)
(* other tasks (clicks, other answers) come between at two places: while   *)
(* the answer to the request is awaited, and while Plotly redraws.  The    *)
(* hops between promises that are already fulfilled belong to one task, so *)
(* they are one step.  Plotly starts a redraw of a plot when the redraws   *)
(* asked for before have ended (with this plot's traces it ends one before *)
(* it returns, on which the module does not rely); an undefined value in   *)
(* an update leaves the plot's value as it is.                             *)
(*                                                                         *)
(* The x and y variable make one value of Axes.  The answer's columns of x *)
(* and y are known by the load they answer, a column of colours by the set *)
(* of its values that are not null.  Times count minutes.  The controls a  *)
(* handler reads are chosen when it reads them: the user may have changed  *)
(* any of them since.  Colour maps are copied and left out.                *)
(***************************************************************************)
EXTENDS DataRequest, Sequences

CONSTANTS
  Axes,                  \* pairs of an x and a y variable
  Variables,             \* the variables a ship's points may be coloured by
  Values,                \* the values such a variable may have
  LimitChoices,          \* what the four limit controls may hold
  Settings,              \* what the figure controls may hold
  Selections,            \* what the controls of the set "Set Data" may hold
  Clock,                 \* when buttons may be clicked
  MaxLoads,              \* bound: loads
  None,                  \* the choice 'None' of a selector
  Undefined,             \* a field the answer does not have
  Infinity               \* Math.min() of nothing; its negative for Math.max()

Ships == {"PE", "PS"}
Limit == [min : Int \union {Empty}, max : Int \union {Empty}]
Scale == [min : Int \union {Infinity}, max : Int \union {Infinity}]

ASSUME ValuesAssumption ==
  /\ Values \subseteq Int
  /\ \A S \in (SUBSET Values) \ {{}} :
       (\E m \in S : \A v \in S : m <= v) /\ (\E m \in S : \A v \in S : v <= m)
ASSUME ControlsAssumption ==
  /\ LimitChoices \subseteq [Ships -> Limit]
  /\ Selections \subseteq
       [axes : Axes, data : [Ships -> Variables \union {None}],
        start : Nat \union {Empty}, end : Nat \union {Empty}, resolution : Nat \ {0}]
  /\ Clock \subseteq Nat
ASSUME MarksAssumption ==
  /\ None \notin Variables /\ Empty \notin Variables \union Axes \union Int
  /\ None # Empty /\ Infinity \notin Int /\ Undefined \notin [Ships -> SUBSET Values]
ASSUME BoundsAssumption == MaxLoads \in Nat

VARIABLES
  set_values,             \* set_data_values and set_time_values
  loads,                  \* the loads begun: what they passed on, and when
  settled,                \* loads whose request has been answered or has failed
  answers,                \* the answers, in the order they came
  continued,              \* how many of them went on after the plot was redrawn
  dataset,                \* dataset_PE and dataset_PS
  colour_properties,      \* PE_colour_properties and PS_colour_properties
  limits,                 \* history: the limit controls they were made from
  figure_settings_values,
  plot                    \* what the plot shows

requestVars == <<set_values, loads, settled>>
colourVars == <<colour_properties, limits>>
vars == <<requestVars, answers, continued, dataset, colourVars,
          figure_settings_values, plot>>

Names == [Ships -> Variables \union {Empty}]
Columns == [Ships -> SUBSET Values]

Plots == [of : Nat, columns : Columns, name : Names, labels : Axes \union {Empty},
          scale : [Ships -> Scale], colourbar : [Ships -> Variables \union {None, Empty}],
          figure : Settings]

TypeOK ==
  /\ set_values \in Selections
  /\ loads \in Seq([pass : Selections, at : Clock])
  /\ settled \subseteq 1..Len(loads)
  /\ answers \in Seq(settled) /\ continued \in 0..Len(answers)
  /\ dataset \in [of : Nat, name : Names, columns : Columns \union {Undefined}]
  /\ colour_properties \in [Ships -> Scale] /\ limits \in LimitChoices
  /\ figure_settings_values \in Settings
  /\ plot \in Plots

------------------------------------------------------------------------------
(* How many datapoints a request asks for (hovmoller_load_data.js 75-109) *)

\* A row of the answer holds three values for each ship that is asked for.
NumberOfVariables(pass) == 3 * Cardinality({s \in Ships : pass.data[s] # None})

\* Mutant: rows are counted for datapoints.
CountRows(pass, now) == RowsRequested(pass, now)

computeNumberDatapoints(pass, now) ==
  NumberOfVariables(pass) * RowsRequested(pass, now)

------------------------------------------------------------------------------
(* Colour limits (hovmoller.js 214-255) *)

Lowest(S) == IF S = {} THEN Infinity ELSE CHOOSE m \in S : \A v \in S : m <= v
Highest(S) == IF S = {} THEN Infinity ELSE CHOOSE m \in S : \A v \in S : v <= m

AllEmpty(lims) == \A s \in Ships : lims[s] = [min |-> Empty, max |-> Empty]

\* Mutant: no scale in common.
OwnScale(lims, name) == FALSE

\* One scale for both ships if they show the same variable.
CommonScale(lims, name) == AllEmpty(lims) /\ name["PE"] = name["PS"]

Scales(lims, name, columns) ==
  LET own(s) == IF CommonScale(lims, name) THEN UNION {columns[r] : r \in Ships}
                ELSE columns[s]
  IN [s \in Ships |->
        [min |-> IF lims[s].min = Empty THEN Lowest(own(s)) ELSE lims[s].min,
         max |-> IF lims[s].max = Empty THEN Highest(own(s)) ELSE lims[s].max]]

\* An empty control makes the code look at the data; undefined data raise there.
ColoursRaise(lims, columns) ==
  columns = Undefined /\ \E s \in Ships : lims[s].min = Empty \/ lims[s].max = Empty

\* Data that are undefined and never looked at.
Known(columns) == IF columns = Undefined THEN [s \in Ships |-> {}] ELSE columns

updateColourProperties(lims) ==
  /\ limits' = lims
  /\ colour_properties' = Scales(lims, dataset.name, Known(dataset.columns))

------------------------------------------------------------------------------
Init ==
  /\ set_values \in Selections
  /\ loads = <<>> /\ settled = {} /\ answers = <<>> /\ continued = 0
  /\ dataset = [of |-> 0, name |-> [s \in Ships |-> Empty], columns |-> [s \in Ships |-> {}]]
  /\ limits \in LimitChoices
  /\ colour_properties = Scales(limits, dataset.name, dataset.columns)
  /\ figure_settings_values \in Settings
  /\ plot = [of |-> 0, columns |-> dataset.columns, name |-> dataset.name, labels |-> Empty,
             scale |-> colour_properties, colourbar |-> [s \in Ships |-> Empty],
             figure |-> figure_settings_values]

\* updateSetData and updateSetTime read the controls.
updateSet(pass) == set_values' = pass

\* Button "Load Data": a request, unless the page refuses it.
loadData(pass, now) ==
  /\ Len(loads) < MaxLoads
  /\ updateSet(pass)
  /\ loads' = IF validateNumberDatapoints(computeNumberDatapoints(pass, now))
              THEN Append(loads, [pass |-> pass, at |-> now]) ELSE loads
  /\ UNCHANGED <<settled, answers, continued, dataset, colourVars, figure_settings_values, plot>>

\* What the server may answer: columns for the ships asked for, or an error
\* without any field, for one if a time is empty.
Answers(pass) ==
  {Undefined} \union
  (IF Empty \in {pass.start, pass.end} THEN {}
   ELSE {c \in Columns : \A s \in Ships : pass.data[s] = None => c[s] = {}})

\* Mutant: the choice is taken for a name.
ChoicesOf(pass) == pass.data

NamesOf(pass) == [s \in Ships |-> IF pass.data[s] = None THEN Empty ELSE pass.data[s]]

updateDatasets(i, columns) ==
  [of |-> i, name |-> NamesOf(loads[i].pass), columns |-> columns]

\* Plotly.restyle skips what is undefined.
replotData(ds) ==
  IF ds.columns = Undefined THEN [plot EXCEPT !.name = ds.name]
  ELSE [plot EXCEPT !.name = ds.name, !.of = ds.of, !.columns = ds.columns]

\* The answer to load i comes: requestData, updateDatasets, replotData.
Answer(i) ==
  /\ i \in 1..Len(loads) \ settled
  /\ settled' = settled \union {i}
  /\ \E columns \in Answers(loads[i].pass) : dataset' = updateDatasets(i, columns)
  /\ plot' = replotData(dataset')
  /\ answers' = Append(answers, i)
  /\ UNCHANGED <<set_values, loads, continued, colourVars, figure_settings_values>>

\* The request fails or its answer is not JSON: catch logs it.
Fail(i) ==
  /\ i \in 1..Len(loads) \ settled
  /\ settled' = settled \union {i}
  /\ UNCHANGED <<set_values, loads, answers, continued, dataset, colourVars,
                 figure_settings_values, plot>>

\* Mutant: the request is not copied, so that a later click changes it.
PassedUncopied(i) == set_values

Passed(i) == loads[i].pass

\* Mutant: without data for a ship the colour bar is left as it is.
ColourbarKept(shown, data) ==
  [shown EXCEPT !.scale = colour_properties',
                !.colourbar = [s \in Ships |-> IF data[s] = None THEN @[s] ELSE data[s]]]

setLabels(shown, axes) == [shown EXCEPT !.labels = axes]

setColourbar(shown, data) ==
  [shown EXCEPT !.scale = colour_properties', !.colourbar = data]

\* Plotly has redrawn the plot: setLabels, updateColourProperties, setColourbar.
Continue ==
  /\ continued < Len(answers)
  /\ continued' = continued + 1
  /\ LET pass == Passed(answers[continued + 1])
         labelled == setLabels(plot, pass.axes)
     IN \E lims \in LimitChoices :
          IF ColoursRaise(lims, dataset.columns)
          THEN UNCHANGED colourVars /\ plot' = labelled
          ELSE /\ updateColourProperties(lims)
               /\ plot' = setColourbar(labelled, pass.data)
  /\ UNCHANGED <<requestVars, answers, dataset, figure_settings_values>>

updateFigureSettings == figure_settings_values' \in Settings

modifyAxesProperties ==
  plot' = [plot EXCEPT !.scale = colour_properties', !.figure = figure_settings_values']

\* Button "Apply Changes".  If the colours raise, the figure settings have been
\* read and are not shown.
applyChanges ==
  /\ updateFigureSettings
  /\ \E lims \in LimitChoices :
       IF ColoursRaise(lims, dataset.columns)
       THEN UNCHANGED <<colourVars, plot>>
       ELSE updateColourProperties(lims) /\ modifyAxesProperties
  /\ UNCHANGED <<requestVars, answers, continued, dataset>>

Next ==
  \/ \E pass \in Selections, now \in Clock : loadData(pass, now)
  \/ \E i \in 1..Len(loads) : Answer(i) \/ Fail(i)
  \/ Continue
  \/ applyChanges

Spec == Init /\ [][Next]_vars

\* Plotly ends its redraws; nobody has to click, no server to answer.
FairSpec == Spec /\ WF_vars(Continue)

------------------------------------------------------------------------------
(* Properties *)

Quiet == continued = Len(answers)

\* The last answer held data.
Sound == dataset.columns # Undefined

\* When no redraw is awaited and the last answer held data, then data, names,
\* axis labels and colour bars are of one load: that answer's.  Loads may
\* overlap, answers come in any order, earlier ones may have been errors
\* (hovmoller_load_data.js 24-36).
PlotIsOneAnswer ==
  Quiet /\ Sound /\ answers # <<>> =>
    LET i == answers[Len(answers)]
        pass == loads[i].pass
    IN /\ plot.of = i /\ plot.name = NamesOf(pass)
       /\ plot.labels = pass.axes /\ plot.colourbar = pass.data

\* Then, too, the colours fit the data shown: a limit the user left empty
\* leaves no value out, and one variable on two ships has one scale unless the
\* user set a limit (hovmoller.js 224-241).
ColoursFitData ==
  Quiet /\ Sound =>
    /\ \A s \in Ships : \A v \in plot.columns[s] :
         /\ limits[s].min = Empty => plot.scale[s].min <= v
         /\ limits[s].max = Empty => v <= plot.scale[s].max
    /\ AllEmpty(limits) /\ plot.name["PE"] = plot.name["PS"] => plot.scale["PE"] = plot.scale["PS"]

\* What is loaded passes the maximum by a row at most ("maximum number of
\* datapoints that can be loaded", hovmoller_load_data.js 2), unless it begins
\* before the cruise: the request keeps the start that the count replaces.
LoadedWithinMaximum ==
  \A i \in 1..Len(loads) :
    LET pass == loads[i].pass IN
    Empty \notin {pass.start, pass.end} /\ pass.start >= CRUISE_START_TIME =>
      NumberOfVariables(pass) * (Cardinality(Rows(pass, loads[i].at)) - 1) <= MAX_NUMBER_DATAPOINTS

\* The plot comes to show the answer as a whole, unless another one follows.
AnswerShownWhole ==
  \A i \in 1..MaxLoads :
    dataset.of = i /\ Sound ~> dataset.of # i \/ (Quiet /\ plot.colourbar = loads[i].pass.data)

==============================================================================
