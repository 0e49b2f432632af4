------------------------- MODULE TimeseriesPageProofs -------------------------
(***************************************************************************)
(* Proofs about TimeseriesPage: its types, its safety invariants, and that *)
(* it implements Figure.                                                   *)
(***************************************************************************)
EXTENDS TimeseriesPage, FiniteSetTheorems, TLAPS

Labels == [independent : Label, dependent : [Datasets -> Label]]

Request == [independent : Variables,
            data : [Datasets -> (Ships \X Variables) \union {None}],
            start : Times, end : Times, resolution : Resolutions]

\* What the plot shows is what the datasets hold, but for entries of the legend
\* that the user has written.
PlotFits ==
  LET update == dataUpdate(independent_axis_x, datasets)
  IN /\ plot.x = update.x /\ plot.y = update.y
     /\ plot.xaxis = update.xaxis /\ plot.yaxis = update.yaxis

\* What is stored was saved from one checked button.
Saved ==
  localStorage = NoKeys \/ \E r \in Resolutions : localStorage = getPreferences(Check(r))

PageInv == TypeOK /\ OneResolution /\ Saved /\ PlotFits /\ LabelsFitData

------------------------------------------------------------------------------
(* Preferences *)

\* Setting the stored values leaves one button checked, if they were saved from
\* one or there are none.
LEMMA OneIsSet ==
  ASSUME NEW stored,
         stored = NoKeys \/ \E r \in Resolutions : stored = getPreferences(Check(r))
  PROVE  \E r \in Resolutions : setPreferences(stored) = Check(r)
<1>1. CASE stored = NoKeys
  <2>1. \A r \in Resolutions : stored[r] = Null
    BY <1>1 DEF NoKeys
  <2>2. setPreferences(stored) = Check(1)
    BY <2>1, NullAssumption DEF setPreferences, Set, Resolutions
  <2> QED BY <2>2 DEF Resolutions
<1>2. ASSUME NEW r \in Resolutions, stored = getPreferences(Check(r))
      PROVE  setPreferences(stored) = Check(r)
  <2>1. \A s \in Resolutions : stored[s] = IF s = r THEN "true" ELSE "false"
    BY <1>2 DEF getPreferences, Check
  <2>2. CASE r = 1
    BY <2>1, <2>2 DEF setPreferences, Set, Check, Resolutions
  <2>3. CASE r = 5
    BY <2>1, <2>3 DEF setPreferences, Set, Check, Resolutions
  <2>4. CASE r = 15
    BY <2>1, <2>4 DEF setPreferences, Set, Check, Resolutions
  <2> QED BY <2>2, <2>3, <2>4 DEF Resolutions
<1> QED BY <1>1, <1>2

------------------------------------------------------------------------------
(* Labels *)

LEMMA Letters ==
  ASSUME NEW x \in BOOLEAN
  PROVE  /\ iaxis(x) \in {"x", "y"} /\ daxis(x) \in {"x", "y"} /\ iaxis(x) # daxis(x)
         /\ iaxis(~x) = daxis(x) /\ daxis(~x) = iaxis(x)
  BY DEF iaxis, daxis

\* Labels that are known are the ones that getLabels finds afterwards, in either
\* orientation, whatever the titles were before.
LEMMA SetLabels ==
  ASSUME NEW x \in BOOLEAN, NEW shown, NEW labels,
         NEW t, t = setLabels(x, shown, labels)
  PROVE  /\ t[<<iaxis(x), 1>>] = Given(labels.independent, shown[<<iaxis(x), 1>>])
         /\ \A i \in Datasets :
              t[<<daxis(x), i>>] = Given(labels.dependent[i], shown[<<daxis(x), i>>])
  BY Letters, DatasetsAssumption DEF setLabels, Axes

LEMMA LabelsReturned ==
  ASSUME NEW x \in BOOLEAN, NEW shown, NEW labels \in Labels,
         NEW t, t = setLabels(x, shown, labels)
  PROVE  /\ t[<<iaxis(x), 1>>] = labels.independent
         /\ \A i \in Datasets : t[<<daxis(x), i>>] = labels.dependent[i]
  BY SetLabels, MarksAssumption DEF Given, Labels, Label

LEMMA TitlesTyped ==
  ASSUME NEW x \in BOOLEAN, NEW shown \in [Axes -> Label \union {Undefined}],
         NEW labels \in [independent : Label, dependent : [Datasets -> Label \union {Undefined}]]
  PROVE  setLabels(x, shown, labels) \in [Axes -> Label \union {Undefined}]
<1>1. \A a \in Axes : a[2] \in Datasets
  BY DEF Axes
<1> QED BY <1>1 DEF setLabels, Given

LEMMA LabelsTyped ==
  ASSUME TypeOK
  PROVE  getLabels(independent_axis_x) \in Labels
  BY DatasetsAssumption DEF TypeOK, getLabels, Labels, InUse

\* Titles set from labels that are all known are known.
LEMMA InUseTyped ==
  ASSUME NEW x \in BOOLEAN, NEW t,
         t[<<iaxis(x), 1>>] \in Label,
         \A i \in Datasets : t[<<daxis(x), i>>] \in Label
  PROVE  \A a \in InUse(x) : t[a] \in Label
  BY DEF InUse

------------------------------------------------------------------------------
(* The invariant, action by action *)

\* The page as its scripts leave it when the document is loaded.
Opened ==
  /\ independent_axis_x = TRUE /\ loads = <<>> /\ settled = {} /\ datasets = Blanks
  /\ plot = dataUpdate(TRUE, Blanks) /\ titles = BlankTitles

LEMMA BlankPage == PreferencesTypeOK /\ Opened => TypeOK /\ PlotFits /\ LabelsFitData
<1> SUFFICES ASSUME PreferencesTypeOK, Opened PROVE TypeOK /\ PlotFits /\ LabelsFitData
  OBVIOUS
<1> USE DEF Opened
<1> DEFINE untitled == [a \in Axes |-> Undefined]
<1>1. NoLabels \in Labels /\ untitled \in [Axes -> Label \union {Undefined}]
  BY DEF NoLabels, Labels, Label
<1>2. /\ titles[<<iaxis(independent_axis_x), 1>>] \in Label
      /\ \A i \in Datasets : titles[<<daxis(independent_axis_x), i>>] \in Label
  <2>1. independent_axis_x \in BOOLEAN /\ titles = setLabels(independent_axis_x, untitled, NoLabels)
    BY DEF BlankTitles
  <2>2. /\ titles[<<iaxis(independent_axis_x), 1>>] = NoLabels.independent
        /\ \A i \in Datasets : titles[<<daxis(independent_axis_x), i>>] = NoLabels.dependent[i]
    <3> HIDE DEF untitled, Opened
    <3> QED BY <1>1, <2>1, LabelsReturned
  <2> QED BY <1>1, <2>2 DEF Labels
<1>3. titles \in [Axes -> Label \union {Undefined}]
  BY <1>1, TitlesTyped DEF BlankTitles, Labels
<1>4. \A a \in InUse(independent_axis_x) : titles[a] \in Label
  BY <1>2, InUseTyped
<1>5. datasets \in [Datasets -> [name : Named, independent : Column, dependent : Column]]
  BY DEF Blanks, Blank, Named, Column
<1>6. plot \in [x : [Datasets -> Column], y : [Datasets -> Column],
                name : [Datasets -> Named \union Texts],
                xaxis : [Datasets -> Datasets], yaxis : [Datasets -> Datasets]]
  BY DatasetsAssumption DEF dataUpdate, Blanks, Blank, Named, Column
<1>7. settled \subseteq 1..Len(loads) /\ Len(loads) <= MaxLoads /\ loads \in Seq([independent : Variables,
                    data : [Datasets -> (Ships \X Variables) \union {None}],
                    start : Times, end : Times, resolution : Resolutions])
  BY BoundsAssumption
<1>8. TypeOK
  BY <1>3, <1>4, <1>5, <1>6, <1>7 DEF TypeOK
<1>9. PlotFits
  BY DEF PlotFits
<1>10. LabelsFitData
  BY DEF LabelsFitData, Blanks, Blank
<1> QED BY <1>8, <1>9, <1>10

LEMMA InitPage == Init => PageInv
<1> SUFFICES ASSUME Init PROVE PageInv
  OBVIOUS
<1>1. Saved
  BY DEF Init, Saved
<1>2. OneResolution
  BY OneIsSet DEF Init, OneResolution
<1>3. PreferencesTypeOK
  BY <1>2 DEF Init, OneResolution, PreferencesTypeOK, Check, NoKeys
<1>4. TypeOK /\ PlotFits /\ LabelsFitData
  BY <1>3, BlankPage DEF Init, Opened
<1> QED BY <1>1, <1>2, <1>4 DEF PageInv

LEMMA ReloadPage == PageInv /\ Reload => PageInv'
<1> SUFFICES ASSUME PageInv, Reload PROVE PageInv'
  OBVIOUS
<1>1. Saved'
  BY DEF PageInv, Saved, Reload
<1>2. OneResolution'
  BY OneIsSet DEF PageInv, Saved, Reload, OneResolution
<1>3. PreferencesTypeOK'
  BY <1>2 DEF PageInv, TypeOK, Reload, OneResolution, PreferencesTypeOK, Check
<1>4. Opened'
  BY DEF Reload, Opened
<1>5. (TypeOK /\ PlotFits /\ LabelsFitData)'
  BY <1>3, <1>4, BlankPage, PTL
<1> QED BY <1>1, <1>2, <1>5 DEF PageInv

LEMMA PreferencesPage == PageInv /\ Preferences /\ UNCHANGED pageVars => PageInv'
<1> SUFFICES ASSUME PageInv, Preferences, UNCHANGED pageVars PROVE PageInv'
  OBVIOUS
<1> USE DEF PageInv
<1>1. OneResolution'
  BY DEF OneResolution, Preferences, Choose, savePreferences, OtherPageSaves, clearPreferences
<1>2. Saved'
  BY DEF OneResolution, Saved, Preferences, Choose, savePreferences, OtherPageSaves, clearPreferences
<1>3. PreferencesTypeOK'
  BY <1>1, <1>2 DEF OneResolution, Saved, PreferencesTypeOK, Check, getPreferences, NoKeys
<1>4. TypeOK'
  BY <1>3 DEF TypeOK, pageVars, requestVars
<1>5. (PlotFits /\ LabelsFitData)'
  BY DEF PlotFits, LabelsFitData, getLabels, pageVars, requestVars
<1> QED BY <1>1, <1>2, <1>4, <1>5

LEMMA LoadPage ==
  ASSUME PageInv, NEW selection \in Selections, NEW start \in Times, NEW end \in Times,
         NEW now \in Clock, loadData(selection, start, end, now)
  PROVE  PageInv'
<1> USE DEF PageInv
<1>1. (OneResolution /\ Saved /\ PlotFits /\ LabelsFitData)'
  BY DEF OneResolution, Saved, PlotFits, LabelsFitData, getLabels, loadData, preferenceVars
<1>2. TypeOK'
  <2>1. PICK r \in Resolutions :
          loads' = Append(loads, [independent |-> selection.independent,
                                  data |-> selection.data,
                                  start |-> start, end |-> end, resolution |-> r])
    BY DEF loadData
  <2>2. selection \in [independent : Variables,
                       data : [Datasets -> (Ships \X Variables) \union {None}]]
    BY ControlsAssumption
  <2>3. loads' \in Seq([independent : Variables,
                        data : [Datasets -> (Ships \X Variables) \union {None}],
                        start : Times, end : Times, resolution : Resolutions])
    BY <2>1, <2>2 DEF TypeOK
  <2>4. Len(loads') = Len(loads) + 1 /\ Len(loads) \in Nat
    BY <2>1 DEF TypeOK
  <2>5. settled' \subseteq 1..Len(loads') /\ Len(loads') <= MaxLoads
    BY <2>4, BoundsAssumption DEF TypeOK, loadData
  <2> QED BY <2>3, <2>5 DEF TypeOK, PreferencesTypeOK, loadData, preferenceVars
<1> QED BY <1>1, <1>2

LEMMA FailPage ==
  ASSUME PageInv, NEW k, Fail(k)
  PROVE  PageInv'
  BY DEF PageInv, TypeOK, PreferencesTypeOK, OneResolution, Saved, PlotFits, LabelsFitData,
         getLabels, Fail, preferenceVars

LEMMA RequestTyped ==
  ASSUME TypeOK, NEW k \in 1..Len(loads)
  PROVE  loads[k] \in Request
<1>1. loads \in Seq(Request)
  BY DEF TypeOK, Request
<1> QED BY <1>1

LEMMA AnswerPage ==
  ASSUME PageInv, NEW k \in 1..Len(loads), Answer(k)
  PROVE  PageInv'
<1> USE DEF PageInv
<1> DEFINE x == independent_axis_x
           pass == loads[k]
           labels == LabelsOf(pass, datasets')
<1>1. (OneResolution /\ Saved /\ PreferencesTypeOK)'
  BY DEF TypeOK, OneResolution, Saved, PreferencesTypeOK, Answer, preferenceVars
<1>2. pass \in Request
  BY RequestTyped
<1>3. \A i \in Datasets :
        \/ datasets'[i] = Blank
        \/ /\ pass.data[i] \in Ships \X Variables
           /\ datasets'[i] = [name |-> pass.data[i],
                              independent |-> [of |-> k, ship |-> pass.data[i][1]],
                              dependent |-> [of |-> k, dataset |-> i]]
  BY <1>2 DEF Answer, updateDatasets, Request
<1>4. datasets' \in [Datasets -> [name : Named, independent : Column, dependent : Column]]
  <2>1. datasets' = [i \in Datasets |-> datasets'[i]]
    BY DEF Answer, updateDatasets
  <2>2. \A i \in Datasets : datasets'[i] \in [name : Named, independent : Column, dependent : Column]
    <3> SUFFICES ASSUME NEW i \in Datasets
                 PROVE  datasets'[i] \in [name : Named, independent : Column, dependent : Column]
      OBVIOUS
    <3>1. k \in Nat
      BY DEF TypeOK
    <3>2. CASE datasets'[i] = Blank
      BY <3>2 DEF Blank, Named, Column
    <3>3. CASE datasets'[i] # Blank
      <4>1. pass.data[i] \in Ships \X Variables /\ pass.data[i][1] \in Ships
        BY <1>3, <3>3
      <4>2. datasets'[i] = [name |-> pass.data[i],
                            independent |-> [of |-> k, ship |-> pass.data[i][1]],
                            dependent |-> [of |-> k, dataset |-> i]]
        BY <1>3, <3>3
      <4> HIDE DEF pass
      <4>3. [of |-> k, ship |-> pass.data[i][1]] \in Column
        BY <3>1, <4>1 DEF Column
      <4>4. [of |-> k, dataset |-> i] \in Column
        BY <3>1 DEF Column
      <4> QED BY <4>1, <4>2, <4>3, <4>4 DEF Named
    <3> QED BY <3>2, <3>3
  <2> QED BY <2>1, <2>2
<1>5. labels \in [independent : Label, dependent : [Datasets -> Label \union {Undefined}]]
  BY <1>2, <1>4 DEF LabelsOf, Label, Named, Request
<1>6. x \in BOOLEAN /\ x' = x /\ titles \in [Axes -> Label \union {Undefined}]
  BY DEF TypeOK, Answer
<1>7. titles' = setLabels(x, titles, labels)
  BY DEF Answer
<1>8. titles' \in [Axes -> Label \union {Undefined}]
  <2> HIDE DEF labels, x
  <2> QED BY <1>5, <1>6, <1>7, TitlesTyped
<1>9. /\ titles'[<<iaxis(x), 1>>] = Given(labels.independent, titles[<<iaxis(x), 1>>])
      /\ \A i \in Datasets :
           titles'[<<daxis(x), i>>] = Given(labels.dependent[i], titles[<<daxis(x), i>>])
  <2> HIDE DEF labels, x
  <2> QED BY <1>6, <1>7, SetLabels
<1>10. \A a \in InUse(x) : titles'[a] \in Label
  <2>1. \A a \in InUse(x) : titles[a] \in Label
    BY DEF TypeOK
  <2>2. titles[<<iaxis(x), 1>>] \in Label /\ \A i \in Datasets : titles[<<daxis(x), i>>] \in Label
    BY <2>1 DEF InUse
  <2>3. titles'[<<iaxis(x), 1>>] \in Label /\ \A i \in Datasets : titles'[<<daxis(x), i>>] \in Label
    <3> HIDE DEF labels, x
    <3> QED BY <2>2, <1>5, <1>9 DEF Given
  <2> HIDE DEF labels, x
  <2> QED BY <2>3, <1>6, InUseTyped
<1>11. plot' = dataUpdate(x, datasets')
  BY DEF Answer
<1>12. plot' \in [x : [Datasets -> Column], y : [Datasets -> Column],
                  name : [Datasets -> Named \union Texts],
                  xaxis : [Datasets -> Datasets], yaxis : [Datasets -> Datasets]]
  BY <1>4, <1>11, DatasetsAssumption DEF dataUpdate
<1>13. TypeOK'
  <2>1. settled' \subseteq 1..Len(loads') /\ loads' = loads
    BY DEF TypeOK, Answer
  <2> QED BY <2>1, <1>1, <1>4, <1>6, <1>8, <1>10, <1>12 DEF TypeOK
<1>14. PlotFits'
  BY <1>6, <1>11 DEF PlotFits
<1>15. LabelsFitData'
  <2> SUFFICES ASSUME NEW i \in Datasets, datasets'[i].name # Empty
               PROVE  titles'[<<daxis(x), i>>] \in {datasets'[i].name[2]} \union Texts
    BY <1>6 DEF LabelsFitData, getLabels
  <2>1. labels.dependent[i] = datasets'[i].name[2]
    BY DEF LabelsOf
  <2>2. datasets'[i].name[2] \in Variables
    BY <1>4 DEF Named
  <2>3. titles'[<<daxis(x), i>>] = datasets'[i].name[2]
    <3> HIDE DEF labels, x
    <3> QED BY <1>9, <2>1, <2>2, MarksAssumption DEF Given
  <2> QED BY <2>3
<1> QED BY <1>1, <1>13, <1>14, <1>15

\* Applying settings and switching axes: the labels are read, the axes of x made
\* anew, and the labels set.
LEMMA LabelsKept ==
  ASSUME TypeOK, NEW x \in BOOLEAN,
         titles' = setLabels(x, modifyAxesProperties(x, titles), getLabels(independent_axis_x)),
         independent_axis_x' = x
  PROVE  /\ titles' \in [Axes -> Label \union {Undefined}]
         /\ \A a \in InUse(independent_axis_x') : titles'[a] \in Label
         /\ getLabels(independent_axis_x)' = getLabels(independent_axis_x)
<1> DEFINE labels == getLabels(independent_axis_x)
           shown == modifyAxesProperties(x, titles)
<1>1. labels \in Labels
  BY LabelsTyped
<1>2. shown \in [Axes -> Label \union {Undefined}]
  BY DEF TypeOK, modifyAxesProperties
<1>3. titles' = setLabels(x, shown, labels)
  OBVIOUS
<1> HIDE DEF labels, shown
<1>4. titles' \in [Axes -> Label \union {Undefined}]
  BY <1>1, <1>2, <1>3, TitlesTyped DEF Labels
<1>5. /\ titles'[<<iaxis(x), 1>>] = labels.independent
      /\ \A i \in Datasets : titles'[<<daxis(x), i>>] = labels.dependent[i]
  BY <1>1, <1>3, LabelsReturned
<1>6. \A a \in InUse(x) : titles'[a] \in Label
  BY <1>1, <1>5, InUseTyped DEF Labels
<1>7. getLabels(independent_axis_x)' = [independent |-> labels.independent,
                                       dependent |-> [i \in Datasets |-> labels.dependent[i]]]
  BY <1>5 DEF getLabels
<1>8. labels = [independent |-> labels.independent,
                dependent |-> [i \in Datasets |-> labels.dependent[i]]]
  BY <1>1 DEF Labels
<1> QED BY <1>4, <1>6, <1>7, <1>8 DEF labels

LEMMA ApplyPage == PageInv /\ applyChanges => PageInv'
<1> SUFFICES ASSUME PageInv, applyChanges PROVE PageInv'
  OBVIOUS
<1> USE DEF PageInv
<1>1. /\ titles' \in [Axes -> Label \union {Undefined}]
      /\ \A a \in InUse(independent_axis_x') : titles'[a] \in Label
      /\ getLabels(independent_axis_x)' = getLabels(independent_axis_x)
  BY LabelsKept DEF applyChanges, TypeOK
<1>2. TypeOK'
  BY <1>1 DEF TypeOK, PreferencesTypeOK, applyChanges, requestVars, preferenceVars
<1>3. (OneResolution /\ Saved /\ PlotFits)'
  BY DEF OneResolution, Saved, PlotFits, applyChanges, preferenceVars
<1>4. LabelsFitData'
  BY <1>1 DEF LabelsFitData, applyChanges
<1> QED BY <1>2, <1>3, <1>4

LEMMA SwitchPage == PageInv /\ switchAxes => PageInv'
<1> SUFFICES ASSUME PageInv, switchAxes PROVE PageInv'
  OBVIOUS
<1> USE DEF PageInv
<1>1. /\ titles' \in [Axes -> Label \union {Undefined}]
      /\ \A a \in InUse(independent_axis_x') : titles'[a] \in Label
      /\ getLabels(independent_axis_x)' = getLabels(independent_axis_x)
  BY LabelsKept DEF switchAxes, TypeOK
<1>2. plot' \in [x : [Datasets -> Column], y : [Datasets -> Column],
                 name : [Datasets -> Named \union Texts],
                 xaxis : [Datasets -> Datasets], yaxis : [Datasets -> Datasets]]
  BY DatasetsAssumption DEF TypeOK, switchAxes, dataUpdate
<1>3. TypeOK'
  BY <1>1, <1>2 DEF TypeOK, PreferencesTypeOK, switchAxes, requestVars, preferenceVars
<1>4. (OneResolution /\ Saved /\ PlotFits)'
  BY DEF OneResolution, Saved, PlotFits, switchAxes, preferenceVars
<1>5. LabelsFitData'
  BY <1>1 DEF LabelsFitData, switchAxes
<1> QED BY <1>3, <1>4, <1>5

LEMMA EditPage == PageInv /\ Edit => PageInv'
<1> SUFFICES ASSUME PageInv, Edit PROVE PageInv'
  OBVIOUS
<1> USE DEF PageInv
<1> DEFINE x == independent_axis_x
<1>1. (OneResolution /\ Saved /\ PreferencesTypeOK)' /\ datasets' = datasets /\ x' = x
  BY DEF TypeOK, OneResolution, Saved, PreferencesTypeOK, Edit, preferenceVars
<1>2. ASSUME NEW a \in InUse(x), NEW u \in Texts, titles' = [titles EXCEPT ![a] = u],
             UNCHANGED plot
      PROVE  PageInv'
  <2>1. a \in Axes
    BY DatasetsAssumption DEF InUse, Axes, iaxis, daxis
  <2>2. TypeOK'
    BY <1>1, <1>2, <2>1 DEF TypeOK, Edit, requestVars, Label
  <2>3. PlotFits'
    BY <1>1, <1>2 DEF PlotFits
  <2>4. \A i \in Datasets : <<daxis(x), i>> \in Axes
    BY DEF Axes, daxis
  <2>5. LabelsFitData'
    BY <1>1, <1>2, <2>1, <2>4 DEF LabelsFitData, getLabels, TypeOK
  <2> QED BY <1>1, <2>2, <2>3, <2>5
<1>3. ASSUME NEW i \in Datasets, NEW u \in Texts, plot' = [plot EXCEPT !.name[i] = u],
             UNCHANGED titles
      PROVE  PageInv'
  <2>1. TypeOK'
    BY <1>1, <1>3 DEF TypeOK, Edit, requestVars
  <2>2. PlotFits'
    BY <1>1, <1>3 DEF PlotFits, TypeOK
  <2>3. LabelsFitData'
    BY <1>1, <1>3 DEF LabelsFitData, getLabels
  <2> QED BY <1>1, <2>1, <2>2, <2>3
<1> QED BY <1>2, <1>3 DEF Edit

LEMMA StepPage == PageInv /\ [Next]_vars => PageInv'
<1> SUFFICES ASSUME PageInv, [Next]_vars PROVE PageInv'
  OBVIOUS
<1>1. CASE UNCHANGED vars
  BY <1>1 DEF PageInv, TypeOK, PreferencesTypeOK, OneResolution, Saved, PlotFits, LabelsFitData,
              getLabels, vars, pageVars, requestVars, preferenceVars
<1>2. CASE Next
  BY <1>2, LoadPage, AnswerPage, FailPage, ApplyPage, SwitchPage, EditPage, ReloadPage,
     PreferencesPage DEF Next
<1> QED BY <1>1, <1>2

LEMMA AlwaysPage == Spec => []PageInv
<1> QED BY InitPage, StepPage, PTL DEF Spec

------------------------------------------------------------------------------
(* Theorems *)

\* Every variable of the page keeps its type, and every axis in use a title.
THEOREM TimeseriesTypeCorrect == Spec => []TypeOK
<1>1. PageInv => TypeOK
  BY DEF PageInv
<1> QED BY <1>1, AlwaysPage, PTL

\* Over any sequence of choosing, saving, clearing and loading the page again,
\* one button of the resolution is checked (timeseries.js 230, 429-446).
THEOREM OneIsChecked == Spec => []OneResolution
<1>1. PageInv => OneResolution
  BY DEF PageInv
<1> QED BY <1>1, AlwaysPage, PTL

\* The label of a dataset's axis is its variable's or the user's, whatever is
\* loaded, switched and applied in whatever order (timeseries.js 453-469).
THEOREM LabelsFit == Spec => []LabelsFitData
<1>1. PageInv => LabelsFitData
  BY DEF PageInv
<1> QED BY <1>1, AlwaysPage, PTL

------------------------------------------------------------------------------
(* The page implements Figure *)

\* What is drawn, told without regard to which axis is which.
Seen ==
  [i \in Datasets |->
     [independent |-> IF independent_axis_x THEN plot.x[i] ELSE plot.y[i],
      dependent |-> IF independent_axis_x THEN plot.y[i] ELSE plot.x[i],
      axes |-> IF independent_axis_x THEN <<plot.xaxis[i], plot.yaxis[i]>>
               ELSE <<plot.yaxis[i], plot.xaxis[i]>>]]

NamesShown == [i \in Datasets |-> datasets[i].name]

\* A plot that fits the datasets shows their columns, in either orientation.
LEMMA SeenData ==
  PlotFits /\ independent_axis_x \in BOOLEAN =>
    Seen = [i \in Datasets |-> [independent |-> datasets[i].independent,
                                dependent |-> datasets[i].dependent,
                                axes |-> <<1, i>>]]
  BY DEF PlotFits, Seen, dataUpdate

LEMMA BlankFigure == Opened => Seen = figure!Nothing /\ NamesShown = figure!NoNames
                               /\ plot.name = figure!NoNames
                               /\ getLabels(independent_axis_x) = figure!NoLabels
<1> SUFFICES ASSUME Opened
             PROVE  Seen = figure!Nothing /\ NamesShown = figure!NoNames
                    /\ plot.name = figure!NoNames
                    /\ getLabels(independent_axis_x) = figure!NoLabels
  OBVIOUS
<1> USE DEF Opened
<1>1. Seen = figure!Nothing
  BY DEF Seen, dataUpdate, Blanks, Blank, figure!Nothing, figure!Drawn
<1>2. NamesShown = figure!NoNames /\ plot.name = figure!NoNames
  BY DEF NamesShown, dataUpdate, Blanks, Blank, figure!NoNames
<1>3. getLabels(independent_axis_x) = figure!NoLabels
  <2> DEFINE untitled == [a \in Axes |-> Undefined]
  <2>1. independent_axis_x \in BOOLEAN /\ titles = setLabels(independent_axis_x, untitled, NoLabels)
    BY DEF BlankTitles
  <2>2. NoLabels \in Labels
    BY DEF NoLabels, Labels, Label
  <2>3. /\ titles[<<iaxis(independent_axis_x), 1>>] = NoLabels.independent
        /\ \A i \in Datasets : titles[<<daxis(independent_axis_x), i>>] = NoLabels.dependent[i]
    <3> HIDE DEF untitled, Opened
    <3> QED BY <2>1, <2>2, LabelsReturned
  <2> QED BY <2>3 DEF getLabels, NoLabels, figure!NoLabels, figure!NoNames
<1> QED BY <1>1, <1>2, <1>3

LEMMA InitFigure == Init => figure!Fresh
<1> SUFFICES ASSUME Init PROVE figure!Fresh
  OBVIOUS
<1>1. Opened
  BY DEF Init, Opened
<1> QED BY <1>1, BlankFigure DEF figure!Fresh, Seen, NamesShown, Opened

LEMMA ReloadFigure == Reload => figure!Renew
<1> SUFFICES ASSUME Reload PROVE figure!Renew
  OBVIOUS
<1>1. Opened'
  BY DEF Reload, Opened
<1>2. (Seen = figure!Nothing /\ NamesShown = figure!NoNames
       /\ plot.name = figure!NoNames /\ getLabels(independent_axis_x) = figure!NoLabels)'
  BY <1>1, BlankFigure, PTL
<1> QED BY <1>1, <1>2 DEF figure!Renew, Seen, NamesShown, Opened, figure!Nothing,
                          figure!NoNames, figure!NoLabels, figure!Drawn

\* An answer shows the data of its load.
LEMMA AnswerFigure ==
  ASSUME PageInv, NEW k \in 1..Len(loads), Answer(k), PageInv'
  PROVE  figure!Show(k)
<1> DEFINE x == independent_axis_x
           pass == loads[k]
           labels == LabelsOf(pass, datasets')
<1>1. x \in BOOLEAN /\ x' = x
  BY DEF PageInv, TypeOK, Answer
<1>2. NamesShown' \in [Datasets -> figure!Named]
  BY DEF PageInv, TypeOK, NamesShown, Named, figure!Named
<1>3. plot'.name = NamesShown'
  BY DEF Answer, dataUpdate, NamesShown
<1>4. Seen' = [i \in Datasets |-> figure!Drawn(k, i, NamesShown'[i])]
  <2>1. (Seen = [i \in Datasets |-> [independent |-> datasets[i].independent,
                                     dependent |-> datasets[i].dependent,
                                     axes |-> <<1, i>>]])'
    <3>1. (PlotFits /\ independent_axis_x \in BOOLEAN)'
      BY DEF PageInv, TypeOK
    <3> QED BY <3>1, SeenData, PTL
  <2>2. ASSUME NEW i \in Datasets
        PROVE  [independent |-> datasets'[i].independent,
                dependent |-> datasets'[i].dependent,
                axes |-> <<1, i>>] = figure!Drawn(k, i, NamesShown'[i])
    <3>1. NamesShown'[i] = datasets'[i].name
      BY DEF NamesShown
    <3>2. pass.data[i] \in (Ships \X Variables) \union {None}
      BY RequestTyped DEF PageInv, Request
    <3>3. datasets'[i] = IF pass.data[i] = None THEN Blank
                         ELSE [name |-> pass.data[i],
                               independent |-> [of |-> k, ship |-> pass.data[i][1]],
                               dependent |-> [of |-> k, dataset |-> i]]
      BY DEF Answer, updateDatasets
    <3> HIDE DEF pass
    <3> QED BY <3>1, <3>2, <3>3, MarksAssumption DEF Blank, figure!Drawn
  <2> QED BY <2>1, <2>2
<1>5. getLabels(independent_axis_x)' =
        [independent |-> pass.independent,
         dependent |-> [i \in Datasets |->
           IF NamesShown'[i] = Empty THEN getLabels(independent_axis_x).dependent[i]
           ELSE NamesShown'[i][2]]]
  <2>1. /\ titles'[<<iaxis(x), 1>>] = Given(labels.independent, titles[<<iaxis(x), 1>>])
        /\ \A i \in Datasets :
             titles'[<<daxis(x), i>>] = Given(labels.dependent[i], titles[<<daxis(x), i>>])
    <3>1. titles' = setLabels(x, titles, labels)
      BY DEF Answer
    <3> HIDE DEF labels, x
    <3> QED BY <1>1, <3>1, SetLabels
  <2>2. pass.independent \in Variables
    BY RequestTyped DEF PageInv, Request
  <2>3. Given(labels.independent, titles[<<iaxis(x), 1>>]) = pass.independent
    BY <2>2, MarksAssumption DEF Given, LabelsOf
  <2>4. ASSUME NEW i \in Datasets
        PROVE  Given(labels.dependent[i], titles[<<daxis(x), i>>]) =
                 IF NamesShown'[i] = Empty THEN getLabels(x).dependent[i] ELSE NamesShown'[i][2]
    <3>1. NamesShown'[i] = datasets'[i].name /\ NamesShown'[i] \in Named
      BY DEF NamesShown, PageInv, TypeOK
    <3>2. labels.dependent[i] = IF NamesShown'[i] = Empty THEN Undefined ELSE NamesShown'[i][2]
      BY <3>1 DEF LabelsOf
    <3>3. NamesShown'[i] # Empty => NamesShown'[i][2] \in Variables
      BY <3>1 DEF Named
    <3> HIDE DEF labels
    <3> QED BY <3>2, <3>3, MarksAssumption DEF Given, getLabels
  <2> QED BY <1>1, <2>1, <2>3, <2>4, ZenonT(60) DEF getLabels
<1>6. pass.independent \in Variables
  BY RequestTyped DEF PageInv, Request
<1> HIDE DEF pass
<1> QED BY <1>1, <1>2, <1>3, <1>4, <1>5, <1>6 DEF figure!Show, Seen, NamesShown

LEMMA SwitchFigure ==
  ASSUME PageInv, switchAxes, PageInv'
  PROVE  figure!Turn
<1>1. independent_axis_x' = ~independent_axis_x /\ datasets' = datasets
  BY DEF switchAxes
<1>2. plot'.name = NamesShown
  BY DEF switchAxes, dataUpdate, NamesShown
<1>3. Seen' = Seen
  <2>1. PlotFits /\ independent_axis_x \in BOOLEAN
    BY DEF PageInv, TypeOK
  <2>2. (PlotFits /\ independent_axis_x \in BOOLEAN)'
    BY DEF PageInv, TypeOK
  <2>3. (Seen = [i \in Datasets |-> [independent |-> datasets[i].independent,
                                     dependent |-> datasets[i].dependent,
                                     axes |-> <<1, i>>]])'
    BY <2>2, SeenData, PTL
  <2> QED BY <1>1, <2>1, <2>3, SeenData
<1>4. getLabels(independent_axis_x)' = getLabels(independent_axis_x)
  BY LabelsKept DEF switchAxes, PageInv, TypeOK
<1> QED BY <1>1, <1>2, <1>3, <1>4 DEF figure!Turn, Seen, NamesShown

\* Writing one label, as records.
LEMMA LabelsWritten ==
  ASSUME NEW p, NEW d, NEW u
  PROVE  LET old == [independent |-> p, dependent |-> d]
         IN /\ [old EXCEPT !.independent = u] = [independent |-> u, dependent |-> d]
            /\ \A i : [old EXCEPT !.dependent[i] = u] =
                       [independent |-> p, dependent |-> [d EXCEPT ![i] = u]]
  OBVIOUS

LEMMA EditFigure ==
  ASSUME PageInv, Edit
  PROVE  figure!Write
<1> DEFINE x == independent_axis_x
<1>1. x \in BOOLEAN /\ x' = x /\ datasets' = datasets
  BY DEF PageInv, TypeOK, Edit
<1>2. <<iaxis(x), 1>> \in Axes /\ \A i \in Datasets : <<daxis(x), i>> \in Axes
  BY DatasetsAssumption DEF Axes, daxis, iaxis
<1>3. ASSUME NEW a \in InUse(x), NEW u \in Texts, titles' = [titles EXCEPT ![a] = u],
             UNCHANGED plot
      PROVE  figure!Write
  <2>1. Seen' = Seen
    BY <1>1, <1>3 DEF Seen
  <2>2. \A b \in Axes : titles'[b] = IF b = a THEN u ELSE titles[b]
    BY <1>3 DEF PageInv, TypeOK
  <2>3. \A i \in Datasets : <<iaxis(x), 1>> # <<daxis(x), i>>
    BY <1>1, Letters
  <2> DEFINE independent == titles[<<iaxis(x), 1>>]
             dependent == [i \in Datasets |-> titles[<<daxis(x), i>>]]
  <2>4. /\ getLabels(x) = [independent |-> independent, dependent |-> dependent]
        /\ getLabels(x)' = [independent |-> independent', dependent |-> dependent']
    BY DEF getLabels
  <2>5. CASE a = <<iaxis(x), 1>>
    <3>1. independent' = u /\ dependent' = dependent
      BY <1>1, <1>2, <2>2, <2>3, <2>5
    <3>2. getLabels(x)' = [getLabels(x) EXCEPT !.independent = u]
      <4> HIDE DEF independent, dependent, x
      <4> QED BY <2>4, <3>1, LabelsWritten
    <3> QED BY <1>1, <1>3, <2>1, <3>2 DEF figure!Write, Seen
  <2>6. ASSUME NEW i \in Datasets, a = <<daxis(x), i>>
        PROVE  figure!Write
    <3>1. independent' = independent
      BY <1>1, <1>2, <2>2, <2>3, <2>6
    <3>2. dependent' = [dependent EXCEPT ![i] = u]
      BY <1>1, <1>2, <2>2, <2>6
    <3>3. getLabels(x)' = [getLabels(x) EXCEPT !.dependent[i] = u]
      <4> HIDE DEF independent, dependent, x
      <4> QED BY <2>4, <3>1, <3>2, LabelsWritten
    <3> QED BY <1>1, <1>3, <2>1, <3>3 DEF figure!Write, Seen
  <2> QED BY <2>5, <2>6 DEF InUse
<1>4. ASSUME NEW i \in Datasets, NEW u \in Texts, plot' = [plot EXCEPT !.name[i] = u],
             UNCHANGED titles
      PROVE  figure!Write
  <2>1. /\ Seen' = Seen
        /\ plot'.name = [plot.name EXCEPT ![i] = u]
        /\ getLabels(x)' = getLabels(x)
    BY <1>1, <1>4 DEF Seen, getLabels, PageInv, TypeOK
  <2> QED BY <1>1, <2>1 DEF figure!Write, Seen
<1> QED BY <1>3, <1>4 DEF Edit

LEMMA NextFigure ==
  PageInv /\ PageInv' /\ [Next]_vars => [figure!Next]_(figure!figureVars)
<1> SUFFICES ASSUME PageInv, PageInv', [Next]_vars
             PROVE  figure!Next \/ UNCHANGED figure!figureVars
  OBVIOUS
<1>1. CASE UNCHANGED vars
  BY <1>1 DEF vars, pageVars, figure!figureVars, getLabels
<1>2. ASSUME NEW selection \in Selections, NEW start \in Times, NEW end \in Times,
             NEW now \in Clock, loadData(selection, start, end, now)
      PROVE  UNCHANGED figure!figureVars
  BY <1>2 DEF loadData, figure!figureVars, getLabels
<1>3. ASSUME NEW k \in 1..Len(loads), Answer(k)
      PROVE  figure!Next
  <2>1. k \in 1..MaxLoads
    BY BoundsAssumption DEF PageInv, TypeOK
  <2> QED BY <1>3, <2>1, AnswerFigure DEF figure!Next
<1>4. ASSUME NEW k \in 1..Len(loads), Fail(k)
      PROVE  UNCHANGED figure!figureVars
  BY <1>4 DEF Fail, figure!figureVars, getLabels
<1>5. CASE applyChanges
  <2>1. getLabels(independent_axis_x)' = getLabels(independent_axis_x)
    BY <1>5, LabelsKept DEF applyChanges, PageInv, TypeOK
  <2> QED BY <1>5, <2>1 DEF applyChanges, figure!figureVars
<1>6. CASE switchAxes
  BY <1>6, SwitchFigure DEF figure!Next
<1>7. CASE Edit
  BY <1>7, EditFigure DEF figure!Next
<1>8. CASE Reload
  BY <1>8, ReloadFigure DEF figure!Next
<1>9. CASE Preferences /\ UNCHANGED pageVars
  BY <1>9 DEF pageVars, figure!figureVars, getLabels
<1> QED BY <1>1, <1>2, <1>3, <1>4, <1>5, <1>6, <1>7, <1>8, <1>9 DEF Next

\* The page implements Figure: no sequence of loads, answers, clicks and edits
\* loses a label or mixes data, whichever axis is the independent one
\* (timeseries.js 121, 126).
THEOREM ImplementsFigure == Spec => RefinesFigure
<1>1. Init => figure!Fresh
  BY InitFigure
<1>2. PageInv /\ PageInv' /\ [Next]_vars => [figure!Next]_(figure!figureVars)
  BY NextFigure
<1> QED BY <1>1, <1>2, AlwaysPage, PTL DEF Spec, RefinesFigure, figure!FigureSpec

------------------------------------------------------------------------------
(* What is shown was counted *)

\* The datasets are those of one load.
OfOneLoad ==
  datasets = Blanks \/ \E k \in 1..Len(loads) : datasets = updateDatasets(k, loads[k])

LEMMA InitLoad == Init => OfOneLoad
BY DEF Init, OfOneLoad

LEMMA StepLoad ==
  ASSUME PageInv, OfOneLoad, [Next]_vars
  PROVE  OfOneLoad'
<1> USE DEF OfOneLoad
<1>1. loads \in Seq(Request) /\ Len(loads) \in Nat
  BY DEF PageInv, TypeOK, Request
<1>2. ASSUME UNCHANGED <<datasets, loads>> PROVE OfOneLoad'
  BY <1>2 DEF updateDatasets
<1>3. ASSUME NEW selection \in Selections, NEW start \in Times, NEW end \in Times,
             NEW now \in Clock, loadData(selection, start, end, now)
      PROVE  OfOneLoad'
  <2>1. PICK pass : loads' = Append(loads, pass) /\ pass \in Request
    <3>1. selection \in [independent : Variables,
                         data : [Datasets -> (Ships \X Variables) \union {None}]]
      BY ControlsAssumption
    <3> QED BY <1>3, <3>1 DEF loadData, Request
  <2>2. Len(loads') = Len(loads) + 1 /\ \A k \in 1..Len(loads) : loads'[k] = loads[k]
    BY <1>1, <2>1
  <2>3. datasets' = datasets
    BY <1>3 DEF loadData
  <2>4. \A k \in 1..Len(loads) : k \in 1..Len(loads')
    BY <1>1, <2>2
  <2> QED BY <2>2, <2>3, <2>4 DEF updateDatasets
<1>4. ASSUME NEW k \in 1..Len(loads), Answer(k) PROVE OfOneLoad'
  BY <1>4, SMTT(30) DEF Answer, updateDatasets
<1>5. CASE Reload
  BY <1>5 DEF Reload
<1>6. ASSUME NEW k \in 1..Len(loads), Fail(k) PROVE OfOneLoad'
  BY <1>2, <1>6 DEF Fail
<1>7. CASE applyChanges \/ switchAxes \/ Edit \/ (Preferences /\ UNCHANGED pageVars)
  BY <1>2, <1>7 DEF applyChanges, switchAxes, Edit, requestVars, pageVars
<1>8. CASE UNCHANGED vars
  BY <1>2, <1>8 DEF vars, pageVars, requestVars
<1> QED BY <1>3, <1>4, <1>5, <1>6, <1>7, <1>8 DEF Next

LEMMA ImageSize ==
  ASSUME NEW S, IsFiniteSet(S), NEW f, NEW T, T = {f[s] : s \in S},
         \A r, s \in S : f[r] = f[s] => r = s
  PROVE  IsFiniteSet(T) /\ Cardinality(T) = Cardinality(S)
<1> DEFINE g == [s \in S |-> f[s]]
<1>1. g \in [S -> T] /\ (\A r, s \in S : g[r] = g[s] => r = s) /\ \A t \in T : \E s \in S : g[s] = t
  OBVIOUS
<1>2. g \in Bijection(S, T)
  BY <1>1 DEF Bijection, Injection, IsInjective, Surjection
<1> QED BY <1>2, FS_Bijection DEF ExistsBijection

Columns == ({plot.x[i] : i \in Datasets} \union {plot.y[i] : i \in Datasets}) \ {Empty}

\* The columns of a load: one for each ship, one for each dataset.
OfShips(k, pass) ==
  {[of |-> k, ship |-> s] : s \in {s \in Ships : \E i \in Datasets : pass.data[i] # None /\ pass.data[i][1] = s}}
OfDatasets(k, pass) ==
  {[of |-> k, dataset |-> i] : i \in {i \in Datasets : pass.data[i] # None}}

LEMMA ShownColumns ==
  ASSUME PageInv, NEW k \in 1..Len(loads), datasets = updateDatasets(k, loads[k])
  PROVE  Columns = OfShips(k, loads[k]) \union OfDatasets(k, loads[k])
<1> DEFINE pass == loads[k]
<1>1. pass \in Request /\ k \in Nat
  BY RequestTyped DEF PageInv, TypeOK
<1>2. {plot.x[i] : i \in Datasets} \union {plot.y[i] : i \in Datasets} =
        {datasets[i].independent : i \in Datasets} \union {datasets[i].dependent : i \in Datasets}
  <2>1. independent_axis_x \in BOOLEAN
    BY DEF PageInv, TypeOK
  <2> QED BY <2>1 DEF PageInv, PlotFits, dataUpdate
<1>3. \A i \in Datasets :
        /\ pass.data[i] = None => datasets[i].independent = Empty /\ datasets[i].dependent = Empty
        /\ pass.data[i] # None =>
             /\ datasets[i].independent = [of |-> k, ship |-> pass.data[i][1]]
             /\ datasets[i].dependent = [of |-> k, dataset |-> i]
             /\ pass.data[i][1] \in Ships
  BY <1>1 DEF updateDatasets, Blank, Request
<1>4. /\ \A s \in Ships : [of |-> k, ship |-> s] # Empty
      /\ \A i \in Datasets : [of |-> k, dataset |-> i] # Empty
  BY <1>1, MarksAssumption
<1> HIDE DEF pass
<1>5. ASSUME NEW c \in Columns PROVE c \in OfShips(k, pass) \union OfDatasets(k, pass)
  <2>1. c # Empty /\ \E i \in Datasets : c = datasets[i].independent \/ c = datasets[i].dependent
    BY <1>2, <1>5 DEF Columns
  <2>2. PICK i \in Datasets : c = datasets[i].independent \/ c = datasets[i].dependent
    BY <2>1
  <2>3. /\ pass.data[i] # None /\ pass.data[i][1] \in Ships
        /\ c = [of |-> k, ship |-> pass.data[i][1]] \/ c = [of |-> k, dataset |-> i]
    BY <1>3, <2>1, <2>2
  <2> QED BY <2>3 DEF OfShips, OfDatasets
<1>6. ASSUME NEW c \in OfShips(k, pass) \union OfDatasets(k, pass) PROVE c \in Columns
  <2>1. PICK i \in Datasets :
          /\ pass.data[i] # None
          /\ c = [of |-> k, ship |-> pass.data[i][1]] \/ c = [of |-> k, dataset |-> i]
    BY <1>6 DEF OfShips, OfDatasets
  <2>2. c # Empty /\ (c = datasets[i].independent \/ c = datasets[i].dependent)
    <3>1. pass.data[i][1] \in Ships
      BY <1>3, <2>1
    <3>2. [of |-> k, ship |-> pass.data[i][1]] # Empty /\ [of |-> k, dataset |-> i] # Empty
      BY <1>4, <3>1
    <3> QED BY <1>3, <2>1, <3>2
  <2>3. c \in {datasets[o].independent : o \in Datasets} \union {datasets[o].dependent : o \in Datasets}
    BY <2>2
  <2> QED BY <1>2, <2>2, <2>3 DEF Columns
<1> QED BY <1>5, <1>6 DEF pass

LEMMA ColumnsCounted ==
  ASSUME NEW k, NEW pass
  PROVE  Cardinality(OfShips(k, pass) \union OfDatasets(k, pass)) = NumberOfVariables(pass)
<1> DEFINE A == {s \in Ships : \E i \in Datasets : pass.data[i] # None /\ pass.data[i][1] = s}
           B == {i \in Datasets : pass.data[i] # None}
<1>1. IsFiniteSet(A)
  <2>1. IsFiniteSet({"PE"}) /\ {"PE"} \union {"PS"} = Ships
    BY FS_Singleton DEF Ships
  <2>2. IsFiniteSet(Ships)
    BY <2>1, FS_AddElement
  <2>3. A \in SUBSET Ships
    OBVIOUS
  <2> HIDE DEF A
  <2> QED BY <2>2, <2>3, FS_Subset
<1>2. IsFiniteSet(B)
  <2>1. IsFiniteSet(1..4)
    <3>1. 1 \in Int /\ 4 \in Int
      OBVIOUS
    <3> QED BY <3>1, FS_Interval, Zenon
  <2>2. Datasets \subseteq 1..4 /\ B \subseteq Datasets
    BY DatasetsAssumption
  <2> HIDE DEF B
  <2>3. B \in SUBSET (1..4)
    BY <2>2
  <2> QED BY <2>1, <2>3, FS_Subset
<1> HIDE DEF A, B
<1>3. IsFiniteSet(OfShips(k, pass)) /\ Cardinality(OfShips(k, pass)) = Cardinality(A)
  <2> DEFINE f == [s \in A |-> [of |-> k, ship |-> s]]
  <2>1. OfShips(k, pass) = {f[s] : s \in A}
    BY DEF OfShips, A
  <2>2. \A r, s \in A : f[r] = f[s] => r = s
    OBVIOUS
  <2> HIDE DEF f
  <2> QED BY <1>1, <2>1, <2>2, ImageSize
<1>4. IsFiniteSet(OfDatasets(k, pass)) /\ Cardinality(OfDatasets(k, pass)) = Cardinality(B)
  <2> DEFINE f == [i \in B |-> [of |-> k, dataset |-> i]]
  <2>1. OfDatasets(k, pass) = {f[i] : i \in B}
    BY DEF OfDatasets, B
  <2>2. \A i, j \in B : f[i] = f[j] => i = j
    OBVIOUS
  <2> HIDE DEF f
  <2> QED BY <1>2, <2>1, <2>2, ImageSize
<1>5. OfShips(k, pass) \cap OfDatasets(k, pass) = {}
  <2>1. \A s, i : [of |-> k, ship |-> s] # [of |-> k, dataset |-> i]
    OBVIOUS
  <2> QED BY <2>1 DEF OfShips, OfDatasets
<1>6. Cardinality(OfShips(k, pass) \union OfDatasets(k, pass)) = Cardinality(A) + Cardinality(B)
  <2>1. Cardinality(A) \in Nat /\ Cardinality(B) \in Nat
    BY <1>1, <1>2, FS_CardinalityType
  <2>2. Cardinality(OfShips(k, pass) \cap OfDatasets(k, pass)) = 0
    BY <1>5, FS_EmptySet
  <2> DEFINE P == OfShips(k, pass)
             Q == OfDatasets(k, pass)
  <2>3. IsFiniteSet(P) /\ IsFiniteSet(Q)
    BY <1>3, <1>4
  <2> HIDE DEF P, Q
  <2>4. Cardinality(P \union Q) = Cardinality(P) + Cardinality(Q) - Cardinality(P \cap Q)
    BY <2>3, FS_Union
  <2> QED BY <1>3, <1>4, <2>1, <2>2, <2>4 DEF P, Q
<1>7. NumberOfVariables(pass) = Cardinality(B) + Cardinality(A)
  BY DEF NumberOfVariables, A, B
<1>8. Cardinality(A) \in Nat /\ Cardinality(B) \in Nat
  BY <1>1, <1>2, FS_CardinalityType
<1> QED BY <1>6, <1>7, <1>8

\* The columns that are shown are as many as were counted before their request
\* was allowed, whatever was answered, switched or edited since
\* (timeseries_load_data.js 98).
THEOREM ShownWasCounted == Spec => []CountedIsShown
<1>1. PageInv /\ OfOneLoad => CountedIsShown
  <2> SUFFICES ASSUME PageInv, OfOneLoad, NEW c \in Columns
               PROVE  Cardinality(Columns) = NumberOfVariables(loads[c.of])
    BY DEF CountedIsShown, Columns
  <2>1. CASE datasets = Blanks
    <3>1. \A i \in Datasets : plot.x[i] = Empty /\ plot.y[i] = Empty
      BY <2>1 DEF PageInv, PlotFits, dataUpdate, Blanks, Blank
    <3> QED BY <3>1 DEF Columns
  <2>2. ASSUME NEW k \in 1..Len(loads), datasets = updateDatasets(k, loads[k])
        PROVE  Cardinality(Columns) = NumberOfVariables(loads[c.of])
    <3>1. Columns = OfShips(k, loads[k]) \union OfDatasets(k, loads[k])
      BY <2>2, ShownColumns
    <3>2. c.of = k
      BY <3>1 DEF OfShips, OfDatasets
    <3> QED BY <3>1, <3>2, ColumnsCounted
  <2> QED BY <2>1, <2>2 DEF OfOneLoad
<1>2. Spec => []OfOneLoad
  BY InitLoad, StepLoad, AlwaysPage, PTL DEF Spec
<1> QED BY <1>1, <1>2, AlwaysPage, PTL

==============================================================================
