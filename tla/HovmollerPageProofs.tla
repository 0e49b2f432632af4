------------------------- MODULE HovmollerPageProofs --------------------------
(***************************************************************************)
(* The plot shows one answer, its colours fit, and loads keep to the       *)
(* maximum: proofs for every number of loads and every order of their      *)
(* answers.                                                                *)
(***************************************************************************)
EXTENDS HovmollerPage, FiniteSetTheorems, TLAPS

\* What dataset_PE and dataset_PS hold is the last answer.
LastAnswer ==
  /\ answers = <<>> => dataset.of = 0 /\ dataset.name = [s \in Ships |-> Empty]
  /\ answers # <<>> => /\ dataset.of = answers[Len(answers)]
                       /\ dataset.name = NamesOf(loads[dataset.of].pass)

\* The plot has the names of the datasets, and their data unless undefined.
Plotted ==
  /\ plot.name = dataset.name
  /\ Sound => plot.of = dataset.of /\ plot.columns = dataset.columns

\* When no redraw is awaited, the chain of the last answer has ended.
Finished ==
  Quiet =>
    /\ answers # <<>> => plot.labels = loads[dataset.of].pass.axes
    /\ Sound => /\ answers # <<>> => plot.colourbar = loads[dataset.of].pass.data
                /\ plot.scale = Scales(limits, dataset.name, dataset.columns)

PageInv == TypeOK /\ LastAnswer /\ Plotted /\ Finished

\* The scales made of any limits and columns are scales.
LEMMA ScalesType ==
  ASSUME NEW lims \in [Ships -> Limit], NEW name, NEW columns \in Columns
  PROVE  Scales(lims, name, columns) \in [Ships -> Scale]
<1>1. \A S \in SUBSET Values : Lowest(S) \in Int \union {Infinity} /\ Highest(S) \in Int \union {Infinity}
  BY ValuesAssumption DEF Lowest, Highest
<1>2. UNION {columns[r] : r \in Ships} \in SUBSET Values
  BY DEF Columns
<1>3. \A s \in Ships : columns[s] \in SUBSET Values
  BY DEF Columns
<1> QED
  BY <1>1, <1>2, <1>3 DEF Scales, Scale, Limit

\* Lowest and Highest bound a column.
LEMMA Bounds ==
  ASSUME NEW S \in SUBSET Values, NEW v \in S
  PROVE  Lowest(S) <= v /\ v <= Highest(S)
<1>1. (\E m \in S : \A w \in S : m <= w) /\ (\E m \in S : \A w \in S : w <= m)
  BY ValuesAssumption
<1> QED
  BY <1>1 DEF Lowest, Highest

\* What the invariant says when no redraw is awaited is what a reader sees.
LEMMA InvOneAnswer == PageInv => PlotIsOneAnswer
BY DEF PageInv, LastAnswer, Plotted, Finished, PlotIsOneAnswer

LEMMA InvColours == PageInv => ColoursFitData
<1> SUFFICES ASSUME PageInv, Quiet, Sound PROVE
      /\ \A s \in Ships : \A v \in plot.columns[s] :
           /\ limits[s].min = Empty => plot.scale[s].min <= v
           /\ limits[s].max = Empty => v <= plot.scale[s].max
      /\ AllEmpty(limits) /\ plot.name["PE"] = plot.name["PS"] => plot.scale["PE"] = plot.scale["PS"]
  BY DEF ColoursFitData
<1> DEFINE columns == dataset.columns
<1>1. plot.columns = columns /\ plot.name = dataset.name /\ plot.scale = Scales(limits, dataset.name, columns)
  BY DEF PageInv, Plotted, Finished
<1>2. columns \in Columns
  BY DEF PageInv, TypeOK, Sound
<1>3. ASSUME NEW s \in Ships, NEW v \in columns[s]
      PROVE  /\ limits[s].min = Empty => plot.scale[s].min <= v
             /\ limits[s].max = Empty => v <= plot.scale[s].max
  <2>1. columns[s] \in SUBSET Values /\ UNION {columns[r] : r \in Ships} \in SUBSET Values
    BY <1>2 DEF Columns
  <2>2. v \in UNION {columns[r] : r \in Ships}
    OBVIOUS
  <2> QED
    BY <1>1, <2>1, <2>2, Bounds DEF Scales
<1>4. AllEmpty(limits) /\ plot.name["PE"] = plot.name["PS"] => plot.scale["PE"] = plot.scale["PS"]
  BY <1>1 DEF Scales, CommonScale, AllEmpty, Ships
<1> QED
  BY <1>1, <1>3, <1>4

\* Sequences: their elements, larger sets of elements, one more element.
LEMMA ElementType ==
  ASSUME NEW S, NEW s \in Seq(S), NEW i \in 1..Len(s)
  PROVE  s[i] \in S
OBVIOUS

LEMMA LastElement ==
  ASSUME NEW S, NEW s \in Seq(S), s # <<>>
  PROVE  Len(s) \in 1..Len(s) /\ s[Len(s)] \in S
OBVIOUS

LEMMA WiderType ==
  ASSUME NEW S, NEW T, S \subseteq T, NEW s \in Seq(S)
  PROVE  s \in Seq(T)
<1>1. \A i \in 1..Len(s) : s[i] \in T
  BY ElementType
<1> QED
  BY <1>1

LEMMA AppendType ==
  ASSUME NEW S, NEW s \in Seq(S), NEW e \in S
  PROVE  /\ Append(s, e) \in Seq(S) /\ Append(s, e) # <<>>
         /\ Len(Append(s, e)) = Len(s) + 1 /\ Append(s, e)[Len(s) + 1] = e
         /\ \A i \in 1..Len(s) : Append(s, e)[i] = s[i]
OBVIOUS

LEMMA InitInv == Init => PageInv
<1> SUFFICES ASSUME Init PROVE PageInv
  OBVIOUS
<1>1. dataset.columns \in Columns /\ dataset.name \in Names
  BY DEF Init, Columns, Names
<1>2. Sound /\ limits \in [Ships -> Limit]
  BY <1>1, MarksAssumption, ControlsAssumption DEF Init, Sound, Columns
<1>3. colour_properties \in [Ships -> Scale]
  BY <1>1, <1>2, ScalesType DEF Init
<1>4. TypeOK
  <2>1. settled \subseteq 1..Len(loads) /\ answers \in Seq(settled) /\ continued \in 0..Len(answers)
        /\ loads \in Seq([pass : Selections, at : Clock])
    BY DEF Init
  <2>2. plot \in Plots
    BY <1>1, <1>3 DEF Init, Plots
  <2> QED
    BY <1>1, <1>2, <1>3, <2>1, <2>2 DEF Init, TypeOK
<1> QED
  BY <1>4 DEF Init, PageInv, LastAnswer, Plotted, Finished

\* The names of a selection are names.
LEMMA NamesType ==
  ASSUME NEW pass \in Selections
  PROVE  /\ NamesOf(pass) \in Names /\ pass.axes \in Axes
         /\ pass.data \in [Ships -> Variables \union {None, Empty}]
BY ControlsAssumption DEF NamesOf, Names

\* Limits that do not raise give scales, of the columns if these are defined.
LEMMA ColoursType ==
  ASSUME TypeOK, NEW lims \in LimitChoices
  PROVE  Scales(lims, dataset.name, Known(dataset.columns)) \in [Ships -> Scale]
<1>1. Known(dataset.columns) \in Columns
  BY DEF TypeOK, Known, Columns
<1> QED
  BY <1>1, ScalesType, ControlsAssumption

LEMMA LoadInv ==
  ASSUME PageInv, NEW pass \in Selections, NEW now \in Clock, loadData(pass, now)
  PROVE  PageInv'
<1> USE DEF PageInv
<1>1. loads' \in Seq([pass : Selections, at : Clock]) /\ 1..Len(loads) \subseteq 1..Len(loads')
      /\ \A i \in 1..Len(loads) : loads'[i] = loads[i]
  <2>1. loads \in Seq([pass : Selections, at : Clock]) /\ [pass |-> pass, at |-> now] \in [pass : Selections, at : Clock]
    BY DEF TypeOK
  <2>2. loads' \in {loads, Append(loads, [pass |-> pass, at |-> now])}
    BY DEF loadData
  <2>3. CASE loads' = loads
    BY <2>1, <2>3
  <2>4. CASE loads' = Append(loads, [pass |-> pass, at |-> now])
    BY <2>1, <2>4, AppendType
  <2> QED
    BY <2>2, <2>3, <2>4
<1>2. TypeOK'
  BY <1>1 DEF TypeOK, loadData, updateSet, colourVars
<1>3. answers # <<>> => answers[Len(answers)] \in 1..Len(loads)
  BY LastElement DEF TypeOK
<1>4. LastAnswer'
  BY <1>1, <1>3 DEF LastAnswer, loadData
<1>5. Finished'
  BY <1>1, <1>3 DEF LastAnswer, Finished, Quiet, Sound, loadData, colourVars
<1> QED
  BY <1>2, <1>4, <1>5 DEF Plotted, Sound, loadData

LEMMA AnswerInv ==
  ASSUME PageInv, NEW i \in 1..Len(loads), Answer(i)
  PROVE  PageInv'
<1> USE DEF PageInv
<1>1. PICK columns \in Answers(loads[i].pass) : dataset' = updateDatasets(i, columns)
  BY DEF Answer
<1>2. columns \in Columns \union {Undefined}
  BY DEF Answers
<1>3. loads[i].pass \in Selections
  <2>1. loads[i] \in [pass : Selections, at : Clock]
    BY ElementType DEF TypeOK
  <2> QED
    BY <2>1
<1>4. dataset' \in [of : Nat, name : Names, columns : Columns \union {Undefined}]
  BY <1>1, <1>2, <1>3, NamesType DEF updateDatasets
<1>5. plot' = replotData(dataset') /\ UNCHANGED <<set_values, loads, continued, colourVars, figure_settings_values>>
  BY DEF Answer
<1>6. plot' \in Plots
  BY <1>4, <1>5 DEF TypeOK, Plots, replotData
<1>7. settled' = settled \union {i} /\ answers' = Append(answers, i)
  BY DEF Answer
<1>8. answers' \in Seq(settled') /\ answers' # <<>> /\ Len(answers') = Len(answers) + 1
      /\ answers'[Len(answers')] = i
  <2>1. answers \in Seq(settled') /\ i \in settled'
    BY <1>7, WiderType DEF TypeOK
  <2> QED
    BY <1>7, <2>1, AppendType
<1>9. TypeOK'
  BY <1>4, <1>5, <1>6, <1>7, <1>8 DEF TypeOK, colourVars
<1>10. LastAnswer'
  BY <1>1, <1>5, <1>8 DEF LastAnswer, updateDatasets
<1>11. Plotted'
  BY <1>4, <1>5 DEF TypeOK, Plots, Plotted, replotData, Sound
<1>12. ~Quiet'
  BY <1>5, <1>8 DEF Quiet, TypeOK
<1> QED
  BY <1>9, <1>10, <1>11, <1>12 DEF Finished

LEMMA FailInv ==
  ASSUME PageInv, NEW i \in 1..Len(loads), Fail(i)
  PROVE  PageInv'
<1>1. settled \subseteq settled' /\ settled' \subseteq 1..Len(loads) /\ answers \in Seq(settled)
  BY DEF PageInv, TypeOK, Fail
<1>2. answers \in Seq(settled')
  BY <1>1, WiderType
<1>3. TypeOK'
  BY <1>1, <1>2 DEF PageInv, TypeOK, Fail, colourVars
<1> QED
  BY <1>3 DEF PageInv, LastAnswer, Plotted, Finished, Quiet, Sound, Fail, colourVars

LEMMA ContinueInv ==
  ASSUME PageInv, Continue
  PROVE  PageInv'
<1> USE DEF PageInv
<1> DEFINE pass == loads[answers[continued + 1]].pass
           labelled == setLabels(plot, pass.axes)
<1>1. continued + 1 \in 1..Len(answers) /\ continued' = continued + 1
  BY DEF TypeOK, Continue
<1>2. answers[continued + 1] \in 1..Len(loads) /\ pass \in Selections
  <2>1. answers[continued + 1] \in 1..Len(loads)
    BY <1>1, ElementType DEF TypeOK
  <2>2. loads[answers[continued + 1]] \in [pass : Selections, at : Clock]
    BY <2>1, ElementType DEF TypeOK
  <2> QED
    BY <2>1, <2>2
<1>3. UNCHANGED <<requestVars, answers, dataset, figure_settings_values>>
  BY DEF Continue
<1>4. labelled \in Plots
  BY <1>2, NamesType DEF TypeOK, Plots, setLabels
<1>5. Quiet' => pass = loads[dataset.of].pass
  BY <1>1, <1>3 DEF TypeOK, LastAnswer, Quiet
<1>6. PICK lims \in LimitChoices :
        IF ColoursRaise(lims, dataset.columns)
        THEN UNCHANGED colourVars /\ plot' = labelled
        ELSE updateColourProperties(lims) /\ plot' = setColourbar(labelled, pass.data)
  BY DEF Continue, Passed
<1>7. CASE ColoursRaise(lims, dataset.columns)
  <2>1. TypeOK'
    <3>1. plot' = labelled /\ UNCHANGED colourVars /\ continued' \in 0..Len(answers)
      BY <1>1, <1>6, <1>7 DEF TypeOK
    <3> QED
      BY <1>3, <1>4, <3>1 DEF TypeOK, requestVars, colourVars
  <2>2. ~Sound
    BY <1>7 DEF ColoursRaise, Sound
  <2> QED
    BY <1>1, <1>3, <1>5, <1>6, <1>7, <2>1, <2>2
    DEF LastAnswer, Plotted, Finished, Quiet, Sound, requestVars, TypeOK, Plots, setLabels
<1>8. CASE ~ColoursRaise(lims, dataset.columns)
  <2>1. colour_properties' \in [Ships -> Scale] /\ limits' = lims
    BY <1>6, <1>8, ColoursType DEF updateColourProperties
  <2>2. plot' = setColourbar(labelled, pass.data)
    BY <1>6, <1>8
  <2>3. plot' \in Plots
    BY <1>2, <1>4, <2>1, <2>2, NamesType DEF Plots, setColourbar
  <2>4. TypeOK'
    BY <1>1, <1>3, <2>1, <2>3 DEF TypeOK, requestVars
  <2>5. LastAnswer'
    BY <1>3 DEF LastAnswer, requestVars
  <2>6. Plotted'
    BY <1>3, <2>2 DEF TypeOK, Plots, Plotted, Sound, setColourbar, setLabels
  <2>7. Sound => colour_properties' = Scales(limits', dataset.name, dataset.columns)
    BY <1>6, <1>8 DEF updateColourProperties, Known, Sound
  <2>8. Finished'
    BY <1>3, <1>5, <2>2, <2>7 DEF TypeOK, Plots, Finished, Sound, setColourbar, setLabels, requestVars
  <2> QED
    BY <2>4, <2>5, <2>6, <2>8
<1> QED
  BY <1>7, <1>8

LEMMA ApplyInv ==
  ASSUME PageInv, applyChanges
  PROVE  PageInv'
<1> USE DEF PageInv
<1>1. UNCHANGED <<requestVars, answers, continued, dataset>> /\ figure_settings_values' \in Settings
  BY DEF applyChanges, updateFigureSettings
<1>2. PICK lims \in LimitChoices :
        IF ColoursRaise(lims, dataset.columns)
        THEN UNCHANGED <<colourVars, plot>>
        ELSE updateColourProperties(lims) /\ modifyAxesProperties
  BY DEF applyChanges
<1>3. CASE ColoursRaise(lims, dataset.columns)
  BY <1>1, <1>2, <1>3
  DEF TypeOK, LastAnswer, Plotted, Finished, Quiet, Sound, requestVars, colourVars
<1>4. CASE ~ColoursRaise(lims, dataset.columns)
  <2>1. colour_properties' \in [Ships -> Scale] /\ limits' = lims
    BY <1>2, <1>4, ColoursType DEF updateColourProperties
  <2>2. plot' = [plot EXCEPT !.scale = colour_properties', !.figure = figure_settings_values']
    BY <1>2, <1>4 DEF modifyAxesProperties
  <2>3. TypeOK'
    BY <1>1, <2>1, <2>2 DEF TypeOK, Plots, requestVars
  <2>4. LastAnswer' /\ Plotted'
    BY <1>1, <2>2 DEF TypeOK, Plots, LastAnswer, Plotted, Sound, requestVars
  <2>5. Sound => colour_properties' = Scales(limits', dataset.name, dataset.columns)
    BY <1>2, <1>4 DEF updateColourProperties, Known, Sound
  <2>6. Finished'
    BY <1>1, <2>2, <2>5 DEF TypeOK, Plots, Finished, Quiet, Sound, requestVars
  <2> QED
    BY <2>3, <2>4, <2>6
<1> QED
  BY <1>3, <1>4

LEMMA StepInv == PageInv /\ [Next]_vars => PageInv'
<1> SUFFICES ASSUME PageInv, [Next]_vars PROVE PageInv'
  OBVIOUS
<1>1. CASE \E pass \in Selections, now \in Clock : loadData(pass, now)
  BY <1>1, LoadInv
<1>2. CASE \E i \in 1..Len(loads) : Answer(i) \/ Fail(i)
  BY <1>2, AnswerInv, FailInv
<1>3. CASE Continue
  BY <1>3, ContinueInv
<1>4. CASE applyChanges
  BY <1>4, ApplyInv
<1>5. CASE UNCHANGED vars
  BY <1>5 DEF vars, requestVars, colourVars, PageInv, TypeOK, LastAnswer, Plotted, Finished, Quiet, Sound
<1> QED
  BY <1>1, <1>2, <1>3, <1>4, <1>5 DEF Next

LEMMA PageInvariant == Spec => []PageInv
BY InitInv, StepInv, PTL DEF Spec

\* The state of the page keeps its type.
THEOREM PageTypeCorrect == Spec => []TypeOK
<1>1. PageInv => TypeOK
  BY DEF PageInv
<1> QED
  BY <1>1, PageInvariant, PTL

\* However loads overlap, a plot at rest whose last answer held data shows that
\* answer under its own names, labels and colour bars.
THEOREM ShowsOneAnswer == Spec => []PlotIsOneAnswer
BY PageInvariant, InvOneAnswer, PTL

\* And its colours fit the data, whatever was typed and applied in between.
THEOREM ColoursFit == Spec => []ColoursFitData
BY PageInvariant, InvColours, PTL

------------------------------------------------------------------------------
(* Rows counted and rows found *)

LEMMA Quotient ==
  ASSUME NEW a \in Nat, NEW r \in Nat \ {0}
  PROVE  /\ a \div r \in Nat /\ a % r \in 0..(r - 1)
         /\ a = r * (a \div r) + (a % r)
OBVIOUS

LEMMA Multiples ==
  ASSUME NEW p \in Int, NEW q \in Int, NEW r \in Nat \ {0}
  PROVE  /\ r * p < r * q => p < q
         /\ r * (p + q) = r * p + r * q
         /\ r * (p + 1) = r * p + r
<1>1. p >= q => r * p >= r * q
  OBVIOUS
<1>2. r * (p + q) = r * p + r * q /\ r * (p + 1) = r * p + r /\ r * p \in Int /\ r * q \in Int
  OBVIOUS
<1> QED BY <1>1, <1>2

\* From S to E there is at most one multiple of r more than r goes into E - S.
LEMMA FewMultiples ==
  ASSUME NEW S \in Nat, NEW E \in Nat, S <= E, NEW r \in Nat \ {0},
         NEW T, \A t \in T : t \in Nat /\ S <= t /\ t <= E /\ t % r = 0
  PROVE  IsFiniteSet(T) /\ Cardinality(T) <= (E - S) \div r + 1
<1> DEFINE d == (E - S) \div r
           f == (S + r - 1) \div r
           n == f + d
           g == [t \in T |-> t \div r]
<1>1. E - S \in Nat /\ S + r - 1 \in Nat
  OBVIOUS
<1>2. d \in Nat /\ (E - S) % r \in 0..(r - 1) /\ E - S = r * d + ((E - S) % r)
  BY <1>1, Quotient
<1>3. f \in Nat /\ (S + r - 1) % r \in 0..(r - 1) /\ S + r - 1 = r * f + ((S + r - 1) % r)
  BY <1>1, Quotient
<1> HIDE DEF d, f
<1>4. r * d \in Int /\ r * f \in Int /\ E - S < r * d + r /\ S <= r * f /\ r * f <= S + r - 1
  <2>1. r * d \in Int /\ r * f \in Int
    BY <1>2, <1>3
  <2> QED BY <1>1, <1>2, <1>3, <2>1
<1>5. n \in Nat /\ r * (n + 1) = r * f + r * d + r
  BY <1>2, <1>3
<1> HIDE DEF n
<1>6. ASSUME NEW t \in T
      PROVE  t \div r \in f..n /\ t = r * (t \div r)
  <2> DEFINE q == t \div r
  <2>1. t \in Nat /\ S <= t /\ t <= E /\ q \in Nat /\ t = r * q
    <3>1. t \in Nat /\ S <= t /\ t <= E /\ t % r = 0
      OBVIOUS
    <3>2. q \in Nat /\ t = r * q + (t % r)
      BY <3>1, Quotient
    <3>3. r * q \in Int
      BY <3>2
    <3> HIDE DEF q
    <3> QED BY <3>1, <3>2, <3>3
  <2> HIDE DEF q
  <2>2. r * f < r * (q + 1)
    BY <1>4, <2>1, Multiples
  <2>3. r * q < r * (n + 1)
    BY <1>4, <1>5, <2>1
  <2>4. f < q + 1 /\ q < n + 1
    <3>1. q + 1 \in Int /\ n + 1 \in Int /\ q \in Int /\ f \in Int
      BY <1>3, <1>5, <2>1
    <3> QED BY <2>2, <2>3, <3>1, Multiples
  <2> QED BY <1>3, <1>5, <2>1, <2>4 DEF q
<1>7. g \in Injection(T, f..n)
  <2>1. g \in [T -> f..n]
    BY <1>6
  <2>2. \A t, u \in T : g[t] = g[u] => t = u
    BY <1>6
  <2> HIDE DEF g
  <2> QED BY <2>1, <2>2 DEF Injection, IsInjective
<1>8. IsFiniteSet(f..n) /\ Cardinality(f..n) = d + 1
  <2>1. f \in Int /\ n \in Int
    BY <1>3, <1>5
  <2>2. IsFiniteSet(f..n) /\ Cardinality(f..n) = IF f > n THEN 0 ELSE n - f + 1
    BY <2>1, FS_Interval
  <2> QED BY <1>2, <1>3, <2>2 DEF n
<1> HIDE DEF g
<1> QED BY <1>7, <1>8, FS_Injection DEF d

\* A request that is allowed finds a row more than was counted at most.
LEMMA RowsCounted ==
  ASSUME NEW pass \in Selections, NEW now \in Clock,
         validateNumberDatapoints(computeNumberDatapoints(pass, now)),
         Empty \notin {pass.start, pass.end}, pass.start >= CRUISE_START_TIME
  PROVE  NumberOfVariables(pass) * (Cardinality(Rows(pass, now)) - 1) <= MAX_NUMBER_DATAPOINTS
<1> DEFINE S == pass.start
           E == EndTime(pass, now)
           r == pass.resolution
           N == NumberOfVariables(pass)
           c == RowsRequested(pass, now)
           k == Cardinality(Rows(pass, now))
<1>1. S \in Nat /\ pass.end \in Nat /\ r \in Nat \ {0} /\ now \in Nat
  BY ControlsAssumption
<1>2. StartTime(pass) = S
  BY <1>1, LimitsAssumption DEF StartTime
<1>3. E \in Nat /\ E <= now /\ E <= pass.end /\ (E = now \/ E = pass.end)
  BY <1>1 DEF EndTime
<1>4. c = Truncated(E - S, r)
  BY <1>2 DEF RowsRequested
<1>5. N \in Nat
  <2>1. {s \in Ships : pass.data[s] # None} \in SUBSET Ships /\ IsFiniteSet(Ships)
    <3>1. IsFiniteSet({"PE"}) /\ {"PE"} \union {"PS"} = Ships
      BY FS_Singleton DEF Ships
    <3> QED BY <3>1, FS_AddElement
  <2>2. IsFiniteSet({s \in Ships : pass.data[s] # None})
    BY <2>1, FS_Subset
  <2>3. Cardinality({s \in Ships : pass.data[s] # None}) \in Nat
    BY <2>2, FS_CardinalityType
  <2> QED BY <2>3 DEF NumberOfVariables
<1>6. 0 < N * c /\ N * c <= MAX_NUMBER_DATAPOINTS
  BY DEF validateNumberDatapoints, computeNumberDatapoints
<1> HIDE DEF N, c
<1>7. S <= E
  <2> SUFFICES ASSUME S > E PROVE FALSE
    BY <1>1, <1>3
  <2>1. S - E \in Nat /\ ~(E - S >= 0) /\ -(E - S) = S - E
    BY <1>1, <1>3
  <2>2. (S - E) \div r \in Nat /\ c = -((S - E) \div r)
    BY <1>1, <1>4, <2>1, Quotient DEF Truncated
  <2>3. N * c <= 0
    BY <1>5, <2>2
  <2> QED BY <1>5, <1>6, <2>2, <2>3
<1>8. c = (E - S) \div r /\ c \in Nat
  <2>1. E - S \in Nat /\ E - S >= 0
    BY <1>1, <1>3, <1>7
  <2> QED BY <1>1, <1>4, <2>1, Quotient DEF Truncated
<1>9. k <= c + 1 /\ k \in Nat
  <2>1. \A t \in Rows(pass, now) : t \in Nat /\ S <= t /\ t <= E /\ t % r = 0
    BY <1>1, <1>3 DEF Rows
  <2> DEFINE T == Rows(pass, now)
  <2> HIDE DEF T, S, E, r
  <2>2. IsFiniteSet(T) /\ Cardinality(T) <= (E - S) \div r + 1
    BY <1>1, <1>3, <1>7, <2>1, FewMultiples DEF T
  <2> QED BY <1>8, <2>2, FS_CardinalityType DEF T
<1> HIDE DEF k
<1>10. N * (k - 1) <= N * c
  BY <1>5, <1>8, <1>9
<1>11. N * c \in Int /\ N * (k - 1) \in Int /\ MAX_NUMBER_DATAPOINTS \in Int
  BY <1>5, <1>8, <1>9, LimitsAssumption
<1>12. N * (k - 1) <= MAX_NUMBER_DATAPOINTS
  BY <1>6, <1>10, <1>11
<1> QED BY <1>12 DEF N, k

\* The requests sent are the ones that were allowed.
Allowed ==
  \A i \in 1..Len(loads) :
    validateNumberDatapoints(computeNumberDatapoints(loads[i].pass, loads[i].at))

LEMMA AllowedStep ==
  ASSUME PageInv, Allowed, [Next]_vars
  PROVE  Allowed'
<1>1. loads \in Seq([pass : Selections, at : Clock])
  BY DEF PageInv, TypeOK
<1>2. ASSUME NEW pass \in Selections, NEW now \in Clock, loadData(pass, now) PROVE Allowed'
  <2> DEFINE load == [pass |-> pass, at |-> now]
  <2>1. CASE loads' = loads
    BY <2>1 DEF Allowed
  <2>2. CASE loads' = Append(loads, load)
                /\ validateNumberDatapoints(computeNumberDatapoints(load.pass, load.at))
    <3>1. load \in [pass : Selections, at : Clock]
      OBVIOUS
    <3> HIDE DEF load
    <3>2. /\ Len(loads') = Len(loads) + 1 /\ loads'[Len(loads) + 1] = load
          /\ \A i \in 1..Len(loads) : loads'[i] = loads[i]
      BY <1>1, <2>2, <3>1, AppendType
    <3>3. \A i \in 1..Len(loads') : i \in 1..Len(loads) \/ i = Len(loads) + 1
      BY <1>1, <3>2
    <3> QED BY <2>2, <3>2, <3>3 DEF Allowed
  <2> QED BY <1>2, <2>1, <2>2 DEF loadData
<1>3. ASSUME UNCHANGED loads PROVE Allowed'
  BY <1>3 DEF Allowed
<1>4. UNCHANGED loads \/ \E pass \in Selections, now \in Clock : loadData(pass, now)
  BY DEF Next, Answer, Fail, Continue, applyChanges, vars, requestVars
<1> QED BY <1>2, <1>3, <1>4

\* What is loaded passes the maximum by a row at most, for every maximum, clock
\* and resolution, unless it begins before the cruise (hovmoller_load_data.js 2).
THEOREM LoadsWithinMaximum == Spec => []LoadedWithinMaximum
<1>1. PageInv /\ Allowed => LoadedWithinMaximum
  <2> SUFFICES ASSUME PageInv, Allowed, NEW i \in 1..Len(loads),
                      Empty \notin {loads[i].pass.start, loads[i].pass.end},
                      loads[i].pass.start >= CRUISE_START_TIME
               PROVE  NumberOfVariables(loads[i].pass) * (Cardinality(Rows(loads[i].pass, loads[i].at)) - 1)
                        <= MAX_NUMBER_DATAPOINTS
    BY DEF LoadedWithinMaximum
  <2>1. loads[i] \in [pass : Selections, at : Clock]
    BY ElementType DEF PageInv, TypeOK
  <2>2. loads[i].pass \in Selections /\ loads[i].at \in Clock
    BY <2>1
  <2>3. validateNumberDatapoints(computeNumberDatapoints(loads[i].pass, loads[i].at))
    BY DEF Allowed
  <2> QED BY <2>2, <2>3, RowsCounted
<1>2. Init => Allowed
  BY DEF Init, Allowed
<1>3. Spec => []Allowed
  BY <1>2, AllowedStep, PageInvariant, PTL DEF Spec
<1> QED BY <1>1, <1>3, PageInvariant, PTL

==============================================================================
