------------------------------- MODULE RhibJoin -------------------------------
(***************************************************************************)
(* RHIB/adcp2nc.py and ctd2nc.py: every ten minutes a timer starts a run   *)
(* for a boat, which joins the rows of an instrument with the navigation   *)
(* rows of nearly their times, again for the last of them, and appends     *)
(* what is joined to a NetCDF file, while rhib2db keeps inserting.         *)
(*                                                                         *)
(* A row is its time.  A joined row is the set of navigation rows that its *)
(* number, latitude and longitude were taken of.                           *)
(***************************************************************************)
EXTENDS Naturals, Sequences, FiniteSets

CONSTANTS
  LastTime,   \* bound: the time of the last row
  Reach,      \* how near times are joined: 10 seconds
  Margin,     \* how far behind the last joined row rows are joined again: 20 seconds
  FileMade,   \* somebody has made the NetCDF file: mkNetCDF raises
  TooWide,    \* rows of more bins than the file has (adcp2nc.py alone)
  MaxFailures \* bound: runs that fail

Times == 1..LastTime

ASSUME TimesAssumption == LastTime \in Nat /\ Reach \in Nat /\ MaxFailures \in Nat
ASSUME MarginAssumption == Margin \in Nat /\ Margin >= 2 * Reach
ASSUME FileAssumption == FileMade \in BOOLEAN /\ TooWide \subseteq Times

VARIABLES
  nav,       \* table rhibNav
  rows,      \* table rhibADCP or rhibCTD
  averaged,  \* table rhibTodo*: what each row was last joined with, {} for none
  last,      \* table rhibTimes*, 0 without an entry
  exported,  \* rows of rhibTodo* with qNetCDF = true
  file,      \* the lines of the NetCDF file
  stage,     \* where the run is
  todo,      \* selected rows that it has not yet written
  tMax,      \* the time of the last it has written, 0 for none
  unsaved,   \* the lines the library holds until the file is closed
  shuffled,  \* history: a row came behind a later one of its table
  unclosed,  \* history: a run was killed between its COMMIT and the close
  failures   \* runs that failed so far

sourceVars == <<nav, rows, shuffled>>
joinVars == <<averaged, last>>
exportVars == <<exported, file, todo, tMax, unsaved, unclosed>>
joinerVars == <<sourceVars, joinVars, exportVars, stage, failures>>

Joined == {t \in Times : averaged[t] # {}}

JoinTypeOK ==
  /\ nav \subseteq Times /\ rows \subseteq Times
  /\ averaged \in [Times -> SUBSET Times] /\ Joined \subseteq rows
  /\ last \in Times \union {0} /\ exported \subseteq Joined
  /\ file \in Seq([t : Times, of : SUBSET Times])
  /\ stage \in {"idle", "join", "select", "write", "flag", "close"}
  /\ todo \subseteq Times /\ tMax \in Times \union {0}
  /\ unsaved \in Seq([t : Times, of : SUBSET Times])
  /\ shuffled \in BOOLEAN /\ unclosed \in BOOLEAN /\ failures \in Nat

JoinInit ==
  /\ nav = {} /\ rows = {} /\ shuffled = FALSE
  /\ averaged = [t \in Times |-> {}] /\ last = 0
  /\ exported = {} /\ file = <<>> /\ todo = {} /\ tMax = 0 /\ unsaved = <<>>
  /\ stage = "idle" /\ unclosed = FALSE /\ failures = 0

------------------------------------------------------------------------------
(* rhib2db commits a row. *)

Behind(t, S) == \E s \in S : t < s

InsertNav(t) ==
  /\ t \notin nav /\ nav' = nav \union {t}
  /\ shuffled' = (shuffled \/ Behind(t, nav))
  /\ UNCHANGED <<rows, joinVars, exportVars, stage, failures>>

InsertRow(t) ==
  /\ t \notin rows /\ rows' = rows \union {t}
  /\ shuffled' = (shuffled \/ Behind(t, rows))
  /\ UNCHANGED <<nav, joinVars, exportVars, stage, failures>>

------------------------------------------------------------------------------
(* One run *)

StartRun ==
  /\ stage = "idle" /\ FileMade /\ stage' = "join"
  /\ UNCHANGED <<sourceVars, joinVars, exportVars, failures>>

Near(t) == {s \in nav : s <= t + Reach /\ t <= s + Reach}

\* Rows that are joined, or joined anew, after a run that reached l.
Window(l) == {t \in rows : l < t + Margin /\ Near(t) # {}}

\* The greatest of S, or 0.
Latest(S) == {t \in S \union {0} : \A s \in S : s <= t}

\* Mutant: only rows behind the last are joined.
JoinOnce ==
  /\ stage = "join" /\ stage' = "select"
  /\ averaged' = [t \in Times |-> IF t \in Window(last) /\ last < t THEN Near(t) ELSE averaged[t]]
  /\ last' \in Latest(Joined')
  /\ UNCHANGED <<sourceVars, exportVars, failures>>

\* Mutant: rows without navigation rows, of a LEFT JOIN, are taken.
JoinLeft ==
  /\ stage = "join" /\ stage' = "select"
  /\ averaged' = [t \in Times |-> IF last < t + Margin THEN Near(t) ELSE averaged[t]]
  /\ last' \in Latest(Joined')
  /\ UNCHANGED <<sourceVars, exportVars, failures>>

\* INSERT ... ON CONFLICT DO UPDATE, which leaves the flag as it is, and the
\* time of the last row; COMMIT.
Join ==
  /\ stage = "join" /\ stage' = "select"
  /\ averaged' = [t \in Times |-> IF t \in Window(last) THEN Near(t) ELSE averaged[t]]
  /\ last' \in Latest(Joined')
  /\ UNCHANGED <<sourceVars, exportVars, failures>>

\* The join raises: ROLLBACK, a line in the log, and on with the export.
JoinFails ==
  /\ stage = "join" /\ stage' = "select"
  /\ failures < MaxFailures /\ failures' = failures + 1
  /\ UNCHANGED <<sourceVars, joinVars, exportVars>>

\* Mutant: rows are put off until they are not joined again.
SelectFinal ==
  /\ stage = "select" /\ stage' = "write"
  /\ todo' = {t \in Joined \ exported : t + Margin <= last} /\ tMax' = 0
  /\ UNCHANGED <<sourceVars, joinVars, exported, file, unsaved, unclosed, failures>>

Select ==
  /\ stage = "select" /\ stage' = "write"
  /\ todo' = Joined \ exported /\ tMax' = 0
  /\ UNCHANGED <<sourceVars, joinVars, exported, file, unsaved, unclosed, failures>>

Line(t) == [t |-> t, of |-> averaged[t]]

\* Mutant: a line is written over the one before.
WriteOver ==
  /\ stage = "write"
  /\ \E t \in todo \ TooWide :
       /\ \A s \in todo : t <= s
       /\ tMax' = t /\ todo' = todo \ {t}
       /\ unsaved' = <<Line(t)>>
  /\ UNCHANGED <<sourceVars, joinVars, exported, file, unclosed, stage, failures>>

\* The next row in time is appended.
Write ==
  /\ stage = "write"
  /\ \E t \in todo \ TooWide :
       /\ \A s \in todo : t <= s
       /\ tMax' = t /\ todo' = todo \ {t}
       /\ unsaved' = Append(unsaved, Line(t))
  /\ UNCHANGED <<sourceVars, joinVars, exported, file, unclosed, stage, failures>>

\* The process ends, and its variables with it.
EndRun == stage' = "idle" /\ todo' = {} /\ tMax' = 0

\* The file is closed and with it saved.
Save == file' = file \o unsaved /\ unsaved' = <<>> /\ EndRun

\* A row too wide raises as half of its line is written, in every run again;
\* leaving the with statement closes the file.
WriteRaises ==
  /\ stage = "write" /\ failures < MaxFailures /\ failures' = failures + 1
  /\ \E t \in todo \intersect TooWide :
       /\ \A s \in todo : t <= s
       /\ file' = file \o Append(unsaved, Line(t))
  /\ unsaved' = <<>> /\ EndRun
  /\ UNCHANGED <<sourceVars, joinVars, exported, unclosed>>

\* UPDATE ... SET qNetCDF=true WHERE t<=tMax AND qNetCDF=false; COMMIT.
Flag ==
  /\ stage = "write" /\ todo = {} /\ stage' = "close"
  /\ exported' = exported \union {t \in Joined : t <= tMax}
  /\ UNCHANGED <<sourceVars, joinVars, file, todo, tMax, unsaved, unclosed, failures>>

Close ==
  /\ stage = "close" /\ Save
  /\ UNCHANGED <<sourceVars, joinVars, exported, unclosed, failures>>

\* A statement or a write raises.
Raise ==
  /\ stage = "write" /\ failures < MaxFailures /\ failures' = failures + 1
  /\ Save
  /\ UNCHANGED <<sourceVars, joinVars, exported, unclosed>>

\* The process is killed; of the unsaved lines the first may be in the file.
Kill ==
  /\ stage # "idle" /\ failures < MaxFailures /\ failures' = failures + 1
  /\ \E n \in 0..Len(unsaved) : file' = file \o SubSeq(unsaved, 1, n)
  /\ unsaved' = <<>> /\ EndRun
  /\ unclosed' = (unclosed \/ stage = "close")
  /\ UNCHANGED <<sourceVars, joinVars, exported>>

------------------------------------------------------------------------------
JoinRun == StartRun \/ Join \/ Select \/ Write \/ Flag \/ Close

JoinNext ==
  \/ \E t \in Times : InsertNav(t) \/ InsertRow(t)
  \/ JoinRun \/ JoinFails \/ WriteRaises \/ Raise \/ Kill

JoinSpec == JoinInit /\ [][JoinNext]_joinerVars

\* The timer fires again and again, and a run that does not fail ends.
FairJoinSpec == JoinSpec /\ WF_joinerVars(JoinRun)

------------------------------------------------------------------------------
(* Properties *)

\* A row behind the margin, which no run will join again, has been joined with
\* every navigation row within reach there ever will be: the margin of 20
\* seconds (line 63) is enough for the reach of 10 (60-61), as long as the rows
\* of each table come in the order of their times, and however the two tables
\* lag behind each other.
JoinedIsFinal ==
  shuffled \/ \A t \in rows : t + Margin <= last => averaged[t] = Near(t)

AllLines == {file[i] : i \in 1..Len(file)} \union {unsaved[i] : i \in 1..Len(unsaved)}

\* A flagged row, which no run will write again, has its line, unless a run was
\* killed with its flags committed and its file open (172-174).  The line may
\* be out of date, as a row that is joined anew keeps its flag (67-70), but
\* then lacks only navigation rows later than those it has.
FlaggedIsInFile ==
  /\ unclosed \/ \A t \in exported : \E l \in AllLines : l.t = t
  /\ \A l \in AllLines :
       /\ l.of # {} /\ l.of \subseteq Near(l.t)
       /\ shuffled \/ \A s \in Near(l.t) \ l.of, r \in l.of : r < s

\* A row within reach of a navigation row reaches the file, once there is one.
EventuallyInFile ==
  \A t \in Times :
    (t \in rows /\ Near(t) # {})
      ~> (shuffled \/ unclosed \/ Joined \intersect TooWide # {} \/ \E l \in AllLines : l.t = t)

==============================================================================
