------------------------------ MODULE CsvExport ------------------------------
(***************************************************************************)
(* MET/db2csv.py: every hour a timer starts a run that flags the fresh     *)
(* rows of table met and appends them to a CSV file, in one transaction    *)
(* that the file takes no part in; and MET/rebuild.todos.sh, which deletes *)
(* rows and file and has both made again.                                  *)
(*                                                                         *)
(* The rows are those of the ship the decimation keeps; row t is the t-th. *)
(* A line of the file is Header, a row, or what a line becomes that was    *)
(* appended to part of another.                                            *)
(***************************************************************************)
EXTENDS Naturals, Sequences, FiniteSets

CONSTANTS
  MaxTime,     \* bound: rows recorded
  InOrder,     \* rows arrive in order
  MayRebuild,  \* the operator runs rebuild.todos.sh, at most once
  MaxFaults,   \* bound: runs that break
  Bad,         \* a line of more fields than the header has
  Forged,      \* a row whose time is made of two
  Unreadable   \* the same, when that is no time at all

Times == 1..MaxTime
Header == 0
Glued == {Bad, Forged, Unreadable}
Lines == {Header} \union Times \union Glued

ASSUME NumbersAssumption == MaxTime \in Nat /\ MaxFaults \in Nat
ASSUME ChoicesAssumption == InOrder \in BOOLEAN /\ MayRebuild \in BOOLEAN
ASSUME GluedAssumption == Glued \intersect Nat = {} /\ Cardinality(Glued) = 3

VARIABLES
  recorded,    \* rows that have ever reached met: the instruments' files have them
  fresh,       \* rows with qCSV = false
  flagged,     \* rows with qCSV = true
  csv,         \* the lines of the CSV file
  csvFile,     \* the CSV file exists
  part,        \* how far the part of a line reaches at its end, left by a broken run
  pc,          \* where the run is
  pending,     \* rows flagged by its open transaction
  todo,        \* those that it has not yet written
  linked,      \* the file it has open is the CSV file
  script,      \* where rebuild.todos.sh is
  disorder,    \* history: a row arrived out of order
  overlap,     \* history: a run was under way as the script deleted the rows
  rearranged,  \* history: the file the script removed was not in order
  headless,    \* history: a file was begun without a header
  tears,       \* history: lines broken off
  faults       \* broken runs so far

tableVars == <<recorded, fresh, flagged, disorder>>
fileVars == <<csv, csvFile, part, headless, tears>>
runVars == <<pc, pending, todo, linked>>
opVars == <<script, overlap, rearranged>>
exportVars == <<tableVars, fileVars, runVars, opVars, faults>>

ExportTypeOK ==
  /\ recorded \subseteq Times /\ fresh \subseteq Times /\ flagged \subseteq Times
  /\ csv \in Seq(Lines) /\ csvFile \in BOOLEAN
  /\ part \in {"none", "first", "later"}
  /\ pc \in {"idle", "checked", "writing"}
  /\ pending \subseteq Times /\ todo \subseteq Times /\ linked \in BOOLEAN
  /\ script \in {"none", "stopped", "reloading", "removed", "done"}
  /\ disorder \in BOOLEAN /\ overlap \in BOOLEAN
  /\ rearranged \in BOOLEAN /\ headless \in BOOLEAN
  /\ tears \in Nat /\ faults \in Nat

ExportInit ==
  /\ recorded = {} /\ fresh = {} /\ flagged = {}
  /\ csv = <<>> /\ csvFile = FALSE /\ part = "none"
  /\ pc = "idle" /\ pending = {} /\ todo = {} /\ linked = FALSE
  /\ script = "none"
  /\ disorder = FALSE /\ overlap = FALSE /\ rearranged = FALSE /\ headless = FALSE
  /\ tears = 0 /\ faults = 0

------------------------------------------------------------------------------
(* met2db commits a row. *)

Rows == fresh \union flagged

NextRow == Cardinality(Rows) + 1

Insert(t) ==
  /\ script # "stopped" /\ t \notin Rows
  /\ InOrder => t = NextRow
  /\ recorded' = recorded \union {t}
  /\ fresh' = fresh \union {t}
  /\ disorder' = (disorder \/ t # NextRow)
  /\ UNCHANGED <<flagged, fileVars, runVars, opVars, faults>>

\* met2db reads the instruments' files again.
Reload == \E t \in recorded : Insert(t)

------------------------------------------------------------------------------
(* One run of db2csv.py *)

\* Mutant: the file is begun and its header forgotten.
BeginRunBare ==
  /\ pc = "idle" /\ pc' = "checked"
  /\ csvFile' = TRUE
  /\ UNCHANGED <<tableVars, csv, part, headless, tears, pending, todo, linked, faults>>

\* The service starts; a file that is not there is begun with its header.
BeginRun ==
  /\ pc = "idle" /\ pc' = "checked"
  /\ csvFile' = TRUE
  /\ csv' = IF csvFile THEN csv ELSE <<Header>>
  /\ UNCHANGED <<tableVars, part, headless, tears, pending, todo, linked, faults>>

\* The script stops the timer and starts it again.
Timer == script \in {"none", "done"}

Start == Timer /\ BeginRun /\ UNCHANGED opVars

\* The file is made and its header cannot be written.
StartBreaks ==
  /\ Timer /\ pc = "idle" /\ ~csvFile
  /\ faults < MaxFaults /\ faults' = faults + 1
  /\ csvFile' = TRUE /\ headless' = TRUE
  /\ UNCHANGED <<tableVars, csv, part, tears, runVars, opVars>>

\* Mutant: the statement does not ask for qCSV=false.
UpdateAll ==
  /\ pc = "checked" /\ pc' = "writing"
  /\ pending' = Rows /\ todo' = Rows
  /\ linked' = TRUE /\ csvFile' = TRUE
  /\ headless' = (headless \/ ~csvFile)
  /\ UNCHANGED <<tableVars, csv, part, tears, opVars, faults>>

\* UPDATE ... RETURNING flags the fresh rows, out of sight until the COMMIT;
\* open "a" makes a file if the script has removed it since BeginRun.
Update ==
  /\ pc = "checked" /\ pc' = "writing"
  /\ pending' = fresh /\ todo' = fresh
  /\ linked' = TRUE /\ csvFile' = TRUE
  /\ headless' = (headless \/ ~csvFile)
  /\ UNCHANGED <<tableVars, csv, part, tears, opVars, faults>>

\* What row t becomes behind what the file ends with.  Within the first field
\* the number of fields is right and two times are one.
Written(t) ==
  CASE part = "none" -> {t}
    [] part = "first" -> {Forged, Unreadable}
    [] part = "later" -> {Bad}

\* The next line reaches the file; one that has been removed grows unseen.
Write ==
  /\ pc = "writing"
  /\ \E t \in todo :
       /\ \A s \in todo : t <= s
       /\ todo' = todo \ {t}
       /\ IF linked THEN (\E l \in Written(t) : csv' = Append(csv, l)) /\ part' = "none"
                    ELSE UNCHANGED <<csv, part>>
  /\ UNCHANGED <<tableVars, csvFile, headless, tears, pc, pending, linked, opVars, faults>>

\* Mutant: every row there is now is flagged.
CommitAll ==
  /\ pc = "writing" /\ todo = {}
  /\ fresh' = {} /\ flagged' = Rows
  /\ pc' = "idle" /\ pending' = {} /\ linked' = FALSE
  /\ UNCHANGED <<recorded, disorder, fileVars, todo, opVars, faults>>

Commit ==
  /\ pc = "writing" /\ todo = {}
  /\ fresh' = fresh \ pending /\ flagged' = flagged \union pending
  /\ pc' = "idle" /\ pending' = {} /\ linked' = FALSE
  /\ UNCHANGED <<recorded, disorder, fileVars, todo, opVars, faults>>

\* The run dies, or an exception rolls it back: what it has written stays, and
\* perhaps part of the next line.
Break ==
  /\ pc # "idle" /\ faults < MaxFaults /\ faults' = faults + 1
  /\ pc' = "idle" /\ pending' = {} /\ todo' = {} /\ linked' = FALSE
  /\ \/ UNCHANGED <<part, tears>>
     \/ /\ todo # {} /\ linked
        /\ part' \in (IF part = "later" THEN {} ELSE {"first"}) \union {"later"}
        /\ tears' = IF part = "none" THEN tears + 1 ELSE tears
  /\ UNCHANGED <<tableVars, csv, csvFile, headless, opVars>>

------------------------------------------------------------------------------
(* rebuild.todos.sh, one command after the other *)

\* It stops met2db and the timer: not a run that is under way.
StopUnits ==
  /\ MayRebuild /\ script = "none" /\ script' = "stopped"
  /\ UNCHANGED <<tableVars, fileVars, runVars, overlap, rearranged, faults>>

\* DELETE, which waits for a transaction that has flagged rows; met2db starts.
DeleteRows ==
  /\ script = "stopped" /\ script' = "reloading"
  /\ pending = {}
  /\ fresh' = {} /\ flagged' = {}
  /\ overlap' = (pc # "idle")
  /\ UNCHANGED <<recorded, disorder, fileVars, runVars, rearranged, faults>>

RemoveFile ==
  /\ script = "reloading" /\ script' = "removed"
  /\ csv' = <<>> /\ csvFile' = FALSE /\ part' = "none" /\ linked' = FALSE
  /\ rearranged' = \E i \in 1..Len(csv) : csv[i] # i - 1
  /\ UNCHANGED <<tableVars, headless, tears, pc, pending, todo, overlap, faults>>

\* systemctl start of the service (which a running one absorbs) and the timer.
StartUnits ==
  /\ script = "removed" /\ script' = "done"
  /\ UNCHANGED <<overlap, rearranged>>
  /\ IF pc = "idle" THEN BeginRun ELSE UNCHANGED <<tableVars, fileVars, runVars, faults>>

------------------------------------------------------------------------------
Run == Start \/ Update \/ Write \/ Commit

Script == DeleteRows \/ RemoveFile \/ StartUnits

Export == (\E t \in Times : Insert(t)) \/ Run \/ StartBreaks \/ Break \/ StopUnits \/ Script

InCsv(t) == \E i \in 1..Len(csv) : csv[i] = t

\* A flagged row is a line of the file, but for one row for each line that was
\* broken off: the flag is all a later run looks at (db2csv.py 3: "Output
\* fresh database records to a CSV file").  Rows that arrive while a run
\* writes, in any order, are not flagged by it.  Only a run under way as the
\* script deletes the rows loses more.
LostToTears == overlap \/ Cardinality({t \in flagged : ~InCsv(t)}) <= tears

\* A row is repeated only when a run broke after it was written, or was loaded
\* again by the script, and then once each time.
RepeatedByBreaks ==
  \A t \in Times :
    Cardinality({i \in 1..Len(csv) : csv[i] = t}) <= 1 + faults + (IF overlap THEN 1 ELSE 0)

==============================================================================
