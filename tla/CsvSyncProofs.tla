---------------------------- MODULE CsvSyncProofs ----------------------------
(***************************************************************************)
(* Theorems about CsvSync, for any number of rows, faults and crashes.     *)
(*                                                                         *)
(* Inv is inductive.  That the other ship skips nothing rests on Reader:   *)
(* the copy is the beginning of the file, or the beginning of the file the *)
(* script removed; in the latter the lines are where they were, which is   *)
(* what InSequence knows of the new file.  That the flags lose little      *)
(* rests on Balanced, which counts a row as lost as soon as it is taken;   *)
(* that rows are repeated by broken runs alone, on Repeats beside Inv.     *)
(***************************************************************************)
EXTENDS CsvSync, FiniteSetTheorems, TLAPS

------------------------------------------------------------------------------
(* The inductive invariant *)

\* What is there and what a run that is under way has open.
Files ==
  /\ ~csvFile => csv = <<>>
  /\ ~copyFile => copy = <<>>
  /\ linked => csvFile
  /\ pc # "writing" => pending = {} /\ todo = {} /\ ~linked
  /\ todo \subseteq pending
  /\ \A i \in 1..Len(csv) : csv[i] = Header => i = 1
  /\ \A i \in 1..Len(copy) : copy[i] = Header => i = 1

\* Without a file begun bare, every file has its header and metsync knows it.
Headed ==
  ~headless =>
    /\ csvFile => Len(csv) > 0 /\ csv[1] = Header
    /\ copyFile => Len(copy) > 0 /\ copy[1] = Header
    /\ header \in {None, Header}
    /\ header = Header => position = IF fpos = 0 THEN 1 ELSE fpos

\* Without an overlap, nothing is exported from the DELETE to the new file.
Scripted ==
  /\ script \in {"none", "stopped"} => ~overlap
  /\ ~Rebuilt => ~rearranged
  /\ ~overlap =>
       /\ script \in {"reloading", "removed"} => pc = "idle" /\ flagged = {}
       /\ pc = "writing" => linked

\* Rows that came in order are flagged and written in order.
InSequence ==
  ~(overlap \/ headless \/ disorder) =>
    /\ \A t \in Rows, s \in Times : s < t => s \in Rows
    /\ \A t \in flagged, s \in Times : s < t => s \in flagged
    /\ \A t \in pending, s \in Times : s < t => s \in flagged \union pending
    /\ \A t \in flagged \union (pending \ todo) : t < Len(csv)
    /\ \A i \in 1..Len(csv) : csv[i] \in Times => csv[i] < i

\* The copy is the beginning of the file, and of the file nothing behind the
\* position is missing ...
Current ==
  /\ Len(copy) <= Len(csv) /\ \A i \in 1..Len(copy) : copy[i] = csv[i]
  /\ \A i \in 1..Len(csv) : i <= fpos /\ csv[i] \in Times => csv[i] \in met

\* ... or it is of the file the script removed.
Earlier == fpos <= Len(copy) /\ \A i \in 1..Len(copy) : copy[i] = i - 1

CaughtUp == \A t \in Times : t < fpos => t \in met

Reader ==
  Aligned =>
    IF Rebuilt THEN \/ Current /\ (fpos > Len(csv) => CaughtUp)
                    \/ Earlier /\ CaughtUp
               ELSE Current /\ fpos <= Len(copy)

\* Before a line has been broken off, all lines are whole.
Untorn ==
  tears = 0 =>
    /\ part = "none"
    /\ \A i \in 1..Len(csv) : csv[i] \notin Glued
    /\ \A i \in 1..Len(copy) : copy[i] \notin Glued

Announced == ~Rebuilt => /\ announced => copyFile
                         /\ copyFile => csvFile

\* Rows that no line will show, those of the open transaction included.
Lost == {t \in flagged \union (pending \ todo) : ~InCsv(t)}

Balanced == ~overlap => Cardinality(Lost) + (IF part = "none" THEN 0 ELSE 1) <= tears

\* The lines that show row t.
Places(file, t) == {i \in 1..Len(file) : file[i] = t}

Once == IF overlap THEN 1 ELSE 0

\* Rows that no run will take again unless it is rolled back or the script runs.
Settled == flagged \union (pending \ todo)

\* Fresh rows are not flagged and a run takes fresh rows only.
Apart == fresh \intersect flagged = {} /\ pending \intersect flagged = {}

\* A row that is to be written has been written by broken runs only, or is
\* loaded again while the old file waits for its removal.
Repeats ==
  \A t \in Times :
    /\ Cardinality(Places(csv, t)) <= 1 + faults + Once
    /\ t \notin Settled /\ (overlap \/ script # "reloading") =>
         Cardinality(Places(csv, t)) <= faults + Once

Inv == /\ TypeOK /\ Files /\ Headed /\ Scripted /\ InSequence /\ Reader /\ Untorn
       /\ Announced /\ Balanced /\ EndsForAReason

------------------------------------------------------------------------------

\* What a pass of DB comes to.
LEMMA IngestOutcome ==
  ASSUME Inv, Ingest
  PROVE  \/ Gone /\ (~copyFile \/ Loaded = 0 \/ \E i \in 1..Len(copy) : copy[i] = Unreadable)
         \/ /\ announced' = FALSE
            /\ UNCHANGED <<copyVars, changed, header, position, up, dbVars>>
         \/ /\ announced' = FALSE /\ copyFile /\ Pass(Loaded, HeaderRead) /\ Loaded > 0
            /\ HeaderRead = Header =>
                 \A i \in 1..Len(copy) : Loaded < i => copy[i] # Unreadable
<1> DEFINE raises ==
      \/ ~copyFile \/ Loaded = 0
      \/ /\ HeaderRead = Header
         /\ \E i \in 1..Len(copy) : Loaded < i /\ copy[i] = Unreadable
<1>1. Loaded \in Nat
  BY DEF Inv, TypeOK, SyncTypeOK, Loaded
<1>2. CASE raises
  BY <1>2 DEF Ingest
<1>3. CASE ~raises /\ fpos # 0 /\ fpos = Len(copy)
  BY <1>3 DEF Ingest
<1>4. CASE ~raises /\ ~(fpos # 0 /\ fpos = Len(copy))
  <2>1. announced' = FALSE /\ Pass(Loaded, HeaderRead)
    BY <1>4 DEF Ingest
  <2> QED BY <1>1, <1>4, <2>1
<1> QED BY <1>2, <1>3, <1>4

LEMMA HeaderReadType ==
  ASSUME TypeOK
  PROVE  HeaderRead \in Lines \union {Blank} /\ Loaded \in Nat
<1>1. copy # <<>> => copy[1] \in Lines
  BY DEF TypeOK, SyncTypeOK
<1>2. header # None => HeaderRead \in Lines \union {Blank}
  BY DEF TypeOK, SyncTypeOK, HeaderRead
<1>3. header = None => HeaderRead \in Lines \union {Blank}
  BY <1>1 DEF HeaderRead
<1> QED BY <1>2, <1>3 DEF TypeOK, SyncTypeOK, Loaded

\* What a pass inserts are rows, or what is taken for one.
LEMMA PassType ==
  ASSUME TypeOK, Files, NEW start \in Nat \ {0}, NEW hdr \in Lines \union {Blank}, Pass(start, hdr),
         hdr = Header => \A i \in 1..Len(copy) : start < i => copy[i] # Unreadable
  PROVE  met' \subseteq Times \union {Forged} /\ fpos' \in Nat /\ position' \in Nat
<1>1. Len(copy) \in Nat /\ \A i \in 1..Len(copy) : copy[i] \in Lines
  BY DEF TypeOK, SyncTypeOK
<1>2. CASE hdr = Header
  <2>1. hdr # Bad
    BY <1>2, GluedAssumption DEF Header, Glued
  <2> QED BY <1>1, <1>2, <2>1 DEF Pass, Fits, Lines, Glued, TypeOK, SyncTypeOK, dbVars, Files
<1>3. CASE hdr # Header
  BY <1>1, <1>3 DEF Pass, TypeOK, SyncTypeOK, dbVars
<1> QED BY <1>2, <1>3

LEMMA BeginRunType ==
  ASSUME ExportTypeOK, BeginRun
  PROVE  csv' \in Seq(Lines) /\ pc' = "checked" /\ csvFile' = TRUE
<1>1. Header \in Lines
  BY DEF Lines
<1>2. <<Header>> \in Seq(Lines)
  BY <1>1
<1> QED BY <1>2 DEF BeginRun, ExportTypeOK

\* Every variable keeps its type.
LEMMA ExportTypeStep == Inv /\ [Next]_vars => ExportTypeOK'
<1> SUFFICES ASSUME Inv, [Next]_vars PROVE ExportTypeOK'
  OBVIOUS
<1> USE DEF Inv, TypeOK, ExportTypeOK, exportVars, tableVars, fileVars, runVars, opVars,
      syncVars, copyVars, processVars, dbVars
<1>1. CASE (\E t \in Times : Insert(t)) /\ UNCHANGED syncVars
  <2>1. PICK t \in Times : Insert(t)
    BY <1>1
  <2> QED BY <2>1, <1>1 DEF Insert
<1>2. CASE Start /\ UNCHANGED syncVars
  <2>1. csv' \in Seq(Lines) /\ pc' = "checked" /\ csvFile' = TRUE
    BY <1>2, BeginRunType DEF Start
  <2> QED BY <2>1, <1>2 DEF Start, BeginRun
<1>3. CASE Update /\ UNCHANGED syncVars
  BY <1>3 DEF Update
<1>4. CASE Write /\ UNCHANGED syncVars
  <2>1. PICK t \in todo : /\ todo' = todo \ {t}
                          /\ IF linked THEN /\ \E l \in Written(t) : csv' = Append(csv, l)
                                            /\ part' = "none"
                                       ELSE UNCHANGED <<csv, part>>
    BY <1>4 DEF Write
  <2>2. Written(t) \subseteq Lines
    BY <2>1 DEF Written, Lines, Glued
  <2>3. csv' \in Seq(Lines) /\ part' \in {"none", "first", "later"}
    BY <2>1, <2>2
  <2> QED BY <2>1, <2>3, <1>4 DEF Write
<1>5. CASE Commit /\ UNCHANGED syncVars
  BY <1>5 DEF Commit
<1>6. CASE StartBreaks /\ UNCHANGED syncVars
  BY <1>6 DEF StartBreaks
<1>7. CASE Break /\ UNCHANGED syncVars
  <2>1. part' \in {"none", "first", "later"} /\ tears' \in Nat /\ faults' \in Nat
    BY <1>7 DEF Break
  <2> QED BY <2>1, <1>7 DEF Break
<1>8. CASE StopUnits /\ UNCHANGED syncVars
  BY <1>8 DEF StopUnits
<1>9. CASE DeleteRows /\ UNCHANGED syncVars
  BY <1>9 DEF DeleteRows
<1>10. CASE RemoveFile /\ UNCHANGED syncVars
  <2>1. rearranged' \in BOOLEAN /\ csv' \in Seq(Lines)
    BY <1>10 DEF RemoveFile
  <2> QED BY <2>1, <1>10 DEF RemoveFile
<1>11. CASE StartUnits /\ UNCHANGED syncVars
  <2>1. CASE pc = "idle"
    <3>1. csv' \in Seq(Lines) /\ pc' = "checked" /\ csvFile' = TRUE
      BY <2>1, <1>11, BeginRunType DEF StartUnits
    <3> QED BY <2>1, <3>1, <1>11 DEF StartUnits, BeginRun
  <2>2. CASE pc # "idle"
    BY <2>2, <1>11 DEF StartUnits
  <2> QED BY <2>1, <2>2
<1>12. CASE UNCHANGED exportVars
  BY <1>12 DEF exportVars
<1> QED BY <1>1, <1>2, <1>3, <1>4, <1>5, <1>6, <1>7, <1>8, <1>9, <1>10, <1>11,
      <1>12 DEF Next, Export, Run, Script, Metsync, vars

LEMMA SyncTypeStep == Inv /\ [Next]_vars => SyncTypeOK'
<1> SUFFICES ASSUME Inv, [Next]_vars PROVE SyncTypeOK'
  OBVIOUS
<1> USE DEF Inv, TypeOK, SyncTypeOK, exportVars, tableVars, fileVars, runVars, opVars,
      syncVars, copyVars, processVars, dbVars
<1>1. CASE Sync /\ UNCHANGED exportVars
  BY <1>1 DEF Sync, ExportTypeOK
<1>2. CASE Notify /\ UNCHANGED exportVars
  BY <1>2 DEF Notify
<1>3. CASE Ingest /\ UNCHANGED exportVars
  <2>1. HeaderRead \in Lines \union {Blank} /\ Loaded \in Nat
    BY HeaderReadType
  <2>2. CASE Gone
    BY <2>2, <1>3 DEF Gone, Ingest
  <2>3. CASE UNCHANGED <<copyVars, changed, header, position, up, dbVars>> /\ announced' = FALSE
    BY <2>3, <1>3 DEF Ingest
  <2>4. CASE /\ announced' = FALSE /\ Pass(Loaded, HeaderRead) /\ Loaded > 0
             /\ HeaderRead = Header =>
                  \A i \in 1..Len(copy) : Loaded < i => copy[i] # Unreadable
    <3>1. met' \subseteq Times \union {Forged} /\ fpos' \in Nat /\ position' \in Nat
      BY <2>1, <2>4, PassType
    <3> QED BY <2>1, <2>4, <3>1, <1>3 DEF Pass, Ingest
  <2> QED BY <2>2, <2>3, <2>4, <1>3, IngestOutcome
<1>4. CASE Crash /\ UNCHANGED exportVars
  <2>1. crashes' \in Nat
    BY <1>4 DEF Crash
  <2> QED BY <2>1, <1>4 DEF Crash, Gone
<1>5. CASE Boot /\ UNCHANGED exportVars
  BY <1>5 DEF Boot
<1>6. CASE UNCHANGED syncVars
  BY <1>6 DEF syncVars
<1> QED BY <1>1, <1>2, <1>3, <1>4, <1>5, <1>6 DEF Next, Export, Run, Script, Metsync, vars

\* Files, and what a run has open.
LEMMA FilesStep == Inv /\ [Next]_vars => Files'
<1> SUFFICES ASSUME Inv, [Next]_vars PROVE Files'
  OBVIOUS
<1> USE DEF Inv, Files, TypeOK, ExportTypeOK, SyncTypeOK, exportVars, tableVars, fileVars,
      runVars, opVars, syncVars, copyVars, processVars, dbVars
<1>1. CASE (\E t \in Times : Insert(t)) /\ UNCHANGED syncVars
  <2>1. PICK t \in Times : Insert(t)
    BY <1>1
  <2> QED BY <2>1, <1>1 DEF Insert
<1>2. CASE Start /\ UNCHANGED syncVars
  BY <1>2 DEF Start, BeginRun
<1>3. CASE Update /\ UNCHANGED syncVars
  BY <1>3 DEF Update
<1>4. CASE Write /\ UNCHANGED syncVars
  <2>1. PICK t \in todo : /\ todo' = todo \ {t}
                          /\ IF linked THEN /\ \E l \in Written(t) : csv' = Append(csv, l)
                                            /\ part' = "none"
                                       ELSE UNCHANGED <<csv, part>>
    BY <1>4 DEF Write
  <2>2. Header \notin Written(t) /\ Written(t) \subseteq Lines
    <3>1. t \in Times /\ Header \notin Times /\ Header \notin Glued
      BY <2>1, GluedAssumption, NumbersAssumption DEF Header, Times
    <3> QED BY <3>1 DEF Written, Glued, Lines
  <2>3. \A i \in 1..Len(csv') : csv'[i] = Header => i = 1
    BY <2>1, <2>2, SMTT(30)
  <2> QED BY <2>1, <2>3, <1>4 DEF Write
<1>5. CASE Commit /\ UNCHANGED syncVars
  BY <1>5 DEF Commit
<1>6. CASE StartBreaks /\ UNCHANGED syncVars
  BY <1>6 DEF StartBreaks
<1>7. CASE Break /\ UNCHANGED syncVars
  BY <1>7 DEF Break
<1>8. CASE StopUnits /\ UNCHANGED syncVars
  BY <1>8 DEF StopUnits
<1>9. CASE DeleteRows /\ UNCHANGED syncVars
  BY <1>9 DEF DeleteRows
<1>10. CASE RemoveFile /\ UNCHANGED syncVars
  BY <1>10 DEF RemoveFile
<1>11. CASE StartUnits /\ UNCHANGED syncVars
  BY <1>11 DEF StartUnits, BeginRun
<1>12. CASE Sync /\ UNCHANGED exportVars
  BY <1>12 DEF Sync
<1>13. CASE Notify /\ UNCHANGED exportVars
  BY <1>13 DEF Notify
<1>14. CASE Ingest /\ UNCHANGED exportVars
  <2>1. UNCHANGED copyVars
    BY <1>14, IngestOutcome DEF Gone, Pass
  <2> QED BY <2>1, <1>14
<1>15. CASE Crash /\ UNCHANGED exportVars
  BY <1>15 DEF Crash, Gone
<1>16. CASE Boot /\ UNCHANGED exportVars
  BY <1>16 DEF Boot
<1>17. CASE UNCHANGED vars
  BY <1>17 DEF vars
<1> QED BY <1>1, <1>2, <1>3, <1>4, <1>5, <1>6, <1>7, <1>8, <1>9, <1>10, <1>11, <1>12, <1>13,
      <1>14, <1>15, <1>16, <1>17 DEF Next, Export, Run, Script, Metsync

\* Files begun with their headers keep them.
LEMMA HeadedStep == Inv /\ [Next]_vars => Headed'
<1> SUFFICES ASSUME Inv, [Next]_vars PROVE Headed'
  OBVIOUS
<1> USE DEF Inv, Headed, Files, TypeOK, ExportTypeOK, SyncTypeOK, exportVars, tableVars,
      fileVars, runVars, opVars, syncVars, copyVars, processVars, dbVars
<1>1. CASE (\E t \in Times : Insert(t)) /\ UNCHANGED syncVars
  <2>1. PICK t \in Times : Insert(t)
    BY <1>1
  <2> QED BY <2>1, <1>1 DEF Insert
<1>2. CASE Start /\ UNCHANGED syncVars
  BY <1>2 DEF Start, BeginRun
<1>3. CASE Update /\ UNCHANGED syncVars
  BY <1>3 DEF Update
<1>4. CASE Write /\ UNCHANGED syncVars
  <2>1. PICK t \in todo : /\ \A s \in todo : t <= s
                          /\ todo' = todo \ {t}
                          /\ IF linked THEN /\ \E l \in Written(t) : csv' = Append(csv, l)
                                            /\ part' = "none"
                                       ELSE UNCHANGED <<csv, part>>
    BY <1>4 DEF Write
  <2>2. Len(csv) > 0 => Len(csv') > 0 /\ csv'[1] = csv[1]
    BY <2>1, <1>4 DEF Write
  <2> QED BY <2>1, <2>2, <1>4 DEF Write
<1>5. CASE Commit /\ UNCHANGED syncVars
  BY <1>5 DEF Commit
<1>6. CASE StartBreaks /\ UNCHANGED syncVars
  BY <1>6 DEF StartBreaks
<1>7. CASE Break /\ UNCHANGED syncVars
  BY <1>7 DEF Break
<1>8. CASE StopUnits /\ UNCHANGED syncVars
  BY <1>8 DEF StopUnits
<1>9. CASE DeleteRows /\ UNCHANGED syncVars
  BY <1>9 DEF DeleteRows
<1>10. CASE RemoveFile /\ UNCHANGED syncVars
  BY <1>10 DEF RemoveFile
<1>11. CASE StartUnits /\ UNCHANGED syncVars
  BY <1>11 DEF StartUnits, BeginRun
<1>12. CASE Sync /\ UNCHANGED exportVars
  BY <1>12 DEF Sync
<1>13. CASE Notify /\ UNCHANGED exportVars
  BY <1>13 DEF Notify
<1>14. CASE Ingest /\ UNCHANGED exportVars
  <2>1. CASE Gone
    BY <2>1, <1>14, MarksAssumption DEF Gone, Ingest, Lines
  <2>2. CASE announced' = FALSE /\ UNCHANGED <<copyVars, changed, header, position, up, dbVars>>
    BY <2>2, <1>14 DEF Ingest
  <2>3. CASE /\ announced' = FALSE /\ copyFile /\ Pass(Loaded, HeaderRead) /\ Loaded > 0
    <3>1. ~headless => HeaderRead = Header /\ copy # <<>>
      BY <2>3 DEF HeaderRead
    <3>2. ~headless => Loaded = IF fpos = 0 THEN 1 ELSE fpos
      BY <2>3, <3>1, MarksAssumption DEF Loaded, HeaderRead, Lines
    <3> QED BY <2>3, <3>1, <3>2, <1>14 DEF Pass, Ingest
  <2> QED BY <2>1, <2>2, <2>3, <1>14, IngestOutcome
<1>15. CASE Crash /\ UNCHANGED exportVars
  BY <1>15, MarksAssumption DEF Crash, Gone, Lines
<1>16. CASE Boot /\ UNCHANGED exportVars
  BY <1>16 DEF Boot
<1>17. CASE UNCHANGED vars
  BY <1>17 DEF vars
<1> QED BY <1>1, <1>2, <1>3, <1>4, <1>5, <1>6, <1>7, <1>8, <1>9, <1>10, <1>11, <1>12, <1>13,
      <1>14, <1>15, <1>16, <1>17 DEF Next, Export, Run, Script, Metsync

\* No run begins between the DELETE and the removal.
LEMMA ScriptedStep == Inv /\ [Next]_vars => Scripted'
<1> SUFFICES ASSUME Inv, [Next]_vars PROVE Scripted'
  OBVIOUS
<1> USE DEF Inv, Scripted, Rebuilt, Files, ExportTypeOK, TypeOK, exportVars, tableVars,
      fileVars, runVars, opVars, syncVars, copyVars, processVars, dbVars
<1>1. CASE (\E t \in Times : Insert(t)) /\ UNCHANGED syncVars
  <2>1. PICK t \in Times : Insert(t)
    BY <1>1
  <2> QED BY <2>1, <1>1 DEF Insert
<1>2. CASE Start /\ UNCHANGED syncVars
  BY <1>2 DEF Start, BeginRun, Timer
<1>3. CASE Update /\ UNCHANGED syncVars
  BY <1>3 DEF Update
<1>4. CASE Write /\ UNCHANGED syncVars
  BY <1>4 DEF Write
<1>5. CASE Commit /\ UNCHANGED syncVars
  BY <1>5 DEF Commit
<1>6. CASE StartBreaks /\ UNCHANGED syncVars
  BY <1>6 DEF StartBreaks, Timer
<1>7. CASE Break /\ UNCHANGED syncVars
  BY <1>7 DEF Break
<1>8. CASE StopUnits /\ UNCHANGED syncVars
  BY <1>8 DEF StopUnits
<1>9. CASE DeleteRows /\ UNCHANGED syncVars
  BY <1>9 DEF DeleteRows
<1>10. CASE RemoveFile /\ UNCHANGED syncVars
  BY <1>10 DEF RemoveFile
<1>11. CASE StartUnits /\ UNCHANGED syncVars
  BY <1>11 DEF StartUnits, BeginRun
<1>12. CASE UNCHANGED exportVars
  BY <1>12 DEF exportVars
<1> QED BY <1>1, <1>2, <1>3, <1>4, <1>5, <1>6, <1>7, <1>8, <1>9, <1>10, <1>11,
      <1>12 DEF Next, Export, Run, Script, Metsync, vars

\* Before the file is removed, what is announced is there.
LEMMA AnnouncedStep == Inv /\ [Next]_vars => Announced'
<1> SUFFICES ASSUME Inv, [Next]_vars PROVE Announced'
  OBVIOUS
<1> USE DEF Inv, Announced, Rebuilt, Files, TypeOK, ExportTypeOK, SyncTypeOK, exportVars,
      tableVars, fileVars, runVars, opVars, syncVars, copyVars, processVars, dbVars
<1>1. CASE (\E t \in Times : Insert(t)) /\ UNCHANGED syncVars
  <2>1. PICK t \in Times : Insert(t)
    BY <1>1
  <2> QED BY <2>1, <1>1 DEF Insert
<1>2. CASE Start /\ UNCHANGED syncVars
  BY <1>2 DEF Start, BeginRun
<1>3. CASE Update /\ UNCHANGED syncVars
  BY <1>3 DEF Update
<1>4. CASE Write /\ UNCHANGED syncVars
  BY <1>4 DEF Write
<1>5. CASE Commit /\ UNCHANGED syncVars
  BY <1>5 DEF Commit
<1>6. CASE StartBreaks /\ UNCHANGED syncVars
  BY <1>6 DEF StartBreaks
<1>7. CASE Break /\ UNCHANGED syncVars
  BY <1>7 DEF Break
<1>8. CASE StopUnits /\ UNCHANGED syncVars
  BY <1>8 DEF StopUnits
<1>9. CASE DeleteRows /\ UNCHANGED syncVars
  BY <1>9 DEF DeleteRows
<1>10. CASE RemoveFile /\ UNCHANGED syncVars
  BY <1>10 DEF RemoveFile
<1>11. CASE StartUnits /\ UNCHANGED syncVars
  BY <1>11 DEF StartUnits, BeginRun
<1>12. CASE Sync /\ UNCHANGED exportVars
  BY <1>12 DEF Sync
<1>13. CASE Notify /\ UNCHANGED exportVars
  BY <1>13 DEF Notify
<1>14. CASE Ingest /\ UNCHANGED exportVars
  <2>1. UNCHANGED copyVars /\ announced' = FALSE
    BY <1>14, IngestOutcome DEF Gone, Pass
  <2> QED BY <2>1, <1>14
<1>15. CASE Crash /\ UNCHANGED exportVars
  BY <1>15 DEF Crash, Gone
<1>16. CASE Boot /\ UNCHANGED exportVars
  BY <1>16 DEF Boot
<1>17. CASE UNCHANGED vars
  BY <1>17 DEF vars
<1> QED BY <1>1, <1>2, <1>3, <1>4, <1>5, <1>6, <1>7, <1>8, <1>9, <1>10, <1>11, <1>12, <1>13,
      <1>14, <1>15, <1>16, <1>17 DEF Next, Export, Run, Script, Metsync

\* Only tears make lines that are none.
LEMMA UntornStep == Inv /\ [Next]_vars => Untorn'
<1> SUFFICES ASSUME Inv, [Next]_vars PROVE Untorn'
  OBVIOUS
<1> USE DEF Inv, Untorn, Files, TypeOK, ExportTypeOK, SyncTypeOK, exportVars, tableVars,
      fileVars, runVars, opVars, syncVars, copyVars, processVars, dbVars
<1>1. CASE (\E t \in Times : Insert(t)) /\ UNCHANGED syncVars
  <2>1. PICK t \in Times : Insert(t)
    BY <1>1
  <2> QED BY <2>1, <1>1 DEF Insert
<1>2. CASE Start /\ UNCHANGED syncVars
  BY <1>2, GluedAssumption DEF Start, BeginRun, Header
<1>3. CASE Update /\ UNCHANGED syncVars
  BY <1>3 DEF Update
<1>4. CASE Write /\ UNCHANGED syncVars
  <2>1. PICK t \in todo : /\ \A s \in todo : t <= s
                          /\ todo' = todo \ {t}
                          /\ IF linked THEN /\ \E l \in Written(t) : csv' = Append(csv, l)
                                            /\ part' = "none"
                                       ELSE UNCHANGED <<csv, part>>
    BY <1>4 DEF Write
  <2>2. tears = 0 => Written(t) = {t} /\ t \notin Glued
    BY <2>1, GluedAssumption, NumbersAssumption DEF Written, Times
  <2> QED BY <2>1, <2>2, <1>4 DEF Write
<1>5. CASE Commit /\ UNCHANGED syncVars
  BY <1>5 DEF Commit
<1>6. CASE StartBreaks /\ UNCHANGED syncVars
  BY <1>6 DEF StartBreaks
<1>7. CASE Break /\ UNCHANGED syncVars
  BY <1>7 DEF Break
<1>8. CASE StopUnits /\ UNCHANGED syncVars
  BY <1>8 DEF StopUnits
<1>9. CASE DeleteRows /\ UNCHANGED syncVars
  BY <1>9 DEF DeleteRows
<1>10. CASE RemoveFile /\ UNCHANGED syncVars
  BY <1>10 DEF RemoveFile
<1>11. CASE StartUnits /\ UNCHANGED syncVars
  BY <1>11, GluedAssumption DEF StartUnits, BeginRun, Header
<1>12. CASE Sync /\ UNCHANGED exportVars
  BY <1>12 DEF Sync
<1>13. CASE Notify /\ UNCHANGED exportVars
  BY <1>13 DEF Notify
<1>14. CASE Ingest /\ UNCHANGED exportVars
  <2>1. UNCHANGED copyVars
    BY <1>14, IngestOutcome DEF Gone, Pass
  <2> QED BY <2>1, <1>14
<1>15. CASE Crash /\ UNCHANGED exportVars
  BY <1>15 DEF Crash, Gone
<1>16. CASE Boot /\ UNCHANGED exportVars
  BY <1>16 DEF Boot
<1>17. CASE UNCHANGED vars
  BY <1>17 DEF vars
<1> QED BY <1>1, <1>2, <1>3, <1>4, <1>5, <1>6, <1>7, <1>8, <1>9, <1>10, <1>11, <1>12, <1>13,
      <1>14, <1>15, <1>16, <1>17 DEF Next, Export, Run, Script, Metsync

\* What ends metsync.
LEMMA EndsStep == Inv /\ [Next]_vars => EndsForAReason'
<1> SUFFICES ASSUME Inv, [Next]_vars PROVE EndsForAReason'
  OBVIOUS
<1> USE DEF Inv, EndsForAReason, Rebuilt, Files, Headed, Untorn, Announced, TypeOK,
      ExportTypeOK, SyncTypeOK, exportVars, tableVars, fileVars, runVars, opVars, syncVars,
      copyVars, processVars, dbVars
<1>1. CASE (\E t \in Times : Insert(t)) /\ UNCHANGED syncVars
  <2>1. PICK t \in Times : Insert(t)
    BY <1>1
  <2> QED BY <2>1, <1>1 DEF Insert
<1>2. CASE Start /\ UNCHANGED syncVars
  BY <1>2 DEF Start, BeginRun
<1>3. CASE Update /\ UNCHANGED syncVars
  BY <1>3 DEF Update
<1>4. CASE Write /\ UNCHANGED syncVars
  BY <1>4 DEF Write
<1>5. CASE Commit /\ UNCHANGED syncVars
  BY <1>5 DEF Commit
<1>6. CASE StartBreaks /\ UNCHANGED syncVars
  BY <1>6 DEF StartBreaks
<1>7. CASE Break /\ UNCHANGED syncVars
  BY <1>7 DEF Break
<1>8. CASE StopUnits /\ UNCHANGED syncVars
  BY <1>8 DEF StopUnits
<1>9. CASE DeleteRows /\ UNCHANGED syncVars
  BY <1>9 DEF DeleteRows
<1>10. CASE RemoveFile /\ UNCHANGED syncVars
  BY <1>10 DEF RemoveFile
<1>11. CASE StartUnits /\ UNCHANGED syncVars
  BY <1>11 DEF StartUnits, BeginRun
<1>12. CASE Sync /\ UNCHANGED exportVars
  BY <1>12 DEF Sync
<1>13. CASE Notify /\ UNCHANGED exportVars
  BY <1>13 DEF Notify
<1>14. CASE Ingest /\ UNCHANGED exportVars
  <2>1. CASE Gone
    <3>1. ~copyFile \/ Loaded = 0 \/ \E i \in 1..Len(copy) : copy[i] = Unreadable
      BY <2>1, <1>14, IngestOutcome DEF Gone, Ingest, Pass
    <3>2. CASE ~copyFile
      BY <3>2, <1>14 DEF Ingest, Gone
    <3>3. CASE copyFile /\ Loaded = 0
      BY <3>3, <2>1, <1>14 DEF Ingest, Gone, Loaded
    <3>4. CASE \E i \in 1..Len(copy) : copy[i] = Unreadable
      BY <3>4, <2>1, <1>14 DEF Ingest, Gone, Glued
    <3> QED BY <3>1, <3>2, <3>3, <3>4
  <2>2. CASE UNCHANGED up
    BY <2>2, <1>14 DEF Ingest
  <2> QED BY <2>1, <2>2, <1>14, IngestOutcome DEF Pass
<1>15. CASE Crash /\ UNCHANGED exportVars
  BY <1>15 DEF Crash, Gone
<1>16. CASE Boot /\ UNCHANGED exportVars
  BY <1>16 DEF Boot
<1>17. CASE UNCHANGED vars
  BY <1>17 DEF vars
<1> QED BY <1>1, <1>2, <1>3, <1>4, <1>5, <1>6, <1>7, <1>8, <1>9, <1>10, <1>11, <1>12, <1>13,
      <1>14, <1>15, <1>16, <1>17 DEF Next, Export, Run, Script, Metsync

\* A set of rows without gaps holds every row up to its size.
LEMMA NoGap ==
  ASSUME NEW S \in SUBSET Times, \A t \in S, s \in Times : s < t => s \in S,
         NEW u \in Times, u < Cardinality(S) + 1
  PROVE  u \in S
<1> SUFFICES ASSUME u \notin S PROVE FALSE
  OBVIOUS
<1> USE NumbersAssumption DEF Times
<1>1. S \subseteq 1..(u - 1)
  OBVIOUS
<1>2. IsFiniteSet(1..(u - 1)) /\ Cardinality(1..(u - 1)) = u - 1
  BY FS_Interval
<1>3. Cardinality(S) <= u - 1 /\ Cardinality(S) \in Nat
  BY <1>1, <1>2, FS_Subset, FS_CardinalityType
<1> QED BY <1>3

\* Rows that come in order are written in order.
LEMMA SequenceStep == Inv /\ [Next]_vars => InSequence'
<1> SUFFICES ASSUME Inv, [Next]_vars PROVE InSequence'
  OBVIOUS
<1> USE DEF Inv, InSequence, Rows, Files, TypeOK, ExportTypeOK, SyncTypeOK, exportVars,
      tableVars, fileVars, runVars, opVars, syncVars, copyVars, processVars, dbVars
<1>1. CASE (\E t \in Times : Insert(t)) /\ UNCHANGED syncVars
  <2>1. PICK t \in Times : Insert(t)
    BY <1>1
  <2>2. ~(overlap \/ headless \/ disorder') => \A s \in Times : s < t => s \in Rows
    <3> SUFFICES ASSUME ~(overlap \/ headless \/ disorder), t = NextRow,
                        NEW s \in Times, s < t
                 PROVE  s \in Rows
      BY <2>1, <1>1 DEF Insert
    <3>1. Rows \subseteq Times /\ \A r \in Rows, q \in Times : q < r => q \in Rows
      BY DEF Rows
    <3> QED BY <3>1, NoGap DEF NextRow
  <2> QED BY <2>1, <2>2, <1>1 DEF Insert
<1>2. CASE Start /\ UNCHANGED syncVars
  BY <1>2, NumbersAssumption DEF Start, BeginRun, Times, Header
<1>3. CASE Update /\ UNCHANGED syncVars
  BY <1>3 DEF Update
<1>4. CASE Write /\ UNCHANGED syncVars
  <2>1. PICK t \in todo : /\ \A s \in todo : t <= s
                          /\ todo' = todo \ {t}
                          /\ IF linked THEN /\ \E l \in Written(t) : csv' = Append(csv, l)
                                            /\ part' = "none"
                                       ELSE UNCHANGED <<csv, part>>
    BY <1>4 DEF Write
  <2> SUFFICES ASSUME ~(overlap \/ headless \/ disorder) PROVE InSequence'
    BY <1>4 DEF Write
  <2>2. linked /\ Len(csv) \in Nat /\ Len(csv) > 0
    BY <1>4 DEF Write, Scripted, Headed
  <2>3. t \in Nat /\ t > 0 /\ t <= Len(csv)
    <3>1. t \in 1..MaxTime /\ t \in pending /\ MaxTime \in Nat
      BY <2>1, NumbersAssumption DEF Times
    <3>2. CASE t > 1
      <4>1. t - 1 \in Times /\ t - 1 < t
        BY <3>1, <3>2 DEF Times
      <4>2. t - 1 \in flagged \union pending
        BY <3>1, <4>1
      <4>3. t - 1 \notin todo
        BY <2>1, <3>1
      <4>4. t - 1 < Len(csv)
        BY <4>2, <4>3
      <4> QED BY <3>1, <4>4, <2>2
    <3> QED BY <3>1, <3>2, <2>2
  <2>4. PICK l \in Written(t) : csv' = Append(csv, l)
    BY <2>1, <2>2
  <2>5. l \in Times => l = t
    BY <2>1, <2>4, GluedAssumption DEF Written, Glued, Times
  <2>6. Len(csv') = Len(csv) + 1 /\ csv'[Len(csv')] = l
        /\ \A i \in 1..Len(csv) : csv'[i] = csv[i]
    BY <2>4
  <2>7. \A i \in 1..Len(csv') : csv'[i] \in Times => csv'[i] < i
    BY <2>2, <2>3, <2>5, <2>6
  <2>8. \A s \in flagged' \union (pending' \ todo') : s < Len(csv')
    <3>1. flagged \subseteq Nat /\ pending \subseteq Nat
      BY NumbersAssumption DEF Times
    <3> QED BY <2>1, <2>2, <2>3, <2>6, <3>1, <1>4 DEF Write
  <2> QED BY <2>7, <2>8, <1>4 DEF Write
<1>5. CASE Commit /\ UNCHANGED syncVars
  BY <1>5 DEF Commit
<1>6. CASE StartBreaks /\ UNCHANGED syncVars
  BY <1>6 DEF StartBreaks
<1>7. CASE Break /\ UNCHANGED syncVars
  BY <1>7 DEF Break
<1>8. CASE StopUnits /\ UNCHANGED syncVars
  BY <1>8 DEF StopUnits
<1>9. CASE DeleteRows /\ UNCHANGED syncVars
  BY <1>9 DEF DeleteRows, Scripted
<1>10. CASE RemoveFile /\ UNCHANGED syncVars
  BY <1>10 DEF RemoveFile, Scripted
<1>11. CASE StartUnits /\ UNCHANGED syncVars
  <2>1. CASE pc = "idle"
    <3>1. csvFile \/ csv = <<>>
      BY DEF Files
    <3>2. csv' = csv \/ (csv = <<>> /\ csv' = <<Header>>)
      BY <3>1, <2>1, <1>11 DEF StartUnits, BeginRun
    <3>3. Header \notin Times
      BY NumbersAssumption DEF Times, Header
    <3>4. UNCHANGED <<tableVars, pending, todo, headless, overlap>>
      BY <2>1, <1>11 DEF StartUnits, BeginRun
    <3>5. CASE csv' = csv
      BY <3>4, <3>5
    <3>6. CASE csv = <<>> /\ csv' = <<Header>>
      <4>1. Len(csv) = 0 /\ Len(csv') = 1 /\ csv'[1] = Header
        BY <3>6
      <4>2. flagged \subseteq Nat /\ pending \subseteq Nat
        BY NumbersAssumption DEF Times
      <4> QED BY <3>3, <3>4, <4>1, <4>2
    <3> QED BY <3>2, <3>5, <3>6
  <2>2. CASE pc # "idle"
    BY <2>2, <1>11 DEF StartUnits
  <2> QED BY <2>1, <2>2
<1>12. CASE UNCHANGED exportVars
  BY <1>12 DEF exportVars
<1> QED BY <1>1, <1>2, <1>3, <1>4, <1>5, <1>6, <1>7, <1>8, <1>9, <1>10, <1>11,
      <1>12 DEF Next, Export, Run, Script, Metsync, vars

\* What the position passes is stored, while the file is where it is expected.
LEMMA ReaderStep == Inv /\ [Next]_vars => Reader'
<1> SUFFICES ASSUME Inv, [Next]_vars PROVE Reader'
  OBVIOUS
<1> USE DEF Inv, Reader, Aligned, Rebuilt, Current, Earlier, CaughtUp, TypeOK, ExportTypeOK,
      SyncTypeOK, exportVars, tableVars, fileVars, runVars, opVars, syncVars, copyVars,
      processVars, dbVars
<1>1. CASE (\E t \in Times : Insert(t)) /\ UNCHANGED syncVars
  <2>1. PICK t \in Times : Insert(t)
    BY <1>1
  <2> QED BY <2>1, <1>1 DEF Insert
<1>2. CASE Start /\ UNCHANGED syncVars
  <2>1. csvFile \/ csv = <<>>
    BY DEF Files
  <2>2. csv' = csv \/ (csv = <<>> /\ csv' = <<Header>>)
    BY <2>1, <1>2 DEF BeginRun, Start
  <2>3. Header \notin Times
    BY NumbersAssumption DEF Times, Header
  <2> QED BY <2>2, <2>3, <1>2 DEF BeginRun, Start
<1>3. CASE Update /\ UNCHANGED syncVars
  BY <1>3 DEF Update
<1>4. CASE Write /\ UNCHANGED syncVars
  <2>1. PICK t \in todo : /\ \A s \in todo : t <= s
                          /\ todo' = todo \ {t}
                          /\ IF linked THEN /\ \E l \in Written(t) : csv' = Append(csv, l)
                                            /\ part' = "none"
                                       ELSE UNCHANGED <<csv, part>>
    BY <1>4 DEF Write
  <2> SUFFICES ASSUME Aligned PROVE Reader'
    BY <1>4 DEF Write
  <2>2. PICK l \in Written(t) : csv' = Append(csv, l)
    BY <2>1, <1>4 DEF Write, Scripted
  <2>3. Len(csv') = Len(csv) + 1 /\ Len(csv) \in Nat
        /\ \A i \in 1..Len(csv) : csv'[i] = csv[i]
    BY <2>2
  <2>4. Rebuilt => \A i \in 1..Len(csv') : csv'[i] \in Times => csv'[i] < i /\ csv'[i] \in Nat
    <3>1. Times \subseteq Nat
      BY NumbersAssumption DEF Times
    <3> QED BY <3>1, SequenceStep, <1>4 DEF InSequence, Write
  <2>5. CASE ~Rebuilt
    <3>1. Len(copy) \in Nat /\ fpos \in Nat /\ Len(copy) <= Len(csv) /\ fpos <= Len(copy)
      BY <2>5
    <3>2. \A i \in 1..Len(csv') : i <= fpos => i \in 1..Len(csv) /\ csv'[i] = csv[i]
      BY <2>3, <3>1
    <3>3. \A i \in 1..Len(copy) : copy[i] = csv'[i]
      BY <2>3, <2>5, <3>1
    <3> QED BY <2>3, <2>5, <3>1, <3>2, <3>3, <1>4 DEF Write
  <2>6. CASE Rebuilt /\ Current /\ (fpos > Len(csv) => CaughtUp)
    <3>1. Len(copy) <= Len(csv') /\ \A i \in 1..Len(copy) : copy[i] = csv'[i]
      BY <2>3, <2>6
    <3>2. ASSUME NEW i \in 1..Len(csv'), i <= fpos, csv'[i] \in Times PROVE csv'[i] \in met
      <4>1. CASE i <= Len(csv)
        BY <2>3, <2>6, <3>2, <4>1
      <4>2. CASE i = Len(csv) + 1
        BY <2>3, <2>4, <2>6, <3>2, <4>2
      <4> QED BY <2>3, <4>1, <4>2
    <3> QED BY <2>3, <2>6, <3>1, <3>2, <1>4 DEF Write
  <2>7. CASE Rebuilt /\ Earlier /\ CaughtUp
    BY <2>7, <1>4 DEF Write
  <2> QED BY <2>5, <2>6, <2>7
<1>5. CASE Commit /\ UNCHANGED syncVars
  BY <1>5 DEF Commit
<1>6. CASE StartBreaks /\ UNCHANGED syncVars
  BY <1>6 DEF StartBreaks
<1>7. CASE Break /\ UNCHANGED syncVars
  BY <1>7 DEF Break
<1>8. CASE StopUnits /\ UNCHANGED syncVars
  BY <1>8 DEF StopUnits
<1>9. CASE DeleteRows /\ UNCHANGED syncVars
  BY <1>9 DEF DeleteRows, Scripted
<1>10. CASE RemoveFile /\ UNCHANGED syncVars
  <2> SUFFICES ASSUME ~(overlap \/ headless \/ rearranged'), ~disorder PROVE Earlier /\ CaughtUp
    BY <1>10 DEF RemoveFile
  <2>1. Current /\ fpos <= Len(copy)
    BY <1>10 DEF RemoveFile, Scripted
  <2>2. \A i \in 1..Len(copy) : copy[i] = i - 1
    BY <2>1, <1>10 DEF RemoveFile
  <2>3. ASSUME NEW t \in Times, t < fpos PROVE t \in met
    <3>1. t + 1 \in 1..Len(copy) /\ t + 1 <= fpos /\ t + 1 \in 1..Len(csv)
      BY <2>1, <2>3, NumbersAssumption DEF Times
    <3>2. copy[t + 1] = t /\ csv[t + 1] = t
      BY <2>1, <2>2, <3>1, NumbersAssumption DEF Times
    <3> QED BY <2>1, <3>1, <3>2
  <2> QED BY <2>1, <2>2, <2>3
<1>11. CASE StartUnits /\ UNCHANGED syncVars
  <2>1. CASE pc = "idle"
    <3>1. csvFile \/ csv = <<>>
      BY DEF Files
    <3>2. csv' = csv \/ (csv = <<>> /\ csv' = <<Header>>)
      BY <3>1, <2>1, <1>11 DEF BeginRun, StartUnits
    <3>3. Header \notin Times
      BY NumbersAssumption DEF Times, Header
    <3> QED BY <3>2, <3>3, <2>1, <1>11 DEF BeginRun, StartUnits
  <2>2. CASE pc # "idle"
    BY <2>2, <1>11 DEF StartUnits
  <2> QED BY <2>1, <2>2
<1>12. CASE Sync /\ UNCHANGED exportVars
  <2> SUFFICES ASSUME Aligned PROVE Reader'
    BY <1>12 DEF Sync
  <2>1. CASE Current
    BY <2>1, <1>12 DEF Sync
  <2>2. CASE Rebuilt /\ Earlier /\ CaughtUp
    <3>1. \A i \in 1..Len(csv) : csv[i] \in Times => csv[i] < i /\ csv[i] \in Nat
      BY <2>2, NumbersAssumption DEF InSequence, Times
    <3>2. \A i \in 1..Len(csv) : i <= fpos /\ csv[i] \in Times => csv[i] \in met
      BY <2>2, <3>1
    <3> QED BY <2>2, <3>2, <1>12 DEF Sync
  <2> QED BY <2>1, <2>2
<1>13. CASE Notify /\ UNCHANGED exportVars
  BY <1>13 DEF Notify
<1>14. CASE Ingest /\ UNCHANGED exportVars
  <2>1. CASE UNCHANGED <<copyVars, dbVars>>
    BY <2>1, <1>14
  <2>2. CASE copyFile /\ Pass(Loaded, HeaderRead) /\ Loaded > 0
    <3> SUFFICES ASSUME Aligned PROVE Reader'
      BY <1>14
    <3>1. HeaderRead = Header /\ copy[1] = Header /\ Len(copy) > 0
          /\ Loaded = IF fpos = 0 THEN 1 ELSE fpos
      BY <2>2, MarksAssumption DEF Headed, HeaderRead, Loaded, Lines
    <3> DEFINE new == {i \in 1..Len(copy) : Loaded < i}
    <3>2. UNCHANGED copyVars /\ (new = {} => UNCHANGED dbVars)
      BY <2>2 DEF Pass
    <3>3. CASE new = {}
      BY <3>2, <3>3, <1>14
    <3>4. CASE new # {}
      <4>1. fpos' = Len(copy) /\ met \subseteq met'
            /\ \A i \in new : copy[i] \in Times => copy[i] \in met'
        <5>1. Header # Bad /\ Bad \notin Times /\ Header # Blank
          BY GluedAssumption, NumbersAssumption, MarksAssumption DEF Header, Glued, Times, Lines
        <5> QED BY <2>2, <3>1, <3>4, <5>1 DEF Pass, Fits
      <4>2. Header \notin Times
        BY NumbersAssumption DEF Times, Header
      <4>3. fpos <= Len(copy)
        BY <3>1, <3>4
      <4>4. ASSUME \A i \in 1..Len(copy) : i <= fpos /\ copy[i] \in Times => copy[i] \in met
            PROVE  \A i \in 1..Len(copy) : copy[i] \in Times => copy[i] \in met'
        BY <3>1, <4>1, <4>2, <4>4
      <4>5. CASE Current
        <5>1. \A i \in 1..Len(copy) : copy[i] \in Times => copy[i] \in met'
          BY <4>4, <4>5
        <5> QED BY <3>2, <4>1, <4>5, <5>1, <1>14
      <4>6. CASE Rebuilt /\ Earlier /\ CaughtUp
        <5>1. \A i \in 1..Len(copy) : i <= fpos /\ copy[i] \in Times => copy[i] \in met
          BY <4>6, NumbersAssumption DEF Times
        <5>2. \A i \in 1..Len(copy) : copy[i] \in Times => copy[i] \in met'
          BY <4>4, <5>1
        <5>3. ASSUME NEW t \in Times, t < Len(copy) PROVE t \in met'
          <6>1. t + 1 \in 1..Len(copy) /\ copy[t + 1] = t
            BY <4>6, <5>3, NumbersAssumption DEF Times
          <6> QED BY <5>2, <6>1
        <5> QED BY <3>2, <4>1, <4>6, <5>3, <1>14
      <4> QED BY <4>5, <4>6
    <3> QED BY <3>3, <3>4
  <2> QED BY <2>1, <2>2, <1>14, IngestOutcome DEF Gone
<1>15. CASE Crash /\ UNCHANGED exportVars
  BY <1>15 DEF Crash, Gone
<1>16. CASE Boot /\ UNCHANGED exportVars
  BY <1>16 DEF Boot
<1>17. CASE UNCHANGED vars
  BY <1>17 DEF vars
<1> QED BY <1>1, <1>2, <1>3, <1>4, <1>5, <1>6, <1>7, <1>8, <1>9, <1>10, <1>11, <1>12, <1>13,
      <1>14, <1>15, <1>16, <1>17 DEF Next, Export, Run, Script, Metsync

LEMMA FewerLost ==
  ASSUME NEW A \in SUBSET Times, NEW B \in SUBSET A
  PROVE  Cardinality(A) \in Nat /\ Cardinality(B) \in Nat /\ Cardinality(B) <= Cardinality(A)
<1>1. IsFiniteSet(Times)
  BY FS_Interval, NumbersAssumption DEF Times
<1>2. IsFiniteSet(A)
  BY <1>1, FS_Subset
<1>3. IsFiniteSet(B) /\ Cardinality(B) <= Cardinality(A)
  BY <1>2, FS_Subset
<1> QED BY <1>2, <1>3, FS_CardinalityType

LEMMA OneMoreLost ==
  ASSUME NEW A \in SUBSET Times, NEW t \in Times, NEW B \in SUBSET (A \union {t})
  PROVE  /\ Cardinality(A) \in Nat /\ Cardinality(B) \in Nat
         /\ Cardinality(B) <= Cardinality(A) + 1
<1>1. IsFiniteSet(A) /\ Cardinality(A) \in Nat
  <2>1. IsFiniteSet(Times)
    BY FS_Interval, NumbersAssumption DEF Times
  <2>2. IsFiniteSet(A)
    BY <2>1, FS_Subset
  <2> QED BY <2>2, FS_CardinalityType
<1>2. Cardinality(A \union {t}) <= Cardinality(A) + 1
  <2>1. CASE t \in A
    <3>1. A \union {t} = A
      BY <2>1
    <3>2. Cardinality(A \union {t}) = Cardinality(A)
      BY <3>1
    <3> QED BY <1>1, <3>2
  <2>2. CASE t \notin A
    <3>1. Cardinality(A \union {t}) = Cardinality(A) + 1
      BY <1>1, <2>2, FS_AddElement
    <3> QED BY <1>1, <3>1
  <2> QED BY <2>1, <2>2
<1>3. Cardinality(A \union {t}) \in Nat /\ Cardinality(B) \in Nat
      /\ Cardinality(B) <= Cardinality(A \union {t})
  BY FewerLost
<1> QED BY <1>1, <1>2, <1>3

\* A row is lost for each line broken off, and no more.
LEMMA BalancedStep == Inv /\ [Next]_vars => Balanced'
<1> SUFFICES ASSUME Inv, [Next]_vars PROVE Balanced'
  OBVIOUS
<1> USE DEF Inv, Balanced, Files, TypeOK, ExportTypeOK, SyncTypeOK, exportVars, tableVars,
      fileVars, runVars, opVars, syncVars, copyVars, processVars, dbVars
<1>w. Lost \subseteq Times
  BY DEF Lost
<1>1. CASE (\E t \in Times : Insert(t)) /\ UNCHANGED syncVars
  <2>1. PICK t \in Times : Insert(t)
    BY <1>1
  <2>2. UNCHANGED <<flagged, csv, pending, todo, overlap, part, tears>>
    BY <2>1 DEF Insert
  <2> QED BY <2>2 DEF Lost, InCsv
<1>2. CASE Start /\ UNCHANGED syncVars
  <2>1. Lost' \subseteq Lost
    <3>1. csvFile \/ csv = <<>>
      BY DEF Files
    <3>2. csv' = csv \/ (csv = <<>> /\ csv' = <<Header>>)
      BY <1>2, <3>1 DEF Start, BeginRun
    <3>3. UNCHANGED <<flagged, pending, todo>> /\ \A t \in Times : InCsv(t) => InCsv(t)'
      BY <1>2, <3>2 DEF Start, BeginRun, InCsv
    <3> QED BY <3>3, <1>w DEF Lost
  <2>2. UNCHANGED <<overlap, part, tears>>
    BY <1>2 DEF Start, BeginRun
  <2> QED BY <1>w, <2>1, <2>2, FewerLost
<1>3. CASE Update /\ UNCHANGED syncVars
  <2>1. ~overlap' => Lost' \subseteq Lost
    BY <1>3 DEF Update, Lost, InCsv
  <2> QED BY <1>w, <2>1, FewerLost, <1>3 DEF Update
<1>4. CASE Write /\ UNCHANGED syncVars
  <2>1. PICK t \in todo : /\ \A s \in todo : t <= s
                          /\ todo' = todo \ {t}
                          /\ IF linked THEN /\ \E l \in Written(t) : csv' = Append(csv, l)
                                            /\ part' = "none"
                                       ELSE UNCHANGED <<csv, part>>
    BY <1>4 DEF Write
  <2> SUFFICES ASSUME ~overlap PROVE Balanced'
    BY <1>4 DEF Write
  <2>2. PICK l \in Written(t) : csv' = Append(csv, l)
    BY <2>1, <1>4 DEF Write, Scripted
  <2>3. \A s \in Times : InCsv(s) => InCsv(s)'
    BY <2>2 DEF InCsv
  <2>4. l = t => InCsv(t)'
    <3>1. Len(csv') = Len(csv) + 1 /\ Len(csv) \in Nat /\ csv'[Len(csv) + 1] = l
      BY <2>2
    <3> QED BY <3>1 DEF InCsv
  <2>5. part' = "none" /\ UNCHANGED <<flagged, pending, overlap, tears>>
        /\ todo' = todo \ {t} /\ t \in Times
    BY <2>1, <1>4 DEF Write, Scripted
  <2>6. CASE part = "none"
    <3>1. l = t
      BY <2>2, <2>6 DEF Written
    <3>2. Lost' \subseteq Lost
      BY <2>3, <2>4, <2>5, <3>1, <1>w DEF Lost
    <3> QED BY <1>w, <2>5, <2>6, <3>2, FewerLost
  <2>7. CASE part # "none"
    <3>1. Lost' \subseteq Lost \union {t}
      BY <2>3, <2>5, <1>w DEF Lost
    <3>2. Cardinality(Lost) \in Nat /\ Cardinality(Lost') \in Nat
          /\ Cardinality(Lost') <= Cardinality(Lost) + 1
      BY <1>w, <2>5, <3>1, OneMoreLost
    <3> QED BY <2>5, <2>7, <3>2
  <2> QED BY <2>6, <2>7
<1>5. CASE Commit /\ UNCHANGED syncVars
  <2>1. ~overlap' => Lost' \subseteq Lost
    BY <1>5 DEF Commit, Lost, InCsv
  <2> QED BY <1>w, <2>1, FewerLost, <1>5 DEF Commit
<1>6. CASE StartBreaks /\ UNCHANGED syncVars
  <2>1. ~overlap' => Lost' \subseteq Lost
    BY <1>6 DEF StartBreaks, Lost, InCsv
  <2> QED BY <1>w, <2>1, FewerLost, <1>6 DEF StartBreaks
<1>7. CASE Break /\ UNCHANGED syncVars
  <2>1. Lost' \subseteq Lost
    BY <1>7 DEF Break, Lost, InCsv
  <2>2. Cardinality(Lost) \in Nat /\ Cardinality(Lost') \in Nat
        /\ Cardinality(Lost') <= Cardinality(Lost)
    BY <1>w, <2>1, FewerLost
  <2>3. UNCHANGED overlap /\ (\/ UNCHANGED <<part, tears>>
                              \/ tears' = IF part = "none" THEN tears + 1 ELSE tears)
    BY <1>7 DEF Break
  <2>4. tears' = (IF part = "none" THEN tears + 1 ELSE tears) \/ UNCHANGED <<part, tears>>
    BY <2>3
  <2> QED BY <2>2, <2>3, <2>4
<1>8. CASE StopUnits /\ UNCHANGED syncVars
  <2>1. ~overlap' => Lost' \subseteq Lost
    BY <1>8 DEF StopUnits, Lost, InCsv
  <2> QED BY <1>w, <2>1, FewerLost, <1>8 DEF StopUnits
<1>9. CASE DeleteRows /\ UNCHANGED syncVars
  <2>1. ~overlap' => ~overlap /\ pc = "idle"
    BY <1>9 DEF DeleteRows, Scripted
  <2>2. pc = "idle" => Lost' \subseteq Lost
    BY <1>9 DEF DeleteRows, Lost, InCsv
  <2>3. UNCHANGED <<part, tears>>
    BY <1>9 DEF DeleteRows
  <2> QED BY <1>w, <2>1, <2>2, <2>3, FewerLost
<1>10. CASE RemoveFile /\ UNCHANGED syncVars
  <2>1. ~overlap => Lost' \subseteq Lost
    BY <1>10 DEF RemoveFile, Lost, Scripted
  <2>2. part' = "none" /\ UNCHANGED <<overlap, tears>>
    BY <1>10 DEF RemoveFile
  <2> QED BY <1>w, <2>1, <2>2, FewerLost
<1>11. CASE StartUnits /\ UNCHANGED syncVars
  <2>1. CASE pc = "idle"
    <3>1. Lost' \subseteq Lost
      <4>1. csvFile \/ csv = <<>>
        BY DEF Files
      <4>2. csv' = csv \/ (csv = <<>> /\ csv' = <<Header>>)
        BY <1>11, <2>1, <4>1 DEF StartUnits, BeginRun
      <4>3. UNCHANGED <<flagged, pending, todo>> /\ \A t \in Times : InCsv(t) => InCsv(t)'
        BY <1>11, <2>1, <4>2 DEF StartUnits, BeginRun, InCsv
      <4> QED BY <4>3, <1>w DEF Lost
    <3>2. UNCHANGED <<overlap, part, tears>>
      BY <1>11, <2>1 DEF StartUnits, BeginRun
    <3> QED BY <1>w, <3>1, <3>2, FewerLost
  <2>2. CASE pc # "idle"
    <3>1. UNCHANGED <<flagged, pending, todo, csv, overlap, part, tears>>
      BY <2>2, <1>11 DEF StartUnits
    <3> QED BY <3>1 DEF Lost, InCsv
  <2> QED BY <2>1, <2>2
<1>12. CASE UNCHANGED exportVars
  BY <1>12 DEF Lost, InCsv
<1> QED BY <1>1, <1>2, <1>3, <1>4, <1>5, <1>6, <1>7, <1>8, <1>9, <1>10, <1>11,
      <1>12 DEF Next, Export, Run, Script, Metsync, vars

LEMMA InitInv == Init => Inv
<1> SUFFICES ASSUME Init PROVE Inv
  OBVIOUS
<1> USE DEF Init, ExportInit
<1>1. TypeOK
  <2>1. csv \in Seq(Lines) /\ copy \in Seq(Lines)
    OBVIOUS
  <2>2. ExportTypeOK
    BY <2>1 DEF ExportTypeOK
  <2>3. SyncTypeOK
    BY <2>1 DEF SyncTypeOK
  <2> QED BY <2>2, <2>3 DEF TypeOK
<1>2. Files /\ Headed /\ Scripted /\ Untorn /\ Announced /\ EndsForAReason
  BY MarksAssumption DEF Files, Headed, Scripted, Untorn, Announced, EndsForAReason, Rebuilt, Lines
<1>3. InSequence
  BY DEF InSequence, Rows
<1>4. Reader
  BY DEF Reader, Rebuilt, Current
<1>5. Balanced
  <2>1. Lost = {}
    BY DEF Lost
  <2> QED BY <2>1, FS_EmptySet DEF Balanced
<1> QED BY <1>1, <1>2, <1>3, <1>4, <1>5 DEF Inv

THEOREM Invariance == Spec => []Inv
<1>1. Init => Inv
  BY InitInv
<1>2. Inv /\ [Next]_vars => Inv'
  <2> SUFFICES ASSUME Inv, [Next]_vars PROVE Inv'
    OBVIOUS
  <2>1. TypeOK'
    BY ExportTypeStep, SyncTypeStep DEF TypeOK
  <2>2. Files' /\ Headed' /\ Scripted' /\ InSequence'
    BY FilesStep, HeadedStep, ScriptedStep, SequenceStep
  <2>3. Reader' /\ Untorn' /\ Announced' /\ Balanced' /\ EndsForAReason'
    BY ReaderStep, UntornStep, AnnouncedStep, BalancedStep, EndsStep
  <2> QED BY <2>1, <2>2, <2>3 DEF Inv
<1> QED BY <1>1, <1>2, PTL DEF Spec

\* Every variable of a ship's file and of its reader keeps its type.
THEOREM CsvTypeCorrect == Spec => []TypeOK
<1>1. Inv => TypeOK
  BY DEF Inv
<1> QED BY <1>1, Invariance, PTL

\* db2csv.py flags no more rows without writing them than lines were broken off,
\* for any number of rows, in any order, and of broken runs.
THEOREM LosesToTearsOnly == Spec => []LostToTears
<1>1. Inv => LostToTears
  <2> SUFFICES ASSUME Inv, ~overlap
               PROVE  Cardinality({t \in flagged : ~InCsv(t)}) <= tears
    BY DEF LostToTears
  <2> DEFINE shown == {t \in flagged : ~InCsv(t)}
  <2>1. Lost \subseteq Times /\ shown \subseteq Lost
    BY DEF Inv, TypeOK, ExportTypeOK, Lost
  <2>2. Cardinality(shown) \in Nat /\ Cardinality(Lost) \in Nat
        /\ Cardinality(shown) <= Cardinality(Lost)
    BY <2>1, FewerLost
  <2>3. tears \in Nat
    BY DEF Inv, TypeOK, ExportTypeOK
  <2> HIDE DEF shown
  <2>4. Cardinality(shown) <= tears
    BY <2>2, <2>3 DEF Inv, Balanced
  <2> QED BY <2>4 DEF shown
<1> QED BY <1>1, Invariance, PTL

\* Where metsync's position is, it has stored the rows before it: through every
\* crash, broken run and rebuilding of a file that was in order.
THEOREM SkipsNothing == Spec => []NoSkippedAtOther
<1>1. Inv => NoSkippedAtOther
  <2> SUFFICES ASSUME Inv, Aligned, NEW i \in 1..Len(copy), i <= fpos, copy[i] \in Times
               PROVE  copy[i] \in met
    BY DEF NoSkippedAtOther
  <2> USE DEF Inv, TypeOK, SyncTypeOK
  <2>1. CASE Current
    <3>1. i \in 1..Len(csv) /\ csv[i] = copy[i]
      BY <2>1 DEF Current, ExportTypeOK
    <3> QED BY <2>1, <3>1 DEF Current
  <2>2. CASE Earlier /\ CaughtUp
    <3>1. copy[i] = i - 1
      BY <2>2 DEF Earlier
    <3> QED BY <2>2, <3>1 DEF CaughtUp
  <2> QED BY <2>1, <2>2 DEF Reader
<1> QED BY <1>1, Invariance, PTL

\* Without a crash, a broken line, a file without a header or a rebuilding,
\* metsync never ends.
THEOREM EndsForReasons == Spec => []EndsForAReason
<1>1. Inv => EndsForAReason
  BY DEF Inv
<1> QED BY <1>1, Invariance, PTL

------------------------------------------------------------------------------
(* Repeated rows *)

LEMMA PlacesType ==
  ASSUME NEW file \in Seq(Lines), NEW t
  PROVE  IsFiniteSet(Places(file, t)) /\ Cardinality(Places(file, t)) \in Nat
<1>1. 1 \in Int /\ Len(file) \in Int
  OBVIOUS
<1>2. IsFiniteSet(1..Len(file))
  BY <1>1, FS_Interval
<1>3. Places(file, t) \subseteq 1..Len(file)
  BY DEF Places
<1>4. IsFiniteSet(Places(file, t))
  BY <1>2, <1>3, FS_Subset
<1> QED BY <1>4, FS_CardinalityType

\* A line that is appended shows one row, once.
LEMMA PlacesAppended ==
  ASSUME NEW file \in Seq(Lines), NEW l \in Lines, NEW t \in Times
  PROVE  Cardinality(Places(Append(file, l), t)) =
           Cardinality(Places(file, t)) + (IF l = t THEN 1 ELSE 0)
<1> DEFINE n == Len(file) + 1
<1>1. /\ Len(Append(file, l)) = n /\ n \in Nat /\ Append(file, l)[n] = l
      /\ \A i \in 1..Len(file) : Append(file, l)[i] = file[i]
  OBVIOUS
<1>2. 1..n = (1..Len(file)) \union {n} /\ n \notin 1..Len(file)
  BY <1>1
<1> HIDE DEF n
<1>3. n \notin Places(file, t)
  BY <1>2 DEF Places
<1>4. CASE l = t
  <2>1. Places(Append(file, l), t) = Places(file, t) \union {n}
    BY <1>1, <1>2, <1>4 DEF Places
  <2>2. Cardinality(Places(file, t) \union {n}) = Cardinality(Places(file, t)) + 1
    BY <1>3, PlacesType, FS_AddElement
  <2> QED BY <1>4, <2>1, <2>2
<1>5. CASE l # t
  <2>1. Places(Append(file, l), t) = Places(file, t)
    BY <1>1, <1>2, <1>5 DEF Places
  <2> QED BY <1>5, <2>1, PlacesType
<1> QED BY <1>4, <1>5

\* A file without a row shows it nowhere.
LEMMA NoPlaces ==
  ASSUME NEW file, NEW t, \A i \in 1..Len(file) : file[i] # t
  PROVE  Cardinality(Places(file, t)) = 0
<1>1. Places(file, t) = {}
  BY DEF Places
<1> QED BY <1>1, FS_EmptySet

LEMMA NoPlacesYet ==
  ASSUME NEW t \in Times
  PROVE  Cardinality(Places(<<>>, t)) = 0 /\ Cardinality(Places(<<Header>>, t)) = 0
<1>1. t # Header
  BY NumbersAssumption DEF Times, Header
<1>2. \A i \in 1..Len(<<>>) : <<>>[i] # t
  OBVIOUS
<1>3. \A i \in 1..Len(<<Header>>) : <<Header>>[i] # t
  BY <1>1
<1> QED BY <1>2, <1>3, NoPlaces

\* A run that starts finds the file or begins it with the header.
LEMMA BeginRunPlaces ==
  ASSUME ExportTypeOK, Files, BeginRun, NEW t \in Times
  PROVE  Cardinality(Places(csv', t)) = Cardinality(Places(csv, t))
<1>1. csvFile \/ csv = <<>>
  BY DEF Files
<1>2. csv' = csv \/ (csv = <<>> /\ csv' = <<Header>>)
  BY <1>1 DEF BeginRun
<1> QED BY <1>2, NoPlacesYet

LEMMA ApartStep == Inv /\ Apart /\ [Next]_vars => Apart'
<1> SUFFICES ASSUME Inv, Apart, [Next]_vars PROVE Apart'
  OBVIOUS
<1> USE DEF Apart, Inv, Files, exportVars, tableVars, runVars
<1>1. CASE \E t \in Times : Insert(t)
  BY <1>1 DEF Insert, Rows
<1>2. CASE Start
  BY <1>2 DEF Start, BeginRun
<1>3. CASE Update
  BY <1>3 DEF Update
<1>4. CASE Write
  BY <1>4 DEF Write
<1>5. CASE Commit
  BY <1>5 DEF Commit
<1>6. CASE StartBreaks
  BY <1>6 DEF StartBreaks
<1>7. CASE Break
  BY <1>7 DEF Break
<1>8. CASE StopUnits
  BY <1>8 DEF StopUnits
<1>9. CASE DeleteRows
  BY <1>9 DEF DeleteRows
<1>10. CASE RemoveFile
  BY <1>10 DEF RemoveFile
<1>11. CASE StartUnits
  BY <1>11 DEF StartUnits, BeginRun
<1>12. CASE UNCHANGED exportVars
  BY <1>12
<1> QED BY <1>1, <1>2, <1>3, <1>4, <1>5, <1>6, <1>7, <1>8, <1>9, <1>10, <1>11,
      <1>12 DEF Next, Export, Run, Script, vars

\* What has not changed in number and is not more settled keeps the bounds.
LEMMA RepeatsKept ==
  ASSUME Inv, Repeats, faults' = faults, overlap' = overlap,
         Settled \subseteq Settled', overlap \/ (script = "reloading" => script' = "reloading"),
         \A t \in Times : Cardinality(Places(csv', t)) = Cardinality(Places(csv, t))
  PROVE  Repeats'
<1>1. ASSUME NEW t \in Times
      PROVE  /\ Cardinality(Places(csv', t)) <= 1 + faults' + Once'
             /\ t \notin Settled' /\ (overlap' \/ script' # "reloading") =>
                  Cardinality(Places(csv', t)) <= faults' + Once'
  <2>1. Once' = Once
    BY DEF Once
  <2>2. Cardinality(Places(csv', t)) = Cardinality(Places(csv, t))
    OBVIOUS
  <2>3. t \notin Settled' /\ (overlap' \/ script' # "reloading") =>
          t \notin Settled /\ (overlap \/ script # "reloading")
    OBVIOUS
  <2> QED BY <2>1, <2>2, <2>3 DEF Repeats
<1> QED BY <1>1 DEF Repeats

\* A row is written only while it is not settled, and settles with its line;
\* a run that breaks makes it fresh again and counts as a fault.
LEMMA RepeatsStep == Inv /\ Apart /\ Repeats /\ [Next]_vars => Repeats'
<1> SUFFICES ASSUME Inv, Apart, Repeats, [Next]_vars PROVE Repeats'
  OBVIOUS
<1> USE DEF exportVars, tableVars, fileVars, runVars, opVars
<1>t. ExportTypeOK /\ Files /\ Scripted /\ csv \in Seq(Lines) /\ faults \in Nat /\ Once \in {0, 1}
  BY DEF Inv, TypeOK, ExportTypeOK, Once
<1>c. \A t \in Times : Cardinality(Places(csv, t)) \in Nat
  BY <1>t, PlacesType
<1>1. CASE \E t \in Times : Insert(t)
  <2>1. UNCHANGED <<flagged, csv, pending, todo, faults, overlap, script>>
    BY <1>1 DEF Insert
  <2> QED BY <2>1 DEF Repeats, Settled, Once
<1>2. CASE Start
  <2>1. UNCHANGED <<flagged, pending, todo, faults, overlap, script>> /\ BeginRun
    BY <1>2 DEF Start, BeginRun
  <2>2. \A t \in Times : Cardinality(Places(csv', t)) = Cardinality(Places(csv, t))
    BY <1>t, <2>1, BeginRunPlaces
  <2> QED BY <2>1, <2>2, RepeatsKept DEF Settled
<1>3. CASE Update
  <2>1. UNCHANGED <<flagged, csv, faults, overlap, script>> /\ pending' = todo'
        /\ pending = {}
    BY <1>3, <1>t DEF Update, Files
  <2>2. Settled \subseteq Settled'
    BY <2>1 DEF Settled
  <2> QED BY <2>1, <2>2, RepeatsKept
<1>4. CASE Write
  <2>1. PICK t \in todo : /\ todo' = todo \ {t}
                          /\ IF linked THEN (\E l \in Written(t) : csv' = Append(csv, l))
                                       ELSE csv' = csv
    BY <1>4 DEF Write
  <2>2. UNCHANGED <<flagged, pending, faults, overlap, script>> /\ pc = "writing"
    BY <1>4 DEF Write
  <2>3. t \in Times /\ t \in pending /\ t \notin Settled /\ Settled' = Settled \union {t}
        /\ Once' = Once
    BY <1>t, <2>1, <2>2 DEF ExportTypeOK, Files, Apart, Settled, Once
  <2>4. overlap \/ script # "reloading"
    BY <1>t, <2>2 DEF Scripted
  <2>5. CASE ~linked
    <3>1. csv' = csv
      BY <2>1, <2>5
    <3> QED BY <2>2, <2>3, <3>1, RepeatsKept
  <2>6. CASE linked
    <3>1. PICK l \in Written(t) : csv' = Append(csv, l)
      BY <2>1, <2>6
    <3>2. l \in Lines /\ (l \in Times => l = t)
      <4>1. \A x \in Glued : x \in Lines /\ x \notin Times
        BY GluedAssumption, NumbersAssumption DEF Times, Lines
      <4>2. t \in Lines
        BY <2>3 DEF Lines
      <4>3. part \in {"none", "first", "later"}
        BY <1>t DEF ExportTypeOK
      <4>4. l = t \/ l \in Glued
        BY <4>3 DEF Written, Glued
      <4> QED BY <4>1, <4>2, <4>4
    <3>3. ASSUME NEW s \in Times
          PROVE  /\ Cardinality(Places(csv', s)) <= 1 + faults' + Once'
                 /\ s \notin Settled' /\ (overlap' \/ script' # "reloading") =>
                      Cardinality(Places(csv', s)) <= faults' + Once'
      <4>1. Cardinality(Places(csv', s)) = Cardinality(Places(csv, s)) + (IF l = s THEN 1 ELSE 0)
        BY <1>t, <3>1, <3>2, PlacesAppended
      <4>2. CASE s = t
        <5>1. Cardinality(Places(csv, s)) <= faults + Once
          BY <2>3, <2>4, <4>2 DEF Repeats
        <5>2. s \in Settled'
          BY <2>3, <4>2
        <5> QED BY <1>t, <1>c, <2>2, <2>3, <4>1, <5>1, <5>2
      <4>3. CASE s # t
        <5>1. Cardinality(Places(csv', s)) = Cardinality(Places(csv, s))
          BY <1>c, <3>2, <4>1, <4>3
        <5> QED BY <2>2, <2>3, <4>3, <5>1 DEF Repeats
      <4> QED BY <4>2, <4>3
    <3> QED BY <3>3 DEF Repeats
  <2> QED BY <2>5, <2>6
<1>5. CASE Commit
  <2>1. UNCHANGED <<csv, faults, overlap, script>> /\ todo = {} /\ flagged' = flagged \union pending
    BY <1>5 DEF Commit
  <2>2. Settled \subseteq Settled'
    BY <2>1 DEF Settled
  <2> QED BY <2>1, <2>2, RepeatsKept
<1>6. CASE StartBreaks
  <2>1. UNCHANGED <<csv, flagged, pending, todo, overlap, script>> /\ faults' = faults + 1
    BY <1>6 DEF StartBreaks
  <2>2. Once' = Once /\ Settled' = Settled
    BY <2>1 DEF Once, Settled
  <2>3. \A t \in Times : Cardinality(Places(csv', t)) <= faults' + Once'
    BY <1>t, <1>c, <2>1, <2>2 DEF Repeats
  <2> QED BY <1>t, <1>c, <2>1, <2>2, <2>3 DEF Repeats
<1>7. CASE Break
  <2>1. UNCHANGED <<csv, overlap, script>> /\ faults' = faults + 1
    BY <1>7 DEF Break
  <2>2. Once' = Once
    BY <2>1 DEF Once
  <2>3. \A t \in Times : Cardinality(Places(csv', t)) <= faults' + Once'
    BY <1>t, <1>c, <2>1, <2>2 DEF Repeats
  <2> QED BY <1>t, <1>c, <2>1, <2>2, <2>3 DEF Repeats
<1>8. CASE StopUnits
  <2>1. UNCHANGED <<csv, flagged, pending, todo, faults, overlap>> /\ script = "none"
    BY <1>8 DEF StopUnits
  <2> QED BY <2>1, RepeatsKept DEF Settled
<1>9. CASE DeleteRows
  <2>1. UNCHANGED <<csv, faults>> /\ script = "stopped" /\ script' = "reloading" /\ overlap' \in BOOLEAN
    BY <1>9 DEF DeleteRows
  <2>2. Once = 0 /\ Once' = IF overlap' THEN 1 ELSE 0
    BY <1>t, <2>1 DEF Once, Scripted
  <2>3. \A t \in Times : Cardinality(Places(csv', t)) <= 1 + faults'
    BY <1>t, <1>c, <2>1, <2>2 DEF Repeats
  <2> QED BY <1>t, <1>c, <2>1, <2>2, <2>3 DEF Repeats
<1>10. CASE RemoveFile
  <2>1. csv' = <<>> /\ UNCHANGED <<faults, overlap>>
    BY <1>10 DEF RemoveFile
  <2>2. Once' = Once
    BY <2>1 DEF Once
  <2>3. \A t \in Times : Cardinality(Places(csv', t)) = 0
    BY <2>1, NoPlacesYet
  <2> QED BY <1>t, <2>1, <2>2, <2>3 DEF Repeats
<1>11. CASE StartUnits
  <2>1. UNCHANGED <<flagged, pending, todo, faults, overlap>> /\ script' = "done"
        /\ script = "removed" /\ (BeginRun \/ csv' = csv)
    BY <1>11 DEF StartUnits, BeginRun
  <2>2. \A t \in Times : Cardinality(Places(csv', t)) = Cardinality(Places(csv, t))
    BY <1>t, <2>1, BeginRunPlaces
  <2> QED BY <2>1, <2>2, RepeatsKept DEF Settled
<1>12. CASE UNCHANGED exportVars
  BY <1>12 DEF Repeats, Settled, Once
<1> QED BY <1>1, <1>2, <1>3, <1>4, <1>5, <1>6, <1>7, <1>8, <1>9, <1>10, <1>11,
      <1>12 DEF Next, Export, Run, Script, vars

\* A row is in the file once, and once more for each run that broke and for a
\* rebuilding that overlapped a run: for any number of rows, runs and faults.
THEOREM RepeatsByBreaksOnly == Spec => []RepeatedByBreaks
<1>1. Init => Apart /\ Repeats
  <2>1. ASSUME Init PROVE Apart
    BY <2>1 DEF Init, ExportInit, Apart
  <2>2. ASSUME Init PROVE Repeats
    <3>1. csv = <<>> /\ faults = 0 /\ Once = 0
      BY <2>2 DEF Init, ExportInit, Once
    <3>2. \A t \in Times : Cardinality(Places(csv, t)) = 0
      BY <3>1, NoPlacesYet
    <3> QED BY <3>1, <3>2 DEF Repeats
  <2> QED BY <2>1, <2>2
<1>2. Inv /\ Apart /\ Repeats /\ [Next]_vars => Apart' /\ Repeats'
  BY ApartStep, RepeatsStep
<1>3. Repeats => RepeatedByBreaks
  <2> SUFFICES ASSUME Repeats, NEW t \in Times
               PROVE  Cardinality({i \in 1..Len(csv) : csv[i] = t}) <=
                        1 + faults + (IF overlap THEN 1 ELSE 0)
    BY DEF RepeatedByBreaks
  <2>1. Places(csv, t) = {i \in 1..Len(csv) : csv[i] = t}
    BY DEF Places
  <2>2. Cardinality(Places(csv, t)) <= 1 + faults + (IF overlap THEN 1 ELSE 0)
    BY DEF Repeats, Once
  <2> QED BY <2>1, <2>2
<1> QED BY <1>1, <1>2, <1>3, Invariance, PTL DEF Spec

==============================================================================
