---------------------------- MODULE NcExportProofs ----------------------------
(***************************************************************************)
(* Proofs about NcExport for any number of rows, any chunk size and any    *)
(* number of faults, when rows arrive in the order of their times.         *)
(***************************************************************************)
EXTENDS NcExport, FiniteSetTheorems, TLAPS

(***************************************************************************)
(* The inductive invariant, void once the rebuild script has overlapped a  *)
(* run.  What Mark flags is known from RangeOld (no row committed during   *)
(* the run has a time in its range) and Pending (a row the run may flag is *)
(* in the file or still to be written).                                    *)
(***************************************************************************)

\* No time of a run's range is later than all rows.
RangeOld ==
  pc \in {"select", "write", "mark"} => \A t \in range : \E s \in Rows : t <= s

\* The rows that Mark would flag.
Pending ==
  /\ pc = "write" => \A t \in fresh \intersect range : t \in todo \/ InFile(t)
  /\ pc = "mark" => \A t \in fresh \intersect range : InFile(t)

\* The copy under way holds what is flagged.
CopyWhole == pc = "publish" => \A t \in flagged : temp[t] >= 1

\* The script keeps runs out, and removes a file whose flags it has cleared.
ScriptAlone ==
  /\ rebuild \in {"stopped", "cleared", "removed"} => ~timer
  /\ rebuild \in {"cleared", "removed"} => pc = "idle" /\ flagged = {}
  /\ ~ncFile => \A t \in Times : ~InFile(t)

ExportInv ==
  /\ TypeOK
  /\ overlap => rebuild \in {"cleared", "removed", "done"}
  /\ overlap \/ (RangeOld /\ Pending /\ CopyWhole /\ ScriptAlone
                 /\ \A t \in flagged : InFile(t))

------------------------------------------------------------------------------
LEMMA BeginRunType ==
  ASSUME TypeOK, BeginRun
  PROVE  /\ nc' \in [Times -> Nat] /\ ncFile' \in BOOLEAN
         /\ pc' = "dates" /\ range' = {} /\ todo' = {} /\ cnt' = 0
         /\ UNCHANGED <<fresh, flagged, copy, copyFile, temp, faults>>
BY DEF BeginRun, TypeOK, Nothing, tableVars, copyVars

LEMMA ChunkFinite ==
  ASSUME TypeOK
  PROVE  Cardinality(Chunk) \in Nat
<1>1. IsFiniteSet(Chunk)
  <2>1. IsFiniteSet(Times)
    BY FS_Interval, NumbersAssumption DEF Times
  <2>2. Chunk \subseteq Times
    BY DEF Chunk, TypeOK
  <2> QED BY <2>1, <2>2, FS_Subset
<1> QED BY <1>1, FS_CardinalityType

LEMMA ExportType == TypeOK /\ [Next]_vars => TypeOK'
<1> SUFFICES ASSUME TypeOK, [Next]_vars PROVE TypeOK'
  OBVIOUS
<1> USE DEF tableVars, fileVars, copyVars, runVars, opVars
<1>1. ASSUME NEW t \in Times, Insert(t) PROVE TypeOK'
  BY <1>1 DEF Insert, TypeOK
<1>2. CASE Start
  BY <1>2, BeginRunType DEF Start, TypeOK
<1>3. CASE Dates
  BY <1>3 DEF Dates, TypeOK
<1>4. CASE Select
  BY <1>4 DEF Select, TypeOK
<1>5. CASE WriteChunk
  <2>1. CASE ncFile
    <3>1. nc' \in [Times -> Nat] /\ cnt' \in Nat /\ todo' \subseteq Times
      BY <1>5, <2>1, ChunkFinite DEF WriteChunk, TypeOK
    <3>2. pc' \in {"mark", "write"}
      BY <1>5, <2>1 DEF WriteChunk
    <3> QED BY <1>5, <3>1, <3>2 DEF WriteChunk, TypeOK
  <2>2. CASE ~ncFile
    BY <1>5, <2>2 DEF WriteChunk, TypeOK
  <2> QED BY <2>1, <2>2
<1>6. CASE Mark \/ MarkFails \/ Die
  BY <1>6 DEF Mark, MarkFails, Die, TypeOK
<1>7. CASE CopyFile \/ Publish
  BY <1>7 DEF CopyFile, Publish, TypeOK
<1>8. CASE RebuildStop \/ RebuildClear \/ RebuildRemove
  <2>1. CASE RebuildStop
    BY <2>1 DEF RebuildStop, Advance, TypeOK
  <2>2. CASE RebuildClear
    BY <2>2 DEF RebuildClear, Advance, Rows, TypeOK
  <2>3. CASE RebuildRemove
    BY <2>3 DEF RebuildRemove, Advance, Nothing, TypeOK
  <2> QED BY <1>8, <2>1, <2>2, <2>3
<1>9. CASE RebuildStart
  BY <1>9, BeginRunType DEF RebuildStart, Advance, TypeOK
<1>10. CASE UNCHANGED vars
  BY <1>10 DEF vars, TypeOK
<1> QED BY <1>1, <1>2, <1>3, <1>4, <1>5, <1>6, <1>7, <1>8, <1>9, <1>10 DEF Next, Run, Script

------------------------------------------------------------------------------
LEMMA ExportInit == Init => ExportInv
<1> SUFFICES ASSUME Init PROVE ExportInv
  OBVIOUS
<1>1. Nothing \in [Times -> Nat]
  BY DEF Nothing
<1>2. TypeOK
  BY <1>1, FlagsAssumption DEF Init, TypeOK
<1> QED BY <1>2 DEF Init, ExportInv, RangeOld, Pending, CopyWhole, ScriptAlone, InFile, Nothing

\* What a run knows, as one formula; void after an overlap.
Known == RangeOld /\ Pending /\ CopyWhole /\ ScriptAlone /\ \A t \in flagged : InFile(t)

\* With rows in order, a row inserted later is beyond the range.
LEMMA InsertKnown ==
  ASSUME InOrder, TypeOK, Known, NEW t \in Times, Insert(t)
  PROVE  Known'
<1>1. /\ UNCHANGED <<flagged, nc, ncFile, copy, copyFile, temp, pc, range, todo, timer, rebuild>>
      /\ fresh' = fresh \union {t} /\ \A s \in Rows : s < t
  BY DEF Insert, fileVars, copyVars, runVars, opVars
<1>2. RangeOld'
  BY <1>1 DEF Known, RangeOld, Rows
<1>3. pc \in {"write", "mark"} => t \notin range
  BY <1>1 DEF Known, RangeOld, Rows, TypeOK, Times
<1>4. Pending'
  BY <1>1, <1>3 DEF Known, Pending, InFile
<1> QED BY <1>1, <1>2, <1>4 DEF Known, CopyWhole, ScriptAlone, InFile

LEMMA DatesKnown ==
  ASSUME TypeOK, Known, Dates
  PROVE  Known'
<1>1. /\ pc = "dates" /\ pc' = "select"
      /\ UNCHANGED <<fresh, flagged, nc, ncFile, timer, rebuild>>
      /\ range' = {t \in Times : \E a, b \in fresh : a <= t /\ t <= b}
  BY DEF Dates, tableVars, fileVars, opVars
<1>2. RangeOld'
  BY <1>1 DEF RangeOld, Rows
<1> QED BY <1>1, <1>2 DEF Known, Pending, CopyWhole, ScriptAlone, InFile

LEMMA WriteKnown ==
  ASSUME TypeOK, Known, WriteChunk
  PROVE  Known'
<1>1. /\ pc = "write" /\ UNCHANGED <<fresh, flagged, ncFile, range, timer, rebuild>>
  BY DEF WriteChunk, tableVars, opVars
<1>2. CASE ~ncFile
  <2>1. pc' = "idle" /\ UNCHANGED nc
    BY <1>2 DEF WriteChunk
  <2> QED BY <1>1, <2>1 DEF Known, RangeOld, Pending, CopyWhole, ScriptAlone, InFile
<1>3. CASE ncFile
  <2>1. /\ nc' = [t \in Times |-> nc[t] + (IF t \in Chunk THEN 1 ELSE 0)]
        /\ todo' = todo \ Chunk
        /\ pc' = IF todo' = {} THEN "mark" ELSE "write"
    BY <1>3 DEF WriteChunk
  <2>2. \A t \in Times : InFile(t) \/ t \in Chunk => InFile(t)'
    BY <2>1 DEF InFile, TypeOK
  <2>3. Pending'
    BY <1>1, <2>1, <2>2 DEF Known, Pending, TypeOK
  <2>4. \A t \in flagged' : InFile(t)'
    BY <1>1, <2>2 DEF Known, TypeOK
  <2>5. RangeOld' /\ CopyWhole' /\ ScriptAlone'
    BY <1>1, <1>3, <2>1 DEF Known, RangeOld, Rows, CopyWhole, ScriptAlone
  <2> QED BY <2>3, <2>4, <2>5 DEF Known
<1> QED BY <1>2, <1>3

LEMMA MarkKnown ==
  ASSUME Known, Mark
  PROVE  Known'
<1>1. /\ pc = "mark" /\ pc' = "copy" /\ UNCHANGED <<nc, ncFile, timer, rebuild>>
      /\ flagged' = flagged \union (fresh \intersect range)
  BY DEF Mark, fileVars, opVars
<1>2. ScriptAlone'
  BY <1>1 DEF Known, ScriptAlone, InFile
<1> QED BY <1>1, <1>2 DEF Known, RangeOld, Pending, CopyWhole, InFile

\* The steps that touch neither the table nor the file.
LEMMA OtherKnown ==
  ASSUME TypeOK, Known, Select \/ MarkFails \/ Die \/ CopyFile \/ Publish \/ RebuildStop
  PROVE  Known'
<1> USE DEF tableVars, fileVars, copyVars, runVars, opVars
<1>1. CASE Select
  BY <1>1 DEF Select, Known, RangeOld, Rows, Pending, CopyWhole, ScriptAlone, InFile
<1>2. CASE MarkFails \/ Die \/ Publish
  BY <1>2 DEF MarkFails, Die, Publish, Known, RangeOld, Pending, CopyWhole, ScriptAlone, InFile
<1>3. CASE CopyFile
  BY <1>3 DEF CopyFile, Known, RangeOld, Pending, CopyWhole, ScriptAlone, InFile
<1>4. CASE RebuildStop
  BY <1>4 DEF RebuildStop, Advance, Known, RangeOld, Rows, Pending, CopyWhole, ScriptAlone, InFile
<1> QED BY <1>1, <1>2, <1>3, <1>4

\* Without an overlap the script finds no run and leaves none of its flags.
LEMMA ScriptKnown ==
  ASSUME TypeOK, Known, (RebuildClear /\ ~overlap') \/ RebuildRemove
  PROVE  Known'
<1> USE DEF tableVars, fileVars, copyVars, runVars, opVars
<1>1. CASE RebuildClear /\ ~overlap'
  BY <1>1 DEF RebuildClear, Advance, Known, RangeOld, Pending, CopyWhole, ScriptAlone, InFile
<1>2. CASE RebuildRemove
  BY <1>2 DEF RebuildRemove, Advance, Known, RangeOld, Pending, CopyWhole, ScriptAlone,
              InFile, Nothing
<1> QED BY <1>1, <1>2

LEMMA BeginRunKnown ==
  ASSUME TypeOK, Known, Start \/ RebuildStart
  PROVE  Known'
<1> USE DEF tableVars, fileVars, copyVars, runVars, opVars
<1>1. UNCHANGED flagged /\ (timer' \/ UNCHANGED timer)
      /\ (rebuild' = "done" \/ (UNCHANGED <<rebuild, timer>> /\ timer))
  BY DEF Start, RebuildStart, BeginRun, Advance
<1>2. CASE BeginRun
  <2>1. \A t \in flagged : InFile(t)'
    BY <1>2 DEF BeginRun, Known, ScriptAlone, InFile, TypeOK
  <2>2. pc' = "dates" /\ ncFile'
    BY <1>2 DEF BeginRun
  <2> QED BY <1>1, <2>1, <2>2 DEF Known, RangeOld, Pending, CopyWhole, ScriptAlone
<1>3. CASE ~BeginRun
  <2>1. UNCHANGED <<fresh, nc, ncFile, temp, pc, range, todo>> /\ rebuild' = "done"
    BY <1>3 DEF Start, RebuildStart, Advance
  <2> QED BY <1>1, <2>1 DEF Known, RangeOld, Rows, Pending, CopyWhole, ScriptAlone, InFile
<1> QED BY <1>2, <1>3

\* The script clears the flags once, so an overlap is never forgotten.
LEMMA OverlapStays ==
  ASSUME overlap => rebuild \in {"cleared", "removed", "done"}, [Next]_vars
  PROVE  /\ overlap => overlap'
         /\ overlap' => rebuild' \in {"cleared", "removed", "done"}
<1>1. CASE UNCHANGED <<overlap, rebuild>>
  BY <1>1
<1>2. CASE Run \/ MarkFails \/ Die \/ \E t \in Times : Insert(t)
  <2>1. UNCHANGED <<overlap, rebuild>>
    BY <1>2 DEF Run, Insert, Start, Dates, Select, WriteChunk, Mark, CopyFile, Publish,
                MarkFails, Die, opVars
  <2> QED BY <2>1
<1>3. CASE RebuildStop
  BY <1>3 DEF RebuildStop, Advance
<1>4. CASE Script
  BY <1>4 DEF Script, RebuildClear, RebuildRemove, RebuildStart, Advance
<1> QED BY <1>1, <1>2, <1>3, <1>4 DEF Next, vars

LEMMA ExportNext == ASSUME InOrder PROVE ExportInv /\ [Next]_vars => ExportInv'
<1> SUFFICES ASSUME ExportInv, [Next]_vars PROVE ExportInv'
  OBVIOUS
<1>1. TypeOK /\ TypeOK'
  BY ExportType DEF ExportInv
<1>3. /\ overlap => overlap'
      /\ overlap' => rebuild' \in {"cleared", "removed", "done"}
  BY OverlapStays DEF ExportInv
<1>4. ASSUME ~overlap, ~overlap' PROVE Known'
  <2>1. Known
    BY <1>4 DEF ExportInv, Known
  <2>2. CASE \E t \in Times : Insert(t)
    BY <1>1, <2>1, <2>2, InsertKnown
  <2>3. CASE Start \/ RebuildStart
    BY <1>1, <2>1, <2>3, BeginRunKnown
  <2>4. CASE Dates
    BY <1>1, <2>1, <2>4, DatesKnown
  <2>5. CASE WriteChunk
    BY <1>1, <2>1, <2>5, WriteKnown
  <2>6. CASE Mark
    BY <2>1, <2>6, MarkKnown
  <2>7. CASE Select \/ MarkFails \/ Die \/ CopyFile \/ Publish \/ RebuildStop
    BY <1>1, <2>1, <2>7, OtherKnown
  <2>8. CASE RebuildClear \/ RebuildRemove
    BY <1>1, <1>4, <2>1, <2>8, ScriptKnown
  <2>9. CASE UNCHANGED vars
    BY <2>1, <2>9 DEF vars, Known, RangeOld, Rows, Pending, CopyWhole, ScriptAlone, InFile
  <2> QED BY <2>2, <2>3, <2>4, <2>5, <2>6, <2>7, <2>8, <2>9 DEF Next, Run, Script
<1> QED BY <1>1, <1>3, <1>4 DEF ExportInv, Known

LEMMA SpecExportInv == ASSUME InOrder PROVE Spec => []ExportInv
<1>1. Init => ExportInv
  BY ExportInit
<1>2. ExportInv /\ [Next]_vars => ExportInv'
  BY ExportNext
<1> QED BY <1>1, <1>2, PTL DEF Spec

------------------------------------------------------------------------------
(***************************************************************************)
(* The variables of a run of db2nc.py (97-170) keep their types.           *)
(***************************************************************************)
THEOREM ExportTypeCorrect == Spec => []TypeOK
<1>1. Init => TypeOK
  BY ExportInit DEF ExportInv
<1>2. TypeOK /\ [Next]_vars => TypeOK'
  BY ExportType
<1> QED BY <1>1, <1>2, PTL DEF Spec

(***************************************************************************)
(* While rows arrive in the order of their times, no row is flagged that   *)
(* is not in the NetCDF file (db2nc.py 76-93, 121-129), whatever is        *)
(* inserted, dies or fails between the statements of a run, unless         *)
(* rebuild.nc.sh cleared the flags under a running export.                 *)
(***************************************************************************)
THEOREM NoRowLost == ASSUME InOrder PROVE Spec => []NoLostRow
<1>1. ExportInv => NoLostRow
  BY DEF ExportInv, NoLostRow
<1> QED BY <1>1, SpecExportInv, PTL

(***************************************************************************)
(* Under the same condition a published copy (db2nc.py 140-170) holds      *)
(* every row that the database counts as exported at that moment.          *)
(***************************************************************************)
THEOREM CopyHoldsFlagged == ASSUME InOrder PROVE Spec => PublishedCopyComplete
<1>1. ExportInv /\ [Next]_vars
        => [copy' # copy => (overlap \/ \A t \in flagged : copy'[t] >= 1)]_vars
  <2> SUFFICES ASSUME ExportInv, [Next]_vars, copy' # copy, ~overlap
               PROVE  \A t \in flagged : copy'[t] >= 1
    OBVIOUS
  <2>1. CASE Publish
    BY <2>1 DEF Publish, ExportInv, CopyWhole
  <2>2. CASE ~Publish
    BY <2>2 DEF Next, Run, Script, Insert, Start, BeginRun, Dates, Select, WriteChunk, Mark,
                CopyFile, MarkFails, Die, RebuildStop, RebuildClear, RebuildRemove,
                RebuildStart, tableVars, copyVars, fileVars, vars
  <2> QED BY <2>1, <2>2
<1> QED BY <1>1, SpecExportInv, PTL DEF Spec, PublishedCopyComplete

==============================================================================
