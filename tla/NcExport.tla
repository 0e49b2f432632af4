------------------------------- MODULE NcExport -------------------------------
(***************************************************************************)
(* MET/db2nc.py: every other minute a timer starts a run that appends the  *)
(* fresh rows of table met to a growing NetCDF file, flags them, and       *)
(* copies the file for the web server, while met2db keeps inserting and    *)
(* while an operator may run MET/rebuild.nc.sh.                            *)
(*                                                                         *)
(* A run is four statements under READ COMMITTED, each of which sees what  *)
(* is committed when it starts: Dates (the range of fresh times), Select   *)
(* (the fresh rows), then the file is written in chunks, then Mark (flag   *)
(* every fresh row within the range of Dates).  A row is its time t, the   *)
(* primary key of a ship's rows; times are 1 .. MaxTime.                   *)
(***************************************************************************)
EXTENDS Naturals, FiniteSets

CONSTANTS
  MaxTime,      \* bound: times a row may carry
  ChunkSize,    \* nToFetch, the rows written at a time
  InOrder,      \* rows arrive in the order of their times
  CopyPresent,  \* the copy's target file exists beforehand
  MayRebuild,   \* the operator runs rebuild.nc.sh, at most once
  MaxFaults     \* bound: dead runs and failed updates

Times == 1..MaxTime

ASSUME NumbersAssumption == MaxTime \in Nat /\ ChunkSize \in Nat \ {0} /\ MaxFaults \in Nat
ASSUME FlagsAssumption ==
  InOrder \in BOOLEAN /\ CopyPresent \in BOOLEAN /\ MayRebuild \in BOOLEAN

VARIABLES
  fresh,    \* rows with qNetCDF = false
  flagged,  \* rows with qNetCDF = true
  nc,       \* nc[t]: how often the row of time t is in the NetCDF file
  ncFile,   \* the NetCDF file exists
  copy,     \* the copy's contents, as nc
  copyFile, \* the copy exists
  temp,     \* contents of the temporary file of the running copy
  pc,       \* where the run is
  range,    \* the times between t0 and t1, {} when both are NULL
  todo,     \* selected rows that are not yet written
  cnt,      \* rows written by this run
  timer,    \* the timer unit is started
  rebuild,  \* where rebuild.nc.sh is
  overlap,  \* history: a run was under way at the script's UPDATE
  faults    \* faults so far

tableVars == <<fresh, flagged>>
fileVars  == <<nc, ncFile>>
copyVars  == <<copy, copyFile, temp>>
runVars   == <<pc, range, todo, cnt>>
opVars    == <<timer, rebuild, overlap>>
vars == <<fresh, flagged, nc, ncFile, copy, copyFile, temp, pc, range, todo,
          cnt, timer, rebuild, overlap, faults>>

Nothing == [t \in Times |-> 0]

TypeOK ==
  /\ fresh \subseteq Times /\ flagged \subseteq Times
  /\ nc \in [Times -> Nat] /\ ncFile \in BOOLEAN
  /\ copy \in [Times -> Nat] /\ copyFile \in BOOLEAN
  /\ temp \in [Times -> Nat]
  /\ pc \in {"idle", "dates", "select", "write", "mark", "copy", "publish"}
  /\ range \subseteq Times /\ todo \subseteq Times /\ cnt \in Nat
  /\ timer \in BOOLEAN
  /\ rebuild \in {"none", "stopped", "cleared", "removed", "done"}
  /\ overlap \in BOOLEAN
  /\ faults \in Nat

Init ==
  /\ fresh = {} /\ flagged = {}
  /\ nc = Nothing /\ ncFile = FALSE
  /\ copy = Nothing /\ copyFile = CopyPresent /\ temp = Nothing
  /\ pc = "idle" /\ range = {} /\ todo = {} /\ cnt = 0
  /\ timer = TRUE /\ rebuild = "none" /\ overlap = FALSE
  /\ faults = 0

------------------------------------------------------------------------------
(* met2db commits a row. *)

Rows == fresh \union flagged

Insert(t) ==
  /\ t \notin Rows
  /\ InOrder => \A s \in Rows : s < t
  /\ fresh' = fresh \union {t}
  /\ UNCHANGED <<flagged, fileVars, copyVars, runVars, opVars, faults>>

------------------------------------------------------------------------------
(* One run of db2nc.py *)

\* The service starts, takes its lock and builds an empty file if it must.
BeginRun ==
  /\ pc = "idle"
  /\ pc' = "dates"
  /\ ncFile' = TRUE
  /\ nc' = IF ncFile THEN nc ELSE Nothing
  /\ range' = {} /\ todo' = {} /\ cnt' = 0
  /\ UNCHANGED <<tableVars, copyVars, faults>>

Start == timer /\ BeginRun /\ UNCHANGED opVars

\* SELECT min(t), max(t) of the fresh rows.
Dates ==
  /\ pc = "dates"
  /\ range' = {t \in Times : \E a, b \in fresh : a <= t /\ t <= b}
  /\ pc' = "select"
  /\ UNCHANGED <<tableVars, fileVars, copyVars, todo, cnt, opVars, faults>>

\* Mutant: the times are converted to seconds one too early.
SelectEarly ==
  /\ pc = "select"
  /\ todo' = {t - 1 : t \in fresh}
  /\ pc' = IF fresh = {} THEN "idle" ELSE "write"
  /\ UNCHANGED <<tableVars, fileVars, copyVars, range, cnt, opVars, faults>>

\* Mutant: a run that would fill no chunk is put off.
SelectFullChunks ==
  /\ pc = "select"
  /\ todo' = fresh
  /\ pc' = IF Cardinality(fresh) < ChunkSize THEN "idle" ELSE "write"
  /\ UNCHANGED <<tableVars, fileVars, copyVars, range, cnt, opVars, faults>>

\* SELECT the fresh rows; with none the run is over.
Select ==
  /\ pc = "select"
  /\ todo' = fresh
  /\ pc' = IF fresh = {} THEN "idle" ELSE "write"
  /\ UNCHANGED <<tableVars, fileVars, copyVars, range, cnt, opVars, faults>>

\* The next rows of the result, in the order of their times.
Chunk == {t \in todo : Cardinality({s \in todo : s < t}) < ChunkSize}

\* Mutant: the loop over fetchmany ends after the first chunk.
WriteFirstChunk ==
  /\ pc = "write" /\ todo # {}
  /\ IF ncFile
       THEN /\ nc' = [t \in Times |-> nc[t] + (IF t \in Chunk THEN 1 ELSE 0)]
            /\ todo' = todo \ Chunk
            /\ cnt' = cnt + Cardinality(Chunk)
            /\ pc' = "mark"
       ELSE pc' = "idle" /\ UNCHANGED <<nc, todo, cnt>>
  /\ UNCHANGED <<tableVars, ncFile, copyVars, range, opVars, faults>>

\* writeNC appends a chunk; without the file it raises and the run is over.
WriteChunk ==
  /\ pc = "write" /\ todo # {}
  /\ IF ncFile
       THEN /\ nc' = [t \in Times |-> nc[t] + (IF t \in Chunk THEN 1 ELSE 0)]
            /\ todo' = todo \ Chunk
            /\ cnt' = cnt + Cardinality(Chunk)
            /\ pc' = IF todo' = {} THEN "mark" ELSE "write"
       ELSE pc' = "idle" /\ UNCHANGED <<nc, todo, cnt>>
  /\ UNCHANGED <<tableVars, ncFile, copyVars, range, opVars, faults>>

\* Mutant: the UPDATE does not repeat the range of times.
MarkAll ==
  /\ pc = "mark"
  /\ fresh' = {} /\ flagged' = Rows
  /\ pc' = "copy"
  /\ UNCHANGED <<fileVars, copyVars, range, todo, cnt, opVars, faults>>

\* UPDATE ... SET qNetCDF=true WHERE t0 <= t <= t1 AND qNetCDF=false; COMMIT.
Mark ==
  /\ pc = "mark"
  /\ fresh' = fresh \ range
  /\ flagged' = flagged \union (fresh \intersect range)
  /\ pc' = "copy"
  /\ UNCHANGED <<fileVars, copyVars, range, todo, cnt, opVars, faults>>

\* The UPDATE raises: ROLLBACK, a line in the log, and on with the copies.
MarkFails ==
  /\ pc = "mark" /\ faults < MaxFaults
  /\ faults' = faults + 1
  /\ pc' = "copy"
  /\ UNCHANGED <<tableVars, fileVars, copyVars, range, todo, cnt, opVars>>

\* The file is copied to a temporary one next to the target.
CopyFile ==
  /\ pc = "copy"
  /\ IF ncFile THEN temp' = nc /\ pc' = "publish"
               ELSE pc' = "idle" /\ UNCHANGED temp      \* open raises
  /\ UNCHANGED <<tableVars, fileVars, copy, copyFile, range, todo, cnt, opVars, faults>>

\* Mutant: the temporary file is never renamed.
PublishNoRename ==
  /\ pc = "publish" /\ pc' = "idle"
  /\ UNCHANGED <<tableVars, fileVars, copyVars, range, todo, cnt, opVars, faults>>

\* os.utime on the target, then rename over it; utime raises without a target.
Publish ==
  /\ pc = "publish"
  /\ copy' = IF copyFile THEN temp ELSE copy
  /\ pc' = "idle"
  /\ UNCHANGED <<tableVars, fileVars, copyFile, temp, range, todo, cnt, opVars, faults>>

\* The run dies; PostgreSQL rolls back what it had not committed.
Die ==
  /\ pc # "idle" /\ faults < MaxFaults
  /\ faults' = faults + 1
  /\ pc' = "idle"
  /\ UNCHANGED <<tableVars, fileVars, copyVars, range, todo, cnt, opVars>>

------------------------------------------------------------------------------
(* rebuild.nc.sh, one command after the other *)

Advance(from, to) == rebuild = from /\ rebuild' = to

RebuildStop ==
  /\ MayRebuild /\ Advance("none", "stopped")
  /\ timer' = FALSE
  /\ UNCHANGED <<tableVars, fileVars, copyVars, runVars, overlap, faults>>

RebuildClear ==
  /\ Advance("stopped", "cleared")
  /\ fresh' = Rows /\ flagged' = {}
  /\ overlap' = (pc # "idle")
  /\ UNCHANGED <<fileVars, copyVars, runVars, timer, faults>>

RebuildRemove ==
  /\ Advance("cleared", "removed")
  /\ ncFile' = FALSE /\ nc' = Nothing
  /\ UNCHANGED <<tableVars, copyVars, runVars, timer, overlap, faults>>

\* systemctl start of the service (which a running service absorbs) and timer.
RebuildStart ==
  /\ Advance("removed", "done")
  /\ timer' = TRUE /\ UNCHANGED overlap
  /\ IF pc = "idle" THEN BeginRun
                    ELSE UNCHANGED <<tableVars, fileVars, copyVars, runVars, faults>>

------------------------------------------------------------------------------
Run == Start \/ Dates \/ Select \/ WriteChunk \/ Mark \/ CopyFile \/ Publish

Script == RebuildClear \/ RebuildRemove \/ RebuildStart

Next == (\E t \in Times : Insert(t)) \/ Run \/ MarkFails \/ Die \/ RebuildStop \/ Script

Spec == Init /\ [][Next]_vars

\* The timer fires again and again, a run that does not die ends, and so does
\* a script that was started.
FairSpec == Spec /\ WF_vars(Run) /\ WF_vars(Script)

------------------------------------------------------------------------------
(* Properties *)

InFile(t) == nc[t] >= 1

\* A row whose flag says "in the NetCDF file" is in the NetCDF file: the flag
\* is the only thing a later run looks at, so such a row is otherwise lost.
\* Only rebuild.nc.sh breaks this, and only when a run was under way as it
\* cleared the flags (it stops the timer and does not wait for the service).
NoLostRow == overlap \/ \A t \in flagged : InFile(t)

\* The file holds each record once (db2nc.py 3: "Output fresh database
\* records to a growing NetCDF file").
NoDuplicate == \A t \in Times : nc[t] <= 1

\* Whatever ended the runs before it, a copy that is published holds every
\* record the database counts as exported.
PublishedCopyComplete ==
  [][copy' # copy => (overlap \/ \A t \in flagged : copy'[t] >= 1)]_vars

\* Every record reaches the file and is flagged.
EventuallyExported ==
  \A t \in Times : (t \in Rows) ~> (overlap \/ (InFile(t) /\ t \in flagged))

\* ... and the copy the web server shows (db2nc.py 98: "Only work with first
\* file, then rsync it to the others"), but for a run cut short before its copy.
EventuallyCopied ==
  \A t \in Times : (t \in Rows) ~> (overlap \/ faults > 0 \/ copy[t] >= 1)

==============================================================================
