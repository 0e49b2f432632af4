------------------------------- MODULE CsvSync -------------------------------
(***************************************************************************)
(* A CSV file on its way to the other ship: Syncthing copies it, and there *)
(* the met2db of metsync.*.service reads the copy as it grows.             *)
(*                                                                         *)
(* What MetIngest shows step by step is one action here: a pass over the   *)
(* file, with its transaction.  Positions count lines; a part of a line at *)
(* the end is never read.  The file may become shorter under the reader.   *)
(***************************************************************************)
EXTENDS CsvExport

CONSTANTS
  MaxCrashes,  \* bound: spontaneous deaths of metsync
  None,        \* metsync has not seen a header
  Blank        \* the header of an empty file

ASSUME CrashesAssumption == MaxCrashes \in Nat
ASSUME MarksAssumption == None \notin Lines \union {Blank} /\ Blank \notin Lines

VARIABLES
  copy,       \* the lines of the copy
  copyFile,   \* the copy exists
  changed,    \* it differs from what the monitor's last scan saw
  announced,  \* it is in DB's queue
  header,     \* DB's header: the first line of the copy when it was first read
  position,   \* where DB's last pass ended
  fpos,       \* table filePosition, 0 without an entry
  met,        \* the exporting ship's rows in this ship's table
  up,         \* metsync runs
  crashes     \* spontaneous deaths so far

copyVars == <<copy, copyFile>>
processVars == <<changed, announced, header, position, up>>
dbVars == <<fpos, met>>
syncVars == <<copyVars, processVars, dbVars, crashes>>
vars == <<exportVars, syncVars>>

SyncTypeOK ==
  /\ copy \in Seq(Lines) /\ copyFile \in BOOLEAN
  /\ changed \in BOOLEAN /\ announced \in BOOLEAN /\ up \in BOOLEAN
  /\ header \in Lines \union {None, Blank}
  /\ position \in Nat /\ fpos \in Nat /\ crashes \in Nat
  /\ met \subseteq Times \union {Forged}

TypeOK == ExportTypeOK /\ SyncTypeOK

Init ==
  /\ ExportInit
  /\ copy = <<>> /\ copyFile = FALSE
  /\ changed = FALSE /\ announced = FALSE /\ header = None /\ position = 0
  /\ up = TRUE /\ fpos = 0 /\ met = {} /\ crashes = 0

\* Syncthing takes the file as it is, or its removal.
Sync ==
  /\ <<csv, csvFile>> # copyVars
  /\ copy' = csv /\ copyFile' = csvFile
  /\ changed' = TRUE
  /\ UNCHANGED <<announced, header, position, up, dbVars, crashes>>

\* The polling monitor finds another size or time and announces the file.
Notify ==
  /\ up /\ changed /\ copyFile
  /\ changed' = FALSE /\ announced' = TRUE
  /\ UNCHANGED <<copyVars, header, position, up, dbVars, crashes>>

\* The process ends.  Its unit names no Restart.
Gone ==
  /\ up' = FALSE
  /\ changed' = TRUE /\ announced' = FALSE /\ header' = None /\ position' = 0
  /\ UNCHANGED <<copyVars, dbVars>>

Crash == up /\ crashes < MaxCrashes /\ crashes' = crashes + 1 /\ Gone

\* The computer is booted, or somebody starts the unit.
Boot ==
  /\ ~up /\ up' = TRUE
  /\ UNCHANGED <<copyVars, changed, announced, header, position, dbVars, crashes>>

\* Mutant: fields are not counted.
FitsAny(line, hdr) == hdr # Blank

\* Lines with as many fields as the header.
Fits(line, hdr) == hdr # Blank /\ (line = Bad <=> hdr = Bad)

\* Mutant: nothing is read again, so the skip to a newline eats a line.
LoadedPastLine == IF header # None THEN position
                  ELSE IF fpos # 0 THEN fpos + 1 ELSE IF copy = <<>> THEN 0 ELSE 1

\* Where to begin: on first sight behind the header, or where the table says.
Loaded == IF header # None THEN position
          ELSE IF fpos # 0 THEN fpos ELSE IF copy = <<>> THEN 0 ELSE 1

HeaderRead == IF header # None THEN header ELSE IF copy = <<>> THEN Blank ELSE copy[1]

\* Rows are inserted, ON CONFLICT DO NOTHING, and the position recorded, unless
\* nothing is new; a header that names no column makes every INSERT fail.
Pass(start, hdr) ==
  LET new == {i \in 1..Len(copy) : start < i}
      fit == {i \in new : Fits(copy[i], hdr)}
  IN /\ header' = hdr
     /\ position' = IF new = {} THEN start ELSE Len(copy)
     /\ IF new # {} /\ (hdr = Header \/ fit = {})
          THEN /\ fpos' = Len(copy)
               /\ met' = met \union {copy[i] : i \in fit}
          ELSE UNCHANGED dbVars
     /\ UNCHANGED <<copyVars, changed, up>>

\* DB takes the file from its queue.  Without the file, in an empty one
\* (seek(-1)), and at a time that does not convert, it raises.
Ingest ==
  /\ up /\ announced
  /\ LET raises ==
           \/ ~copyFile \/ Loaded = 0
           \/ /\ HeaderRead = Header
              /\ \E i \in 1..Len(copy) : Loaded < i /\ copy[i] = Unreadable
     IN CASE raises -> Gone
          [] ~raises /\ fpos # 0 /\ fpos = Len(copy) ->
               announced' = FALSE /\ UNCHANGED <<copyVars, changed, header, position, up, dbVars>>
          [] OTHER -> announced' = FALSE /\ Pass(Loaded, HeaderRead)
  /\ UNCHANGED crashes

------------------------------------------------------------------------------
Metsync == Notify \/ Ingest \/ Crash \/ Boot

Next == (Export /\ UNCHANGED syncVars) \/ ((Sync \/ Metsync) /\ UNCHANGED exportVars)

Spec == Init /\ [][Next]_vars

\* The timer fires again and again, a run and a script that was started end,
\* met2db reads what it has read before, Syncthing and the threads of metsync
\* go on.  Nobody need boot.
FairSpec ==
  /\ Spec
  /\ WF_vars(Run /\ UNCHANGED syncVars) /\ WF_vars(Script /\ UNCHANGED syncVars)
  /\ WF_vars(Reload /\ UNCHANGED syncVars)
  /\ WF_vars(Sync /\ UNCHANGED exportVars)
  /\ WF_vars(Notify /\ UNCHANGED exportVars) /\ WF_vars(Ingest /\ UNCHANGED exportVars)

------------------------------------------------------------------------------
(* Properties *)

Rebuilt == script \in {"removed", "done"}

\* The lines of the file are where a reader of an earlier file expects them.
Aligned == ~(overlap \/ headless \/ rearranged \/ (Rebuilt /\ disorder))

\* A row behind the recorded position is in the other ship's table: no line of
\* the copy is skipped for good, whatever run broke, within a line too, and
\* whichever process died.  A rebuilt file begins shorter than the position
\* (DB.py 117 does not look) and skips nothing as long as the file before it
\* was in order.
NoSkippedAtOther ==
  Aligned => \A i \in 1..Len(copy) : i <= fpos /\ copy[i] \in Times => copy[i] \in met

\* Only a time broken off and glued, a file that is empty or gone, and a death
\* from outside end metsync, which nothing starts again
\* (metsync.pe.service 25).
EndsForAReason == up \/ crashes > 0 \/ tears > 0 \/ headless \/ Rebuilt

\* A row that reached one ship's table reaches the other's.
EventuallyAtOther ==
  \A t \in Times : (t \in Rows) ~> (t \in met \/ ~up \/ tears > 0 \/ ~Aligned)

==============================================================================
