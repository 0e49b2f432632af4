------------------------------ MODULE MetIngest ------------------------------
(***************************************************************************)
(* MET/met2db.py: the thread DB reads the growing files of the ship's data *)
(* acquisition system and stores their rows in the PostgreSQL table met.   *)
(*                                                                         *)
(* One pass over a file is Open (recorded position, header), Read (every   *)
(* complete line up to the end of the file, inserted in a transaction) and *)
(* Finish (record the new position, then COMMIT or ROLLBACK).  The files   *)
(* grow, by lines or by parts of lines, and the process dies, between any  *)
(* two of these steps.                                                     *)
(*                                                                         *)
(* Positions count lines.  A byte offset inside the header line is counted *)
(* as 1, the end of that line: the reader steps back `backup' bytes and    *)
(* then skips to a newline before it parses anything (DB.py 117-120).      *)
(***************************************************************************)
EXTENDS Naturals, Sequences

CONSTANTS
  Files,        \* the files that match the ship's regexp
  Kinds,        \* Kinds[f] are the kinds of data lines file f may hold
  Layout,       \* Layout[f] is the column layout of file f's header
  Whole,        \* files that appear with their whole header line
  AutoRestart,  \* the unit has Restart=always (met.*.service)
  MaxLines,     \* bound: MaxLines[f] lines in file f, header included
  MaxCrashes    \* bound: spontaneous deaths of the process

(***************************************************************************)
(* row:    as many fields as the header, PostgreSQL accepts the values     *)
(* short:  another number of fields                                        *)
(* sqlbad: PostgreSQL refuses the INSERT, which aborts the transaction     *)
(* raise:  the date or the time does not convert in Python                 *)
(*                                                                         *)
(* The date and the time are the first two columns of a ship's files, as   *)
(* in Faux/sample.csv.bz2; the layouts have the same number of columns and *)
(* differ in the order of plain numbers, which are all of type REAL.       *)
(***************************************************************************)
LineKinds == {"row", "short", "sqlbad", "raise"}

ASSUME KindsAssumption ==
  /\ Kinds \in [Files -> SUBSET LineKinds]
  /\ Whole \subseteq Files
ASSUME BoundsAssumption == MaxLines \in [Files -> Nat] /\ MaxCrashes \in Nat
ASSUME FlagsAssumption == AutoRestart \in BOOLEAN
ASSUME LayoutAssumption == Layout \in [Files -> {"a", "b"}]

\* The files that do nothing to break a pass over them.
Trusted == {f \in Whole : "sqlbad" \notin Kinds[f]}

VARIABLES
  lines,     \* lines[f]: kinds of the complete lines of f, the header first
  frag,      \* frag[f]: an unterminated part of a line follows them
  changed,   \* changed[f]: f differs from what the monitor's last scan saw
  queue,     \* files the monitor has announced and DB has not yet taken
  met,       \* table met: records of file, line and the map it was read by
  fpos,      \* table filePosition, 0 for a file without an entry
  up,        \* the process runs
  header,    \* DB.runIt's dictionary: how many of f's columns it saw
  position,  \* DB.runIt's dictionary: end of the last pass over f
  colmap,    \* Config's column map, one for the whole process
  job,       \* the pass over a file in progress
  timeless,  \* history: lines of passes refused because colmap had no time
  crashes    \* spontaneous deaths so far

fileVars == <<lines, frag>>
dbVars   == <<met, fpos>>
memVars  == <<header, position, colmap>>
vars == <<lines, frag, changed, queue, met, fpos, up, header, position,
          colmap, job, timeless, crashes>>

Lines == {"header"} \union LineKinds

\* A column map: `all' the columns of the table, `timed' some of them, the
\* date and the time included, or `few', the time not included.
Maps == [layout : {"a", "b"}, columns : {"few", "timed", "all"}]
NoMap == [layout |-> "none", columns |-> "none"]

Row(f, i, m) == [file |-> f, line |-> i, map |-> m]
RowType == [file : Files, line : Nat, map : Maps]
NoJob == [step |-> "idle"]
OpenedJob == [step : {"opened"}, file : Files]
ReadJob == [step : {"read"}, file : Files, spos : Nat, epos : Nat,
            rows : SUBSET Nat, ok : BOOLEAN]

TypeOK ==
  /\ lines \in [Files -> Seq(Lines)]
  /\ frag \in [Files -> BOOLEAN]
  /\ changed \in [Files -> BOOLEAN]
  /\ queue \subseteq Files
  /\ met \subseteq RowType
  /\ fpos \in [Files -> Nat]
  /\ up \in BOOLEAN
  /\ header \in [Files -> {"none", "one", "fewer", "full"}]
  /\ position \in [Files -> Nat]
  /\ colmap \in Maps \union {NoMap}
  /\ job \in {NoJob} \union OpenedJob \union ReadJob
  /\ timeless \subseteq Files \X Nat
  /\ crashes \in Nat

Init ==
  /\ lines = [f \in Files |-> <<>>]
  /\ frag = [f \in Files |-> FALSE]
  /\ changed = [f \in Files |-> TRUE]
  /\ queue = {}
  /\ met = {}
  /\ fpos = [f \in Files |-> 0]
  /\ up = TRUE
  /\ header = [f \in Files |-> "none"]
  /\ position = [f \in Files |-> 0]
  /\ colmap = NoMap
  /\ job = NoJob
  /\ timeless = {}
  /\ crashes = 0

------------------------------------------------------------------------------
(* The files *)

\* The end of a line arrives; a file's first line is its header.
AppendLine(f) ==
  /\ Len(lines[f]) < MaxLines[f]
  /\ \E k \in IF lines[f] = <<>> THEN {"header"} ELSE Kinds[f] :
       lines' = [lines EXCEPT ![f] = Append(@, k)]
  /\ frag' = [frag EXCEPT ![f] = FALSE]
  /\ changed' = [changed EXCEPT ![f] = TRUE]
  /\ UNCHANGED <<queue, dbVars, up, memVars, job, timeless, crashes>>

\* Part of a line arrives, cut anywhere by the writer's buffering.
AppendPart(f) ==
  /\ Len(lines[f]) < MaxLines[f] /\ ~frag[f]
  /\ lines[f] # <<>> \/ f \notin Whole
  /\ frag' = [frag EXCEPT ![f] = TRUE]
  /\ changed' = [changed EXCEPT ![f] = TRUE]
  /\ UNCHANGED <<lines, queue, dbVars, up, memVars, job, timeless, crashes>>

Empty(f) == lines[f] = <<>> /\ ~frag[f]

\* The monitor thread announces a file whose size or mtime changed.
Notify(f) ==
  /\ up /\ changed[f]
  /\ ~Empty(f) \/ f \notin Whole   \* a file may exist before its header does
  /\ changed' = [changed EXCEPT ![f] = FALSE]
  /\ queue' = queue \union {f}
  /\ UNCHANGED <<fileVars, dbVars, up, memVars, job, timeless, crashes>>

------------------------------------------------------------------------------
(* The process *)

\* What a death leaves behind: the open transaction is gone, and so is all
\* memory; the next process scans the directory from nothing.
Gone ==
  /\ up' = FALSE
  /\ queue' = {}
  /\ changed' = [f \in Files |-> TRUE]
  /\ header' = [f \in Files |-> "none"]
  /\ position' = [f \in Files |-> 0]
  /\ colmap' = NoMap
  /\ job' = NoJob
  /\ UNCHANGED <<fileVars, dbVars, timeless>>

Crash == up /\ crashes < MaxCrashes /\ crashes' = crashes + 1 /\ Gone

\* Mutant: the DROP TABLE commented out in Config.mkTable is back.
RestartDropsTable ==
  /\ ~up /\ AutoRestart
  /\ up' = TRUE /\ met' = {}
  /\ UNCHANGED <<fileVars, changed, queue, fpos, memVars, job, timeless, crashes>>

Restart ==
  /\ ~up /\ AutoRestart
  /\ up' = TRUE
  /\ UNCHANGED <<fileVars, changed, queue, dbVars, memVars, job, timeless, crashes>>

\* The recorded position is the size of the file: nothing new in it.
AlreadyProcessed(f) == fpos[f] # 0 /\ fpos[f] = Len(lines[f]) /\ ~frag[f]

\* What the first line of f shows: as many fields as its rows have or not,
\* and the columns they map.  A header whose end has not arrived may be cut in
\* its first field, in its last, which leaves the number of fields right, or
\* between the two.
HeaderSeen(f) ==
  IF lines[f] # <<>> THEN {<<"full", "all">>}
  ELSE {<<"one", "few">>} \union ({"fewer"} \X {"few", "timed", "all"})
                          \union ({"full"} \X {"timed", "all"})

\* Mutant: the header is read but its columns are not mapped.
LoadHeaderUnmapped(f) ==
  /\ \E seen \in HeaderSeen(f) : header' = [header EXCEPT ![f] = seen[1]]
  /\ position' = [position EXCEPT ![f] = IF fpos[f] = 0 THEN 1 ELSE fpos[f]]
  /\ UNCHANGED colmap

\* First sight of f in this process: read its header, and map its columns in
\* place of those of the file before.
LoadHeader(f) ==
  /\ \E seen \in HeaderSeen(f) :
       /\ header' = [header EXCEPT ![f] = seen[1]]
       /\ colmap' = [layout |-> Layout[f], columns |-> seen[2]]
  /\ position' = [position EXCEPT ![f] = IF fpos[f] = 0 THEN 1 ELSE fpos[f]]

\* Take a file from the queue, look up its position, load its header.
Open(f) ==
  /\ up /\ job = NoJob /\ f \in queue
  /\ IF Empty(f) /\ header[f] = "none"
       THEN Gone /\ UNCHANGED crashes     \* seek(-1) raises
       ELSE /\ queue' = queue \ {f}
            /\ IF AlreadyProcessed(f)
                 THEN UNCHANGED <<memVars, job>>
                 ELSE /\ IF header[f] = "none" THEN LoadHeader(f) ELSE UNCHANGED memVars
                      /\ job' = [step |-> "opened", file |-> f]
            /\ UNCHANGED <<fileVars, changed, dbVars, up, timeless, crashes>>

\* Mutant: no byte is read again, so the skip to a newline eats a line.
StartOfNoBackup(f) == IF position[f] = 0 THEN 2 ELSE position[f] + 1

\* The first line to parse: where the last pass ended, never the header.
StartOf(f) == IF position[f] = 0 THEN 1 ELSE position[f]

\* Mutant: the unterminated part is not kept back.
EndOfWithPart(f, spos) == Len(lines[f]) + (IF frag[f] THEN 1 ELSE 0)

\* The last complete line, the one before the part kept in `buffer'.
EndOf(f, spos) == IF spos < Len(lines[f]) THEN Len(lines[f]) ELSE spos

\* Whether a line of kind k may have as many fields as what was seen of the
\* header: under a torn header a short line may, and no other does.
Fits(h, k) == IF h = "full" THEN k # "short" ELSE k = "short"

\* What may become of a line of kind k, compared with header h and handed to
\* insertRow with a map of columns c.  Without a time the INSERT is refused; a
\* bad value is not looked at if its column is not mapped; a short line may
\* hold anything, and end before the columns of another file's map do.
Outcomes == {"skipped", "stored", "refused", "raised"}
Fates(h, c, k) ==
  IF ~Fits(h, k) THEN {"skipped"}
  ELSE {o \in Outcomes :
          \/ o = "skipped" /\ k = "short"
          \/ o = "stored"  /\ h # "one" /\ c # "few"
                           /\ (k \in {"row", "short"} \/ (k = "sqlbad" /\ c = "timed"))
          \/ o = "refused" /\ (c = "few" \/ k = "sqlbad" \/ (k = "short" /\ h = "fewer"))
          \/ o = "raised"  /\ k \in {"raise", "short"}}

\* split() leaves an empty string after the last newline; it has one field.
EmptyEnd(f, spos, epos) ==
  IF header[f] = "one" /\ spos < epos /\ ~frag[f]
  THEN {IF colmap.columns = "few" THEN "refused" ELSE "raised"} ELSE {}

\* BEGIN, then every complete line from the start position to the end of file.
Read ==
  /\ up /\ job.step = "opened"
  /\ LET f    == job.file
         spos == StartOf(f)
         epos == EndOf(f, spos)
         new  == {i \in 1..Len(lines[f]) : spos < i /\ i <= epos}
     IN \E fate \in [new -> Outcomes] :
          /\ \A i \in new : fate[i] \in Fates(header[f], colmap.columns, lines[f][i])
          /\ LET fates == {fate[i] : i \in new} \union EmptyEnd(f, spos, epos)
             IN IF "raised" \in fates
                THEN Gone /\ UNCHANGED crashes
                ELSE /\ job' = [step |-> "read", file |-> f, spos |-> spos, epos |-> epos,
                                rows |-> {i \in new : fate[i] = "stored"},
                                ok |-> "refused" \notin fates]
                     /\ UNCHANGED <<fileVars, changed, queue, dbVars, up, memVars,
                                    timeless, crashes>>

\* The lines of the pass in progress, if no INSERT of it could give a time.
TimelessLines ==
  {<<job.file, i>> : i \in IF colmap.columns = "few" THEN (job.spos + 1)..job.epos ELSE {}}

\* Mutant: the rows are committed, the position stays in memory only.
FinishRowsOnly ==
  /\ up /\ job.step = "read"
  /\ IF job.spos # job.epos /\ job.ok
       THEN met' = met \union {Row(job.file, i, colmap) : i \in job.rows} /\ UNCHANGED timeless
       ELSE timeless' = timeless \union TimelessLines /\ UNCHANGED met
  /\ position' = [position EXCEPT ![job.file] = job.epos]
  /\ job' = NoJob
  /\ UNCHANGED <<fileVars, fpos, changed, queue, up, header, colmap, crashes>>

\* filePosition.set and COMMIT, or ROLLBACK.  An aborted transaction refuses
\* filePosition.set too.  The position in memory advances in every case.
Finish ==
  /\ up /\ job.step = "read"
  /\ IF job.spos # job.epos /\ job.ok
       THEN /\ met' = met \union {Row(job.file, i, colmap) : i \in job.rows}
            /\ fpos' = [fpos EXCEPT ![job.file] = job.epos]
            /\ UNCHANGED timeless
       ELSE timeless' = timeless \union TimelessLines /\ UNCHANGED dbVars
  /\ position' = [position EXCEPT ![job.file] = job.epos]
  /\ job' = NoJob
  /\ UNCHANGED <<fileVars, changed, queue, up, header, colmap, crashes>>

Next ==
  \/ \E f \in Files : AppendLine(f) \/ AppendPart(f) \/ Notify(f) \/ Open(f)
  \/ Read \/ Finish \/ Crash \/ Restart

Spec == Init /\ [][Next]_vars

\* The threads of a live process run and systemd restarts a dead one; the
\* instruments may stop at any time and need not die.
Fairness ==
  /\ \A f \in Files : WF_vars(Notify(f)) /\ WF_vars(Open(f))
  /\ WF_vars(Read) /\ WF_vars(Finish) /\ WF_vars(Restart)

FairSpec == Spec /\ Fairness

------------------------------------------------------------------------------
(* Properties *)

Stored(f, i) == \E r \in met : r.file = f /\ r.line = i

\* The recorded position never passes a row that is not in the table: no row
\* of a file is skipped for good (MET/README.md promises full density).
NoSkippedRow ==
  \A f \in Files : \A i \in 1..Len(lines[f]) :
    i <= fpos[f] /\ lines[f][i] = "row" => Stored(f, i)

\* The same of the trusted files, whatever the other files do to the
\* transactions and the process, but for the lines of a pass that was refused
\* because the header of another file, seen before its time column had
\* arrived, had replaced the column map: the position in memory has moved
\* past them, and a later COMMIT records one beyond them (DB.py 115, 121).
NoSkippedTrustedRow ==
  \A f \in Trusted : \A i \in 1..Len(lines[f]) :
    i <= fpos[f] /\ lines[f][i] = "row" => Stored(f, i) \/ <<f, i>> \in timeless

\* Rows and position are one transaction: a stored line lies behind the
\* recorded position, so no pass, after any death, stores it again.  It is
\* complete and never the header, and of a trusted file it is a row.
StoredBehindPosition ==
  \A r \in met : /\ r.line <= fpos[r.file]
                 /\ r.line \in 2..Len(lines[r.file])
                 /\ r.file \in Trusted => lines[r.file][r.line] = "row"

\* A recorded position only grows and a stored row stays.
Monotone ==
  [][/\ met \subseteq met'
     /\ \A f \in Files : fpos[f] <= fpos'[f]]_dbVars

\* Every row is stored under its own file's header, with all its columns
\* (DB.py 99 keeps "Column headers for each file").
RowsUnderOwnHeader ==
  \A r \in met : r.map = [layout |-> Layout[r.file], columns |-> "all"]

\* A file that kills the process each time it is taken from the queue.
Poisonous(f) == Empty(f) \/ \E i \in 1..Len(lines[f]) : lines[f][i] = "raise"

\* Every complete row of a trusted file is eventually in the table: only a
\* poisonous file, its own or another, can keep it out, or a pass that had no
\* time column to give it and is not repeated while the process lives.
RowsEventuallyStored ==
  \A f \in Trusted : \A i \in 2..MaxLines[f] :
    (i <= Len(lines[f]) /\ lines[f][i] = "row")
      ~> (Stored(f, i) \/ <<f, i>> \in timeless \/ \E g \in Files : Poisonous(g))

\* What the component promises of its trusted files.
Abstract == INSTANCE IncrementalIngest WITH
  Files <- Trusted, Kinds <- Lines, RowKinds <- {"row"},
  file <- [f \in Trusted |-> lines[f]], pos <- [f \in Trusted |-> fpos[f]],
  stored <- {<<r.file, r.line>> : r \in {q \in met : q.file \in Trusted}},
  dropped <- {x \in timeless : x[1] \in Trusted}

RefinesIncrementalIngest == Abstract!Spec

==============================================================================
