------------------------------ MODULE RhibIngest ------------------------------
(***************************************************************************)
(* RHIB/rhib2db.py with RHIB/Monitor.py: inotify announces changes of the  *)
(* status files of the autonomous boats, the monitor holds a file back     *)
(* until it has been pending for two minutes and no event is waiting, and  *)
(* the thread RHIB stores the file's new records and the position it has   *)
(* reached in one transaction.                                             *)
(*                                                                         *)
(* The files come and grow through a synchronised folder.  A file may also *)
(* be truncated and written anew.  Positions count lines, all of a length; *)
(* the byte the reader steps back (line 258) is the end of the line before *)
(* and is parsed as an empty line.                                         *)
(***************************************************************************)
EXTENDS Naturals, Sequences

CONSTANTS
  Files,         \* the files that match the pattern
  Records,       \* what a line may hold: a row's table, ship and time
  Kinds,         \* Kinds[f]: the lines the boat may write to f
  MaxLines,      \* bound: MaxLines[f] lines of f
  MaxQueue,      \* bound: file names waiting for the thread RHIB
  MaxCrashes,    \* bound: spontaneous deaths
  MaxTruncations \* bound: truncations of files

\* other: a line without a record; raise: a date that does not convert.
Lines == Records \union {"other", "raise"}

ASSUME RecordsAssumption == Records \intersect {"other", "raise"} = {}
ASSUME KindsAssumption == Kinds \in [Files -> SUBSET Lines]
ASSUME BoundsAssumption ==
  /\ MaxLines \in [Files -> Nat] /\ MaxQueue \in Nat \ {0}
  /\ MaxCrashes \in Nat /\ MaxTruncations \in Nat

VARIABLES
  lines,      \* the complete lines of each file
  frag,       \* frag[f]: an unterminated line follows them
  phase,      \* the process: down, starting (no watch yet), up
  unscanned,  \* files the initial scan of the directory has yet to send
  events,     \* files in inotify's queue
  pending,    \* files the monitor holds back
  queue,      \* the files the thread RHIB has yet to read, first in, first out
  job,        \* the file being read and where from
  stored,     \* the records in tables rhibNav, rhibCTD and rhibADCP
  rhibPos,    \* table rhibPos, 0 for a file without an entry
  overgrown,  \* history: f was truncated and grew back up to its position
  crashes,    \* spontaneous deaths so far
  truncations \* truncations so far

fileVars == <<lines, frag, truncations>>
monitorVars == <<unscanned, events, pending>>
dbVars == <<stored, rhibPos, overgrown>>
vars == <<fileVars, phase, monitorVars, queue, job, dbVars, crashes>>

NoJob == [step |-> "idle"]

TypeOK ==
  /\ lines \in [Files -> Seq(Lines)] /\ frag \in [Files -> BOOLEAN]
  /\ phase \in {"down", "starting", "up"} /\ unscanned \subseteq Files
  /\ events \subseteq Files /\ pending \subseteq Files /\ queue \in Seq(Files)
  /\ job \in {NoJob} \union [step : {"opened"}, file : Files, spos : Nat]
  /\ stored \subseteq Records /\ rhibPos \in [Files -> Nat]
  /\ overgrown \in [Files -> BOOLEAN]
  /\ crashes \in Nat /\ truncations \in Nat

Init ==
  /\ lines = [f \in Files |-> <<>>] /\ frag = [f \in Files |-> FALSE]
  /\ phase = "starting" /\ unscanned = {}
  /\ events = {} /\ pending = {} /\ queue = <<>> /\ job = NoJob
  /\ stored = {} /\ rhibPos = [f \in Files |-> 0]
  /\ overgrown = [f \in Files |-> FALSE]
  /\ crashes = 0 /\ truncations = 0

------------------------------------------------------------------------------
(* The files.  A change is an event once the watch is set. *)

\* Mutant: the watch is set when the directory has been scanned.
EventAfterScan(f) ==
  events' = IF phase = "up" /\ unscanned = {} THEN events \union {f} ELSE events

Event(f) == events' = IF phase = "up" THEN events \union {f} ELSE events

AppendLine(f) ==
  /\ Len(lines[f]) < MaxLines[f]
  /\ \E k \in Kinds[f] : lines' = [lines EXCEPT ![f] = Append(@, k)]
  /\ frag' = [frag EXCEPT ![f] = FALSE]
  /\ overgrown' = [overgrown EXCEPT ![f] = @ \/ Len(lines[f]) + 1 = rhibPos[f]]
  /\ Event(f)
  /\ UNCHANGED <<truncations, phase, unscanned, pending, queue, job, stored, rhibPos, crashes>>

AppendPart(f) ==
  /\ Len(lines[f]) < MaxLines[f] /\ ~frag[f]
  /\ frag' = [frag EXCEPT ![f] = TRUE]
  /\ Event(f)
  /\ UNCHANGED <<lines, truncations, phase, unscanned, pending, queue, job, dbVars, crashes>>

Truncate(f) ==
  /\ truncations < MaxTruncations /\ lines[f] # <<>>
  /\ truncations' = truncations + 1
  /\ lines' = [lines EXCEPT ![f] = <<>>]
  /\ frag' = [frag EXCEPT ![f] = FALSE]
  /\ Event(f)
  /\ UNCHANGED <<phase, unscanned, pending, queue, job, dbVars, crashes>>

------------------------------------------------------------------------------
(* The monitor's thread *)

\* An event makes a file pending; a pending file's time is not moved.
Pend(f) ==
  /\ phase = "up" /\ f \in events
  /\ events' = events \ {f}
  /\ pending' = pending \union {f}
  /\ UNCHANGED <<fileVars, phase, unscanned, queue, job, dbVars, crashes>>

\* The wait for an event times out (queue.Empty) and the file's time is over.
Flush(f) ==
  /\ phase = "up" /\ f \in pending /\ events = {}
  /\ Len(queue) < MaxQueue
  /\ pending' = pending \ {f}
  /\ queue' = Append(queue, f)
  /\ UNCHANGED <<fileVars, phase, unscanned, events, job, dbVars, crashes>>

------------------------------------------------------------------------------
(* The thread RHIB *)

AtPosition(f) == rhibPos[f] = Len(lines[f]) /\ ~frag[f]

\* Mutant: a file shorter than its position is not recognised.
StartAtPosition(f) == rhibPos[f]

\* A file shorter than its position was truncated and is read from its start.
StartOf(f) == IF rhibPos[f] > Len(lines[f]) THEN 0 ELSE rhibPos[f]

\* The next name of the queue; BEGIN, the position, the size of the file.
Open ==
  /\ phase # "down" /\ job = NoJob /\ queue # <<>>
  /\ queue' = Tail(queue)
  /\ LET f == Head(queue)
     IN job' = IF AtPosition(f) THEN NoJob
               ELSE [step |-> "opened", file |-> f, spos |-> StartOf(f)]
  /\ UNCHANGED <<fileVars, phase, monitorVars, dbVars, crashes>>

\* The complete lines from spos to the end of the file.
LinesRead(f, spos) == {lines[f][i] : i \in {j \in 1..Len(lines[f]) : spos < j}}

\* A file cut short since Open yields nothing and keeps its position (the code
\* keeps it less the byte it steps back).
EndOf(f, spos) == IF spos > Len(lines[f]) THEN spos ELSE Len(lines[f])

\* Mutant: a line no parser knows is stored.
StoredFromAll(f, spos) == LinesRead(f, spos)

StoredFrom(f, spos) == LinesRead(f, spos) \intersect Records

\* Mutant: the position is recorded although a line raised.
StoreDespiteRaise ==
  /\ job # NoJob
  /\ LET f == job.file
     IN /\ stored' = IF "raise" \in LinesRead(f, job.spos) THEN stored
                     ELSE stored \union StoredFrom(f, job.spos)
        /\ rhibPos' = [rhibPos EXCEPT ![f] = EndOf(f, job.spos)]
  /\ job' = NoJob
  /\ UNCHANGED <<fileVars, phase, monitorVars, queue, overgrown, crashes>>

\* INSERT ... ON CONFLICT DO NOTHING for every record, the position, COMMIT;
\* a line that raises means ROLLBACK, and the thread goes on to other files.
Store ==
  /\ job # NoJob
  /\ LET f == job.file
     IN IF "raise" \in LinesRead(f, job.spos)
        THEN UNCHANGED dbVars
        ELSE /\ stored' = stored \union StoredFrom(f, job.spos)
             /\ rhibPos' = [rhibPos EXCEPT ![f] = EndOf(f, job.spos)]
             /\ overgrown' = [overgrown EXCEPT ![f] = @ /\ job.spos # 0]
  /\ job' = NoJob
  /\ UNCHANGED <<fileVars, phase, monitorVars, queue, crashes>>

------------------------------------------------------------------------------
(* The process.  The thread RHIB starts first, then the watch and the monitor, *)
(* then the main thread sends every file of the directory. *)

Watch ==
  /\ phase = "starting" /\ phase' = "up"
  /\ unscanned' = Files
  /\ UNCHANGED <<fileVars, events, pending, queue, job, dbVars, crashes>>

Scan(f) ==
  /\ phase = "up" /\ f \in unscanned /\ Len(queue) < MaxQueue
  /\ unscanned' = unscanned \ {f}
  /\ queue' = Append(queue, f)
  /\ UNCHANGED <<fileVars, phase, events, pending, job, dbVars, crashes>>

Crash ==
  /\ phase # "down" /\ crashes < MaxCrashes
  /\ crashes' = crashes + 1
  /\ phase' = "down" /\ unscanned' = {}
  /\ events' = {} /\ pending' = {} /\ queue' = <<>> /\ job' = NoJob
  /\ UNCHANGED <<fileVars, dbVars>>

Restart ==
  /\ phase = "down" /\ phase' = "starting"
  /\ UNCHANGED <<fileVars, monitorVars, queue, job, dbVars, crashes>>

------------------------------------------------------------------------------
Next ==
  \/ \E f \in Files : AppendLine(f) \/ AppendPart(f) \/ Truncate(f)
                      \/ Pend(f) \/ Flush(f) \/ Scan(f)
  \/ Open \/ Store \/ Watch \/ Crash \/ Restart

Spec == Init /\ [][Next]_vars

\* The threads of the process run, and systemd restarts it; the folder falls
\* quiet now and then, or no Flush would ever be possible.
Fairness ==
  /\ \A f \in Files : WF_vars(Pend(f)) /\ WF_vars(Flush(f)) /\ WF_vars(Scan(f))
  /\ WF_vars(Open) /\ WF_vars(Store) /\ WF_vars(Watch) /\ WF_vars(Restart)

FairSpec == Spec /\ Fairness

------------------------------------------------------------------------------
(* Properties *)

Holds(f, r) == \E i \in 1..Len(lines[f]) : lines[f][i] = r

\* The recorded position never passes a record that is not in the database,
\* unless the file was cut and grew back past its position before any reading
\* saw it shorter: then "File was truncated, so reprocess" (rhib2db.py 252)
\* does not happen.
NoSkippedUnlessOvergrown ==
  \A f \in Files : rhibPos[f] <= Len(lines[f]) =>
    overgrown[f] \/ \A i \in 1..rhibPos[f] : lines[f][i] \in Records => lines[f][i] \in stored

Members(q) == {q[i] : i \in 1..Len(q)}

Announced(f) == f \in unscanned \union events \union pending \union Members(queue)

Reading(f) == job # NoJob /\ job.file = f

\* While the process watches, a file that is not at its position is on its way
\* to the thread RHIB, is being read, or has been read and rolled back: no
\* change falls between the watch and the scan, or between two readings.
NoChangeForgotten ==
  \A f \in Files :
    phase = "up" /\ Len(lines[f]) # rhibPos[f] /\ ~Announced(f) /\ ~Reading(f)
      => "raise" \in LinesRead(f, StartOf(f))

\* Every record of a file reaches the database, whatever other files do and
\* whenever the process dies, unless the file is truncated first or one of its
\* own dates does not convert.
RecordsEventuallyStored ==
  \A f \in Files : \A r \in Records :
    Holds(f, r) ~> (r \in stored \/ ~Holds(f, r) \/ overgrown[f] \/ Holds(f, "raise"))

==============================================================================
