--------------------------- MODULE MetIngestProofs ---------------------------
(***************************************************************************)
(* Proofs about MetIngest, for every set of files and every content.       *)
(***************************************************************************)
EXTENDS MetIngest, TLAPS

(***************************************************************************)
(* The inductive invariant.  Neither TypeOK nor the two safety properties  *)
(* is inductive: that a committed row has a layout needs Mapped, that the  *)
(* recorded position stays behind needs Positions, what a commit adds is   *)
(* known from the pass it ends, PassInv, and what it passes by from the    *)
(* passes that were refused before it, TrustedInv.                         *)
(***************************************************************************)

\* Whatever pass is under way, its header and the column map are loaded.
Mapped ==
  /\ \A f \in Files : header[f] # "none" => colmap \in Maps
  /\ job # NoJob => header[job.file] # "none"

\* Memory is never behind the database, the database never ahead of the file.
Positions ==
  \A f \in Files :
    /\ fpos[f] <= Len(lines[f])
    /\ header[f] # "none" => 1 <= position[f] /\ fpos[f] <= position[f]

\* A file that appears with its header is met with it; where all files do, no
\* map is ever without the time.
WholeInv ==
  /\ \A f \in Whole : frag[f] \/ f \in queue \/ header[f] # "none" => lines[f] # <<>>
  /\ Whole = Files => colmap.columns # "few" /\ timeless = {}

\* A trusted file's header is known whole; the lines by which memory is ahead
\* of the database are those of passes that could give no time.
TrustedInv ==
  \A f \in Trusted :
    /\ \A i \in 1..Len(lines[f]) :
         lines[f][i] # "sqlbad" /\ (i = 1 <=> lines[f][i] = "header")
    /\ header[f] # "none" =>
         /\ header[f] = "full"
         /\ \A i \in 2..position[f] : fpos[f] < i => <<f, i>> \in timeless

NewLines(f, spos, epos) == {i \in 1..Len(lines[f]) : spos < i /\ i <= epos}

RowsOf(f, spos, epos) ==
  {i \in 1..Len(lines[f]) : spos < i /\ i <= epos /\ lines[f][i] = "row"}

\* What a finished reading knows.
PassInv ==
  job.step = "read" =>
    /\ job.spos = position[job.file] /\ job.spos <= job.epos
    /\ job.epos = job.spos \/ job.epos <= Len(lines[job.file])
    /\ job.rows \subseteq NewLines(job.file, job.spos, job.epos)
    /\ job.file \in Trusted =>
         /\ job.rows \subseteq RowsOf(job.file, job.spos, job.epos)
         /\ job.ok => job.rows = RowsOf(job.file, job.spos, job.epos)
         /\ ~job.ok => colmap.columns = "few"

IInv ==
  /\ TypeOK /\ Mapped /\ Positions /\ WholeInv /\ TrustedInv /\ PassInv
  /\ StoredBehindPosition /\ NoSkippedTrustedRow

------------------------------------------------------------------------------
LEMMA TrustedFiles == Trusted \subseteq Files /\ \A f \in Trusted : "sqlbad" \notin Kinds[f]
BY KindsAssumption DEF Trusted

LEMMA InitTypeOK == Init => TypeOK
BY DEF Init, TypeOK

LEMMA LoadHeaderTypes ==
  ASSUME TypeOK, NEW f \in Files, LoadHeader(f)
  PROVE  /\ header' \in [Files -> {"none", "one", "fewer", "full"}]
         /\ header'[f] # "none" /\ (lines[f] # <<>> => header'[f] = "full")
         /\ colmap' \in Maps /\ (lines[f] # <<>> => colmap'.columns # "few")
         /\ position' \in [Files -> Nat]
         /\ position'[f] = IF fpos[f] = 0 THEN 1 ELSE fpos[f]
         /\ \A g \in Files \ {f} : header'[g] = header[g] /\ position'[g] = position[g]
<1>1. PICK seen \in HeaderSeen(f) :
        /\ header' = [header EXCEPT ![f] = seen[1]]
        /\ colmap' = [layout |-> Layout[f], columns |-> seen[2]]
  BY DEF LoadHeader
<1>2. /\ seen[1] \in {"one", "fewer", "full"} /\ seen[2] \in {"few", "timed", "all"}
      /\ lines[f] # <<>> => seen = <<"full", "all">>
  BY DEF HeaderSeen
<1>3. colmap' \in Maps
  BY <1>1, <1>2, LayoutAssumption DEF Maps
<1>4. position' = [position EXCEPT ![f] = IF fpos[f] = 0 THEN 1 ELSE fpos[f]]
  BY DEF LoadHeader
<1> QED BY <1>1, <1>2, <1>3, <1>4 DEF TypeOK

(***************************************************************************)
(* What a reading leaves: a death, or the record of the pass.  Of a file   *)
(* with a whole header and no sqlbad line, exactly the rows are stored, or *)
(* nothing is because the map has no time.                                 *)
(***************************************************************************)
LEMMA ReadOutcome ==
  ASSUME Read, NEW f, f = job.file, NEW spos, spos = StartOf(f), NEW epos, epos = EndOf(f, spos)
  PROVE  \/ Gone /\ UNCHANGED crashes
         \/ \E rows \in SUBSET NewLines(f, spos, epos), ok \in BOOLEAN :
              /\ job' = [step |-> "read", file |-> f, spos |-> spos, epos |-> epos,
                         rows |-> rows, ok |-> ok]
              /\ UNCHANGED <<fileVars, changed, queue, dbVars, up, memVars, timeless, crashes>>
              /\ (header[f] = "full" /\ \A i \in 1..Len(lines[f]) : lines[f][i] # "sqlbad")
                   => /\ \A i \in rows : lines[f][i] \notin {"short", "sqlbad", "raise"}
                      /\ ok => \A i \in NewLines(f, spos, epos) : lines[f][i] = "row" => i \in rows
                      /\ ~ok => colmap.columns = "few"
<1> DEFINE F == job.file
           S == StartOf(F)
           E == EndOf(F, S)
<1>0. \E fate \in [NewLines(F, S, E) -> Outcomes] :
        /\ \A i \in NewLines(F, S, E) :
             fate[i] \in Fates(header[F], colmap.columns, lines[F][i])
        /\ LET fates == {fate[i] : i \in NewLines(F, S, E)} \union EmptyEnd(F, S, E)
           IN IF "raised" \in fates
              THEN Gone /\ UNCHANGED crashes
              ELSE /\ job' = [step |-> "read", file |-> F, spos |-> S, epos |-> E,
                              rows |-> {i \in NewLines(F, S, E) : fate[i] = "stored"},
                              ok |-> "refused" \notin fates]
                   /\ UNCHANGED <<fileVars, changed, queue, dbVars, up, memVars,
                                  timeless, crashes>>
  BY DEF Read, NewLines
<1>1. PICK fate \in [NewLines(f, spos, epos) -> Outcomes] :
        /\ \A i \in NewLines(f, spos, epos) :
             fate[i] \in Fates(header[f], colmap.columns, lines[f][i])
        /\ LET fates == {fate[i] : i \in NewLines(f, spos, epos)} \union EmptyEnd(f, spos, epos)
           IN IF "raised" \in fates
              THEN Gone /\ UNCHANGED crashes
              ELSE /\ job' = [step |-> "read", file |-> f, spos |-> spos, epos |-> epos,
                              rows |-> {i \in NewLines(f, spos, epos) : fate[i] = "stored"},
                              ok |-> "refused" \notin fates]
                   /\ UNCHANGED <<fileVars, changed, queue, dbVars, up, memVars,
                                  timeless, crashes>>
  BY <1>0
<1> DEFINE New == NewLines(f, spos, epos)
           fates == {fate[i] : i \in New} \union EmptyEnd(f, spos, epos)
           rows == {i \in New : fate[i] = "stored"}
           ok == "refused" \notin fates
<1>2. ASSUME header[f] = "full", \A i \in 1..Len(lines[f]) : lines[f][i] # "sqlbad"
      PROVE  /\ \A i \in rows : lines[f][i] \notin {"short", "sqlbad", "raise"}
             /\ ok => \A i \in New : lines[f][i] = "row" => i \in rows
             /\ ~ok => colmap.columns = "few"
  <2>1. \A i \in New : lines[f][i] # "sqlbad"
    BY <1>2 DEF NewLines
  <2>2. \A i \in New :
          /\ fate[i] = "stored" => lines[f][i] \notin {"short", "sqlbad", "raise"}
          /\ lines[f][i] = "row" => fate[i] \in {"stored", "refused"}
          /\ fate[i] = "refused" => colmap.columns = "few"
    BY <1>1, <1>2, <2>1 DEF Fates, Fits
  <2>3. EmptyEnd(f, spos, epos) = {}
    BY <1>2 DEF EmptyEnd
  <2> QED BY <2>2, <2>3
<1>3. CASE "raised" \in fates
  BY <1>1, <1>3
<1>4. CASE "raised" \notin fates
  <2>1. /\ job' = [step |-> "read", file |-> f, spos |-> spos, epos |-> epos,
                   rows |-> rows, ok |-> ok]
        /\ UNCHANGED <<fileVars, changed, queue, dbVars, up, memVars, timeless, crashes>>
    BY <1>1, <1>4
  <2>2. rows \in SUBSET New /\ ok \in BOOLEAN
    OBVIOUS
  <2> HIDE DEF rows, ok, New
  <2> QED BY <1>2, <2>1, <2>2 DEF New
<1> QED BY <1>3, <1>4

LEMMA NextTypeOK == TypeOK /\ Mapped /\ [Next]_vars => TypeOK'
<1> SUFFICES ASSUME TypeOK, Mapped, [Next]_vars PROVE TypeOK'
  OBVIOUS
<1>1. ASSUME NEW f \in Files, AppendLine(f) PROVE TypeOK'
  <2>1. PICK k \in Lines : lines' = [lines EXCEPT ![f] = Append(@, k)]
    BY <1>1, KindsAssumption DEF AppendLine, Lines, LineKinds
  <2>2. lines' \in [Files -> Seq(Lines)]
    BY <2>1 DEF TypeOK
  <2> QED BY <1>1, <2>2 DEF AppendLine, TypeOK, dbVars, memVars
<1>2. ASSUME NEW f \in Files, AppendPart(f) PROVE TypeOK'
  BY <1>2 DEF AppendPart, TypeOK, dbVars, memVars
<1>3. ASSUME NEW f \in Files, Notify(f) PROVE TypeOK'
  BY <1>3 DEF Notify, TypeOK, dbVars, memVars, fileVars
<1>4. ASSUME Gone, crashes' \in Nat PROVE TypeOK'
  BY <1>4 DEF Gone, TypeOK, dbVars, fileVars
<1>5. ASSUME NEW f \in Files, Open(f) PROVE TypeOK'
  <2>1. CASE Empty(f) /\ header[f] = "none"
    BY <1>4, <1>5, <2>1 DEF Open, TypeOK
  <2>2. CASE ~(Empty(f) /\ header[f] = "none")
    <3>1. /\ queue' \subseteq Files
          /\ UNCHANGED <<fileVars, changed, dbVars, up, timeless, crashes>>
      BY <1>5, <2>2 DEF Open, TypeOK
    <3>2. header' \in [Files -> {"none", "one", "fewer", "full"}]
          /\ position' \in [Files -> Nat] /\ colmap' \in Maps \union {NoMap}
      <4>1. CASE UNCHANGED memVars
        BY <4>1 DEF memVars, TypeOK
      <4>2. CASE LoadHeader(f)
        BY <4>2, LoadHeaderTypes DEF TypeOK
      <4> QED BY <1>5, <2>2, <4>1, <4>2 DEF Open
    <3>3. job' \in {NoJob} \union OpenedJob \union ReadJob
      <4>1. [step |-> "opened", file |-> f] \in OpenedJob
        BY DEF OpenedJob
      <4>2. job' \in {job, [step |-> "opened", file |-> f]}
        BY <1>5, <2>2 DEF Open
      <4> QED BY <4>1, <4>2 DEF TypeOK
    <3> QED BY <3>1, <3>2, <3>3 DEF TypeOK, fileVars, dbVars
  <2> QED BY <2>1, <2>2
<1>6. ASSUME Read PROVE TypeOK'
  <2>1. job \in OpenedJob
    BY <1>6 DEF Read, TypeOK, NoJob, OpenedJob, ReadJob
  <2>2. PICK f, spos, epos : f = job.file /\ spos = StartOf(f) /\ epos = EndOf(f, spos)
    OBVIOUS
  <2>3. f \in Files /\ spos \in Nat /\ epos \in Nat
    BY <2>1, <2>2 DEF OpenedJob, StartOf, EndOf, TypeOK
  <2>4. CASE Gone /\ UNCHANGED crashes
    BY <1>4, <2>4 DEF TypeOK
  <2>5. ASSUME NEW rows \in SUBSET NewLines(f, spos, epos), NEW ok \in BOOLEAN,
               job' = [step |-> "read", file |-> f, spos |-> spos, epos |-> epos,
                       rows |-> rows, ok |-> ok],
               UNCHANGED <<fileVars, changed, queue, dbVars, up, memVars, timeless, crashes>>
        PROVE  TypeOK'
    <3>1. rows \in SUBSET Nat
      BY <2>3 DEF NewLines
    <3>2. job' \in ReadJob
      BY <2>3, <2>5, <3>1 DEF ReadJob
    <3> QED BY <2>5, <3>2 DEF TypeOK, fileVars, dbVars, memVars
  <2> QED BY <1>6, <2>2, <2>4, <2>5, ReadOutcome
<1>7. ASSUME Finish PROVE TypeOK'
  <2>1. job \in ReadJob
    BY <1>7 DEF Finish, TypeOK, NoJob, OpenedJob, ReadJob
  <2>2. colmap \in Maps
    BY <2>1 DEF Mapped, ReadJob, NoJob
  <2>3. /\ job.file \in Files /\ job.epos \in Nat /\ job.rows \subseteq Nat
    BY <2>1 DEF ReadJob
  <2>4. {Row(job.file, i, colmap) : i \in job.rows} \subseteq RowType
    BY <2>2, <2>3 DEF Row, RowType
  <2>5. met' \subseteq RowType /\ fpos' \in [Files -> Nat]
    BY <1>7, <2>3, <2>4 DEF Finish, TypeOK, dbVars
  <2>6. timeless' \subseteq Files \X Nat
    <3>1. TimelessLines \subseteq Files \X Nat
      BY <2>1 DEF TimelessLines, ReadJob
    <3> QED BY <1>7, <3>1 DEF Finish, TypeOK
  <2> QED BY <1>7, <2>3, <2>5, <2>6 DEF Finish, TypeOK, fileVars
<1>8. ASSUME Crash PROVE TypeOK'
  BY <1>4, <1>8 DEF Crash, TypeOK
<1>9. ASSUME Restart PROVE TypeOK'
  BY <1>9 DEF Restart, TypeOK, fileVars, dbVars, memVars
<1>10. CASE UNCHANGED vars
  BY <1>10 DEF vars, TypeOK
<1> QED BY <1>1, <1>2, <1>3, <1>5, <1>6, <1>7, <1>8, <1>9, <1>10 DEF Next

------------------------------------------------------------------------------
(***************************************************************************)
(* The conjuncts of IInv that speak of the files are not disturbed by a    *)
(* step that leaves the database and the process alone and only appends.   *)
(***************************************************************************)
LEMMA AppendKeeps ==
  ASSUME TypeOK, NEW f \in Files, NEW k \in Lines,
         lines' = [lines EXCEPT ![f] = Append(@, k)]
  PROVE  \A g \in Files :
           /\ Len(lines'[g]) \in Nat /\ Len(lines[g]) \in Nat
           /\ Len(lines[g]) <= Len(lines'[g])
           /\ \A i \in 1..Len(lines[g]) : lines'[g][i] = lines[g][i]
           /\ lines'[g] # <<>> \/ lines[g] = <<>>
<1> SUFFICES ASSUME NEW g \in Files
             PROVE  /\ Len(lines'[g]) \in Nat /\ Len(lines[g]) \in Nat
                    /\ Len(lines[g]) <= Len(lines'[g])
                    /\ \A i \in 1..Len(lines[g]) : lines'[g][i] = lines[g][i]
                    /\ lines'[g] # <<>> \/ lines[g] = <<>>
  OBVIOUS
<1>1. lines[g] \in Seq(Lines)
  BY DEF TypeOK
<1>2. CASE g # f
  BY <1>1, <1>2 DEF TypeOK
<1>3. CASE g = f
  <2>1. lines'[g] = Append(lines[g], k)
    BY <1>3 DEF TypeOK
  <2> QED BY <1>1, <2>1
<1> QED BY <1>2, <1>3

LEMMA InitIInv == Init => IInv
<1> SUFFICES ASSUME Init PROVE IInv
  OBVIOUS
<1>1. Mapped /\ Positions /\ PassInv
  BY DEF Init, Mapped, Positions, PassInv, NoJob
<1>2. WholeInv /\ TrustedInv
  <2>1. \A f \in Files : lines[f] = <<>> /\ ~frag[f] /\ f \notin queue /\ header[f] = "none"
    BY DEF Init
  <2>2. ASSUME NEW f \in Files PROVE 1..Len(lines[f]) = {}
    <3>1. Len(lines[f]) = 0
      BY <2>1
    <3> QED BY <3>1
  <2>3. WholeInv
    BY <2>1, KindsAssumption DEF Init, WholeInv, NoMap
  <2> QED BY <2>1, <2>2, <2>3, TrustedFiles DEF TrustedInv
<1>3. StoredBehindPosition /\ NoSkippedTrustedRow
  BY TrustedFiles DEF Init, StoredBehindPosition, NoSkippedTrustedRow
<1> QED BY InitTypeOK, <1>1, <1>2, <1>3 DEF IInv

LEMMA AppendLineIInv ==
  ASSUME IInv, TypeOK', NEW f \in Files, AppendLine(f)
  PROVE  IInv'
<1>1. PICK k \in Lines : /\ lines' = [lines EXCEPT ![f] = Append(@, k)]
                          /\ k \in IF lines[f] = <<>> THEN {"header"} ELSE Kinds[f]
  BY KindsAssumption DEF AppendLine, Lines, LineKinds
<1>2. \A g \in Files :
        /\ Len(lines'[g]) \in Nat /\ Len(lines[g]) \in Nat
        /\ Len(lines[g]) <= Len(lines'[g])
        /\ \A i \in 1..Len(lines[g]) : lines'[g][i] = lines[g][i]
        /\ lines'[g] # <<>> \/ lines[g] = <<>>
  BY <1>1, AppendKeeps DEF IInv
<1>3. UNCHANGED <<queue, met, fpos, up, header, position, colmap, job, timeless, crashes>>
  BY DEF AppendLine, dbVars, memVars
<1>4. Mapped'
  BY <1>3 DEF IInv, Mapped
<1>5. Positions'
  BY <1>2, <1>3 DEF IInv, TypeOK, Positions
<1>6. TrustedInv'
  <2> SUFFICES ASSUME NEW g \in Trusted
               PROVE  /\ \A i \in 1..Len(lines'[g]) :
                           lines'[g][i] # "sqlbad" /\ (i = 1 <=> lines'[g][i] = "header")
                      /\ header'[g] # "none" =>
                           /\ header'[g] = "full"
                           /\ \A i \in 2..position'[g] : fpos'[g] < i => <<g, i>> \in timeless'
    BY DEF TrustedInv
  <2>1. g \in Files
    BY TrustedFiles
  <2>2. CASE g = f
    <3>1. lines'[g] = Append(lines[g], k) /\ lines[g] \in Seq(Lines)
      BY <1>1, <2>1, <2>2 DEF IInv, TypeOK
    <3>2. k # "sqlbad" /\ (lines[g] = <<>> <=> k = "header")
      BY <1>1, <2>2, KindsAssumption, TrustedFiles DEF LineKinds
    <3> QED BY <1>3, <3>1, <3>2, SMTT(30) DEF IInv, TrustedInv
  <2>3. CASE g # f
    <3>1. lines'[g] = lines[g]
      BY <1>1, <2>1, <2>3 DEF IInv, TypeOK
    <3> QED BY <1>3, <3>1 DEF IInv, TrustedInv
  <2> QED BY <2>2, <2>3
<1>10. WholeInv'
  <2>1. ASSUME NEW g \in Whole
        PROVE  frag'[g] \/ g \in queue \/ header[g] # "none" => lines'[g] # <<>>
    <3>1. g \in Files
      BY KindsAssumption
    <3>2. CASE g = f
      <4>1. lines'[f] = Append(lines[f], k) /\ lines[f] \in Seq(Lines)
        BY <1>1 DEF IInv, TypeOK
      <4> QED BY <3>2, <4>1
    <3>3. CASE g # f
      <4>1. frag'[g] = frag[g] /\ lines'[g] = lines[g]
        BY <1>1, <3>1, <3>3 DEF AppendLine, IInv, TypeOK
      <4> QED BY <4>1 DEF IInv, WholeInv
    <3> QED BY <3>2, <3>3
  <2> QED BY <1>3, <2>1 DEF IInv, WholeInv
<1>7. PassInv'
  <2> SUFFICES ASSUME job.step = "read" PROVE PassInv'
    BY <1>3 DEF PassInv
  <2>1. job \in ReadJob
    BY SMTT(30) DEF IInv, TypeOK, NoJob, OpenedJob, ReadJob
  <2>2. job.file \in Files /\ job.spos \in Nat /\ job.epos \in Nat
    BY <2>1 DEF ReadJob
  <2>3. /\ RowsOf(job.file, job.spos, job.epos)' = RowsOf(job.file, job.spos, job.epos)
        /\ NewLines(job.file, job.spos, job.epos)' = NewLines(job.file, job.spos, job.epos)
    <3>1. job.epos = job.spos \/ job.epos <= Len(lines[job.file])
      BY DEF IInv, PassInv
    <3>2. \A i \in Nat : job.spos < i /\ i <= job.epos =>
            /\ i \in 1..Len(lines[job.file]) /\ i \in 1..Len(lines'[job.file])
            /\ lines'[job.file][i] = lines[job.file][i]
      BY <1>2, <2>2, <3>1
    <3>3. NewLines(job.file, job.spos, job.epos)
            = {i \in Nat : job.spos < i /\ i <= job.epos}
      BY <1>2, <2>2, <3>2 DEF NewLines
    <3>4. NewLines(job.file, job.spos, job.epos)'
            = {i \in Nat : job.spos < i /\ i <= job.epos}
      BY <1>2, <1>3, <2>2, <3>2 DEF NewLines
    <3>5. /\ RowsOf(job.file, job.spos, job.epos)
               = {i \in NewLines(job.file, job.spos, job.epos) : lines[job.file][i] = "row"}
          /\ RowsOf(job.file, job.spos, job.epos)'
               = {i \in NewLines(job.file, job.spos, job.epos)' : lines'[job.file'][i] = "row"}
      BY DEF RowsOf, NewLines
    <3>6. \A i \in NewLines(job.file, job.spos, job.epos) : lines'[job.file][i] = lines[job.file][i]
      BY <3>2, <3>3
    <3> QED BY <1>3, <3>3, <3>4, <3>5, <3>6
  <2> QED BY <1>2, <1>3, <2>2, <2>3 DEF IInv, PassInv
<1>8. StoredBehindPosition'
  BY <1>2, <1>3 DEF IInv, TypeOK, RowType, StoredBehindPosition
<1>9. NoSkippedTrustedRow'
  <2> SUFFICES ASSUME NEW g \in Trusted, NEW i \in 1..Len(lines'[g]),
                      i <= fpos[g], lines'[g][i] = "row"
               PROVE  Stored(g, i) \/ <<g, i>> \in timeless
    BY <1>3 DEF NoSkippedTrustedRow, Stored
  <2>1. g \in Files
    BY TrustedFiles
  <2>2. i \in 1..Len(lines[g])
    BY <1>2, <2>1 DEF IInv, TypeOK, Positions
  <2> QED BY <1>2, <2>1, <2>2 DEF IInv, NoSkippedTrustedRow
<1> QED BY <1>4, <1>5, <1>6, <1>7, <1>8, <1>9, <1>10 DEF IInv

LEMMA AppendPartIInv ==
  ASSUME IInv, TypeOK', NEW f \in Files, AppendPart(f)
  PROVE  IInv'
<1>1. UNCHANGED <<lines, queue, met, fpos, up, header, position, colmap, job, timeless, crashes>>
  BY DEF AppendPart, dbVars, memVars
<1>2. WholeInv'
  <2> SUFFICES ASSUME NEW g \in Whole
               PROVE  (frag'[g] \/ g \in queue \/ header[g] # "none") => lines[g] # <<>>
    BY <1>1 DEF IInv, WholeInv
  <2>1. g \in Files /\ (frag[g] \/ g \in queue \/ header[g] # "none" => lines[g] # <<>>)
    BY KindsAssumption DEF IInv, WholeInv
  <2>2. CASE g = f
    BY <2>2 DEF AppendPart
  <2>3. CASE g # f
    BY <2>1, <2>3 DEF AppendPart, IInv, TypeOK
  <2> QED BY <2>2, <2>3
<1>3. Mapped' /\ Positions' /\ TrustedInv' /\ PassInv'
  BY <1>1 DEF IInv, Mapped, TrustedInv, Positions, PassInv, RowsOf, NewLines
<1>4. StoredBehindPosition' /\ NoSkippedTrustedRow'
  BY <1>1 DEF IInv, StoredBehindPosition, NoSkippedTrustedRow, Stored
<1> QED BY <1>2, <1>3, <1>4 DEF IInv

LEMMA NotifyIInv ==
  ASSUME IInv, TypeOK', NEW f \in Files, Notify(f)
  PROVE  IInv'
<1>1. UNCHANGED <<lines, frag, met, fpos, up, header, position, colmap, job, timeless, crashes>>
  BY DEF Notify, dbVars, memVars, fileVars
<1>2. WholeInv'
  <2> SUFFICES ASSUME NEW g \in Whole
               PROVE  (frag[g] \/ g \in queue' \/ header[g] # "none") => lines[g] # <<>>
    BY <1>1 DEF IInv, WholeInv
  <2>1. g \in Files /\ (frag[g] \/ g \in queue \/ header[g] # "none" => lines[g] # <<>>)
    BY KindsAssumption DEF IInv, WholeInv
  <2>2. CASE g = f
    BY <2>1, <2>2 DEF Notify, Empty
  <2>3. CASE g # f
    BY <2>1, <2>3 DEF Notify
  <2> QED BY <2>2, <2>3
<1>3. Mapped' /\ Positions' /\ TrustedInv' /\ PassInv'
  BY <1>1 DEF IInv, Mapped, TrustedInv, Positions, PassInv, RowsOf, NewLines
<1>4. StoredBehindPosition' /\ NoSkippedTrustedRow'
  BY <1>1 DEF IInv, StoredBehindPosition, NoSkippedTrustedRow, Stored
<1> QED BY <1>2, <1>3, <1>4 DEF IInv

\* A death forgets everything the invariant says of the memory.
LEMMA GoneIInv ==
  ASSUME IInv, TypeOK', Gone
  PROVE  IInv'
<1>1. UNCHANGED <<lines, frag, met, fpos, timeless>> /\ queue' = {} /\ job' = NoJob
      /\ \A f \in Files : header'[f] = "none"
  BY DEF Gone, fileVars, dbVars
<1>2. WholeInv' /\ TrustedInv'
  <2>1. WholeInv'
    <3>1. colmap'.columns # "few"
      BY DEF Gone, NoMap
    <3> QED BY <1>1, <3>1, KindsAssumption DEF IInv, TypeOK, WholeInv
  <2> QED BY <1>1, <2>1, TrustedFiles DEF IInv, TypeOK, TrustedInv
<1>3. Mapped' /\ Positions' /\ PassInv'
  BY <1>1 DEF IInv, Mapped, Positions, PassInv, NoJob
<1>4. StoredBehindPosition' /\ NoSkippedTrustedRow'
  BY <1>1 DEF IInv, StoredBehindPosition, NoSkippedTrustedRow, Stored
<1> QED BY <1>2, <1>3, <1>4 DEF IInv

LEMMA OpenIInv ==
  ASSUME IInv, TypeOK', NEW f \in Files, Open(f)
  PROVE  IInv'
<1>1. CASE Empty(f) /\ header[f] = "none"
  BY <1>1, GoneIInv DEF Open
<1>2. CASE ~(Empty(f) /\ header[f] = "none")
  <2>1. UNCHANGED <<lines, frag, met, fpos, timeless>> /\ queue' = queue \ {f} /\ f \in queue
        /\ job = NoJob
    BY <1>2 DEF Open, fileVars, dbVars
  <2>2. StoredBehindPosition' /\ NoSkippedTrustedRow'
    BY <2>1 DEF IInv, StoredBehindPosition, NoSkippedTrustedRow, Stored
  <2>3. \/ UNCHANGED <<memVars, job>>
        \/ /\ job' = [step |-> "opened", file |-> f]
           /\ (header[f] # "none" /\ UNCHANGED memVars) \/ LoadHeader(f)
    BY <1>2 DEF Open
  <2>6. PassInv'
    BY <2>1, <2>3 DEF PassInv, NoJob
  <2>4. CASE UNCHANGED memVars /\ (UNCHANGED job \/ (header[f] # "none"
                                 /\ job' = [step |-> "opened", file |-> f]))
    <3>1. UNCHANGED <<header, position, colmap>>
      BY <2>4 DEF memVars
    <3>2. Positions' /\ WholeInv' /\ TrustedInv'
      BY <2>1, <3>1 DEF IInv, Positions, WholeInv, TrustedInv
    <3>3. Mapped'
      BY <2>4, <3>1 DEF IInv, Mapped
    <3> QED BY <2>2, <2>6, <3>2, <3>3 DEF IInv
  <2>5. CASE LoadHeader(f) /\ job' = [step |-> "opened", file |-> f]
    <3>1. /\ header'[f] # "none" /\ (lines[f] # <<>> => header'[f] = "full")
          /\ position'[f] = IF fpos[f] = 0 THEN 1 ELSE fpos[f]
          /\ colmap' \in Maps /\ (lines[f] # <<>> => colmap'.columns # "few")
          /\ \A g \in Files \ {f} : header'[g] = header[g] /\ position'[g] = position[g]
      BY <2>5, LoadHeaderTypes DEF IInv
    <3>2. Mapped'
      BY <2>5, <3>1 DEF Mapped
    <3>3. Positions'
      <4> SUFFICES ASSUME NEW g \in Files
                   PROVE  /\ fpos[g] <= Len(lines[g])
                          /\ header'[g] # "none" => 1 <= position'[g] /\ fpos[g] <= position'[g]
        BY <2>1 DEF Positions
      <4>1. CASE g = f
        BY <3>1, <4>1 DEF IInv, TypeOK, Positions
      <4>2. CASE g # f
        BY <3>1, <4>2 DEF IInv, Positions
      <4> QED BY <4>1, <4>2
    <3>5. f \in Whole => lines[f] # <<>>
      BY <2>1 DEF IInv, WholeInv
    <3>6. WholeInv'
      BY <2>1, <3>1, <3>5, KindsAssumption DEF IInv, WholeInv
    <3>4. TrustedInv'
      <4> SUFFICES ASSUME NEW g \in Trusted, header'[g] # "none"
                   PROVE  /\ header'[g] = "full"
                          /\ \A i \in 2..position'[g] : fpos[g] < i => <<g, i>> \in timeless
        BY <2>1 DEF IInv, TrustedInv
      <4>1. CASE g = f
        <5>1. lines[f] # <<>> /\ fpos[f] \in Nat
          BY <3>5, <4>1 DEF IInv, TypeOK, Trusted
        <5> QED BY <3>1, <4>1, <5>1
      <4>2. CASE g # f
        BY <3>1, <4>2, TrustedFiles DEF IInv, TrustedInv
      <4> QED BY <4>1, <4>2
    <3> QED BY <2>2, <2>6, <3>2, <3>3, <3>4, <3>6 DEF IInv
  <2> QED BY <2>3, <2>4, <2>5
<1> QED BY <1>1, <1>2

LEMMA ReadIInv ==
  ASSUME IInv, TypeOK', Read
  PROVE  IInv'
<1>0. PICK f, spos, epos : f = job.file /\ spos = StartOf(f) /\ epos = EndOf(f, spos)
  OBVIOUS
<1>1. f \in Files /\ header[f] # "none" /\ position[f] \in Nat /\ position[f] >= 1
  <2>1. job \in OpenedJob
    BY DEF Read, IInv, TypeOK, NoJob, OpenedJob, ReadJob
  <2> QED BY <1>0, <2>1 DEF OpenedJob, IInv, Mapped, NoJob, Positions, TypeOK
<1>2. CASE Gone
  BY <1>2, GoneIInv
<1>3. ASSUME NEW rows \in SUBSET NewLines(f, spos, epos), NEW ok \in BOOLEAN,
             job' = [step |-> "read", file |-> f, spos |-> spos, epos |-> epos,
                     rows |-> rows, ok |-> ok],
             UNCHANGED <<fileVars, changed, queue, dbVars, up, memVars, timeless, crashes>>,
             (header[f] = "full" /\ \A i \in 1..Len(lines[f]) : lines[f][i] # "sqlbad")
               => /\ \A i \in rows : lines[f][i] \notin {"short", "sqlbad", "raise"}
                  /\ ok => \A i \in NewLines(f, spos, epos) : lines[f][i] = "row" => i \in rows
                  /\ ~ok => colmap.columns = "few"
      PROVE  IInv'
  <2>1. UNCHANGED <<lines, frag, queue, met, fpos, header, position, colmap, timeless>>
    BY <1>3 DEF fileVars, dbVars, memVars
  <2>2. spos = position[f] /\ spos <= epos /\ (epos = spos \/ epos <= Len(lines[f]))
    BY <1>0, <1>1 DEF StartOf, EndOf, IInv, TypeOK
  <2>3. ASSUME f \in Trusted
        PROVE  /\ rows \subseteq RowsOf(f, spos, epos)
               /\ ok => rows = RowsOf(f, spos, epos)
               /\ ~ok => colmap.columns = "few"
    <3>1. /\ header[f] = "full" /\ \A i \in 1..Len(lines[f]) : lines[f][i] # "sqlbad"
          /\ \A i \in 1..Len(lines[f]) : i = 1 <=> lines[f][i] = "header"
      BY <1>1, <2>3 DEF IInv, TrustedInv
    <3>2. \A i \in NewLines(f, spos, epos) : lines[f][i] \in {"row", "short", "sqlbad", "raise"}
      <4>1. lines[f] \in Seq(Lines)
        BY <1>1 DEF IInv, TypeOK
      <4>2. \A i \in 1..Len(lines[f]) : lines[f][i] = "header" \/ lines[f][i] \in LineKinds
        BY <4>1 DEF Lines
      <4>3. \A i \in NewLines(f, spos, epos) : i \in 1..Len(lines[f]) /\ i # 1
        BY <1>1, <2>2 DEF NewLines
      <4> QED BY <3>1, <4>2, <4>3 DEF LineKinds
    <3>3. \A i \in rows : lines[f][i] = "row"
      BY <1>3, <3>1, <3>2
    <3>4. RowsOf(f, spos, epos) = {i \in NewLines(f, spos, epos) : lines[f][i] = "row"}
      BY DEF NewLines, RowsOf
    <3> QED BY <1>3, <3>1, <3>3, <3>4
  <2>4. PassInv'
    BY <1>3, <2>1, <2>2, <2>3 DEF PassInv, RowsOf, NewLines
  <2>5. Mapped' /\ Positions' /\ WholeInv' /\ TrustedInv'
    BY <1>1, <1>3, <2>1 DEF IInv, Mapped, Positions, WholeInv, TrustedInv
  <2>6. StoredBehindPosition' /\ NoSkippedTrustedRow'
    BY <2>1 DEF IInv, StoredBehindPosition, NoSkippedTrustedRow, Stored
  <2> QED BY <2>4, <2>5, <2>6 DEF IInv
<1> QED BY <1>0, <1>2, <1>3, ReadOutcome

LEMMA FinishIInv ==
  ASSUME IInv, TypeOK', Finish
  PROVE  IInv' /\ met \subseteq met' /\ \A g \in Files : fpos[g] <= fpos'[g]
<1> DEFINE f == job.file
<1>1. /\ f \in Files /\ job.spos \in Nat /\ job.epos \in Nat /\ job.rows \subseteq Nat
      /\ header[f] # "none" /\ colmap \in Maps
  <2>1. job \in ReadJob
    BY DEF Finish, IInv, TypeOK, NoJob, OpenedJob, ReadJob
  <2> QED BY <2>1 DEF ReadJob, IInv, Mapped, NoJob
<1>2. /\ job.spos = position[f] /\ job.spos <= job.epos
      /\ job.epos = job.spos \/ job.epos <= Len(lines[f])
      /\ job.rows \subseteq NewLines(f, job.spos, job.epos)
      /\ f \in Trusted => /\ job.rows \subseteq RowsOf(f, job.spos, job.epos)
                          /\ job.ok => job.rows = RowsOf(f, job.spos, job.epos)
                          /\ ~job.ok => colmap.columns = "few"
  BY DEF Finish, IInv, PassInv
<1>3. /\ UNCHANGED <<lines, frag, queue, header, colmap>> /\ job' = NoJob
      /\ position' = [position EXCEPT ![f] = job.epos] /\ timeless \subseteq timeless'
  BY DEF Finish, fileVars
<1>4. Mapped' /\ WholeInv' /\ PassInv'
  <2>1. Whole = Files => timeless' = {}
    BY DEF Finish, TimelessLines, IInv, WholeInv
  <2> QED BY <1>3, <2>1 DEF IInv, Mapped, WholeInv, PassInv, NoJob
<1>5. \A g \in Files \ {f} : position'[g] = position[g] /\ fpos'[g] = fpos[g]
  BY <1>1, <1>3 DEF Finish, IInv, TypeOK, dbVars
<1>6. position'[f] = job.epos
  BY <1>1, <1>3 DEF IInv, TypeOK
<1>7. TrustedInv'
  <2> SUFFICES ASSUME NEW g \in Trusted, header[g] # "none", NEW i \in 2..position'[g],
                      fpos'[g] < i
               PROVE  <<g, i>> \in timeless'
    BY <1>3 DEF IInv, TrustedInv
  <2>1. CASE g # f
    BY <1>3, <1>5, <2>1, TrustedFiles DEF IInv, TrustedInv
  <2>2. CASE g = f
    <3>1. i \in Nat /\ i <= job.epos
      BY <1>1, <1>6, <2>2
    <3>2. CASE job.spos # job.epos /\ job.ok
      <4>1. fpos'[f] = job.epos
        BY <1>1, <3>2 DEF Finish, IInv, TypeOK
      <4> QED BY <1>1, <2>2, <3>1, <4>1
    <3>3. CASE i <= job.spos /\ ~(job.spos # job.epos /\ job.ok)
      <4>1. fpos'[f] = fpos[f] /\ i \in 2..position[f]
        BY <1>1, <1>2, <3>1, <3>3 DEF Finish, dbVars
      <4> QED BY <1>3, <2>2, <4>1 DEF IInv, TrustedInv
    <3>4. CASE ~(i <= job.spos) /\ ~(job.spos # job.epos /\ job.ok)
      <4>1. i \in (job.spos + 1)..job.epos /\ job.spos # job.epos
        BY <1>1, <3>1, <3>4
      <4>2. colmap.columns = "few"
        BY <1>2, <2>2, <3>4, <4>1
      <4>3. <<f, i>> \in TimelessLines
        BY <4>1, <4>2 DEF TimelessLines
      <4>4. timeless' = timeless \union TimelessLines
        BY <3>4 DEF Finish
      <4> QED BY <2>2, <4>3, <4>4
    <3> QED BY <3>2, <3>3, <3>4
  <2> QED BY <2>1, <2>2
<1>8. CASE UNCHANGED <<met, fpos>>
  <2>1. Positions'
    BY <1>1, <1>2, <1>3, <1>8 DEF IInv, TypeOK, Positions
  <2>2. StoredBehindPosition' /\ NoSkippedTrustedRow'
    BY <1>3, <1>8 DEF IInv, StoredBehindPosition, NoSkippedTrustedRow, Stored
  <2> QED BY <1>4, <1>7, <1>8, <2>1, <2>2 DEF IInv, TypeOK
<1>9. CASE /\ job.spos # job.epos /\ job.ok
           /\ met' = met \union {Row(f, i, colmap) : i \in job.rows}
           /\ fpos' = [fpos EXCEPT ![f] = job.epos]
  <2>1. fpos[f] <= position[f] /\ 1 <= position[f]
    BY <1>1 DEF IInv, Positions
  <2>2. job.epos <= Len(lines[f]) /\ fpos[f] \in Nat /\ position[f] \in Nat
    BY <1>1, <1>2, <1>9 DEF IInv, TypeOK
  <2>3. \A g \in Files : fpos[g] <= fpos'[g]
    <3>1. \A g \in Files : fpos[g] \in Nat
      BY DEF IInv, TypeOK
    <3>2. fpos'[f] = job.epos /\ fpos[f] <= job.epos
      BY <1>1, <1>2, <1>9, <2>1, <2>2 DEF IInv, TypeOK
    <3> QED BY <1>5, <3>1, <3>2
  <2>4. Positions'
    BY <1>1, <1>2, <1>3, <1>9, <2>1, <2>2 DEF IInv, TypeOK, Positions
  <2>5. StoredBehindPosition'
    <3> SUFFICES ASSUME NEW r \in met'
                 PROVE  /\ r.line <= fpos'[r.file] /\ r.line \in 2..Len(lines[r.file])
                        /\ r.file \in Trusted => lines[r.file][r.line] = "row"
      BY <1>3 DEF StoredBehindPosition
    <3>1. CASE r \in met
      <4>1. r.file \in Files /\ r.line \in Nat
        BY <3>1 DEF IInv, TypeOK, RowType
      <4>2. r.line <= fpos[r.file] /\ r.line \in 2..Len(lines[r.file])
            /\ (r.file \in Trusted => lines[r.file][r.line] = "row")
        BY <3>1 DEF IInv, StoredBehindPosition
      <4>3. fpos[r.file] \in Nat /\ fpos'[r.file] \in Nat /\ fpos[r.file] <= fpos'[r.file]
        BY <2>3, <4>1 DEF IInv, TypeOK
      <4> QED BY <4>1, <4>2, <4>3
    <3>2. CASE r \notin met
      <4>1. PICK i \in job.rows : r = Row(f, i, colmap)
        BY <1>9, <3>2
      <4>2. r.file = f /\ r.line = i
        BY <4>1 DEF Row
      <4>3. i \in NewLines(f, job.spos, job.epos) /\ fpos'[f] = job.epos
        BY <1>1, <1>2, <1>9 DEF IInv, TypeOK
      <4>4. f \in Trusted => lines[f][i] = "row"
        BY <1>2 DEF RowsOf
      <4> QED BY <1>1, <1>2, <2>1, <2>2, <4>2, <4>3, <4>4 DEF NewLines
    <3> QED BY <3>1, <3>2
  <2>6. NoSkippedTrustedRow'
    <3> SUFFICES ASSUME NEW g \in Trusted, NEW i \in 1..Len(lines[g]),
                        i <= fpos'[g], lines[g][i] = "row"
                 PROVE  Stored(g, i)' \/ <<g, i>> \in timeless'
      BY <1>3 DEF NoSkippedTrustedRow
    <3>1. g \in Files
      BY TrustedFiles
    <3>2. CASE i <= fpos[g]
      BY <1>3, <1>9, <3>1, <3>2 DEF IInv, NoSkippedTrustedRow, Stored
    <3>3. CASE ~(i <= fpos[g])
      <4>1. g = f /\ i <= job.epos
        BY <1>1, <1>9, <3>1, <3>3 DEF IInv, TypeOK
      <4>2. i # 1
        BY DEF IInv, TrustedInv
      <4>3. CASE i <= position[f]
        <5>1. i \in 2..position[f] /\ fpos[f] < i
          BY <2>2, <3>3, <4>1, <4>2, <4>3
        <5> QED BY <1>1, <1>3, <4>1, <5>1 DEF IInv, TrustedInv
      <4>4. CASE ~(i <= position[f])
        <5>1. i \in RowsOf(f, job.spos, job.epos)
          BY <1>2, <2>2, <4>1, <4>4 DEF RowsOf
        <5>2. Row(f, i, colmap) \in met'
          BY <1>2, <1>9, <4>1, <5>1
        <5>3. Row(f, i, colmap).file = f /\ Row(f, i, colmap).line = i
          BY DEF Row
        <5> QED BY <4>1, <5>2, <5>3 DEF Stored
      <4> QED BY <4>3, <4>4
    <3> QED BY <3>2, <3>3
  <2> QED BY <1>4, <1>7, <1>9, <2>3, <2>4, <2>5, <2>6 DEF IInv
<1> QED BY <1>8, <1>9 DEF Finish, dbVars

LEMMA RestartIInv ==
  ASSUME IInv, TypeOK', Restart
  PROVE  IInv'
<1>1. UNCHANGED <<lines, frag, queue, met, fpos, header, position, colmap, job, timeless>>
  BY DEF Restart, fileVars, dbVars, memVars
<1> QED BY <1>1 DEF IInv, Mapped, Positions, WholeInv, TrustedInv, PassInv, RowsOf, NewLines,
           StoredBehindPosition, NoSkippedTrustedRow, Stored

LEMMA StutterIInv ==
  ASSUME IInv, UNCHANGED vars
  PROVE  IInv'
<1>1. TypeOK' /\ Mapped' /\ Positions'
  BY DEF vars, IInv, TypeOK, Mapped, Positions
<1>2. WholeInv' /\ TrustedInv' /\ PassInv'
  BY DEF vars, IInv, WholeInv, TrustedInv, PassInv, RowsOf, NewLines
<1>3. StoredBehindPosition' /\ NoSkippedTrustedRow'
  BY DEF vars, IInv, StoredBehindPosition, NoSkippedTrustedRow, Stored
<1> QED BY <1>1, <1>2, <1>3 DEF IInv

LEMMA NextIInv == IInv /\ [Next]_vars => IInv'
<1> SUFFICES ASSUME IInv, [Next]_vars PROVE IInv'
  OBVIOUS
<1>1. TypeOK'
  BY NextTypeOK DEF IInv
<1>2. ASSUME NEW f \in Files, AppendLine(f) PROVE IInv'
  BY <1>1, <1>2, AppendLineIInv
<1>3. ASSUME NEW f \in Files, AppendPart(f) PROVE IInv'
  BY <1>1, <1>3, AppendPartIInv
<1>4. ASSUME NEW f \in Files, Notify(f) PROVE IInv'
  BY <1>1, <1>4, NotifyIInv
<1>5. ASSUME NEW f \in Files, Open(f) PROVE IInv'
  BY <1>1, <1>5, OpenIInv
<1>6. CASE Read
  BY <1>1, <1>6, ReadIInv
<1>7. CASE Finish
  BY <1>1, <1>7, FinishIInv
<1>8. CASE Crash
  BY <1>1, <1>8, GoneIInv DEF Crash
<1>9. CASE Restart
  BY <1>1, <1>9, RestartIInv
<1>10. CASE UNCHANGED vars
  BY <1>10, StutterIInv
<1> QED BY <1>2, <1>3, <1>4, <1>5, <1>6, <1>7, <1>8, <1>9, <1>10 DEF Next

LEMMA SpecIInv == Spec => []IInv
<1>1. Init => IInv
  BY InitIInv
<1>2. IInv /\ [Next]_vars => IInv'
  BY NextIInv
<1> QED BY <1>1, <1>2, PTL DEF Spec

------------------------------------------------------------------------------
(***************************************************************************)
(* The variables of met2db's thread DB, and the records it keeps of a pass *)
(* (DB.py 92-121), only ever take values of their types; a row is inserted *)
(* only under a mapped layout.                                             *)
(***************************************************************************)
THEOREM TypeCorrect == Spec => []TypeOK
<1>1. IInv => TypeOK
  BY DEF IInv
<1> QED BY <1>1, SpecIInv, PTL

(***************************************************************************)
(* No recorded position of a trusted file ever passes a row that is not in *)
(* table met, whatever deaths, torn lines, torn headers and refused rows   *)
(* of other files come between (DB.py 82-89: rows and position share a     *)
(* transaction), but for the rows of a pass that was refused as a whole    *)
(* because the shared column map had no time (DB.py 115).                  *)
(***************************************************************************)
THEOREM NoTrustedRowSkipped == Spec => []NoSkippedTrustedRow
<1>1. IInv => NoSkippedTrustedRow
  BY DEF IInv
<1> QED BY <1>1, SpecIInv, PTL

(***************************************************************************)
(* Where every file appears with its header, that exception never arises:  *)
(* every row of a trusted file behind its recorded position is stored.     *)
(***************************************************************************)
THEOREM WholeHeadersSkipNothing ==
  ASSUME Whole = Files
  PROVE  Spec => [](\A f \in Trusted : \A i \in 1..Len(lines[f]) :
                      i <= fpos[f] /\ lines[f][i] = "row" => Stored(f, i))
<1>1. IInv => \A f \in Trusted : \A i \in 1..Len(lines[f]) :
                i <= fpos[f] /\ lines[f][i] = "row" => Stored(f, i)
  BY DEF IInv, WholeInv, NoSkippedTrustedRow
<1> QED BY <1>1, SpecIInv, PTL

(***************************************************************************)
(* Every stored line of every file is a complete one behind the recorded   *)
(* position and no header, so no later pass stores it again; of a trusted  *)
(* file only rows are stored, under whatever column map.                   *)
(***************************************************************************)
THEOREM StoredOnce == Spec => []StoredBehindPosition
<1>1. IInv => StoredBehindPosition
  BY DEF IInv
<1> QED BY <1>1, SpecIInv, PTL

(***************************************************************************)
(* No step takes a row out of table met or moves a recorded position back: *)
(* FilePosition.set is only reached with the end of a pass that began at   *)
(* or after the recorded position.                                         *)
(***************************************************************************)
THEOREM NeverBack == Spec => Monotone
<1>1. IInv /\ [Next]_vars
        => [met \subseteq met' /\ \A f \in Files : fpos[f] <= fpos'[f]]_dbVars
  <2> SUFFICES ASSUME IInv, [Next]_vars
               PROVE [met \subseteq met' /\ \A f \in Files : fpos[f] <= fpos'[f]]_dbVars
    OBVIOUS
  <2>1. TypeOK'
    BY NextTypeOK DEF IInv
  <2>2. CASE Finish
    BY <2>1, <2>2, FinishIInv
  <2>3. CASE UNCHANGED vars
    BY <2>3 DEF vars, dbVars
  <2>4. ASSUME NEW f \in Files, AppendLine(f) \/ AppendPart(f) \/ Notify(f) \/ Open(f)
        PROVE UNCHANGED dbVars
    BY <2>4 DEF AppendLine, AppendPart, Notify, Open, Gone
  <2>5. CASE Read \/ Crash \/ Restart
    BY <2>5 DEF Read, Crash, Restart, Gone
  <2> QED BY <2>2, <2>3, <2>4, <2>5 DEF Next
<1> QED BY <1>1, SpecIInv, PTL DEF Spec, Monotone

------------------------------------------------------------------------------
(* The refinement *)

trustedFile == [f \in Trusted |-> lines[f]]
trustedPos == [f \in Trusted |-> fpos[f]]
trustedStored == {<<r.file, r.line>> : r \in {q \in met : q.file \in Trusted}}
trustedDropped == {x \in timeless : x[1] \in Trusted}
trustedVars == <<trustedFile, trustedPos, trustedStored, trustedDropped>>

LEMMA InitRefines == Init => Abstract!Init
<1> SUFFICES ASSUME Init PROVE Abstract!Init
  OBVIOUS
<1>1. trustedFile \in [Trusted -> Seq(Lines)]
  BY TrustedFiles DEF Init, trustedFile
<1>2. trustedPos = [f \in Trusted |-> 0] /\ trustedStored = {} /\ trustedDropped = {}
  BY TrustedFiles DEF Init, trustedPos, trustedStored, trustedDropped
<1> QED BY <1>1, <1>2 DEF Abstract!Init, trustedFile, trustedPos, trustedStored, trustedDropped

\* A line of a trusted file is a Grow, a line of another a stutter.
LEMMA AppendRefines ==
  ASSUME IInv, NEW f \in Files, AppendLine(f)
  PROVE  Abstract!Next \/ UNCHANGED trustedVars
<1>1. PICK k \in Lines : lines' = [lines EXCEPT ![f] = Append(@, k)]
  BY KindsAssumption DEF AppendLine, Lines, LineKinds
<1>2. UNCHANGED <<met, fpos, timeless>>
  BY DEF AppendLine, dbVars
<1>3. UNCHANGED <<trustedPos, trustedStored, trustedDropped>>
  BY <1>2 DEF trustedPos, trustedStored, trustedDropped
<1>4. CASE f \in Trusted
  <2>1. trustedFile' = [trustedFile EXCEPT ![f] = Append(@, k)]
    BY <1>1, <1>4, TrustedFiles DEF IInv, TypeOK, trustedFile
  <2>2. Abstract!Grow(f)
    BY <1>1, <1>3, <2>1 DEF Abstract!Grow, trustedFile, trustedPos, trustedStored, trustedDropped
  <2> QED BY <1>4, <2>2 DEF Abstract!Next
<1>5. CASE f \notin Trusted
  <2>1. UNCHANGED trustedFile
    BY <1>1, <1>5, TrustedFiles DEF IInv, TypeOK, trustedFile
  <2> QED BY <1>3, <2>1 DEF trustedVars
<1> QED BY <1>4, <1>5

\* A COMMIT for a trusted file is an Ingest of the lines the pass read, and of
\* those that passes before it gave up; a ROLLBACK is a Drop.
LEMMA FinishRefines ==
  ASSUME IInv, Finish
  PROVE  Abstract!Next \/ UNCHANGED trustedVars
<1>0. PICK f \in Files : f = job.file
  BY DEF Finish, IInv, TypeOK, NoJob, OpenedJob, ReadJob
<1>1. /\ f = job.file /\ job.spos \in Nat /\ job.epos \in Nat
      /\ UNCHANGED lines
  BY <1>0 DEF Finish, IInv, TypeOK, NoJob, OpenedJob, ReadJob, fileVars
<1>2. UNCHANGED trustedFile
  BY <1>1 DEF trustedFile
<1>3. /\ job.spos = position[f] /\ job.spos <= job.epos
      /\ job.epos = job.spos \/ job.epos <= Len(lines[f])
      /\ fpos[f] <= job.spos /\ 1 <= job.spos
      /\ fpos[f] \in Nat /\ Len(lines[f]) \in Nat
  <2>1. header[f] # "none"
    BY <1>1 DEF Finish, IInv, Mapped, NoJob
  <2> QED BY <1>1, <2>1 DEF Finish, IInv, PassInv, Positions, TypeOK
<1>4. CASE UNCHANGED <<met, fpos>> /\ timeless' = timeless \union TimelessLines
  <2>1. UNCHANGED <<trustedPos, trustedStored>>
    BY <1>4 DEF trustedPos, trustedStored
  <2>2. PICK S : S = IF colmap.columns = "few" THEN (job.spos + 1)..job.epos ELSE {}
    OBVIOUS
  <2>3. TimelessLines = {f} \X S
    BY <1>1, <2>2 DEF TimelessLines
  <2>4. CASE f \in Trusted
    <3>1. S \in SUBSET ((trustedPos[f] + 1)..Len(trustedFile[f]))
      BY <1>1, <1>3, <2>2, <2>4 DEF trustedPos, trustedFile
    <3>2. trustedDropped' = trustedDropped \union ({f} \X S)
      BY <1>4, <2>3, <2>4 DEF trustedDropped
    <3>3. Abstract!Drop(f)
      BY <1>2, <2>1, <3>1, <3>2
         DEF Abstract!Drop, trustedFile, trustedPos, trustedStored, trustedDropped
    <3> QED BY <2>4, <3>3 DEF Abstract!Next
  <2>5. CASE f \notin Trusted
    <3>1. UNCHANGED trustedDropped
      BY <1>4, <2>3, <2>5 DEF trustedDropped
    <3> QED BY <1>2, <2>1, <3>1 DEF trustedVars
  <2> QED BY <2>4, <2>5
<1>5. CASE /\ job.spos # job.epos /\ job.ok
           /\ met' = met \union {Row(f, i, colmap) : i \in job.rows}
           /\ fpos' = [fpos EXCEPT ![f] = job.epos]
           /\ UNCHANGED timeless
  <2>0. UNCHANGED trustedDropped
    BY <1>5 DEF trustedDropped
  <2>1. CASE f \notin Trusted
    <3>1. UNCHANGED trustedPos
      BY <1>1, <1>5, <2>1, TrustedFiles DEF IInv, TypeOK, trustedPos
    <3>2. \A r \in met' : r.file \in Trusted => r \in met
      BY <1>5, <2>1 DEF Row
    <3>3. UNCHANGED trustedStored
      BY <1>5, <3>2 DEF trustedStored
    <3> QED BY <1>2, <2>0, <3>1, <3>3 DEF trustedVars
  <2>2. CASE f \in Trusted
    <3>1. /\ job.rows = RowsOf(f, job.spos, job.epos)
          /\ job.epos <= Len(lines[f])
          /\ \A i \in 1..Len(lines[f]) : i = 1 => lines[f][i] # "row"
          /\ \A i \in 2..job.spos : fpos[f] < i => <<f, i>> \in timeless
      <4>1. header[f] # "none"
        BY <1>1 DEF Finish, IInv, Mapped, NoJob
      <4> QED BY <1>1, <1>3, <1>5, <2>2, <4>1 DEF Finish, IInv, PassInv, TrustedInv
    <3>2. job.epos \in trustedPos[f]..Len(trustedFile[f])
      BY <1>1, <1>3, <2>2, <3>1 DEF trustedPos, trustedFile
    <3>3. trustedPos' = [trustedPos EXCEPT ![f] = job.epos]
      BY <1>1, <1>5, <2>2, TrustedFiles DEF IInv, TypeOK, trustedPos
    <3>4. PICK All, Got : /\ All = Abstract!RowsBetween(f, trustedPos[f], job.epos)
                          /\ Got = {<<f, i>> : i \in job.rows}
      OBVIOUS
    <3>5. All = {<<f, i>> : i \in RowsOf(f, fpos[f], job.epos)}
      <4>1. {j \in 1..Len(trustedFile[f]) :
               trustedPos[f] < j /\ j <= job.epos /\ trustedFile[f][j] \in {"row"}}
              = RowsOf(f, fpos[f], job.epos)
        BY <2>2 DEF trustedPos, trustedFile, RowsOf
      <4> QED BY <3>4, <4>1 DEF Abstract!RowsBetween, trustedFile
    <3>6. /\ job.rows \subseteq RowsOf(f, fpos[f], job.epos)
          /\ \A i \in RowsOf(f, fpos[f], job.epos) \ job.rows : <<f, i>> \in timeless
      BY <1>1, <1>3, <3>1 DEF RowsOf
    <3>7. Got \subseteq All /\ All \ Got \in SUBSET (All \intersect trustedDropped)
      BY <2>2, <3>4, <3>5, <3>6 DEF trustedDropped
    <3>8. trustedStored' = trustedStored \union Got
      <4>1. {q \in met' : q.file \in Trusted}
              = {q \in met : q.file \in Trusted} \union {Row(f, i, colmap) : i \in job.rows}
        BY <1>5, <2>2 DEF Row
      <4>2. \A i \in job.rows : Row(f, i, colmap).file = f /\ Row(f, i, colmap).line = i
        BY DEF Row
      <4> HIDE DEF Row
      <4> QED BY <3>4, <4>1, <4>2 DEF trustedStored
    <3>9. Got = All \ (All \ Got)
      BY <3>7
    <3>10. Abstract!Ingest(f)
      <4>1. \E missed \in SUBSET (All \intersect trustedDropped) :
              trustedStored' = trustedStored \union (All \ missed)
        BY <3>7, <3>8, <3>9
      <4> QED BY <1>2, <2>0, <3>2, <3>3, <3>4, <4>1
              DEF Abstract!Ingest, trustedFile, trustedPos, trustedStored, trustedDropped
    <3> QED BY <2>2, <3>10 DEF Abstract!Next
  <2> QED BY <2>1, <2>2
<1> QED BY <1>1, <1>4, <1>5 DEF Finish, dbVars

LEMMA NextRefines == IInv /\ [Next]_vars => Abstract!Next \/ UNCHANGED trustedVars
<1> SUFFICES ASSUME IInv, [Next]_vars PROVE Abstract!Next \/ UNCHANGED trustedVars
  OBVIOUS
<1>1. CASE \E f \in Files : AppendLine(f)
  BY <1>1, AppendRefines
<1>2. CASE Finish
  BY <1>2, FinishRefines
<1>3. CASE UNCHANGED <<lines, met, fpos, timeless>>
  BY <1>3 DEF trustedVars, trustedFile, trustedPos, trustedStored, trustedDropped
<1>4. ASSUME NEW f \in Files, AppendPart(f) \/ Notify(f) \/ Open(f)
      PROVE UNCHANGED <<lines, met, fpos, timeless>>
  BY <1>4 DEF AppendPart, Notify, Open, Gone, fileVars, dbVars
<1>5. CASE Read
  <2>1. PICK f, spos, epos : f = job.file /\ spos = StartOf(f) /\ epos = EndOf(f, spos)
    OBVIOUS
  <2>2. UNCHANGED <<lines, met, fpos, timeless>>
    BY <1>5, <2>1, ReadOutcome DEF Gone, fileVars, dbVars
  <2> QED BY <1>3, <2>2
<1>6. CASE Crash \/ Restart
  BY <1>3, <1>6 DEF Crash, Restart, Gone, fileVars, dbVars
<1>7. CASE UNCHANGED vars
  BY <1>3, <1>7 DEF vars
<1> QED BY <1>1, <1>2, <1>3, <1>4, <1>5, <1>6, <1>7 DEF Next

(***************************************************************************)
(* met2db implements IncrementalIngest for its trusted files: a COMMIT     *)
(* (DB.py 82-86) is one transaction that consumes the next lines of one    *)
(* file and stores all their rows, those of passes refused for want of a   *)
(* time excepted, and nothing else changes the table.                      *)
(***************************************************************************)
THEOREM ImplementsIngest == Spec => RefinesIncrementalIngest
<1>1. IInv /\ [Next]_vars => [Abstract!Next]_(Abstract!ingestVars)
  BY NextRefines DEF trustedVars, trustedFile, trustedPos, trustedStored, trustedDropped,
                     Abstract!ingestVars
<1>2. Init => Abstract!Init
  BY InitRefines
<1> QED BY <1>1, <1>2, SpecIInv, PTL DEF Spec, RefinesIncrementalIngest, Abstract!Spec

==============================================================================
