------------------------------ MODULE RhibProofs ------------------------------
(***************************************************************************)
(* Proofs about RhibIngest for any set of files and records, about         *)
(* RhibJoin for any times, reach and margin, and for all bounds.           *)
(***************************************************************************)
EXTENDS RhibIngest, RhibJoin, SequenceTheorems, TLAPS

(***************************************************************************)
(* The inductive invariant.  One thread reads, so the position it started  *)
(* from stays the recorded one, or 0 when the file had been shorter; and   *)
(* what it took the file's length for is right until an event says that    *)
(* the file has changed.                                                   *)
(***************************************************************************)

\* Without a watch nothing is announced and nothing read.
Quiet ==
  phase # "up" =>
    unscanned = {} /\ events = {} /\ pending = {} /\ queue = <<>> /\ job = NoJob

StartKnown == job # NoJob => job.spos \in {0, rhibPos[job.file]}

StartFresh == job # NoJob /\ ~Announced(job.file) => job.spos = StartOf(job.file)

IngestInv ==
  TypeOK /\ Quiet /\ StartKnown /\ StartFresh /\ NoSkippedUnlessOvergrown /\ NoChangeForgotten

------------------------------------------------------------------------------
(* The queue *)

LEMMA MembersAppend ==
  ASSUME NEW S, NEW q \in Seq(S), NEW e \in S
  PROVE  Members(Append(q, e)) = Members(q) \union {e}
<1>1. /\ Len(Append(q, e)) = Len(q) + 1 /\ Len(q) \in Nat
      /\ \A i \in 1..Len(q) : Append(q, e)[i] = q[i]
      /\ Append(q, e)[Len(q) + 1] = e
  OBVIOUS
<1>2. 1..(Len(q) + 1) = 1..Len(q) \union {Len(q) + 1}
  BY <1>1
<1> QED BY <1>1, <1>2 DEF Members

LEMMA MembersTail ==
  ASSUME NEW S, NEW q \in Seq(S), q # <<>>
  PROVE  /\ Members(q) = Members(Tail(q)) \union {Head(q)}
         /\ Head(q) \in S /\ Tail(q) \in Seq(S)
<1>1. /\ Len(q) \in Nat \ {0} /\ Len(Tail(q)) = Len(q) - 1 /\ Head(q) = q[1]
      /\ \A i \in 1..(Len(q) - 1) : Tail(q)[i] = q[i + 1]
      /\ Head(q) \in S /\ Tail(q) \in Seq(S)
  OBVIOUS
<1>2. ASSUME NEW x \in Members(q) PROVE x \in Members(Tail(q)) \union {Head(q)}
  <2>1. PICK i \in 1..Len(q) : x = q[i]
    BY <1>2 DEF Members
  <2>2. CASE i = 1
    BY <2>1, <2>2, <1>1
  <2>3. CASE i # 1
    <3>1. i - 1 \in 1..(Len(q) - 1) /\ Tail(q)[i - 1] = x
      BY <2>1, <2>3, <1>1
    <3> QED BY <3>1, <1>1 DEF Members
  <2> QED BY <2>2, <2>3
<1>3. ASSUME NEW x \in Members(Tail(q)) PROVE x \in Members(q)
  <2>1. PICK i \in 1..(Len(q) - 1) : x = Tail(q)[i]
    BY <1>3, <1>1 DEF Members
  <2>2. i + 1 \in 1..Len(q) /\ q[i + 1] = x
    BY <2>1, <1>1
  <2> QED BY <2>2 DEF Members
<1>4. Head(q) \in Members(q)
  BY <1>1 DEF Members
<1> QED BY <1>1, <1>2, <1>3, <1>4

------------------------------------------------------------------------------
(* Types *)

LEMMA JobType ==
  ASSUME TypeOK, job # NoJob
  PROVE  job.file \in Files /\ job.spos \in Nat
BY DEF TypeOK

LEMMA StoreType ==
  ASSUME TypeOK, Store
  PROVE  /\ stored' \subseteq Records /\ rhibPos' \in [Files -> Nat]
         /\ overgrown' \in [Files -> BOOLEAN]
<1>1. job.file \in Files /\ job.spos \in Nat /\ Len(lines[job.file]) \in Nat
  BY JobType DEF Store, TypeOK
<1>2. CASE "raise" \in LinesRead(job.file, job.spos)
  BY <1>2 DEF Store, TypeOK, dbVars
<1>3. CASE "raise" \notin LinesRead(job.file, job.spos)
  <2>1. EndOf(job.file, job.spos) \in Nat
    BY <1>1 DEF EndOf
  <2>2. stored' \subseteq Records
    BY <1>3 DEF Store, StoredFrom, TypeOK
  <2>3. rhibPos' = [rhibPos EXCEPT ![job.file] = EndOf(job.file, job.spos)]
    BY <1>3 DEF Store
  <2>4. rhibPos' \in [Files -> Nat]
    BY <2>1, <2>3 DEF TypeOK
  <2>5. overgrown' = [overgrown EXCEPT ![job.file] = overgrown[job.file] /\ job.spos # 0]
    BY <1>3 DEF Store
  <2>6. overgrown' \in [Files -> BOOLEAN]
    BY <2>5 DEF TypeOK
  <2> QED BY <2>2, <2>4, <2>6
<1> QED BY <1>2, <1>3

LEMMA IngestType == TypeOK /\ [Next]_vars => TypeOK'
<1> SUFFICES ASSUME TypeOK, [Next]_vars PROVE TypeOK'
  OBVIOUS
<1> USE DEF fileVars, monitorVars, dbVars
<1>1. ASSUME NEW f \in Files, AppendLine(f) PROVE TypeOK'
  <2>1. PICK k \in Kinds[f] : lines' = [lines EXCEPT ![f] = Append(@, k)]
    BY <1>1 DEF AppendLine
  <2>2. k \in Lines
    BY <2>1, KindsAssumption
  <2>3. lines' \in [Files -> Seq(Lines)]
    BY <2>1, <2>2 DEF TypeOK
  <2>4. overgrown' \in [Files -> BOOLEAN]
    BY <1>1 DEF AppendLine, TypeOK
  <2> QED BY <1>1, <2>3, <2>4 DEF AppendLine, Event, TypeOK
<1>2. ASSUME NEW f \in Files, AppendPart(f) PROVE TypeOK'
  BY <1>2 DEF AppendPart, Event, TypeOK
<1>3. ASSUME NEW f \in Files, Truncate(f) PROVE TypeOK'
  BY <1>3 DEF Truncate, Event, TypeOK
<1>4. ASSUME NEW f \in Files, Pend(f) \/ Flush(f) \/ Scan(f) PROVE TypeOK'
  <2>1. CASE Pend(f)
    BY <2>1 DEF Pend, TypeOK
  <2>2. CASE Flush(f)
    BY <2>2 DEF Flush, TypeOK
  <2>3. CASE Scan(f)
    BY <2>3 DEF Scan, TypeOK
  <2> QED BY <1>4, <2>1, <2>2, <2>3
<1>5. CASE Open
  <2>1. Head(queue) \in Files /\ Tail(queue) \in Seq(Files)
    BY <1>5, MembersTail DEF Open, TypeOK
  <2>2. StartOf(Head(queue)) \in Nat
    BY <2>1 DEF StartOf, TypeOK
  <2>3. job' \in {NoJob} \union [step : {"opened"}, file : Files, spos : Nat]
    BY <1>5, <2>1, <2>2 DEF Open
  <2> QED BY <1>5, <2>1, <2>3 DEF Open, TypeOK
<1>6. CASE Store
  BY <1>6, StoreType DEF Store, TypeOK
<1>7. CASE Watch \/ Crash \/ Restart
  <2>1. CASE Watch
    BY <2>1 DEF Watch, TypeOK
  <2>2. CASE Crash
    BY <2>2 DEF Crash, TypeOK
  <2>3. CASE Restart
    BY <2>3 DEF Restart, TypeOK
  <2> QED BY <1>7, <2>1, <2>2, <2>3
<1>8. CASE UNCHANGED vars
  BY <1>8 DEF vars, TypeOK
<1> QED BY <1>1, <1>2, <1>3, <1>4, <1>5, <1>6, <1>7, <1>8 DEF Next

------------------------------------------------------------------------------
(* The steps *)

LEMMA IngestInit == Init => IngestInv
<1> SUFFICES ASSUME Init PROVE IngestInv
  OBVIOUS
<1>1. TypeOK
  BY DEF Init, TypeOK
<1> QED BY <1>1 DEF Init, IngestInv, Quiet, StartKnown, StartFresh,
                    NoSkippedUnlessOvergrown, NoChangeForgotten

\* What the reading relies on is kept by a step that changes no file, no table
\* and no announcement.
LEMMA SameKnown ==
  ASSUME IngestInv, UNCHANGED <<lines, dbVars, job, phase>>,
         \A f \in Files : Announced(f)' <=> Announced(f)
  PROVE  StartKnown' /\ StartFresh' /\ NoSkippedUnlessOvergrown' /\ NoChangeForgotten'
<1> USE DEF dbVars, IngestInv
<1>1. StartKnown' /\ NoSkippedUnlessOvergrown'
  BY DEF StartKnown, NoSkippedUnlessOvergrown
<1>2. StartFresh'
  BY JobType DEF StartFresh, StartOf
<1>3. NoChangeForgotten'
  BY DEF NoChangeForgotten, Reading, LinesRead, StartOf
<1> QED BY <1>1, <1>2, <1>3

LEMMA AppendSkips ==
  ASSUME IngestInv, NEW f \in Files, AppendLine(f)
  PROVE  NoSkippedUnlessOvergrown'
<1> SUFFICES ASSUME NEW g \in Files, rhibPos[g] <= Len(lines'[g]), ~overgrown'[g],
                    NEW i \in 1..rhibPos[g], lines'[g][i] \in Records
             PROVE  lines'[g][i] \in stored
  BY DEF NoSkippedUnlessOvergrown, AppendLine
<1>1. PICK k \in Kinds[f] : lines' = [lines EXCEPT ![f] = Append(@, k)]
  BY DEF AppendLine
<1>2. lines[f] \in Seq(Lines) /\ k \in Lines /\ rhibPos[g] \in Nat /\ Len(lines[g]) \in Nat
  <2>1. lines[f] \in Seq(Lines) /\ lines[g] \in Seq(Lines) /\ rhibPos[g] \in Nat
    BY DEF IngestInv, TypeOK
  <2>2. k \in Lines
    BY <1>1, KindsAssumption
  <2> QED BY <2>1, <2>2
<1>3. ~overgrown[g] /\ (g = f => Len(lines[f]) + 1 # rhibPos[f])
  BY DEF AppendLine, IngestInv, TypeOK
<1>4. CASE g = f
  <2>1. lines'[g] = Append(lines[f], k)
    BY <1>1, <1>4 DEF IngestInv, TypeOK
  <2>2. Len(lines'[g]) = Len(lines[f]) + 1
    BY <2>1, <1>2
  <2>3. rhibPos[g] <= Len(lines[g])
    BY <2>2, <1>2, <1>3, <1>4
  <2>4. lines'[g][i] = lines[g][i]
    BY <2>1, <2>3, <1>2, <1>4
  <2> QED BY <2>3, <2>4, <1>3 DEF IngestInv, NoSkippedUnlessOvergrown
<1>5. CASE g # f
  <2>1. lines'[g] = lines[g]
    BY <1>1, <1>5 DEF IngestInv, TypeOK
  <2> QED BY <2>1, <1>3 DEF IngestInv, NoSkippedUnlessOvergrown
<1> QED BY <1>4, <1>5

\* A change of a file is announced while the process watches.
LEMMA FileKnown ==
  ASSUME IngestInv, NEW f \in Files, AppendLine(f) \/ AppendPart(f) \/ Truncate(f)
  PROVE  Quiet' /\ StartKnown' /\ StartFresh' /\ NoChangeForgotten'
<1>1. /\ UNCHANGED <<rhibPos, phase, unscanned, pending, queue, job>>
      /\ \A g \in Files : g # f => lines'[g] = lines[g]
      /\ Event(f)
  BY DEF AppendLine, AppendPart, Truncate, dbVars, IngestInv, TypeOK
<1>2. /\ phase = "up" => Announced(f)'
      /\ \A g \in Files : Announced(g) => Announced(g)'
  BY <1>1 DEF Announced, Event
<1>3. Quiet' /\ StartKnown'
  BY <1>1 DEF IngestInv, Quiet, StartKnown, Event
<1>4. StartFresh'
  BY <1>1, <1>2, JobType DEF IngestInv, Quiet, StartFresh, StartOf
<1>5. NoChangeForgotten'
  BY <1>1, <1>2 DEF IngestInv, NoChangeForgotten, Reading, LinesRead, StartOf
<1> QED BY <1>3, <1>4, <1>5

LEMMA MonitorKnown ==
  ASSUME IngestInv, NEW f \in Files, Pend(f) \/ Flush(f) \/ Scan(f)
  PROVE  /\ UNCHANGED <<lines, dbVars, job, phase>> /\ phase = "up"
         /\ \A g \in Files : Announced(g)' <=> Announced(g)
<1>1. queue \in Seq(Files)
  BY DEF IngestInv, TypeOK
<1>2. CASE Pend(f)
  BY <1>2 DEF Pend, Announced, fileVars
<1>3. Members(Append(queue, f)) = Members(queue) \union {f}
  BY <1>1, MembersAppend
<1>4. CASE Flush(f)
  <2>1. Members(queue)' = Members(queue) \union {f}
    BY <1>3, <1>4 DEF Flush, Members
  <2> QED BY <1>4, <2>1 DEF Flush, Announced, fileVars
<1>5. CASE Scan(f)
  <2>1. Members(queue)' = Members(queue) \union {f}
    BY <1>3, <1>5 DEF Scan, Members
  <2> QED BY <1>5, <2>1 DEF Scan, Announced, fileVars
<1> QED BY <1>2, <1>4, <1>5

LEMMA OpenKnown ==
  ASSUME IngestInv, Open
  PROVE  Quiet' /\ StartKnown' /\ StartFresh' /\ NoSkippedUnlessOvergrown' /\ NoChangeForgotten'
<1> DEFINE f == Head(queue)
<1>1. /\ Members(queue) = Members(Tail(queue)) \union {f} /\ f \in Files
  BY MembersTail DEF IngestInv, TypeOK, Open
<1>2. /\ UNCHANGED <<lines, frag, phase, unscanned, events, pending, stored, rhibPos, overgrown>>
      /\ queue' = Tail(queue) /\ queue # <<>> /\ job = NoJob
      /\ job' = IF AtPosition(f) THEN NoJob
                ELSE [step |-> "opened", file |-> f, spos |-> StartOf(f)]
  BY DEF Open, fileVars, monitorVars, dbVars
<1>3. \A g \in Files : g # f => (Announced(g)' <=> Announced(g))
  BY <1>1, <1>2 DEF Announced, Members
<1>4. Quiet'
  BY <1>2 DEF IngestInv, Quiet
<1>5. NoSkippedUnlessOvergrown'
  BY <1>2 DEF IngestInv, NoSkippedUnlessOvergrown
<1>6. StartKnown' /\ StartFresh'
  BY <1>1, <1>2 DEF StartKnown, StartFresh, StartOf, NoJob
<1>7. NoChangeForgotten'
  <2> SUFFICES ASSUME NEW g \in Files, phase = "up", Len(lines[g]) # rhibPos[g],
                      ~Announced(g)', ~Reading(g)'
               PROVE  "raise" \in LinesRead(g, StartOf(g))
    BY <1>2 DEF NoChangeForgotten, LinesRead, StartOf
  <2>1. g # f
    BY <1>2 DEF AtPosition, Reading, NoJob
  <2> QED BY <1>2, <1>3, <2>1 DEF IngestInv, NoChangeForgotten, Reading
<1> QED BY <1>4, <1>5, <1>6, <1>7

LEMMA StoreSkips ==
  ASSUME IngestInv, Store
  PROVE  NoSkippedUnlessOvergrown'
<1> DEFINE f == job.file
<1>1. f \in Files /\ job.spos \in Nat /\ rhibPos[f] \in Nat /\ Len(lines[f]) \in Nat /\ job # NoJob
  BY JobType DEF IngestInv, TypeOK, Store
<1>2. UNCHANGED lines
  BY DEF Store, fileVars
<1>3. CASE "raise" \in LinesRead(f, job.spos)
  BY <1>2, <1>3 DEF Store, IngestInv, NoSkippedUnlessOvergrown, dbVars
<1>4. CASE "raise" \notin LinesRead(f, job.spos)
  <2>1. /\ stored' = stored \union StoredFrom(f, job.spos)
        /\ rhibPos' = [rhibPos EXCEPT ![f] = EndOf(f, job.spos)]
        /\ overgrown' = [overgrown EXCEPT ![f] = overgrown[f] /\ job.spos # 0]
    BY <1>4 DEF Store
  <2>2. ASSUME NEW g \in Files, g # f, rhibPos'[g] <= Len(lines[g]), ~overgrown'[g],
               NEW i \in 1..rhibPos'[g], lines[g][i] \in Records
        PROVE  lines[g][i] \in stored'
    BY <2>1, <2>2 DEF IngestInv, TypeOK, NoSkippedUnlessOvergrown
  <2>3. ASSUME rhibPos'[f] <= Len(lines[f]), ~overgrown'[f],
               NEW i \in 1..rhibPos'[f], lines[f][i] \in Records
        PROVE  lines[f][i] \in stored'
    <3>1. rhibPos'[f] = EndOf(f, job.spos)
      BY <2>1, <1>1 DEF IngestInv, TypeOK
    <3>2. job.spos <= Len(lines[f]) /\ rhibPos'[f] = Len(lines[f])
      BY <3>1, <2>3, <1>1 DEF EndOf
    <3>3. overgrown'[f] = (overgrown[f] /\ job.spos # 0)
      BY <2>1, <1>1 DEF IngestInv, TypeOK
    <3>4. CASE job.spos < i
      <4>1. lines[f][i] \in LinesRead(f, job.spos)
        BY <3>2, <3>4 DEF LinesRead
      <4> QED BY <4>1, <2>1, <2>3 DEF StoredFrom
    <3>5. CASE ~(job.spos < i)
      <4>1. job.spos # 0 /\ i \in 1..job.spos
        BY <3>2, <3>5, <1>1
      <4>2. job.spos = rhibPos[f] /\ ~overgrown[f]
        BY <4>1, <3>3, <2>3, <1>1 DEF IngestInv, StartKnown
      <4>3. lines[f][i] \in stored
        BY <4>1, <4>2, <3>2, <2>3, <1>1 DEF IngestInv, NoSkippedUnlessOvergrown
      <4> QED BY <4>3, <2>1
    <3> QED BY <3>4, <3>5
  <2> QED BY <2>2, <2>3, <1>2 DEF NoSkippedUnlessOvergrown
<1> QED BY <1>3, <1>4

LEMMA StoreKnown ==
  ASSUME IngestInv, Store
  PROVE  Quiet' /\ StartKnown' /\ StartFresh' /\ NoChangeForgotten'
<1> DEFINE f == job.file
<1>1. f \in Files /\ job.spos \in Nat /\ rhibPos[f] \in Nat /\ Len(lines[f]) \in Nat /\ job # NoJob
  BY JobType DEF IngestInv, TypeOK, Store
<1>2. UNCHANGED <<lines, phase, unscanned, events, pending, queue>> /\ job' = NoJob
  BY DEF Store, fileVars, monitorVars
<1>3. \A g \in Files : Announced(g)' <=> Announced(g)
  BY <1>2 DEF Announced, Members
<1>4. Quiet' /\ StartKnown' /\ StartFresh'
  BY <1>2 DEF IngestInv, Quiet, StartKnown, StartFresh
<1>5. ASSUME NEW g \in Files, phase = "up", Len(lines[g]) # rhibPos'[g], ~Announced(g)
      PROVE  "raise" \in LinesRead(g, StartOf(g)')
  <2>1. CASE g # f
    <3>1. rhibPos'[g] = rhibPos[g]
      BY <2>1, <1>1 DEF Store, dbVars, IngestInv, TypeOK
    <3> QED BY <3>1, <2>1, <1>2, <1>5 DEF IngestInv, NoChangeForgotten, Reading, StartOf
  <2>2. CASE g = f
    <3>1. job.spos = StartOf(f)
      BY <2>2, <1>1, <1>5 DEF IngestInv, StartFresh
    <3>2. job.spos <= Len(lines[f])
      BY <3>1, <1>1 DEF StartOf
    <3>3. CASE "raise" \in LinesRead(f, job.spos)
      <4>1. rhibPos' = rhibPos
        BY <3>3 DEF Store, dbVars
      <4> QED BY <4>1, <3>1, <3>3, <2>2, <1>2 DEF StartOf
    <3>4. CASE "raise" \notin LinesRead(f, job.spos)
      <4>1. rhibPos' = [rhibPos EXCEPT ![f] = EndOf(f, job.spos)]
        BY <3>4 DEF Store
      <4>2. rhibPos'[f] = Len(lines[f])
        BY <4>1, <3>2, <1>1 DEF EndOf, IngestInv, TypeOK
      <4> QED BY <4>2, <2>2, <1>5
    <3> QED BY <3>3, <3>4
  <2> QED BY <2>1, <2>2
<1>6. NoChangeForgotten'
  BY <1>2, <1>3, <1>5 DEF NoChangeForgotten, LinesRead
<1> QED BY <1>4, <1>6

\* A new process announces every file before it has looked at any.
LEMMA ProcessKnown ==
  ASSUME IngestInv, Watch \/ Crash \/ Restart
  PROVE  Quiet' /\ StartKnown' /\ StartFresh' /\ NoSkippedUnlessOvergrown' /\ NoChangeForgotten'
<1>1. UNCHANGED <<lines, stored, rhibPos, overgrown>> /\ job' = NoJob
  BY DEF Watch, Crash, Restart, fileVars, dbVars, IngestInv, Quiet
<1>2. Quiet'
  BY DEF Watch, Crash, Restart, monitorVars, IngestInv, Quiet
<1>3. phase' = "up" => unscanned' = Files
  BY DEF Watch, Crash, Restart
<1>4. StartKnown' /\ StartFresh' /\ NoSkippedUnlessOvergrown'
  BY <1>1 DEF IngestInv, StartKnown, StartFresh, NoSkippedUnlessOvergrown
<1>5. NoChangeForgotten'
  BY <1>3 DEF NoChangeForgotten, Announced
<1> QED BY <1>2, <1>4, <1>5

LEMMA IngestStep == IngestInv /\ [Next]_vars => IngestInv'
<1> SUFFICES ASSUME IngestInv, [Next]_vars PROVE IngestInv'
  OBVIOUS
<1>1. TypeOK'
  BY IngestType DEF IngestInv
<1>2. ASSUME NEW f \in Files, AppendLine(f) PROVE IngestInv'
  BY <1>1, <1>2, FileKnown, AppendSkips DEF IngestInv
<1>3. ASSUME NEW f \in Files, AppendPart(f) PROVE IngestInv'
  <2>1. NoSkippedUnlessOvergrown'
    BY <1>3 DEF AppendPart, dbVars, IngestInv, NoSkippedUnlessOvergrown
  <2> QED BY <1>1, <1>3, <2>1, FileKnown DEF IngestInv
<1>4. ASSUME NEW f \in Files, Truncate(f) PROVE IngestInv'
  <2>1. lines' = [lines EXCEPT ![f] = <<>>] /\ UNCHANGED <<stored, rhibPos, overgrown>>
    BY <1>4 DEF Truncate, dbVars
  <2>2. Len(lines'[f]) = 0
    BY <2>1 DEF IngestInv, TypeOK
  <2>3. rhibPos[f] <= Len(lines'[f]) => 1..rhibPos[f] = {}
    BY <2>2 DEF IngestInv, TypeOK
  <2>4. \A g \in Files : g # f => lines'[g] = lines[g]
    BY <2>1 DEF IngestInv, TypeOK
  <2>5. NoSkippedUnlessOvergrown'
    BY <2>1, <2>3, <2>4 DEF IngestInv, NoSkippedUnlessOvergrown
  <2> QED BY <1>1, <1>4, <2>5, FileKnown DEF IngestInv
<1>5. ASSUME NEW f \in Files, Pend(f) \/ Flush(f) \/ Scan(f) PROVE IngestInv'
  <2>1. Quiet'
    BY <1>5, MonitorKnown DEF Quiet
  <2> QED BY <1>1, <1>5, <2>1, MonitorKnown, SameKnown DEF IngestInv
<1>6. CASE Open
  BY <1>1, <1>6, OpenKnown DEF IngestInv
<1>7. CASE Store
  BY <1>1, <1>7, StoreKnown, StoreSkips DEF IngestInv
<1>8. CASE Watch \/ Crash \/ Restart
  BY <1>1, <1>8, ProcessKnown DEF IngestInv
<1>9. CASE UNCHANGED vars
  <2>1. UNCHANGED <<lines, dbVars, job, phase>> /\ (\A f \in Files : Announced(f)' <=> Announced(f))
    BY <1>9 DEF vars, fileVars, monitorVars, dbVars, Announced, Members
  <2>2. Quiet'
    BY <1>9 DEF IngestInv, Quiet, vars, monitorVars
  <2> QED BY <1>1, <2>1, <2>2, SameKnown DEF IngestInv
<1> QED BY <1>2, <1>3, <1>4, <1>5, <1>6, <1>7, <1>8, <1>9 DEF Next

LEMMA IngestInvariant == Spec => []IngestInv
<1> QED BY IngestInit, IngestStep, PTL DEF Spec

------------------------------------------------------------------------------
\* Every variable of the RHIB ingest keeps its type.
THEOREM RhibTypeCorrect == Spec => []TypeOK
<1>1. IngestInv => TypeOK
  BY DEF IngestInv
<1> QED BY IngestInvariant, <1>1, PTL

\* The recorded position of a file never passes a record that is not in the
\* database, unless the file was truncated and grew back unseen (rhib2db.py
\* 241-269).
THEOREM RhibNoneSkipped == Spec => []NoSkippedUnlessOvergrown
<1>1. IngestInv => NoSkippedUnlessOvergrown
  BY DEF IngestInv
<1> QED BY IngestInvariant, <1>1, PTL

\* While the process watches, a changed file is announced, being read, or was
\* rolled back (Monitor.py 43-73, rhib2db.py 290-313).
THEOREM RhibNoneForgotten == Spec => []NoChangeForgotten
<1>1. IngestInv => NoChangeForgotten
  BY DEF IngestInv
<1> QED BY IngestInvariant, <1>1, PTL

------------------------------------------------------------------------------
(* The join.  While rows come in order, what a set of averages lacks comes    *)
(* after what it has, and behind the margin nothing is lacking.               *)

LastIsLatest ==
  /\ last = 0 => Joined = {}
  /\ last # 0 => last \in Joined
  /\ \A t \in Joined : t <= last

\* of is the beginning of the navigation rows near t.
Beginning(of, t) ==
  of \subseteq Near(t) /\ (shuffled \/ \A s \in Near(t) \ of, r \in of : r < s)

AveragesBegin == \A t \in Times : Beginning(averaged[t], t)

LinesBegin ==
  /\ \A i \in 1..Len(file) : file[i].of # {} /\ Beginning(file[i].of, file[i].t)
  /\ \A i \in 1..Len(unsaved) : unsaved[i].of # {} /\ Beginning(unsaved[i].of, unsaved[i].t)

InFile(t) == \E i \in 1..Len(file) : file[i].t = t
InUnsaved(t) == \E i \in 1..Len(unsaved) : unsaved[i].t = t

\* Of the rows a run has selected, those not in todo are among its lines.
RunWrites ==
  /\ stage \notin {"write", "close"} => unsaved = <<>>
  /\ stage = "write" =>
       /\ todo \subseteq Joined \ exported
       /\ \A t \in Joined \ exported : t \in todo \/ InUnsaved(t)

FlaggedSaved ==
  unclosed \/ \A t \in exported : InFile(t) \/ (stage = "close" /\ InUnsaved(t))

JoinInv ==
  /\ JoinTypeOK /\ LastIsLatest /\ AveragesBegin /\ LinesBegin
  /\ RunWrites /\ FlaggedSaved /\ JoinedIsFinal

LEMMA JoinInitInv == JoinInit => JoinInv
<1> SUFFICES ASSUME JoinInit PROVE JoinInv
  OBVIOUS
<1> USE DEF JoinInit
<1>1. Joined = {}
  BY DEF Joined
<1>2. JoinTypeOK
  <2>1. file \in Seq([t : Times, of : SUBSET Times]) /\ unsaved \in Seq([t : Times, of : SUBSET Times])
    OBVIOUS
  <2>2. averaged \in [Times -> SUBSET Times]
    OBVIOUS
  <2> QED BY <1>1, <2>1, <2>2 DEF JoinTypeOK
<1>3. LastIsLatest /\ FlaggedSaved /\ RunWrites /\ JoinedIsFinal
  BY <1>1 DEF LastIsLatest, FlaggedSaved, RunWrites, JoinedIsFinal
<1>4. AveragesBegin /\ LinesBegin
  BY DEF AveragesBegin, LinesBegin, Beginning
<1> QED BY <1>2, <1>3, <1>4 DEF JoinInv

LEMMA InsertNavInv ==
  ASSUME JoinInv, NEW t \in Times, InsertNav(t)
  PROVE  JoinInv'
<1> USE DEF JoinInv
<1>1. /\ nav' = nav \union {t} /\ t \notin nav
      /\ shuffled' = (shuffled \/ Behind(t, nav))
      /\ UNCHANGED <<rows, averaged, last, exported, file, todo, tMax, unsaved, unclosed>>
      /\ UNCHANGED <<stage, failures>> /\ Joined' = Joined
  BY DEF InsertNav, joinVars, exportVars, Joined
<1>2. JoinTypeOK'
  <2>1. shuffled' \in BOOLEAN
    BY <1>1 DEF JoinTypeOK, Behind
  <2> QED BY <1>1, <2>1 DEF JoinTypeOK
<1>3. LastIsLatest' /\ FlaggedSaved' /\ RunWrites'
  BY <1>1 DEF LastIsLatest, FlaggedSaved, RunWrites, InFile, InUnsaved
<1>4. ASSUME NEW of, NEW u, of \subseteq nav, Beginning(of, u) PROVE Beginning(of, u)'
  <2>1. Near(u)' \subseteq Near(u) \union {t} /\ Near(u) \subseteq Near(u)'
    BY <1>1 DEF Near
  <2>2. ~shuffled' => \A r \in of : r < t
    <3> SUFFICES ASSUME ~shuffled', NEW r \in of PROVE r < t
      OBVIOUS
    <3>1. t \in Nat /\ r \in Nat /\ r # t /\ r \in nav
      BY <1>1, <1>4, TimesAssumption DEF Times, JoinTypeOK
    <3>2. ~(t < r)
      BY <1>1, <3>1 DEF Behind
    <3> QED BY <3>1, <3>2
  <2> QED BY <1>1, <1>4, <2>1, <2>2 DEF Beginning
<1>5. AveragesBegin'
  <2>1. \A u \in Times : averaged[u] # {} => averaged[u] \subseteq nav /\ Beginning(averaged[u], u)
    BY DEF AveragesBegin, Beginning, Near
  <2> QED BY <1>1, <1>4, <2>1 DEF AveragesBegin
<1>6. LinesBegin'
  <2>1. \A i \in 1..Len(file) : file[i].of \subseteq nav
    BY DEF LinesBegin, Beginning, Near
  <2>2. \A i \in 1..Len(unsaved) : unsaved[i].of \subseteq nav
    BY DEF LinesBegin, Beginning, Near
  <2> QED BY <1>1, <1>4, <2>1, <2>2 DEF LinesBegin
<1>7. JoinedIsFinal'
  <2> SUFFICES ASSUME ~shuffled', NEW u \in rows, u + Margin <= last
               PROVE  Near(u)' = Near(u)
    BY <1>1 DEF JoinedIsFinal
  <2> USE TimesAssumption, MarginAssumption DEF Times
  <2>1. u \in Nat /\ u >= 1 /\ t \in Nat /\ last \in Nat /\ last # 0
    BY DEF JoinTypeOK
  <2>2. PICK r \in averaged[last] : r \in Near(last) /\ r \in nav
    <3>1. last \in Times /\ averaged[last] # {} /\ averaged[last] \subseteq Near(last)
      BY <2>1 DEF LastIsLatest, Joined, AveragesBegin, Beginning
    <3> QED BY <3>1 DEF Near
  <2>3. r \in Nat /\ last <= r + Reach
    BY <2>2 DEF Near, JoinTypeOK
  <2>4. r < t
    <3>1. r # t /\ ~(t < r)
      BY <1>1, <2>2 DEF Behind
    <3> QED BY <2>1, <2>3, <3>1
  <2>5. ~(t <= u + Reach)
    BY <2>1, <2>3, <2>4
  <2> QED BY <1>1, <2>5 DEF Near
<1> QED BY <1>2, <1>3, <1>5, <1>6, <1>7

LEMMA InsertRowInv ==
  ASSUME JoinInv, NEW t \in Times, InsertRow(t)
  PROVE  JoinInv'
<1> USE DEF JoinInv
<1>1. /\ rows' = rows \union {t} /\ t \notin rows
      /\ shuffled' = (shuffled \/ Behind(t, rows))
      /\ UNCHANGED <<nav, averaged, last, exported, file, todo, tMax, unsaved, unclosed>>
      /\ UNCHANGED <<stage, failures>> /\ Joined' = Joined
  BY DEF InsertRow, joinVars, exportVars, Joined
<1>2. JoinTypeOK'
  <2>1. shuffled' \in BOOLEAN
    BY <1>1 DEF JoinTypeOK, Behind
  <2> QED BY <1>1, <2>1 DEF JoinTypeOK
<1>3. LastIsLatest' /\ FlaggedSaved' /\ RunWrites'
  BY <1>1 DEF LastIsLatest, FlaggedSaved, RunWrites, InFile, InUnsaved
<1>4. ASSUME NEW of, NEW u, Beginning(of, u) PROVE Beginning(of, u)'
  BY <1>1, <1>4 DEF Beginning, Near
<1>5. AveragesBegin' /\ LinesBegin'
  BY <1>1, <1>4 DEF AveragesBegin, LinesBegin
<1>6. JoinedIsFinal'
  <2> SUFFICES ASSUME ~shuffled', t + Margin <= last PROVE FALSE
    BY <1>1 DEF JoinedIsFinal, Near
  <2>1. t \in Nat /\ t >= 1 /\ last \in Nat /\ Margin \in Nat
    BY TimesAssumption, MarginAssumption DEF JoinTypeOK, Times
  <2>2. last \in rows
    BY <2>1 DEF LastIsLatest, JoinTypeOK
  <2>3. t # last /\ ~(t < last)
    BY <1>1, <2>2 DEF Behind
  <2> QED BY <2>1, <2>3
<1> QED BY <1>2, <1>3, <1>5, <1>6

LEMMA JoinStepInv ==
  ASSUME JoinInv, Join
  PROVE  JoinInv'
<1> USE DEF JoinInv
<1>1. /\ averaged' = [t \in Times |-> IF t \in Window(last) THEN Near(t) ELSE averaged[t]]
      /\ last' \in Latest(Joined') /\ stage = "join" /\ stage' = "select"
      /\ UNCHANGED <<nav, rows, shuffled, exported, file, todo, tMax, unsaved, unclosed, failures>>
  BY DEF Join, Joined, sourceVars, exportVars
<1>2. \A t \in Times : Near(t) \subseteq nav
  BY DEF Near
<1>3. averaged' \in [Times -> SUBSET Times]
  BY <1>1, <1>2 DEF JoinTypeOK
<1>4. Joined \subseteq Joined' /\ Joined' \subseteq rows /\ Joined' \subseteq Times
  <2>1. \A t \in Window(last) : t \in rows /\ Near(t) # {}
    BY DEF Window
  <2> QED BY <1>1, <2>1 DEF Joined, JoinTypeOK
<1>5. LastIsLatest' /\ last' \in Times \union {0}
  <2>1. last' \in Joined' \union {0} /\ \A t \in Joined' : t <= last'
    BY <1>1 DEF Latest
  <2>2. \A t \in Times : ~(t <= 0)
    BY TimesAssumption DEF Times
  <2> QED BY <1>4, <2>1, <2>2 DEF LastIsLatest
<1>6. JoinTypeOK'
  BY <1>1, <1>3, <1>4, <1>5 DEF JoinTypeOK
<1>7. AveragesBegin'
  <2>1. ASSUME NEW of, NEW t, Beginning(of, t) PROVE Beginning(of, t)'
    BY <1>1, <2>1 DEF Beginning, Near
  <2>2. \A t \in Times : Beginning(Near(t), t)
    BY DEF Beginning
  <2>3. \A t \in Times : Beginning(averaged'[t], t)
    BY <1>1, <2>2 DEF AveragesBegin
  <2> QED BY <1>1, <2>3 DEF AveragesBegin, Beginning, Near
<1>8. LinesBegin'
  BY <1>1 DEF LinesBegin, Beginning, Near
<1>9. RunWrites' /\ FlaggedSaved'
  BY <1>1 DEF RunWrites, FlaggedSaved, InFile, InUnsaved
<1>10. JoinedIsFinal'
  <2> SUFFICES ASSUME ~shuffled, NEW t \in rows PROVE averaged'[t] = Near(t)
    BY <1>1 DEF JoinedIsFinal, Near
  <2>1. t \in Times /\ t + Margin \in Nat /\ last \in Nat
    BY TimesAssumption, MarginAssumption DEF JoinTypeOK, Times
  <2>2. CASE t \in Window(last)
    BY <1>1, <2>1, <2>2
  <2>3. CASE t \notin Window(last) /\ Near(t) = {}
    <3>1. averaged[t] = {}
      BY <2>1, <2>3 DEF AveragesBegin, Beginning
    <3> QED BY <1>1, <2>1, <2>3, <3>1
  <2>4. CASE t \notin Window(last) /\ Near(t) # {}
    <3>1. t + Margin <= last
      BY <2>1, <2>4 DEF Window
    <3> QED BY <1>1, <2>1, <2>4, <3>1 DEF JoinedIsFinal
  <2> QED BY <2>2, <2>3, <2>4
<1> QED BY <1>5, <1>6, <1>7, <1>8, <1>9, <1>10

\* What leaves the tables as they are.
LEMMA SameTables ==
  ASSUME JoinInv, UNCHANGED <<sourceVars, joinVars>>
  PROVE  /\ Joined' = Joined /\ LastIsLatest' /\ AveragesBegin' /\ JoinedIsFinal'
         /\ \A of, t : Beginning(of, t)' = Beginning(of, t)
<1>1. Joined' = Joined
  BY DEF joinVars, Joined
<1>2. \A of, t : Beginning(of, t)' = Beginning(of, t)
  BY DEF Beginning, Near, sourceVars
<1>3. AveragesBegin'
  BY <1>2 DEF AveragesBegin, joinVars, JoinInv
<1>4. LastIsLatest' /\ JoinedIsFinal'
  BY <1>1 DEF LastIsLatest, JoinedIsFinal, Near, joinVars, sourceVars, JoinInv
<1> QED BY <1>1, <1>2, <1>3, <1>4

\* A run begins, its join fails, or it selects.
LEMMA QuietInv ==
  ASSUME JoinInv, StartRun \/ JoinFails \/ Select
  PROVE  JoinInv'
<1>1. /\ UNCHANGED <<sourceVars, joinVars, exported, file, unsaved, unclosed>>
      /\ stage \in {"idle", "join", "select"} /\ stage' \in {"join", "select", "write"}
  BY DEF StartRun, JoinFails, Select, exportVars
<1>2. Joined' = Joined /\ LastIsLatest' /\ AveragesBegin' /\ JoinedIsFinal'
      /\ \A of, t : Beginning(of, t)' = Beginning(of, t)
  BY <1>1, SameTables
<1>3. (todo' = todo /\ tMax' = tMax) \/ (todo' = Joined \ exported /\ tMax' = 0)
  BY DEF StartRun, JoinFails, Select, exportVars
<1>4. failures' \in Nat
  BY DEF StartRun, JoinFails, Select, JoinInv, JoinTypeOK
<1>5. JoinTypeOK'
  <2>1. todo' \subseteq Times /\ tMax' \in Times \union {0}
    BY <1>3 DEF Joined, JoinInv, JoinTypeOK
  <2> QED BY <1>1, <1>2, <1>4, <2>1 DEF JoinInv, JoinTypeOK, sourceVars, joinVars
<1>6. LinesBegin'
  BY <1>1, <1>2 DEF LinesBegin, JoinInv
<1>7. RunWrites'
  <2>1. unsaved' = <<>>
    BY <1>1 DEF JoinInv, RunWrites
  <2>2. stage' = "write" => todo' = Joined \ exported
    BY <1>1 DEF StartRun, JoinFails, Select
  <2> QED BY <1>1, <1>2, <2>1, <2>2 DEF RunWrites
<1>8. FlaggedSaved'
  BY <1>1 DEF FlaggedSaved, InFile, InUnsaved, JoinInv
<1> QED BY <1>2, <1>5, <1>6, <1>7, <1>8 DEF JoinInv

LEMMA LineIs ==
  ASSUME JoinInv, NEW t \in Joined
  PROVE  /\ Line(t) \in [t : Times, of : SUBSET Times] /\ Line(t).t = t
         /\ Line(t).of # {} /\ Beginning(Line(t).of, t)
<1>1. t \in Times /\ averaged[t] # {} /\ averaged[t] \in SUBSET Times
  BY DEF Joined, JoinInv, JoinTypeOK
<1>2. Beginning(averaged[t], t)
  BY <1>1 DEF JoinInv, AveragesBegin
<1> QED BY <1>1, <1>2 DEF Line

LEMMA WriteInv ==
  ASSUME JoinInv, Write
  PROVE  JoinInv'
<1>1. PICK t \in todo : /\ tMax' = t /\ todo' = todo \ {t}
                        /\ unsaved' = Append(unsaved, Line(t))
  BY DEF Write
<1>2. /\ UNCHANGED <<sourceVars, joinVars, exported, file, unclosed, stage, failures>>
      /\ stage = "write"
  BY DEF Write
<1>3. Joined' = Joined /\ LastIsLatest' /\ AveragesBegin' /\ JoinedIsFinal'
      /\ \A of, u : Beginning(of, u)' = Beginning(of, u)
  BY <1>2, SameTables
<1>4. t \in Joined /\ t \in Times /\ todo \subseteq Joined \ exported
  BY <1>2 DEF JoinInv, RunWrites, Joined
<1>5. /\ Line(t) \in [t : Times, of : SUBSET Times] /\ Line(t).t = t
      /\ Line(t).of # {} /\ Beginning(Line(t).of, t)
  BY <1>4, LineIs
<1>6. unsaved \in Seq([t : Times, of : SUBSET Times])
  BY DEF JoinInv, JoinTypeOK
<1>7. /\ Len(unsaved') = Len(unsaved) + 1 /\ Len(unsaved) \in Nat
      /\ unsaved'[Len(unsaved) + 1] = Line(t)
      /\ \A i \in 1..Len(unsaved) : unsaved'[i] = unsaved[i]
      /\ unsaved' \in Seq([t : Times, of : SUBSET Times])
  BY <1>1, <1>5, <1>6
<1>8. JoinTypeOK'
  BY <1>1, <1>2, <1>3, <1>4, <1>7 DEF JoinInv, JoinTypeOK, sourceVars, joinVars
<1>9. LinesBegin'
  <2>1. \A i \in 1..Len(unsaved') : i \in 1..Len(unsaved) \/ i = Len(unsaved) + 1
    BY <1>7
  <2>2. \A i \in 1..Len(unsaved') :
           unsaved'[i].of # {} /\ Beginning(unsaved'[i].of, unsaved'[i].t)
    BY <1>5, <1>7, <2>1 DEF JoinInv, LinesBegin
  <2> QED BY <1>2, <1>3, <2>2 DEF JoinInv, LinesBegin
<1>10. \A u \in Times : InUnsaved(u) => InUnsaved(u)'
  BY <1>7 DEF InUnsaved
<1>11. RunWrites'
  <2>1. InUnsaved(t)'
    BY <1>5, <1>7 DEF InUnsaved
  <2>2. \A u \in Joined \ exported : u \in Times /\ (u \in todo \/ InUnsaved(u))
    BY <1>2 DEF JoinInv, RunWrites, Joined
  <2> QED BY <1>1, <1>2, <1>3, <1>4, <1>10, <2>1, <2>2 DEF RunWrites
<1>12. FlaggedSaved'
  BY <1>2 DEF FlaggedSaved, InFile, JoinInv
<1> QED BY <1>3, <1>8, <1>9, <1>11, <1>12 DEF JoinInv

LEMMA FlagInv ==
  ASSUME JoinInv, Flag
  PROVE  JoinInv'
<1>1. /\ UNCHANGED <<sourceVars, joinVars, file, todo, tMax, unsaved, unclosed, failures>>
      /\ stage = "write" /\ stage' = "close" /\ todo = {}
      /\ exported' = exported \union {t \in Joined : t <= tMax}
  BY DEF Flag
<1>2. Joined' = Joined /\ LastIsLatest' /\ AveragesBegin' /\ JoinedIsFinal'
      /\ \A of, u : Beginning(of, u)' = Beginning(of, u)
  BY <1>1, SameTables
<1>3. JoinTypeOK'
  BY <1>1, <1>2 DEF JoinInv, JoinTypeOK, sourceVars, joinVars
<1>4. LinesBegin' /\ RunWrites'
  BY <1>1, <1>2 DEF LinesBegin, RunWrites, JoinInv
<1>5. FlaggedSaved'
  <2>1. \A t \in exported' : t \in exported \/ InUnsaved(t)
    BY <1>1 DEF JoinInv, RunWrites
  <2> QED BY <1>1, <2>1 DEF JoinInv, FlaggedSaved, InFile, InUnsaved
<1> QED BY <1>2, <1>3, <1>4, <1>5 DEF JoinInv

\* However a run ends, lines are saved: all of them, some, or one more.
LEMMA SavedIs ==
  ASSUME JoinInv, NEW s \in Seq([t : Times, of : SUBSET Times]), file' = file \o s,
         UNCHANGED <<sourceVars, joinVars>>, unsaved' = <<>>,
         \A i \in 1..Len(s) : s[i].of # {} /\ Beginning(s[i].of, s[i].t)
  PROVE  /\ LinesBegin' /\ file' \in Seq([t : Times, of : SUBSET Times])
         /\ \A t : InFile(t) \/ (\E i \in 1..Len(s) : s[i].t = t) <=> InFile(t)'
<1>1. file \in Seq([t : Times, of : SUBSET Times])
  BY DEF JoinInv, JoinTypeOK
<1>2. /\ Len(file') = Len(file) + Len(s) /\ Len(file) \in Nat /\ Len(s) \in Nat
      /\ \A i \in 1..Len(file) : file'[i] = file[i]
      /\ \A i \in 1..Len(s) : file'[Len(file) + i] = s[i]
      /\ file' \in Seq([t : Times, of : SUBSET Times])
  BY <1>1
<1>3. \A i \in 1..Len(file') :
        i \in 1..Len(file) \/ \E j \in 1..Len(s) : i = Len(file) + j
  <2> SUFFICES ASSUME NEW i \in 1..Len(file'), i \notin 1..Len(file)
               PROVE  \E j \in 1..Len(s) : i = Len(file) + j
    OBVIOUS
  <2>1. i - Len(file) \in 1..Len(s) /\ i = Len(file) + (i - Len(file))
    BY <1>2
  <2> QED BY <2>1
<1>4. \A of, u : Beginning(of, u)' = Beginning(of, u)
  BY SameTables
<1>5. \A i \in 1..Len(file') : file'[i].of # {} /\ Beginning(file'[i].of, file'[i].t)
  BY <1>2, <1>3, ZenonT(60) DEF JoinInv, LinesBegin
<1>6. LinesBegin'
  BY <1>4, <1>5 DEF LinesBegin
<1>7. ASSUME NEW t PROVE InFile(t) \/ (\E i \in 1..Len(s) : s[i].t = t) <=> InFile(t)'
  <2>1. ASSUME NEW i \in 1..Len(file), file[i].t = t PROVE InFile(t)'
    BY <1>2, <2>1 DEF InFile
  <2>2. ASSUME NEW i \in 1..Len(s), s[i].t = t PROVE InFile(t)'
    <3>1. Len(file) + i \in 1..Len(file') /\ file'[Len(file) + i].t = t
      BY <1>2, <2>2
    <3> QED BY <3>1 DEF InFile
  <2>3. InFile(t)' => InFile(t) \/ \E i \in 1..Len(s) : s[i].t = t
    BY <1>2, <1>3 DEF InFile
  <2> QED BY <2>1, <2>2, <2>3 DEF InFile
<1> QED BY <1>2, <1>6, <1>7

\* What is left to show when a run has ended.
LEMMA EndInv ==
  ASSUME JoinInv, NEW s \in Seq([t : Times, of : SUBSET Times]), file' = file \o s,
         UNCHANGED <<sourceVars, joinVars, exported>>, unsaved' = <<>>, EndRun,
         unclosed' \in BOOLEAN, failures' \in Nat, unclosed => unclosed',
         \A i \in 1..Len(s) : s[i].of # {} /\ Beginning(s[i].of, s[i].t),
         stage = "close" => unclosed' \/ s = unsaved
  PROVE  JoinInv'
<1>1. /\ LinesBegin' /\ file' \in Seq([t : Times, of : SUBSET Times])
      /\ \A t : InFile(t) \/ (\E i \in 1..Len(s) : s[i].t = t) <=> InFile(t)'
  BY SavedIs
<1>2. Joined' = Joined /\ LastIsLatest' /\ AveragesBegin' /\ JoinedIsFinal'
  BY SameTables
<1>3. JoinTypeOK'
  BY <1>1, <1>2 DEF EndRun, JoinInv, JoinTypeOK, sourceVars, joinVars
<1>4. RunWrites'
  BY DEF EndRun, RunWrites
<1>5. FlaggedSaved'
  BY <1>1 DEF EndRun, JoinInv, FlaggedSaved, InUnsaved
<1> QED BY <1>1, <1>2, <1>3, <1>4, <1>5 DEF JoinInv

LEMMA SaveInv ==
  ASSUME JoinInv, Close \/ Raise
  PROVE  JoinInv'
<1>1. /\ file' = file \o unsaved /\ unsaved' = <<>> /\ EndRun
      /\ UNCHANGED <<sourceVars, joinVars, exported, unclosed>>
      /\ failures' \in Nat
  BY DEF Close, Raise, Save, JoinInv, JoinTypeOK
<1>2. unclosed \in BOOLEAN /\ unsaved \in Seq([t : Times, of : SUBSET Times])
  BY DEF JoinInv, JoinTypeOK
<1>3. \A i \in 1..Len(unsaved) : unsaved[i].of # {} /\ Beginning(unsaved[i].of, unsaved[i].t)
  BY DEF JoinInv, LinesBegin
<1> QED BY <1>1, <1>2, <1>3, EndInv

LEMMA WriteRaisesInv ==
  ASSUME JoinInv, WriteRaises
  PROVE  JoinInv'
<1>1. PICK t \in todo : file' = file \o Append(unsaved, Line(t))
  BY DEF WriteRaises
<1>2. /\ unsaved' = <<>> /\ stage = "write" /\ EndRun
      /\ UNCHANGED <<sourceVars, joinVars, exported, unclosed>>
      /\ failures' \in Nat /\ unclosed' \in BOOLEAN
  BY DEF WriteRaises, JoinInv, JoinTypeOK
<1>3. t \in Joined
  BY <1>2 DEF JoinInv, RunWrites
<1>4. /\ Line(t) \in [t : Times, of : SUBSET Times] /\ Line(t).t = t
      /\ Line(t).of # {} /\ Beginning(Line(t).of, t)
  BY <1>3, LineIs
<1> DEFINE s == Append(unsaved, Line(t))
<1>5. unsaved \in Seq([t : Times, of : SUBSET Times])
  BY DEF JoinInv, JoinTypeOK
<1>6. /\ s \in Seq([t : Times, of : SUBSET Times])
      /\ \A i \in 1..Len(s) : s[i] = Line(t) \/ (i \in 1..Len(unsaved) /\ s[i] = unsaved[i])
  BY <1>4, <1>5
<1>7. \A i \in 1..Len(unsaved) : unsaved[i].of # {} /\ Beginning(unsaved[i].of, unsaved[i].t)
  BY DEF JoinInv, LinesBegin
<1> HIDE DEF s
<1>8. \A i \in 1..Len(s) : s[i].of # {} /\ Beginning(s[i].of, s[i].t)
  BY <1>4, <1>6, <1>7
<1>9. file' = file \o s
  BY <1>1 DEF s
<1> QED BY <1>2, <1>6, <1>8, <1>9, EndInv

LEMMA KillInv ==
  ASSUME JoinInv, Kill
  PROVE  JoinInv'
<1>1. PICK n \in 0..Len(unsaved) : file' = file \o SubSeq(unsaved, 1, n)
  BY DEF Kill
<1>2. /\ unsaved' = <<>> /\ EndRun
      /\ UNCHANGED <<sourceVars, joinVars, exported>>
      /\ failures' \in Nat /\ unclosed' = (unclosed \/ stage = "close")
  BY DEF Kill, JoinInv, JoinTypeOK
<1>3. unclosed' \in BOOLEAN /\ unsaved \in Seq([t : Times, of : SUBSET Times])
  BY <1>2 DEF JoinInv, JoinTypeOK
<1> DEFINE s == SubSeq(unsaved, 1, n)
<1>4. /\ s \in Seq([t : Times, of : SUBSET Times])
      /\ \A i \in 1..Len(s) : i \in 1..Len(unsaved) /\ s[i] = unsaved[i]
  <2>1. n \in Nat /\ n <= Len(unsaved) /\ Len(unsaved) \in Nat
    BY <1>3
  <2>2. \A i \in 1..n : unsaved[i] \in [t : Times, of : SUBSET Times]
    <3>1. \A i \in 1..Len(unsaved) : unsaved[i] \in [t : Times, of : SUBSET Times]
      BY <1>3, ElementOfSeq
    <3>2. \A i \in 1..n : i \in 1..Len(unsaved)
      BY <2>1
    <3> QED BY <3>1, <3>2
  <2>3. s \in Seq([t : Times, of : SUBSET Times])
    BY <2>1, <2>2, SubSeqProperties
  <2>4. Len(s) = n /\ \A i \in 1..n : s[i] = unsaved[i]
    BY <2>1, <2>2
  <2> QED BY <2>1, <2>3, <2>4
<1>5. \A i \in 1..Len(unsaved) : unsaved[i].of # {} /\ Beginning(unsaved[i].of, unsaved[i].t)
  BY DEF JoinInv, LinesBegin
<1>6. file' = file \o s
  BY <1>1
<1> HIDE DEF s
<1>7. \A i \in 1..Len(s) : s[i].of # {} /\ Beginning(s[i].of, s[i].t)
  BY <1>4, <1>5
<1> QED BY <1>2, <1>3, <1>4, <1>6, <1>7, EndInv

LEMMA JoinNextInv == JoinInv /\ [JoinNext]_joinerVars => JoinInv'
<1> SUFFICES ASSUME JoinInv, [JoinNext]_joinerVars PROVE JoinInv'
  OBVIOUS
<1>1. ASSUME NEW t \in Times, InsertNav(t) PROVE JoinInv'
  BY <1>1, InsertNavInv
<1>2. ASSUME NEW t \in Times, InsertRow(t) PROVE JoinInv'
  BY <1>2, InsertRowInv
<1>3. CASE StartRun \/ JoinFails \/ Select
  BY <1>3, QuietInv
<1>4. CASE Join
  BY <1>4, JoinStepInv
<1>5. CASE Write \/ Flag
  BY <1>5, WriteInv, FlagInv
<1>6. CASE Close \/ Raise \/ WriteRaises \/ Kill
  BY <1>6, SaveInv, WriteRaisesInv, KillInv
<1>7. CASE UNCHANGED joinerVars
  <2>1. UNCHANGED <<sourceVars, joinVars, exported, file, todo, tMax, unsaved, unclosed>>
        /\ UNCHANGED <<stage, failures>>
    BY <1>7 DEF joinerVars, exportVars
  <2>2. Joined' = Joined /\ LastIsLatest' /\ AveragesBegin' /\ JoinedIsFinal'
        /\ \A of, u : Beginning(of, u)' = Beginning(of, u)
    BY <2>1, SameTables
  <2>3. JoinTypeOK'
    BY <2>1, <2>2 DEF JoinInv, JoinTypeOK, sourceVars, joinVars
  <2>4. LinesBegin' /\ RunWrites' /\ FlaggedSaved'
    BY <2>1, <2>2 DEF LinesBegin, RunWrites, FlaggedSaved, InFile, InUnsaved, JoinInv
  <2> QED BY <2>2, <2>3, <2>4 DEF JoinInv
<1> QED BY <1>1, <1>2, <1>3, <1>4, <1>5, <1>6, <1>7 DEF JoinNext, JoinRun

LEMMA JoinSpecInv == JoinSpec => []JoinInv
<1>1. JoinInit => JoinInv
  BY JoinInitInv
<1>2. JoinInv /\ [JoinNext]_joinerVars => JoinInv'
  BY JoinNextInv
<1> QED BY <1>1, <1>2, PTL DEF JoinSpec

\* Every variable of a join keeps its type; only rows that are there are
\* joined, and only joined ones flagged.
THEOREM JoinTypeCorrect == JoinSpec => []JoinTypeOK
<1>1. JoinInv => JoinTypeOK
  BY DEF JoinInv
<1> QED BY <1>1, JoinSpecInv, PTL

\* A margin of twice the reach is enough, whatever they are: behind it, a row
\* is joined with all the navigation rows it will ever be near.
THEOREM MarginSuffices == JoinSpec => []JoinedIsFinal
<1>1. JoinInv => JoinedIsFinal
  BY DEF JoinInv
<1> QED BY <1>1, JoinSpecInv, PTL

\* A flagged row has its line, and lines lack only what came later.
THEOREM FileFollowsFlags == JoinSpec => []FlaggedIsInFile
<1>1. JoinInv => FlaggedIsInFile
  <2> SUFFICES ASSUME JoinInv PROVE FlaggedIsInFile
    OBVIOUS
  <2>1. unclosed \/ \A t \in exported : \E l \in AllLines : l.t = t
    BY DEF JoinInv, FlaggedSaved, InFile, InUnsaved, AllLines
  <2>2. \A l \in AllLines : l.of # {} /\ Beginning(l.of, l.t)
    BY DEF JoinInv, LinesBegin, AllLines
  <2> QED BY <2>1, <2>2 DEF FlaggedIsInFile, Beginning
<1> QED BY <1>1, JoinSpecInv, PTL

==============================================================================
