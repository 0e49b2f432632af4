----------------------- MODULE IncrementalIngestProofs -----------------------
(***************************************************************************)
(* What every implementation of IncrementalIngest inherits.                *)
(***************************************************************************)
EXTENDS IncrementalIngest, TLAPS

Typed ==
  /\ file \in [Files -> Seq(Kinds)]
  /\ pos \in [Files -> Nat]
  /\ \A f \in Files : pos[f] <= Len(file[f])

\* Lines a+1 .. c are the lines a+1 .. b and b+1 .. c.
LEMMA RowsSplit ==
  ASSUME Typed, NEW f \in Files, NEW a \in Nat, NEW b \in Nat, NEW c \in Nat,
         a <= b, b <= c
  PROVE  RowsBetween(f, a, c) = RowsBetween(f, a, b) \union RowsBetween(f, b, c)
<1> DEFINE Between(x, y) == {j \in 1..Len(file[f]) : x < j /\ j <= y /\ file[f][j] \in RowKinds}
<1>1. Between(a, c) = Between(a, b) \union Between(b, c)
  BY DEF Typed
<1> HIDE DEF Between
<1>2. {<<f, i>> : i \in Between(a, c)}
        = {<<f, i>> : i \in Between(a, b)} \union {<<f, i>> : i \in Between(b, c)}
  BY <1>1
<1> QED BY <1>2 DEF RowsBetween, Between

\* What is appended is not among the lines that were there.
LEMMA GrowKeepsRows ==
  ASSUME Typed, NEW f \in Files, Grow(f), NEW g \in Files
  PROVE  RowsBetween(g, 0, pos[g])' = RowsBetween(g, 0, pos[g])
<1>1. PICK k \in Kinds : file' = [file EXCEPT ![f] = Append(@, k)]
  BY DEF Grow
<1>2. {j \in 1..Len(file'[g]) : 0 < j /\ j <= pos[g] /\ file'[g][j] \in RowKinds}
        = {j \in 1..Len(file[g]) : 0 < j /\ j <= pos[g] /\ file[g][j] \in RowKinds}
  BY <1>1 DEF Typed
<1> QED BY <1>2 DEF RowsBetween, Grow

LEMMA InitExact == Init => Typed /\ ExactPrefix
<1> SUFFICES ASSUME Init PROVE Typed /\ ExactPrefix
  OBVIOUS
<1>1. Typed
  BY DEF Init, Typed
<1>2. ASSUME NEW f \in Files PROVE RowsBetween(f, 0, pos[f]) = {}
  <2>1. \A j \in 1..Len(file[f]) : ~(0 < j /\ j <= pos[f])
    BY DEF Init
  <2> QED BY <2>1 DEF RowsBetween
<1> QED BY <1>1, <1>2 DEF ExactPrefix, Consumed, Init

LEMMA NextExact == Typed /\ ExactPrefix /\ [Next]_ingestVars => (Typed /\ ExactPrefix)'
<1> SUFFICES ASSUME Typed, ExactPrefix, [Next]_ingestVars PROVE (Typed /\ ExactPrefix)'
  OBVIOUS
<1>1. ASSUME NEW f \in Files, Grow(f) PROVE (Typed /\ ExactPrefix)'
  <2>1. Typed'
    BY <1>1 DEF Grow, Typed
  <2>2. \A g \in Files : RowsBetween(g, 0, pos[g])' = RowsBetween(g, 0, pos[g])
    BY <1>1, GrowKeepsRows
  <2>3. UNCHANGED <<stored, dropped>>
    BY <1>1 DEF Grow
  <2> QED BY <2>1, <2>2, <2>3 DEF ExactPrefix, Consumed
<1>2. ASSUME NEW f \in Files, Ingest(f) PROVE (Typed /\ ExactPrefix)'
  <2>1. PICK p \in pos[f]..Len(file[f]) :
          /\ pos' = [pos EXCEPT ![f] = p]
          /\ \E missed \in SUBSET (RowsBetween(f, pos[f], p) \intersect dropped) :
               stored' = stored \union (RowsBetween(f, pos[f], p) \ missed)
          /\ UNCHANGED <<file, dropped>>
    BY <1>2 DEF Ingest
  <2>2. p \in Nat /\ pos[f] \in Nat /\ pos[f] <= p /\ p <= Len(file[f])
    BY <2>1 DEF Typed
  <2>3. Typed'
    BY <2>1, <2>2 DEF Typed
  <2>4. RowsBetween(f, 0, pos[f])' = RowsBetween(f, 0, pos[f]) \union RowsBetween(f, pos[f], p)
    <3>1. RowsBetween(f, 0, pos[f])' = RowsBetween(f, 0, p)
      BY <2>1 DEF Typed, RowsBetween
    <3> QED BY <2>2, <3>1, RowsSplit
  <2>5. \A g \in Files \ {f} : RowsBetween(g, 0, pos[g])' = RowsBetween(g, 0, pos[g])
    BY <2>1 DEF Typed, RowsBetween
  <2>6. Consumed' = Consumed \union RowsBetween(f, pos[f], p)
    BY <2>4, <2>5 DEF Consumed
  <2>7. /\ stored' \subseteq stored \union RowsBetween(f, pos[f], p)
        /\ stored \union (RowsBetween(f, pos[f], p) \ dropped) \subseteq stored'
        /\ dropped' = dropped
    BY <2>1
  <2> QED BY <2>3, <2>6, <2>7 DEF ExactPrefix
<1>3. ASSUME NEW f \in Files, Drop(f) PROVE (Typed /\ ExactPrefix)'
  <2>1. UNCHANGED <<file, pos, stored>> /\ dropped \subseteq dropped'
    BY <1>3 DEF Drop
  <2>2. Typed' /\ Consumed' = Consumed
    BY <2>1 DEF Typed, Consumed, RowsBetween
  <2> QED BY <2>1, <2>2 DEF ExactPrefix
<1>4. CASE UNCHANGED ingestVars
  BY <1>4 DEF ingestVars, Typed, ExactPrefix, Consumed, RowsBetween
<1> QED BY <1>1, <1>2, <1>3, <1>4 DEF Next

(***************************************************************************)
(* However transactions, growth and failures follow each other, the table  *)
(* is exactly the rows of the lines the positions count as consumed, those *)
(* of dropped attempts perhaps excepted.  An ingest that implements        *)
(* IncrementalIngest (DB.py 55-90) therefore neither repeats nor invents a *)
(* row of the files it is for, and loses none whose batch was not refused. *)
(***************************************************************************)
THEOREM TableIsConsumedPrefix == Spec => []ExactPrefix
<1>1. Init => Typed /\ ExactPrefix
  BY InitExact
<1>2. (Typed /\ ExactPrefix) /\ [Next]_ingestVars => (Typed /\ ExactPrefix)'
  BY NextExact
<1> QED BY <1>1, <1>2, PTL DEF Spec

==============================================================================
