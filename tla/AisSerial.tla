------------------------------- MODULE AisSerial -------------------------------
(***************************************************************************)
(* The thread ReadSerial of AIS/aisChomp.py: reads of a serial line cut    *)
(* the stream of sentences anywhere, and the thread puts every line that   *)
(* ends in a carriage return on the queue of the thread Decrypt.           *)
(*                                                                         *)
(* A sentence's text is one token: a read that ends within the text leaves *)
(* the same kind of rest in the buffer as one that ends after it.          *)
(***************************************************************************)
EXTENDS AisDecrypt, SequencesExt

VARIABLES
  wire,     \* tokens the device has sent and the thread has not read
  buffer    \* the rest of the last read

Text(s) == [kind |-> "text", body |-> s]
CR == [kind |-> "cr"]
LF == [kind |-> "lf"]

Tokens == {Text(s) : s \in Sentences} \union {CR, LF}

\* What the device sends for a sentence.
LineOf(s) == <<Text(s), CR, LF>>

SerialInit(first) ==
  /\ wire = first /\ buffer = <<>>

\* The k-th of the numbers in P.
Nth(P, k) == CHOOSE p \in P : Cardinality({o \in P : o <= p}) = k

LineEnds(bytes) == {e \in 1..Len(bytes) : bytes[e] = LF} \union {Len(bytes) + 1}

\* bytes.split: a line lies between two newlines, and the rest after the last
\* newline is the last line.
SplitLines(bytes) ==
  LET ends == LineEnds(bytes)
  IN [k \in 1..Cardinality(ends) |->
        SubSeq(bytes, IF k = 1 THEN 1 ELSE Nth(ends, k - 1) + 1, Nth(ends, k) - 1)]

\* A line that is put; the rest may be one, when a read ends before a newline.
Ended(line) == Len(line) > 1 /\ Last(line) = CR

Bodies(ls) ==
  LET ended == {k \in 1..Len(ls) : Ended(ls[k])}
  IN [i \in 1..Cardinality(ended) |-> Head(ls[Nth(ended, i)]).body]

\* Mutant: the rest of a read is not kept for the next one.
KeptNothing(ls) == <<>>

\* The test for a rest that ends in a carriage return compares a byte with a
\* string and is never true: the rest is kept, although it has been put.
Kept(ls) == Last(ls)

\* Mutant: the time is taken when the thread starts.
ReadSerialStale ==
  \E n \in 1..Len(wire) :
    LET ls == SplitLines(buffer \o SubSeq(wire, 1, n))
        bodies == Bodies(ls)
    IN /\ wire' = SubSeq(wire, n + 1, Len(wire))
       /\ queueIn' = queueIn \o [i \in 1..Len(bodies) |-> [t |-> 0, body |-> bodies[i]]]
       /\ buffer' = Kept(ls)

ReadSerial ==
  \E n \in 1..Len(wire) :
    LET ls == SplitLines(buffer \o SubSeq(wire, 1, n))
        bodies == Bodies(ls)
    IN /\ wire' = SubSeq(wire, n + 1, Len(wire))
       /\ queueIn' = queueIn \o [i \in 1..Len(bodies) |-> [t |-> now, body |-> bodies[i]]]
       /\ buffer' = Kept(ls)

==============================================================================
