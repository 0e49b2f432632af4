------------------------------ MODULE AisDecrypt ------------------------------
(***************************************************************************)
(* The thread Decrypt of AIS/aisChomp.py: takes sentences off its queue,   *)
(* collects the fragments of multipart messages under their sequence       *)
(* number and hands complete ones to the decoder.                          *)
(*                                                                         *)
(* A message's payload is the map of its fragments; the code concatenates  *)
(* them in the order of their numbers.  Fill bits are named by the         *)
(* fragment that carried them.                                             *)
(***************************************************************************)
EXTENDS Naturals, Sequences, FiniteSets, Functions

CONSTANTS
  Messages,  \* AIS messages
  Parts,     \* Parts[m]: the number of fragments of m
  Ident,     \* Ident[m]: the sequence number its fragments carry
  Garbled,   \* a line that is no sentence or whose checksum is wrong
  MaxAge     \* an age at which partial messages are dropped (60 seconds)

ASSUME PartsAssumption == Parts \in [Messages -> Nat \ {0}]
ASSUME GarbledAssumption ==
  \A m \in Messages : \A k \in 1..Parts[m] : [msg |-> m, part |-> k] # Garbled
ASSUME AgeAssumption == MaxAge \in Nat

VARIABLES
  queueIn,   \* the queue: a time and a sentence each
  partials,  \* fragments seen so far and when the first was read, by ident
  decoded,   \* history: what was handed to ais.decode
  dropped,   \* history: messages of which a fragment was aged out
  now        \* the time

Idents == {Ident[m] : m \in Messages}

Sentences ==
  {Garbled} \union UNION {{[msg |-> m, part |-> k] : k \in 1..Parts[m]} : m \in Messages}

\* The entries that partials may hold.
IsPartial(p) ==
  /\ p = [payloads |-> p.payloads, age |-> p.age] /\ p.age \in Nat
  /\ p.payloads \in [DOMAIN p.payloads -> Sentences \ {Garbled}]
  /\ DOMAIN p.payloads \subseteq Nat \ {0}

DecryptInit == partials = <<>> /\ decoded = {} /\ dropped = {}

\* Mutant: fragments are numbered from 0.
JoinedFromZero(s, t) ==
  LET i == Ident[s.msg]
      old == IF i \in DOMAIN partials THEN partials[i] ELSE [payloads |-> <<>>, age |-> t]
      all == [k \in DOMAIN old.payloads \union {s.part - 1} |->
                IF k = s.part - 1 THEN s ELSE old.payloads[k]]
  IN [payloads |-> all, age |-> old.age]

\* The fragment joined with those of its sequence number.
Joined(s, t) ==
  LET i == Ident[s.msg]
      old == IF i \in DOMAIN partials THEN partials[i] ELSE [payloads |-> <<>>, age |-> t]
      all == [k \in DOMAIN old.payloads \union {s.part} |->
                IF k = s.part THEN s ELSE old.payloads[k]]
  IN [payloads |-> all, age |-> old.age]

\* Mutant: the last fragment of a message completes it.
CompleteAtLast(s, joined) == s.part = Parts[s.msg]

\* Mutant: only the last fragment can complete a message.
CompleteWithLast(s, joined) ==
  s.part = Parts[s.msg] /\ Cardinality(DOMAIN joined.payloads) = Parts[s.msg]

\* As many fragments as this one says its message has.
Complete(s, joined) == Cardinality(DOMAIN joined.payloads) = Parts[s.msg]

\* The fill bits that are used: those of the fragment that came last.
FillBits(s, joined) == s

\* Partial messages that are not aged out.
KeptIdents(held) == {i \in DOMAIN held : held[i].age + MaxAge >= now}

Simple(s) ==
  /\ Parts[s.msg] = 1
  /\ decoded' = decoded \union {[payloads |-> [k \in {1} |-> s], fill |-> s]}
  /\ UNCHANGED <<partials, dropped>>

Multipart(s, t) ==
  /\ Parts[s.msg] # 1
  /\ LET i == Ident[s.msg]
         joined == Joined(s, t)
         done == Complete(s, joined)
         held == IF done THEN Restrict(partials, DOMAIN partials \ {i})
                 ELSE [j \in DOMAIN partials \union {i} |-> IF j = i THEN joined ELSE partials[j]]
         lost == {held[j].payloads : j \in DOMAIN held \ KeptIdents(held)}
     IN /\ decoded' = IF done
                      THEN decoded \union {[payloads |-> joined.payloads, fill |-> FillBits(s, joined)]}
                      ELSE decoded
        /\ partials' = Restrict(held, KeptIdents(held))
        /\ dropped' = dropped \union {m \in Messages : \E p \in lost : \E k \in DOMAIN p : p[k].msg = m}

\* A sentence is ignored, decoded at once, or joined with its like.
Decrypt ==
  /\ queueIn # <<>> /\ queueIn' = Tail(queueIn)
  /\ LET s == Head(queueIn).body
     IN \/ s = Garbled /\ UNCHANGED <<partials, decoded, dropped>>
        \/ s # Garbled /\ (Simple(s) \/ Multipart(s, Head(queueIn).t))

------------------------------------------------------------------------------
(* What a reader may do to the queue, time, and the life of the process. *)

Arrive ==
  /\ queueIn' \in Seq([t : Nat, body : Sentences]) /\ Len(queueIn') > Len(queueIn)
  /\ SubSeq(queueIn', 1, Len(queueIn)) = queueIn
  /\ \A i \in (Len(queueIn) + 1)..Len(queueIn') :
       queueIn'[i] \in [t : {now}, body : Sentences]
  /\ UNCHANGED <<partials, decoded, dropped, now>>

Elapse ==
  /\ now' \in Nat /\ now' > now
  /\ UNCHANGED <<queueIn, partials, decoded, dropped>>

\* Queue and partial messages are lost with the process.
Anew ==
  /\ queueIn' = <<>> /\ partials' = <<>>
  /\ UNCHANGED <<decoded, dropped, now>>

decryptVars == <<queueIn, partials, decoded, dropped, now>>

DecryptSpec ==
  /\ queueIn = <<>> /\ DecryptInit /\ now = 0
  /\ [][Arrive \/ Elapse \/ Anew \/ (Decrypt /\ UNCHANGED now)]_decryptVars

------------------------------------------------------------------------------
(* Properties *)

Whole(d, m) == d.payloads = [k \in 1..Parts[m] |-> [msg |-> m, part |-> k]]

\* No other message carries the sequence number of m.
Alone(m) == \A o \in Messages : o = m \/ Ident[o] # Ident[m]

\* What is decoded is a message whatever is lost, repeated or reordered, if its
\* sequence number is not used by another.
DecodedWholeAlone ==
  \A d \in decoded : \A k \in DOMAIN d.payloads :
    Alone(d.payloads[k].msg) => Whole(d, d.payloads[k].msg)

==============================================================================
