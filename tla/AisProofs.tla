--------------------------- MODULE AisProofs ---------------------------
(***************************************************************************)
(* Proofs about AisDecrypt for any messages, sequence numbers and age, and *)
(* any reader: sentences may be lost, repeated and reordered; and about    *)
(* AisReceiver, in which the readers, the device and the life of the       *)
(* process are what the code and its surroundings make them.               *)
(***************************************************************************)
EXTENDS AisReceiver, FiniteSetTheorems, SequenceTheorems, TLAPS

(***************************************************************************)
(* The inductive invariant: a fragment is kept under its own number and    *)
(* under its message's sequence number.                                    *)
(***************************************************************************)

Filed(p, i) ==
  \A k \in DOMAIN p.payloads : p.payloads[k].part = k /\ Ident[p.payloads[k].msg] = i

DecryptType ==
  /\ queueIn \in Seq([t : Nat, body : Sentences]) /\ now \in Nat
  /\ \A i \in DOMAIN partials : IsPartial(partials[i])

FiledInv == \A i \in DOMAIN partials : Filed(partials[i], i)

DecryptInv == DecryptType /\ FiledInv /\ DecodedWholeAlone

------------------------------------------------------------------------------
LEMMA HeadTail ==
  ASSUME NEW A, NEW q \in Seq(A), q # <<>>
  PROVE  Head(q) \in A /\ Tail(q) \in Seq(A)
OBVIOUS

LEMMA SentenceParts ==
  ASSUME NEW s \in Sentences, s # Garbled
  PROVE  /\ s = [msg |-> s.msg, part |-> s.part] /\ s.msg \in Messages
         /\ s.part \in 1..Parts[s.msg] /\ Parts[s.msg] \in Nat \ {0} /\ s.part \in Nat \ {0}
<1>1. PICK m \in Messages : \E k \in 1..Parts[m] : s = [msg |-> m, part |-> k]
  BY DEF Sentences
<1>2. Parts[m] \in Nat \ {0}
  BY PartsAssumption
<1> QED BY <1>1, <1>2

\* What Joined returns is filed like what it was made of.
LEMMA JoinedFiled ==
  ASSUME DecryptInv, NEW s \in Sentences, s # Garbled, NEW t \in Nat
  PROVE  IsPartial(Joined(s, t)) /\ Filed(Joined(s, t), Ident[s.msg])
<1> DEFINE i == Ident[s.msg]
           old == IF i \in DOMAIN partials THEN partials[i] ELSE [payloads |-> <<>>, age |-> t]
           all == [k \in DOMAIN old.payloads \union {s.part} |->
                     IF k = s.part THEN s ELSE old.payloads[k]]
<1>1. /\ old.age \in Nat /\ DOMAIN old.payloads \subseteq Nat \ {0}
      /\ \A k \in DOMAIN old.payloads :
           /\ old.payloads[k] \in Sentences \ {Garbled}
           /\ old.payloads[k].part = k /\ Ident[old.payloads[k].msg] = i
  <2>1. CASE i \in DOMAIN partials
    BY <2>1 DEF DecryptInv, DecryptType, IsPartial, FiledInv, Filed
  <2>2. CASE i \notin DOMAIN partials
    BY <2>2
  <2> QED BY <2>1, <2>2
<1>2. s.part \in Nat \ {0}
  BY SentenceParts
<1>3. Joined(s, t) = [payloads |-> all, age |-> old.age]
  BY DEF Joined
<1>4. /\ all \in [DOMAIN all -> Sentences \ {Garbled}]
      /\ DOMAIN all \subseteq Nat \ {0}
      /\ \A k \in DOMAIN all : all[k].part = k /\ Ident[all[k].msg] = i
  BY <1>1, <1>2
<1>5. Joined(s, t).payloads = all /\ Joined(s, t).age = old.age
  BY <1>3
<1>6. IsPartial(Joined(s, t))
  <2>1. Joined(s, t) = [payloads |-> Joined(s, t).payloads, age |-> Joined(s, t).age]
    BY <1>3, <1>5
  <2> HIDE DEF all, old
  <2> QED BY <1>1, <1>4, <1>5, <2>1 DEF IsPartial
<1>7. Filed(Joined(s, t), i)
  <2> HIDE DEF all
  <2> QED BY <1>4, <1>5 DEF Filed
<1> QED BY <1>6, <1>7

\* A complete collection that holds a fragment of a message alone under its
\* sequence number is this message.
LEMMA CompleteWhole ==
  ASSUME NEW s \in Sentences, s # Garbled, NEW p, IsPartial(p), Filed(p, Ident[s.msg]),
         Cardinality(DOMAIN p.payloads) = Parts[s.msg],
         NEW k \in DOMAIN p.payloads, Alone(p.payloads[k].msg),
         NEW f
  PROVE  Whole([payloads |-> p.payloads, fill |-> f], p.payloads[k].msg)
<1> DEFINE m == p.payloads[k].msg
<1>1. \A j \in DOMAIN p.payloads :
        /\ p.payloads[j] = [msg |-> p.payloads[j].msg, part |-> j]
        /\ p.payloads[j].msg \in Messages /\ j \in 1..Parts[p.payloads[j].msg]
        /\ Ident[p.payloads[j].msg] = Ident[s.msg]
  BY SentenceParts DEF IsPartial, Filed
<1>2. s.msg \in Messages /\ Parts[s.msg] \in Nat
  BY SentenceParts
<1>3. s.msg = m /\ \A j \in DOMAIN p.payloads : p.payloads[j].msg = m
  <2>1. m \in Messages /\ Ident[m] = Ident[s.msg]
    BY <1>1
  <2>2. \A o \in Messages : Ident[o] = Ident[s.msg] => o = m
    BY <2>1 DEF Alone
  <2> QED BY <1>1, <1>2, <2>2
<1>4. DOMAIN p.payloads \subseteq 1..Parts[m]
  BY <1>1, <1>3
<1>5. IsFiniteSet(1..Parts[m]) /\ Cardinality(1..Parts[m]) = Parts[m]
  <2>1. Parts[m] \in Nat
    BY <1>2, <1>3
  <2> HIDE DEF m
  <2>2. /\ IsFiniteSet(1..Parts[m])
        /\ Cardinality(1..Parts[m]) = IF 1 > Parts[m] THEN 0 ELSE Parts[m] - 1 + 1
    BY <2>1, FS_Interval, SMTT(30)
  <2> QED BY <2>1, <2>2
<1>6. DOMAIN p.payloads = 1..Parts[m]
  BY <1>2, <1>3, <1>4, <1>5, FS_Subset
<1>7. p.payloads = [j \in 1..Parts[m] |-> [msg |-> m, part |-> j]]
  <2>1. p.payloads = [j \in DOMAIN p.payloads |-> p.payloads[j]]
    BY DEF IsPartial
  <2>2. \A j \in DOMAIN p.payloads : p.payloads[j] = [msg |-> m, part |-> j]
    BY <1>1, <1>3
  <2> HIDE DEF m
  <2> QED BY <1>6, <2>1, <2>2
<1> QED BY <1>7 DEF Whole

LEMMA MultipartKnown ==
  ASSUME DecryptInv, NEW s \in Sentences, s # Garbled, NEW t \in Nat, Multipart(s, t)
  PROVE  /\ \A i \in DOMAIN partials' : IsPartial(partials'[i])
         /\ FiledInv' /\ DecodedWholeAlone'
<1> DEFINE i == Ident[s.msg]
           joined == Joined(s, t)
           done == Complete(s, joined)
           held == IF done THEN Restrict(partials, DOMAIN partials \ {i})
                   ELSE [j \in DOMAIN partials \union {i} |-> IF j = i THEN joined ELSE partials[j]]
<1>1. IsPartial(joined) /\ Filed(joined, i)
  BY JoinedFiled
<1>2. \A j \in DOMAIN held : IsPartial(held[j]) /\ Filed(held[j], j)
  <2>1. CASE done
    BY <2>1 DEF DecryptInv, DecryptType, FiledInv, Restrict
  <2>2. CASE ~done
    BY <2>2, <1>1 DEF DecryptInv, DecryptType, FiledInv
  <2> QED BY <2>1, <2>2
<1>3. partials' = Restrict(held, KeptIdents(held))
  BY DEF Multipart
<1>4. \A j \in DOMAIN partials' : IsPartial(partials'[j]) /\ Filed(partials'[j], j)
  BY <1>2, <1>3 DEF Restrict, KeptIdents
<1>5. decoded' = IF done
                 THEN decoded \union {[payloads |-> joined.payloads, fill |-> FillBits(s, joined)]}
                 ELSE decoded
  BY DEF Multipart
<1>6. done => \A k \in DOMAIN joined.payloads : Alone(joined.payloads[k].msg) =>
                Whole([payloads |-> joined.payloads, fill |-> FillBits(s, joined)], joined.payloads[k].msg)
  BY <1>1, CompleteWhole DEF Complete
<1>7. DecodedWholeAlone'
  BY <1>5, <1>6 DEF DecryptInv, DecodedWholeAlone
<1> QED BY <1>4, <1>7 DEF FiledInv

LEMMA SimpleKnown ==
  ASSUME DecryptInv, NEW s \in Sentences, s # Garbled, Simple(s)
  PROVE  DecodedWholeAlone' /\ UNCHANGED partials
<1>1. s = [msg |-> s.msg, part |-> 1] /\ Parts[s.msg] = 1
  BY SentenceParts DEF Simple
<1>2. [k \in {1} |-> s] = [k \in 1..Parts[s.msg] |-> [msg |-> s.msg, part |-> k]]
  BY <1>1
<1>3. Whole([payloads |-> [k \in {1} |-> s], fill |-> s], s.msg)
  BY <1>2 DEF Whole
<1> QED BY <1>3 DEF Simple, DecryptInv, DecodedWholeAlone

LEMMA DecryptStep ==
  ASSUME DecryptInv, [Arrive \/ Elapse \/ Anew \/ (Decrypt /\ UNCHANGED now)]_decryptVars
  PROVE  DecryptInv'
<1>1. CASE Arrive
  BY <1>1 DEF Arrive, DecryptInv, DecryptType, FiledInv, DecodedWholeAlone
<1>2. CASE Elapse
  BY <1>2 DEF Elapse, DecryptInv, DecryptType, FiledInv, DecodedWholeAlone
<1>3. CASE Decrypt /\ UNCHANGED now
  <2> DEFINE s == Head(queueIn).body
             t == Head(queueIn).t
  <2>1. /\ queueIn # <<>> /\ queueIn' = Tail(queueIn) /\ UNCHANGED now
        /\ \/ s = Garbled /\ UNCHANGED <<partials, decoded, dropped>>
           \/ s # Garbled /\ (Simple(s) \/ Multipart(s, t))
    BY <1>3 DEF Decrypt
  <2>2. queueIn \in Seq([t : Nat, body : Sentences]) /\ now \in Nat
    BY DEF DecryptInv, DecryptType
  <2>3. Head(queueIn) \in [t : Nat, body : Sentences] /\ Tail(queueIn) \in Seq([t : Nat, body : Sentences])
    BY <2>1, <2>2, HeadTail
  <2>4. s \in Sentences /\ t \in Nat
    BY <2>3
  <2>5. CASE s = Garbled /\ UNCHANGED <<partials, decoded, dropped>>
    BY <2>1, <2>2, <2>3, <2>5 DEF DecryptInv, DecryptType, FiledInv, DecodedWholeAlone
  <2>6. CASE s # Garbled /\ Simple(s)
    BY <2>1, <2>2, <2>3, <2>4, <2>6, SimpleKnown DEF DecryptInv, DecryptType, FiledInv
  <2>7. CASE s # Garbled /\ Multipart(s, t)
    BY <2>1, <2>2, <2>3, <2>4, <2>7, MultipartKnown DEF DecryptInv, DecryptType
  <2> QED BY <2>1, <2>5, <2>6, <2>7
<1>4. CASE UNCHANGED decryptVars
  BY <1>4 DEF decryptVars, DecryptInv, DecryptType, FiledInv, DecodedWholeAlone
<1>5. CASE Anew
  BY <1>5 DEF Anew, DecryptInv, DecryptType, FiledInv, DecodedWholeAlone
<1> QED BY <1>1, <1>2, <1>3, <1>4, <1>5

\* Whatever a reader delivers, a message whose sequence number no other message
\* carries is decoded whole or not at all (aisChomp.py 320-373).
THEOREM DecodesWhole == DecryptSpec => []DecodedWholeAlone
<1>1. queueIn = <<>> /\ DecryptInit /\ now = 0 => DecryptInv
  BY DEF DecryptInit, DecryptInv, DecryptType, FiledInv, DecodedWholeAlone
<1>2. DecryptInv => DecodedWholeAlone
  BY DEF DecryptInv
<1> QED BY <1>1, <1>2, DecryptStep, PTL DEF DecryptSpec

------------------------------------------------------------------------------
(* Numbers in a set, counted in order. *)

Increasing(g, n) == g \in [1..n -> Nat] /\ \A j, k \in 1..n : j < k => g[j] < g[k]

Enumerates(g, n, P) == Increasing(g, n) /\ P = {g[j] : j \in 1..n}

LEMMA ImageSize ==
  ASSUME NEW n \in Nat, NEW r \in Nat, NEW g, Increasing(g, r), n <= r,
         NEW P, P = {g[j] : j \in 1..n}
  PROVE  IsFiniteSet(P) /\ Cardinality(P) = n
<1> DEFINE h == [j \in 1..n |-> g[j]]
<1>1. h \in [1..n -> P]
  OBVIOUS
<1>2. \A j, k \in 1..n : h[j] = h[k] => j = k
  <2> SUFFICES ASSUME NEW j \in 1..n, NEW k \in 1..n, j # k PROVE g[j] # g[k]
    OBVIOUS
  <2>1. j < k \/ k < j
    OBVIOUS
  <2>2. g[j] \in Nat /\ g[k] \in Nat /\ (j < k => g[j] < g[k]) /\ (k < j => g[k] < g[j])
    BY DEF Increasing
  <2> QED BY <2>1, <2>2
<1>3. \A p \in P : \E j \in 1..n : h[j] = p
  OBVIOUS
<1>4. h \in Bijection(1..n, P)
  BY <1>1, <1>2, <1>3 DEF Bijection, Injection, IsInjective, Surjection
<1>5. ExistsBijection(1..n, P)
  BY <1>4 DEF ExistsBijection
<1>6. IsFiniteSet(1..n) /\ Cardinality(1..n) = n
  BY FS_Interval
<1> QED BY <1>5, <1>6, FS_Bijection

\* Nth finds the numbers of a set in the order in which they were enumerated.
LEMMA Enumerated ==
  ASSUME NEW n \in Nat, NEW g, NEW P, Enumerates(g, n, P)
  PROVE  /\ IsFiniteSet(P) /\ Cardinality(P) = n
         /\ \A k \in 1..n : Nth(P, k) = g[k]
<1> USE DEF Enumerates
<1>1. IsFiniteSet(P) /\ Cardinality(P) = n
  BY ImageSize
<1>2. ASSUME NEW k \in 1..n
      PROVE  Cardinality({o \in P : o <= g[k]}) = k
  <2>1. {o \in P : o <= g[k]} = {g[j] : j \in 1..k}
    <3>1. \A j \in 1..n : g[j] \in Nat /\ (g[j] <= g[k] <=> j <= k)
      BY DEF Increasing
    <3> QED BY <3>1
  <2> QED BY <2>1, ImageSize, k <= n
<1>3. ASSUME NEW k \in 1..n
      PROVE  Nth(P, k) = g[k]
  <2>1. g[k] \in P
    OBVIOUS
  <2>2. \A p \in P : Cardinality({o \in P : o <= p}) = k => p = g[k]
    BY <1>2
  <2>3. \E p \in P : Cardinality({o \in P : o <= p}) = k
    BY <1>2, <2>1
  <2>4. Nth(P, k) \in P /\ Cardinality({o \in P : o <= Nth(P, k)}) = k
    <3> DEFINE Rank(p) == Cardinality({o \in P : o <= p}) = k
    <3>1. Nth(P, k) = CHOOSE p \in P : Rank(p)
      BY DEF Nth
    <3>2. \E p \in P : Rank(p)
      BY <2>3
    <3> HIDE DEF Rank
    <3>3. Nth(P, k) \in P /\ Rank(Nth(P, k))
      BY <3>1, <3>2
    <3> QED BY <3>3 DEF Rank
  <2> QED BY <2>2, <2>4
<1> QED BY <1>1, <1>3

LEMMA Counting ==
  ASSUME NEW n \in Nat, NEW P, P = 1..n
  PROVE  Cardinality(P) = n /\ \A k \in 1..n : Nth(P, k) = k
<1> DEFINE g == [k \in 1..n |-> k]
<1>1. Increasing(g, n)
  BY DEF Increasing
<1>2. P = {g[j] : j \in 1..n}
  OBVIOUS
<1> HIDE DEF g
<1>3. Cardinality(P) = n /\ \A k \in 1..n : Nth(P, k) = g[k]
  BY <1>1, <1>2, Enumerated, ZenonT(60) DEF Enumerates
<1> QED BY <1>3 DEF g

LEMMA Thirds == \A i \in Nat : \E m \in Nat, x \in 0..2 : i = 3 * m + x
<1> SUFFICES ASSUME NEW i \in Nat PROVE \E m \in Nat, x \in 0..2 : i = 3 * m + x
  OBVIOUS
<1>1. i \div 3 \in Nat /\ i % 3 \in 0..2 /\ i = 3 * (i \div 3) + (i % 3)
  OBVIOUS
<1> QED BY <1>1

------------------------------------------------------------------------------
(***************************************************************************)
(* The serial line.  Begins(q, e, c): the tokens q are the beginning of    *)
(* the lines of the sentences e after the first c.                         *)
(***************************************************************************)

Begins(q, e, c) ==
  \A j \in Nat \ {0} :
    /\ 3 * j - 2 <= Len(q) => c + j <= Len(e) /\ q[3 * j - 2] = Text(e[c + j])
    /\ 3 * j - 1 <= Len(q) => q[3 * j - 1] = CR
    /\ 3 * j <= Len(q) => q[3 * j] = LF

\* q holds m lines and x tokens of the next, whose line is put when x is 2.
Cut(q, m, x) == m \in Nat /\ x \in 0..2 /\ Len(q) = 3 * m + x

Lines(m, x) == IF x = 2 THEN m + 1 ELSE m

PutsNext(q, e, c, r) ==
  /\ r \in Nat /\ c + r <= Len(e) /\ Len(Bodies(SplitLines(q))) = r
  /\ \A i \in 1..r : Bodies(SplitLines(q))[i] = e[c + i]

LEMMA TokensDiffer ==
  /\ \A s \in Sentences : Text(s) # CR /\ Text(s) # LF /\ Text(s).body = s /\ Text(s) \in Tokens
  /\ CR # LF /\ CR \in Tokens /\ LF \in Tokens
BY DEF Text, CR, LF, Tokens

\* What is split holds the lines that ended, and then the rest.
LEMMA SplitStream ==
  ASSUME NEW e \in Seq(Sentences), NEW c \in Nat, NEW q \in Seq(Tokens), Begins(q, e, c),
         NEW m \in Nat, NEW x \in 0..2, Len(q) = 3 * m + x
  PROVE  /\ Len(SplitLines(q)) = m + 1
         /\ \A k \in 1..m : SplitLines(q)[k] = SubSeq(q, 3 * k - 2, 3 * k - 1)
         /\ SplitLines(q)[m + 1] = SubSeq(q, 3 * m + 1, 3 * m + x)
<1> DEFINE g == [k \in 1..(m + 1) |-> IF k <= m THEN 3 * k ELSE 3 * m + x + 1]
           ends == LineEnds(q)
<1>1. Increasing(g, m + 1)
  BY DEF Increasing
<1>2. \A i \in 1..Len(q) : q[i] = LF <=> \E j \in 1..m : i = 3 * j
  <2> SUFFICES ASSUME NEW i \in 1..Len(q) PROVE q[i] = LF <=> \E j \in 1..m : i = 3 * j
    OBVIOUS
  <2>1. PICK j \in Nat \ {0} : i \in {3 * j - 2, 3 * j - 1, 3 * j}
    <3>1. i - 1 \in Nat
      OBVIOUS
    <3>2. PICK n \in Nat, y \in 0..2 : i - 1 = 3 * n + y
      BY <3>1, Thirds
    <3>3. n + 1 \in Nat \ {0} /\ i \in {3 * (n + 1) - 2, 3 * (n + 1) - 1, 3 * (n + 1)}
      BY <3>2
    <3> QED BY <3>3
  <2>2. CASE i = 3 * j - 2
    <3>1. c + j <= Len(e) /\ q[i] = Text(e[c + j])
      BY <2>2 DEF Begins
    <3>2. e[c + j] \in Sentences
      BY <3>1
    <3>3. q[i] # LF
      BY <3>1, <3>2, TokensDiffer
    <3>4. \A k \in 1..m : i # 3 * k
      BY <2>2
    <3> QED BY <3>3, <3>4
  <2>3. CASE i = 3 * j - 1
    <3>1. q[i] = CR
      BY <2>3 DEF Begins
    <3>2. \A k \in 1..m : i # 3 * k
      BY <2>3
    <3> QED BY <3>1, <3>2, TokensDiffer
  <2>4. CASE i = 3 * j
    <3>1. q[i] = LF
      BY <2>4 DEF Begins
    <3>2. j \in 1..m
      BY <2>4
    <3> QED BY <2>4, <3>1, <3>2
  <2> QED BY <2>1, <2>2, <2>3, <2>4
<1>3. ends = {g[k] : k \in 1..(m + 1)}
  <2>1. \A j \in 1..m : 3 * j \in 1..Len(q)
    OBVIOUS
  <2>2. ends = {3 * j : j \in 1..m} \union {3 * m + x + 1}
    BY <1>2, <2>1 DEF LineEnds
  <2>3. {g[k] : k \in 1..(m + 1)} = {3 * j : j \in 1..m} \union {3 * m + x + 1}
    <3>1. \A k \in 1..m : k \in 1..(m + 1) /\ g[k] = 3 * k
      OBVIOUS
    <3>2. m + 1 \in 1..(m + 1) /\ g[m + 1] = 3 * m + x + 1
      OBVIOUS
    <3>3. \A k \in 1..(m + 1) : k \in 1..m \/ k = m + 1
      OBVIOUS
    <3> HIDE DEF g
    <3> QED BY <3>1, <3>2, <3>3
  <2> QED BY <2>2, <2>3
<1>4. Cardinality(ends) = m + 1 /\ \A k \in 1..(m + 1) : Nth(ends, k) = g[k]
  <2> DEFINE n == m + 1
  <2>1. n \in Nat /\ Enumerates(g, n, ends)
    BY <1>1, <1>3 DEF Enumerates
  <2> HIDE DEF g, ends, n
  <2>2. Cardinality(ends) = n /\ \A k \in 1..n : Nth(ends, k) = g[k]
    BY <2>1, Enumerated
  <2> QED BY <2>2 DEF n
<1>5. SplitLines(q) =
        [k \in 1..(m + 1) |-> SubSeq(q, IF k = 1 THEN 1 ELSE Nth(ends, k - 1) + 1, Nth(ends, k) - 1)]
  BY <1>4 DEF SplitLines
<1>6. Len(SplitLines(q)) = m + 1
  BY <1>5
<1>7. \A k \in 1..(m + 1) : SplitLines(q)[k] = SubSeq(q, 3 * k - 2, g[k] - 1)
  <2> SUFFICES ASSUME NEW k \in 1..(m + 1)
               PROVE  SplitLines(q)[k] = SubSeq(q, 3 * k - 2, g[k] - 1)
    OBVIOUS
  <2>1. k # 1 => Nth(ends, k - 1) + 1 = 3 * k - 2
    <3>1. k # 1 => k - 1 \in 1..(m + 1) /\ k - 1 <= m
      OBVIOUS
    <3>2. k # 1 => g[k - 1] + 1 = 3 * k - 2
      BY <3>1
    <3> HIDE DEF g, ends
    <3> QED BY <1>4, <3>1, <3>2
  <2>2. (IF k = 1 THEN 1 ELSE Nth(ends, k - 1) + 1) = 3 * k - 2
    BY <2>1
  <2> HIDE DEF g, ends
  <2> QED BY <1>4, <1>5, <2>2
<1>8. \A k \in 1..m : k \in 1..(m + 1) /\ g[k] - 1 = 3 * k - 1
  OBVIOUS
<1>9. m + 1 \in 1..(m + 1) /\ g[m + 1] - 1 = 3 * m + x /\ 3 * (m + 1) - 2 = 3 * m + 1
  OBVIOUS
<1> HIDE DEF g, ends
<1> QED BY <1>6, <1>7, <1>8, <1>9

\* What is put: the lines that ended, and a rest that ends in a carriage return.
LEMMA BodiesOfSplit ==
  ASSUME NEW e \in Seq(Sentences), NEW c \in Nat, c <= Len(e),
         NEW q \in Seq(Tokens), Begins(q, e, c),
         NEW m, NEW x, Cut(q, m, x)
  PROVE  PutsNext(q, e, c, Lines(m, x))
<1> DEFINE ls == SplitLines(q)
           r == Lines(m, x)
           ended == {k \in 1..Len(ls) : Ended(ls[k])}
<1>0. m \in Nat /\ x \in 0..2 /\ Len(q) = 3 * m + x /\ r = IF x = 2 THEN m + 1 ELSE m
  BY DEF Cut, Lines
<1> HIDE DEF r
<1> USE <1>0
<1>1. /\ Len(ls) = m + 1
      /\ \A k \in 1..m : ls[k] = SubSeq(q, 3 * k - 2, 3 * k - 1)
      /\ ls[m + 1] = SubSeq(q, 3 * m + 1, 3 * m + x)
  BY SplitStream
<1>2. \A i \in 1..Len(q) : q[i] \in Tokens
  OBVIOUS
<1>3. ASSUME NEW k \in 1..m
      PROVE  Len(ls[k]) = 2 /\ ls[k][1] = q[3 * k - 2] /\ ls[k][2] = q[3 * k - 1]
  <2>1. \A i \in (3 * k - 2)..(3 * k - 1) : q[i] \in Tokens
    BY <1>2
  <2>2. /\ Len(SubSeq(q, 3 * k - 2, 3 * k - 1)) = 2
        /\ SubSeq(q, 3 * k - 2, 3 * k - 1)[1] = q[3 * k - 2]
        /\ SubSeq(q, 3 * k - 2, 3 * k - 1)[2] = q[3 * k - 1]
    BY <2>1, SubSeqProperties
  <2> QED BY <1>1, <2>2
<1>4. /\ Len(ls[m + 1]) = x
      /\ x = 2 => ls[m + 1][1] = q[3 * m + 1] /\ ls[m + 1][2] = q[3 * m + 2]
  <2>1. \A i \in (3 * m + 1)..(3 * m + x) : q[i] \in Tokens
    BY <1>2
  <2>2. /\ Len(SubSeq(q, 3 * m + 1, 3 * m + x)) = x
        /\ x = 2 => /\ SubSeq(q, 3 * m + 1, 3 * m + x)[1] = q[3 * m + 1]
                    /\ SubSeq(q, 3 * m + 1, 3 * m + x)[2] = q[3 * m + 2]
    BY <2>1, SubSeqProperties
  <2> HIDE DEF ls
  <2> QED BY <1>1, <2>2
<1>5. \A k \in 1..r : Len(ls[k]) = 2 /\ ls[k][1] = q[3 * k - 2] /\ ls[k][2] = q[3 * k - 1]
  <2>1. \A k \in 1..r : k \in 1..m \/ (k = m + 1 /\ x = 2)
    OBVIOUS
  <2>2. x = 2 => 3 * (m + 1) - 2 = 3 * m + 1 /\ 3 * (m + 1) - 1 = 3 * m + 2
    OBVIOUS
  <2> HIDE DEF ls
  <2> QED BY <1>3, <1>4, <2>1, <2>2
<1>6. \A k \in 1..r : q[3 * k - 2] = Text(e[c + k]) /\ q[3 * k - 1] = CR /\ c + k <= Len(e)
  <2> SUFFICES ASSUME NEW k \in 1..r
               PROVE  q[3 * k - 2] = Text(e[c + k]) /\ q[3 * k - 1] = CR /\ c + k <= Len(e)
    OBVIOUS
  <2>1. k \in Nat \ {0} /\ 3 * k - 1 <= Len(q) /\ 3 * k - 2 <= Len(q)
    OBVIOUS
  <2> QED BY <2>1 DEF Begins
<1>7. c + r <= Len(e)
  <2>1. CASE r = 0
    BY <2>1
  <2>2. CASE r # 0
    <3>1. r \in 1..r
      BY <2>2
    <3> QED BY <1>6, <3>1
  <2> QED BY <2>1, <2>2
<1>8. r \in Nat /\ ended = 1..r
  <2>1. \A k \in 1..r : k \in 1..Len(ls) /\ Ended(ls[k])
    <3>1. \A k \in 1..r : k \in 1..(m + 1)
      OBVIOUS
    <3> HIDE DEF ls
    <3>2. \A k \in 1..r : Last(ls[k]) = CR /\ Len(ls[k]) = 2
      BY <1>5, <1>6 DEF Last
    <3>3. 2 > 1
      OBVIOUS
    <3> QED BY <1>1, <3>1, <3>2, <3>3 DEF Ended
  <2>2. \A k \in 1..Len(ls) : k \notin 1..r => k = m + 1 /\ x # 2
    <3>1. \A k \in 1..(m + 1) : k \notin 1..r => k = m + 1 /\ x # 2
      OBVIOUS
    <3> HIDE DEF ls
    <3> QED BY <1>1, <3>1
  <2>3. x # 2 => ~Ended(ls[m + 1])
    <3> HIDE DEF ls
    <3> QED BY <1>4 DEF Ended
  <2>4. ended = 1..r
    <3> HIDE DEF ls
    <3> QED BY <2>1, <2>2, <2>3
  <2> QED BY <2>4
<1>9. Cardinality(ended) = r /\ \A k \in 1..r : Nth(ended, k) = k
  <2> HIDE DEF ended
  <2> QED BY <1>8, Counting
<1>10. Bodies(ls) = [i \in 1..r |-> Head(ls[Nth(ended, i)]).body]
  <2>1. Bodies(ls) = [i \in 1..Cardinality(ended) |-> Head(ls[Nth(ended, i)]).body]
    BY DEF Bodies
  <2> HIDE DEF ended, ls
  <2> QED BY <1>9, <2>1
<1>11. \A i \in 1..r : Head(ls[Nth(ended, i)]).body = e[c + i]
  <2> SUFFICES ASSUME NEW i \in 1..r PROVE Head(ls[Nth(ended, i)]).body = e[c + i]
    OBVIOUS
  <2>1. ls[i][1] = Text(e[c + i]) /\ Nth(ended, i) = i /\ c + i <= Len(e) /\ i \in Nat \ {0}
    <3> HIDE DEF ls, ended
    <3> QED BY <1>5, <1>6, <1>9
  <2>2. e[c + i] \in Sentences
    BY <2>1
  <2> HIDE DEF ls, ended
  <2> QED BY <2>1, <2>2, TokensDiffer
<1> HIDE DEF ended
<1>12. Len(Bodies(ls)) = r /\ \A i \in 1..r : Bodies(ls)[i] = e[c + i]
  <2>1. \A i \in 1..r : Bodies(ls)[i] = Head(ls[Nth(ended, i)]).body
    BY <1>10
  <2>2. Len(Bodies(ls)) = r
    BY <1>8, <1>10
  <2> QED BY <1>11, <2>1, <2>2
<1> QED BY <1>7, <1>8, <1>12 DEF PutsNext, r

------------------------------------------------------------------------------
(***************************************************************************)
(* The inductive invariant of AisReceiver.  Of the lines of the serial     *)
(* line the first c were read whole; one more was put if the buffer ends   *)
(* in its carriage return.  What was put is the lines up to this one, and  *)
(* the queue and the partial messages hold fragments of them, in order.    *)
(***************************************************************************)

PutUpTo(c) == IF Len(buffer) = 2 THEN c + 1 ELSE c

\* o may be sent after s; o may be put when s was.
Before(s, o) == o # Garbled /\ (s # Garbled /\ s.msg = o.msg => s.part < o.part)
NotAfter(s, o) == s # Garbled /\ o # Garbled /\ s.msg = o.msg => s.part <= o.part

TypeInv ==
  /\ reader \in Readers /\ up \in BOOLEAN
  /\ sent \in [Messages -> Nat] /\ \A m \in Messages : sent[m] <= Parts[m]
  /\ net \subseteq Sentences /\ wire \in Seq(Tokens) /\ buffer \in Seq(Tokens)
  /\ emitted \in Seq(Sentences) /\ put \in Seq(Sentences)
  /\ DOMAIN partials \subseteq Idents

\* A reader leaves the other's input alone, and nothing outlives the process.
LifeInv ==
  /\ reader = "serial" => net = {}
  /\ reader # "serial" => wire = <<>> /\ buffer = <<>> /\ emitted = <<>>
  /\ ~up => /\ net = {} /\ wire = <<>> /\ buffer = <<>> /\ emitted = <<>>
            /\ put = <<>> /\ queueIn = <<>> /\ partials = <<>>

OrderInv ==
  /\ \A i \in 1..Len(emitted) : emitted[i] # Garbled => emitted[i].part <= sent[emitted[i].msg]
  /\ \A i, j \in 1..Len(emitted) : i < j => Before(emitted[i], emitted[j])

Pending(c) ==
  /\ Len(buffer) <= 2 /\ Len(buffer) + Len(wire) = 3 * (Len(emitted) - c)
  /\ Begins(buffer \o wire, emitted, c)

\* p is the first n of the sentences e, some of them twice.
PutIs(p, e, n) ==
  /\ n = 0 <=> p = <<>>
  /\ n > 0 => Last(p) = e[n]
  /\ \E g \in [1..n -> Nat] : Enumerates(g, n, Firsts(p)) /\ \A k \in 1..n : p[g[k]] = e[k]

WaitAre(n) ==
  /\ \A i \in 1..Len(queueIn) :
       /\ \E k \in 1..n : queueIn[i].body = emitted[k]
       /\ \A j \in 1..Len(queueIn) : i <= j => NotAfter(queueIn[i].body, queueIn[j].body)
  /\ \A i \in DOMAIN partials : \A p \in DOMAIN partials[i].payloads :
       /\ \E k \in 1..n : partials[i].payloads[p] = emitted[k]
       /\ \A j \in 1..Len(queueIn) : NotAfter(partials[i].payloads[p], queueIn[j].body)

LinesInv ==
  reader = "serial" =>
    \E c \in 0..Len(emitted) :
      /\ Pending(c) /\ Len(put) <= c + PutUpTo(c)
      /\ PutIs(put, emitted, PutUpTo(c)) /\ WaitAre(PutUpTo(c))

FillInv ==
  reader = "serial" =>
    \A d \in decoded : Alone(d.fill.msg) => d.fill.part = Parts[d.fill.msg]

ReceiverInv ==
  DecryptInv /\ TypeInv /\ LifeInv /\ OrderInv /\ LinesInv /\ FillInv

------------------------------------------------------------------------------
(* A read of the serial line *)

\* What the lines a read ended are on the queue.
Entries(c, r) == [i \in 1..r |-> [t |-> now, body |-> emitted[c + i]]]

\* A read completes m lines and leaves x tokens of the next in the buffer.
ReadsOn(c, m, x) ==
  /\ c + Lines(m, x) <= Len(emitted)
  /\ Len(buffer) = 2 => m >= 1
  /\ wire' \in Seq(Tokens) /\ buffer' \in Seq(Tokens) /\ Len(buffer') = x
  /\ Pending(c + m)'
  /\ queueIn' = queueIn \o Entries(c, Lines(m, x))

\* The part of q behind its first k elements, when x are left.
LEMMA RestOf ==
  ASSUME NEW A, NEW q, NEW k \in Nat, NEW x \in Nat,
         \A i \in (k + 1)..(k + x) : q[i] \in A
  PROVE  /\ SubSeq(q, k + 1, k + x) \in Seq(A) /\ Len(SubSeq(q, k + 1, k + x)) = x
         /\ \A i \in 1..x : SubSeq(q, k + 1, k + x)[i] = q[k + i]
<1>1. k + 1 \in Int /\ k + x \in Int /\ (k + x) - (k + 1) + 1 = x
  OBVIOUS
<1>2. SubSeq(q, k + 1, k + x) \in Seq(A)
  BY <1>1, SubSeqProperties
<1>3. Len(SubSeq(q, k + 1, k + x)) = x
  <2>1. Len(SubSeq(q, k + 1, k + x)) = IF k + 1 <= k + x THEN (k + x) - (k + 1) + 1 ELSE 0
    BY <1>1, SubSeqProperties
  <2> QED BY <2>1
<1>4. \A i \in 1..x : SubSeq(q, k + 1, k + x)[i] = q[k + i]
  <2>1. \A i \in 1..((k + x) - (k + 1) + 1) : SubSeq(q, k + 1, k + x)[i] = q[(k + 1) + i - 1]
    BY <1>1, SubSeqProperties
  <2>2. \A i \in 1..x : i \in 1..((k + x) - (k + 1) + 1) /\ (k + 1) + i - 1 = k + i
    OBVIOUS
  <2> QED BY <2>1, <2>2
<1> QED BY <1>2, <1>3, <1>4

LEMMA ReadBytes ==
  ASSUME TypeInv, NEW c \in 0..Len(emitted), Pending(c), ReadSerial, UNCHANGED emitted
  PROVE  \E m \in Nat, x \in 0..2 : ReadsOn(c, m, x)
<1>1. wire \in Seq(Tokens) /\ buffer \in Seq(Tokens) /\ emitted \in Seq(Sentences)
  BY DEF TypeInv
<1>2. PICK n \in 1..Len(wire) :
        LET ls == SplitLines(buffer \o SubSeq(wire, 1, n))
            bodies == Bodies(ls)
        IN /\ wire' = SubSeq(wire, n + 1, Len(wire))
           /\ queueIn' = queueIn \o [i \in 1..Len(bodies) |-> [t |-> now, body |-> bodies[i]]]
           /\ buffer' = Kept(ls)
  BY DEF ReadSerial
<1> DEFINE q == buffer \o SubSeq(wire, 1, n)
           all == buffer \o wire
<1>3. /\ SubSeq(wire, 1, n) \in Seq(Tokens) /\ Len(SubSeq(wire, 1, n)) = n
      /\ \A i \in 1..n : SubSeq(wire, 1, n)[i] = wire[i]
  BY <1>1, SubSeqProperties
<1>4. /\ q \in Seq(Tokens) /\ Len(q) = Len(buffer) + n
      /\ \A i \in 1..(Len(buffer) + n) : q[i] = IF i <= Len(buffer) THEN buffer[i] ELSE wire[i - Len(buffer)]
  BY <1>1, <1>3, ConcatProperties
<1>5. /\ all \in Seq(Tokens) /\ Len(all) = Len(buffer) + Len(wire)
      /\ \A i \in 1..(Len(buffer) + Len(wire)) : all[i] = IF i <= Len(buffer) THEN buffer[i] ELSE wire[i - Len(buffer)]
  BY <1>1, ConcatProperties
<1>6. \A i \in 1..Len(q) : q[i] = all[i] /\ i <= Len(all)
  BY <1>1, <1>4, <1>5
<1>7. Len(q) \in Nat /\ Len(all) \in Nat /\ Len(q) <= Len(all) /\ Len(buffer) \in Nat
  BY <1>1, <1>4, <1>5
<1>8. Begins(all, emitted, c)
  BY DEF Pending
<1>9. Begins(q, emitted, c)
  <2> SUFFICES ASSUME NEW j \in Nat \ {0}
               PROVE  /\ 3 * j - 2 <= Len(q) => c + j <= Len(emitted) /\ q[3 * j - 2] = Text(emitted[c + j])
                      /\ 3 * j - 1 <= Len(q) => q[3 * j - 1] = CR
                      /\ 3 * j <= Len(q) => q[3 * j] = LF
    BY DEF Begins
  <2>1. /\ 3 * j - 2 <= Len(all) => c + j <= Len(emitted) /\ all[3 * j - 2] = Text(emitted[c + j])
        /\ 3 * j - 1 <= Len(all) => all[3 * j - 1] = CR
        /\ 3 * j <= Len(all) => all[3 * j] = LF
    BY <1>8 DEF Begins
  <2> HIDE DEF q, all
  <2>2. \A i \in {3 * j - 2, 3 * j - 1, 3 * j} : i <= Len(q) => q[i] = all[i] /\ i <= Len(all)
    BY <1>6, <1>7
  <2> QED BY <2>1, <2>2
<1>10. PICK m \in Nat, x \in 0..2 : Len(q) = 3 * m + x
  BY <1>7, Thirds
<1> DEFINE r == Lines(m, x)
           bodies == Bodies(SplitLines(q))
<1>11. c + r <= Len(emitted) /\ Len(bodies) = r /\ \A i \in 1..r : bodies[i] = emitted[c + i]
  <2>1. emitted \in Seq(Sentences) /\ q \in Seq(Tokens) /\ c \in Nat /\ c <= Len(emitted)
    BY <1>1, <1>4
  <2>2. Cut(q, m, x)
    BY <1>10 DEF Cut
  <2> HIDE DEF q
  <2>3. PutsNext(q, emitted, c, Lines(m, x))
    BY <1>9, <2>1, <2>2, BodiesOfSplit
  <2> QED BY <2>3 DEF PutsNext
<1>12. buffer' = SubSeq(q, 3 * m + 1, 3 * m + x)
  <2>1. c \in Nat
    OBVIOUS
  <2>2. Len(SplitLines(q)) = m + 1 /\ SplitLines(q)[m + 1] = SubSeq(q, 3 * m + 1, 3 * m + x)
    <3> HIDE DEF q
    <3> QED BY <1>1, <1>4, <1>9, <1>10, <2>1, SplitStream, ZenonT(60)
  <2> QED BY <1>2, <2>2 DEF Kept, Last
<1>13. /\ buffer' \in Seq(Tokens) /\ Len(buffer') = x
       /\ \A i \in 1..x : buffer'[i] = q[3 * m + i]
  <2>1. \A i \in (3 * m + 1)..(3 * m + x) : q[i] \in Tokens
    <3>1. \A i \in (3 * m + 1)..(3 * m + x) : i \in 1..Len(q)
      BY <1>10
    <3> HIDE DEF q
    <3> QED BY <1>4, <3>1
  <2> HIDE DEF q
  <2>2. PICK k \in Nat : k = 3 * m
    OBVIOUS
  <2>3. \A i \in (k + 1)..(k + x) : q[i] \in Tokens
    BY <2>1, <2>2
  <2>4. buffer' = SubSeq(q, k + 1, k + x)
    BY <1>12, <2>2
  <2>5. /\ buffer' \in Seq(Tokens) /\ Len(buffer') = x
        /\ \A i \in 1..x : buffer'[i] = q[k + i]
    BY <2>3, <2>4, RestOf
  <2> QED BY <2>2, <2>5
<1>14. /\ wire' \in Seq(Tokens) /\ Len(wire') = Len(wire) - n
       /\ \A i \in 1..(Len(wire) - n) : wire'[i] = wire[n + i]
  <2>1. wire' = SubSeq(wire, n + 1, Len(wire))
    BY <1>2
  <2>2. \A i \in (n + 1)..Len(wire) : wire[i] \in Tokens
    BY <1>1
  <2> QED BY <1>1, <2>1, <2>2, SubSeqProperties
<1>15. Pending(c + m)'
  <2> DEFINE rest == buffer' \o wire'
  <2>1. /\ rest \in Seq(Tokens) /\ Len(rest) = x + Len(wire) - n
        /\ \A i \in 1..Len(rest) : rest[i] = IF i <= x THEN buffer'[i] ELSE wire'[i - x]
    <3>1. /\ rest \in Seq(Tokens) /\ Len(rest) = Len(buffer') + Len(wire')
          /\ \A i \in 1..(Len(buffer') + Len(wire')) :
               rest[i] = IF i <= Len(buffer') THEN buffer'[i] ELSE wire'[i - Len(buffer')]
      BY <1>13, <1>14, ConcatProperties
    <3>2. Len(buffer') = x /\ Len(wire') = Len(wire) - n /\ Len(wire) \in Nat /\ n \in Nat
      BY <1>1, <1>13, <1>14
    <3> HIDE DEF rest
    <3> QED BY <3>1, <3>2
  <2>2. Len(all) = Len(rest) + 3 * m /\ \A i \in 1..Len(rest) : rest[i] = all[3 * m + i]
    <3>0. Len(buffer) + n = 3 * m + x /\ Len(buffer) \in Nat /\ Len(wire) \in Nat /\ n \in Nat
      <4>1. Len(q) = Len(buffer) + n /\ Len(q) = 3 * m + x
        BY <1>4, <1>10
      <4> HIDE DEF q
      <4> QED BY <1>1, <4>1
    <3> HIDE DEF rest, all, q
    <3>1. Len(all) = Len(rest) + 3 * m
      <4>1. Len(all) = Len(buffer) + Len(wire) /\ Len(rest) = x + Len(wire) - n
        BY <1>5, <2>1
      <4> QED BY <3>0, <4>1
    <3>2. ASSUME NEW i \in 1..Len(rest) PROVE rest[i] = all[3 * m + i]
      <4>1. i \in Nat \ {0} /\ i <= x + Len(wire) - n
        BY <2>1, <3>0
      <4>2. CASE i <= x
        <5>1. rest[i] = q[3 * m + i]
          BY <1>13, <2>1, <4>1, <4>2
        <5>2. 3 * m + i \in 1..Len(q)
          BY <1>10, <4>1, <4>2
        <5> QED BY <1>6, <5>1, <5>2
      <4>3. CASE i > x
        <5>1. i - x \in 1..(Len(wire) - n)
          BY <3>0, <4>1, <4>3
        <5>2. rest[i] = wire[n + (i - x)]
          <6>1. rest[i] = wire'[i - x]
            BY <2>1, <4>1, <4>3
          <6> QED BY <1>14, <5>1, <6>1
        <5>3. 3 * m + i \in 1..(Len(buffer) + Len(wire)) /\ ~(3 * m + i <= Len(buffer))
          BY <3>0, <4>1, <4>3
        <5>4. all[3 * m + i] = wire[3 * m + i - Len(buffer)]
          BY <1>5, <5>3
        <5>5. n + (i - x) = 3 * m + i - Len(buffer)
          BY <3>0, <4>1
        <5> QED BY <5>2, <5>4, <5>5
      <4> QED BY <4>1, <4>2, <4>3
    <3> QED BY <3>1, <3>2
  <2>3. Begins(rest, emitted, c + m)
    <3> SUFFICES ASSUME NEW j \in Nat \ {0}
                 PROVE  /\ 3 * j - 2 <= Len(rest) => c + m + j <= Len(emitted) /\ rest[3 * j - 2] = Text(emitted[c + m + j])
                        /\ 3 * j - 1 <= Len(rest) => rest[3 * j - 1] = CR
                        /\ 3 * j <= Len(rest) => rest[3 * j] = LF
      BY DEF Begins
    <3> DEFINE k == m + j
    <3>1. k \in Nat \ {0} /\ c + k = c + m + j
      OBVIOUS
    <3>2. /\ 3 * k - 2 <= Len(all) => c + k <= Len(emitted) /\ all[3 * k - 2] = Text(emitted[c + k])
          /\ 3 * k - 1 <= Len(all) => all[3 * k - 1] = CR
          /\ 3 * k <= Len(all) => all[3 * k] = LF
      BY <1>8, <3>1 DEF Begins
    <3>3. 3 * k - 2 = 3 * m + (3 * j - 2) /\ 3 * k - 1 = 3 * m + (3 * j - 1) /\ 3 * k = 3 * m + 3 * j
      OBVIOUS
    <3>4. Len(rest) \in Nat
      BY <2>1
    <3> HIDE DEF k, rest, all
    <3>5. \A i \in {3 * j - 2, 3 * j - 1, 3 * j} :
            i <= Len(rest) => rest[i] = all[3 * m + i] /\ 3 * m + i <= Len(all)
      BY <2>2, <3>4
    <3> QED BY <3>1, <3>2, <3>3, <3>5
  <2>4. x <= 2 /\ Len(buffer') + Len(wire') = 3 * (Len(emitted) - (c + m))
    <3>1. Len(buffer) + Len(wire) = 3 * (Len(emitted) - c)
      BY DEF Pending
    <3>2. Len(buffer) + n = 3 * m + x
      <4>1. Len(q) = Len(buffer) + n /\ Len(q) = 3 * m + x
        BY <1>4, <1>10
      <4> HIDE DEF q
      <4> QED BY <4>1
    <3>3. Len(buffer') = x /\ Len(wire') = Len(wire) - n
      BY <1>13, <1>14
    <3>4. Len(emitted) \in Nat /\ Len(wire) \in Nat /\ Len(buffer) \in Nat /\ n \in Nat
      BY <1>1
    <3> QED BY <3>1, <3>2, <3>3, <3>4
  <2> QED BY <1>13, <2>3, <2>4 DEF Pending
<1>16. Len(buffer) = 2 => m >= 1
  BY <1>4, <1>10
<1>17. queueIn' = queueIn \o Entries(c, r)
  <2>1. Len(bodies) = r
    BY <1>11
  <2>2. \A i \in 1..r : bodies[i] = emitted[c + i]
    BY <1>11
  <2>3. queueIn' = queueIn \o [i \in 1..Len(bodies) |-> [t |-> now, body |-> bodies[i]]]
    BY <1>2
  <2> HIDE DEF bodies, r
  <2> QED BY <2>1, <2>2, <2>3 DEF Entries
<1> QED BY <1>11, <1>13, <1>14, <1>15, <1>16, <1>17 DEF ReadsOn

------------------------------------------------------------------------------
(* Under either reader Decrypt does what AisDecrypt says. *)

LEMMA Arrival ==
  ASSUME DecryptType, NEW b \in Seq([t : {now}, body : Sentences]), b # <<>>,
         queueIn' = queueIn \o b, UNCHANGED <<partials, decoded, dropped, now>>
  PROVE  Arrive
<1> DEFINE A == [t : Nat, body : Sentences]
<1>1. queueIn \in Seq(A) /\ now \in Nat
  BY DEF DecryptType
<1>2. b \in Seq(A)
  <2>1. [t : {now}, body : Sentences] \subseteq A
    BY <1>1
  <2> HIDE DEF A
  <2> QED BY <2>1, SeqMonotonic
<1> HIDE DEF A
<1>3. /\ queueIn' \in Seq(A) /\ Len(queueIn') = Len(queueIn) + Len(b)
      /\ \A i \in 1..(Len(queueIn) + Len(b)) :
           queueIn'[i] = IF i <= Len(queueIn) THEN queueIn[i] ELSE b[i - Len(queueIn)]
  BY <1>1, <1>2, ConcatProperties
<1>4. Len(queueIn) \in Nat /\ Len(b) \in Nat \ {0}
  BY <1>1, EmptySeq
<1>5. SubSeq(queueIn', 1, Len(queueIn)) = queueIn
  <2>1. \A i \in 1..Len(queueIn) : queueIn'[i] = queueIn[i] /\ queueIn'[i] \in A
    BY <1>1, <1>3, <1>4
  <2>2. /\ SubSeq(queueIn', 1, Len(queueIn)) \in Seq(A)
        /\ Len(SubSeq(queueIn', 1, Len(queueIn))) = Len(queueIn)
        /\ \A i \in 1..Len(queueIn) : SubSeq(queueIn', 1, Len(queueIn))[i] = queueIn'[i]
    BY <1>4, <2>1, SubSeqProperties
  <2> QED BY <1>1, <2>1, <2>2, SeqEqual
<1>6. \A i \in (Len(queueIn) + 1)..Len(queueIn') : queueIn'[i] \in [t : {now}, body : Sentences]
  <2> SUFFICES ASSUME NEW i \in (Len(queueIn) + 1)..Len(queueIn')
               PROVE  queueIn'[i] \in [t : {now}, body : Sentences]
    OBVIOUS
  <2>1. i - Len(queueIn) \in 1..Len(b) /\ queueIn'[i] = b[i - Len(queueIn)]
    BY <1>3, <1>4
  <2> QED BY <2>1, ElementOfSeq
<1>7. Len(queueIn') > Len(queueIn)
  BY <1>3, <1>4
<1> QED BY <1>3, <1>5, <1>6, <1>7 DEF Arrive, A

LEMMA ReadArrives ==
  ASSUME DecryptType, TypeInv, NEW c \in 0..Len(emitted), NEW r \in Nat, c + r <= Len(emitted),
         queueIn' = queueIn \o Entries(c, r), UNCHANGED <<partials, decoded, dropped, now>>
  PROVE  Arrive \/ UNCHANGED decryptVars
<1> DEFINE b == Entries(c, r)
<1>1. emitted \in Seq(Sentences) /\ queueIn \in Seq([t : Nat, body : Sentences])
  BY DEF TypeInv, DecryptType
<1>2. \A i \in 1..r : emitted[c + i] \in Sentences
  BY <1>1
<1>3. b \in Seq([t : {now}, body : Sentences]) /\ Len(b) = r
  BY <1>2 DEF Entries
<1>4. CASE b = <<>>
  <2>1. queueIn' = queueIn
    BY <1>1, <1>4
  <2> QED BY <2>1 DEF decryptVars
<1>5. CASE b # <<>>
  <2> HIDE DEF b
  <2> QED BY <1>3, <1>5, Arrival DEF b
<1> QED BY <1>4, <1>5

LEMMA ReceiverRefines ==
  ASSUME ReceiverInv, [Next]_vars
  PROVE  [Arrive \/ Elapse \/ Anew \/ (Decrypt /\ UNCHANGED now)]_decryptVars
<1> USE DEF vars, deviceVars, serialVars, outVars, decryptVars
<1>1. DecryptType /\ TypeInv
  BY DEF ReceiverInv, DecryptInv
<1>2. ASSUME NEW m \in Messages, Transmit(m) \/ Miss(m) PROVE UNCHANGED decryptVars
  BY <1>2 DEF Transmit, Miss
<1>3. ASSUME NEW s \in net, Lose(s) PROVE UNCHANGED decryptVars
  BY <1>3 DEF Lose
<1>4. ASSUME NEW s \in net, Receive(s) PROVE Arrive
  <2> DEFINE b == <<[t |-> now, body |-> s]>>
  <2>1. s \in Sentences /\ now \in Nat /\ queueIn \in Seq([t : Nat, body : Sentences])
    BY <1>1 DEF TypeInv, DecryptType
  <2>2. b \in Seq([t : {now}, body : Sentences]) /\ b # <<>>
    BY <2>1
  <2>3. queueIn' = queueIn \o b
    <3>1. queueIn' = Append(queueIn, [t |-> now, body |-> s])
      BY <1>4 DEF Receive
    <3>2. [t |-> now, body |-> s] \in [t : Nat, body : Sentences]
      BY <2>1
    <3> QED BY <2>1, <3>1, <3>2, AppendIsConcat
  <2>4. UNCHANGED <<partials, decoded, dropped, now>>
    BY <1>4 DEF Receive
  <2> HIDE DEF b
  <2> QED BY <1>1, <2>2, <2>3, <2>4, Arrival
<1>5. ASSUME Read PROVE Arrive \/ UNCHANGED decryptVars
  <2>1. reader = "serial" /\ ReadSerial /\ UNCHANGED emitted /\ UNCHANGED <<partials, decoded, dropped, now>>
    BY <1>5 DEF Read
  <2>2. PICK c \in 0..Len(emitted) : Pending(c)
    BY <2>1 DEF ReceiverInv, LinesInv
  <2>3. \E r \in Nat : c + r <= Len(emitted) /\ queueIn' = queueIn \o Entries(c, r)
    <3>1. PICK m \in Nat, x \in 0..2 : ReadsOn(c, m, x)
      BY <1>1, <2>1, <2>2, ReadBytes
    <3>2. Lines(m, x) \in Nat
      BY DEF Lines
    <3> QED BY <3>1, <3>2 DEF ReadsOn
  <2> QED BY <1>1, <2>1, <2>3, ReadArrives
<1>6. ASSUME TakeSentence PROVE Decrypt /\ UNCHANGED now
  BY <1>6 DEF TakeSentence
<1>7. ASSUME Tick PROVE Elapse
  BY <1>1, <1>7 DEF Tick, Elapse, DecryptType
<1>8. ASSUME Die PROVE Anew
  BY <1>8 DEF Die, Anew
<1>9. ASSUME Restart PROVE UNCHANGED decryptVars
  BY <1>9 DEF Restart
<1> QED BY <1>2, <1>3, <1>4, <1>5, <1>6, <1>7, <1>8, <1>9 DEF Next

------------------------------------------------------------------------------
(* Every step keeps the parts of the invariant. *)

LEMMA Transmitted ==
  ASSUME TypeInv, NEW m \in Messages, Turn(m)
  PROVE  /\ [msg |-> m, part |-> sent[m] + 1] \in Sentences \ {Garbled}
         /\ LineOf([msg |-> m, part |-> sent[m] + 1]) \in Seq(Tokens)
<1> DEFINE s == [msg |-> m, part |-> sent[m] + 1]
<1>1. sent[m] + 1 \in 1..Parts[m]
  BY PartsAssumption DEF TypeInv, Turn
<1>2. s \in Sentences /\ s # Garbled
  BY <1>1, GarbledAssumption DEF Sentences
<1> HIDE DEF s
<1>3. LineOf(s) \in Seq(Tokens)
  BY <1>2, TokensDiffer DEF LineOf
<1> QED BY <1>2, <1>3 DEF s

LEMMA SentOne ==
  ASSUME TypeInv, NEW m \in Messages, Turn(m), sent' = [sent EXCEPT ![m] = @ + 1]
  PROVE  sent' \in [Messages -> Nat] /\ \A o \in Messages : sent'[o] <= Parts[o]
<1>1. sent \in [Messages -> Nat] /\ (\A o \in Messages : sent[o] <= Parts[o]) /\ sent[m] < Parts[m]
  BY DEF TypeInv, Turn
<1>2. \A o \in Messages : Parts[o] \in Nat
  BY PartsAssumption
<1> QED BY <1>1, <1>2

LEMMA GarbledLine == Garbled \in Sentences /\ LineOf(Garbled) \in Seq(Tokens)
<1>1. Garbled \in Sentences
  BY DEF Sentences
<1> QED BY <1>1, TokensDiffer DEF LineOf

\* What a read puts.
Fresh(e, c, r) == [i \in 1..r |-> e[c + i]]

LEMMA ReadPuts ==
  ASSUME DecryptType, TypeInv, Read, NEW c \in 0..Len(emitted), NEW m \in Nat, NEW x \in 0..2,
         ReadsOn(c, m, x)
  PROVE  put' = put \o Fresh(emitted, c, Lines(m, x))
<1> DEFINE r == Lines(m, x)
           Entry == [t : Nat, body : Sentences]
<1>1. r \in Nat /\ c + r <= Len(emitted) /\ emitted \in Seq(Sentences) /\ now \in Nat
      /\ queueIn \in Seq(Entry) /\ queueIn' = queueIn \o Entries(c, r)
  BY DEF Lines, ReadsOn, TypeInv, DecryptType
<1> HIDE DEF r
<1>2. /\ Entries(c, r) \in Seq(Entry) /\ Len(Entries(c, r)) = r
      /\ \A i \in 1..r : Entries(c, r)[i].body = emitted[c + i]
  <2>1. \A i \in 1..r : emitted[c + i] \in Sentences
    BY <1>1
  <2> QED BY <1>1, <2>1 DEF Entries
<1> HIDE DEF Entry
<1>10. queueIn \in Seq(Entry) /\ Entries(c, r) \in Seq(Entry) /\ queueIn' = queueIn \o Entries(c, r)
  BY <1>1, <1>2
<1>11. /\ Len(queueIn') = Len(queueIn) + Len(Entries(c, r))
       /\ \A i \in 1..(Len(queueIn) + Len(Entries(c, r))) :
            queueIn'[i] = IF i <= Len(queueIn) THEN queueIn[i] ELSE Entries(c, r)[i - Len(queueIn)]
  BY <1>10, ConcatProperties
<1>3. /\ Len(queueIn') = Len(queueIn) + r
      /\ \A i \in 1..(Len(queueIn) + r) :
           queueIn'[i] = IF i <= Len(queueIn) THEN queueIn[i] ELSE Entries(c, r)[i - Len(queueIn)]
  BY <1>2, <1>11
<1>4. Len(queueIn) \in Nat
  BY <1>1
<1>5. Len(queueIn') - Len(queueIn) = r
  BY <1>1, <1>3, <1>4
<1>6. \A i \in 1..r : queueIn'[Len(queueIn) + i].body = emitted[c + i]
  <2> SUFFICES ASSUME NEW i \in 1..r PROVE queueIn'[Len(queueIn) + i].body = emitted[c + i]
    OBVIOUS
  <2>1. queueIn'[Len(queueIn) + i] = Entries(c, r)[i]
    BY <1>1, <1>3, <1>4
  <2> QED BY <1>2, <2>1
<1>7. put' = put \o [i \in 1..(Len(queueIn') - Len(queueIn)) |-> queueIn'[Len(queueIn) + i].body]
  BY DEF Read
<1>8. put' = put \o [i \in 1..r |-> queueIn'[Len(queueIn) + i].body]
  BY <1>5, <1>7
<1>9. [i \in 1..r |-> queueIn'[Len(queueIn) + i].body] = Fresh(emitted, c, r)
  BY <1>6 DEF Fresh
<1> QED BY <1>8, <1>9 DEF r

LEMMA TypeStep ==
  ASSUME ReceiverInv, [Next]_vars
  PROVE  TypeInv'
<1> USE DEF vars, deviceVars, serialVars, outVars
<1>1. DecryptType /\ TypeInv /\ LinesInv
  BY DEF ReceiverInv, DecryptInv
<1>2. ASSUME NEW m \in Messages, Transmit(m) PROVE TypeInv'
  <2> DEFINE s == [msg |-> m, part |-> sent[m] + 1]
  <2>1. s \in Sentences /\ LineOf(s) \in Seq(Tokens)
    BY <1>1, <1>2, Transmitted DEF Transmit
  <2>2. sent' \in [Messages -> Nat] /\ \A o \in Messages : sent'[o] <= Parts[o]
    BY <1>1, <1>2, SentOne DEF Transmit
  <2>3. /\ wire' = wire \/ wire' = wire \o LineOf(s)
        /\ emitted' = emitted \/ emitted' = Append(emitted, s)
        /\ net' = net \/ net' = net \union {s}
    BY <1>2 DEF Transmit
  <2>4. UNCHANGED <<reader, up, buffer, put, partials>>
    BY <1>2 DEF Transmit
  <2> HIDE DEF s
  <2>5. wire' \in Seq(Tokens)
    <3>1. wire \in Seq(Tokens)
      BY <1>1 DEF TypeInv
    <3>2. wire \o LineOf(s) \in Seq(Tokens)
      BY <2>1, <3>1, ConcatProperties
    <3> QED BY <2>3, <3>1, <3>2
  <2>6. emitted' \in Seq(Sentences)
    <3>1. emitted \in Seq(Sentences)
      BY <1>1 DEF TypeInv
    <3>2. Append(emitted, s) \in Seq(Sentences)
      BY <2>1, <3>1, AppendProperties
    <3> QED BY <2>3, <3>1, <3>2
  <2>7. net' \subseteq Sentences
    BY <1>1, <2>1, <2>3 DEF TypeInv
  <2> QED BY <1>1, <2>2, <2>4, <2>5, <2>6, <2>7 DEF TypeInv
<1>3. ASSUME NEW m \in Messages, Miss(m) PROVE TypeInv'
  <2>1. Turn(m) /\ sent' = [sent EXCEPT ![m] = @ + 1]
        /\ UNCHANGED <<reader, up, net, wire, buffer, emitted, put, partials>>
    BY <1>3 DEF Miss
  <2>2. sent' \in [Messages -> Nat] /\ \A o \in Messages : sent'[o] <= Parts[o]
    BY <1>1, <2>1, SentOne
  <2> QED BY <1>1, <2>1, <2>2 DEF TypeInv
<1>4. ASSUME NEW s \in net, Lose(s) PROVE TypeInv'
  BY <1>1, <1>4 DEF Lose, TypeInv
<1>5. ASSUME NEW s \in net, Receive(s) PROVE TypeInv'
  <2>1. s \in Sentences /\ put' = Append(put, s) /\ put \in Seq(Sentences)
    BY <1>1, <1>5 DEF Receive, TypeInv
  <2>2. put' \in Seq(Sentences)
    BY <2>1, AppendProperties
  <2> QED BY <1>1, <1>5, <2>2 DEF Receive, TypeInv
<1>6. ASSUME Read PROVE TypeInv'
  <2>1. reader = "serial" /\ ReadSerial /\ UNCHANGED <<reader, up, deviceVars, outVars>>
    BY <1>6 DEF Read
  <2>2. PICK c \in 0..Len(emitted) : Pending(c)
    BY <1>1, <2>1 DEF LinesInv
  <2>3. PICK m \in Nat, x \in 0..2 : ReadsOn(c, m, x)
    BY <1>1, <2>1, <2>2, ReadBytes
  <2> DEFINE r == Lines(m, x)
  <2>4. r \in Nat /\ c + r <= Len(emitted) /\ put' = put \o Fresh(emitted, c, r)
    <3>1. r \in Nat
      BY DEF Lines
    <3>2. put' = put \o Fresh(emitted, c, r)
      BY <1>1, <1>6, <2>3, ReadPuts
    <3> QED BY <2>3, <3>1, <3>2 DEF ReadsOn
  <2> HIDE DEF r
  <2>5. Fresh(emitted, c, r) \in Seq(Sentences)
    <3>1. \A i \in 1..r : emitted[c + i] \in Sentences
      BY <1>1, <2>4 DEF TypeInv
    <3> QED BY <2>4, <3>1 DEF Fresh
  <2>6. put' \in Seq(Sentences)
    BY <1>1, <2>4, <2>5 DEF TypeInv
  <2>7. wire' \in Seq(Tokens) /\ buffer' \in Seq(Tokens)
    BY <2>3 DEF ReadsOn
  <2> QED BY <1>1, <2>1, <2>6, <2>7 DEF TypeInv
<1>7. ASSUME TakeSentence PROVE TypeInv'
  <2> DEFINE s == Head(queueIn).body
  <2>1. /\ queueIn # <<>>
        /\ UNCHANGED partials \/ (s # Garbled /\ Multipart(s, Head(queueIn).t))
        /\ UNCHANGED <<reader, up, deviceVars, serialVars, now, put>>
    BY <1>7 DEF TakeSentence, Decrypt, Simple
  <2>2. s \in Sentences
    <3>1. queueIn \in Seq([t : Nat, body : Sentences])
      BY <1>1 DEF DecryptType
    <3>2. Head(queueIn) \in [t : Nat, body : Sentences]
      BY <2>1, <3>1, HeadTail
    <3> QED BY <3>2
  <2>3. DOMAIN partials' \subseteq Idents
    <3>1. CASE UNCHANGED partials
      BY <1>1, <3>1 DEF TypeInv
    <3>2. CASE s # Garbled /\ Multipart(s, Head(queueIn).t)
      <4>1. Ident[s.msg] \in Idents
        BY <2>2, <3>2, SentenceParts DEF Idents
      <4>2. DOMAIN partials' \subseteq DOMAIN partials \union {Ident[s.msg]}
        BY <3>2 DEF Multipart, Restrict, KeptIdents
      <4> QED BY <1>1, <4>1, <4>2 DEF TypeInv
    <3> QED BY <2>1, <3>1, <3>2
  <2> QED BY <1>1, <2>1, <2>3 DEF TypeInv
<1>8. ASSUME Tick PROVE TypeInv'
  BY <1>1, <1>8 DEF Tick, TypeInv
<1>9. ASSUME Die PROVE TypeInv'
  <2>1. /\ wire' = <<>> /\ buffer' = <<>> /\ net' = {} /\ emitted' = <<>> /\ put' = <<>>
        /\ partials' = <<>> /\ up' = FALSE /\ UNCHANGED <<reader, sent>>
    BY <1>9 DEF Die, Anew
  <2>2. DOMAIN partials' \subseteq Idents
    BY <2>1
  <2>3. wire' \in Seq(Tokens) /\ buffer' \in Seq(Tokens) /\ emitted' \in Seq(Sentences) /\ put' \in Seq(Sentences)
    BY <2>1
  <2> QED BY <1>1, <2>1, <2>2, <2>3 DEF TypeInv
<1>10. ASSUME Restart PROVE TypeInv'
  <2>1. up' = TRUE /\ UNCHANGED <<reader, sent, net, buffer, put, partials>>
    BY <1>10 DEF Restart
  <2>2. CASE UNCHANGED <<wire, emitted>>
    BY <1>1, <2>1, <2>2 DEF TypeInv
  <2>3. CASE wire' = LineOf(Garbled) /\ emitted' = <<Garbled>>
    <3>1. wire' \in Seq(Tokens) /\ emitted' \in Seq(Sentences)
      BY <2>3, GarbledLine
    <3> QED BY <1>1, <2>1, <3>1 DEF TypeInv
  <2> QED BY <1>10, <2>2, <2>3 DEF Restart
<1>11. ASSUME UNCHANGED vars PROVE TypeInv'
  BY <1>1, <1>11 DEF TypeInv
<1> QED BY <1>2, <1>3, <1>4, <1>5, <1>6, <1>7, <1>8, <1>9, <1>10, <1>11 DEF Next

LEMMA LifeStep ==
  ASSUME ReceiverInv, [Next]_vars
  PROVE  LifeInv'
<1> USE DEF vars, deviceVars, serialVars, outVars
<1>1. LifeInv
  BY DEF ReceiverInv
<1>2. ASSUME NEW m \in Messages, Transmit(m) \/ Miss(m) PROVE LifeInv'
  <2>1. CASE Transmit(m)
    BY <1>1, <2>1 DEF Transmit, LifeInv
  <2>2. CASE Miss(m)
    BY <1>1, <2>2 DEF Miss, LifeInv
  <2> QED BY <1>2, <2>1, <2>2
<1>3. ASSUME NEW s \in net, Lose(s) \/ Receive(s) PROVE LifeInv'
  <2>1. up /\ reader # "serial"
    BY <1>1, <1>3 DEF LifeInv
  <2> QED BY <1>1, <1>3, <2>1 DEF Lose, Receive, LifeInv
<1>4. ASSUME Read PROVE LifeInv'
  <2>1. reader = "serial" /\ UNCHANGED <<reader, up, net, emitted, partials>> /\ ReadSerial
    BY <1>4 DEF Read
  <2>2. wire # <<>>
    BY <2>1 DEF ReadSerial
  <2> QED BY <1>1, <2>1, <2>2 DEF LifeInv
<1>5. ASSUME TakeSentence PROVE LifeInv'
  <2>1. queueIn # <<>> /\ UNCHANGED <<reader, up, net, wire, buffer, emitted, put>>
    BY <1>5 DEF TakeSentence, Decrypt
  <2> QED BY <1>1, <2>1 DEF LifeInv
<1>6. ASSUME Tick PROVE LifeInv'
  BY <1>1, <1>6 DEF Tick, LifeInv
<1>7. ASSUME Die PROVE LifeInv'
  BY <1>7 DEF Die, Anew, LifeInv
<1>8. ASSUME Restart PROVE LifeInv'
  BY <1>1, <1>8 DEF Restart, LifeInv
<1>9. ASSUME UNCHANGED vars PROVE LifeInv'
  BY <1>1, <1>9 DEF LifeInv
<1> QED BY <1>2, <1>3, <1>4, <1>5, <1>6, <1>7, <1>8, <1>9 DEF Next

LEMMA OrderStep ==
  ASSUME ReceiverInv, [Next]_vars
  PROVE  OrderInv'
<1> USE DEF vars, deviceVars, serialVars, outVars
<1>1. TypeInv /\ LifeInv /\ OrderInv
  BY DEF ReceiverInv
<1>2. emitted \in Seq(Sentences) /\ sent \in [Messages -> Nat]
  BY <1>1 DEF TypeInv
<1>3. \A i \in 1..Len(emitted) : emitted[i] # Garbled =>
        emitted[i].part \in Nat /\ emitted[i].msg \in Messages /\ emitted[i].part <= sent[emitted[i].msg]
  <2>1. \A i \in 1..Len(emitted) : emitted[i] \in Sentences
    BY <1>2
  <2> QED BY <1>1, <2>1, SentenceParts DEF OrderInv
<1>4. ASSUME UNCHANGED emitted, \A m \in Messages : sent'[m] \in Nat /\ sent'[m] >= sent[m]
      PROVE  OrderInv'
  <2>1. \A i \in 1..Len(emitted) : emitted[i] # Garbled => emitted[i].part <= sent'[emitted[i].msg]
    BY <1>2, <1>3, <1>4
  <2> QED BY <1>1, <1>4, <2>1 DEF OrderInv, Before
<1>5. ASSUME NEW m \in Messages, sent' = [sent EXCEPT ![m] = @ + 1]
      PROVE  \A o \in Messages : sent'[o] \in Nat /\ sent'[o] >= sent[o]
  BY <1>2, <1>5
<1>6. ASSUME NEW m \in Messages, Transmit(m) PROVE OrderInv'
  <2> DEFINE s == [msg |-> m, part |-> sent[m] + 1]
  <2>1. sent' = [sent EXCEPT ![m] = @ + 1] /\ (emitted' = emitted \/ emitted' = Append(emitted, s))
    BY <1>6 DEF Transmit
  <2>2. CASE emitted' = emitted
    BY <1>4, <1>5, <2>1, <2>2
  <2>3. CASE emitted' = Append(emitted, s)
    <3>1. s \in Sentences /\ s # Garbled
      BY <1>1, <1>6, Transmitted DEF Transmit
    <3>2. s.msg = m /\ s.part = sent[m] + 1 /\ sent[m] \in Nat /\ sent'[m] = sent[m] + 1
      BY <1>2, <2>1
    <3> HIDE DEF s
    <3>3. /\ Len(emitted') = Len(emitted) + 1 /\ emitted'[Len(emitted) + 1] = s
          /\ \A i \in 1..Len(emitted) : emitted'[i] = emitted[i]
      BY <1>2, <2>3, <3>1, AppendProperties
    <3>4. Len(emitted) \in Nat /\ \A i \in 1..Len(emitted') : i \in 1..Len(emitted) \/ i = Len(emitted) + 1
      BY <1>2, <3>3
    <3>5. \A i \in 1..Len(emitted') : emitted'[i] # Garbled => emitted'[i].part <= sent'[emitted'[i].msg]
      <4> SUFFICES ASSUME NEW i \in 1..Len(emitted'), emitted'[i] # Garbled
                   PROVE  emitted'[i].part <= sent'[emitted'[i].msg]
        OBVIOUS
      <4>1. CASE i \in 1..Len(emitted)
        <5>1. emitted'[i] = emitted[i]
          BY <3>3, <4>1
        <5> QED BY <1>2, <1>3, <1>5, <2>1, <4>1, <5>1
      <4>2. CASE i = Len(emitted) + 1
        BY <3>2, <3>3, <4>2
      <4> QED BY <3>4, <4>1, <4>2
    <3>6. \A i, j \in 1..Len(emitted') : i < j => Before(emitted'[i], emitted'[j])
      <4> SUFFICES ASSUME NEW i \in 1..Len(emitted'), NEW j \in 1..Len(emitted'), i < j
                   PROVE  Before(emitted'[i], emitted'[j])
        OBVIOUS
      <4>1. i \in 1..Len(emitted) /\ emitted'[i] = emitted[i]
        <5>1. i # Len(emitted) + 1
          BY <3>3, <3>4
        <5> QED BY <3>3, <3>4, <5>1
      <4>2. CASE j \in 1..Len(emitted)
        BY <1>1, <3>3, <4>1, <4>2 DEF OrderInv
      <4>3. CASE j = Len(emitted) + 1
        <5>1. emitted'[j] = s
          BY <3>3, <4>3
        <5>2. emitted[i] # Garbled /\ emitted[i].msg = m => emitted[i].part < s.part
          BY <1>3, <3>2, <4>1
        <5> QED BY <3>1, <3>2, <4>1, <5>1, <5>2 DEF Before
      <4> QED BY <3>4, <4>2, <4>3
    <3> QED BY <3>5, <3>6 DEF OrderInv
  <2> QED BY <2>1, <2>2, <2>3
<1>7. ASSUME NEW m \in Messages, Miss(m) PROVE OrderInv'
  <2>1. UNCHANGED emitted /\ sent' = [sent EXCEPT ![m] = @ + 1]
    BY <1>7 DEF Miss
  <2> QED BY <1>4, <1>5, <2>1
<1>8. ASSUME UNCHANGED <<emitted, sent>> PROVE OrderInv'
  BY <1>1, <1>8 DEF OrderInv, Before
<1>9. ASSUME Die PROVE OrderInv'
  <2>1. emitted' = <<>>
    BY <1>9 DEF Die
  <2> QED BY <2>1 DEF OrderInv
<1>10. ASSUME Restart PROVE OrderInv'
  <2>1. UNCHANGED sent /\ (UNCHANGED emitted \/ emitted' = <<Garbled>>)
    BY <1>10 DEF Restart
  <2>2. CASE emitted' = <<Garbled>>
    <3>1. Len(emitted') = 1 /\ emitted'[1] = Garbled
      BY <2>2
    <3>2. \A i \in 1..Len(emitted') : i = 1
      BY <3>1
    <3>3. ~(1 < 1)
      OBVIOUS
    <3> QED BY <3>1, <3>2, <3>3 DEF OrderInv
  <2> QED BY <1>8, <2>1, <2>2
<1>11. (\E s \in net : Lose(s) \/ Receive(s)) \/ Read \/ TakeSentence \/ Tick \/ UNCHANGED vars
       => UNCHANGED <<emitted, sent>>
  BY DEF Lose, Receive, Read, TakeSentence, Tick
<1> QED BY <1>6, <1>7, <1>8, <1>9, <1>10, <1>11 DEF Next

------------------------------------------------------------------------------
(* What was put *)

Distinct(e) == \A i, j \in 1..Len(e) : i < j => e[i] # e[j]

\* After a read the sentences put are the first c + r, if before it they were
\* the first c, or one more that comes again.
LEMMA PutMore ==
  ASSUME NEW p \in Seq(Sentences), NEW e \in Seq(Sentences), Distinct(e),
         NEW c \in Nat, NEW r \in Nat, c + r <= Len(e), NEW z \in {0, 1}, z <= r,
         PutIs(p, e, c + z)
  PROVE  PutIs(p \o Fresh(e, c, r), e, c + r)
<1> DEFINE n == c + z
           f == Fresh(e, c, r)
           q == p \o f
           l == Len(p)
<1>1. /\ n \in Nat /\ n <= c + r /\ n <= Len(e) /\ l \in Nat /\ Len(e) \in Nat
      /\ n = 0 <=> p = <<>>
      /\ n > 0 => p[l] = e[n]
  BY DEF PutIs, Last
<1>2. PICK g \in [1..n -> Nat] : Enumerates(g, n, Firsts(p)) /\ \A k \in 1..n : p[g[k]] = e[k]
  BY DEF PutIs
<1>3. f \in Seq(Sentences) /\ Len(f) = r /\ \A i \in 1..r : f[i] = e[c + i]
  <2>1. \A i \in 1..r : e[c + i] \in Sentences
    OBVIOUS
  <2> QED BY <2>1 DEF Fresh
<1> HIDE DEF f
<1>4. q \in Seq(Sentences) /\ Len(q) = l + Len(f)
      /\ \A i \in 1..(l + Len(f)) : q[i] = IF i <= l THEN p[i] ELSE f[i - l]
  BY <1>3, ConcatProperties
<1>5. /\ Len(q) = l + r
      /\ \A i \in 1..l : q[i] = p[i]
      /\ \A j \in 1..r : q[l + j] = e[c + j]
  <2>1. ASSUME NEW i \in 1..l PROVE q[i] = p[i]
    BY <1>1, <1>3, <1>4
  <2>2. ASSUME NEW j \in 1..r PROVE q[l + j] = e[c + j]
    <3>1. l + j \in 1..(l + Len(f)) /\ ~(l + j <= l) /\ (l + j) - l = j
      BY <1>1, <1>3, SMTT(30)
    <3> QED BY <1>3, <1>4, <3>1
  <2> QED BY <1>3, <1>4, <2>1, <2>2
<1> HIDE DEF q
<1> DEFINE h == [k \in 1..(c + r) |-> IF k <= n THEN g[k] ELSE l + (k - c)]
<1>6. \A k \in 1..n : k \in 1..(c + r) /\ h[k] = g[k] /\ g[k] \in 1..l
  <2>1. \A k \in 1..n : g[k] \in Firsts(p)
    BY <1>2 DEF Enumerates
  <2> QED BY <1>1, <2>1 DEF Firsts
<1>7. \A k \in 1..(c + r) : k > n => h[k] = l + (k - c) /\ k - c \in (z + 1)..r
  BY <1>1
<1>8. Increasing(h, c + r)
  <2>1. h \in [1..(c + r) -> Nat]
    BY <1>1
  <2>2. ASSUME NEW j \in 1..(c + r), NEW k \in 1..(c + r), j < k PROVE h[j] < h[k]
    <3>1. CASE k <= n
      BY <1>1, <1>2, <1>6, <2>2, <3>1 DEF Enumerates, Increasing
    <3>2. CASE k > n /\ j <= n
      <4>1. j \in 1..n /\ h[j] = g[j] /\ g[j] \in 1..l
        <5>1. j \in 1..n
          BY <1>1, <3>2
        <5> HIDE DEF h
        <5> QED BY <1>6, <5>1
      <4>2. h[k] = l + (k - c) /\ k - c \in (z + 1)..r
        BY <1>7, <3>2
      <4> HIDE DEF h
      <4> QED BY <1>1, <4>1, <4>2
    <3>3. CASE k > n /\ j > n
      BY <1>1, <1>7, <2>2, <3>3
    <3> QED BY <1>1, <3>1, <3>2, <3>3
  <2> QED BY <2>1, <2>2 DEF Increasing
<1>9. \A k \in 1..(c + r) : q[h[k]] = e[k]
  <2> SUFFICES ASSUME NEW k \in 1..(c + r) PROVE q[h[k]] = e[k]
    OBVIOUS
  <2>1. CASE k <= n
    <3>1. k \in 1..n /\ h[k] = g[k] /\ g[k] \in 1..l
      <4>1. k \in 1..n
        BY <1>1, <2>1
      <4> HIDE DEF h
      <4> QED BY <1>6, <4>1
    <3> HIDE DEF h
    <3> QED BY <1>2, <1>5, <3>1
  <2>2. CASE k > n
    <3>1. k - c \in 1..r /\ h[k] = l + (k - c) /\ c + (k - c) = k
      BY <1>1, <1>7, <2>2
    <3> HIDE DEF h
    <3> QED BY <1>5, <3>1
  <2> QED BY <1>1, <2>1, <2>2
<1>10. \A i \in 1..l : i \in Firsts(q) <=> i \in Firsts(p)
  <2> SUFFICES ASSUME NEW i \in 1..l PROVE i \in Firsts(q) <=> i \in Firsts(p)
    OBVIOUS
  <2>1. i \in 1..Len(q) /\ q[i] = p[i] /\ (i # 1 => q[i - 1] = p[i - 1])
    <3>1. i # 1 => i - 1 \in 1..l
      BY <1>1
    <3>2. i \in 1..Len(q)
      BY <1>1, <1>5
    <3> QED BY <1>5, <3>1, <3>2
  <2> QED BY <2>1 DEF Firsts
<1>11. \A j \in 1..r : l + j \in Firsts(q) <=> j > z
  <2> SUFFICES ASSUME NEW j \in 1..r PROVE l + j \in Firsts(q) <=> j > z
    OBVIOUS
  <2>1. l + j \in 1..Len(q) /\ q[l + j] = e[c + j]
    BY <1>1, <1>5
  <2>2. CASE j > 1
    <3>1. j - 1 \in 1..r /\ (l + j) - 1 = l + (j - 1) /\ c + (j - 1) < c + j
          /\ c + (j - 1) \in 1..Len(e) /\ c + j \in 1..Len(e) /\ j > z
      BY <1>1, <2>2
    <3>2. q[(l + j) - 1] = e[c + (j - 1)] /\ e[c + (j - 1)] # e[c + j]
      BY <1>5, <3>1 DEF Distinct
    <3> QED BY <2>1, <3>1, <3>2 DEF Firsts
  <2>3. CASE j = 1 /\ n = 0
    <3>1. l = 0 /\ z = 0
      BY <1>1, <2>3
    <3> QED BY <2>1, <2>3, <3>1 DEF Firsts
  <2>4. CASE j = 1 /\ n > 0
    <3>1. l > 0 /\ (l + j) - 1 = l /\ q[l] = p[l] /\ l + j # 1
      <4>1. p # <<>>
        BY <1>1, <2>4
      <4>2. l > 0
        BY <4>1, EmptySeq
      <4> QED BY <1>1, <1>5, <2>4, <4>2, SMTT(30)
    <3>2. l + j \in Firsts(q) <=> e[c + 1] # e[n]
      BY <1>1, <2>1, <2>4, <3>1 DEF Firsts
    <3>3. CASE z = 1
      BY <2>4, <3>2, <3>3
    <3>4. CASE z = 0
      <4>1. n = c /\ c \in 1..Len(e) /\ c + 1 \in 1..Len(e) /\ c < c + 1
        BY <1>1, <2>4, <3>4
      <4>2. e[c] # e[c + 1]
        BY <4>1 DEF Distinct
      <4> QED BY <2>4, <3>2, <3>4, <4>1, <4>2
    <3> QED BY <3>3, <3>4
  <2> QED BY <1>1, <2>2, <2>3, <2>4
<1>12. Firsts(q) = {h[k] : k \in 1..(c + r)}
  <2>1. ASSUME NEW i \in Firsts(q) PROVE \E k \in 1..(c + r) : i = h[k]
    <3>1. i \in 1..Len(q)
      BY <2>1 DEF Firsts
    <3>2. CASE i \in 1..l
      <4>1. \E k \in 1..n : i = g[k]
        BY <1>2, <1>10, <2>1, <3>2 DEF Enumerates
      <4> HIDE DEF h
      <4> QED BY <1>6, <4>1
    <3>3. CASE i \notin 1..l
      <4>1. i - l \in 1..r /\ l + (i - l) = i
        BY <1>1, <1>5, <3>1, <3>3
      <4>2. i - l > z
        BY <1>11, <2>1, <4>1
      <4>3. c + (i - l) \in 1..(c + r) /\ c + (i - l) > n /\ l + ((c + (i - l)) - c) = i
        BY <1>1, <4>1, <4>2
      <4> HIDE DEF h
      <4> QED BY <1>7, <4>3
    <3> QED BY <3>2, <3>3
  <2>2. ASSUME NEW k \in 1..(c + r) PROVE h[k] \in Firsts(q)
    <3>1. CASE k <= n
      <4>1. g[k] \in Firsts(p) /\ g[k] \in 1..l /\ h[k] = g[k]
        <5>1. k \in 1..n
          BY <1>1, <3>1
        <5>2. g[k] \in Firsts(p)
          BY <1>2, <5>1 DEF Enumerates
        <5> HIDE DEF h
        <5> QED BY <1>6, <5>1, <5>2
      <4> QED BY <1>10, <4>1
    <3>2. CASE k > n
      <4>1. h[k] = l + (k - c) /\ k - c \in 1..r /\ k - c > z
        BY <1>1, <1>7, <3>2
      <4> QED BY <1>11, <4>1
    <3> QED BY <1>1, <3>1, <3>2
  <2> HIDE DEF h
  <2> QED BY <2>1, <2>2
<1>13. c + r = 0 <=> q = <<>>
  <2>1. c + r = 0 <=> l + r = 0
    <3>1. n = 0 <=> l = 0
      BY <1>1
    <3> QED BY <1>1, <3>1
  <2>2. q = <<>> <=> Len(q) = 0
    BY <1>4, EmptySeq
  <2> QED BY <1>5, <2>1, <2>2
<1>14. c + r > 0 => q[Len(q)] = e[c + r]
  <2>1. CASE r = 0
    <3>1. n = c
      BY <2>1
    <3>2. c > 0 => l \in 1..l
      BY <1>1, <3>1
    <3> QED BY <1>1, <1>5, <2>1, <3>1, <3>2
  <2>2. CASE r > 0
    BY <1>5, <2>2
  <2> QED BY <2>1, <2>2
<1>15. h \in [1..(c + r) -> Nat] /\ Enumerates(h, c + r, Firsts(q))
  <2> HIDE DEF h
  <2> QED BY <1>8, <1>12 DEF Enumerates, Increasing
<1> HIDE DEF h
<1> QED BY <1>9, <1>13, <1>14, <1>15 DEF PutIs, Last, q, f

LEMMA EmittedOrder ==
  ASSUME TypeInv, OrderInv
  PROVE  /\ Distinct(emitted)
         /\ \A i, j \in 1..Len(emitted) : i <= j => NotAfter(emitted[i], emitted[j])
<1>1. \A i \in 1..Len(emitted) : emitted[i] # Garbled => emitted[i].part \in Nat
  <2>1. \A i \in 1..Len(emitted) : emitted[i] \in Sentences
    BY DEF TypeInv
  <2> QED BY <2>1, SentenceParts
<1>2. \A i, j \in 1..Len(emitted) : i < j => Before(emitted[i], emitted[j])
  BY DEF OrderInv
<1>3. ASSUME NEW i \in 1..Len(emitted), NEW j \in 1..Len(emitted), i < j
      PROVE  emitted[i] # emitted[j]
  BY <1>1, <1>2, <1>3 DEF Before
<1>4. ASSUME NEW i \in 1..Len(emitted), NEW j \in 1..Len(emitted), i <= j
      PROVE  NotAfter(emitted[i], emitted[j])
  <2>1. CASE i = j
    BY <1>1, <2>1 DEF NotAfter
  <2>2. CASE i < j
    BY <1>1, <1>2, <2>2 DEF Before, NotAfter
  <2> QED BY <1>4, <2>1, <2>2
<1> QED BY <1>3, <1>4 DEF Distinct

LEMMA PutBound ==
  ASSUME TypeInv, NEW c \in 0..Len(emitted), Pending(c)
  PROVE  PutUpTo(c) \in 0..Len(emitted) /\ PutUpTo(c) \in {c, c + 1}
<1>1. Len(buffer) + Len(wire) = 3 * (Len(emitted) - c)
  BY DEF Pending
<1>2. Len(buffer) \in Nat /\ Len(wire) \in Nat /\ Len(emitted) \in Nat
  BY DEF TypeInv
<1> QED BY <1>1, <1>2 DEF PutUpTo

\* What waits for Decrypt is kept in order when the lines of a read come after it.
LEMMA WaitMore ==
  ASSUME DecryptType, TypeInv, OrderInv, NEW c \in 0..Len(emitted), NEW n \in {c, c + 1},
         NEW r \in Nat, n <= c + r, c + r <= Len(emitted), WaitAre(n),
         queueIn' = queueIn \o Entries(c, r), UNCHANGED <<emitted, partials>>
  PROVE  WaitAre(c + r)'
<1> DEFINE Entry == [t : Nat, body : Sentences]
           l == Len(queueIn)
<1>1. now \in Nat /\ queueIn \in Seq(Entry) /\ emitted \in Seq(Sentences)
  BY DEF DecryptType, TypeInv
<1>2. /\ Entries(c, r) \in Seq(Entry) /\ Len(Entries(c, r)) = r
      /\ \A i \in 1..r : Entries(c, r)[i].body = emitted[c + i]
  <2>1. \A i \in 1..r : emitted[c + i] \in Sentences
    BY <1>1
  <2> QED BY <1>1, <2>1 DEF Entries
<1> HIDE DEF Entry
<1>3. /\ Len(queueIn') = l + Len(Entries(c, r))
      /\ \A i \in 1..(l + Len(Entries(c, r))) :
           queueIn'[i] = IF i <= l THEN queueIn[i] ELSE Entries(c, r)[i - l]
  BY <1>1, <1>2, ConcatProperties
<1>4. l \in Nat /\ Len(queueIn') = l + r
  BY <1>1, <1>2, <1>3
<1>5. \A i \in 1..l : queueIn'[i] = queueIn[i]
  BY <1>2, <1>3, <1>4
<1>6. \A j \in 1..r : queueIn'[l + j].body = emitted[c + j]
  <2> SUFFICES ASSUME NEW j \in 1..r PROVE queueIn'[l + j].body = emitted[c + j]
    OBVIOUS
  <2>1. l + j \in 1..(l + Len(Entries(c, r))) /\ ~(l + j <= l) /\ (l + j) - l = j
    BY <1>2, <1>4
  <2> QED BY <1>2, <1>3, <2>1
<1>7. \A i \in 1..(l + r) : i \in 1..l \/ \E j \in 1..r : i = l + j
  <2> SUFFICES ASSUME NEW i \in 1..(l + r), i \notin 1..l PROVE \E j \in 1..r : i = l + j
    OBVIOUS
  <2>1. i - l \in 1..r /\ i = l + (i - l)
    BY <1>4
  <2> QED BY <2>1
<1> HIDE DEF l
<1>8. \A i, j \in 1..Len(emitted) : i <= j => NotAfter(emitted[i], emitted[j])
  BY EmittedOrder
<1>9. \A k \in 1..n, j \in 1..r : NotAfter(emitted[k], emitted[c + j]) /\ k \in 1..(c + r)
  <2>1. \A k \in 1..n, j \in 1..r : k \in 1..Len(emitted) /\ c + j \in 1..Len(emitted) /\ k <= c + j /\ k \in 1..(c + r)
    BY <1>1
  <2> QED BY <1>8, <2>1
<1>10. ASSUME NEW i \in 1..Len(queueIn')
       PROVE  /\ \E k \in 1..(c + r) : queueIn'[i].body = emitted[k]
              /\ \A j \in 1..Len(queueIn') : i <= j => NotAfter(queueIn'[i].body, queueIn'[j].body)
  <2>1. CASE i \in 1..l
    <3>1. PICK k \in 1..n : queueIn[i].body = emitted[k]
      BY <2>1 DEF WaitAre, l
    <3>2. queueIn'[i].body = emitted[k]
      BY <1>5, <2>1, <3>1
    <3>3. k \in 1..(c + r)
      BY <1>1
    <3>4. ASSUME NEW j \in 1..Len(queueIn'), i <= j
          PROVE  NotAfter(queueIn'[i].body, queueIn'[j].body)
      <4>1. CASE j \in 1..l
        BY <1>5, <2>1, <3>4, <4>1 DEF WaitAre, l
      <4>2. CASE \E o \in 1..r : j = l + o
        BY <1>6, <1>9, <3>2, <4>2
      <4> QED BY <1>4, <1>7, <4>1, <4>2
    <3> QED BY <3>2, <3>3, <3>4
  <2>2. CASE \E o \in 1..r : i = l + o
    <3>1. PICK o \in 1..r : i = l + o
      BY <2>2
    <3>2. queueIn'[i].body = emitted[c + o] /\ c + o \in 1..(c + r) /\ c + o \in 1..Len(emitted)
      BY <1>1, <1>6, <3>1, SMTT(30)
    <3>3. ASSUME NEW j \in 1..Len(queueIn'), i <= j
          PROVE  NotAfter(queueIn'[i].body, queueIn'[j].body)
      <4>1. j - l \in 1..r /\ j = l + (j - l) /\ o <= j - l
        BY <1>4, <3>1, <3>3
      <4>2. queueIn'[j].body = emitted[c + (j - l)]
        BY <1>6, <4>1
      <4>3. c + (j - l) \in 1..Len(emitted) /\ c + o <= c + (j - l)
        BY <1>1, <4>1
      <4> QED BY <1>8, <3>2, <4>2, <4>3
    <3> QED BY <3>2, <3>3
  <2> QED BY <1>4, <1>7, <2>1, <2>2
<1>11. ASSUME NEW i \in DOMAIN partials, NEW p \in DOMAIN partials[i].payloads
       PROVE  /\ \E k \in 1..(c + r) : partials[i].payloads[p] = emitted[k]
              /\ \A j \in 1..Len(queueIn') : NotAfter(partials[i].payloads[p], queueIn'[j].body)
  <2>1. PICK k \in 1..n : partials[i].payloads[p] = emitted[k]
    BY DEF WaitAre
  <2>2. k \in 1..(c + r)
    BY <1>1
  <2>3. ASSUME NEW j \in 1..Len(queueIn') PROVE NotAfter(partials[i].payloads[p], queueIn'[j].body)
    <3>1. CASE j \in 1..l
      BY <1>5, <3>1 DEF WaitAre, l
    <3>2. CASE \E o \in 1..r : j = l + o
      BY <1>6, <1>9, <2>1, <3>2
    <3> QED BY <1>4, <1>7, <3>1, <3>2
  <2> QED BY <2>1, <2>2, <2>3
<1> QED BY <1>10, <1>11, SMTT(30) DEF WaitAre

LEMMA LinesRead ==
  ASSUME ReceiverInv, Read
  PROVE  LinesInv'
<1>1. DecryptType /\ TypeInv /\ OrderInv /\ LinesInv
  BY DEF ReceiverInv, DecryptInv
<1>2. reader = "serial" /\ ReadSerial /\ UNCHANGED <<reader, emitted, partials>>
  BY DEF Read, deviceVars, outVars
<1>3. PICK c \in 0..Len(emitted) :
        /\ Pending(c) /\ Len(put) <= c + PutUpTo(c)
        /\ PutIs(put, emitted, PutUpTo(c)) /\ WaitAre(PutUpTo(c))
  BY <1>1, <1>2 DEF LinesInv
<1>4. PICK m \in Nat, x \in 0..2 : ReadsOn(c, m, x)
  BY <1>1, <1>2, <1>3, ReadBytes
<1> DEFINE r == Lines(m, x)
           z == IF Len(buffer) = 2 THEN 1 ELSE 0
<1>5. /\ r \in Nat /\ m <= r /\ c + r <= Len(emitted) /\ (Len(buffer) = 2 => m >= 1)
      /\ Len(buffer') = x /\ Pending(c + m)' /\ queueIn' = queueIn \o Entries(c, r)
  BY <1>4 DEF ReadsOn, Lines
<1>6. put' = put \o Fresh(emitted, c, r)
  BY <1>1, <1>3, <1>4, ReadPuts
<1>7. PutUpTo(c + m)' = c + r
  BY <1>2, <1>5 DEF PutUpTo, Lines
<1>8. z \in {0, 1} /\ PutUpTo(c) = c + z /\ z <= m
  BY <1>5 DEF PutUpTo
<1> HIDE DEF r, z
<1>9. put \in Seq(Sentences) /\ emitted \in Seq(Sentences) /\ c \in Nat
  BY <1>1 DEF TypeInv
<1>10. PutIs(put', emitted', (c + r))
  <2>1. Distinct(emitted)
    BY <1>1, EmittedOrder
  <2>2. PutIs(put, emitted, c + z) /\ z <= r
    BY <1>3, <1>5, <1>8
  <2>3. PutIs(put \o Fresh(emitted, c, r), emitted, c + r)
    BY <1>5, <1>8, <1>9, <2>1, <2>2, PutMore
  <2> QED BY <1>2, <1>6, <2>3
<1>11. WaitAre(c + r)'
  <2>1. PutUpTo(c) \in {c, c + 1} /\ PutUpTo(c) <= c + r
    BY <1>5, <1>8, <1>9
  <2> QED BY <1>1, <1>2, <1>3, <1>5, <2>1, WaitMore
<1>12. Len(put') <= (c + m) + (c + r)
  <2>1. Fresh(emitted, c, r) \in Seq(Sentences) /\ Len(Fresh(emitted, c, r)) = r
    <3>1. \A i \in 1..r : emitted[c + i] \in Sentences
      BY <1>5, <1>9
    <3> QED BY <1>5, <3>1 DEF Fresh
  <2>2. Len(put') = Len(put) + r /\ Len(put) \in Nat
    <3>1. Len(put \o Fresh(emitted, c, r)) = Len(put) + Len(Fresh(emitted, c, r))
      BY <1>9, <2>1, ConcatProperties
    <3> QED BY <1>6, <1>9, <2>1, <3>1
  <2>3. Len(put) <= c + (c + z)
    BY <1>3, <1>8
  <2> QED BY <1>5, <1>8, <1>9, <2>2, <2>3
<1>13. c + m \in 0..Len(emitted')
  BY <1>2, <1>5, <1>9
<1>14. /\ Pending(c + m)' /\ Len(put') <= (c + m) + PutUpTo(c + m)'
       /\ PutIs(put', emitted', PutUpTo(c + m)') /\ WaitAre(PutUpTo(c + m))'
  <2>1. WaitAre(PutUpTo(c + m))'
    BY <1>7, <1>11 DEF WaitAre
  <2> QED BY <1>5, <1>7, <1>10, <1>12, <2>1
<1> QED BY <1>13, <1>14 DEF LinesInv

LEMMA Behind ==
  ASSUME NEW A, NEW a \in Seq(A), NEW b \in Seq(A)
  PROVE  /\ Len(a \o b) = Len(a) + Len(b)
         /\ \A i \in 1..(Len(a) + Len(b)) : (a \o b)[i] = IF i <= Len(a) THEN a[i] ELSE b[i - Len(a)]
OBVIOUS

LEMMA LinesTransmit ==
  ASSUME ReceiverInv, NEW m \in Messages, Transmit(m)
  PROVE  LinesInv'
<1> DEFINE s == [msg |-> m, part |-> sent[m] + 1]
<1>1. TypeInv /\ LinesInv
  BY DEF ReceiverInv
<1>2. UNCHANGED <<reader, buffer, queueIn, partials, put>>
  BY DEF Transmit, outVars
<1>3. SUFFICES ASSUME reader = "serial" PROVE LinesInv'
  BY <1>2 DEF LinesInv
<1>4. PICK c \in 0..Len(emitted) :
        /\ Pending(c) /\ Len(put) <= c + PutUpTo(c)
        /\ PutIs(put, emitted, PutUpTo(c)) /\ WaitAre(PutUpTo(c))
  BY <1>1, <1>3 DEF LinesInv
<1>5. PutUpTo(c)' = PutUpTo(c) /\ PutUpTo(c) \in 0..Len(emitted)
  BY <1>1, <1>2, <1>4, PutBound DEF PutUpTo
<1>6. CASE UNCHANGED <<wire, emitted>>
  <2>1. Pending(c)' /\ WaitAre(PutUpTo(c))'
    BY <1>2, <1>4, <1>5, <1>6 DEF Pending, WaitAre
  <2> QED BY <1>2, <1>4, <1>5, <1>6, <2>1 DEF LinesInv
<1>7. CASE wire' = wire \o LineOf(s) /\ emitted' = Append(emitted, s)
  <2>1. s \in Sentences /\ LineOf(s) \in Seq(Tokens)
    BY <1>1, Transmitted DEF Transmit
  <2>2. wire \in Seq(Tokens) /\ buffer \in Seq(Tokens) /\ emitted \in Seq(Sentences)
    BY <1>1 DEF TypeInv
  <2> HIDE DEF s
  <2> DEFINE line == LineOf(s)
             all == buffer \o wire
  <2>3. Len(line) = 3 /\ line[1] = Text(s) /\ line[2] = CR /\ line[3] = LF
    BY DEF LineOf
  <2>4. /\ Len(emitted') = Len(emitted) + 1 /\ emitted'[Len(emitted) + 1] = s
        /\ \A k \in 1..Len(emitted) : emitted'[k] = emitted[k]
    BY <1>7, <2>1, <2>2, AppendProperties
  <2>5. Len(wire') = Len(wire) + 3 /\ wire' \in Seq(Tokens)
    <3>1. wire \o line \in Seq(Tokens) /\ Len(wire \o line) = Len(wire) + Len(line)
      BY <2>1, <2>2, ConcatProperties
    <3> QED BY <1>7, <2>3, <3>1
  <2>6. buffer' \o wire' = all \o line
    <3>1. (buffer \o wire) \o LineOf(s) = buffer \o (wire \o LineOf(s))
      BY <2>1, <2>2, ConcatAssociative, Z3
    <3> QED BY <1>2, <1>7, <3>1
  <2>7. all \in Seq(Tokens) /\ line \in Seq(Tokens) /\ Len(all) = Len(buffer) + Len(wire)
    BY <2>1, <2>2, ConcatProperties
  <2> HIDE DEF line, all
  <2>8. /\ Len(all \o line) = Len(all) + Len(line)
        /\ \A i \in 1..(Len(all) + Len(line)) : (all \o line)[i] = IF i <= Len(all) THEN all[i] ELSE line[i - Len(all)]
    BY <2>7, Behind
  <2>9. Len(all) = 3 * (Len(emitted) - c) /\ Len(all) \in Nat /\ Len(emitted) \in Nat /\ c \in Nat /\ c <= Len(emitted)
    BY <1>4, <2>2, <2>7 DEF Pending
  <2>10. /\ \A i \in 1..Len(all) : (all \o line)[i] = all[i]
         /\ (all \o line)[Len(all) + 1] = Text(s) /\ (all \o line)[Len(all) + 2] = CR
         /\ (all \o line)[Len(all) + 3] = LF
    <3>1. ASSUME NEW i \in 1..Len(all) PROVE (all \o line)[i] = all[i]
      BY <2>3, <2>8, <2>9
    <3>2. ASSUME NEW i \in 1..3 PROVE (all \o line)[Len(all) + i] = line[i]
      <4>1. Len(all) + i \in 1..(Len(all) + Len(line)) /\ ~(Len(all) + i <= Len(all)) /\ (Len(all) + i) - Len(all) = i
        BY <2>3, <2>9
      <4> QED BY <2>8, <4>1
    <3>3. 1 \in 1..3 /\ 2 \in 1..3 /\ 3 \in 1..3
      OBVIOUS
    <3> QED BY <2>3, <3>1, <3>2, <3>3
  <2>11. Begins(all \o line, emitted', c)
    <3> SUFFICES ASSUME NEW j \in Nat \ {0}
                 PROVE  /\ 3 * j - 2 <= Len(all \o line) => c + j <= Len(emitted') /\ (all \o line)[3 * j - 2] = Text(emitted'[c + j])
                        /\ 3 * j - 1 <= Len(all \o line) => (all \o line)[3 * j - 1] = CR
                        /\ 3 * j <= Len(all \o line) => (all \o line)[3 * j] = LF
      BY DEF Begins
    <3>1. CASE j <= Len(emitted) - c
      <4>1. /\ 3 * j - 2 \in 1..Len(all) /\ 3 * j - 1 \in 1..Len(all) /\ 3 * j \in 1..Len(all)
            /\ c + j \in 1..Len(emitted) /\ c + j <= Len(emitted')
        BY <2>4, <2>9, <3>1
      <4>2. all[3 * j - 2] = Text(emitted[c + j]) /\ all[3 * j - 1] = CR /\ all[3 * j] = LF
        BY <1>4, <4>1 DEF Pending, Begins, all
      <4> QED BY <2>4, <2>10, <4>1, <4>2
    <3>2. CASE j = Len(emitted) - c + 1
      <4>1. 3 * j - 2 = Len(all) + 1 /\ 3 * j - 1 = Len(all) + 2 /\ 3 * j = Len(all) + 3 /\ c + j = Len(emitted) + 1
        BY <2>9, <3>2
      <4>2. c + j <= Len(emitted') /\ emitted'[c + j] = s
        BY <2>4, <2>9, <4>1, SMTT(30)
      <4> QED BY <2>10, <4>1, <4>2
    <3>3. CASE j > Len(emitted) - c + 1
      <4>1. ~(3 * j - 2 <= Len(all \o line)) /\ ~(3 * j - 1 <= Len(all \o line)) /\ ~(3 * j <= Len(all \o line))
        BY <2>3, <2>8, <2>9, <3>3
      <4> QED BY <4>1
    <3> QED BY <2>9, <3>1, <3>2, <3>3, SMTT(30)
  <2>12. Pending(c)'
    <3>1. Len(buffer') <= 2 /\ Len(buffer') + Len(wire') = 3 * (Len(emitted') - c)
      <4>1. Len(buffer') = Len(buffer) /\ Len(buffer) <= 2 /\ Len(buffer) \in Nat /\ Len(wire) \in Nat
        BY <1>2, <1>4, <2>2 DEF Pending
      <4>2. Len(emitted') = Len(emitted) + 1 /\ Len(wire') = Len(wire) + 3
        BY <2>4, <2>5
      <4>3. Len(buffer) + Len(wire) = 3 * (Len(emitted) - c)
        BY <1>4 DEF Pending
      <4> QED BY <2>9, <4>1, <4>2, <4>3
    <3> QED BY <2>6, <2>11, <3>1 DEF Pending
  <2> DEFINE n == PutUpTo(c)
  <2>13. \A k \in 1..n : emitted'[k] = emitted[k]
    BY <1>5, <2>4, <2>9
  <2>14. n > 0 => n \in 1..n
    BY <1>5
  <2> HIDE DEF n
  <2>15. PutIs(put', emitted', n)
    BY <1>2, <1>4, <2>13, <2>14 DEF PutIs, n
  <2>16. WaitAre(n)'
    <3>1. WaitAre(n)
      BY <1>4 DEF n
    <3> QED BY <1>2, <1>5, <2>13, <3>1, SMTT(30) DEF WaitAre, n
  <2>17. WaitAre(PutUpTo(c))'
    BY <1>5, <2>16 DEF WaitAre, n
  <2> QED BY <1>2, <1>4, <1>5, <2>4, <2>9, <2>12, <2>15, <2>17 DEF LinesInv, n
<1> QED BY <1>3, <1>6, <1>7 DEF Transmit

------------------------------------------------------------------------------
(* A sentence is taken *)

\* A collection holds the fragment that came and what it held.
LEMMA JoinedOf ==
  ASSUME NEW s, NEW t, NEW k \in DOMAIN Joined(s, t).payloads
  PROVE  \/ Joined(s, t).payloads[k] = s
         \/ /\ Ident[s.msg] \in DOMAIN partials
            /\ k \in DOMAIN partials[Ident[s.msg]].payloads
            /\ Joined(s, t).payloads[k] = partials[Ident[s.msg]].payloads[k]
<1>1. CASE Ident[s.msg] \in DOMAIN partials
  BY <1>1 DEF Joined
<1>2. CASE Ident[s.msg] \notin DOMAIN partials
  <2>1. DOMAIN <<>> = {}
    OBVIOUS
  <2> QED BY <1>2, <2>1 DEF Joined
<1> QED BY <1>1, <1>2

\* v is a fragment of a partial message.
Held(v) == \E i \in DOMAIN partials : \E p \in DOMAIN partials[i].payloads : v = partials[i].payloads[p]

LEMMA TakenFrom ==
  ASSUME Decrypt, NEW i \in DOMAIN partials', NEW p \in DOMAIN partials'[i].payloads
  PROVE  partials'[i].payloads[p] = Head(queueIn).body \/ Held(partials'[i].payloads[p])
<1> DEFINE s == Head(queueIn).body
           t == Head(queueIn).t
<1>1. CASE UNCHANGED partials
  BY <1>1 DEF Held
<1>2. CASE Multipart(s, t)
  <2> DEFINE o == Ident[s.msg]
             joined == Joined(s, t)
             done == Complete(s, joined)
             held == IF done THEN Restrict(partials, DOMAIN partials \ {o})
                     ELSE [j \in DOMAIN partials \union {o} |-> IF j = o THEN joined ELSE partials[j]]
  <2>1. partials' = Restrict(held, KeptIdents(held))
    BY <1>2 DEF Multipart
  <2>2. i \in DOMAIN held /\ partials'[i] = held[i]
    <3> HIDE DEF held
    <3> QED BY <2>1 DEF Restrict, KeptIdents
  <2>3. \/ i \in DOMAIN partials /\ held[i] = partials[i]
        \/ held[i] = joined
    BY <2>2 DEF Restrict
  <2> HIDE DEF held
  <2>4. CASE i \in DOMAIN partials /\ held[i] = partials[i]
    BY <2>2, <2>4 DEF Held
  <2>5. CASE held[i] = joined
    BY <2>2, <2>5, JoinedOf DEF Held
  <2> QED BY <2>3, <2>4, <2>5
<1> QED BY <1>1, <1>2 DEF Decrypt, Simple

LEMMA TailOf ==
  ASSUME NEW A, NEW q \in Seq(A), q # <<>>
  PROVE  /\ Len(q) >= 1 /\ Head(q) = q[1] /\ Len(Tail(q)) = Len(q) - 1
         /\ \A j \in 1..Len(Tail(q)) : j + 1 \in 1..Len(q) /\ Tail(q)[j] = q[j + 1]
<1>1. Len(q) \in Nat /\ Len(q) # 0
  BY EmptySeq
<1> QED BY <1>1, HeadTailProperties

LEMMA LinesTake ==
  ASSUME ReceiverInv, TakeSentence
  PROVE  LinesInv'
<1>1. LinesInv /\ Decrypt /\ queueIn \in Seq([t : Nat, body : Sentences])
  BY DEF ReceiverInv, DecryptInv, DecryptType, TakeSentence
<1>2. UNCHANGED <<reader, wire, buffer, emitted, put>> /\ queueIn # <<>> /\ queueIn' = Tail(queueIn)
  BY DEF TakeSentence, deviceVars, serialVars, Decrypt
<1>3. SUFFICES ASSUME reader = "serial" PROVE LinesInv'
  BY <1>2 DEF LinesInv
<1>4. PICK c \in 0..Len(emitted) :
        /\ Pending(c) /\ Len(put) <= c + PutUpTo(c)
        /\ PutIs(put, emitted, PutUpTo(c)) /\ WaitAre(PutUpTo(c))
  BY <1>1, <1>3 DEF LinesInv
<1>5. PutUpTo(c)' = PutUpTo(c) /\ Pending(c)'
  BY <1>2, <1>4 DEF PutUpTo, Pending
<1>6. PICK n \in 0..Len(emitted) : n = PutUpTo(c)
  BY <1>1, <1>4, PutBound DEF ReceiverInv
<1>7. /\ \A i \in 1..Len(queueIn) :
            /\ \E k \in 1..n : queueIn[i].body = emitted[k]
            /\ \A j \in 1..Len(queueIn) : i <= j => NotAfter(queueIn[i].body, queueIn[j].body)
       /\ \A v : Held(v) =>
            /\ \E k \in 1..n : v = emitted[k]
            /\ \A j \in 1..Len(queueIn) : NotAfter(v, queueIn[j].body)
  <2>1. WaitAre(n)
    BY <1>4, <1>6
  <2>2. \A i \in 1..Len(queueIn) :
          /\ \E k \in 1..n : queueIn[i].body = emitted[k]
          /\ \A j \in 1..Len(queueIn) : i <= j => NotAfter(queueIn[i].body, queueIn[j].body)
    BY <2>1 DEF WaitAre
  <2>3. \A v : Held(v) =>
          /\ \E k \in 1..n : v = emitted[k]
          /\ \A j \in 1..Len(queueIn) : NotAfter(v, queueIn[j].body)
    BY <2>1 DEF WaitAre, Held
  <2> QED BY <2>2, <2>3
<1>8. /\ 1 \in 1..Len(queueIn) /\ Head(queueIn) = queueIn[1]
      /\ \A j \in 1..Len(queueIn') : j + 1 \in 1..Len(queueIn) /\ 1 <= j + 1 /\ queueIn'[j] = queueIn[j + 1]
  <2>1. Len(queueIn) >= 1 /\ Len(queueIn) \in Nat
    BY <1>1, <1>2, TailOf
  <2> QED BY <1>1, <1>2, <2>1, TailOf
<1>9. /\ \E k \in 1..n : Head(queueIn).body = emitted[k]
      /\ \A j \in 1..Len(queueIn') : NotAfter(Head(queueIn).body, queueIn'[j].body)
  BY <1>8, <1>7, ZenonT(60)
<1>10. ASSUME NEW v, Held(v)
      PROVE  /\ \E k \in 1..n : v = emitted[k]
             /\ \A j \in 1..Len(queueIn') : NotAfter(v, queueIn'[j].body)
  BY <1>8, <1>10, <1>7
<1>11. \A i \in 1..Len(queueIn') :
         /\ \E k \in 1..n : queueIn'[i].body = emitted[k]
         /\ \A j \in 1..Len(queueIn') : i <= j => NotAfter(queueIn'[i].body, queueIn'[j].body)
  <2> SUFFICES ASSUME NEW i \in 1..Len(queueIn')
               PROVE  /\ \E k \in 1..n : queueIn'[i].body = emitted[k]
                      /\ \A j \in 1..Len(queueIn') : i <= j => NotAfter(queueIn'[i].body, queueIn'[j].body)
    OBVIOUS
  <2>1. \E k \in 1..n : queueIn'[i].body = emitted[k]
    <3>1. i + 1 \in 1..Len(queueIn) /\ queueIn'[i] = queueIn[i + 1]
      BY <1>8
    <3> QED BY <1>7, <3>1
  <2>2. ASSUME NEW j \in 1..Len(queueIn'), i <= j
        PROVE  NotAfter(queueIn'[i].body, queueIn'[j].body)
    <3>1. i + 1 <= j + 1
      BY <2>2
    <3> QED BY <1>8, <1>7, <3>1
  <2> QED BY <2>1, <2>2
<1>12. ASSUME NEW i \in DOMAIN partials', NEW p \in DOMAIN partials'[i].payloads
       PROVE  /\ \E k \in 1..n : partials'[i].payloads[p] = emitted[k]
              /\ \A j \in 1..Len(queueIn') : NotAfter(partials'[i].payloads[p], queueIn'[j].body)
  <2>1. partials'[i].payloads[p] = Head(queueIn).body \/ Held(partials'[i].payloads[p])
    BY <1>1, TakenFrom
  <2> QED BY <1>9, <1>10, <2>1
<1>13. WaitAre(n)'
  BY <1>2, <1>11, <1>12 DEF WaitAre
<1>14. WaitAre(PutUpTo(c))'
  BY <1>5, <1>6, <1>13 DEF WaitAre
<1> QED BY <1>2, <1>4, <1>5, <1>14 DEF LinesInv

------------------------------------------------------------------------------
(* The line is opened *)

LEMMA NothingPut == \A e : PutIs(<<>>, e, 0)
<1> DEFINE g == [k \in 1..0 |-> 0]
<1>1. Firsts(<<>>) = {}
  BY DEF Firsts
<1>2. 1..0 = {}
  OBVIOUS
<1>3. g \in [1..0 -> Nat] /\ Enumerates(g, 0, Firsts(<<>>))
  BY <1>1, <1>2 DEF Enumerates, Increasing
<1> HIDE DEF g
<1> SUFFICES ASSUME NEW e PROVE PutIs(<<>>, e, 0)
  OBVIOUS
<1>4. \E f \in [1..0 -> Nat] : Enumerates(f, 0, Firsts(<<>>)) /\ \A k \in 1..0 : <<>>[f[k]] = e[k]
  BY <1>2, <1>3
<1>5. ~(0 > 0)
  OBVIOUS
<1> QED BY <1>4, <1>5 DEF PutIs

\* The first read may begin within a line.
LEMMA OpenLine ==
  /\ Begins(<<>> \o <<>>, <<>>, 0)
  /\ Begins(<<>> \o LineOf(Garbled), <<Garbled>>, 0)
  /\ Len(LineOf(Garbled)) = 3
<1>1. <<>> \o <<>> = <<>> /\ <<>> \o LineOf(Garbled) = LineOf(Garbled)
  <2>1. <<>> \in Seq(Tokens) /\ LineOf(Garbled) \in Seq(Tokens)
    BY GarbledLine
  <2> QED BY <2>1, ConcatEmptySeq
<1>2. Begins(<<>>, <<>>, 0)
  BY DEF Begins
<1>3. /\ Len(LineOf(Garbled)) = 3 /\ LineOf(Garbled)[1] = Text(Garbled)
      /\ LineOf(Garbled)[2] = CR /\ LineOf(Garbled)[3] = LF
  BY DEF LineOf
<1>4. Begins(LineOf(Garbled), <<Garbled>>, 0)
  <2> DEFINE q == LineOf(Garbled)
             e == <<Garbled>>
  <2>1. Len(e) = 1 /\ e[1] = Garbled
    OBVIOUS
  <2> HIDE DEF e
  <2> SUFFICES ASSUME NEW j \in Nat \ {0}
               PROVE  /\ 3 * j - 2 <= Len(q) => 0 + j <= Len(e) /\ q[3 * j - 2] = Text(e[0 + j])
                      /\ 3 * j - 1 <= Len(q) => q[3 * j - 1] = CR
                      /\ 3 * j <= Len(q) => q[3 * j] = LF
    BY DEF Begins, e
  <2> HIDE DEF q
  <2>2. CASE j = 1
    <3>1. 3 * j - 2 = 1 /\ 3 * j - 1 = 2 /\ 3 * j = 3 /\ 0 + j = 1
      BY <2>2
    <3> QED BY <1>3, <2>1, <3>1 DEF q
  <2>3. CASE j > 1
    <3>1. Len(q) = 3
      BY <1>3 DEF q
    <3>2. ~(3 * j - 2 <= Len(q)) /\ ~(3 * j - 1 <= Len(q)) /\ ~(3 * j <= Len(q))
      BY <2>3, <3>1
    <3> QED BY <3>2
  <2> QED BY <2>2, <2>3
<1> QED BY <1>1, <1>2, <1>3, <1>4

Opened ==
  /\ \/ wire = <<>> /\ emitted = <<>>
     \/ wire = LineOf(Garbled) /\ emitted = <<Garbled>>
  /\ buffer = <<>> /\ put = <<>> /\ queueIn = <<>> /\ partials = <<>>

LEMMA LinesOpened == Opened => LinesInv
<1> SUFFICES ASSUME Opened PROVE LinesInv
  OBVIOUS
<1>1. /\ buffer = <<>> /\ put = <<>> /\ queueIn = <<>> /\ partials = <<>>
      /\ Len(<<>>) = 0 /\ DOMAIN <<>> = {}
  BY DEF Opened
<1>2. Pending(0)
  <2>1. CASE wire = <<>> /\ emitted = <<>>
    BY <1>1, <2>1, OpenLine DEF Pending
  <2>2. CASE wire = LineOf(Garbled) /\ emitted = <<Garbled>>
    <3>1. Len(emitted) = 1
      BY <2>2
    <3> QED BY <1>1, <2>2, <3>1, OpenLine DEF Pending
  <2> QED BY <2>1, <2>2 DEF Opened
<1>3. PutUpTo(0) = 0
  BY <1>1 DEF PutUpTo
<1>4. PutIs(put, emitted, 0)
  BY <1>1, NothingPut
<1>5. WaitAre(0)
  BY <1>1 DEF WaitAre
<1>6. 0 \in 0..Len(emitted) /\ Len(put) <= 0 + PutUpTo(0)
  <2>1. Len(emitted) \in {0, 1}
    BY DEF Opened
  <2> QED BY <1>1, <1>3, <2>1
<1> QED BY <1>2, <1>3, <1>4, <1>5, <1>6 DEF LinesInv

LEMMA LinesOpenedNext == (Opened => LinesInv)'
BY LinesOpened, PTL

LEMMA LinesStep ==
  ASSUME ReceiverInv, [Next]_vars
  PROVE  LinesInv'
<1> USE DEF vars, deviceVars, serialVars, outVars
<1>1. LinesInv /\ LifeInv
  BY DEF ReceiverInv
<1>2. ASSUME UNCHANGED <<reader, wire, buffer, emitted, put, queueIn, partials>> PROVE LinesInv'
  <2> SUFFICES ASSUME reader = "serial" PROVE LinesInv'
    BY <1>2 DEF LinesInv
  <2>1. PICK c \in 0..Len(emitted) :
          /\ Pending(c) /\ Len(put) <= c + PutUpTo(c)
          /\ PutIs(put, emitted, PutUpTo(c)) /\ WaitAre(PutUpTo(c))
    BY <1>1 DEF LinesInv
  <2>2. Pending(c)'
    BY <1>2, <2>1 DEF Pending
  <2>3. PutUpTo(c)' = PutUpTo(c)
    BY <1>2 DEF PutUpTo
  <2>4. PICK n : n = PutUpTo(c)
    OBVIOUS
  <2>5. WaitAre(n)'
    <3>1. WaitAre(n)
      BY <2>1, <2>4
    <3> QED BY <1>2, <3>1 DEF WaitAre
  <2>6. Len(put') <= c + PutUpTo(c)' /\ PutIs(put', emitted', PutUpTo(c)')
    BY <1>2, <2>1, <2>3
  <2>7. WaitAre(PutUpTo(c))'
    BY <2>3, <2>4, <2>5 DEF WaitAre
  <2>8. c \in 0..Len(emitted')
    BY <1>2, <2>1
  <2> QED BY <2>2, <2>6, <2>7, <2>8 DEF LinesInv
<1>3. ASSUME NEW m \in Messages, Miss(m) PROVE LinesInv'
  BY <1>2, <1>3 DEF Miss
<1>4. ASSUME NEW s \in net, Lose(s) PROVE LinesInv'
  BY <1>2, <1>4 DEF Lose
<1>5. ASSUME NEW s \in net, Receive(s) PROVE LinesInv'
  BY <1>1, <1>5 DEF Receive, LifeInv, LinesInv
<1>6. ASSUME Tick PROVE LinesInv'
  BY <1>2, <1>6 DEF Tick
<1>7. ASSUME Die PROVE LinesInv'
  <2>1. Opened'
    BY <1>7 DEF Die, Anew, Opened
  <2> QED BY <2>1, LinesOpenedNext
<1>8. ASSUME Restart PROVE LinesInv'
  <2>1. Opened'
    BY <1>1, <1>8 DEF Restart, LifeInv, Opened
  <2> QED BY <2>1, LinesOpenedNext
<1>9. ASSUME UNCHANGED vars PROVE LinesInv'
  BY <1>2, <1>9
<1> QED BY <1>3, <1>4, <1>5, <1>6, <1>7, <1>8, <1>9, LinesTransmit, LinesRead, LinesTake DEF Next

------------------------------------------------------------------------------
(* Of the message that is decoded the last fragment came last. *)

\* A complete collection whose fragments were sent no later than this one.
LEMMA LastFills ==
  ASSUME NEW s \in Sentences, s # Garbled, Alone(s.msg),
         NEW p, IsPartial(p), Filed(p, Ident[s.msg]),
         Cardinality(DOMAIN p.payloads) = Parts[s.msg],
         \A k \in DOMAIN p.payloads : p.payloads[k] = s \/ NotAfter(p.payloads[k], s)
  PROVE  s.part = Parts[s.msg]
<1>1. s.msg \in Messages /\ s.part \in 1..Parts[s.msg] /\ Parts[s.msg] \in Nat \ {0} /\ s.part \in Nat
  BY SentenceParts
<1>2. ASSUME NEW k \in DOMAIN p.payloads
      PROVE  k \in 1..s.part
  <2> DEFINE v == p.payloads[k]
  <2>1. v \in Sentences /\ v # Garbled /\ v.part = k /\ Ident[v.msg] = Ident[s.msg]
    BY DEF IsPartial, Filed
  <2>2. v.msg \in Messages /\ v.part \in Nat \ {0}
    <3> HIDE DEF v
    <3> QED BY <2>1, SentenceParts
  <2>3. v.msg = s.msg
    BY <1>1, <2>1, <2>2 DEF Alone
  <2>4. v = s \/ v.part <= s.part
    BY <2>1, <2>3 DEF NotAfter
  <2> QED BY <1>1, <2>1, <2>2, <2>4
<1>3. IsFiniteSet(1..s.part) /\ Cardinality(1..s.part) = s.part
  <2> DEFINE n == s.part
  <2>1. n \in Nat
    BY <1>1
  <2> HIDE DEF n
  <2>2. IsFiniteSet(1..n) /\ Cardinality(1..n) = IF 1 > n THEN 0 ELSE n - 1 + 1
    BY <2>1, FS_Interval
  <2>3. IsFiniteSet(1..n) /\ Cardinality(1..n) = n
    BY <2>1, <2>2
  <2> QED BY <2>3 DEF n
<1>4. Parts[s.msg] <= s.part
  <2>1. DOMAIN p.payloads \subseteq 1..s.part
    BY <1>2
  <2> QED BY <1>3, <2>1, FS_Subset
<1> QED BY <1>1, <1>4

LEMMA FillTake ==
  ASSUME ReceiverInv, TakeSentence, reader = "serial",
         NEW d \in decoded', d \notin decoded, Alone(d.fill.msg)
  PROVE  d.fill.part = Parts[d.fill.msg]
<1> DEFINE s == Head(queueIn).body
           t == Head(queueIn).t
           joined == Joined(s, t)
<1>1. DecryptInv /\ LinesInv /\ queueIn # <<>> /\ Decrypt
  BY DEF ReceiverInv, TakeSentence, Decrypt
<1>2. queueIn \in Seq([t : Nat, body : Sentences])
  BY <1>1 DEF DecryptInv, DecryptType
<1>3. Head(queueIn) \in [t : Nat, body : Sentences] /\ Head(queueIn) = queueIn[1] /\ 1 \in 1..Len(queueIn)
  <2>1. Head(queueIn) \in [t : Nat, body : Sentences]
    BY <1>1, <1>2, HeadTail
  <2>2. Len(queueIn) >= 1 /\ Head(queueIn) = queueIn[1] /\ Len(queueIn) \in Nat
    BY <1>1, <1>2, TailOf
  <2> QED BY <2>1, <2>2
<1>4. s \in Sentences /\ t \in Nat
  BY <1>3
<1>5. s # Garbled /\ (Simple(s) \/ Multipart(s, t))
  BY <1>1 DEF Decrypt
<1>6. CASE Simple(s)
  <2>1. d.fill = s /\ Parts[s.msg] = 1
    BY <1>6 DEF Simple
  <2> QED BY <1>4, <1>5, <2>1, SentenceParts
<1>7. CASE Multipart(s, t)
  <2>1. d.fill = s /\ Complete(s, joined)
    <3>1. decoded' = IF Complete(s, joined)
                     THEN decoded \union {[payloads |-> joined.payloads, fill |-> FillBits(s, joined)]}
                     ELSE decoded
      BY <1>7 DEF Multipart
    <3> HIDE DEF s, joined
    <3>2. Complete(s, joined) /\ d = [payloads |-> joined.payloads, fill |-> FillBits(s, joined)]
      BY <3>1
    <3> QED BY <3>2 DEF FillBits
  <2>2. IsPartial(joined) /\ Filed(joined, Ident[s.msg])
    BY <1>1, <1>4, <1>5, JoinedFiled
  <2>3. PICK n : WaitAre(n)
    BY <1>1 DEF LinesInv
  <2>4. \A v : Held(v) => NotAfter(v, s)
    BY <1>3, <2>3 DEF WaitAre, Held
  <2>5. \A k \in DOMAIN joined.payloads : joined.payloads[k] = s \/ NotAfter(joined.payloads[k], s)
    <3>1. \A k \in DOMAIN joined.payloads : joined.payloads[k] = s \/ Held(joined.payloads[k])
      BY JoinedOf DEF Held
    <3> QED BY <2>4, <3>1
  <2> HIDE DEF s, joined
  <2> QED BY <1>4, <1>5, <2>1, <2>2, <2>5, LastFills DEF Complete
<1> QED BY <1>5, <1>6, <1>7

LEMMA FillStep ==
  ASSUME ReceiverInv, [Next]_vars
  PROVE  FillInv'
<1> USE DEF vars, deviceVars, serialVars, outVars
<1>1. FillInv
  BY DEF ReceiverInv
<1>2. UNCHANGED reader
  BY DEF Next, Transmit, Miss, Lose, Receive, Read, TakeSentence, Tick, Die, Restart
<1>3. CASE UNCHANGED decoded
  BY <1>1, <1>2, <1>3 DEF FillInv
<1>4. CASE TakeSentence
  BY <1>1, <1>2, <1>4, FillTake DEF FillInv
<1>5. UNCHANGED decoded \/ TakeSentence
  BY DEF Next, Transmit, Miss, Lose, Receive, Read, Tick, Die, Anew, Restart
<1> QED BY <1>3, <1>4, <1>5

------------------------------------------------------------------------------
LEMMA ReceiverInit == Init => ReceiverInv
<1> SUFFICES ASSUME Init PROVE ReceiverInv
  OBVIOUS
<1>1. /\ reader \in Readers /\ up = TRUE /\ sent = [m \in Messages |-> 0] /\ net = {}
      /\ buffer = <<>> /\ queueIn = <<>> /\ partials = <<>> /\ decoded = {} /\ now = 0 /\ put = <<>>
      /\ \/ wire = <<>> /\ emitted = <<>>
         \/ reader = "serial" /\ wire = LineOf(Garbled) /\ emitted = <<Garbled>>
  BY DEF Init, SerialInit, DecryptInit
<1>2. DecryptInv
  BY <1>1 DEF DecryptInv, DecryptType, FiledInv, DecodedWholeAlone
<1>3. TypeInv
  <2>1. \A m \in Messages : 0 <= Parts[m]
    BY PartsAssumption
  <2>2. wire \in Seq(Tokens) /\ emitted \in Seq(Sentences)
    <3>1. <<>> \in Seq(Tokens) /\ <<>> \in Seq(Sentences) /\ <<Garbled>> \in Seq(Sentences)
      BY GarbledLine
    <3> QED BY <1>1, <3>1, GarbledLine
  <2>3. DOMAIN partials \subseteq Idents
    BY <1>1
  <2> QED BY <1>1, <2>1, <2>2, <2>3 DEF TypeInv
<1>4. LifeInv
  BY <1>1 DEF LifeInv
<1>5. OrderInv
  <2>1. \A i \in 1..Len(emitted) : i = 1 /\ emitted[i] = Garbled
    <3>1. CASE emitted = <<>>
      BY <3>1
    <3>2. CASE emitted = <<Garbled>>
      BY <3>2
    <3> QED BY <1>1, <3>1, <3>2
  <2> QED BY <2>1 DEF OrderInv
<1>6. LinesInv
  BY <1>1, LinesOpened DEF Opened
<1>7. FillInv
  BY <1>1 DEF FillInv
<1> QED BY <1>2, <1>3, <1>4, <1>5, <1>6, <1>7 DEF ReceiverInv

LEMMA ReceiverStep ==
  ASSUME ReceiverInv, [Next]_vars
  PROVE  ReceiverInv'
<1>1. DecryptInv'
  <2>1. [Arrive \/ Elapse \/ Anew \/ (Decrypt /\ UNCHANGED now)]_decryptVars
    BY ReceiverRefines
  <2> QED BY <2>1, DecryptStep DEF ReceiverInv
<1> QED BY <1>1, TypeStep, LifeStep, OrderStep, LinesStep, FillStep DEF ReceiverInv

\* The readers and the life of the process keep the lines in the order in which
\* they were sent, the first c of them on the queue (aisChomp.py 97-178).
THEOREM ReceiverInvariant == Spec => []ReceiverInv
BY ReceiverInit, ReceiverStep, PTL DEF Spec

\* Whatever the readers, the device and the life of the process do, the thread
\* Decrypt sees what AisDecrypt lets any reader do (aisChomp.py 116-170).
THEOREM ReceiverRefinesDecrypt == Spec => RefinesDecrypt
<1>1. Init => queueIn = <<>> /\ DecryptInit /\ now = 0
  BY DEF Init
<1> QED BY <1>1, ReceiverInvariant, ReceiverRefines, PTL DEF Spec, RefinesDecrypt, DecryptSpec

\* So under either reader a message whose sequence number no other message
\* carries is decoded whole or not at all (aisChomp.py 320-373).
THEOREM ReceiverDecodesWhole == Spec => []DecodedWholeAlone
<1>1. ReceiverInv => DecodedWholeAlone
  BY DEF ReceiverInv, DecryptInv
<1> QED BY <1>1, ReceiverInvariant, PTL

------------------------------------------------------------------------------
\* What a read leaves is the beginning of a line (aisChomp.py 157-170).
LEMMA BufferBegins ==
  ASSUME TypeInv, LifeInv, LinesInv
  PROVE  \E s \in Sentences : IsPrefix(buffer, LineOf(s))
<1>1. buffer \in Seq(Tokens) /\ wire \in Seq(Tokens) /\ emitted \in Seq(Sentences)
  BY DEF TypeInv
<1>2. SUFFICES \E s \in Sentences : Len(buffer) <= 3 /\ \A i \in 1..Len(buffer) : buffer[i] = LineOf(s)[i]
  <2> SUFFICES ASSUME NEW s \in Sentences, Len(buffer) <= 3, \A i \in 1..Len(buffer) : buffer[i] = LineOf(s)[i]
               PROVE  IsPrefix(buffer, LineOf(s))
    OBVIOUS
  <2>1. Len(LineOf(s)) = 3 /\ LineOf(s) \in Seq(Tokens)
    BY TokensDiffer DEF LineOf
  <2>2. Len(buffer) \in Nat
    BY <1>1
  <2> QED BY <1>1, <2>1, <2>2 DEF IsPrefix
<1>3. CASE buffer = <<>>
  <2>1. Len(buffer) = 0
    BY <1>3
  <2> QED BY <2>1, GarbledLine
<1>4. CASE buffer # <<>>
  <2>1. PICK c \in 0..Len(emitted) : Pending(c)
    BY <1>4 DEF LifeInv, LinesInv
  <2>2. Len(buffer) \in {1, 2} /\ c \in Nat
    <3>1. Len(buffer) \in Nat /\ Len(buffer) # 0
      BY <1>1, <1>4, EmptySeq
    <3>2. Len(buffer) <= 2
      BY <2>1 DEF Pending
    <3>3. \A l \in Nat : l # 0 /\ l <= 2 => l = 1 \/ l = 2
      OBVIOUS
    <3>4. Len(buffer) = 1 \/ Len(buffer) = 2
      BY <3>1, <3>2, <3>3
    <3>5. c \in Nat
      BY <1>1
    <3> QED BY <3>4, <3>5
  <2> DEFINE q == buffer \o wire
  <2>3. /\ Len(q) = Len(buffer) + Len(wire)
        /\ \A i \in 1..Len(buffer) : q[i] = buffer[i]
    BY <1>1, ConcatProperties
  <2>4. Begins(q, emitted, c)
    BY <2>1 DEF Pending
  <2> HIDE DEF q
  <2>5. Len(wire) \in Nat
    BY <1>1
  <2>6. c + 1 <= Len(emitted) /\ q[1] = Text(emitted[c + 1]) /\ (Len(buffer) = 2 => q[2] = CR)
    <3>1. /\ 3 * 1 - 2 <= Len(q) => c + 1 <= Len(emitted) /\ q[3 * 1 - 2] = Text(emitted[c + 1])
          /\ 3 * 1 - 1 <= Len(q) => q[3 * 1 - 1] = CR
      BY <2>4 DEF Begins
    <3>2. Len(q) >= 1 /\ (Len(buffer) = 2 => Len(q) >= 2)
      BY <2>2, <2>3, <2>5
    <3>3. 3 * 1 - 2 = 1 /\ 3 * 1 - 1 = 2
      OBVIOUS
    <3> QED BY <3>1, <3>2, <3>3
  <2>7. emitted[c + 1] \in Sentences
    BY <1>1, <2>2, <2>6
  <2>8. LineOf(emitted[c + 1])[1] = Text(emitted[c + 1]) /\ LineOf(emitted[c + 1])[2] = CR
    BY DEF LineOf
  <2>9. \A i \in 1..Len(buffer) : buffer[i] = LineOf(emitted[c + 1])[i]
    <3>1. ASSUME NEW i \in 1..Len(buffer) PROVE i = 1 \/ (i = 2 /\ Len(buffer) = 2)
      <4>1. Len(buffer) = 1 \/ Len(buffer) = 2
        BY <2>2
      <4>2. i \in 1..1 \/ (i \in 1..2 /\ Len(buffer) = 2)
        BY <4>1
      <4>3. (\A k \in 1..1 : k = 1) /\ (\A k \in 1..2 : k = 1 \/ k = 2)
        OBVIOUS
      <4> QED BY <4>2, <4>3
    <3> QED BY <2>3, <2>6, <2>8, <3>1
  <2> QED BY <2>2, <2>7, <2>9
<1> QED BY <1>3, <1>4

\* Type correctness of the receiver.
THEOREM ReceiverTyped == Spec => []TypeOK
<1>1. ReceiverInv => TypeOK
  <2> SUFFICES ASSUME ReceiverInv PROVE TypeOK
    OBVIOUS
  <2>1. TypeInv /\ LifeInv /\ LinesInv /\ DecryptType
    BY DEF ReceiverInv, DecryptInv
  <2> QED BY <2>1, BufferBegins DEF TypeOK, TypeInv, DecryptType
<1> QED BY <1>1, ReceiverInvariant, PTL

------------------------------------------------------------------------------
(* However the stream is cut *)

\* What was put, without what came twice, is what it is the beginning of.
LEMMA UndoubledIs ==
  ASSUME NEW p \in Seq(Sentences), NEW e \in Seq(Sentences),
         NEW n \in Nat, n <= Len(e), PutIs(p, e, n)
  PROVE  /\ Undoubled(p) \in Seq(Sentences) /\ Len(Undoubled(p)) = n
         /\ \A k \in 1..n : Undoubled(p)[k] = e[k]
<1>1. PICK g \in [1..n -> Nat] : Enumerates(g, n, Firsts(p)) /\ \A k \in 1..n : p[g[k]] = e[k]
  BY DEF PutIs
<1>2. Cardinality(Firsts(p)) = n /\ \A k \in 1..n : Nth(Firsts(p), k) = g[k]
  BY <1>1, Enumerated
<1>3. Undoubled(p) = [k \in 1..n |-> p[Nth(Firsts(p), k)]]
  BY <1>2 DEF Undoubled
<1>4. \A k \in 1..n : p[Nth(Firsts(p), k)] = e[k]
  BY <1>1, <1>2
<1>5. Undoubled(p) = [k \in 1..n |-> e[k]]
  BY <1>3, <1>4
<1>6. \A k \in 1..n : e[k] \in Sentences
  OBVIOUS
<1> DEFINE u == [k \in 1..n |-> e[k]]
<1>7. u \in Seq(Sentences) /\ Len(u) = n
  BY <1>6
<1>8. \A k \in 1..n : u[k] = e[k]
  OBVIOUS
<1> QED BY <1>5, <1>7, <1>8

LEMMA KeptLines ==
  ASSUME TypeInv, LinesInv, reader = "serial"
  PROVE  /\ IsPrefix(Undoubled(put), emitted)
         /\ wire = <<>> => Undoubled(put) = emitted
         /\ Len(put) <= 2 * Len(Undoubled(put))
<1>1. /\ put \in Seq(Sentences) /\ emitted \in Seq(Sentences)
      /\ Len(put) \in Nat /\ Len(emitted) \in Nat /\ Len(buffer) \in Nat
  BY DEF TypeInv
<1>2. PICK c \in 0..Len(emitted) :
        /\ Pending(c) /\ Len(put) <= c + PutUpTo(c) /\ PutIs(put, emitted, PutUpTo(c))
  BY DEF LinesInv
<1>3. PICK n \in 0..Len(emitted) : n = PutUpTo(c) /\ n \in {c, c + 1}
  BY <1>2, PutBound
<1>4. n \in Nat /\ n <= Len(emitted) /\ PutIs(put, emitted, n) /\ c \in Nat
  BY <1>1, <1>2, <1>3
<1> DEFINE u == Undoubled(put)
<1>5. u \in Seq(Sentences) /\ Len(u) = n /\ \A k \in 1..n : u[k] = emitted[k]
  BY <1>1, <1>4, UndoubledIs
<1> HIDE DEF u
<1>6. IsPrefix(u, emitted)
  BY <1>1, <1>4, <1>5 DEF IsPrefix
<1>7. wire = <<>> => u = emitted
  <2> SUFFICES ASSUME wire = <<>> PROVE u = emitted
    OBVIOUS
  <2>1. Len(wire) = 0 /\ Len(buffer) <= 2 /\ Len(buffer) + Len(wire) = 3 * (Len(emitted) - c)
    BY <1>2 DEF Pending
  <2>2. c = Len(emitted)
    BY <1>1, <1>4, <2>1
  <2>3. n = Len(emitted)
    BY <1>1, <1>3, <1>4, <2>2
  <2> QED BY <1>1, <1>5, <2>3, SeqEqual
<1>8. Len(put) <= 2 * Len(u)
  <2>1. Len(put) <= c + n
    BY <1>2, <1>3
  <2> QED BY <1>1, <1>3, <1>4, <1>5, <2>1
<1> QED BY <1>6, <1>7, <1>8 DEF u

\* However reads cut the serial line, the lines sent are put on the queue in
\* order, none torn, none left out once it is read and none more than twice,
\* and a message is decoded with the fill bits of its last fragment
\* (aisChomp.py 145-170 and 340).
THEOREM ReadsKeepLines == Spec => []SerialLinesKept
<1>1. ReceiverInv => SerialLinesKept
  <2> SUFFICES ASSUME ReceiverInv, reader = "serial" PROVE SerialLinesKept
    BY DEF SerialLinesKept
  <2>1. TypeInv /\ LinesInv /\ FillInv
    BY DEF ReceiverInv
  <2> QED BY <2>1, KeptLines DEF SerialLinesKept, FillInv
<1> QED BY <1>1, ReceiverInvariant, PTL

==============================================================================
