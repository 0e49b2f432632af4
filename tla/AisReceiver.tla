------------------------------ MODULE AisReceiver ------------------------------
(***************************************************************************)
(* AIS/aisChomp.py with what it listens to: a device sends the sentences   *)
(* of its messages, one message after the other, over a serial line        *)
(* (AisSerial) or as datagrams, which are lost, repeated and reordered;    *)
(* the reader puts them on the queue of the thread Decrypt (AisDecrypt).   *)
(* The process may die, by a checksum that is no number for one, and is    *)
(* started again; what is sent meanwhile is lost.                          *)
(***************************************************************************)
EXTENDS AisSerial

CONSTANTS
  Readers,    \* what the program may be started with: "serial", "udp"
  MaxNow,     \* bound: the time
  MaxWire,    \* bound: lines that wait to be read
  MaxQueue,   \* bound: sentences that wait for Decrypt when one is read
  MaxFaults   \* bound: sentences cut or not received, datagrams lost or repeated, deaths

VARIABLES
  reader,     \* the argument --serial or --udp
  up,         \* the process lives
  sent,       \* sent[m]: fragments of m the device is done with
  net,        \* datagrams on their way
  faults,     \* faults so far
  emitted,    \* history: the sentences of the serial line, in order, since the start
  put         \* history: the sentences put on the queue, in order, since the start

deviceVars == <<sent, net, emitted, faults>>
serialVars == <<wire, buffer>>
outVars == <<partials, decoded, dropped>>
vars == <<reader, up, deviceVars, serialVars, queueIn, outVars, now, put>>

TypeOK ==
  /\ reader \in Readers /\ up \in BOOLEAN
  /\ sent \in [Messages -> Nat] /\ \A m \in Messages : sent[m] <= Parts[m]
  /\ net \subseteq Sentences
  /\ wire \in Seq(Tokens)
  /\ \E s \in Sentences : IsPrefix(buffer, LineOf(s))
  /\ queueIn \in Seq([t : Nat, body : Sentences])
  /\ DOMAIN partials \subseteq Idents
  /\ \A i \in DOMAIN partials : IsPartial(partials[i])

\* The first read may begin within a line.
Init ==
  /\ reader \in Readers /\ up = TRUE
  /\ sent = [m \in Messages |-> 0] /\ net = {}
  /\ \/ SerialInit(<<>>) /\ emitted = <<>> /\ faults = 0
     \/ /\ reader = "serial" /\ MaxFaults > 0
        /\ SerialInit(LineOf(Garbled)) /\ emitted = <<Garbled>> /\ faults = 1
  /\ queueIn = <<>> /\ DecryptInit
  /\ now = 0 /\ put = <<>>

------------------------------------------------------------------------------
(* The device *)

\* m is being sent, or nothing is and m may be next.
Turn(m) ==
  /\ sent[m] < Parts[m]
  /\ \A o \in Messages \ {m} : sent[o] \in {0, Parts[o]}

Transmit(m) ==
  /\ Turn(m)
  /\ sent' = [sent EXCEPT ![m] = @ + 1]
  /\ LET s == [msg |-> m, part |-> sent[m] + 1]
     IN IF ~up THEN UNCHANGED <<wire, emitted, net>>
        ELSE IF reader = "serial"
        THEN /\ Len(wire) <= 3 * (MaxWire - 1)
             /\ wire' = wire \o LineOf(s) /\ emitted' = Append(emitted, s)
             /\ UNCHANGED net
        ELSE net' = net \union {s} /\ UNCHANGED <<wire, emitted>>
  /\ UNCHANGED <<reader, up, faults, buffer, queueIn, outVars, now, put>>

\* The radio did not receive the fragment.
Miss(m) ==
  /\ Turn(m) /\ faults < MaxFaults
  /\ faults' = faults + 1
  /\ sent' = [sent EXCEPT ![m] = @ + 1]
  /\ UNCHANGED <<reader, up, net, serialVars, queueIn, outVars, now, emitted, put>>

Lose(s) ==
  /\ s \in net /\ faults < MaxFaults
  /\ faults' = faults + 1
  /\ net' = net \ {s}
  /\ UNCHANGED <<reader, up, sent, serialVars, queueIn, outVars, now, emitted, put>>

------------------------------------------------------------------------------
(* The readers *)

\* ReadUDP: a datagram is a sentence; it may come again.
Receive(s) ==
  /\ s \in net /\ Len(queueIn) < MaxQueue
  /\ \/ net' = net \ {s} /\ UNCHANGED faults
     \/ faults < MaxFaults /\ faults' = faults + 1 /\ UNCHANGED net
  /\ queueIn' = Append(queueIn, [t |-> now, body |-> s])
  /\ put' = Append(put, s)
  /\ UNCHANGED <<reader, up, sent, serialVars, outVars, now, emitted>>

\* ReadSerial
Read ==
  /\ reader = "serial" /\ Len(queueIn) < MaxQueue /\ ReadSerial
  /\ put' = put \o [i \in 1..(Len(queueIn') - Len(queueIn)) |-> queueIn'[Len(queueIn) + i].body]
  /\ UNCHANGED <<reader, up, deviceVars, outVars, now>>

TakeSentence ==
  /\ Decrypt
  /\ UNCHANGED <<reader, up, deviceVars, serialVars, now, put>>

Tick ==
  /\ now < MaxNow /\ now' = now + 1
  /\ UNCHANGED <<reader, up, deviceVars, serialVars, queueIn, outVars, put>>

Die ==
  /\ up /\ faults < MaxFaults
  /\ up' = FALSE /\ faults' = faults + 1
  /\ net' = {} /\ wire' = <<>> /\ buffer' = <<>> /\ Anew
  /\ emitted' = <<>> /\ put' = <<>>
  /\ UNCHANGED <<reader, sent>>

\* systemd; the line is opened anew, perhaps within a sentence.
Restart ==
  /\ ~up /\ up' = TRUE
  /\ \/ UNCHANGED <<wire, emitted>>
     \/ reader = "serial" /\ wire' = LineOf(Garbled) /\ emitted' = <<Garbled>>
  /\ UNCHANGED <<reader, sent, net, faults, buffer, queueIn, outVars, now, put>>

Next ==
  \/ \E m \in Messages : Transmit(m) \/ Miss(m)
  \/ \E s \in net : Lose(s) \/ Receive(s)
  \/ Read \/ TakeSentence \/ Tick \/ Die \/ Restart

Spec == Init /\ [][Next]_vars

\* The threads run, and systemd restarts the process.
FairSpec == Spec /\ WF_vars(\E s \in net : Receive(s)) /\ WF_vars(Read) /\ WF_vars(TakeSentence) /\ WF_vars(Restart)

------------------------------------------------------------------------------
(* Properties *)

\* Decrypt is what it is under any reader.
RefinesDecrypt == DecryptSpec

\* What is decoded is a message (aisChomp.py 357 "We are done").
DecodedWhole == \A d \in decoded : \E m \in Messages : Whole(d, m)

\* Where q does not only repeat its last element, and q without what does.
Firsts(q) == {i \in 1..Len(q) : i = 1 \/ q[i] # q[i - 1]}

Undoubled(q) == [k \in 1..Cardinality(Firsts(q)) |-> q[Nth(Firsts(q), k)]]

\* However reads cut the stream, the lines put on the queue are those sent, in
\* order, none torn and, once the line is read, none left out; a line comes
\* twice at most.  So the fragment of a message that came last, whose fill bits
\* it is decoded with, is its last fragment.
SerialLinesKept ==
  reader = "serial" =>
    /\ IsPrefix(Undoubled(put), emitted)
    /\ wire = <<>> => Undoubled(put) = emitted
    /\ Len(put) <= 2 * Len(Undoubled(put))
    /\ \A d \in decoded : Alone(d.fill.msg) => d.fill.part = Parts[d.fill.msg]

\* Again and again every message with a sequence number of its own, all of whose
\* fragments were read, has been decoded, unless one of them was aged out.
MessagesEventuallyDecoded ==
  []<>(\A m \in Messages :
         Alone(m) /\ (\A k \in 1..Parts[m] : Contains(put, [msg |-> m, part |-> k]))
           => m \in dropped \/ \E d \in decoded : Whole(d, m))

==============================================================================
