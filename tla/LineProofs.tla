----------------------------- MODULE LineProofs -----------------------------
(***************************************************************************)
(* Theorems about the line to L2: the L2 simulator at the end of it, and   *)
(* the stream of characters that either end cuts into telegrams.           *)
(***************************************************************************)
EXTENDS L2Simulator, Framing, SequenceTheorems, TLAPS

-----------------------------------------------------------------------------
(* The L2 simulator: whatever clients do, there is one sender of alives,   *)
(* and a client that is not handled beside another is served by it.        *)

(* Inductive: a client that is alone has no other handler to fear, and as  *)
(* long as it is received from, the shared state is its own.               *)
Served(c) == writer = c /\ connected /\ alive_task = c /\ alive[c] \in Sending

AloneInv ==
  \A c \in alone : /\ \A d \in Conns \ {c} : handler[d] = "none"
                   /\ running /\ handler[c] = "recv" => Served(c)

IInv == TypeOK /\ OneSender /\ AloneInv

(* Cancelling a task keeps the types and ends the sender it was. *)
LEMMA CancelLemma ==
  ASSUME TypeOK, OneSender
  PROVE  /\ Cancel(alive, alive_task) \in [Conns -> Sending \cup {"off", "cancelled"}]
         /\ \A c \in Conns : Cancel(alive, alive_task)[c] \notin Sending
  BY DEF TypeOK, OneSender, Cancel, Sending

LEMMA InitIInv == Init => IInv
  BY ConnsAssumption DEF Init, IInv, TypeOK, OneSender, AloneInv, Served, Sending

LEMMA NextIInv == IInv /\ [Next]_vars => IInv'
<1> SUFFICES ASSUME IInv, [Next]_vars PROVE IInv'
  OBVIOUS
<1> USE ConnsAssumption DEF IInv
<1>1. CASE Stop
  <2>1. TypeOK'
    BY <1>1, CancelLemma DEF Stop, TypeOK
  <2>2. OneSender'
    BY <1>1, CancelLemma DEF Stop, OneSender
  <2>3. AloneInv'
    BY <1>1 DEF Stop, AloneInv
  <2> QED
    BY <2>1, <2>2, <2>3
<1>2. ASSUME NEW c \in Conns, HandleClient(c) PROVE IInv'
  <2>1. TypeOK'
    BY <1>2, CancelLemma DEF HandleClient, TakeOver, TypeOK, Sending
  <2>2. OneSender'
    BY <1>2, CancelLemma DEF HandleClient, OneSender, Sending
  <2>3. alive'[c] = "sleep"
    BY <1>2, CancelLemma DEF HandleClient
  <2>4. \A a \in alone : a = c
    BY <1>2 DEF HandleClient, TakeOver, AloneInv
  <2>5. AloneInv'
    BY <1>2, <2>3, <2>4 DEF HandleClient, TakeOver, AloneInv, Served, TypeOK, Sending
  <2> QED
    BY <2>1, <2>2, <2>5
<1>3. ASSUME NEW c \in Conns, HandleClientLate(c) PROVE IInv'
  <2>1. TypeOK'
    BY <1>3, CancelLemma DEF HandleClientLate, Finally, TypeOK, Sending
  <2>2. OneSender'
    BY <1>3, CancelLemma DEF HandleClientLate, Finally, OneSender
  <2>3. AloneInv'
    BY <1>3 DEF HandleClientLate, Finally, AloneInv, TypeOK
  <2> QED
    BY <2>1, <2>2, <2>3
<1>4. ASSUME NEW c \in Conns, ReadFails(c) PROVE IInv'
  <2>1. TypeOK'
    BY <1>4 DEF ReadFails, Finally, TypeOK
  <2>2. OneSender'
    BY <1>4 DEF ReadFails, Finally, OneSender
  <2>3. \A a \in alone : a = c
    BY <1>4 DEF ReadFails, AloneInv
  <2>4. AloneInv'
    BY <1>4, <2>3 DEF ReadFails, Finally, AloneInv, TypeOK
  <2> QED
    BY <2>1, <2>2, <2>4
<1>5. ASSUME NEW c \in Conns, AliveWakes(c) PROVE IInv'
  <2>1. TypeOK'
    BY <1>5 DEF AliveWakes, AliveStep, TypeOK, Sending
  <2>2. OneSender'
    BY <1>5 DEF AliveWakes, AliveStep, OneSender, TypeOK, Sending
  <2>3. \A a \in alone : a # NoConn
    BY DEF TypeOK
  <2>4. AloneInv'
    BY <1>5, <2>3 DEF AliveWakes, AliveStep, AloneInv, Served, TypeOK, Sending
  <2> QED
    BY <2>1, <2>2, <2>4
<1>6. ASSUME NEW c \in Conns, AliveSent(c) PROVE IInv'
  <2>1. TypeOK'
    BY <1>6 DEF AliveSent, AliveStep, TypeOK, Sending
  <2>2. OneSender'
    BY <1>6 DEF AliveSent, AliveStep, OneSender, TypeOK, Sending
  <2>3. AloneInv'
    BY <1>6 DEF AliveSent, AliveStep, AloneInv, Served, TypeOK, Sending
  <2> QED
    BY <2>1, <2>2, <2>3
<1>7. ASSUME NEW c \in Conns, AliveCancelDelivered(c) PROVE IInv'
  <2>1. TypeOK'
    BY <1>7 DEF AliveCancelDelivered, AliveStep, TypeOK
  <2>2. OneSender'
    BY <1>7 DEF AliveCancelDelivered, AliveStep, OneSender, TypeOK, Sending
  <2>3. AloneInv'
    BY <1>7 DEF AliveCancelDelivered, AliveStep, AloneInv, Served, TypeOK, Sending
  <2> QED
    BY <2>1, <2>2, <2>3
<1>8. ASSUME NEW c \in Conns, Connect(c) PROVE IInv'
  <2>1. TypeOK'
    BY <1>8 DEF Connect, TypeOK
  <2>2. OneSender'
    BY <1>8 DEF Connect, OneSender
  <2>3. AloneInv'
    BY <1>8 DEF Connect, AloneInv, TypeOK
  <2> QED
    BY <2>1, <2>2, <2>3
<1>9. ASSUME NEW c \in Conns, LinkLost(c) PROVE IInv'
  <2>1. TypeOK' /\ OneSender'
    BY <1>9 DEF LinkLost, TypeOK, OneSender
  <2>2. AloneInv'
    BY <1>9 DEF LinkLost, AloneInv, Served
  <2> QED
    BY <2>1, <2>2
<1>10. CASE UNCHANGED vars
  BY <1>10 DEF vars, TypeOK, OneSender, AloneInv, Served
<1> QED
  BY <1>1, <1>2, <1>3, <1>4, <1>5, <1>6, <1>7, <1>8, <1>9, <1>10
     DEF Next, HandlerStep, AliveTaskStep

LEMMA Invariance == Spec => []IInv
  BY InitIInv, NextIInv, PTL DEF Spec

(* Every variable of the simulator keeps its type. *)
THEOREM TypeCorrect == Spec => []TypeOK
<1>1. IInv => TypeOK
  BY DEF IInv
<1> QED
  BY <1>1, Invariance, PTL

(* All senders but the last one made have been told to end, for any number *)
(* of clients and however their handlers overlap.                          *)
THEOREM SenderUnique == Spec => []OneSender
<1>1. IInv => OneSender
  BY DEF IInv
<1> QED
  BY <1>1, Invariance, PTL

(* A client that no other overlaps with is shown, written to and kept      *)
(* alive as long as it is received from.                                   *)
THEOREM ServiceCorrect == Spec => []ClientIsServed
<1>1. IInv => ClientIsServed
  BY DEF IInv, AloneInv, Served, ClientIsServed
<1> QED
  BY <1>1, Invariance, PTL

-----------------------------------------------------------------------------
(* The stream.  To the provers a string is an atom.  What the theorem      *)
(* assumes of strings is that they are sequences of characters, that a     *)
(* type code has four of them, and, of protocol.py, that what build()      *)
(* makes is understood by parse() as it is meant; Framing.cfg checks that  *)
(* for telegrams of every type.                                            *)
CharacterLayer(Chars) ==
  /\ Empty = <<>>
  /\ \A code \in Known : code \in Seq(Chars) /\ Len(code) = 4
  /\ \A s \in Sendable \cup Foreign : WireOf(s) \in Seq(Chars)
  /\ \A s \in Sendable : s.tc \in Known
  /\ \A s \in Sendable : WireOf(s) # NotBuilt => Understood(WireOf(s)) = Meant(s)

(* Where entry i of sent begins and which telegram it is, also for the     *)
(* entry that will be written next.                                        *)
At(i)  == IF i <= Len(sent) THEN sent[i].at ELSE consumed + Len(stream)
Nth(i) == IF i <= Len(sent) THEN sent[i].nth ELSE Len(told) + 1

Entries(Chars) == [of : Sendable \cup Foreign, wire : Seq(Chars), at : Nat, nth : Nat \ {0}]

StreamTypeOK(Chars) ==
  /\ sent \in Seq(Entries(Chars))
  /\ \A i \in 1..Len(sent) : sent[i].wire = WireOf(sent[i].of) /\ sent[i].wire # NotBuilt
  /\ stream \in Seq(Chars)
  /\ arrived \in 0..Len(stream)
  /\ tc \in Known \cup {NoCode}
  /\ got \in Seq(Seq(Chars))
  /\ consumed \in Nat
  /\ told \in Seq({Meant(s) : s \in Sendable})

(* The entries lie one after the other. *)
Positions ==
  /\ At(1) = 0 /\ Nth(1) = 1
  /\ \A i \in 1..Len(sent) : /\ At(i + 1) = At(i) + Len(sent[i].wire)
                             /\ Nth(i + 1) = IF IsTelegram(sent[i].of) THEN Nth(i) + 1 ELSE Nth(i)
  /\ \A i \in 1..Len(sent) + 1 : Nth(i) <= Len(told) + 1
  /\ \A i \in 1..Len(sent) : At(i) + Len(sent[i].wire) <= consumed + Len(stream)

(* What is not consumed is in the stream, at its place. *)
Contents ==
  \A i \in 1..Len(sent) :
    /\ \A k \in 1..Len(sent[i].wire) :
         At(i) + k > consumed => stream[At(i) + k - consumed] = sent[i].wire[k]
    /\ IsTelegram(sent[i].of) => Nth(i) <= Len(told) /\ told[Nth(i)] = Meant(sent[i].of)

(* The receiver is k words into entry i and has got the telegrams before   *)
(* it: it waits for a code at a boundary, for the rest of a telegram, or   *)
(* for a word of a record it skips.                                        *)
Reading(i, k) ==
  /\ consumed = At(i) + 4 * k /\ Len(got) = Nth(i) - 1
  /\ \/ tc = NoCode /\ k = 0
     \/ /\ i <= Len(sent) /\ 4 * k < Len(sent[i].wire)
        /\ IF IsTelegram(sent[i].of) THEN k = 1 /\ tc = sent[i].of.tc
           ELSE Harmless(sent[i]) /\ tc = NoCode

InStep == OutOfStep \/ \E i \in 1..Len(sent) + 1, k \in Nat : Reading(i, k)

StreamInv(Chars) == StreamTypeOK(Chars) /\ Positions /\ Contents /\ InStep

(* The type codes, of protocol.py. *)
LEMMA CodesLemma ==
  /\ NoCode \notin Known
  /\ \A code \in Known : TC_LENGTHS[code] \in Nat /\ TC_LENGTHS[code] > 4
<1>1. /\ TC_LENGTHS["1001"] = 128 /\ TC_LENGTHS["1002"] = 256 /\ TC_LENGTHS["1010"] = 576
      /\ TC_LENGTHS["1099"] = 64 /\ TC_LENGTHS["1101"] = 72 /\ TC_LENGTHS["1199"] = 52
  BY DEF TC_LENGTHS, Known
<1> QED
  BY <1>1 DEF NoCode, Known

(* build() asserts the length of a telegram of its type. *)
LEMMA LengthLemma ==
  ASSUME NEW s \in Sendable, WireOf(s) # NotBuilt
  PROVE  Len(WireOf(s)) = TC_LENGTHS[s.tc]
BY DEF WireOf, IsTelegram, Build
(* What w[a:b] is, within w. *)
LEMMA CutLemma ==
  ASSUME NEW S, NEW w \in Seq(S), NEW a \in Nat, NEW b \in Nat, a <= b, b <= Len(w)
  PROVE  /\ Cut(w, a, b) \in Seq(S) /\ Len(Cut(w, a, b)) = b - a
         /\ \A m \in 1..(b - a) : Cut(w, a, b)[m] = w[a + m]
<1>1. \A i \in (a + 1)..b : w[i] \in S
  OBVIOUS
<1>2. a + 1 \in Int /\ b \in Int /\ b - (a + 1) + 1 = b - a
  OBVIOUS
<1>3. /\ SubSeq(w, a + 1, b) \in Seq(S)
      /\ Len(SubSeq(w, a + 1, b)) = IF a + 1 <= b THEN b - (a + 1) + 1 ELSE 0
      /\ \A m \in 1..(b - (a + 1) + 1) : SubSeq(w, a + 1, b)[m] = w[(a + 1) + m - 1]
  BY <1>1, <1>2, SubSeqProperties
<1>4. \A m \in 1..(b - a) : (a + 1) + m - 1 = a + m
  OBVIOUS
<1> QED
  BY <1>2, <1>3, <1>4 DEF Cut

(* The parts of the entries and their places have their types. *)
LEMMA EntryLemma ==
  ASSUME NEW Chars, StreamTypeOK(Chars)
  PROVE  /\ Len(sent) \in Nat
         /\ \A i \in 1..Len(sent) :
              /\ sent[i].of \in Sendable \cup Foreign /\ sent[i].wire \in Seq(Chars)
              /\ Len(sent[i].wire) \in Nat
         /\ \A i \in 1..Len(sent) + 1 : At(i) \in Nat /\ Nth(i) \in Nat \ {0}
<1>1. Len(sent) \in Nat /\ Len(stream) \in Nat /\ Len(told) \in Nat /\ consumed \in Nat
  BY DEF StreamTypeOK
<1>2. ASSUME NEW i \in 1..Len(sent)
      PROVE  /\ sent[i].of \in Sendable \cup Foreign /\ sent[i].wire \in Seq(Chars)
             /\ sent[i].at \in Nat /\ sent[i].nth \in Nat \ {0}
  <2>1. sent[i] \in Entries(Chars)
    BY DEF StreamTypeOK
  <2> QED
    BY <2>1 DEF Entries
<1> QED
  BY <1>1, <1>2 DEF At, Nth

(* What is read next is what comes next in the entry that is read.          *)
LEMMA PrefixLemma ==
  ASSUME NEW Chars, StreamTypeOK(Chars), Contents, Positions,
         NEW i \in 1..Len(sent), NEW p \in Nat, NEW n \in Nat,
         consumed = At(i) + p, p + n <= Len(sent[i].wire)
  PROVE  n <= Len(stream) /\ Cut(stream, 0, n) = Cut(sent[i].wire, p, p + n)
<1> DEFINE w == sent[i].wire
<1>1. w \in Seq(Chars) /\ At(i) \in Nat /\ stream \in Seq(Chars) /\ consumed \in Nat /\ Len(w) \in Nat
  <2>1. At(i) \in Nat /\ w \in Seq(Chars) /\ Len(w) \in Nat
    BY EntryLemma
  <2>2. stream \in Seq(Chars) /\ consumed \in Nat
    BY DEF StreamTypeOK
  <2> QED
    BY <2>1, <2>2
<1>2. n <= Len(stream)
  BY <1>1 DEF Positions
<1>3. \A m \in 1..n : stream[m] = w[p + m]
  <2> TAKE m \in 1..n
  <2>1. p + m \in 1..Len(w) /\ At(i) + (p + m) > consumed /\ At(i) + (p + m) - consumed = m
    BY <1>1
  <2> QED
    BY <2>1 DEF Contents
<1>4. p + n <= Len(w)
  OBVIOUS
<1> HIDE DEF w
<1>5. /\ Len(Cut(stream, 0, n)) = n /\ Cut(stream, 0, n) \in Seq(Chars)
      /\ \A m \in 1..n : Cut(stream, 0, n)[m] = stream[m]
  <2>1. 0 \in Nat /\ 0 <= n /\ n - 0 = n /\ \A m \in 1..n : 0 + m = m
    OBVIOUS
  <2>2. /\ Cut(stream, 0, n) \in Seq(Chars) /\ Len(Cut(stream, 0, n)) = n - 0
        /\ \A m \in 1..(n - 0) : Cut(stream, 0, n)[m] = stream[0 + m]
    BY <2>1, <1>1, <1>2, CutLemma
  <2> QED
    BY <2>1, <2>2
<1>6. /\ Len(Cut(w, p, p + n)) = n /\ Cut(w, p, p + n) \in Seq(Chars)
      /\ \A m \in 1..n : Cut(w, p, p + n)[m] = w[p + m]
  <2>1. p + n \in Nat /\ p <= p + n /\ (p + n) - p = n
    OBVIOUS
  <2>2. /\ Cut(w, p, p + n) \in Seq(Chars) /\ Len(Cut(w, p, p + n)) = (p + n) - p
        /\ \A m \in 1..((p + n) - p) : Cut(w, p, p + n)[m] = w[p + m]
    BY <2>1, <1>1, <1>4, CutLemma
  <2> QED
    BY <2>1, <2>2
<1>7. Cut(stream, 0, n) = Cut(w, p, p + n)
  BY <1>3, <1>5, <1>6, SeqEqual
<1> QED
  BY <1>2, <1>7 DEF w
(* Consuming characters moves nothing that is left. *)
LEMMA ConsumeLemma ==
  ASSUME NEW Chars, StreamTypeOK(Chars), Positions, Contents,
         NEW n \in Nat, Consume(n), UNCHANGED <<sent, told>>
  PROVE  /\ stream' \in Seq(Chars) /\ arrived' \in 0..Len(stream')
         /\ consumed' = consumed + n /\ consumed' \in Nat
         /\ \A i \in 1..Len(sent) + 1 : At(i)' = At(i) /\ Nth(i)' = Nth(i)
         /\ Positions' /\ Contents'
<1>1. /\ stream \in Seq(Chars) /\ Len(stream) \in Nat /\ consumed \in Nat
      /\ arrived \in Nat /\ n <= arrived /\ arrived <= Len(stream)
      /\ stream' = Cut(stream, n, Len(stream)) /\ arrived' = arrived - n /\ consumed' = consumed + n
  BY DEF StreamTypeOK, Consume
<1>2. /\ stream' \in Seq(Chars) /\ Len(stream') = Len(stream) - n
      /\ \A m \in 1..(Len(stream) - n) : stream'[m] = stream[n + m]
  <2>1. n <= Len(stream) /\ Len(stream) <= Len(stream)
    BY <1>1
  <2> QED
    BY <1>1, <2>1, CutLemma
<1>3. Len(sent) \in Nat /\ sent' = sent /\ told' = told
  BY EntryLemma
<1>4. \A i \in 1..Len(sent) + 1 : At(i)' = At(i) /\ Nth(i)' = Nth(i)
  BY <1>1, <1>2, <1>3 DEF At, Nth
<1>5. \A i \in 1..Len(sent) + 1 : At(i) \in Nat /\ Nth(i) \in Nat \ {0}
  BY EntryLemma
<1>6. \A i \in 1..Len(sent) : Len(sent[i].wire) \in Nat
  BY EntryLemma
<1>7. Positions'
  <2>1. 1 \in 1..Len(sent) + 1 /\ \A i \in 1..Len(sent) : i \in 1..Len(sent) + 1 /\ i + 1 \in 1..Len(sent) + 1
    BY <1>3
  <2>2. consumed' + Len(stream') = consumed + Len(stream)
    BY <1>1, <1>2
  <2> QED
    BY <1>3, <1>4, <2>1, <2>2 DEF Positions
<1>8. Contents'
  <2> SUFFICES ASSUME NEW i \in 1..Len(sent)
               PROVE  /\ \A k \in 1..Len(sent[i].wire) :
                           At(i)' + k > consumed' => stream'[At(i)' + k - consumed'] = sent[i].wire[k]
                      /\ IsTelegram(sent[i].of) => Nth(i)' <= Len(told) /\ told[Nth(i)'] = Meant(sent[i].of)
    BY <1>3 DEF Contents
  <2>1. i \in 1..Len(sent) + 1 /\ At(i)' = At(i) /\ Nth(i)' = Nth(i) /\ At(i) \in Nat
    BY <1>3, <1>4, <1>5
  <2>2. ASSUME NEW k \in 1..Len(sent[i].wire), At(i) + k > consumed + n
        PROVE  stream'[At(i) + k - (consumed + n)] = sent[i].wire[k]
    <3>1. At(i) + Len(sent[i].wire) <= consumed + Len(stream)
      BY DEF Positions
    <3> DEFINE a == At(i)
               l == Len(sent[i].wire)
    <3>2. a \in Nat /\ l \in Nat /\ k \in 1..l /\ a + k > consumed + n /\ a + l <= consumed + Len(stream)
      BY <1>6, <2>1, <2>2, <3>1
    <3> HIDE DEF a, l
    <3>3. a + k - (consumed + n) \in 1..(Len(stream) - n) /\ a + k > consumed
          /\ n + (a + k - (consumed + n)) = a + k - consumed
      BY <1>1, <3>2
    <3>4. At(i) + k - (consumed + n) \in 1..(Len(stream) - n) /\ At(i) + k > consumed
          /\ n + (At(i) + k - (consumed + n)) = At(i) + k - consumed
      BY <3>3 DEF a
    <3>5. stream[At(i) + k - consumed] = sent[i].wire[k]
      BY <3>4 DEF Contents
    <3> QED
      BY <1>2, <3>4, <3>5
  <2>3. IsTelegram(sent[i].of) => Nth(i) <= Len(told) /\ told[Nth(i)] = Meant(sent[i].of)
    BY DEF Contents
  <2> QED
    BY <1>1, <2>1, <2>2, <2>3
<1>9. consumed' \in Nat /\ arrived' \in 0..Len(stream')
  BY <1>1, <1>2
<1> QED
  BY <1>1, <1>2, <1>4, <1>7, <1>8, <1>9

(* Once out of step, the receiver stays so until the next connection.      *)
LEMMA BrokenLemma ==
  ASSUME NEW Chars, StreamTypeOK(Chars), [StreamNext]_streamVars, OutOfStep, ~ReadEnds, CharacterLayer(Chars)
  PROVE  OutOfStep'
<1>1. Len(sent) \in Nat /\ consumed \in Nat /\ \A i \in 1..Len(sent) : sent[i].at \in Nat
  <2>1. \A i \in 1..Len(sent) : sent[i] \in Entries(Chars)
    BY DEF StreamTypeOK
  <2> QED
    BY <2>1 DEF Entries, StreamTypeOK
<1>2. PICK i \in 1..Len(sent) : ~Harmless(sent[i]) /\ consumed > sent[i].at
  BY DEF OutOfStep
<1>3. CASE sent' = sent /\ consumed' \in Nat /\ consumed' >= consumed
  BY <1>1, <1>2, <1>3 DEF OutOfStep
<1>4. ASSUME NEW s \in Sendable \cup Foreign, Write(s) PROVE OutOfStep'
  <2>1. Len(sent') = Len(sent) + 1 /\ sent'[i] = sent[i] /\ consumed' = consumed
    BY <1>2, <1>4, AppendProperties DEF Write, StreamTypeOK
  <2> QED
    BY <1>1, <1>2, <2>1 DEF OutOfStep
<1>5. ASSUME NEW n \in Nat, Consume(n) PROVE consumed' \in Nat /\ consumed' >= consumed
  BY <1>1, <1>5 DEF Consume
<1>6. CASE ReadCode
  BY <1>3, <1>5, <1>6 DEF ReadCode
<1>7. CASE ReadRest
  <2>1. TC_LENGTHS[tc] - 4 \in Nat
    BY <1>7, CodesLemma DEF ReadRest, StreamTypeOK
  <2> QED
    BY <1>3, <1>5, <1>7, <2>1 DEF ReadRest
<1>8. CASE (\E n \in Arrivals : Arrive(n)) \/ Lose \/ UNCHANGED streamVars
  <2>1. sent' = sent /\ consumed' = consumed
    BY <1>8 DEF Arrive, Lose, streamVars
  <2> QED
    BY <1>1, <1>3, <2>1
<1> QED
  BY <1>4, <1>6, <1>7, <1>8 DEF StreamNext
(* Writing adds an entry at the end and nothing else.                      *)
LEMMA WriteLemma ==
  ASSUME NEW Chars, CharacterLayer(Chars), StreamTypeOK(Chars), Positions, Contents,
         NEW s \in Sendable \cup Foreign, Write(s)
  PROVE  /\ StreamTypeOK(Chars)'
         /\ \A i \in 1..Len(sent) + 1 : At(i)' = At(i) /\ Nth(i)' = Nth(i)
         /\ Positions' /\ Contents'
<1> DEFINE w == WireOf(s)
<1>0. PICK n \in Nat : n = Len(sent) + 1
  BY DEF StreamTypeOK
<1>1. /\ w \in Seq(Chars) /\ Len(w) \in Nat /\ w # NotBuilt
      /\ stream \in Seq(Chars) /\ Len(stream) \in Nat
      /\ consumed \in Nat /\ told \in Seq({Meant(t) : t \in Sendable}) /\ Len(told) \in Nat
      /\ n \in Nat \ {0} /\ Len(sent) \in Nat /\ n = Len(sent) + 1
  BY <1>0 DEF CharacterLayer, StreamTypeOK, Write
<1>2. /\ stream' = stream \o w /\ stream' \in Seq(Chars)
      /\ Len(stream') = Len(stream) + Len(w)
      /\ \A m \in 1..Len(stream) + Len(w) :
           stream'[m] = IF m <= Len(stream) THEN stream[m] ELSE w[m - Len(stream)]
  BY <1>1, ConcatProperties DEF Write
<1>3. /\ told' \in Seq({Meant(t) : t \in Sendable})
      /\ Len(told') = IF IsTelegram(s) THEN Len(told) + 1 ELSE Len(told)
      /\ \A m \in 1..Len(told) : told'[m] = told[m]
      /\ IsTelegram(s) => told'[Len(told) + 1] = Meant(s)
  <2>1. CASE IsTelegram(s)
    <3>1. Meant(s) \in {Meant(t) : t \in Sendable} /\ told' = Append(told, Meant(s))
      BY <2>1 DEF IsTelegram, Write
    <3> QED
      BY <1>1, <2>1, <3>1, AppendProperties
  <2>2. CASE ~IsTelegram(s)
    BY <1>1, <2>2 DEF Write
  <2> QED
    BY <2>1, <2>2
<1>4. /\ Entry(s) \in Entries(Chars)
      /\ Entry(s).of = s /\ Entry(s).wire = w
      /\ Entry(s).at = consumed + Len(stream) /\ Entry(s).nth = Len(told) + 1
  BY <1>1 DEF Entry, Entries
<1>5. /\ sent' \in Seq(Entries(Chars)) /\ Len(sent') = n
      /\ \A i \in 1..Len(sent) : sent'[i] = sent[i]
      /\ sent'[n] = Entry(s)
  <2>1. sent \in Seq(Entries(Chars)) /\ sent' = Append(sent, Entry(s))
    BY DEF StreamTypeOK, Write
  <2> QED
    BY <1>1, <1>4, <2>1, AppendProperties
<1>6. arrived' = arrived /\ tc' = tc /\ got' = got /\ consumed' = consumed
  BY DEF Write
<1> HIDE DEF w
<1>7. StreamTypeOK(Chars)'
  <2>1. \A i \in 1..Len(sent') : sent'[i].wire = WireOf(sent'[i].of) /\ sent'[i].wire # NotBuilt
    <3>1. \A i \in 1..Len(sent) : sent'[i].wire = WireOf(sent'[i].of) /\ sent'[i].wire # NotBuilt
      BY <1>5 DEF StreamTypeOK
    <3>2. sent'[n].wire = WireOf(sent'[n].of) /\ sent'[n].wire # NotBuilt
      BY <1>1, <1>4, <1>5 DEF w
    <3>3. \A i \in 1..Len(sent') : i \in 1..Len(sent) \/ i = n
      BY <1>1, <1>5
    <3> QED
      BY <3>1, <3>2, <3>3
  <2>2. arrived' \in 0..Len(stream')
    BY <1>1, <1>2, <1>6 DEF StreamTypeOK
  <2> QED
    BY <1>2, <1>3, <1>5, <1>6, <2>1, <2>2 DEF StreamTypeOK
<1>8. \A i \in 1..Len(sent) + 1 : At(i) \in Nat /\ Nth(i) \in Nat \ {0}
  BY EntryLemma
<1>9. \A i \in 1..n : At(i)' = At(i) /\ Nth(i)' = Nth(i)
  <2>1. \A i \in 1..Len(sent) : At(i)' = At(i) /\ Nth(i)' = Nth(i)
    BY <1>1, <1>5 DEF At, Nth
  <2>2. At(n)' = At(n) /\ Nth(n)' = Nth(n)
    BY <1>1, <1>4, <1>5 DEF At, Nth
  <2>3. \A i \in 1..n : i \in 1..Len(sent) \/ i = n
    BY <1>1
  <2> QED
    BY <2>1, <2>2, <2>3
<1>10. /\ At(n) = consumed + Len(stream) /\ Nth(n) = Len(told) + 1
       /\ At(n + 1)' = consumed + Len(stream) + Len(w) /\ Nth(n + 1)' = Len(told') + 1
  BY <1>1, <1>2, <1>3, <1>5, <1>6 DEF At, Nth
<1>11. \A i \in 1..Len(sent) : Len(sent[i].wire) \in Nat
  BY EntryLemma
<1>12. Positions'
  <2>1. At(1)' = 0 /\ Nth(1)' = 1
    BY <1>1, <1>9 DEF Positions
  <2>2. ASSUME NEW i \in 1..n
        PROVE  /\ At(i + 1)' = At(i)' + Len(sent'[i].wire)
               /\ Nth(i + 1)' = IF IsTelegram(sent'[i].of) THEN Nth(i)' + 1 ELSE Nth(i)'
    <3>1. CASE i \in 1..Len(sent)
      <4>1. i + 1 \in 1..n /\ sent'[i] = sent[i]
        BY <1>1, <1>5, <3>1
      <4> QED
        BY <1>9, <3>1, <4>1 DEF Positions
    <3>2. CASE i = n
      BY <1>3, <1>4, <1>5, <1>9, <1>10, <3>2
    <3> QED
      BY <1>1, <3>1, <3>2
  <2>3. ASSUME NEW i \in 1..n + 1 PROVE Nth(i)' <= Len(told') + 1
    <3>1. CASE i \in 1..n
      <4>1. Nth(i)' = Nth(i) /\ Nth(i) <= Len(told) + 1 /\ Nth(i) \in Nat
        BY <1>1, <1>8, <1>9, <3>1 DEF Positions
      <4> QED
        BY <1>1, <1>3, <4>1
    <3>2. CASE i = n + 1
      BY <1>1, <1>3, <1>10, <3>2
    <3> QED
      BY <1>1, <3>1, <3>2
  <2>4. ASSUME NEW i \in 1..n PROVE At(i)' + Len(sent'[i].wire) <= consumed' + Len(stream')
    <3>1. CASE i \in 1..Len(sent)
      <4>1. /\ At(i) + Len(sent[i].wire) <= consumed + Len(stream)
            /\ At(i)' = At(i) /\ At(i) \in Nat /\ sent'[i] = sent[i] /\ Len(sent[i].wire) \in Nat
        BY <1>5, <1>8, <1>9, <1>11, <3>1 DEF Positions
      <4> QED
        BY <1>1, <1>2, <1>6, <4>1
    <3>2. CASE i = n
      <4>1. At(i)' = consumed + Len(stream) /\ sent'[i].wire = w
        BY <1>1, <1>4, <1>5, <1>9, <1>10, <3>2
      <4> QED
        BY <1>1, <1>2, <1>6, <4>1
    <3> QED
      BY <1>1, <3>1, <3>2
  <2> QED
    BY <1>5, <2>1, <2>2, <2>3, <2>4 DEF Positions
<1>13. Contents'
  <2> SUFFICES ASSUME NEW i \in 1..n
               PROVE  /\ \A k \in 1..Len(sent'[i].wire) :
                           At(i)' + k > consumed' => stream'[At(i)' + k - consumed'] = sent'[i].wire[k]
                      /\ IsTelegram(sent'[i].of) =>
                           Nth(i)' <= Len(told') /\ told'[Nth(i)'] = Meant(sent'[i].of)
    BY <1>5 DEF Contents
  <2>1. CASE i \in 1..Len(sent)
    <3>1. At(i)' = At(i) /\ Nth(i)' = Nth(i) /\ sent'[i] = sent[i] /\ At(i) \in Nat /\ Nth(i) \in Nat \ {0}
      BY <1>5, <1>8, <1>9, <2>1
    <3>2. ASSUME NEW k \in 1..Len(sent[i].wire), At(i) + k > consumed
          PROVE  stream'[At(i) + k - consumed] = sent[i].wire[k]
      <4> DEFINE a == At(i)
                 l == Len(sent[i].wire)
      <4>1. a \in Nat /\ l \in Nat /\ k \in 1..l /\ a + k > consumed /\ a + l <= consumed + Len(stream)
        BY <1>11, <2>1, <3>1, <3>2 DEF Positions
      <4> HIDE DEF a, l
      <4>2. a + k - consumed \in 1..Len(stream)
        BY <1>1, <4>1
      <4>3. a + k - consumed \in 1..Len(stream) + Len(w) /\ a + k - consumed <= Len(stream)
        BY <1>1, <4>2
      <4>4. stream'[a + k - consumed] = stream[a + k - consumed]
        BY <1>2, <4>3
      <4>5. stream[At(i) + k - consumed] = sent[i].wire[k]
        BY <2>1, <3>2 DEF Contents
      <4> QED
        BY <4>4, <4>5 DEF a
    <3>3. ASSUME IsTelegram(sent[i].of)
          PROVE  Nth(i) <= Len(told') /\ told'[Nth(i)] = Meant(sent[i].of)
      <4>1. Nth(i) <= Len(told) /\ told[Nth(i)] = Meant(sent[i].of)
        BY <2>1, <3>3 DEF Contents
      <4>2. Nth(i) \in 1..Len(told)
        BY <1>1, <3>1, <4>1
      <4> QED
        BY <1>1, <1>3, <4>1, <4>2
    <3> QED
      BY <1>6, <3>1, <3>2, <3>3
  <2>2. CASE i = n
    <3>1. /\ At(i)' = consumed + Len(stream) /\ Nth(i)' = Len(told) + 1
          /\ sent'[i].wire = w /\ sent'[i].of = s
      BY <1>4, <1>5, <1>9, <1>10, <2>2
    <3>2. ASSUME NEW k \in 1..Len(w)
          PROVE  stream'[consumed + Len(stream) + k - consumed] = w[k]
      <4>1. /\ consumed + Len(stream) + k - consumed = Len(stream) + k
            /\ Len(stream) + k \in 1..Len(stream) + Len(w)
            /\ ~(Len(stream) + k <= Len(stream)) /\ Len(stream) + k - Len(stream) = k
        BY <1>1
      <4> QED
        BY <1>2, <4>1
    <3>3. IsTelegram(s) => Len(told) + 1 <= Len(told') /\ told'[Len(told) + 1] = Meant(s)
      BY <1>1, <1>3
    <3> QED
      BY <1>6, <3>1, <3>2, <3>3
  <2> QED
    BY <1>1, <2>1, <2>2
<1> QED
  BY <1>1, <1>7, <1>9, <1>12, <1>13
(* How the abstract channel moves: not at all while the receiver is out of *)
(* step, and by Break when it gets so.                                     *)
LEMMA OutOfStepLemma ==
  ASSUME OutOfStep'
  PROVE  [Channel!Next]_Channel!vars
<1>1. CASE OutOfStep
  <2>1. OutOfStep' = OutOfStep
    BY <1>1 DEF OutOfStep
  <2>2. Pending' = Pending /\ Delivered' = Delivered
    BY <1>1 DEF Pending, Delivered
  <2> QED
    BY <2>1, <2>2 DEF Channel!vars
<1>2. CASE ~OutOfStep
  <2>1. Pending' = <<>> /\ Delivered' = <<>>
    BY DEF Pending, Delivered
  <2> QED
    BY <1>2, <2>1 DEF Channel!Next, Channel!Break
<1> QED
  BY <1>1, <1>2

(* What the channel holds as long as the receiver is in step. *)
LEMMA InStepLemma ==
  ASSUME ~OutOfStep, ~OutOfStep'
  PROVE  /\ OutOfStep' = OutOfStep
         /\ Pending = SubSeq(told, Len(got) + 1, Len(told))
         /\ Pending' = SubSeq(told', Len(got') + 1, Len(told'))
         /\ Delivered = [i \in 1..Len(got) |-> Understood(got[i])]
         /\ Delivered' = [i \in 1..Len(got') |-> Understood(got'[i])]
<1>1. OutOfStep' = OutOfStep
  BY DEF OutOfStep
<1> QED
  BY <1>1 DEF Pending, Delivered

(* A step that neither writes nor delivers a telegram is none of the channel. *)
LEMMA StutterLemma ==
  ASSUME ~OutOfStep, ~OutOfStep', got' = got, told' = told
  PROVE  [Channel!Next]_Channel!vars
<1>1. Pending' = Pending /\ Delivered' = Delivered /\ OutOfStep' = OutOfStep
  BY InStepLemma
<1> QED
  BY <1>1 DEF Channel!vars

(* A telegram written is one sent ... *)
LEMMA SendLemma ==
  ASSUME NEW S, told \in Seq(S), NEW x \in S, Len(got) \in Nat, Len(got) <= Len(told),
         ~OutOfStep, ~OutOfStep', got' = got, told' = Append(told, x)
  PROVE  [Channel!Next]_Channel!vars
<1> DEFINE p == SubSeq(told, Len(got) + 1, Len(told))
           q == SubSeq(told', Len(got) + 1, Len(told'))
<1>0. Pending = p /\ Pending' = q /\ Delivered' = Delivered /\ OutOfStep' = OutOfStep
  BY InStepLemma
<1>1. Len(told) \in Nat /\ told' \in Seq(S) /\ Len(told') = Len(told) + 1
      /\ \A i \in 1..Len(told) : told'[i] = told[i]
  BY AppendProperties
<1>2. /\ p \in Seq(S) /\ Len(p) = Len(told) - Len(got)
      /\ \A i \in 1..(Len(told) - Len(got)) : p[i] = told[Len(got) + i]
  BY <1>1, CutLemma DEF Cut
<1>3. /\ q \in Seq(S) /\ Len(q) = Len(told') - Len(got)
      /\ \A i \in 1..(Len(told') - Len(got)) : q[i] = told'[Len(got) + i]
  <2>1. Len(got) <= Len(told') /\ Len(told') \in Nat /\ Len(told') <= Len(told')
    BY <1>1
  <2> QED
    BY <1>1, <2>1, CutLemma DEF Cut
<1> HIDE DEF p, q
<1>4. Len(q) = Len(p) + 1
  BY <1>1, <1>2, <1>3
<1>5. SubSeq(q, 1, Len(p)) = p
  <2>1. /\ SubSeq(q, 1, Len(p)) \in Seq(S) /\ Len(SubSeq(q, 1, Len(p))) = Len(p) - 0
        /\ \A i \in 1..(Len(p) - 0) : SubSeq(q, 1, Len(p))[i] = q[0 + i]
    <3>1. 0 \in Nat /\ Len(p) \in Nat /\ 0 <= Len(p) /\ Len(p) <= Len(q) /\ 0 + 1 = 1
      BY <1>2, <1>3, <1>4
    <3>2. /\ Cut(q, 0, Len(p)) \in Seq(S) /\ Len(Cut(q, 0, Len(p))) = Len(p) - 0
          /\ \A i \in 1..(Len(p) - 0) : Cut(q, 0, Len(p))[i] = q[0 + i]
      BY <1>3, <3>1, CutLemma
    <3> QED
      BY <3>1, <3>2 DEF Cut
  <2>2. \A i \in 1..Len(p) : q[i] = p[i]
    <3> TAKE i \in 1..Len(p)
    <3>1. /\ i \in 1..(Len(told) - Len(got)) /\ i \in 1..(Len(told') - Len(got))
          /\ Len(got) + i \in 1..Len(told)
      BY <1>1, <1>2
    <3> QED
      BY <1>1, <1>2, <1>3, <3>1
  <2>3. Len(p) - 0 = Len(p) /\ \A i \in 1..Len(p) : 0 + i = i
    BY <1>2
  <2> QED
    BY <1>2, <2>1, <2>2, <2>3, SeqEqual
<1>6. Channel!Send
  BY <1>0, <1>4, <1>5 DEF Channel!Send
<1> QED
  BY <1>6 DEF Channel!Next

(* ... and one got is the next delivered, if it is understood as that one. *)
LEMMA DeliverLemma ==
  ASSUME NEW S, told \in Seq(S), NEW T, got \in Seq(T), NEW x \in T, Len(got) < Len(told),
         ~OutOfStep, ~OutOfStep', got' = Append(got, x), told' = told,
         Understood(x) = told[Len(got) + 1]
  PROVE  [Channel!Next]_Channel!vars
<1> DEFINE p == SubSeq(told, Len(got) + 1, Len(told))
           d == [i \in 1..Len(got) |-> Understood(got[i])]
<1>0. /\ Pending = p /\ Pending' = SubSeq(told', Len(got') + 1, Len(told'))
      /\ Delivered = d /\ Delivered' = [i \in 1..Len(got') |-> Understood(got'[i])]
      /\ OutOfStep' = OutOfStep
  BY InStepLemma
<1>1. Len(told) \in Nat /\ Len(got) \in Nat /\ Len(got') = Len(got) + 1
      /\ (\A i \in 1..Len(got) : got'[i] = got[i]) /\ got'[Len(got) + 1] = x
  BY AppendProperties
<1>2. Head(p) = told[Len(got) + 1] /\ Tail(p) = SubSeq(told, Len(got) + 2, Len(told))
  <2>1. Len(got) + 1 \in 1..Len(told) /\ Len(told) \in Len(got) + 1..Len(told) /\ Len(got) + 1 + 1 = Len(got) + 2
    BY <1>1
  <2> QED
    BY <2>1, HeadTailOfSubSeq
<1>3. p # <<>>
  <2>1. Len(p) = Len(told) - Len(got)
    BY <1>1, CutLemma DEF Cut
  <2> QED
    BY <1>1, <2>1
<1>4. Tail(p) = SubSeq(told', Len(got') + 1, Len(told'))
  <2>1. Len(got') + 1 = Len(got) + 2
    BY <1>1
  <2> QED
    BY <1>2, <2>1
<1>5. [i \in 1..Len(got') |-> Understood(got'[i])] = Append(d, Head(p))
  <2>1. d \in Seq({Understood(y) : y \in T}) /\ Len(d) = Len(got) /\ Understood(x) \in {Understood(y) : y \in T}
    BY <1>1
  <2>2. /\ Len(Append(d, Understood(x))) = Len(got) + 1
        /\ \A i \in 1..Len(got) : Append(d, Understood(x))[i] = Understood(got[i])
        /\ Append(d, Understood(x))[Len(got) + 1] = Understood(x)
        /\ Append(d, Understood(x)) \in Seq({Understood(y) : y \in T})
    BY <2>1, AppendProperties
  <2>3. [i \in 1..Len(got') |-> Understood(got'[i])] \in Seq({Understood(y) : y \in T})
    BY AppendProperties, <1>1
  <2>4. \A i \in 1..Len(got) + 1 : [j \in 1..Len(got') |-> Understood(got'[j])][i] = Append(d, Understood(x))[i]
    BY <1>1, <2>2
  <2> QED
    BY <1>1, <1>2, <2>2, <2>3, <2>4, SeqEqual
<1> HIDE DEF p, d
<1>6. Channel!Deliver
  BY <1>0, <1>3, <1>4, <1>5 DEF Channel!Deliver
<1> QED
  BY <1>6 DEF Channel!Next
(* A telegram is its code and its rest. *)
LEMMA WholeLemma ==
  ASSUME NEW S, NEW w \in Seq(S), NEW n \in Nat, n <= Len(w)
  PROVE  Cut(w, 0, n) \o Cut(w, n, Len(w)) = w
<1> DEFINE a == Cut(w, 0, n)
           b == Cut(w, n, Len(w))
<1>0. 0 \in Nat /\ 0 <= n /\ Len(w) \in Nat /\ Len(w) <= Len(w)
  OBVIOUS
<1>1. /\ a \in Seq(S) /\ Len(a) = n - 0 /\ \A m \in 1..(n - 0) : a[m] = w[0 + m]
  BY <1>0, CutLemma
<1>2. /\ b \in Seq(S) /\ Len(b) = Len(w) - n /\ \A m \in 1..(Len(w) - n) : b[m] = w[n + m]
  BY <1>0, CutLemma
<1> HIDE DEF a, b
<1>3. /\ a \o b \in Seq(S) /\ Len(a \o b) = Len(a) + Len(b)
      /\ \A i \in 1 .. Len(a) + Len(b) : (a \o b)[i] = IF i <= Len(a) THEN a[i] ELSE b[i - Len(a)]
  BY <1>1, <1>2, ConcatProperties
<1>4. ASSUME NEW i \in 1..Len(w) PROVE (a \o b)[i] = w[i]
  <2>1. Len(a) = n /\ Len(a) + Len(b) = Len(w) /\ i \in 1..Len(a) + Len(b)
    BY <1>1, <1>2
  <2>2. CASE i <= n
    <3>1. i \in 1..(n - 0) /\ 0 + i = i
      BY <2>2
    <3> QED
      BY <1>1, <1>3, <2>1, <2>2, <3>1
  <2>3. CASE ~(i <= n)
    <3>1. i - n \in 1..(Len(w) - n) /\ n + (i - n) = i
      BY <2>3
    <3> QED
      BY <1>2, <1>3, <2>1, <2>3, <3>1
  <2> QED
    BY <2>2, <2>3
<1>5. Len(a \o b) = Len(w)
  BY <1>1, <1>2, <1>3
<1>6. a \o b = w
  BY <1>3, <1>4, <1>5, SeqEqual
<1> QED
  BY <1>6 DEF a, b

(* A telegram on the line is as long as its type says, begins with it, and *)
(* is understood as it is meant.                                           *)
LEMMA TelegramLemma ==
  ASSUME NEW Chars, CharacterLayer(Chars), StreamTypeOK(Chars),
         NEW i \in 1..Len(sent), IsTelegram(sent[i].of)
  PROVE  /\ sent[i].of.tc \in Known
         /\ Len(sent[i].wire) = TC_LENGTHS[sent[i].of.tc]
         /\ Cut(sent[i].wire, 0, 4) = sent[i].of.tc
         /\ Understood(sent[i].wire) = Meant(sent[i].of)
<1>1. /\ sent[i].of \in Sendable /\ sent[i].wire = WireOf(sent[i].of)
      /\ WireOf(sent[i].of) # NotBuilt
  BY DEF StreamTypeOK, IsTelegram
<1>2. /\ sent[i].of.tc \in Known /\ Understood(sent[i].wire) = Meant(sent[i].of)
  BY <1>1 DEF CharacterLayer
<1>3. Understood(sent[i].wire).tc = Cut(sent[i].wire, 0, 4) /\ Meant(sent[i].of).tc = sent[i].of.tc
  BY DEF Understood, Meant
<1> QED
  BY <1>1, <1>2, <1>3, LengthLemma

LEMMA WordLemma ==
  ASSUME NEW n \in Nat, n % 4 = 0, NEW k \in Nat, 4 * k < n
  PROVE  4 * k + 4 <= n /\ k \in 0..(n \div 4 - 1)
  OBVIOUS

(* Reading a code leads from a boundary to the rest of a telegram, or past *)
(* a word of a harmless record.                                            *)
LEMMA ReadCodeLemma ==
  ASSUME NEW Chars, CharacterLayer(Chars), StreamTypeOK(Chars), Positions, Contents,
         NEW i \in 1..Len(sent) + 1, NEW k \in Nat, Reading(i, k),
         ReadCode, ~OutOfStep'
  PROVE  \E j \in 1..Len(sent) + 1, l \in Nat : Reading(j, l)'
<1>1. /\ tc = NoCode /\ Consume(4) /\ sent' = sent /\ got' = got /\ told' = told
      /\ tc' = IF Cut(stream, 0, 4) \in Known THEN Cut(stream, 0, 4) ELSE NoCode
  BY DEF ReadCode
<1>2. /\ Len(sent) \in Nat /\ Len(stream) \in Nat /\ consumed \in Nat /\ 4 <= Len(stream)
  BY <1>1, EntryLemma DEF StreamTypeOK, Consume
<1>3. /\ consumed' = consumed + 4
      /\ \A j \in 1..Len(sent) + 1 : At(j)' = At(j) /\ Nth(j)' = Nth(j)
  BY <1>1, ConsumeLemma
<1>4. \A j \in 1..Len(sent) + 1 : At(j) \in Nat /\ Nth(j) \in Nat \ {0}
  BY EntryLemma
<1>5. consumed = At(i) + 4 * k /\ Len(got) = Nth(i) - 1
  BY DEF Reading
<1>6. i \in 1..Len(sent)
  <2>1. i # Len(sent) + 1
    <3> SUFFICES ASSUME i = Len(sent) + 1 PROVE FALSE
      OBVIOUS
    <3>1. At(i) = consumed + Len(stream)
      BY <1>2 DEF At
    <3> QED
      BY <1>2, <1>5, <3>1
  <2> QED
    BY <1>2, <2>1
<1> DEFINE w == sent[i].wire
<1>7. w \in Seq(Chars) /\ Len(w) \in Nat
  BY <1>6, EntryLemma
<1>8. CASE IsTelegram(sent[i].of)
  <2>1. /\ sent[i].of.tc \in Known /\ Cut(w, 0, 4) = sent[i].of.tc /\ Len(w) > 4
    BY <1>6, <1>8, TelegramLemma, CodesLemma
  <2>2. k = 0
    BY <1>1, <1>8, <2>1, CodesLemma DEF Reading
  <2>3. Cut(stream, 0, 4) = Cut(w, 0, 0 + 4)
    <3>1. consumed = At(i) + 0 /\ 0 \in Nat /\ 4 \in Nat /\ 0 + 4 <= Len(w)
      BY <1>4, <1>5, <1>7, <2>1, <2>2
    <3> QED
      BY <1>6, <3>1, PrefixLemma
  <2>4. tc' = sent[i].of.tc
    BY <1>1, <2>1, <2>3
  <2>5. consumed' = At(i)' + 4 * 1 /\ Len(got') = Nth(i)' - 1 /\ 4 * 1 < Len(w)
    BY <1>1, <1>2, <1>3, <1>4, <1>5, <1>7, <2>1, <2>2
  <2>6. Reading(i, 1)'
    BY <1>1, <1>2, <1>6, <1>8, <2>4, <2>5 DEF Reading
  <2> QED
    BY <2>6
<1>9. CASE ~IsTelegram(sent[i].of)
  <2>1. Harmless(sent[i])
    <3>1. CASE k = 0
      <4>1. consumed' > sent[i].at
        BY <1>2, <1>3, <1>4, <1>5, <1>6, <3>1 DEF At
      <4> QED
        BY <1>1, <1>6, <4>1 DEF OutOfStep
    <3>2. CASE k # 0
      BY <1>9, <3>2 DEF Reading
    <3> QED
      BY <3>1, <3>2
  <2>2. 4 * k < Len(w)
    <3>1. CASE k = 0
      <4>1. w # <<>>
        BY <1>6 DEF StreamTypeOK, NotBuilt, CharacterLayer
      <4>2. Len(w) # 0
        BY <1>7, <4>1, EmptySeq
      <4> QED
        BY <1>7, <3>1, <4>2
    <3>2. CASE k # 0
      BY <3>2 DEF Reading
    <3> QED
      BY <3>1, <3>2
  <2>3. /\ Len(w) % 4 = 0
        /\ \A m \in 0..(Len(w) \div 4 - 1) : Cut(w, 4 * m, 4 * m + 4) \notin Known
    BY <1>9, <2>1 DEF Harmless, Word
  <2> HIDE DEF w
  <2>4. 4 * k + 4 <= Len(w) /\ k \in 0..(Len(w) \div 4 - 1)
    BY <1>7, <2>2, <2>3, WordLemma
  <2>5. Cut(stream, 0, 4) = Cut(w, 4 * k, 4 * k + 4)
    <3>1. 4 * k \in Nat /\ 4 \in Nat
      OBVIOUS
    <3> QED
      BY <1>5, <1>6, <2>4, <3>1, PrefixLemma DEF w
  <2>6. tc' = NoCode
    BY <1>1, <2>3, <2>4, <2>5
  <2>7. CASE 4 * (k + 1) < Len(w)
    <3>1. consumed' = At(i)' + 4 * (k + 1) /\ Len(got') = Nth(i)' - 1 /\ k + 1 \in Nat
      BY <1>1, <1>2, <1>3, <1>4, <1>5
    <3>2. Harmless(sent[i])'
      BY <1>1, <2>1 DEF Harmless
    <3>3. Reading(i, k + 1)'
      BY <1>1, <1>2, <1>6, <1>9, <2>1, <2>6, <2>7, <3>1 DEF Reading, w
    <3> QED
      BY <3>1, <3>3
  <2>8. CASE ~(4 * (k + 1) < Len(w))
    <3>1. Len(w) = 4 * k + 4
      BY <1>7, <2>4, <2>8
    <3>2. At(i + 1) = At(i) + Len(w) /\ Nth(i + 1) = Nth(i) /\ i + 1 \in 1..Len(sent) + 1
      BY <1>2, <1>6, <1>9 DEF Positions, w
    <3>3. consumed' = At(i + 1)' + 4 * 0 /\ Len(got') = Nth(i + 1)' - 1
      <4>1. At(i + 1)' = At(i + 1) /\ Nth(i + 1)' = Nth(i + 1)
        BY <1>3, <3>2
      <4>2. consumed' = consumed + 4 /\ got' = got /\ At(i) \in Nat
        BY <1>1, <1>3, <1>4
      <4> QED
        BY <1>2, <1>5, <3>1, <3>2, <4>1, <4>2
    <3>4. Reading(i + 1, 0)'
      BY <2>6, <3>3 DEF Reading
    <3> QED
      BY <3>2, <3>4
  <2> QED
    BY <2>7, <2>8
<1> QED
  BY <1>8, <1>9
(* Reading the rest of a telegram delivers it, whole, and leads to the     *)
(* next boundary.                                                          *)
LEMMA ReadRestLemma ==
  ASSUME NEW Chars, CharacterLayer(Chars), StreamTypeOK(Chars), Positions, Contents,
         NEW i \in 1..Len(sent) + 1, NEW k \in Nat, Reading(i, k), ReadRest
  PROVE  /\ \E j \in 1..Len(sent) + 1, l \in Nat : Reading(j, l)'
         /\ \E w \in Seq(Chars) : /\ got' = Append(got, w)
                                  /\ Len(got) < Len(told) /\ Understood(w) = told[Len(got) + 1]
<1> DEFINE w == sent[i].wire
           n == TC_LENGTHS[tc] - 4
<1>1. /\ tc # NoCode /\ Consume(n) /\ sent' = sent /\ told' = told
      /\ tc' = NoCode /\ got' = Append(got, tc \o Cut(stream, 0, n))
  BY DEF ReadRest
<1>2. /\ i \in 1..Len(sent) /\ IsTelegram(sent[i].of) /\ k = 1 /\ tc = sent[i].of.tc
      /\ consumed = At(i) + 4 * k /\ Len(got) = Nth(i) - 1
  BY <1>1, EntryLemma DEF Reading
<1>3. /\ w \in Seq(Chars) /\ Len(w) \in Nat /\ consumed \in Nat /\ Len(sent) \in Nat
      /\ got \in Seq(Seq(Chars)) /\ Len(got) \in Nat /\ Len(told) \in Nat
  <2>1. w \in Seq(Chars) /\ Len(w) \in Nat /\ Len(sent) \in Nat
    BY <1>2, EntryLemma
  <2>2. consumed \in Nat /\ got \in Seq(Seq(Chars)) /\ told \in Seq({Meant(s) : s \in Sendable})
    BY DEF StreamTypeOK
  <2> QED
    BY <2>1, <2>2
<1>4. /\ At(i) \in Nat /\ Nth(i) \in Nat \ {0}
      /\ At(i + 1) = At(i) + Len(w) /\ Nth(i + 1) = Nth(i) + 1 /\ i + 1 \in 1..Len(sent) + 1
  BY <1>2, <1>3, EntryLemma DEF Positions
<1>5. /\ Len(w) = n + 4 /\ n \in Nat /\ Cut(w, 0, 4) = tc /\ Understood(w) = Meant(sent[i].of)
  BY <1>2, TelegramLemma, CodesLemma
<1>6. Cut(stream, 0, n) = Cut(w, 4, Len(w))
  <2>1. 4 \in Nat /\ consumed = At(i) + 4 /\ 4 + n <= Len(w) /\ 4 + n = Len(w)
    BY <1>2, <1>3, <1>5
  <2>2. Cut(stream, 0, n) = Cut(w, 4, 4 + n)
    BY <1>2, <1>5, <2>1, PrefixLemma
  <2> QED
    BY <2>1, <2>2
<1>7. tc \o Cut(stream, 0, n) = w
  <2>1. 4 \in Nat /\ 4 <= Len(w)
    BY <1>5
  <2> QED
    BY <1>3, <1>5, <1>6, <2>1, WholeLemma
<1>8. \E v \in Seq(Chars) : /\ got' = Append(got, v)
                            /\ Len(got) < Len(told) /\ Understood(v) = told[Len(got) + 1]
  <2>1. Nth(i) <= Len(told) /\ told[Nth(i)] = Meant(sent[i].of)
    BY <1>2 DEF Contents
  <2>2. Nth(i) = Len(got) + 1 /\ Len(got) < Len(told)
    BY <1>2, <1>3, <1>4, <2>1
  <2> QED
    BY <1>1, <1>3, <1>5, <1>7, <2>1, <2>2
<1>9. Reading(i + 1, 0)'
  <2>1. consumed' = consumed + n /\ At(i + 1)' = At(i + 1) /\ Nth(i + 1)' = Nth(i + 1)
    BY <1>1, <1>4, <1>5, ConsumeLemma
  <2>2. Len(got') = Len(got) + 1
    BY <1>1, <1>3, <1>7, AppendProperties
  <2> HIDE DEF w, n
  <2>3. consumed' = At(i + 1)' + 4 * 0
    BY <1>2, <1>3, <1>4, <1>5, <2>1
  <2>4. Len(got') = Nth(i + 1)' - 1
    BY <1>2, <1>3, <1>4, <2>1, <2>2
  <2> QED
    BY <1>1, <2>3, <2>4 DEF Reading
<1> QED
  BY <1>4, <1>8, <1>9

(* A step that leaves the receiver alone leaves it where it was.           *)
LEMMA StaysLemma ==
  ASSUME NEW Chars, StreamTypeOK(Chars), NEW i \in 1..Len(sent) + 1, NEW k \in Nat, Reading(i, k),
         Len(sent') >= Len(sent), Len(sent') \in Nat, \A j \in 1..Len(sent) : sent'[j] = sent[j],
         At(i)' = At(i), Nth(i)' = Nth(i), consumed' = consumed, got' = got, tc' = tc
  PROVE  Reading(i, k)' /\ i \in 1..Len(sent') + 1
<1>1. Len(sent) \in Nat
  BY EntryLemma
<1>2. consumed' = At(i)' + 4 * k /\ Len(got') = Nth(i)' - 1
  BY DEF Reading
<1>3. CASE tc = NoCode /\ k = 0
  BY <1>1, <1>2, <1>3 DEF Reading
<1>4. CASE /\ i <= Len(sent) /\ 4 * k < Len(sent[i].wire)
           /\ IF IsTelegram(sent[i].of) THEN k = 1 /\ tc = sent[i].of.tc
              ELSE Harmless(sent[i]) /\ tc = NoCode
  <2>1. sent'[i] = sent[i] /\ i <= Len(sent')
    BY <1>1, <1>4
  <2> QED
    BY <1>1, <1>2, <1>4, <2>1 DEF Reading
<1> QED
  BY <1>3, <1>4 DEF Reading
(* A new connection is in step. *)
LEMMA StreamInitLemma ==
  ASSUME NEW Chars, CharacterLayer(Chars), StreamInit
  PROVE  StreamInv(Chars) /\ Channel!Init
<1>1. /\ sent = <<>> /\ stream = <<>> /\ arrived = 0 /\ tc = NoCode /\ got = <<>>
      /\ consumed = 0 /\ told = <<>>
  BY DEF StreamInit, CharacterLayer
<1>2. Len(sent) = 0 /\ Len(stream) = 0 /\ Len(told) = 0 /\ Len(got) = 0 /\ \A i \in 1..Len(sent) : FALSE
  BY <1>1
<1>3. StreamTypeOK(Chars)
  BY <1>1, <1>2 DEF StreamTypeOK
<1>4. Positions
  BY <1>1, <1>2 DEF Positions, At, Nth
<1>5. Contents
  BY <1>2 DEF Contents
<1>6. InStep
  <2>1. Reading(1, 0)
    BY <1>1, <1>2 DEF Reading, At, Nth
  <2> QED
    BY <1>2, <2>1 DEF InStep
<1>7. OutOfStep = FALSE
  BY <1>2 DEF OutOfStep
<1>8. Pending = <<>> /\ Delivered = <<>>
  <2>1. SubSeq(told, Len(got) + 1, Len(told)) = <<>>
    BY <1>2, SubSeqEmpty
  <2>2. [i \in 1..Len(got) |-> Understood(got[i])] = <<>>
    BY <1>2
  <2> QED
    BY <1>7, <2>1, <2>2 DEF Pending, Delivered
<1> QED
  BY <1>3, <1>4, <1>5, <1>6, <1>7, <1>8 DEF StreamInv, Channel!Init

(* Every step keeps the invariant and is a step of the channel, or none.   *)
LEMMA StreamNextLemma ==
  ASSUME NEW Chars, CharacterLayer(Chars), StreamInv(Chars), [StreamNext]_streamVars
  PROVE  StreamInv(Chars)' /\ [Channel!Next]_Channel!vars
<1> USE DEF StreamInv
<1>1. ASSUME NEW s \in Sendable \cup Foreign, Write(s)
      PROVE  StreamInv(Chars)' /\ [Channel!Next]_Channel!vars
  <2>1. /\ StreamTypeOK(Chars)' /\ Positions' /\ Contents'
        /\ \A i \in 1..Len(sent) + 1 : At(i)' = At(i) /\ Nth(i)' = Nth(i)
    BY <1>1, WriteLemma
  <2>2. CASE OutOfStep'
    BY <2>1, <2>2, OutOfStepLemma DEF InStep
  <2>3. CASE ~OutOfStep'
    <3>1. ~OutOfStep
      BY <1>1, <2>3, BrokenLemma DEF Write, ReadEnds
    <3>2. PICK i \in 1..Len(sent) + 1, k \in Nat : Reading(i, k)
      BY <3>1 DEF InStep
    <3>3. /\ sent' = Append(sent, Entry(s)) /\ consumed' = consumed /\ got' = got /\ tc' = tc
          /\ told' = IF IsTelegram(s) THEN Append(told, Meant(s)) ELSE told
      BY <1>1 DEF Write
    <3>4. Len(sent') = Len(sent) + 1 /\ Len(sent) \in Nat /\ \A j \in 1..Len(sent) : sent'[j] = sent[j]
      BY <3>3, AppendProperties DEF StreamTypeOK
    <3>5. Reading(i, k)' /\ i \in 1..Len(sent') + 1
      BY <2>1, <3>2, <3>3, <3>4, StaysLemma
    <3>6. InStep'
      BY <3>5 DEF InStep
    <3>7. CASE ~IsTelegram(s)
      BY <2>1, <2>3, <3>1, <3>3, <3>6, <3>7, StutterLemma
    <3>8. CASE IsTelegram(s)
      <4>1. told \in Seq({Meant(t) : t \in Sendable}) /\ Meant(s) \in {Meant(t) : t \in Sendable}
            /\ told' = Append(told, Meant(s))
        BY <3>3, <3>8 DEF StreamTypeOK, IsTelegram
      <4>2. Len(got) \in Nat /\ Len(got) <= Len(told)
        <5>1. Nth(i) <= Len(told) + 1 /\ Len(got) = Nth(i) - 1 /\ Nth(i) \in Nat
          BY <3>2, EntryLemma DEF Positions, Reading
        <5>2. Len(told) \in Nat /\ Len(got) \in Nat
          BY DEF StreamTypeOK
        <5> QED
          BY <5>1, <5>2
      <4> HIDE DEF StreamInv
      <4>3. [Channel!Next]_Channel!vars
        BY <2>3, <3>1, <3>3, <4>1, <4>2, SendLemma
      <4> QED
        BY <2>1, <3>6, <4>3 DEF StreamInv
    <3> QED
      BY <3>7, <3>8
  <2> QED
    BY <2>2, <2>3
<1>2. ASSUME UNCHANGED <<sent, stream, consumed, tc, got, told>>, arrived' \in 0..Len(stream)
      PROVE  StreamInv(Chars)' /\ [Channel!Next]_Channel!vars
  <2>1. StreamTypeOK(Chars)' /\ Positions' /\ Contents' /\ InStep' /\ OutOfStep' = OutOfStep
    BY <1>2 DEF StreamTypeOK, Positions, Contents, InStep, Reading, At, Nth, OutOfStep, Harmless
  <2>2. [Channel!Next]_Channel!vars
    BY <1>2, <2>1, OutOfStepLemma, StutterLemma
  <2> QED
    BY <2>1, <2>2
<1>3. ASSUME NEW n \in Arrivals, Arrive(n) PROVE StreamInv(Chars)' /\ [Channel!Next]_Channel!vars
  <2>1. n \in Nat /\ arrived \in Nat /\ Len(stream) \in Nat /\ arrived <= Len(stream)
    BY ArrivalsAssumption DEF StreamTypeOK
  <2>2. Min({arrived + n, Len(stream)}) \in 0..Len(stream)
    BY <2>1 DEF Min
  <2>3. UNCHANGED <<sent, stream, consumed, tc, got, told>> /\ arrived' \in 0..Len(stream)
    BY <1>3, <2>2 DEF Arrive
  <2> QED
    BY <1>2, <2>3
<1>4. CASE Lose \/ UNCHANGED streamVars
  <2>1. UNCHANGED <<sent, stream, consumed, tc, got, told>> /\ arrived' \in 0..Len(stream)
    BY <1>4 DEF Lose, streamVars, StreamTypeOK
  <2> QED
    BY <1>2, <2>1
<1>5. CASE ReadCode
  <2>1. Consume(4) /\ UNCHANGED <<sent, told, got>> /\ tc' \in Known \cup {NoCode} /\ 4 \in Nat
    BY <1>5 DEF ReadCode
  <2>2. /\ stream' \in Seq(Chars) /\ arrived' \in 0..Len(stream') /\ consumed' \in Nat
        /\ Positions' /\ Contents'
    BY <2>1, ConsumeLemma
  <2>3. StreamTypeOK(Chars)'
    BY <2>1, <2>2 DEF StreamTypeOK
  <2>4. CASE OutOfStep'
    BY <2>2, <2>3, <2>4, OutOfStepLemma DEF InStep
  <2>5. CASE ~OutOfStep'
    <3>1. ~OutOfStep
      BY <1>5, <2>5, BrokenLemma DEF ReadCode, ReadEnds
    <3>2. PICK i \in 1..Len(sent) + 1, k \in Nat : Reading(i, k)
      BY <3>1 DEF InStep
    <3>3. InStep'
      BY <1>5, <2>1, <2>5, <3>2, ReadCodeLemma DEF InStep
    <3> QED
      BY <2>1, <2>2, <2>3, <2>5, <3>1, <3>3, StutterLemma
  <2> QED
    BY <2>4, <2>5
<1>6. CASE ReadRest
  <2>1. Consume(TC_LENGTHS[tc] - 4) /\ UNCHANGED <<sent, told>> /\ tc' = NoCode /\ TC_LENGTHS[tc] - 4 \in Nat
    BY <1>6, CodesLemma DEF ReadRest, StreamTypeOK
  <2>2. /\ stream' \in Seq(Chars) /\ arrived' \in 0..Len(stream') /\ consumed' \in Nat
        /\ Positions' /\ Contents'
    BY <2>1, ConsumeLemma
  <2>3. got' \in Seq(Seq(Chars))
    <3> DEFINE n == TC_LENGTHS[tc] - 4
    <3>1. tc \in Known /\ tc \in Seq(Chars) /\ got' = Append(got, tc \o Cut(stream, 0, n))
      BY <1>6 DEF ReadRest, StreamTypeOK, CharacterLayer
    <3>2. /\ stream \in Seq(Chars) /\ n \in Nat /\ 0 \in Nat /\ 0 <= n /\ n <= Len(stream)
      BY <2>1 DEF StreamTypeOK, Consume
    <3> HIDE DEF n
    <3>3. Cut(stream, 0, n) \in Seq(Chars)
      BY <3>2, CutLemma
    <3>4. got \in Seq(Seq(Chars)) /\ tc \o Cut(stream, 0, n) \in Seq(Chars)
      BY <3>1, <3>3, ConcatProperties DEF StreamTypeOK
    <3> QED
      BY <3>1, <3>4, AppendProperties
  <2>4. StreamTypeOK(Chars)'
    BY <2>1, <2>2, <2>3 DEF StreamTypeOK
  <2>5. CASE OutOfStep'
    BY <2>2, <2>4, <2>5, OutOfStepLemma DEF InStep
  <2>6. CASE ~OutOfStep'
    <3>1. ~OutOfStep
      BY <1>6, <2>6, BrokenLemma DEF ReadRest, ReadEnds
    <3>2. PICK i \in 1..Len(sent) + 1, k \in Nat : Reading(i, k)
      BY <3>1 DEF InStep
    <3>3. /\ \E j \in 1..Len(sent) + 1, l \in Nat : Reading(j, l)'
          /\ \E w \in Seq(Chars) : /\ got' = Append(got, w)
                                   /\ Len(got) < Len(told) /\ Understood(w) = told[Len(got) + 1]
      BY <1>6, <3>2, ReadRestLemma
    <3>4. InStep'
      BY <2>1, <3>3 DEF InStep
    <3>5. PICK w \in Seq(Chars) : /\ got' = Append(got, w)
                                  /\ Len(got) < Len(told) /\ Understood(w) = told[Len(got) + 1]
      BY <3>3
    <3>6. told \in Seq({Meant(t) : t \in Sendable}) /\ got \in Seq(Seq(Chars)) /\ told' = told
      BY <2>1 DEF StreamTypeOK
    <3>7. [Channel!Next]_Channel!vars
      BY <2>6, <3>1, <3>5, <3>6, DeliverLemma
    <3> QED
      BY <2>2, <2>4, <3>4, <3>7
  <2> QED
    BY <2>5, <2>6
<1>7. CASE ReadEnds
  <2>1. /\ sent' = <<>> /\ stream' = <<>> /\ arrived' = 0 /\ tc' = NoCode /\ got' = <<>>
        /\ consumed' = 0 /\ told' = <<>>
    BY <1>7 DEF ReadEnds, CharacterLayer
  <2>2. /\ Len(sent') = 0 /\ Len(stream') = 0 /\ Len(told') = 0 /\ Len(got') = 0
        /\ \A i \in 1..Len(sent') : FALSE
    BY <2>1
  <2>3. StreamTypeOK(Chars)'
    BY <2>1, <2>2 DEF StreamTypeOK
  <2>4. Positions' /\ Contents'
    BY <2>1, <2>2 DEF Positions, At, Nth, Contents
  <2>5. InStep'
    <3>1. Reading(1, 0)'
      BY <2>1, <2>2 DEF Reading, At, Nth
    <3> QED
      BY <2>2, <3>1 DEF InStep
  <2>6. ~OutOfStep'
    BY <2>2 DEF OutOfStep
  <2>7. Pending' = <<>> /\ Delivered' = <<>>
    <3>1. SubSeq(told', Len(got') + 1, Len(told')) = <<>>
      BY <2>2, SubSeqEmpty
    <3>2. [i \in 1..Len(got') |-> Understood(got'[i])] = <<>>
      BY <2>2
    <3> QED
      BY <2>6, <3>1, <3>2 DEF Pending, Delivered
  <2>8. Channel!Reconnect
    BY <2>6, <2>7 DEF Channel!Reconnect
  <2> QED
    BY <2>3, <2>4, <2>5, <2>8 DEF Channel!Next
<1> QED
  BY <1>1, <1>3, <1>4, <1>5, <1>6, <1>7 DEF StreamNext

(* Whatever is sent, in pieces of any size, over any number of             *)
(* connections: the receive loop delivers every telegram once, whole, in   *)
(* order and as it is meant, until it has begun to read a foreign record   *)
(* that is not whole words without a code in them.                         *)
THEOREM StreamImplementsChannel ==
  ASSUME NEW CONSTANT Chars, CharacterLayer(Chars)
  PROVE  StreamSpec => DeliversInOrder
<1>1. StreamInit => StreamInv(Chars) /\ Channel!Init
  BY StreamInitLemma
<1>2. StreamInv(Chars) /\ [StreamNext]_streamVars => StreamInv(Chars)' /\ [Channel!Next]_Channel!vars
  BY StreamNextLemma
<1> QED
  BY <1>1, <1>2, PTL DEF StreamSpec, DeliversInOrder, Channel!Spec
=============================================================================
