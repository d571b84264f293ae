------------------------------- MODULE Framing -------------------------------
(***************************************************************************)
(* The receive loop of tcp_client.py, which cuts the stream of a TCP       *)
(* connection into telegrams by their type codes, and the sender at the    *)
(* other end (l2_simulator/server.py, tcp_server.py and the SPL simulator  *)
(* have the same loop).                                                    *)
(***************************************************************************)
EXTENDS Telegrams

CONSTANTS Sendable,      \* what may be sent: records of a type code and a message
          Foreign,       \* characters that no build() makes, whole records of another system
          Arrivals,      \* how many characters a segment may bring
          MaxSent        \* bound: how much is sent on one connection

ASSUME ArrivalsAssumption == Arrivals \subseteq Nat \ {0}
ASSUME MaxSentAssumption == MaxSent \in Nat

VARIABLES
  sent,       \* telegrams and foreign records written to this connection
  stream,     \* characters written to it that the receiver has not consumed
  arrived,    \* how many of them are in the receiver's buffer
  tc,         \* the type code read, of a telegram whose rest is awaited
  got,        \* telegrams dispatched on this connection
  lost,       \* the connection is over; the receiver has yet to find out
  consumed,   \* history: how many characters the receiver has consumed
  told        \* history: what the telegrams written are to say, in order

streamVars == <<sent, stream, arrived, tc, got, lost, consumed, told>>

NoCode == "none"

StreamInit == /\ sent = <<>> /\ stream = Empty /\ arrived = 0
              /\ tc = NoCode /\ got = <<>> /\ lost = FALSE
              /\ consumed = 0 /\ told = <<>>

-----------------------------------------------------------------------------
(* What a message is to say at the other end, by the rules of protocol.py: *)
(* texts lose what is beyond their field and blanks at their end, numbers  *)
(* keep their last digits, what is missing is filled in.                   *)
Seen(f, msg) ==
  CASE f.kind = "text"   -> RStrip(SubSeq(msg[f.name], 1, Min({f.size, Len(msg[f.name])})))
    [] f.kind = "number" -> LET n == Zeros(f.size) \o msg[f.name]
                            IN  SubSeq(n, Len(n) - f.size + 1, Len(n))
    [] f.kind = "count"  -> msg[f.name] % (10 ^ f.size)
    [] f.kind = "line"   -> FirstOf(msg.line_no, "A")
    [] f.kind = "names"  -> [i \in 1..10 |-> RStrip(SubSeq(Filled(msg.filenames, 10, "")[i], 1,
                                                     Min({50, Len(Filled(msg.filenames, 10, "")[i])})))]
    [] f.kind = "layers" -> [i \in 1..25 |-> FirstOf(Filled(msg.layers, 25, "N")[i], "N")]

Said(t) ==
  LET fields == {f \in Range(Layout[t.tc]) : f.kind # "spare"}
      named(n) == CHOOSE f \in fields : f.name = n
  IN  [n \in {f.name : f \in fields} \cup {"date"} |->
         IF n # "date" THEN Seen(named(n), t.msg) ELSE IF t.msg.date = "" THEN Now14 ELSE t.msg.date]

IsTelegram(s) == s \in Sendable
Meant(s) == [tc |-> s.tc, said |-> Said(s)]
WireOf(s) == IF IsTelegram(s) THEN Build(s.tc, s.msg) ELSE s.raw

(* An element of sent: its characters, where they begin in all that is    *)
(* written, and which telegram it is, or would be.                         *)
Entry(s) == [of |-> s, wire |-> WireOf(s), at |-> consumed + Len(stream), nth |-> Len(told) + 1]

(* A foreign record is skipped cleanly if it is a whole number of words of *)
(* four characters and none of them reads as a type code.                  *)
Word(w, k) == Cut(w, 4 * k, 4 * k + 4)
Harmless(e) == \/ IsTelegram(e.of)
               \/ /\ Len(e.wire) % 4 = 0
                  /\ \A k \in 0..(Len(e.wire) \div 4 - 1) : Word(e.wire, k) \notin Known

(* The receiver has begun to read a foreign record that is not harmless.   *)
OutOfStep == \E i \in 1..Len(sent) : ~Harmless(sent[i]) /\ consumed > sent[i].at

-----------------------------------------------------------------------------
(* What a handler of _dispatch makes of a telegram.                        *)
Understood(w) == [tc |-> Cut(w, 0, 4), said |-> Parse(Cut(w, 0, 4), w)]

(* send_packet and the senders of the other end.  A message that build()   *)
(* refuses is not written; its sender gets the AssertionError.             *)
Write(s) ==
  /\ ~lost /\ Len(sent) < MaxSent
  /\ WireOf(s) # NotBuilt
  /\ sent' = Append(sent, Entry(s))
  /\ stream' = stream \o WireOf(s)
  /\ told' = IF IsTelegram(s) THEN Append(told, Meant(s)) ELSE told
  /\ UNCHANGED <<arrived, tc, got, lost, consumed>>

Arrive(n) ==
  /\ ~lost /\ arrived < Len(stream)
  /\ arrived' = Min({arrived + n, Len(stream)})
  /\ UNCHANGED <<sent, stream, tc, got, lost, consumed, told>>

(* readexactly(n) leaves the buffer alone until it has n characters.       *)
Consume(n) ==
  /\ arrived >= n
  /\ stream' = Cut(stream, n, Len(stream))
  /\ arrived' = arrived - n
  /\ consumed' = consumed + n

(* Fault: a known code is looked for from every character on.              *)
ReadCodeBySliding ==
  /\ tc = NoCode /\ arrived >= 4
  /\ \/ Cut(stream, 0, 4) \in Known /\ Consume(4) /\ tc' = Cut(stream, 0, 4)
     \/ Cut(stream, 0, 4) \notin Known /\ Consume(1) /\ UNCHANGED tc
  /\ UNCHANGED <<sent, got, lost, told>>

(* An unknown code is skipped, and only the code. *)
ReadCode ==
  /\ tc = NoCode
  /\ Consume(4)
  /\ tc' = IF Cut(stream, 0, 4) \in Known THEN Cut(stream, 0, 4) ELSE NoCode
  /\ UNCHANGED <<sent, got, lost, told>>

(* Fault: the rest is waited for as if the code were still to come. *)
ReadRestStalls ==
  /\ tc # NoCode
  /\ arrived >= TC_LENGTHS[tc]
  /\ Consume(TC_LENGTHS[tc] - 4)
  /\ tc' = NoCode
  /\ got' = Append(got, tc \o Cut(stream, 0, TC_LENGTHS[tc] - 4))
  /\ UNCHANGED <<sent, lost, told>>

(* The whole telegram goes to _dispatch. *)
ReadRest ==
  /\ tc # NoCode
  /\ Consume(TC_LENGTHS[tc] - 4)
  /\ tc' = NoCode
  /\ got' = Append(got, tc \o Cut(stream, 0, TC_LENGTHS[tc] - 4))
  /\ UNCHANGED <<sent, lost, told>>

Lose == /\ ~lost /\ lost' = TRUE
        /\ UNCHANGED <<sent, stream, arrived, tc, got, consumed, told>>

(* The read ends short or raises; the next connection has a reader of its  *)
(* own.                                                                    *)
ReadEnds == /\ lost /\ lost' = FALSE
            /\ sent' = <<>> /\ stream' = Empty /\ arrived' = 0
            /\ tc' = NoCode /\ got' = <<>>
            /\ consumed' = 0 /\ told' = <<>>

StreamNext == \/ \E s \in Sendable \cup Foreign : Write(s)
              \/ \E n \in Arrivals : Arrive(n)
              \/ ReadCode \/ ReadRest \/ Lose \/ ReadEnds

StreamSpec == StreamInit /\ [][StreamNext]_streamVars

(* The network brings what is written, and the reader's task runs. *)
FairStreamSpec == /\ StreamSpec
                  /\ WF_streamVars(\E n \in Arrivals : Arrive(n))
                  /\ WF_streamVars(ReadCode \/ ReadRest \/ ReadEnds)

-----------------------------------------------------------------------------
(* What the abstract channel holds. *)
Delivered == IF OutOfStep THEN <<>> ELSE [i \in 1..Len(got) |-> Understood(got[i])]
Pending   == IF OutOfStep THEN <<>> ELSE SubSeq(told, Len(got) + 1, Len(told))

Channel == INSTANCE TelegramChannel WITH
             broken <- OutOfStep, delivered <- Delivered, pending <- Pending

(* A stream cut at type codes delivers every telegram once, whole, in      *)
(* order and with what it says, also past foreign records that are whole   *)
(* words without a code in them; reconnecting puts it in step again.       *)
DeliversInOrder == Channel!Spec

(* Telegrams do arrive, unless the connection is lost or goes out of step: *)
(* no cut of the stream leaves the receiver waiting.                       *)
EveryTelegramArrives ==
  \A n \in 1..MaxSent :
    Len(told) >= n ~> \/ Len(got) >= n \/ lost
                               \/ \E i \in 1..Len(sent) : ~Harmless(sent[i])

(* A message whose numbers are digits and whose letters are known.         *)
Proper(t) ==
  LET kinds(k) == {f.name : f \in {g \in Range(Layout[t.tc]) : g.kind = k}}
  IN  /\ t.msg.date = "" \/ IsDigits(t.msg.date)
      /\ \A n \in kinds("number") : t.msg[n] = "" \/ IsDigits(t.msg[n])
      /\ \A n \in kinds("count") : t.msg[n] >= 0
      /\ \A n \in kinds("line") : FirstOf(t.msg[n], "A") \in {"A", "B"}
      /\ \A n \in kinds("layers") :
           \A i \in 1..Len(t.msg[n]) : FirstOf(t.msg[n][i], "N") \in {"N", "T", "H", "U"}

(* The three descriptions of a layout agree.  What build() writes can be    *)
(* built again from what parse() reads in it, character by character       *)
(* (test_roundtrip.py has this for one message of each type), and if the   *)
(* message is proper it passes validate_padding(), whatever lengths its    *)
(* values have.                                                            *)
BuiltReadsBack ==
  \A i \in 1..Len(sent) :
    LET s == sent[i].of
    IN  IsTelegram(s) => /\ Build(s.tc, Parse(s.tc, sent[i].wire)) = sent[i].wire
                         /\ Proper(s) => ValidatePadding(s.tc, sent[i].wire)
=============================================================================
