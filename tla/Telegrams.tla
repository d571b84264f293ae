------------------------------ MODULE Telegrams ------------------------------
(***************************************************************************)
(* The telegrams of backend/protocol.py: build(), parse() and              *)
(* validate_padding() of the six record types.  A telegram is a string of  *)
(* fixed length; build() lays fields out one after the other, parse() and  *)
(* validate_padding() cut at offsets of their own.  A message to be sent   *)
(* is a record of the attributes of its dataclass.                         *)
(***************************************************************************)
EXTENDS Integers, Sequences, SequencesExt, TLC

Now14 == "20260227093000"       \* datetime.now(), to the second

Known == {"1001", "1002", "1010", "1099", "1101", "1199"}

TC_LENGTHS ==
  [tc \in Known |-> CASE tc = "1001" -> 128 [] tc = "1002" -> 256 [] tc = "1010" -> 576
                       [] tc = "1099" -> 64  [] tc = "1101" -> 72  [] tc = "1199" -> 52]

Digits == {"0", "1", "2", "3", "4", "5", "6", "7", "8", "9"}

-----------------------------------------------------------------------------
(* Strings. *)

Empty == ""

Joined(ss) ==
  LET upto[i \in 0..Len(ss)] == IF i = 0 THEN "" ELSE upto[i - 1] \o ss[i]
  IN  upto[Len(ss)]

Line140 == "                                                                      "
           \o "                                                                      "
Blanks(n) == SubSeq(Line140, 1, n)
Zeros(n) == SubSeq("0000000000", 1, n)

(* w[a:b] of Python. *)
Cut(w, a, b) == SubSeq(w, a + 1, b)
Char(w, a) == Cut(w, a, a + 1)

IsDigits(t) == Len(t) > 0 /\ \A i \in 1..Len(t) : SubSeq(t, i, i) \in Digits

RStrip(t) ==
  SubSeq(t, 1, CHOOSE n \in 0..Len(t) : /\ SubSeq(t, n + 1, Len(t)) = Blanks(Len(t) - n)
                                        /\ n > 0 => SubSeq(t, n, n) # " ")

PadRight(v, size) == IF Len(v) > size THEN SubSeq(v, 1, size)
                     ELSE v \o Blanks(size - Len(v))

PadLeft(v, size) == IF Len(v) > size THEN SubSeq(v, Len(v) - size + 1, Len(v))
                    ELSE Zeros(size - Len(v)) \o v

(* `(s or default)[:1]` *)
FirstOf(s, default) == IF s = "" THEN default ELSE SubSeq(s, 1, 1)

(* int() of digits, and an error for the rest: the blanks and the sign     *)
(* that int() also takes are not written by build() in these fields.       *)
NotInt == "ValueError"
DigitAt(t, i) == CHOOSE d \in 0..9 : ToString(d) = SubSeq(t, i, i)
IntOf(t) ==
  LET upto[i \in 0..Len(t)] == IF i = 0 THEN 0 ELSE 10 * upto[i - 1] + DigitAt(t, i)
  IN  IF IsDigits(t) THEN upto[Len(t)] ELSE NotInt

-----------------------------------------------------------------------------
(* build(): the fields of each telegram after the header, in their order.  *)

Field(name, kind, size) == [name |-> name, kind |-> kind, size |-> size]
Text(name, size)   == Field(name, "text", size)       \* pad_right
Number(name, size) == Field(name, "number", size)     \* pad_left of a string
Count(name, size)  == Field(name, "count", size)      \* pad_left of an integer
Line               == Field("line_no", "line", 1)
Spare(size)        == Field("spare", "spare", size)

Layout1001 ==
  <<Text("dims_name", 6), Text("spec_cd", 40), Text("mat_grade", 7), Number("qtb_speed", 5),
    Number("spl_a_speed", 5), Number("spl_b_speed", 5), Spare(36)>>

Layout1002 ==
  <<Text("bundle_no", 10), Text("mtrl_no", 10), Text("heat_no", 6), Text("spec_cd", 40),
    Text("mat_grade", 7), Text("dims_name", 6), Line, Number("qtb_speed", 5),
    Number("spl_a_speed", 5), Number("spl_b_speed", 5), Number("qtb_temp", 4), Spare(133)>>

Layout1010 ==
  <<Text("bundle_no", 10), Text("mtrl_no", 10), Line, Field("filenames", "names", 50), Spare(31)>>

Layout1099 == <<Count("count", 4), Spare(36)>>

Layout1101 ==
  <<Text("bundle_no", 10), Text("mtrl_no", 10), Line, Count("layer_count", 2),
    Field("layers", "layers", 25)>>

Layout1199 == <<Count("count", 4), Number("work_a", 2), Number("work_b", 2), Spare(20)>>

Layout == "1001" :> Layout1001 @@ "1002" :> Layout1002 @@ "1010" :> Layout1010
       @@ "1099" :> Layout1099 @@ "1101" :> Layout1101 @@ "1199" :> Layout1199

(* A list made to have n elements. *)
Filled(list, n, default) == [i \in 1..n |-> IF i <= Len(list) THEN list[i] ELSE default]

(* Both alive counts are taken modulo 10000, the layer count is not.       *)
Written(f, msg) ==
  CASE f.kind = "text"   -> PadRight(msg[f.name], f.size)
    [] f.kind = "number" -> PadLeft(msg[f.name], f.size)
    [] f.kind = "count"  -> PadLeft(ToString(IF f.name = "count" THEN msg.count % 10000
                                             ELSE msg[f.name]), f.size)
    [] f.kind = "line"   -> FirstOf(msg.line_no, "A")
    [] f.kind = "names"  -> Joined([i \in 1..10 |-> PadRight(Filled(msg.filenames, 10, "")[i], 50)])
    [] f.kind = "layers" -> Joined([i \in 1..25 |-> FirstOf(Filled(msg.layers, 25, "N")[i], "N")])
    [] f.kind = "spare"  -> Blanks(f.size)

(* The assertion on the length fails for a date of the wrong length. *)
NotBuilt == Empty
Build(tc, msg) ==
  LET header == tc \o (IF msg.date = "" THEN Now14 ELSE msg.date)
                   \o PadLeft(ToString(TC_LENGTHS[tc]), 6)
      body   == Joined([i \in 1..Len(Layout[tc]) |-> Written(Layout[tc][i], msg)])
  IN  IF Len(header \o body) = TC_LENGTHS[tc] THEN header \o body ELSE NotBuilt

-----------------------------------------------------------------------------
(* parse(): a telegram of the right type and length, cut at offsets.       *)

Parse1001(w) ==
  [date |-> Cut(w, 4, 18), dims_name |-> RStrip(Cut(w, 24, 30)), spec_cd |-> RStrip(Cut(w, 30, 70)),
   mat_grade |-> RStrip(Cut(w, 70, 77)), qtb_speed |-> Cut(w, 77, 82),
   spl_a_speed |-> Cut(w, 82, 87), spl_b_speed |-> Cut(w, 87, 92)]

Parse1002(w) ==
  [date |-> Cut(w, 4, 18), bundle_no |-> RStrip(Cut(w, 24, 34)), mtrl_no |-> RStrip(Cut(w, 34, 44)),
   heat_no |-> RStrip(Cut(w, 44, 50)), spec_cd |-> RStrip(Cut(w, 50, 90)),
   mat_grade |-> RStrip(Cut(w, 90, 97)), dims_name |-> RStrip(Cut(w, 97, 103)),
   line_no |-> Char(w, 103), qtb_speed |-> Cut(w, 104, 109), spl_a_speed |-> Cut(w, 109, 114),
   spl_b_speed |-> Cut(w, 114, 119), qtb_temp |-> Cut(w, 119, 123)]

Parse1010(w) ==
  [date |-> Cut(w, 4, 18), bundle_no |-> RStrip(Cut(w, 24, 34)), mtrl_no |-> RStrip(Cut(w, 34, 44)),
   line_no |-> Char(w, 44),
   filenames |-> [i \in 1..10 |-> RStrip(Cut(w, 45 + (i - 1) * 50, 45 + i * 50))]]

Parse1099(w) == [date |-> Cut(w, 4, 18), count |-> IntOf(Cut(w, 24, 28))]

(* Fault: the layers from the second digit of their number on. *)
Parse1101Early(w) ==
  [date |-> Cut(w, 4, 18), bundle_no |-> RStrip(Cut(w, 24, 34)), mtrl_no |-> RStrip(Cut(w, 34, 44)),
   line_no |-> Char(w, 44), layer_count |-> IntOf(Cut(w, 45, 47)),
   layers |-> [i \in 1..25 |-> Char(w, 45 + i)]]

Parse1101(w) ==
  [date |-> Cut(w, 4, 18), bundle_no |-> RStrip(Cut(w, 24, 34)), mtrl_no |-> RStrip(Cut(w, 34, 44)),
   line_no |-> Char(w, 44), layer_count |-> IntOf(Cut(w, 45, 47)),
   layers |-> [i \in 1..25 |-> Char(w, 46 + i)]]

Parse1199(w) ==
  [date |-> Cut(w, 4, 18), count |-> IntOf(Cut(w, 24, 28)), work_a |-> Cut(w, 28, 30),
   work_b |-> Cut(w, 30, 32)]

Parse(tc, w) ==
  CASE tc = "1001" -> Parse1001(w) [] tc = "1002" -> Parse1002(w) [] tc = "1010" -> Parse1010(w)
    [] tc = "1099" -> Parse1099(w) [] tc = "1101" -> Parse1101(w) [] tc = "1199" -> Parse1199(w)

-----------------------------------------------------------------------------
(* validate_padding(), with a list of errors reduced to whether it is empty. *)

ValidHeader(tc, w, length) ==
  Len(w) = TC_LENGTHS[tc] /\ Cut(w, 0, 4) = tc /\ IsDigits(Cut(w, 4, 18)) /\ Cut(w, 18, 24) = length

Valid1001(w) == /\ ValidHeader("1001", w, "000128") /\ Cut(w, 92, 128) = Blanks(36)
                /\ IsDigits(Cut(w, 77, 82)) /\ IsDigits(Cut(w, 82, 87)) /\ IsDigits(Cut(w, 87, 92))

Valid1002(w) == /\ ValidHeader("1002", w, "000256") /\ Cut(w, 123, 256) = Blanks(133)
                /\ IsDigits(Cut(w, 104, 109)) /\ IsDigits(Cut(w, 109, 114))
                /\ IsDigits(Cut(w, 114, 119)) /\ IsDigits(Cut(w, 119, 123))
                /\ Char(w, 103) \in {"A", "B"}

Valid1010(w) == /\ ValidHeader("1010", w, "000576") /\ Cut(w, 545, 576) = Blanks(31)
                /\ Char(w, 44) \in {"A", "B"}

Valid1099(w) == /\ ValidHeader("1099", w, "000064") /\ IsDigits(Cut(w, 24, 28))
                /\ Cut(w, 28, 64) = Blanks(36)

Valid1101(w) == /\ ValidHeader("1101", w, "000072") /\ IsDigits(Cut(w, 45, 47))
                /\ \A i \in 0..24 : Char(w, 47 + i) \in {"N", "T", "H", "U"}

Valid1199(w) == /\ ValidHeader("1199", w, "000052") /\ IsDigits(Cut(w, 24, 28))
                /\ IsDigits(Cut(w, 28, 30)) /\ IsDigits(Cut(w, 30, 32))
                /\ Cut(w, 32, 52) = Blanks(20)

ValidatePadding(tc, w) ==
  CASE tc = "1001" -> Valid1001(w) [] tc = "1002" -> Valid1002(w) [] tc = "1010" -> Valid1010(w)
    [] tc = "1099" -> Valid1099(w) [] tc = "1101" -> Valid1101(w) [] tc = "1199" -> Valid1199(w)
=============================================================================
