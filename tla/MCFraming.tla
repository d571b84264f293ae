------------------------------ MODULE MCFraming ------------------------------
(* Messages and foreign records for the model checker: values that fill    *)
(* their fields, are too long, too short, empty or out of range.           *)
EXTENDS Framing

Setup    == [date |-> "", dims_name |-> "BL1600", spec_cd |-> "KS SD600  ", mat_grade |-> "C600CZ-LONG",
             qtb_speed |-> "1513", spl_a_speed |-> "101588", spl_b_speed |-> ""]
Material == [date |-> "20260101000000", bundle_no |-> "1099", mtrl_no |-> " S78588069", heat_no |-> "",
             spec_cd |-> "KS", mat_grade |-> "C600CZ", dims_name |-> "BL1600-X", line_no |-> "",
             qtb_speed |-> "01513", spl_a_speed |-> "9", spl_b_speed |-> "", qtb_temp |-> "00400"]
Result   == [date |-> "", bundle_no |-> "S78588B031", mtrl_no |-> "S78588069", line_no |-> "BA",
             filenames |-> <<"20260227_C600CZ_S78588B031_1_N.jpg", "", "2_T.jpg ">>]
Alive    == [date |-> "", count |-> 19999]
Winding(n, layers) == [date |-> "", bundle_no |-> "S78588B0311", mtrl_no |-> "S78588069",
             line_no |-> "B", layer_count |-> n, layers |-> layers]
SplAlive == [date |-> "", count |-> 10000, work_a |-> "x1", work_b |-> "099"]
BadDate  == [date |-> "20260227", count |-> 1]

MCSendable == {
  [tc |-> "1001", msg |-> Setup], [tc |-> "1002", msg |-> Material], [tc |-> "1010", msg |-> Result],
  [tc |-> "1099", msg |-> Alive], [tc |-> "1099", msg |-> BadDate],
  [tc |-> "1101", msg |-> Winding(25, <<"N", "", "HU">>)],
  [tc |-> "1101", msg |-> Winding(112, [i \in 1..26 |-> "U"])],
  [tc |-> "1199", msg |-> SplAlive]}

(* One that is skipped cleanly (its 1099 does not begin a word), one with   *)
(* a bundle number that reads as a type code, one that is not a whole      *)
(* number of words.                                                        *)
MCForeign == {[raw |-> "1003" \o Now14 \o "000032AB1099CD"],
              [raw |-> "1003" \o Now14 \o "0000281099"],
              [raw |-> "1003" \o Now14 \o "000026AB"]}
=============================================================================
