--------------------------- MODULE FtpUploadProofs ---------------------------
(***************************************************************************)
(* What a report says of an upload, for any number of files.               *)
(***************************************************************************)
EXTENDS FtpUpload, SequenceTheorems, TLAPS

(* What is reported before the thread ends: an "ok" for each file before   *)
(* the current one, and nothing else.                                      *)
OkSoFar == /\ Len(results) = file - 1
           /\ \A k \in 1 .. file - 1 : results[k] = Report(k, "ok")

ThreadInv ==
  /\ pc # "returned" => OkSoFar
  /\ pc = "connect" => file = 1
  /\ pc \in {"stor", "size", "list"} => file <= NFiles

(* A listing is asked for, on a server that knows SIZE, only of a file     *)
(* that is not there any more.                                             *)
ServerInv ==
  /\ \A df \in Dirs \X Files : remote[df] = "whole" => df \in received
  /\ pc = "list" /\ supports_size => remote[here] = "absent"

IInv == TypeOK /\ ThreadInv /\ ServerInv /\ OkWasReceived /\ ReportIsComplete

-----------------------------------------------------------------------------
(* What the outer except adds is a failure for each file left, and what    *)
(* was reported stays.                                                     *)
LEMMA GiveUpLemma ==
  ASSUME TypeOK, OkSoFar, GiveUp
  PROVE  /\ results' \in Seq([filename : Files, status : {"ok", "ftp_error"}])
         /\ Len(results') = NFiles
         /\ \A k \in 1 .. NFiles :
              results'[k] = Report(k, IF k < file THEN "ok" ELSE "ftp_error")
<1> DEFINE left == NFiles - Len(results)
           rest == [k \in 1 .. left |-> Report(Len(results) + k, "ftp_error")]
           Reports == [filename : Files, status : {"ok", "ftp_error"}]
<1>1. /\ Len(results) = file - 1 /\ file \in 1 .. NFiles + 1 /\ NFiles \in Nat
      /\ results \in Seq(Reports) /\ left \in Nat
  BY NFilesAssumption DEF TypeOK, OkSoFar
<1>2. rest \in Seq(Reports) /\ Len(rest) = left
  <2>1. \A k \in 1 .. left : Report(Len(results) + k, "ftp_error") \in Reports
    BY <1>1 DEF Report, Files
  <2>2. rest \in [1 .. left -> Reports]
    BY <2>1
  <2> HIDE DEF rest, left, Reports
  <2>3. rest \in Seq(Reports)
    BY <1>1, <2>2
  <2>4. DOMAIN rest = 1 .. left
    BY <2>2
  <2> QED BY <1>1, <2>3, <2>4, LenProperties
<1>3. results' = results \o rest
  BY DEF GiveUp
<1>4. results' \in Seq(Reports) /\ Len(results') = NFiles
  <2>1. results' \in Seq(Reports) /\ Len(results') = Len(results) + Len(rest)
    <3> HIDE DEF rest, Reports
    <3> QED BY <1>1, <1>2, <1>3, ConcatProperties
  <2> QED BY <1>1, <1>2, <2>1
<1>5. ASSUME NEW k \in 1 .. NFiles
      PROVE  results'[k] = Report(k, IF k < file THEN "ok" ELSE "ftp_error")
  <2>1. CASE k < file
    <3>1. results'[k] = results[k]
      BY <1>1, <1>2, <1>3, <2>1
    <3> QED BY <1>1, <2>1, <3>1 DEF OkSoFar
  <2>2. CASE ~(k < file)
    <3>1. k - Len(results) \in 1 .. left
      BY <1>1, <2>2
    <3>2. results'[k] = rest[k - Len(results)]
      <4>1. k \in Nat /\ k > Len(results) /\ k <= Len(results) + Len(rest)
        BY <1>1, <1>2, <2>2
      <4> HIDE DEF rest, left, Reports
      <4> QED BY <1>1, <1>2, <1>3, <4>1
    <3>3. rest[k - Len(results)] = Report(Len(results) + (k - Len(results)), "ftp_error")
      BY <3>1
    <3>4. Len(results) + (k - Len(results)) = k
      BY <1>1
    <3> QED BY <2>2, <3>2, <3>3, <3>4
  <2> QED BY <2>1, <2>2
<1> QED BY <1>4, <1>5

(* After it, the thread has returned and its report is complete; where the *)
(* files were received does not change.                                    *)
LEMMA GiveUpKeepsInv ==
  ASSUME IInv, pc # "returned", GiveUp, UNCHANGED server
  PROVE  IInv'
<1> USE DEF IInv
<1>1. OkSoFar
  BY DEF ThreadInv
<1>2. /\ results' \in Seq([filename : Files, status : {"ok", "ftp_error"}])
      /\ Len(results') = NFiles
      /\ \A k \in 1 .. NFiles :
           results'[k] = Report(k, IF k < file THEN "ok" ELSE "ftp_error")
  BY <1>1, GiveUpLemma
<1>3. TypeOK'
  BY <1>2 DEF TypeOK, GiveUp, server
<1>4. ThreadInv' /\ ServerInv'
  BY DEF GiveUp, ThreadInv, ServerInv, server
<1>5. DOMAIN results' = 1 .. NFiles
  BY <1>2, NFilesAssumption
<1>6. \A k \in 1 .. NFiles : k \in Oks' <=> k < file
  BY <1>2, <1>5 DEF Oks, Report
<1>7. OkWasReceived'
  <2> SUFFICES ASSUME NEW k \in Oks', supports_size
               PROVE  <<cwd, results'[k].filename>> \in received
    BY DEF OkWasReceived, GiveUp, server
  <2>1. k \in 1 .. NFiles /\ k < file
    BY <1>5, <1>6 DEF Oks
  <2>2. results'[k] = results[k] /\ k \in DOMAIN results
    BY <1>1, <1>2, <2>1, NFilesAssumption DEF OkSoFar, TypeOK
  <2>3. k \in Oks
    BY <1>1, <2>1, <2>2, NFilesAssumption DEF Oks, OkSoFar, Report, TypeOK
  <2> QED BY <2>2, <2>3 DEF OkWasReceived
<1>8. ReportIsComplete'
  <2>1. \A k \in DOMAIN results' : results'[k].filename = k
    BY <1>2, <1>5 DEF Report
  <2>2. \A k \in Oks' : 1 .. k \subseteq Oks'
    BY <1>5, <1>6, NFilesAssumption DEF Oks, TypeOK
  <2> QED BY <1>2, <2>1, <2>2 DEF ReportIsComplete
<1> QED BY <1>3, <1>4, <1>7, <1>8

(* A file is reported as uploaded: it is the current one, and the server   *)
(* had it.                                                                 *)
LEMMA VerifiedKeepsInv ==
  ASSUME IInv, pc \in {"size", "list"}, Verified, supports_size => remote[here] = "whole"
  PROVE  IInv'
<1> USE DEF IInv
<1> DEFINE Reports == [filename : Files, status : {"ok", "ftp_error"}]
<1>1. /\ file \in 1 .. NFiles /\ NFiles \in Nat /\ Len(results) = file - 1
      /\ results \in Seq(Reports)
      /\ \A k \in 1 .. file - 1 : results[k] = Report(k, "ok")
  BY NFilesAssumption DEF TypeOK, ThreadInv, OkSoFar
<1>2. Report(file, "ok") \in Reports
  BY <1>1 DEF Report, Files
<1>3. /\ results' \in Seq(Reports) /\ Len(results') = file
      /\ \A k \in 1 .. file : results'[k] = Report(k, "ok")
  <2>1. results' = Append(results, Report(file, "ok"))
    BY DEF Verified
  <2>2. results' \in Seq(Reports) /\ Len(results') = file
    BY <1>1, <1>2, <2>1
  <2>3. ASSUME NEW k \in 1 .. file
        PROVE  results'[k] = Report(k, "ok")
    <3>1. CASE k = file
      BY <1>1, <2>1, <3>1
    <3>2. CASE k # file
      <4>1. k \in 1 .. file - 1
        BY <1>1, <3>2
      <4>2. results'[k] = results[k]
        BY <1>1, <2>1, <4>1
      <4> QED BY <1>1, <4>1, <4>2
    <3> QED BY <3>1, <3>2
  <2> QED BY <2>2, <2>3
<1>4. file' = file + 1 /\ pc' = "next" /\ cwd' = cwd /\ received' = received
      /\ remote' = remote /\ supports_size' = supports_size /\ attempt' = attempt
  BY DEF Verified, server
<1>5. TypeOK'
  BY <1>1, <1>3, <1>4 DEF TypeOK
<1>6. ThreadInv'
  BY <1>1, <1>3, <1>4 DEF ThreadInv, OkSoFar
<1>7. ServerInv'
  BY <1>4 DEF ServerInv
<1>8. OkWasReceived'
  <2> SUFFICES ASSUME NEW k \in Oks', supports_size
               PROVE  <<cwd, results'[k].filename>> \in received
    BY <1>4 DEF OkWasReceived
  <2>1. k \in 1 .. file
    BY <1>1, <1>3 DEF Oks
  <2>2. results'[k].filename = k
    BY <1>3, <2>1 DEF Report
  <2>3. CASE k = file
    <3>1. here \in Dirs \X Files
      BY <1>1 DEF here, TypeOK, Files
    <3>2. here \in received
      BY <3>1 DEF ServerInv
    <3> QED BY <2>2, <2>3, <3>2 DEF here
  <2>4. CASE k # file
    <3>1. k \in 1 .. file - 1
      BY <1>1, <2>1, <2>4
    <3>2. k \in Oks /\ results[k].filename = k
      BY <1>1, <3>1 DEF Oks, Report
    <3> QED BY <2>2, <3>2 DEF OkWasReceived
  <2> QED BY <2>3, <2>4
<1>9. ReportIsComplete'
  BY <1>4 DEF ReportIsComplete
<1> QED BY <1>5, <1>6, <1>7, <1>8, <1>9

LEMMA InitIInv == Init => IInv
<1> SUFFICES ASSUME Init PROVE IInv
  OBVIOUS
<1>1. TypeOK
  BY NFilesAssumption, MaxRetriesAssumption DEF Init, TypeOK, Dirs
<1>2. ThreadInv
  BY NFilesAssumption DEF Init, ThreadInv, OkSoFar
<1>3. ServerInv
  BY DEF Init, ServerInv
<1>4. OkWasReceived /\ ReportIsComplete
  BY DEF Init, OkWasReceived, Oks, ReportIsComplete
<1> QED BY <1>1, <1>2, <1>3, <1>4 DEF IInv

LEMMA NextIInv == IInv /\ [Next]_vars => IInv'
<1> SUFFICES ASSUME IInv, [Next]_vars PROVE IInv'
  OBVIOUS
<1> USE NFilesAssumption, MaxRetriesAssumption
<1>1. CASE Connect
  <2>1. results' = results /\ file' = file /\ pc = "connect" /\ pc' = "next"
    BY <1>1 DEF Connect
  <2>2. TypeOK' /\ ThreadInv' /\ ServerInv'
    BY <1>1 DEF IInv, Connect, TypeOK, ThreadInv, OkSoFar, ServerInv, server, here
  <2>3. results = <<>>
    BY <2>1 DEF IInv, TypeOK, ThreadInv, OkSoFar
  <2>4. OkWasReceived' /\ ReportIsComplete'
    BY <2>1, <2>3 DEF OkWasReceived, ReportIsComplete, Oks
  <2> QED BY <2>2, <2>4 DEF IInv
<1>2. CASE ConnectFails
  BY <1>2, GiveUpKeepsInv DEF ConnectFails
<1>3. CASE BeginFile
  BY <1>3 DEF IInv, BeginFile, TypeOK, ThreadInv, OkSoFar, ServerInv, server, here,
              OkWasReceived, ReportIsComplete, Oks
<1>4. CASE LocalFileGone
  BY <1>4, GiveUpKeepsInv DEF LocalFileGone
<1>5. CASE Stor \/ StorFails
  <2>1. PICK got \in {remote[here], "part", "whole"} :
          /\ remote' = [remote EXCEPT ![here] = got]
          /\ received' = IF got = "whole" THEN received \cup {here} ELSE received
    BY <1>5 DEF Stor, StorFails
  <2>2. /\ UNCHANGED <<cwd, file, attempt, results, supports_size>>
        /\ pc = "stor" /\ pc' \in {"size", "raised"}
    BY <1>5 DEF Stor, StorFails, Fail
  <2>3. here \in Dirs \X Files /\ got \in {"absent", "part", "whole"}
    <3>1. cwd \in Dirs /\ file \in Files
      BY <2>2 DEF IInv, TypeOK, ThreadInv, Files
    <3>2. here \in Dirs \X Files
      BY <3>1 DEF here
    <3>3. remote[here] \in {"absent", "part", "whole"}
      BY <3>2 DEF IInv, TypeOK
    <3> QED BY <3>2, <3>3
  <2>4. TypeOK'
    BY <2>1, <2>2, <2>3 DEF IInv, TypeOK
  <2>5. ThreadInv'
    BY <2>2 DEF IInv, ThreadInv, OkSoFar
  <2>6. ServerInv'
    BY <2>1, <2>2, <2>3 DEF IInv, ServerInv, TypeOK
  <2>7. received \subseteq received'
    BY <2>1
  <2>8. OkWasReceived' /\ ReportIsComplete'
    BY <2>2, <2>7 DEF IInv, OkWasReceived, ReportIsComplete, Oks
  <2> QED BY <2>4, <2>5, <2>6, <2>8 DEF IInv
<1>6. CASE SizeAgrees
  BY <1>6, VerifiedKeepsInv DEF SizeAgrees
<1>7. CASE SizeDiffers \/ NotListed \/ VerifyFails
  BY <1>7 DEF IInv, SizeDiffers, NotListed, VerifyFails, Fail, TypeOK, ThreadInv, OkSoFar,
              ServerInv, server, here, OkWasReceived, ReportIsComplete, Oks
<1>8. CASE SizeRefused
  BY <1>8 DEF IInv, SizeRefused, TypeOK, ThreadInv, OkSoFar, ServerInv, server, here,
              OkWasReceived, ReportIsComplete, Oks
<1>9. CASE Listed
  <2>1. ~supports_size
    BY <1>9 DEF IInv, Listed, ServerInv
  <2> QED BY <1>9, <2>1, VerifiedKeepsInv DEF Listed
<1>10. CASE Return
  <2>1. file = NFiles + 1 /\ OkSoFar
    BY <1>10 DEF Return, IInv, TypeOK, ThreadInv
  <2>2. UNCHANGED <<cwd, file, attempt, results, server>> /\ pc' = "returned"
    BY <1>10 DEF Return
  <2>3. TypeOK' /\ ThreadInv' /\ ServerInv' /\ OkWasReceived'
    BY <2>2 DEF IInv, TypeOK, ThreadInv, ServerInv, server, OkWasReceived, Oks
  <2>4. DOMAIN results = 1 .. NFiles
    BY <2>1 DEF OkSoFar, IInv, TypeOK
  <2>5. \A k \in 1 .. NFiles : results[k].filename = k /\ k \in Oks
    BY <2>1, <2>4 DEF OkSoFar, Oks, Report
  <2>6. Oks = 1 .. NFiles
    BY <2>4, <2>5 DEF Oks
  <2>7. ReportIsComplete'
    BY <2>1, <2>2, <2>4, <2>5, <2>6 DEF ReportIsComplete, OkSoFar, Oks
  <2> QED BY <2>3, <2>7 DEF IInv
<1>11. ASSUME NEW df \in Dirs \X Files, Consume(df)
       PROVE  IInv'
  BY <1>11 DEF IInv, Consume, TypeOK, ThreadInv, OkSoFar, ServerInv, thread, here,
               OkWasReceived, ReportIsComplete, Oks
<1>12. CASE UNCHANGED vars
  BY <1>12 DEF IInv, vars, thread, server, TypeOK, ThreadInv, OkSoFar, ServerInv, here,
               OkWasReceived, ReportIsComplete, Oks
<1> QED BY <1>1, <1>2, <1>3, <1>4, <1>5, <1>6, <1>7, <1>8, <1>9, <1>10, <1>11, <1>12
        DEF Next, Step

LEMMA Invariance == Spec => []IInv
<1> QED BY InitIInv, NextIInv, PTL DEF Spec

(* The thread's state keeps its type, for any number of files.             *)
THEOREM TypeCorrect == Spec => []TypeOK
<1>1. IInv => TypeOK BY DEF IInv
<1> QED BY <1>1, Invariance, PTL

(* A file reported as uploaded got to the directory the session is in,     *)
(* however soon the server takes files away.                               *)
THEOREM OkCorrect == Spec => []OkWasReceived
<1>1. IInv => OkWasReceived BY DEF IInv
<1> QED BY <1>1, Invariance, PTL

(* A report that is returned names every file once, in order, with the     *)
(* failures after the successes.                                           *)
THEOREM ReportCorrect == Spec => []ReportIsComplete
<1>1. IInv => ReportIsComplete BY DEF IInv
<1> QED BY <1>1, Invariance, PTL
=============================================================================
