------------------------------ MODULE FtpUpload ------------------------------
(***************************************************************************)
(* _ftp_upload_files of SPLTCPClient, the thread of the executor that puts *)
(* the images of one winding send on the FTP server, beside a server that  *)
(* takes files out of its directory whenever it likes.                     *)
(*                                                                         *)
(* What the source writes after a failed attempt, another attempt after a  *)
(* look at the connection, is never run.  The clause that leads there,     *)
(*     except (ftplib.all_errors, OSError) as e                            *)
(* names a tuple within a tuple (ftplib.all_errors is one); Python 3 takes *)
(* only exception classes there and raises a TypeError instead, which no   *)
(* later clause catches.  So an attempt that fails ends the thread.        *)
(***************************************************************************)
EXTENDS Integers, Sequences

CONSTANTS NFiles,        \* files of a send (25 in the code)
          MaxRetries     \* max_retries

ASSUME NFilesAssumption == NFiles \in Nat \ {0}
ASSUME MaxRetriesAssumption == MaxRetries \in Nat \ {0}

Files == 1 .. NFiles
Dirs == {"login", "ftp_dir"}

VARIABLES
  pc,              \* the call the thread is at
  cwd,             \* the directory the session is in
  file, attempt,   \* the loops' positions
  results,         \* what will be reported, in order
  supports_size,   \* whether the server knows SIZE; it never changes
  remote,          \* what is in the server's directories
  received         \* history: the files each directory got whole

thread == <<pc, cwd, file, attempt, results>>
server == <<supports_size, remote, received>>
vars == <<thread, server>>

TypeOK ==
  /\ pc \in {"connect", "next", "stor", "size", "list", "returned", "raised"}
  /\ cwd \in Dirs
  /\ file \in 1 .. NFiles + 1
  /\ attempt \in 0 .. MaxRetries
  /\ results \in Seq([filename : Files, status : {"ok", "ftp_error"}])
  /\ supports_size \in BOOLEAN
  /\ remote \in [Dirs \X Files -> {"absent", "part", "whole"}]
  /\ received \subseteq Dirs \X Files

Init ==
  /\ pc = "connect" /\ cwd = "login" /\ file = 1 /\ attempt = 0
  /\ results = <<>>
  /\ supports_size \in BOOLEAN
  /\ remote = [df \in Dirs \X Files |-> "absent"]
  /\ received = {}

here == <<cwd, file>>   \* where the current file goes

-----------------------------------------------------------------------------
Report(f, status) == [filename |-> f, status |-> status]

(* Fault: another status. *)
GiveUpAsError ==
  /\ results' = results \o [k \in 1 .. NFiles - Len(results) |->
                              Report(Len(results) + k, "error")]
  /\ pc' = "returned"
  /\ UNCHANGED <<cwd, file, attempt>>

(* Fault: a result for every file, those that have one included. *)
GiveUpOnAll ==
  /\ results' = results \o [k \in Files |-> Report(k, "ftp_error")]
  /\ pc' = "returned"
  /\ UNCHANGED <<cwd, file, attempt>>

(* The outer except: every file without a result gets one, and the thread  *)
(* returns.                                                                *)
GiveUp ==
  /\ results' = results \o [k \in 1 .. NFiles - Len(results) |->
                              Report(Len(results) + k, "ftp_error")]
  /\ pc' = "returned"
  /\ UNCHANGED <<cwd, file, attempt>>

(* The directory is entered, made first if need be; if it can be neither   *)
(* entered nor made, the session stays where the login put it.             *)
Connect ==
  /\ pc = "connect"
  /\ cwd' \in Dirs
  /\ pc' = "next"
  /\ UNCHANGED <<file, attempt, results, server>>

ConnectFails ==
  /\ pc = "connect"
  /\ GiveUp
  /\ UNCHANGED server

(* os.path.getsize of the next file, and its first attempt. *)
BeginFile ==
  /\ pc = "next" /\ file <= NFiles
  /\ attempt' = 1
  /\ pc' = "stor"
  /\ UNCHANGED <<cwd, file, results, server>>

(* getsize raises: the local file is gone. *)
LocalFileGone ==
  /\ pc = "next" /\ file <= NFiles
  /\ GiveUp
  /\ UNCHANGED server

(* The except clause of the attempt: a TypeError. *)
Fail ==
  /\ pc' = "raised"
  /\ UNCHANGED <<cwd, file, attempt, results>>

(* STOR is answered by 226; the server may have got less than was sent. *)
Stor ==
  /\ pc = "stor"
  /\ \E got \in {"part", "whole"} :
        /\ remote' = [remote EXCEPT ![here] = got]
        /\ received' = IF got = "whole" THEN received \cup {here} ELSE received
  /\ pc' = "size"
  /\ UNCHANGED <<cwd, file, attempt, results, supports_size>>

(* STOR is refused, times out or is cut off, early or late. *)
StorFails ==
  /\ pc = "stor"
  /\ \E got \in {remote[here], "part", "whole"} :
        /\ remote' = [remote EXCEPT ![here] = got]
        /\ received' = IF got = "whole" THEN received \cup {here} ELSE received
  /\ Fail
  /\ UNCHANGED supports_size

(* The file is on the server. *)
Verified ==
  /\ results' = Append(results, Report(file, "ok"))
  /\ file' = file + 1
  /\ pc' = "next"
  /\ UNCHANGED <<cwd, attempt, server>>

SizeAgrees ==
  /\ pc = "size" /\ supports_size /\ remote[here] = "whole"
  /\ Verified

SizeDiffers ==
  /\ pc = "size" /\ supports_size /\ remote[here] = "part"
  /\ Fail
  /\ UNCHANGED server

(* error_perm: no SIZE on this server, or the file is no longer there. *)
SizeRefused ==
  /\ pc = "size"
  /\ ~supports_size \/ remote[here] = "absent"
  /\ pc' = "list"
  /\ UNCHANGED <<cwd, file, attempt, results, server>>

Listed ==
  /\ pc = "list" /\ remote[here] # "absent"
  /\ Verified

(* Fault: no look at the names of the listing. *)
NotListedIgnored ==
  /\ pc = "list" /\ remote[here] = "absent"
  /\ Verified

(* The server has taken the file already. *)
NotListed ==
  /\ pc = "list" /\ remote[here] = "absent"
  /\ Fail
  /\ UNCHANGED server

(* SIZE or NLST fails otherwise: a timeout, a lost connection. *)
VerifyFails ==
  /\ pc \in {"size", "list"}
  /\ Fail
  /\ UNCHANGED server

(* The last listing is for the log only; then quit(). *)
Return ==
  /\ pc = "next" /\ file > NFiles
  /\ pc' = "returned"
  /\ UNCHANGED <<cwd, file, attempt, results, server>>

(* The server's side: a file is consumed. *)
Consume(df) ==
  /\ remote[df] # "absent"
  /\ remote' = [remote EXCEPT ![df] = "absent"]
  /\ UNCHANGED <<thread, supports_size, received>>

-----------------------------------------------------------------------------
Step == \/ Connect \/ ConnectFails \/ BeginFile \/ LocalFileGone
        \/ Stor \/ StorFails \/ SizeAgrees \/ SizeDiffers \/ SizeRefused
        \/ Listed \/ NotListed \/ VerifyFails \/ Return

Next == Step \/ \E df \in Dirs \X Files : Consume(df)

Spec == Init /\ [][Next]_vars

-----------------------------------------------------------------------------
Oks == {k \in DOMAIN results : results[k].status = "ok"}

(* A file reported as uploaded got to the server: whole, if it can tell    *)
(* sizes, however soon the server takes files away.                        *)
OkWasReceived ==
  \A k \in Oks :
     LET df == <<cwd, results[k].filename>>
     IN  supports_size => df \in received

(* The caller's report is complete and unambiguous: once, and in order,    *)
(* for every file, the failures all after the successes.                   *)
ReportIsComplete ==
  pc = "returned" =>
     /\ Len(results) = NFiles
     /\ \A k \in DOMAIN results : results[k].filename = k
     /\ \A k \in Oks : 1 .. k \subseteq Oks

(* README, FTP flow: a failed upload is tried up to three times. *)
FailureIsRetried == pc = "raised" => attempt = MaxRetries
=============================================================================
