------------------------------ MODULE ImageFiles ------------------------------
(***************************************************************************)
(* The local image directory: _generate_and_upload_images of SPLTCPClient  *)
(* moves the images of a winding send into it when their upload is over,   *)
(* and _rename_files_for_result_change renames them when L2 changes a      *)
(* judgement by a 1010 telegram.                                           *)
(*                                                                         *)
(* A file name is <prefix>_<status>[.<ext>]; the prefix, which ends in     *)
(* Lnn, is the batch of a send (its date and coil) and a layer.  Nothing   *)
(* is awaited while the names of a telegram are worked through, so nothing *)
(* else happens while `todo` is not empty.                                 *)
(***************************************************************************)
EXTENDS Integers, Sequences, FiniteSets

CONSTANTS Sends,      \* winding sends, each made at most once
          Batches,    \* a batch may be sent twice: with the date given, or in one second
          NoBatch,    \* the batch of a send that was not made
          Layers, Statuses,
          Blank, Garbled,   \* an empty field of a 1010, a name without a prefix
          MaxNames    \* fields of a telegram (10 in the code)

ASSUME NoBatchAssumption == NoBatch \notin Batches
ASSUME MaxNamesAssumption == MaxNames \in Nat

Prefixes == Batches \X Layers
Names == [prefix : Prefixes, status : Statuses, ext : {"", "jpg", "png"}]
Fields == Names \cup {Blank, Garbled}

ASSUME FieldsAssumption == {Blank, Garbled} \cap Names = {}

VARIABLES
  image_dir,   \* the names in self.image_dir
  tmp_dir,     \* the names in the temporary directory of each send
  upload,      \* whether the upload of a send is "idle", "running" or "over"
  batch,       \* the batch of each send
  todo,        \* fields of the 1010 being handled that are still to do
  judged       \* history: the last judgement of each image and its answer

vars == <<image_dir, tmp_dir, upload, batch, todo, judged>>

Unjudged == [status |-> "", answer |-> "none"]

TypeOK ==
  /\ image_dir \subseteq Names
  /\ tmp_dir \in [Sends -> SUBSET Names]
  /\ upload \in [Sends -> {"idle", "running", "over"}]
  /\ batch \in [Sends -> Batches \cup {NoBatch}]
  /\ todo \in Seq(Fields)
  /\ judged \in [Prefixes -> {Unjudged} \cup
                   [status : Statuses, answer : {"ok", "not_found", "error"}]]

Init ==
  /\ image_dir = {}
  /\ tmp_dir = [s \in Sends |-> {}]
  /\ upload = [s \in Sends |-> "idle"]
  /\ batch = [s \in Sends |-> NoBatch]
  /\ todo = <<>>
  /\ judged = [p \in Prefixes |-> Unjudged]

-----------------------------------------------------------------------------
(* The images of a send.                                                   *)

(* One file per layer, named after the layer's status. *)
Generate(s, b, layers) ==
  /\ todo = <<>> /\ upload[s] = "idle"
  /\ upload' = [upload EXCEPT ![s] = "running"]
  /\ batch' = [batch EXCEPT ![s] = b]
  /\ tmp_dir' = [tmp_dir EXCEPT ![s] =
       {[prefix |-> <<b, l>>, status |-> layers[l], ext |-> "jpg"] : l \in Layers}]
  /\ UNCHANGED <<image_dir, todo, judged>>

(* The upload has returned.  A file that cannot be moved goes with the     *)
(* temporary directory, without a word.  An upload that raised, or whose   *)
(* send was cancelled, stays "running": its files never move.              *)
MoveImages(s) ==
  /\ todo = <<>> /\ upload[s] = "running"
  /\ \E moved \in SUBSET tmp_dir[s] : image_dir' = image_dir \cup moved
  /\ tmp_dir' = [tmp_dir EXCEPT ![s] = {}]
  /\ upload' = [upload EXCEPT ![s] = "over"]
  /\ UNCHANGED <<batch, todo, judged>>

-----------------------------------------------------------------------------
(* A 1010.                                                                 *)

ResultChange(fields) ==
  /\ todo = <<>>
  /\ todo' = fields
  /\ UNCHANGED <<image_dir, tmp_dir, upload, batch, judged>>

new == Head(todo)                                     \* the name being worked on
Matches == {f \in image_dir : f.prefix = new.prefix}        \* glob("<prefix>_*")
DifferentMatches == {f \in Matches : f.status # new.status}

(* A name without an extension takes the old file's. *)
FinalName(old) == [new EXCEPT !.ext = IF @ = "" THEN old.ext ELSE @]

(* The name is done; an image that is not there yet may be on its way. *)
Answered(answer) ==
  /\ judged' = IF answer = "not_found" /\ \A s \in Sends : \A f \in tmp_dir[s] :
                                            f.prefix # new.prefix
               THEN judged
               ELSE [judged EXCEPT ![new.prefix] =
                       [status |-> new.status, answer |-> answer]]
  /\ todo' = Tail(todo)
  /\ UNCHANGED <<tmp_dir, upload, batch>>

(* An empty field, or parse_error. *)
SkipField ==
  /\ todo # <<>> /\ new \in {Blank, Garbled}
  /\ todo' = Tail(todo)
  /\ UNCHANGED <<image_dir, tmp_dir, upload, batch, judged>>

NotFound ==
  /\ todo # <<>> /\ new \in Names
  /\ Matches = {}
  /\ Answered("not_found")
  /\ UNCHANGED image_dir

(* Fault: an answer of its own. *)
AlreadyExistsApart ==
  /\ todo # <<>> /\ new \in Names
  /\ Matches # {} /\ DifferentMatches = {}
  /\ Answered("already_exists")
  /\ UNCHANGED image_dir

AlreadyExists ==
  /\ todo # <<>> /\ new \in Names
  /\ Matches # {} /\ DifferentMatches = {}
  /\ Answered("ok")
  /\ UNCHANGED image_dir

(* Fault: the old name stays (a copy, or a link). *)
RenamedBeside ==
  /\ todo # <<>> /\ new \in Names
  /\ \E old \in DifferentMatches : image_dir' = image_dir \cup {FinalName(old)}
  /\ Answered("ok")

(* The first match in the directory's order, which is any, is renamed;     *)
(* POSIX replaces a file that has the new name.                            *)
Renamed ==
  /\ todo # <<>> /\ new \in Names
  /\ \E old \in DifferentMatches :
        image_dir' = (image_dir \ {old}) \cup {FinalName(old)}
  /\ Answered("ok")

(* The system refuses: the file is in use, or Windows finds the new name   *)
(* taken.                                                                  *)
RenameFails ==
  /\ todo # <<>> /\ new \in Names
  /\ DifferentMatches # {}
  /\ Answered("error")
  /\ UNCHANGED image_dir

-----------------------------------------------------------------------------
Rename == SkipField \/ NotFound \/ AlreadyExists \/ Renamed \/ RenameFails

Next == \/ \E s \in Sends, b \in Batches, layers \in [Layers -> Statuses] :
             Generate(s, b, layers)
        \/ \E s \in Sends : MoveImages(s)
        \/ \E n \in 1 .. MaxNames : \E fields \in [1 .. n -> Fields] : ResultChange(fields)
        \/ Rename

Spec == Init /\ [][Next]_vars

-----------------------------------------------------------------------------
SentOnce(b) == \A s, t \in Sends : batch[s] = b /\ batch[t] = b => s = t

(* The answer ok is lasting: until the next 1010 about it, an image that   *)
(* was reported as renamed, or as right already, is there under its new    *)
(* judgement, whatever other names, sends and uploads come in between; and *)
(* if its batch was sent once, under no other judgement.                   *)
JudgementHolds ==
  \A p \in Prefixes : judged[p].answer = "ok" =>
    LET images == {f \in image_dir : f.prefix = p}
    IN  /\ \E f \in images : f.status = judged[p].status
        /\ SentOnce(p[1]) => \A f \in images : f.status = judged[p].status
=============================================================================
