------------------------------- MODULE Winding -------------------------------
(***************************************************************************)
(* Sending a winding status (1101): send_winding_status of SPLTCPClient    *)
(* called by POST /api/send-winding and by the auto-winding task that a    *)
(* 1002 or the operator starts and that the next one, or the operator,     *)
(* cancels.  A send writes the telegram, records the coil, tells the       *)
(* browsers and, if FTP is configured, uploads 25 images from a temporary  *)
(* directory in a thread of the executor.                                  *)
(*                                                                         *)
(* The telegram's content is the identity of the send: "the coil shows s"  *)
(* is coil[b] = s.  A task step runs from one await to the next; cancel()  *)
(* is delivered at the task's next step, as in SPLClient.  Sends that are  *)
(* at an await go on in any order: not even drain() keeps that of writing. *)
(***************************************************************************)
EXTENDS Integers, FiniteSets

CONSTANTS Sends,     \* calls of send_winding_status, each made at most once
          Bundles,
          None       \* Python's None

ASSUME NoneAssumption == None \notin Sends \cup Bundles

VARIABLES
  ftp_enabled,            \* self.ftp_enabled
  connected,              \* self.writer is not None
  auto_winding_enabled,   \* data_store.auto_winding_enabled
  current_material,       \* data_store.current_material, by its bundle
  handler,                \* where _handle_material is, in the receive loop
  auto_winding_task,      \* self._auto_winding_task
  pc, bundle,             \* where each send is, and the bundle it is about
  autos,                  \* the sends made by an auto-winding task
  cancelled,              \* tasks whose next step is a CancelledError
  outcome,                \* how each send ended
  wire,                   \* the sends whose 1101 was written
  earlier,                \* history: those past their record when one is written
  coil,                   \* data_store.coils: the send whose layers it shows
  images,                 \* what became of each send's images
  ui                      \* the auto-winding lamp of a browser

link == <<ftp_enabled, connected>>
operator == <<auto_winding_enabled, current_material, handler, auto_winding_task>>
telegrams == <<wire, earlier>>
sends == <<pc, bundle, autos, cancelled, outcome, telegrams, coil, images>>
vars == <<link, operator, sends, ui>>

-----------------------------------------------------------------------------
(*   created  a task that has not run yet       drain   writer.drain()      *)
(*   log      broadcast packet_log              status  broadcast winding_status *)
(*   upload   run_in_executor                   result  broadcast ftp_upload_result *)
(*   final    the broadcast in _auto_winding_send's finally                 *)
InSend == {"drain", "log", "status", "upload", "result"}
Live == InSend \cup {"created", "final"}

TypeOK ==
  /\ {ftp_enabled, connected, auto_winding_enabled} \subseteq BOOLEAN
  /\ current_material \in Bundles \cup {None}
  /\ handler \in {"idle", "material", "starting", "raised"}
  /\ auto_winding_task \in autos \cup {None}
  /\ pc \in [Sends -> Live \cup {"idle", "done"}]
  /\ bundle \in [Sends -> Bundles \cup {None}]
  /\ autos \subseteq Sends
  /\ cancelled \subseteq autos
  /\ outcome \in [Sends -> {"open", "sent", "failed", "cancelled"}]
  /\ wire \subseteq Sends
  /\ earlier \in [Sends -> SUBSET Sends]
  /\ coil \in [Bundles -> Sends \cup {None}]
  /\ images \in [Sends -> {"none", "error", "temporary", "partly", "kept"}]
  /\ ui \in {"active", "idle", "unsure"}

Init ==
  /\ ftp_enabled \in BOOLEAN
  /\ connected = FALSE /\ auto_winding_enabled = FALSE
  /\ current_material = None
  /\ handler = "idle"
  /\ auto_winding_task = None
  /\ pc = [s \in Sends |-> "idle"]
  /\ bundle = [s \in Sends |-> None]
  /\ autos = {} /\ cancelled = {}
  /\ outcome = [s \in Sends |-> "open"]
  /\ wire = {}
  /\ earlier = [s \in Sends |-> {}]
  /\ coil = [b \in Bundles |-> None]
  /\ images = [s \in Sends |-> "none"]
  /\ ui = "idle"

Written(s) == s \in wire

(* A send that has recorded its coil, or ended without. *)
Recorded == {s \in Sends : pc[s] \notin {"idle", "created", "drain", "log"}}

(* auto_winding_changed reaches the browsers when its broadcast starts;    *)
(* what one shows is unsure if the broadcast raises before reaching it.    *)
TellActive(lamp) == ui' \in {lamp, "unsure"}

-----------------------------------------------------------------------------
(* One send.                                                               *)

(* Fault: a send without a connection waits for one. *)
BeginSendWaits(s) ==
  /\ connected
  /\ wire' = wire \cup {s}
  /\ earlier' = [earlier EXCEPT ![s] = Recorded]
  /\ pc' = [pc EXCEPT ![s] = "drain"]
  /\ UNCHANGED <<outcome, ui>>

(* send_packet up to drain(), or its refusal without a writer. *)
BeginSend(s) ==
  IF connected
  THEN /\ wire' = wire \cup {s}
       /\ earlier' = [earlier EXCEPT ![s] = Recorded]
       /\ pc' = [pc EXCEPT ![s] = "drain"]
       /\ UNCHANGED <<outcome, ui>>
  ELSE /\ outcome' = [outcome EXCEPT ![s] = "failed"]
       /\ pc' = [pc EXCEPT ![s] = IF s \in autos THEN "final" ELSE "done"]
       /\ IF s \in autos THEN TellActive("idle") ELSE UNCHANGED ui
       /\ UNCHANGED telegrams

(* send_winding_status is left; an auto send runs its finally. *)
LeaveSend(s, how) ==
  /\ outcome' = [outcome EXCEPT ![s] = how]
  /\ pc' = [pc EXCEPT ![s] = IF s \in autos THEN "final" ELSE "done"]
  /\ IF s \in autos THEN TellActive("idle") ELSE UNCHANGED ui

Drained(s) ==
  /\ pc[s] = "drain" /\ s \notin cancelled
  /\ pc' = [pc EXCEPT ![s] = "log"]
  /\ UNCHANGED <<link, operator, bundle, autos, cancelled, outcome, telegrams, coil, images, ui>>

(* drain() raises on a broken connection: send_packet returns False. *)
DrainFails(s) ==
  /\ pc[s] = "drain" /\ s \notin cancelled
  /\ LeaveSend(s, "failed")
  /\ UNCHANGED <<link, operator, bundle, autos, cancelled, telegrams, coil, images>>

(* Fault: the coil is not recorded. *)
LoggedUnrecorded(s) ==
  /\ pc[s] = "log" /\ s \notin cancelled
  /\ pc' = [pc EXCEPT ![s] = "status"]
  /\ UNCHANGED <<link, operator, bundle, autos, cancelled, outcome, telegrams,
                 coil, images, ui>>

(* send_packet returned True: the coil is recorded, then announced. *)
Logged(s) ==
  /\ pc[s] = "log" /\ s \notin cancelled
  /\ coil' = [coil EXCEPT ![bundle[s]] = s]
  /\ pc' = [pc EXCEPT ![s] = "status"]
  /\ UNCHANGED <<link, operator, bundle, autos, cancelled, outcome, telegrams, images, ui>>

(* Fault: a state of the images that nobody knows. *)
NoImagesMissing(s) ==
  /\ pc[s] = "status" /\ s \notin cancelled /\ ftp_enabled
  /\ images' = [images EXCEPT ![s] = "missing"]
  /\ pc' = [pc EXCEPT ![s] = "result"]
  /\ UNCHANGED <<link, operator, bundle, autos, cancelled, outcome, telegrams, coil,
                 ui>>

(* FTP is not configured: the send is over. *)
SentWithoutImages(s) ==
  /\ pc[s] = "status" /\ s \notin cancelled /\ ~ftp_enabled
  /\ LeaveSend(s, "sent")
  /\ UNCHANGED <<link, operator, bundle, autos, cancelled, telegrams, coil, images>>

(* No seed file, or a write that fails after which the directory is removed. *)
NoImages(s) ==
  /\ pc[s] = "status" /\ s \notin cancelled /\ ftp_enabled
  /\ images' = [images EXCEPT ![s] = "error"]
  /\ pc' = [pc EXCEPT ![s] = "result"]
  /\ UNCHANGED <<link, operator, bundle, autos, cancelled, outcome, telegrams, coil,
                 ui>>

(* The files are in a temporary directory, and a thread of the executor    *)
(* has started to upload them.                                             *)
GenerateImages(s) ==
  /\ pc[s] = "status" /\ s \notin cancelled /\ ftp_enabled
  /\ images' = [images EXCEPT ![s] = "temporary"]
  /\ pc' = [pc EXCEPT ![s] = "upload"]
  /\ UNCHANGED <<link, operator, bundle, autos, cancelled, outcome, telegrams, coil, ui>>

(* The thread is back with its results: the files are moved to the image   *)
(* directory and the temporary one is removed, with those that could not   *)
(* be moved.                                                               *)
Uploaded(s) ==
  /\ pc[s] = "upload" /\ s \notin cancelled
  /\ \E how \in {"kept", "partly"} : images' = [images EXCEPT ![s] = how]
  /\ pc' = [pc EXCEPT ![s] = "result"]
  /\ UNCHANGED <<link, operator, bundle, autos, cancelled, outcome, telegrams, coil,
                 ui>>

(* The thread raised, as it does at the first file that fails (FtpUpload): *)
(* nothing catches it, and the temporary directory stays.                  *)
UploadRaises(s) ==
  /\ pc[s] = "upload" /\ s \notin cancelled
  /\ LeaveSend(s, "failed")
  /\ UNCHANGED <<link, operator, bundle, autos, cancelled, telegrams, coil, images>>

(* Fault: the coil is recorded when the images are done. *)
ResultAnnouncedRecords(s) ==
  /\ pc[s] = "result" /\ s \notin cancelled
  /\ LeaveSend(s, "sent")
  /\ coil' = [coil EXCEPT ![bundle[s]] = s]
  /\ UNCHANGED <<link, operator, bundle, autos, cancelled, telegrams, images>>

ResultAnnounced(s) ==
  /\ pc[s] = "result" /\ s \notin cancelled
  /\ LeaveSend(s, "sent")
  /\ UNCHANGED <<link, operator, bundle, autos, cancelled, telegrams, coil, images>>

(* A broadcast raises RuntimeError (see SPLClient): nothing here catches it. *)
BroadcastRaises(s) ==
  /\ pc[s] \in {"log", "status", "result"} /\ s \notin cancelled
  /\ LeaveSend(s, "failed")
  /\ UNCHANGED <<link, operator, bundle, autos, cancelled, telegrams, coil, images>>

-----------------------------------------------------------------------------
(* The auto-winding task around a send.                                    *)

AutoBegins(s) ==
  /\ pc[s] = "created" /\ s \notin cancelled
  /\ BeginSend(s)
  /\ UNCHANGED <<link, operator, bundle, autos, cancelled, coil, images>>

(* The finally's broadcast is over, one way or the other. *)
AutoEnds(s) ==
  /\ pc[s] = "final" /\ s \notin cancelled
  /\ pc' = [pc EXCEPT ![s] = "done"]
  /\ UNCHANGED <<link, operator, bundle, autos, cancelled, outcome, telegrams, coil, images, ui>>

(* Within the send it goes through the finally; a task that never ran has  *)
(* no finally, and one in it has no other.  The thread is not interrupted. *)
CancelDelivered(s) ==
  /\ s \in cancelled
  /\ cancelled' = cancelled \ {s}
  /\ \/ /\ pc[s] \in InSend
        /\ LeaveSend(s, "cancelled")
     \/ /\ pc[s] \in {"created", "final"}
        /\ pc' = [pc EXCEPT ![s] = "done"]
        /\ outcome' = IF outcome[s] = "open"
                      THEN [outcome EXCEPT ![s] = "cancelled"] ELSE outcome
        /\ UNCHANGED ui
  /\ UNCHANGED <<link, operator, bundle, autos, telegrams, coil, images>>

-----------------------------------------------------------------------------
(* What starts and stops sends.                                            *)

ManualSend(s, b) ==
  /\ pc[s] = "idle"
  /\ bundle' = [bundle EXCEPT ![s] = b]
  /\ BeginSend(s)
  /\ UNCHANGED <<link, operator, autos, cancelled, coil, images>>

(* `if self._auto_winding_task and not done(): cancel()` *)
Running == {s \in {auto_winding_task} \cap autos : pc[s] \in Live}

(* Fault: the running task is not cancelled. *)
StartAutoBeside(s, b) ==
  /\ pc[s] = "idle"
  /\ auto_winding_task' = s
  /\ autos' = autos \cup {s}
  /\ bundle' = [bundle EXCEPT ![s] = b]
  /\ pc' = [pc EXCEPT ![s] = "created"]
  /\ TellActive("active")
  /\ UNCHANGED <<link, auto_winding_enabled, cancelled, outcome, telegrams, coil,
                 images>>

(* start_auto_winding up to its broadcast. *)
StartAuto(s, b) ==
  /\ pc[s] = "idle"
  /\ cancelled' = cancelled \cup Running
  /\ auto_winding_task' = s
  /\ autos' = autos \cup {s}
  /\ bundle' = [bundle EXCEPT ![s] = b]
  /\ pc' = [pc EXCEPT ![s] = "created"]
  /\ TellActive("active")
  /\ UNCHANGED <<link, auto_winding_enabled, outcome, telegrams, coil, images>>

(* POST /api/start-auto-winding; without a material nothing happens. *)
OperatorStarts(s) ==
  /\ current_material # None
  /\ StartAuto(s, current_material)
  /\ UNCHANGED <<current_material, handler>>

(* Fault: the stop is left for the task's finally to announce. *)
OperatorStopsSilently ==
  /\ cancelled' = cancelled \cup Running
  /\ auto_winding_task' = None
  /\ UNCHANGED <<link, auto_winding_enabled, current_material, handler, pc,
                 bundle, autos, outcome, telegrams, coil, images, ui>>

(* POST /api/stop-auto-winding *)
OperatorStops ==
  /\ cancelled' = cancelled \cup Running
  /\ auto_winding_task' = None
  /\ TellActive("idle")
  /\ UNCHANGED <<link, auto_winding_enabled, current_material, handler, pc,
                 bundle, autos, outcome, telegrams, coil, images>>

(* POST /api/toggle-auto-winding-enabled *)
OperatorEnables ==
  /\ auto_winding_enabled' \in BOOLEAN
  /\ UNCHANGED <<link, current_material, handler, auto_winding_task, sends, ui>>

(* A 1002: _handle_material up to its broadcast.  It creates the coil if   *)
(* there is none and leaves the layers of one that there is.               *)
MaterialArrives(b) ==
  /\ handler = "idle" /\ connected
  /\ current_material' = b
  /\ handler' = "material"
  /\ UNCHANGED <<link, auto_winding_enabled, auto_winding_task, sends, ui>>

MaterialTriggers(s) ==
  /\ handler = "material" /\ auto_winding_enabled
  /\ StartAuto(s, current_material)
  /\ handler' = "starting"
  /\ UNCHANGED current_material

(* Fault: the flag is not looked at again after the broadcast. *)
MaterialForgotten ==
  /\ handler = "material"
  /\ handler' = "idle"
  /\ UNCHANGED <<link, auto_winding_enabled, current_material,
                 auto_winding_task, sends, ui>>

(* Nothing to trigger, or the material_received broadcast raised: the      *)
(* handler's `except Exception` drops the trigger with it.                 *)
MaterialIgnored ==
  /\ handler = "material"
  /\ \/ ~auto_winding_enabled /\ handler' = "idle"
     \/ handler' = "raised"
  /\ UNCHANGED <<link, auto_winding_enabled, current_material,
                 auto_winding_task, sends, ui>>

HandlerReturns ==
  /\ handler \in {"starting", "raised"}
  /\ handler' = "idle"
  /\ UNCHANGED <<link, auto_winding_enabled, current_material,
                 auto_winding_task, sends, ui>>

(* SPLClient connects or gives a connection up; sends in flight go on. *)
ConnectionChanges ==
  /\ connected' = ~connected
  /\ UNCHANGED <<ftp_enabled, operator, sends, ui>>

-----------------------------------------------------------------------------
SendStep(s) == \/ Drained(s) \/ DrainFails(s) \/ Logged(s) \/ SentWithoutImages(s)
               \/ NoImages(s) \/ GenerateImages(s) \/ Uploaded(s) \/ UploadRaises(s)
               \/ ResultAnnounced(s) \/ BroadcastRaises(s)

AutoStep(s) == AutoBegins(s) \/ AutoEnds(s) \/ CancelDelivered(s)

Trigger == (\E s \in Sends : MaterialTriggers(s)) \/ MaterialIgnored

Next == \/ \E s \in Sends : SendStep(s) \/ AutoStep(s) \/ OperatorStarts(s)
        \/ \E s \in Sends, b \in Bundles : ManualSend(s, b)
        \/ \E b \in Bundles : MaterialArrives(b)
        \/ Trigger \/ HandlerReturns
        \/ OperatorStops \/ OperatorEnables \/ ConnectionChanges

Spec == Init /\ [][Next]_vars

(* The event loop runs every ready task, broadcasts come back (the web     *)
(* server drops a dead browser), and the FTP calls time out after 15 s.    *)
Fairness ==
  /\ \A s \in Sends : WF_vars(SendStep(s))
  /\ \A s \in Sends : WF_vars(AutoStep(s))
  /\ WF_vars(Trigger) /\ WF_vars(HandlerReturns)

FairSpec == Spec /\ Fairness

-----------------------------------------------------------------------------
(* Two auto sends are never under way side by side: all but the task the   *)
(* client knows of have been told to stop, or are past their send.         *)
OneAutoSend ==
  \A s \in autos \ cancelled :
     pc[s] \in InSend \cup {"created"} => s = auto_winding_task

(* A send reported as a success was written, its layers are the coil's or  *)
(* those of a telegram that had not been recorded before it was written    *)
(* are; with FTP its images are accounted for and none is left in the      *)
(* temporary directory, and without it there never were any.               *)
SuccessIsComplete ==
  \A s \in Sends : outcome[s] = "sent" =>
     /\ Written(s)
     /\ coil[bundle[s]] # None /\ coil[bundle[s]] \notin earlier[s]
     /\ images[s] \in IF ftp_enabled THEN {"error", "partly", "kept"} ELSE {"none"}

(* A coil takes up layers that were sent, and never goes back to a         *)
(* telegram that had been recorded, or given up, before the one it shows   *)
(* was written; sends that are under way together record in any order.     *)
CoilNeverGoesBack ==
  [][\A b \in Bundles : coil'[b] # coil[b] =>
        /\ Written(coil'[b])
        /\ coil[b] # None => coil'[b] \notin earlier[coil[b]]]_vars

(* Once no auto send is left, no browser that got the last event shows one *)
(* under way: the events of starts, stops, cancelled and finished tasks    *)
(* end on inactive in whatever order they come.                            *)
IdleIsShown == (\A s \in autos : pc[s] \notin Live) => ui # "active"

(* Every send comes to an end, cancelled or not. *)
SendsEnd == \A s \in Sends : (pc[s] \in Live) ~> (pc[s] = "done")

(* README, main flow 4: with auto winding enabled, the first 1002 of a     *)
(* bundle leads to its 1101, unless the operator or a newer 1002 cancels   *)
(* it, the connection refuses it, or a broadcast raised.                   *)
Unused == {s \in Sends : pc[s] = "idle"}
MaterialIsAnswered ==
  \A b \in Bundles :
    (/\ handler = "material" /\ auto_winding_enabled /\ current_material = b
     /\ \A s \in Sends : bundle[s] # b)
    ~> \/ \E s \in autos : /\ bundle[s] = b
                           /\ Written(s) \/ outcome[s] \in {"failed", "cancelled"}
       \/ ~auto_winding_enabled \/ handler = "raised" \/ Unused = {}
=============================================================================
