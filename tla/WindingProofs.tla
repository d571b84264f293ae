---------------------------- MODULE WindingProofs ----------------------------
(***************************************************************************)
(* What sends of windings leave behind, for any number of sends and        *)
(* bundles.                                                                *)
(***************************************************************************)
EXTENDS Winding, TLAPS

(* Where a send is tells what it has done already.                         *)
Progress ==
  /\ \A s \in Sends : pc[s] # "idle" => bundle[s] \in Bundles
  /\ \A s \in autos : pc[s] # "idle"
  /\ handler = "material" => current_material \in Bundles
  /\ \A s \in Sends : pc[s] \in InSend => Written(s)
  /\ \A s \in Sends : Written(s) => pc[s] \notin {"idle", "created"}
  /\ \A s \in Sends : outcome[s] = "sent" => pc[s] \in {"final", "done"}

Images ==
  \A s \in Sends :
    /\ pc[s] \in {"upload", "result"} => ftp_enabled
    /\ pc[s] = "result" \/ (outcome[s] = "sent" /\ ftp_enabled)
         => images[s] \in {"error", "partly", "kept"}
    /\ ~ftp_enabled => images[s] = "none"

(* Of the sends that had recorded before another was written none is on    *)
(* the way to its record.                                                  *)
EarlierIsOver == \A s \in Sends : earlier[s] \subseteq Recorded

CoilIsKept ==
  \A s \in Sends : pc[s] \in {"status", "upload", "result"} \/ outcome[s] = "sent" =>
    Written(s) /\ coil[bundle[s]] # None /\ coil[bundle[s]] \notin earlier[s]

(* The lamp is known to be on only for the task that is known. *)
LampOfTask == ui = "active" => /\ auto_winding_task \in autos \ cancelled
                               /\ pc[auto_winding_task] \in InSend \cup {"created"}

IInv == /\ TypeOK /\ Progress /\ Images /\ EarlierIsOver /\ CoilIsKept
        /\ OneAutoSend /\ LampOfTask

-----------------------------------------------------------------------------
(* Steps that several actions have in common.                              *)

(* Past its record a send stays so.                                        *)
LEMMA RecordedStays ==
  ASSUME EarlierIsOver, earlier' = earlier, Recorded \subseteq Recorded'
  PROVE  EarlierIsOver'
BY DEF EarlierIsOver

(* A send is left, with a success only when all is done.                   *)
LEMMA Leaving ==
  ASSUME IInv, NEW s \in Sends, pc[s] \in InSend,
         NEW how \in {"sent", "failed", "cancelled"},
         how = "sent" => pc[s] = "result" \/ (pc[s] = "status" /\ ~ftp_enabled),
         LeaveSend(s, how), cancelled' \in {cancelled, cancelled \ {s}},
         UNCHANGED <<link, operator, bundle, autos, telegrams, coil, images>>
  PROVE  IInv'
<1> USE DEF IInv, LeaveSend, InSend, Live, link, operator, telegrams
<1>1. TypeOK'
  BY DEF TypeOK, TellActive
<1>2. \A t \in Sends : t # s => pc'[t] = pc[t] /\ outcome'[t] = outcome[t]
  BY DEF TypeOK
<1>3. pc'[s] \in {"final", "done"} /\ outcome'[s] = how
  BY DEF TypeOK
<1>4. Progress' /\ Images'
  BY <1>2, <1>3 DEF Progress, Images, Written, TypeOK
<1>5. EarlierIsOver'
  BY <1>2, <1>3, RecordedStays DEF Recorded
<1>6. CoilIsKept'
  BY <1>2, <1>3 DEF CoilIsKept, Written
<1>7. OneAutoSend' /\ LampOfTask'
  BY <1>2, <1>3 DEF OneAutoSend, LampOfTask, TypeOK, TellActive
<1> QED BY <1>1, <1>4, <1>5, <1>6, <1>7

(* A send begins: its telegram is written, or it fails at once. *)
LEMMA Beginning ==
  ASSUME IInv, NEW s \in Sends, BeginSend(s),
         \/ pc[s] = "idle" /\ s \notin autos /\ bundle' \in [Sends -> Bundles \cup {None}]
            /\ bundle'[s] \in Bundles /\ \A t \in Sends : t # s => bundle'[t] = bundle[t]
         \/ pc[s] = "created" /\ s \notin cancelled /\ bundle' = bundle,
         UNCHANGED <<link, operator, autos, cancelled, coil, images>>
  PROVE  IInv'
<1> USE DEF IInv, InSend, Live, link, operator
<1>1. ~Written(s) /\ outcome[s] # "sent" /\ bundle'[s] \in Bundles
  BY DEF Progress
<1>2. \A t \in Sends : t # s => bundle'[t] = bundle[t]
  OBVIOUS
<1>3. CASE connected
  <2>1. /\ wire' = wire \cup {s} /\ pc' = [pc EXCEPT ![s] = "drain"] /\ UNCHANGED <<outcome, ui>>
        /\ earlier' = [earlier EXCEPT ![s] = Recorded]
    BY <1>3 DEF BeginSend
  <2>2. TypeOK'
    BY <2>1 DEF TypeOK, Recorded
  <2>3. Progress' /\ Images'
    BY <1>1, <1>2, <2>1 DEF Progress, Images, Written, TypeOK
  <2>4. EarlierIsOver'
    BY <2>1 DEF EarlierIsOver, Recorded, TypeOK
  <2>5. CoilIsKept'
    BY <1>1, <1>2, <2>1 DEF CoilIsKept, Written, TypeOK
  <2>6. OneAutoSend' /\ LampOfTask'
    BY <2>1 DEF OneAutoSend, LampOfTask, TypeOK
  <2> QED BY <2>2, <2>3, <2>4, <2>5, <2>6
<1>4. CASE ~connected
  <2>1. /\ outcome' = [outcome EXCEPT ![s] = "failed"]
        /\ pc' = [pc EXCEPT ![s] = IF s \in autos THEN "final" ELSE "done"]
        /\ IF s \in autos THEN TellActive("idle") ELSE UNCHANGED ui
        /\ wire' = wire /\ earlier' = earlier
    BY <1>4 DEF BeginSend, telegrams
  <2>2. TypeOK'
    BY <2>1 DEF TypeOK, TellActive
  <2>3. Progress' /\ Images'
    BY <1>1, <1>2, <2>1 DEF Progress, Images, Written, TypeOK
  <2>4. EarlierIsOver'
    BY <2>1, RecordedStays DEF Recorded, TypeOK
  <2>5. CoilIsKept'
    BY <1>1, <1>2, <2>1 DEF CoilIsKept, Written, TypeOK
  <2>6. OneAutoSend' /\ LampOfTask'
    BY <2>1 DEF OneAutoSend, LampOfTask, TypeOK, TellActive
  <2> QED BY <2>2, <2>3, <2>4, <2>5, <2>6
<1> QED BY <1>3, <1>4

(* An auto task takes the place of the one before it. *)
LEMMA Starting ==
  ASSUME IInv, NEW s \in Sends, NEW b \in Bundles, StartAuto(s, b),
         current_material' = current_material,
         handler' \in {handler, "starting"}
  PROVE  IInv'
<1> USE DEF IInv, StartAuto, InSend, Live, link, telegrams
<1>1. TypeOK'
  BY DEF TypeOK, TellActive, Running
<1>2. /\ \A t \in Sends : t # s => pc'[t] = pc[t] /\ bundle'[t] = bundle[t]
      /\ pc[s] = "idle" /\ pc'[s] = "created" /\ bundle'[s] = b
      /\ autos' = autos \cup {s} /\ auto_winding_task' = s /\ s \notin autos
      /\ cancelled' = cancelled \cup Running
  BY DEF TypeOK, Progress
<1>3. ~Written(s) /\ outcome[s] # "sent"
  BY <1>2 DEF Progress
<1>4. Progress' /\ Images'
  BY <1>2, <1>3 DEF Progress, Images, Written, TypeOK
<1>5. EarlierIsOver'
  BY <1>2, RecordedStays DEF Recorded
<1>6. CoilIsKept'
  BY <1>2, <1>3 DEF CoilIsKept, Written
<1>7. OneAutoSend'
  BY <1>2 DEF OneAutoSend, Running, TypeOK
<1>8. LampOfTask'
  BY <1>2 DEF LampOfTask, Running, TypeOK
<1> QED BY <1>1, <1>4, <1>5, <1>6, <1>7, <1>8

(* The coil is recorded: nobody whose telegram was written since the sender *)
(* began counts it among the earlier ones.                                 *)
LEMMA Recording ==
  ASSUME IInv, NEW s \in Sends, Logged(s)
  PROVE  IInv'
<1> USE DEF IInv, Logged, link, operator, telegrams
<1>1. TypeOK' /\ bundle[s] \in Bundles /\ Written(s)
  BY DEF TypeOK, Progress, InSend, Live
<1>2. /\ \A t \in Sends : t # s => pc'[t] = pc[t]
      /\ pc[s] = "log" /\ pc'[s] = "status"
      /\ coil'[bundle[s]] = s
      /\ \A b \in Bundles : b # bundle[s] => coil'[b] = coil[b]
  BY <1>1 DEF TypeOK
<1>3. Progress' /\ Images'
  BY <1>2 DEF Progress, Images, Written, InSend, TypeOK
<1>4. EarlierIsOver'
  BY <1>2, RecordedStays DEF Recorded
<1>5. \A t \in Sends : s \notin earlier[t]
  BY <1>2 DEF EarlierIsOver, Recorded
<1>6. CoilIsKept'
  <2> SUFFICES ASSUME NEW t \in Sends,
                      pc'[t] \in {"status", "upload", "result"} \/ outcome[t] = "sent"
               PROVE  Written(t) /\ coil'[bundle[t]] # None /\ coil'[bundle[t]] \notin earlier[t]
    BY DEF CoilIsKept, Written
  <2>1. CASE bundle[t] = bundle[s]
    <3>1. Written(t)
      BY <1>1, <1>2 DEF CoilIsKept
    <3> QED BY <1>2, <1>5, <2>1, <3>1, NoneAssumption
  <2>2. CASE bundle[t] # bundle[s]
    <3>1. bundle[t] \in Bundles /\ t # s
      BY <1>2, <2>2 DEF Progress
    <3> QED BY <1>2, <2>2, <3>1 DEF CoilIsKept
  <2> QED BY <2>1, <2>2
<1>7. OneAutoSend' /\ LampOfTask'
  BY <1>2 DEF OneAutoSend, LampOfTask, InSend, TypeOK
<1> QED BY <1>1, <1>3, <1>4, <1>6, <1>7

(* Steps of one send, or of none, that write and record nothing.           *)
LEMMA Advancing ==
  ASSUME IInv, NEW s \in Sends,
         Drained(s) \/ NoImages(s) \/ GenerateImages(s) \/ Uploaded(s) \/ AutoEnds(s)
  PROVE  IInv'
<1> USE DEF IInv, Drained, NoImages, GenerateImages, Uploaded, AutoEnds, InSend, Live,
            link, operator, telegrams
<1>1. TypeOK'
  BY DEF TypeOK
<1>2. /\ \A t \in Sends : t # s => pc'[t] = pc[t] /\ images'[t] = images[t]
      /\ s \notin cancelled
      /\ UNCHANGED <<link, operator, bundle, autos, cancelled, outcome, telegrams, coil, ui>>
      /\ \/ pc[s] = "drain" /\ pc'[s] = "log" /\ images' = images
         \/ pc[s] = "status" /\ pc'[s] = "upload" /\ ftp_enabled
         \/ /\ pc[s] \in {"status", "upload"} /\ (pc[s] = "status" => ftp_enabled)
            /\ pc'[s] = "result"
            /\ images'[s] \in {"error", "partly", "kept"}
         \/ pc[s] = "final" /\ pc'[s] = "done" /\ images' = images
  BY DEF TypeOK
<1>3. Progress'
  BY <1>2 DEF Progress, Written, TypeOK
<1>4. Images'
  BY <1>2 DEF Images, Progress, TypeOK
<1>5. EarlierIsOver'
  BY <1>2, RecordedStays DEF Recorded
<1>6. CoilIsKept'
  BY <1>2 DEF CoilIsKept, Written
<1>7. OneAutoSend' /\ LampOfTask'
  BY <1>2 DEF OneAutoSend, LampOfTask, TypeOK
<1> QED BY <1>1, <1>3, <1>4, <1>5, <1>6, <1>7

LEMMA Operating ==
  ASSUME IInv,
         \/ OperatorStops \/ OperatorEnables \/ (\E b \in Bundles : MaterialArrives(b))
         \/ MaterialIgnored \/ HandlerReturns \/ ConnectionChanges \/ UNCHANGED vars
  PROVE  IInv'
<1> USE DEF IInv, OperatorStops, OperatorEnables, MaterialArrives, MaterialIgnored,
            HandlerReturns, ConnectionChanges, vars, link, operator, telegrams, sends
<1>1. TypeOK'
  BY DEF TypeOK, TellActive, Running
<1>2. /\ UNCHANGED <<ftp_enabled, pc, bundle, autos, outcome, telegrams, coil, images>>
      /\ cancelled \subseteq cancelled'
  OBVIOUS
<1>3. Progress' /\ Images'
  BY <1>2 DEF Progress, Images, Written
<1>4. EarlierIsOver' /\ CoilIsKept'
  BY <1>2 DEF EarlierIsOver, Recorded, CoilIsKept, Written
<1>5. OneAutoSend' /\ LampOfTask'
  BY <1>2 DEF OneAutoSend, LampOfTask, Running, Live, TellActive, TypeOK
<1> QED BY <1>1, <1>3, <1>4, <1>5

(* A cancellation outside the send: nothing more is done. *)
LEMMA Dropping ==
  ASSUME IInv, NEW s \in Sends, s \in cancelled, pc[s] \in {"created", "final"},
         pc' = [pc EXCEPT ![s] = "done"], cancelled' = cancelled \ {s},
         outcome' = IF outcome[s] = "open" THEN [outcome EXCEPT ![s] = "cancelled"] ELSE outcome,
         UNCHANGED <<link, operator, bundle, autos, telegrams, coil, images, ui>>
  PROVE  IInv'
<1> USE DEF IInv, InSend, Live, link, operator, telegrams
<1>1. TypeOK'
  BY DEF TypeOK
<1>2. /\ \A t \in Sends : t # s => pc'[t] = pc[t]
      /\ pc'[s] = "done"
      /\ \A t \in Sends : outcome'[t] = "sent" => outcome[t] = "sent"
  BY DEF TypeOK
<1>3. Progress' /\ Images'
  BY <1>2 DEF Progress, Images, Written, TypeOK
<1>4. EarlierIsOver'
  BY <1>2, RecordedStays DEF Recorded
<1>5. CoilIsKept'
  BY <1>2 DEF CoilIsKept, Written
<1>6. OneAutoSend' /\ LampOfTask'
  BY <1>2 DEF OneAutoSend, LampOfTask, TypeOK
<1> QED BY <1>1, <1>3, <1>4, <1>5, <1>6

-----------------------------------------------------------------------------
LEMMA InitIInv == Init => IInv
<1> SUFFICES ASSUME Init PROVE IInv
  OBVIOUS
<1>1. TypeOK
  BY DEF Init, TypeOK
<1>2. Progress /\ Images
  BY DEF Init, Progress, Images, Written, InSend
<1>3. EarlierIsOver /\ CoilIsKept
  BY DEF Init, EarlierIsOver, CoilIsKept
<1>4. OneAutoSend /\ LampOfTask
  BY DEF Init, OneAutoSend, LampOfTask
<1> QED BY <1>1, <1>2, <1>3, <1>4 DEF IInv

LEMMA NextIInv == IInv /\ [Next]_vars => IInv'
<1> SUFFICES ASSUME IInv, [Next]_vars PROVE IInv'
  OBVIOUS
<1>1. ASSUME NEW s \in Sends, SendStep(s) PROVE IInv'
  <2>1. CASE Drained(s) \/ NoImages(s) \/ GenerateImages(s) \/ Uploaded(s)
    BY <2>1, Advancing
  <2>2. CASE Logged(s)
    BY <2>2, Recording
  <2>3. CASE DrainFails(s) \/ UploadRaises(s) \/ BroadcastRaises(s)
    <3>1. LeaveSend(s, "failed") /\ pc[s] \in InSend /\ cancelled' = cancelled
      BY <2>3 DEF DrainFails, UploadRaises, BroadcastRaises, InSend
    <3>2. UNCHANGED <<link, operator, bundle, autos, telegrams, coil, images>>
      BY <2>3 DEF DrainFails, UploadRaises, BroadcastRaises
    <3> QED BY <3>1, <3>2, Leaving
  <2>4. CASE ResultAnnounced(s) \/ SentWithoutImages(s)
    <3>1. /\ LeaveSend(s, "sent") /\ cancelled' = cancelled
          /\ pc[s] = "result" \/ (pc[s] = "status" /\ ~ftp_enabled)
      BY <2>4 DEF ResultAnnounced, SentWithoutImages
    <3>2. UNCHANGED <<link, operator, bundle, autos, telegrams, coil, images>>
      BY <2>4 DEF ResultAnnounced, SentWithoutImages
    <3> QED BY <3>1, <3>2, Leaving DEF InSend
  <2> QED BY <1>1, <2>1, <2>2, <2>3, <2>4 DEF SendStep
<1>2. ASSUME NEW s \in Sends, AutoStep(s) PROVE IInv'
  <2>1. CASE AutoBegins(s)
    BY <2>1, Beginning DEF AutoBegins
  <2>2. CASE AutoEnds(s)
    BY <2>2, Advancing
  <2>3. CASE CancelDelivered(s)
    <3>1. /\ UNCHANGED <<link, operator, bundle, autos, telegrams, coil, images>>
          /\ s \in cancelled /\ cancelled' = cancelled \ {s}
      BY <2>3 DEF CancelDelivered
    <3>2. CASE pc[s] \in InSend /\ LeaveSend(s, "cancelled")
      BY <3>1, <3>2, Leaving
    <3>3. CASE /\ pc[s] \in {"created", "final"}
               /\ pc' = [pc EXCEPT ![s] = "done"]
               /\ outcome' = IF outcome[s] = "open"
                             THEN [outcome EXCEPT ![s] = "cancelled"] ELSE outcome
               /\ UNCHANGED ui
      BY <3>1, <3>3, Dropping
    <3> QED BY <2>3, <3>2, <3>3 DEF CancelDelivered
  <2> QED BY <1>2, <2>1, <2>2, <2>3 DEF AutoStep
<1>3. ASSUME NEW s \in Sends, OperatorStarts(s) PROVE IInv'
  <2>1. current_material \in Bundles
    BY <1>3 DEF OperatorStarts, IInv, TypeOK
  <2> QED BY <1>3, <2>1, Starting DEF OperatorStarts
<1>4. ASSUME NEW s \in Sends, MaterialTriggers(s) PROVE IInv'
  <2>1. current_material \in Bundles
    BY <1>4 DEF MaterialTriggers, IInv, Progress
  <2> QED BY <1>4, <2>1, Starting DEF MaterialTriggers
<1>5. ASSUME NEW s \in Sends, NEW b \in Bundles, ManualSend(s, b) PROVE IInv'
  <2>1. pc[s] = "idle" /\ s \notin autos /\ BeginSend(s)
    BY <1>5 DEF ManualSend, IInv, Progress
  <2>2. /\ bundle' \in [Sends -> Bundles \cup {None}] /\ bundle'[s] \in Bundles
        /\ \A t \in Sends : t # s => bundle'[t] = bundle[t]
    BY <1>5 DEF ManualSend, IInv, TypeOK
  <2>3. UNCHANGED <<link, operator, autos, cancelled, coil, images>>
    BY <1>5 DEF ManualSend
  <2> QED BY <2>1, <2>2, <2>3, Beginning
<1>6. CASE \/ OperatorStops \/ OperatorEnables \/ (\E b \in Bundles : MaterialArrives(b))
           \/ MaterialIgnored \/ HandlerReturns \/ ConnectionChanges \/ UNCHANGED vars
  BY <1>6, Operating
<1> QED BY <1>1, <1>2, <1>3, <1>4, <1>5, <1>6 DEF Next, Trigger

LEMMA Invariance == Spec => []IInv
<1> QED BY InitIInv, NextIInv, PTL DEF Spec

(* The client's, the sends' and the browser's state keep their types.      *)
THEOREM TypeCorrect == Spec => []TypeOK
<1>1. IInv => TypeOK BY DEF IInv
<1> QED BY <1>1, Invariance, PTL

(* An auto send that is under way and not told to stop is the known one.   *)
THEOREM AutoSendUnique == Spec => []OneAutoSend
<1>1. IInv => OneAutoSend BY DEF IInv
<1> QED BY <1>1, Invariance, PTL

(* A send reported as a success left nothing undone, with FTP or without,  *)
(* and the coil does not show what had been recorded before it was sent.   *)
THEOREM SuccessCorrect == Spec => []SuccessIsComplete
<1>1. IInv => SuccessIsComplete
  BY DEF IInv, SuccessIsComplete, CoilIsKept, Images, TypeOK
<1> QED BY <1>1, Invariance, PTL

(* The lamp is off, or nobody knows, when no auto send is left.            *)
THEOREM LampCorrect == Spec => []IdleIsShown
<1>1. IInv => IdleIsShown
  BY DEF IInv, IdleIsShown, LampOfTask, Live
<1> QED BY <1>1, Invariance, PTL

(* What a coil shows never gives way to what was recorded, or given up,    *)
(* before it was written.                                                  *)
THEOREM CoilCorrect == Spec => CoilNeverGoesBack
<1> DEFINE Forward == \A b \in Bundles : coil'[b] # coil[b] =>
                        /\ Written(coil'[b])
                        /\ coil[b] # None => coil'[b] \notin earlier[coil[b]]
<1>1. IInv /\ [Next]_vars => [Forward]_vars
  <2> SUFFICES ASSUME IInv, Next, NEW b \in Bundles, coil'[b] # coil[b]
               PROVE  /\ Written(coil'[b])
                      /\ coil[b] # None => coil'[b] \notin earlier[coil[b]]
    OBVIOUS
  <2>1. PICK s \in Sends : Logged(s)
    BY DEF Next, SendStep, AutoStep, Trigger, Drained, DrainFails, Logged, SentWithoutImages,
           NoImages, GenerateImages, Uploaded, UploadRaises, ResultAnnounced, BroadcastRaises,
           AutoBegins, AutoEnds, CancelDelivered, OperatorStarts, ManualSend, MaterialTriggers,
           StartAuto, MaterialArrives, MaterialIgnored, HandlerReturns, OperatorStops,
           OperatorEnables, ConnectionChanges, sends
  <2>2. coil'[b] = s /\ pc[s] = "log" /\ Written(s)
    BY <2>1 DEF Logged, IInv, TypeOK, Progress, InSend
  <2>3. s \notin Recorded
    BY <2>2 DEF Recorded
  <2>4. coil[b] # None => coil[b] \in Sends
    BY DEF IInv, TypeOK
  <2> QED BY <2>2, <2>3, <2>4 DEF IInv, EarlierIsOver
<1> QED BY <1>1, Invariance, PTL DEF Spec, CoilNeverGoesBack
=============================================================================
