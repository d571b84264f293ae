-------------------------- MODULE SPLClientProofs --------------------------
(***************************************************************************)
(* Proofs about SPLClient for every set of connections and every limit.    *)
(*                                                                         *)
(* TypeOK is inductive alone.  The safety properties are not: that no task *)
(* outlives its connection depends on where the connect loop is when it    *)
(* cancels, and on stop() having reached the loop.  LoopInv says so, and   *)
(* together they form the inductive invariant IInv.                        *)
(***************************************************************************)
EXTENDS SPLClient, TLAPS

-----------------------------------------------------------------------------
(* cancel() keeps the program counters in their types. *)
LEMMA CancelLemma ==
  ASSUME NEW pc, NEW task, NEW S, pc \in [Conns -> S], "cancelled" \in S
  PROVE  Cancel(pc, task) \in [Conns -> S]
  BY DEF Cancel

(* Every variable keeps its type through any sequence of connects,         *)
(* telegrams, cancellations and failures.                                  *)
THEOREM TypeCorrect == Spec => []TypeOK
<1> USE ConnsAssumption, AliveLimitAssumption DEF States, LoopAwaits, TCs,
        AliveAwaits, WatchdogAwaits, Receiving
<1>1. Init => TypeOK
  <2> SUFFICES ASSUME Init PROVE TypeOK
    OBVIOUS
  <2>1. running \in BOOLEAN /\ alive_paused \in BOOLEAN /\ loopCancelled \in BOOLEAN
    BY Zenon DEF Init
  <2>2. silence \in 0 .. AliveLimit + 1
    BY DEF Init
  <2> QED BY <2>1, <2>2 DEF Init, TypeOK
<1>2. TypeOK /\ [Next]_vars => TypeOK'
  <2> SUFFICES ASSUME TypeOK, [Next]_vars PROVE TypeOK'
    OBVIOUS
  <2> USE DEF TypeOK
  <2>1. CASE Start
    BY <2>1 DEF Start, tasks
  <2>2. CASE Stop
    BY <2>2, CancelLemma DEF Stop
  <2>3. CASE ConnectFails \/ Receive \/ ToggleAlive \/ Tick
    BY <2>3 DEF ConnectFails, Receive, ToggleAlive, Tick, tasks
  <2>4. ASSUME NEW c \in Conns, ConnectOk(c) \/ LinkLost(c) PROVE TypeOK'
    BY <2>4 DEF ConnectOk, LinkLost, tasks
  <2>5. CASE LoopStep
    <3>1. ASSUME OnDisconnected
          PROVE  /\ connection_state' \in States
                 /\ writer' \in Conns \cup {NoConn}
                 /\ alive' \in [Conns -> AliveAwaits \cup {"off", "cancelled"}]
                 /\ watchdog' \in [Conns -> WatchdogAwaits \cup {"off", "cancelled"}]
                 /\ alive_task' \in Conns \cup {NoConn}
                 /\ watchdog_task' \in Conns \cup {NoConn}
                 /\ loop' \in LoopAwaits
      BY <3>1, CancelLemma DEF OnDisconnected
    <3>2. CASE Announced
      <4>1. /\ Cancel(alive, alive_task)
                 \in [Conns -> AliveAwaits \cup {"off", "cancelled"}]
            /\ Cancel(watchdog, watchdog_task)
                 \in [Conns -> WatchdogAwaits \cup {"off", "cancelled"}]
        BY CancelLemma
      <4> QED BY <3>2, <4>1 DEF Announced
    <3>3. CASE ReadFails \/ DispatchRaises
      BY <3>1, <3>3 DEF ReadFails, DispatchRaises
    <3>4. CASE LoopCancelDelivered
      BY <3>1, <3>4 DEF LoopCancelDelivered, tasks
    <3>5. CASE SleepOver \/ HandleAliveRx \/ HandleData \/ Handled
               \/ DisconnectAnnounced \/ LoopDies
      BY <3>5 DEF SleepOver, HandleAliveRx, HandleData, Handled,
                  DisconnectAnnounced, LoopDies, tasks
    <3> QED BY <2>5, <3>2, <3>3, <3>4, <3>5 DEF LoopStep
  <2>6. ASSUME NEW c \in Conns, AliveTaskStep(c) PROVE TypeOK'
    BY <2>6 DEF AliveTaskStep, AliveWakes, AliveDrained, AliveDrainFails,
        AliveLogged, AliveDies, AliveCancelDelivered, AliveStep, AliveAgain
  <2>7. ASSUME NEW c \in Conns, WatchdogTaskStep(c) PROVE TypeOK'
    BY <2>7 DEF WatchdogTaskStep, WatchdogAlarms, WatchdogContent,
        WatchdogAnnounced, WatchdogDies, WatchdogCancelDelivered, WatchdogStep,
        WatchdogAgain
  <2>8. CASE UNCHANGED vars
    BY <2>8 DEF vars, tasks
  <2> QED
    BY <2>1, <2>2, <2>3, <2>4, <2>5, <2>6, <2>7, <2>8 DEF Next
<1> QED
  BY <1>1, <1>2, PTL DEF Spec

-----------------------------------------------------------------------------
(* Where the connect loop is tells whether there is a writer, and a        *)
(* cancellation of the loop means that stop() has run.                     *)
LoopInv ==
  /\ loop \in Receiving \cup {"announce"} => writer # NoConn
  /\ loop \in {"none", "connecting", "backoff", "pause", "discon"} => writer = NoConn
  /\ loop = "none" => ~running
  /\ loopCancelled => ~running /\ loop # "none"

IInv == /\ LoopInv
        /\ StatusMatchesWriter
        /\ TasksServeTheWriter
        /\ QuietAfterStop

LEMMA InitIInv == Init => IInv
  BY ConnsAssumption DEF Init, IInv, LoopInv, StatusMatchesWriter,
     TasksServeTheWriter, QuietAfterStop, Stopped, Receiving, AliveAwaits,
     WatchdogAwaits

(* _on_disconnected leaves no task of the connection with code to run, and *)
(* the status agrees with the writer, whatever led to it.                  *)
LEMMA DisconnectLemma ==
  ASSUME TypeOK, TasksServeTheWriter, OnDisconnected
  PROVE  /\ StatusMatchesWriter'
         /\ \A c \in Conns : /\ alive'[c] \notin AliveAwaits
                             /\ watchdog'[c] \notin WatchdogAwaits
<1>1. StatusMatchesWriter'
  BY DEF OnDisconnected, StatusMatchesWriter
<1>2. ASSUME NEW c \in Conns
      PROVE  alive'[c] \notin AliveAwaits /\ watchdog'[c] \notin WatchdogAwaits
  BY <1>2 DEF OnDisconnected, Cancel, TasksServeTheWriter, AliveAwaits,
     WatchdogAwaits
<1> QED BY <1>1, <1>2

LEMMA NextIInv == TypeOK /\ IInv /\ [Next]_vars => IInv'
<1> SUFFICES ASSUME TypeOK, IInv, [Next]_vars PROVE IInv'
  OBVIOUS
<1> USE ConnsAssumption DEF IInv
<1>1. CASE Start
  BY <1>1 DEF Start, tasks, LoopInv, StatusMatchesWriter, TasksServeTheWriter,
     QuietAfterStop, Stopped, Receiving
<1>2. CASE Stop
  <2>1. LoopInv' /\ StatusMatchesWriter'
    BY <1>2 DEF Stop, LoopInv, StatusMatchesWriter
  <2>2. \A c \in Conns : /\ alive'[c] \notin AliveAwaits
                         /\ watchdog'[c] \notin WatchdogAwaits
    BY <1>2 DEF Stop, Cancel, TasksServeTheWriter, AliveAwaits, WatchdogAwaits
  <2>3. (loopCancelled \/ loop = "done")'
    BY <1>2 DEF Stop, TypeOK
  <2> QED
    BY <2>1, <2>2, <2>3 DEF TasksServeTheWriter, QuietAfterStop
<1>3. CASE ConnectFails \/ Receive \/ ToggleAlive \/ Tick
  BY <1>3 DEF ConnectFails, Receive, ToggleAlive, Tick, tasks, LoopInv,
     StatusMatchesWriter, TasksServeTheWriter, QuietAfterStop, Stopped, Receiving
<1>4. ASSUME NEW c \in Conns, LinkLost(c) PROVE IInv'
  BY <1>4 DEF LinkLost, tasks, LoopInv, StatusMatchesWriter,
     TasksServeTheWriter, QuietAfterStop, Stopped, Receiving
<1>5. ASSUME NEW c \in Conns, ConnectOk(c) PROVE IInv'
  <2>1. writer = NoConn /\ running /\ writer' = c /\ c # NoConn
    BY <1>5 DEF ConnectOk, LoopInv, QuietAfterStop, Stopped
  <2>2. \A d \in Conns : /\ alive[d] \notin AliveAwaits
                         /\ watchdog[d] \notin WatchdogAwaits
    BY <2>1 DEF TasksServeTheWriter
  <2> QED
    BY <1>5, <2>1, <2>2 DEF ConnectOk, tasks, LoopInv, StatusMatchesWriter,
       TasksServeTheWriter, QuietAfterStop, Stopped, Receiving
<1>6. CASE Announced
  <2>1. running /\ writer \in Conns
    BY <1>6 DEF Announced, LoopInv, QuietAfterStop, Stopped, TypeOK
  <2>2. \A c \in Conns : /\ c # writer => /\ alive'[c] \notin AliveAwaits
                                          /\ watchdog'[c] \notin WatchdogAwaits
    BY <1>6 DEF Announced, Cancel, TasksServeTheWriter, AliveAwaits, WatchdogAwaits
  <2>3. TasksServeTheWriter'
    BY <1>6, <2>2 DEF Announced, TasksServeTheWriter
  <2> QED
    BY <1>6, <2>1, <2>3 DEF Announced, LoopInv, StatusMatchesWriter,
       QuietAfterStop, Stopped, Receiving
<1>7. CASE ReadFails \/ DispatchRaises
  <2>1. OnDisconnected /\ loopCancelled' = loopCancelled /\ ~loopCancelled
        /\ running' = running /\ loop' = "discon" /\ writer' = NoConn
    BY <1>7 DEF ReadFails, DispatchRaises, OnDisconnected
  <2> QED
    BY <2>1, DisconnectLemma DEF LoopInv, TasksServeTheWriter, QuietAfterStop,
       Stopped, Receiving
<1>8. CASE LoopCancelDelivered
  <2>1. CASE loop \in Receiving /\ OnDisconnected
    <3>1. /\ loopCancelled' = FALSE /\ running' = running
          /\ loop' = "discon" /\ writer' = NoConn
      BY <1>8, <2>1 DEF LoopCancelDelivered, OnDisconnected
    <3> QED
      BY <2>1, <3>1, DisconnectLemma DEF LoopInv, TasksServeTheWriter,
         QuietAfterStop, Stopped, Receiving
  <2>2. CASE loop \notin Receiving /\ loop' = "done"
             /\ UNCHANGED <<writer, connection_state, tasks>>
    BY <1>8, <2>2 DEF LoopCancelDelivered, tasks, LoopInv, StatusMatchesWriter,
       TasksServeTheWriter, QuietAfterStop, Stopped, Receiving
  <2> QED BY <1>8, <2>1, <2>2 DEF LoopCancelDelivered
<1>9. CASE HandleAliveRx
  <2>1. writer # NoConn
    BY <1>9 DEF HandleAliveRx, LoopInv, Receiving
  <2> QED
    BY <1>9, <2>1 DEF HandleAliveRx, tasks, LoopInv, StatusMatchesWriter,
       TasksServeTheWriter, QuietAfterStop, Stopped, Receiving
<1>10. CASE SleepOver \/ HandleData \/ Handled \/ DisconnectAnnounced \/ LoopDies
  BY <1>10 DEF SleepOver, HandleData, Handled, DisconnectAnnounced, LoopDies,
     tasks, LoopInv, StatusMatchesWriter, TasksServeTheWriter, QuietAfterStop,
     Stopped, Receiving
<1>11. ASSUME NEW c \in Conns, AliveTaskStep(c) PROVE IInv'
  <2>1. /\ \A d \in Conns : alive'[d] \in AliveAwaits => alive[d] \in AliveAwaits
        /\ UNCHANGED <<running, writer, connection_state, loop, loopCancelled,
                       alive_task, watchdog, watchdog_task>>
    BY <1>11 DEF AliveTaskStep, AliveWakes, AliveDrained, AliveDrainFails,
       AliveLogged, AliveDies, AliveCancelDelivered, AliveStep, AliveAgain,
       AliveAwaits, TypeOK
  <2> QED
    BY <2>1 DEF LoopInv, StatusMatchesWriter, TasksServeTheWriter,
       QuietAfterStop, Stopped
<1>12. ASSUME NEW c \in Conns, WatchdogTaskStep(c) PROVE IInv'
  <2>1. /\ \A d \in Conns :
              watchdog'[d] \in WatchdogAwaits => watchdog[d] \in WatchdogAwaits
        /\ UNCHANGED <<running, writer, loop, loopCancelled, alive, alive_task,
                       watchdog_task>>
    BY <1>12 DEF WatchdogTaskStep, WatchdogAlarms, WatchdogContent,
       WatchdogAnnounced, WatchdogDies, WatchdogCancelDelivered, WatchdogStep,
       WatchdogAgain, WatchdogAwaits, TypeOK
  <2>2. StatusMatchesWriter'
    <3>1. CASE WatchdogAlarms(c)
      <4>1. writer = c /\ connection_state' = "ALIVE_TIMEOUT"
        BY <3>1 DEF WatchdogAlarms, TasksServeTheWriter, WatchdogAwaits
      <4> QED BY <2>1, <4>1 DEF StatusMatchesWriter
    <3>2. CASE UNCHANGED connection_state
      BY <2>1, <3>2 DEF StatusMatchesWriter
    <3> QED
      BY <1>12, <3>1, <3>2 DEF WatchdogTaskStep, WatchdogContent,
         WatchdogAnnounced, WatchdogDies, WatchdogCancelDelivered
  <2> QED
    BY <2>1, <2>2 DEF LoopInv, TasksServeTheWriter, QuietAfterStop, Stopped
<1>13. CASE UNCHANGED vars
  BY <1>13 DEF vars, tasks, LoopInv, StatusMatchesWriter, TasksServeTheWriter,
     QuietAfterStop, Stopped, Receiving
<1> QED
  BY <1>1, <1>2, <1>3, <1>4, <1>5, <1>6, <1>7, <1>8, <1>9, <1>10, <1>11, <1>12,
     <1>13 DEF Next, LoopStep

LEMMA Invariance == Spec => []IInv
  BY InitIInv, NextIInv, TypeCorrect, PTL DEF Spec

(* The status is DISCONNECTED exactly while the client has no writer: no   *)
(* watchdog or handler of an earlier connection overwrites it.             *)
THEOREM StatusCorrect == Spec => []StatusMatchesWriter
  BY Invariance, PTL DEF IInv

(* However the connections come and go, the senders and watchdogs that     *)
(* still run are the current connection's one sender and one watchdog.     *)
THEOREM TasksCorrect == Spec => []TasksServeTheWriter
  BY Invariance, PTL DEF IInv

(* stop() silences the client: nothing sends, watches or connects again.   *)
THEOREM StopCorrect == Spec => []QuietAfterStop
  BY Invariance, PTL DEF IInv

-----------------------------------------------------------------------------
(* The task structure implements the status machine: CONNECTED only on a   *)
(* fresh link, ALIVE_OK only on a link that is up, ALIVE_TIMEOUT only      *)
(* after too long a silence on a link that is up.                          *)
THEOREM ImplementsStatus == Spec => StatusSpec
<1>1. Init => Status!Init
  BY DEF Init, Status!Init
<1>2. TypeOK /\ IInv /\ [Next]_vars => [Status!Next]_(Status!vars)
  <2> SUFFICES ASSUME TypeOK, IInv, [Next]_vars
               PROVE  Status!Next \/ UNCHANGED <<connection_state, silence>>
    BY DEF Status!vars
  <2> USE DEF IInv
  <2>1. ASSUME OnDisconnected, loop \in Receiving, UNCHANGED silence
        PROVE  Status!LinkDown
    BY <2>1 DEF OnDisconnected, LoopInv, StatusMatchesWriter, Status!LinkDown
  <2>2. ASSUME NEW c \in Conns, ConnectOk(c) PROVE Status!LinkUp
    BY <2>2 DEF ConnectOk, LoopInv, StatusMatchesWriter, Status!LinkUp
  <2>3. CASE HandleAliveRx
    <3>1. connection_state # "DISCONNECTED"
      BY <2>3 DEF HandleAliveRx, LoopInv, StatusMatchesWriter, Receiving
    <3>2. Status!Heard
      BY <2>3, <3>1 DEF HandleAliveRx, Status!Heard
    <3> QED BY <3>2 DEF Status!Next
  <2>4. ASSUME NEW c \in Conns, WatchdogTaskStep(c)
        PROVE  Status!Alarm \/ UNCHANGED <<connection_state, silence>>
    <3>1. CASE WatchdogAlarms(c)
      <4>1. connection_state \in {"CONNECTED", "ALIVE_OK"}
        BY <3>1, ConnsAssumption DEF WatchdogAlarms, StatusMatchesWriter,
           TasksServeTheWriter, WatchdogAwaits, TypeOK, States
      <4> QED
        BY <3>1, <4>1 DEF WatchdogAlarms, WatchdogStep, Status!Alarm
    <3>2. CASE ~WatchdogAlarms(c)
      BY <2>4, <3>2 DEF WatchdogTaskStep, WatchdogContent, WatchdogAnnounced,
         WatchdogDies, WatchdogCancelDelivered, WatchdogStep
    <3> QED BY <3>1, <3>2
  <2>5. CASE Tick
    BY <2>5 DEF Tick, Status!Tick, Status!Next
  <2>6. CASE ReadFails \/ DispatchRaises
    BY <2>1, <2>6 DEF ReadFails, DispatchRaises, Receiving, Status!Next
  <2>7. CASE LoopCancelDelivered
    BY <2>1, <2>7 DEF LoopCancelDelivered, Status!Next
  <2>8. CASE \/ Start \/ Stop \/ ConnectFails \/ Receive \/ ToggleAlive
             \/ SleepOver \/ Announced \/ HandleData \/ Handled
             \/ DisconnectAnnounced \/ LoopDies
    BY <2>8 DEF Start, Stop, ConnectFails, Receive, ToggleAlive, SleepOver,
       Announced, HandleData, Handled, DisconnectAnnounced, LoopDies
  <2>9. ASSUME NEW c \in Conns, LinkLost(c) \/ AliveTaskStep(c)
        PROVE  UNCHANGED <<connection_state, silence>>
    BY <2>9 DEF LinkLost, AliveTaskStep, AliveWakes, AliveDrained,
       AliveDrainFails, AliveLogged, AliveDies, AliveCancelDelivered, AliveStep
  <2>10. CASE UNCHANGED vars
    BY <2>10 DEF vars
  <2> QED
    BY <2>2, <2>3, <2>4, <2>5, <2>6, <2>7, <2>8, <2>9, <2>10
       DEF Next, LoopStep, Status!Next
<1> QED
  BY <1>1, <1>2, TypeCorrect, Invariance, PTL DEF Spec, StatusSpec, Status!Spec

-----------------------------------------------------------------------------
(* What holds when no broadcast raises.  Besides the two properties, the   *)
(* invariant says that a connection is never left behind by the connect    *)
(* loop, and that stop() closed the last one.                              *)
ServedInv ==
  /\ running /\ writer # NoConn => loop \in Receiving \cup {"announce"}
  /\ Stopped => established = {}
  /\ ConnectionIsServed
  /\ OneConnection

LEMMA NextServedInv ==
  ASSUME ~UIChurn, TypeOK, IInv, ServedInv, [Next]_vars
  PROVE  ServedInv'
<1> USE ConnsAssumption DEF IInv, ServedInv
<1>1. CASE Start
  BY <1>1 DEF Start, tasks, LoopInv, ConnectionIsServed, OneConnection, Stopped
<1>2. CASE Stop
  BY <1>2 DEF Stop, LoopInv, ConnectionIsServed, OneConnection, Stopped
<1>3. ASSUME OnDisconnected, established = {}, established' = {}
      PROVE  ServedInv'
  BY <1>3 DEF OnDisconnected, ConnectionIsServed, OneConnection
<1>4. CASE ReadFails
  <2>1. established = {} /\ established' = {} /\ OnDisconnected
    BY <1>4 DEF ReadFails, OneConnection
  <2> QED BY <1>3, <2>1
<1>5. CASE LoopCancelDelivered
  <2>1. Stopped /\ established = {} /\ established' = {} /\ running' = running
    BY <1>5 DEF LoopCancelDelivered, LoopInv, Stopped
  <2> QED
    BY <1>3, <1>5, <2>1 DEF LoopCancelDelivered, Stopped, ConnectionIsServed,
       OneConnection
<1>6. CASE DispatchRaises \/ LoopDies
  BY <1>6 DEF DispatchRaises, LoopDies, BroadcastRaises
<1>7. CASE ConnectFails \/ Receive \/ ToggleAlive \/ Tick \/ SleepOver
           \/ HandleAliveRx \/ HandleData \/ Handled \/ DisconnectAnnounced
  BY <1>7 DEF ConnectFails, Receive, ToggleAlive, Tick, SleepOver,
     HandleAliveRx, HandleData, Handled, DisconnectAnnounced, tasks, LoopInv,
     QuietAfterStop, ConnectionIsServed, OneConnection, Stopped, Receiving
<1>8. CASE Announced
  BY <1>8 DEF Announced, Cancel, TypeOK, ConnectionIsServed, OneConnection,
     Stopped, Receiving, LoopInv, QuietAfterStop, AliveAwaits, WatchdogAwaits
<1>9. ASSUME NEW c \in Conns, LinkLost(c) PROVE ServedInv'
  BY <1>9 DEF LinkLost, tasks, ConnectionIsServed, OneConnection, Stopped
<1>10. ASSUME NEW c \in Conns, ConnectOk(c) PROVE ServedInv'
  <2>1. writer = NoConn /\ running /\ established = {}
    BY <1>10 DEF ConnectOk, LoopInv, QuietAfterStop, Stopped, OneConnection, TypeOK
  <2> QED
    BY <1>10, <2>1 DEF ConnectOk, ConnectionIsServed, OneConnection, Stopped
<1>11. ASSUME NEW c \in Conns, AliveTaskStep(c) PROVE ServedInv'
  <2>1. UNCHANGED <<running, writer, established, loop, watchdog>>
    BY <1>11 DEF AliveTaskStep, AliveWakes, AliveDrained, AliveDrainFails,
       AliveLogged, AliveDies, AliveCancelDelivered, AliveStep
  <2>2. ASSUME running, writer # NoConn, alive[writer] \in AliveAwaits
        PROVE  alive'[writer] \in AliveAwaits
    BY <1>11, <2>2 DEF AliveTaskStep, AliveWakes, AliveDrained, AliveDrainFails,
       AliveLogged, AliveDies, BroadcastRaises, AliveCancelDelivered, AliveStep,
       AliveAgain, AliveAwaits, TypeOK
  <2> QED
    BY <2>1, <2>2 DEF ConnectionIsServed, OneConnection, Stopped
<1>12. ASSUME NEW c \in Conns, WatchdogTaskStep(c) PROVE ServedInv'
  <2>1. UNCHANGED <<running, writer, established, loop, alive>>
    BY <1>12 DEF WatchdogTaskStep, WatchdogAlarms, WatchdogContent,
       WatchdogAnnounced, WatchdogDies, WatchdogCancelDelivered, WatchdogStep
  <2>2. ASSUME running, writer # NoConn, watchdog[writer] \in WatchdogAwaits
        PROVE  watchdog'[writer] \in WatchdogAwaits
    BY <1>12, <2>2 DEF WatchdogTaskStep, WatchdogAlarms, WatchdogContent,
       WatchdogAnnounced, WatchdogDies, BroadcastRaises, WatchdogCancelDelivered,
       WatchdogStep, WatchdogAgain, WatchdogAwaits, TypeOK
  <2> QED
    BY <2>1, <2>2 DEF ConnectionIsServed, OneConnection, Stopped
<1>13. CASE UNCHANGED vars
  BY <1>13 DEF vars, tasks, ConnectionIsServed, OneConnection, Stopped
<1> QED
  BY <1>1, <1>2, <1>4, <1>5, <1>6, <1>7, <1>8, <1>9, <1>10, <1>11, <1>12, <1>13
     DEF Next, LoopStep

LEMMA ServedInvariance == ASSUME ~UIChurn PROVE Spec => []ServedInv
<1>1. Init => ServedInv
  BY ConnsAssumption DEF Init, ServedInv, ConnectionIsServed, OneConnection, Stopped
<1>2. TypeOK /\ IInv /\ ServedInv /\ [Next]_vars => ServedInv'
  BY NextServedInv
<1> QED
  BY <1>1, <1>2, TypeCorrect, Invariance, PTL DEF Spec

(* As long as no browser comes or goes during a broadcast, every announced *)
(* connection has its receiver, its alive sender and its watchdog.         *)
THEOREM ServiceCorrect == ASSUME ~UIChurn PROVE Spec => []ConnectionIsServed
  BY ServedInvariance, PTL DEF ServedInv

(* ... and the client never holds a second connection to L2. *)
THEOREM ConnectionUnique == ASSUME ~UIChurn PROVE Spec => []OneConnection
  BY ServedInvariance, PTL DEF ServedInv
=============================================================================
