------------------------------ MODULE SPLClient ------------------------------
(***************************************************************************)
(* The connection life cycle of SPLTCPClient (backend/tcp_client.py): the  *)
(* asyncio tasks that connect to the L2 server, receive its telegrams,     *)
(* send the periodic 1199 alive, watch for L2's 1099 alive, and are        *)
(* cancelled on a disconnect or by stop().                                 *)
(*                                                                         *)
(* asyncio is cooperative, so a step is what a task does from one await to *)
(* the next.  A task parked at an await has a program counter naming it.   *)
(* task.cancel() makes the task's NEXT step raise CancelledError at the    *)
(* await where it is parked; it never takes effect in between.             *)
(***************************************************************************)
EXTENDS Integers, FiniteSets

CONSTANTS Conns,        \* names for TCP connections; one is reused once it is Free
          NoConn,       \* self.writer = None, and no task
          AliveLimit,   \* the watchdog's 90 s, in ticks of 10 s
          UIChurn       \* may a browser join or leave while a broadcast awaits a send?

ASSUME ConnsAssumption == NoConn \notin Conns
ASSUME AliveLimitAssumption == AliveLimit \in Nat
ASSUME UIChurnAssumption == UIChurn \in BOOLEAN

VARIABLES
  running,            \* self._running
  writer,             \* the connection of self.reader and self.writer
  connection_state,   \* data_store.connection_state
  alive_paused,       \* self.alive_paused
  silence,            \* loop.time() - self._last_alive_rx, capped above AliveLimit
  established,        \* connections neither end has closed or lost
  loop,               \* where the _connect_loop task is
  loopCancelled,      \* stop() has cancelled it, not yet delivered
  tc,                 \* type code of the telegram in _dispatch
  alive, alive_task,  \* _alive_send_loop task of each connection, self._alive_task
  watchdog, watchdog_task   \* likewise for _alive_watchdog

tasks == <<alive, alive_task, watchdog, watchdog_task>>
vars == <<running, writer, connection_state, alive_paused, silence, established,
          loop, loopCancelled, tc, tasks>>

-----------------------------------------------------------------------------
States == {"DISCONNECTED", "CONNECTED", "ALIVE_OK", "ALIVE_TIMEOUT"}

(* The awaits of _connect_loop and of the coroutines it calls.             *)
(*   connecting  open_connection            announce  broadcast CONNECTED  *)
(*   recv        readexactly                log       broadcast packet_log *)
(*   handle      a handler's broadcasts     discon    broadcast DISCONNECTED *)
(*   backoff     sleep(5)                   pause     sleep(1)             *)
LoopAwaits == {"connecting", "announce", "recv", "log", "handle", "discon",
               "backoff", "pause"}
Receiving == {"recv", "log", "handle"}          \* inside _receive_loop

(* The two telegram classes whose handlers differ here: L2's alive, and    *)
(* those whose handlers leave this module's state alone (1001, 1002, 1010). *)
TCs == {"1099", "data"}

(* A task of a connection that still has code of its own to run. "off" is  *)
(* a task that ended or was never created, "cancelled" one whose next step *)
(* is the CancelledError that ends it.                                     *)
AliveAwaits == {"sleep", "drain", "log"}
WatchdogAwaits == {"sleep", "announce"}

TypeOK ==
  /\ running \in BOOLEAN
  /\ writer \in Conns \cup {NoConn}
  /\ connection_state \in States
  /\ alive_paused \in BOOLEAN
  /\ silence \in 0 .. AliveLimit + 1
  /\ established \subseteq Conns
  /\ loop \in LoopAwaits \cup {"none", "done"}
  /\ loopCancelled \in BOOLEAN
  /\ tc \in TCs
  /\ alive \in [Conns -> AliveAwaits \cup {"off", "cancelled"}]
  /\ watchdog \in [Conns -> WatchdogAwaits \cup {"off", "cancelled"}]
  /\ alive_task \in Conns \cup {NoConn}
  /\ watchdog_task \in Conns \cup {NoConn}

Init ==
  /\ running = FALSE
  /\ writer = NoConn
  /\ connection_state = "DISCONNECTED"
  /\ alive_paused = FALSE
  /\ silence = 0
  /\ established = {}
  /\ loop = "none"
  /\ loopCancelled = FALSE
  /\ tc = "data"
  /\ alive = [c \in Conns |-> "off"]
  /\ watchdog = [c \in Conns |-> "off"]
  /\ alive_task = NoConn
  /\ watchdog_task = NoConn

(* `if task: task.cancel()`: without effect on None and on a finished task. *)
Cancel(pc, task) ==
  [c \in Conns |-> IF c = task /\ pc[c] # "off" THEN "cancelled" ELSE pc[c]]

(* A name may be taken again once nothing refers to the old connection.    *)
Free(c) == /\ c # writer
           /\ c \notin established
           /\ alive[c] = "off"
           /\ watchdog[c] = "off"

(* An awaited broadcast() has returned, or has raised RuntimeError because *)
(* the set it iterates over changed size during the await.                 *)
BroadcastRaises == UIChurn

-----------------------------------------------------------------------------
(* start() and stop(), called by the application's lifespan.               *)

Start ==
  /\ loop = "none"
  /\ running' = TRUE
  /\ loop' = "connecting"
  /\ UNCHANGED <<writer, connection_state, alive_paused, silence, established,
                 loopCancelled, tc, tasks>>

(* Fault: the connect loop is missing from the tasks stop() cancels. *)
StopSparesLoop ==
  /\ running
  /\ running' = FALSE
  /\ alive' = Cancel(alive, alive_task)
  /\ watchdog' = Cancel(watchdog, watchdog_task)
  /\ established' = established \ {writer}
  /\ UNCHANGED <<writer, connection_state, alive_paused, silence, loop,
                 loopCancelled, tc, alive_task, watchdog_task>>

(* The writer is closed but stays in self.writer, and nothing is awaited   *)
(* but the close itself: the cancelled tasks end on their own.             *)
Stop ==
  /\ running
  /\ running' = FALSE
  /\ loopCancelled' = (loop # "done")
  /\ alive' = Cancel(alive, alive_task)
  /\ watchdog' = Cancel(watchdog, watchdog_task)
  /\ established' = established \ {writer}
  /\ UNCHANGED <<writer, connection_state, alive_paused, silence, loop, tc,
                 alive_task, watchdog_task>>

-----------------------------------------------------------------------------
(* The connect loop.  Its uncancelled steps find self._running TRUE except *)
(* in pause: stop() clears the flag and cancels the loop in one step, and  *)
(* only _connect, which goes on to pause, swallows the cancellation.       *)

ConnectOk(c) ==
  /\ loop = "connecting" /\ ~loopCancelled
  /\ Free(c)
  /\ writer' = c
  /\ established' = established \cup {c}
  /\ connection_state' = "CONNECTED"
  /\ silence' = 0
  /\ loop' = "announce"
  /\ UNCHANGED <<running, alive_paused, loopCancelled, tc, tasks>>

(* Fault: a refused connection ends the loop. *)
ConnectGivesUp ==
  /\ loop = "connecting" /\ ~loopCancelled
  /\ loop' = "done"
  /\ UNCHANGED <<running, writer, connection_state, alive_paused, silence,
                 established, loopCancelled, tc, tasks>>

ConnectFails ==
  /\ loop = "connecting" /\ ~loopCancelled
  /\ loop' = "backoff"
  /\ UNCHANGED <<running, writer, connection_state, alive_paused, silence,
                 established, loopCancelled, tc, tasks>>

(* The end of a sleep: `while self._running: if not self.writer: connect`. *)
SleepOver ==
  /\ loop \in {"backoff", "pause"} /\ ~loopCancelled
  /\ loop' = IF ~running THEN "done"
             ELSE IF writer = NoConn THEN "connecting" ELSE "pause"
  /\ UNCHANGED <<running, writer, connection_state, alive_paused, silence,
                 established, loopCancelled, tc, tasks>>

(* CONNECTED has been announced: replace the alive sender and the watchdog *)
(* by new ones for this connection and enter the receive loop.             *)
Announced ==
  /\ loop = "announce" /\ ~loopCancelled
  /\ alive' = [Cancel(alive, alive_task) EXCEPT ![writer] = "sleep"]
  /\ alive_task' = writer
  /\ watchdog' = [Cancel(watchdog, watchdog_task) EXCEPT ![writer] = "sleep"]
  /\ watchdog_task' = writer
  /\ loop' = "recv"
  /\ UNCHANGED <<running, writer, connection_state, alive_paused, silence,
                 established, loopCancelled, tc>>

(* Faults: one of the two tasks is not cancelled. *)
DisconnectSparesAlive ==
  /\ connection_state' = "DISCONNECTED"
  /\ writer' = NoConn
  /\ watchdog' = Cancel(watchdog, watchdog_task)
  /\ alive_task' = NoConn
  /\ watchdog_task' = NoConn
  /\ loop' = "discon"
  /\ UNCHANGED alive

DisconnectSparesWatchdog ==
  /\ connection_state' = "DISCONNECTED"
  /\ writer' = NoConn
  /\ alive' = Cancel(alive, alive_task)
  /\ alive_task' = NoConn
  /\ watchdog_task' = NoConn
  /\ loop' = "discon"
  /\ UNCHANGED watchdog

(* _on_disconnected, up to its broadcast: the writer is forgotten, not     *)
(* closed, and both tasks are told to end.                                 *)
OnDisconnected ==
  /\ connection_state' = "DISCONNECTED"
  /\ writer' = NoConn
  /\ alive' = Cancel(alive, alive_task)
  /\ watchdog' = Cancel(watchdog, watchdog_task)
  /\ alive_task' = NoConn
  /\ watchdog_task' = NoConn
  /\ loop' = "discon"

(* A whole telegram has been read.  A type code without a length is        *)
(* skipped and the loop goes on reading: no change here.                   *)
Receive ==
  /\ loop = "recv" /\ ~loopCancelled
  /\ writer \in established
  /\ tc' \in TCs
  /\ loop' = "log"
  /\ UNCHANGED <<running, writer, connection_state, alive_paused, silence,
                 established, loopCancelled, tasks>>

(* The read fails or ends short: the connection is gone. *)
ReadFails ==
  /\ loop = "recv" /\ ~loopCancelled
  /\ writer \notin established
  /\ OnDisconnected
  /\ UNCHANGED <<running, alive_paused, silence, established, loopCancelled, tc>>

(* Fault: a status the enumeration does not have. *)
HandleAliveRxAsAlive ==
  /\ loop = "log" /\ ~loopCancelled
  /\ tc = "1099"
  /\ silence' = 0
  /\ connection_state' = "ALIVE"
  /\ loop' = "handle"
  /\ UNCHANGED <<running, writer, alive_paused, established, loopCancelled, tc, tasks>>

(* packet_log has been broadcast; the handler runs to its first await.     *)
HandleAliveRx ==
  /\ loop = "log" /\ ~loopCancelled
  /\ tc = "1099"
  /\ silence' = 0
  /\ connection_state' = "ALIVE_OK"
  /\ loop' = "handle"
  /\ UNCHANGED <<running, writer, alive_paused, established, loopCancelled, tc, tasks>>

HandleData ==
  /\ loop = "log" /\ ~loopCancelled
  /\ tc = "data"
  /\ loop' = "handle"
  /\ UNCHANGED <<running, writer, connection_state, alive_paused, silence,
                 established, loopCancelled, tc, tasks>>

(* Fault: an error in a handler is not caught there. *)
HandledUncaught ==
  /\ loop = "handle" /\ ~loopCancelled
  /\ OnDisconnected
  /\ UNCHANGED <<running, alive_paused, silence, established, loopCancelled, tc>>

(* The handlers catch whatever their own broadcasts raise. *)
Handled ==
  /\ loop = "handle" /\ ~loopCancelled
  /\ loop' = "recv"
  /\ UNCHANGED <<running, writer, connection_state, alive_paused, silence,
                 established, loopCancelled, tc, tasks>>

(* The broadcast of packet_log raises: it ends the receive loop. *)
DispatchRaises ==
  /\ loop = "log" /\ ~loopCancelled
  /\ BroadcastRaises
  /\ OnDisconnected
  /\ UNCHANGED <<running, alive_paused, silence, established, loopCancelled, tc>>

DisconnectAnnounced ==
  /\ loop = "discon" /\ ~loopCancelled
  /\ loop' = "pause"
  /\ UNCHANGED <<running, writer, connection_state, alive_paused, silence,
                 established, loopCancelled, tc, tasks>>

(* The broadcast of CONNECTED or DISCONNECTED raises RuntimeError, which   *)
(* neither _connect nor _connect_loop catches: the task is over.           *)
LoopDies ==
  /\ loop \in {"announce", "discon"} /\ ~loopCancelled
  /\ BroadcastRaises
  /\ loop' = "done"
  /\ UNCHANGED <<running, writer, connection_state, alive_paused, silence,
                 established, loopCancelled, tc, tasks>>

(* stop()'s CancelledError arrives.  _connect swallows it while it is      *)
(* receiving and still runs _on_disconnected; elsewhere the task ends.     *)
LoopCancelDelivered ==
  /\ loopCancelled
  /\ loopCancelled' = FALSE
  /\ \/ /\ loop \in Receiving
        /\ OnDisconnected
     \/ /\ loop \notin Receiving
        /\ loop' = "done"
        /\ UNCHANGED <<writer, connection_state, tasks>>
  /\ UNCHANGED <<running, alive_paused, silence, established, tc>>

-----------------------------------------------------------------------------
(* The alive sender of connection c: sleep(30), write and drain a 1199,    *)
(* broadcast its packet_log, and again.                                    *)

AliveStep(c, next) ==
  /\ alive' = [alive EXCEPT ![c] = next]
  /\ UNCHANGED <<running, writer, connection_state, alive_paused, silence,
                 established, loop, loopCancelled, tc, alive_task, watchdog,
                 watchdog_task>>

(* `while self._running and self.writer` *)
AliveAgain == IF running /\ writer # NoConn THEN "sleep" ELSE "off"

(* Fault: a pause ends the loop (`break` for `continue`). *)
AliveWakesOnce(c) ==
  /\ alive[c] = "sleep"
  /\ AliveStep(c, IF writer = NoConn \/ alive_paused THEN "off" ELSE "drain")

AliveWakes(c) ==
  /\ alive[c] = "sleep"
  /\ AliveStep(c, IF writer = NoConn THEN "off"
                  ELSE IF alive_paused THEN AliveAgain
                  ELSE "drain")

(* Fault: a failed send ends the loop. *)
AliveDrainEnds(c) == alive[c] = "drain" /\ AliveStep(c, "off")

(* drain() raising is caught in send_packet, which then skips the log. *)
AliveDrained(c) == alive[c] = "drain" /\ AliveStep(c, "log")
AliveDrainFails(c) == alive[c] = "drain" /\ AliveStep(c, AliveAgain)
AliveLogged(c) == alive[c] = "log" /\ AliveStep(c, AliveAgain)

(* Only CancelledError is caught in the loop: the broadcast's error ends it. *)
AliveDies(c) == alive[c] = "log" /\ BroadcastRaises /\ AliveStep(c, "off")

AliveCancelDelivered(c) == alive[c] = "cancelled" /\ AliveStep(c, "off")

-----------------------------------------------------------------------------
(* The watchdog of connection c: sleep(10), look at the clock.             *)

WatchdogStep(c, next) ==
  /\ watchdog' = [watchdog EXCEPT ![c] = next]
  /\ UNCHANGED <<running, writer, alive_paused, silence, established, loop,
                 loopCancelled, tc, alive, alive_task, watchdog_task>>

WatchdogAgain == IF running THEN "sleep" ELSE "off"      \* while self._running

(* Fault: `elapsed >= 90`. *)
WatchdogAlarmsEarly(c) ==
  /\ watchdog[c] = "sleep"
  /\ silence >= AliveLimit
  /\ connection_state # "ALIVE_TIMEOUT"
  /\ connection_state' = "ALIVE_TIMEOUT"
  /\ WatchdogStep(c, "announce")

WatchdogAlarms(c) ==
  /\ watchdog[c] = "sleep"
  /\ silence > AliveLimit
  /\ connection_state # "ALIVE_TIMEOUT"
  /\ connection_state' = "ALIVE_TIMEOUT"
  /\ WatchdogStep(c, "announce")

(* Fault: the watchdog looks once. *)
WatchdogLooksOnce(c) ==
  /\ watchdog[c] = "sleep"
  /\ silence <= AliveLimit \/ connection_state = "ALIVE_TIMEOUT"
  /\ WatchdogStep(c, "off")
  /\ UNCHANGED connection_state

WatchdogContent(c) ==
  /\ watchdog[c] = "sleep"
  /\ silence <= AliveLimit \/ connection_state = "ALIVE_TIMEOUT"
  /\ WatchdogStep(c, WatchdogAgain)
  /\ UNCHANGED connection_state

WatchdogAnnounced(c) ==
  /\ watchdog[c] = "announce"
  /\ WatchdogStep(c, WatchdogAgain)
  /\ UNCHANGED connection_state

WatchdogDies(c) ==
  /\ watchdog[c] = "announce"
  /\ BroadcastRaises
  /\ WatchdogStep(c, "off")
  /\ UNCHANGED connection_state

WatchdogCancelDelivered(c) ==
  /\ watchdog[c] = "cancelled"
  /\ WatchdogStep(c, "off")
  /\ UNCHANGED connection_state

-----------------------------------------------------------------------------
(* The environment: the operator, the network and the clock.               *)

(* POST /api/toggle-alive *)
ToggleAlive ==
  /\ alive_paused' \in BOOLEAN
  /\ UNCHANGED <<running, writer, connection_state, silence, established, loop,
                 loopCancelled, tc, tasks>>

(* The peer closes a connection, or the network loses it.  Telegrams still *)
(* buffered are those of a loss that happens later.                        *)
LinkLost(c) ==
  /\ c \in established
  /\ established' = established \ {c}
  /\ UNCHANGED <<running, writer, connection_state, alive_paused, silence, loop,
                 loopCancelled, tc, tasks>>

Tick ==
  /\ silence <= AliveLimit
  /\ silence' = silence + 1
  /\ UNCHANGED <<running, writer, connection_state, alive_paused, established,
                 loop, loopCancelled, tc, tasks>>

-----------------------------------------------------------------------------
(* The steps the event loop owes the connect task: everything but the      *)
(* outcome of open_connection and the arrival of a telegram.               *)
LoopStep == \/ SleepOver \/ Announced \/ ReadFails \/ HandleAliveRx \/ HandleData
            \/ Handled \/ DispatchRaises \/ DisconnectAnnounced \/ LoopDies
            \/ LoopCancelDelivered

AliveTaskStep(c) == \/ AliveWakes(c) \/ AliveDrained(c) \/ AliveDrainFails(c)
                    \/ AliveLogged(c) \/ AliveDies(c) \/ AliveCancelDelivered(c)

WatchdogTaskStep(c) == \/ WatchdogAlarms(c) \/ WatchdogContent(c)
                       \/ WatchdogAnnounced(c) \/ WatchdogDies(c)
                       \/ WatchdogCancelDelivered(c)

Next == \/ Start \/ Stop \/ ConnectFails \/ Receive \/ LoopStep
        \/ ToggleAlive \/ Tick
        \/ \E c \in Conns : \/ ConnectOk(c) \/ LinkLost(c)
                            \/ AliveTaskStep(c) \/ WatchdogTaskStep(c)

Spec == Init /\ [][Next]_vars

(* The event loop runs every ready task and timers expire (WF); the L2     *)
(* server accepts a connection if one is attempted again and again (SF).   *)
Fairness ==
  /\ WF_vars(Start)
  /\ WF_vars(LoopStep)
  /\ SF_vars(\E c \in Conns : ConnectOk(c))
  /\ \A c \in Conns : WF_vars(AliveTaskStep(c)) /\ WF_vars(WatchdogTaskStep(c))

FairSpec == Spec /\ Fairness

-----------------------------------------------------------------------------
(* Safety.                                                                 *)

(* The operator sees DISCONNECTED exactly while there is no connection to  *)
(* send on: no task of an earlier connection, cancelled or not, writes the *)
(* status after _on_disconnected or before the next _connect.              *)
StatusMatchesWriter == connection_state = "DISCONNECTED" <=> writer = NoConn

(* An alive sender or a watchdog that is not being cancelled is the one    *)
(* the client knows of, and serves the current connection: reconnecting    *)
(* any number of times never leaves two heartbeats, or a heartbeat of a    *)
(* dead connection writing to the new one.                                 *)
TasksServeTheWriter ==
  \A c \in Conns :
     /\ alive[c] \in AliveAwaits => alive_task = c /\ writer = c
     /\ watchdog[c] \in WatchdogAwaits => watchdog_task = c /\ writer = c

(* stop() reaches every task: once it has run, no sender or watchdog has   *)
(* code of its own left to run, none is created later, and the connect     *)
(* loop is past the point where it could open another connection.          *)
Stopped == ~running /\ loop # "none"
QuietAfterStop ==
  Stopped => /\ \A c \in Conns : /\ alive[c] \notin AliveAwaits
                                 /\ watchdog[c] \notin WatchdogAwaits
             /\ loopCancelled \/ loop \in {"discon", "pause", "done"}

(* Without browsers coming and going during a broadcast, an announced      *)
(* connection is served: somebody receives on it, keeps it alive and       *)
(* watches it, until it is given up.                                       *)
ConnectionIsServed ==
  (running /\ writer # NoConn /\ loop # "announce") =>
     /\ loop \in Receiving
     /\ alive[writer] \in AliveAwaits
     /\ watchdog[writer] \in WatchdogAwaits

(* Without such churn the client also never holds two connections to L2:   *)
(* _on_disconnected, which does not close the writer, runs only after the  *)
(* connection is gone.                                                     *)
OneConnection == established \subseteq {writer}

(* The task structure implements the status machine. *)
Status == INSTANCE ConnectionStatus
StatusSpec == Status!Spec

-----------------------------------------------------------------------------
(* Liveness, under FairSpec.                                               *)

(* PRD 3.3: a lost connection is noticed and replaced, however often. *)
Reconnects ==
  (running /\ writer \notin established) ~> (writer \in established \/ ~running)

(* A silent link is reported, unless L2 speaks up or the link goes. *)
SilenceIsReported ==
  (writer # NoConn /\ silence > AliveLimit) ~>
     (connection_state \in {"ALIVE_TIMEOUT", "DISCONNECTED"} \/ silence = 0 \/ ~running)

(* While connected and not paused, the next 1199 is always on its way. *)
HeartbeatGoesOn ==
  \A c \in Conns :
    (writer = c /\ ~alive_paused) ~>
       (alive[c] = "drain" \/ writer # c \/ alive_paused \/ ~running)
=============================================================================
