----------------------------- MODULE L2Simulator -----------------------------
(***************************************************************************)
(* The server of l2_simulator/server.py: one handler coroutine per         *)
(* accepted connection, which all share self.writer, self.connected and    *)
(* self._alive_task, and the 30 s sender of 1099.                          *)
(*                                                                         *)
(* A step runs from one await to the next and cancel() is delivered at the *)
(* task's next step, as in SPLClient.  The clients are the environment.    *)
(***************************************************************************)
CONSTANTS Conns,     \* names for TCP connections; one is reused once it is Free
          NoConn     \* self.writer = None, and no task

ASSUME ConnsAssumption == NoConn \notin Conns

VARIABLES
  running,       \* self._running, and the listening socket
  writer,        \* the connection of self.reader and self.writer
  connected,     \* self.connected
  established,   \* connections neither end has closed or lost
  handler,       \* where _handle_client is for each connection
  alive, alive_task,  \* _alive_loop task made for each connection, self._alive_task
  alone          \* history: the client that came when no other was handled, until one does

vars == <<running, writer, connected, established, handler, alive, alive_task, alone>>

-----------------------------------------------------------------------------
Sending == {"sleep", "drain"}           \* a sender with code of its own to run

(* A handler is "accepted" when the connection is there but the coroutine  *)
(* has not run yet, then in its receive loop.                              *)
TypeOK ==
  /\ running \in BOOLEAN /\ connected \in BOOLEAN
  /\ writer \in Conns \cup {NoConn}
  /\ established \subseteq Conns
  /\ handler \in [Conns -> {"none", "accepted", "recv"}]
  /\ alive \in [Conns -> Sending \cup {"off", "cancelled"}]
  /\ alive_task \in Conns \cup {NoConn}
  /\ alone \subseteq Conns

(* After start(), which main() calls at once. *)
Init ==
  /\ running = TRUE /\ connected = FALSE
  /\ writer = NoConn
  /\ established = {}
  /\ handler = [c \in Conns |-> "none"]
  /\ alive = [c \in Conns |-> "off"]
  /\ alive_task = NoConn
  /\ alone = {}

(* `if self._alive_task: self._alive_task.cancel()` *)
Cancel(pc, task) ==
  [c \in Conns |-> IF c = task /\ pc[c] # "off" THEN "cancelled" ELSE pc[c]]

(* _alive_task keeps its reference to a task that ended. *)
Free(c) == /\ c \notin established
           /\ handler[c] = "none"
           /\ alive[c] = "off"
           /\ c \notin {writer, alive_task}

-----------------------------------------------------------------------------
(* Nothing is awaited: the sender is told to end, the current connection   *)
(* and the listening socket are closed.  The handler ends on its own.      *)
Stop ==
  /\ running
  /\ running' = FALSE
  /\ alive' = Cancel(alive, alive_task)
  /\ established' = established \ {writer}
  /\ UNCHANGED <<writer, connected, handler, alive_task, alone>>

(* Fault: the client is not marked as connected. *)
TakeOverUnmarked(c) ==
  /\ handler[c] = "accepted"
  /\ established' = established \ ({writer} \ {c})
  /\ writer' = c
  /\ UNCHANGED connected

(* What _handle_client does before its receive loop but for the sender:    *)
(* the previous connection is closed, the shared state is the new one's.   *)
TakeOver(c) ==
  /\ handler[c] = "accepted"
  /\ established' = established \ ({writer} \ {c})
  /\ writer' = c
  /\ connected' = TRUE

(* Fault: the previous sender is not cancelled. *)
HandleClientSparesAlive(c) ==
  /\ running
  /\ TakeOver(c)
  /\ alive' = [alive EXCEPT ![c] = "sleep"]
  /\ alive_task' = c
  /\ handler' = [handler EXCEPT ![c] = "recv"]
  /\ UNCHANGED <<running, alone>>

(* _handle_client up to its first read. *)
HandleClient(c) ==
  /\ running
  /\ TakeOver(c)
  /\ alive' = [Cancel(alive, alive_task) EXCEPT ![c] = "sleep"]
  /\ alive_task' = c
  /\ handler' = [handler EXCEPT ![c] = "recv"]
  /\ UNCHANGED <<running, alone>>

(* Fault: a handler state that nothing looks for. *)
FinallyClosed(c) ==
  /\ connected' = FALSE
  /\ writer' = NoConn
  /\ handler' = [handler EXCEPT ![c] = "closed"]

(* The finally of _handle_client: whoever owns the shared state by now. *)
Finally(c) ==
  /\ connected' = FALSE
  /\ writer' = NoConn
  /\ handler' = [handler EXCEPT ![c] = "none"]

(* After stop() the receive loop ends before it begins, and so does the    *)
(* new sender; the accepted connection stays open.                         *)
HandleClientLate(c) ==
  /\ ~running
  /\ handler[c] = "accepted"
  /\ established' = established \ ({writer} \ {c})
  /\ alive' = Cancel(alive, alive_task)
  /\ alive_task' = c
  /\ Finally(c)
  /\ UNCHANGED <<running, alone>>

(* The read fails or ends short.  A telegram that arrives whole is logged  *)
(* and shown: no change here.                                              *)
ReadFails(c) ==
  /\ handler[c] = "recv"
  /\ c \notin established
  /\ Finally(c)
  /\ UNCHANGED <<running, established, alive, alive_task, alone>>

-----------------------------------------------------------------------------
(* The sender made for connection c; it writes to self.writer, whoever's. *)

AliveStep(c, next) ==
  /\ alive' = [alive EXCEPT ![c] = next]
  /\ UNCHANGED <<running, writer, connected, established, handler, alive_task, alone>>

AliveWakes(c) ==
  /\ alive[c] = "sleep"
  /\ AliveStep(c, IF writer = NoConn THEN "off" ELSE "drain")

(* Fault: one alive is all there is. *)
AliveSentOnce(c) == alive[c] = "drain" /\ AliveStep(c, "off")

(* drain() returned, or raised, which _send catches. *)
AliveSent(c) ==
  /\ alive[c] = "drain"
  /\ AliveStep(c, IF running /\ connected THEN "sleep" ELSE "off")

AliveCancelDelivered(c) == alive[c] = "cancelled" /\ AliveStep(c, "off")

-----------------------------------------------------------------------------
(* The clients and the network. *)

Connect(c) ==
  /\ running /\ Free(c)
  /\ alone' = IF \A d \in Conns : handler[d] = "none" THEN {c} ELSE {}
  /\ established' = established \cup {c}
  /\ handler' = [handler EXCEPT ![c] = "accepted"]
  /\ UNCHANGED <<running, writer, connected, alive, alive_task>>

LinkLost(c) ==
  /\ c \in established
  /\ established' = established \ {c}
  /\ UNCHANGED <<running, writer, connected, handler, alive, alive_task, alone>>

-----------------------------------------------------------------------------
HandlerStep(c) == HandleClient(c) \/ HandleClientLate(c) \/ ReadFails(c)
AliveTaskStep(c) == AliveWakes(c) \/ AliveSent(c) \/ AliveCancelDelivered(c)

Next == \/ Stop
        \/ \E c \in Conns : \/ HandlerStep(c) \/ AliveTaskStep(c)
                            \/ Connect(c) \/ LinkLost(c)

Spec == Init /\ [][Next]_vars

(* The event loop runs every ready task, and timers expire. *)
FairSpec == Spec /\ \A c \in Conns : WF_vars(HandlerStep(c)) /\ WF_vars(AliveTaskStep(c))

-----------------------------------------------------------------------------
(* However connections follow or overtake one another, there is one sender *)
(* of 1099 at a time: all but the last one made have been told to end.     *)
OneSender == \A c \in Conns : alive[c] \in Sending => c = alive_task

(* A client that is being received from is the one the server writes to,   *)
(* shows as connected, and has a sender for, unless it was handled at the  *)
(* same time as another: whatever a client that was gone before it came    *)
(* has left behind does not reach it.                                      *)
ClientIsServed ==
  \A c \in alone : (running /\ handler[c] = "recv" /\ c \in established) =>
     /\ writer = c /\ connected
     /\ alive_task = c /\ alive[c] \in Sending

(* The module's docstring: alive (1099) goes out every 30 s, to such a     *)
(* client.                                                                 *)
HeartbeatGoesOn ==
  \A c \in Conns :
    (handler[c] = "recv" /\ c \in alone) ~>
       \/ writer = c /\ \E t \in Conns : alive[t] = "drain"
       \/ c \notin alone \/ c \notin established \/ ~running
=============================================================================
