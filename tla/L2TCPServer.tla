----------------------------- MODULE L2TCPServer -----------------------------
(***************************************************************************)
(* The server of backend/tcp_server.py, the monitor's side of the line     *)
(* when the L2 was the server: a handler for each accepted connection,     *)
(* which all share self.writer and the two tasks, the 30 s sender of 1099, *)
(* the watchdog, and the status on show.                                   *)
(*                                                                         *)
(* A step runs from one await to the next; awaits that only delay what     *)
(* follows them (drain(), the broadcasts within a handler whose exception  *)
(* it catches) are not steps of their own, and cancel() ends a task.       *)
(***************************************************************************)
EXTENDS Connections

CONSTANTS Materials, NoMaterial,
          AliveLimit      \* 90 s, in ticks of the clock

VARIABLES
  running,                    \* self._running, and the listening socket
  client,                     \* the connection of self.writer
  handler,                    \* where _handle_client is for each connection
  tasks,                      \* connections whose sender and watchdog are not cancelled
  known,                      \* the ones in self._alive_task and self._alive_watchdog_task
  connection_state, silence,  \* the status on show, ticks since _last_alive_rx
  owed                        \* history: the material sent last and its connection, until
                              \* its winding is in the data store

(* After start(). *)
SrvInit ==
  /\ running = TRUE /\ client = NoConn
  /\ handler = [c \in Conns |-> "none"]
  /\ tasks = {} /\ known = NoConn
  /\ connection_state = "DISCONNECTED" /\ silence = 0
  /\ owed = <<NoMaterial, NoConn>>

SrvTypeOK ==
  /\ running \in BOOLEAN
  /\ {client, known} \subseteq Conns \cup {NoConn}
  /\ handler \in [Conns -> {"none", "announcing", "reading"}]
  /\ tasks \subseteq Conns
  /\ connection_state \in {"DISCONNECTED", "CONNECTED", "ALIVE_OK", "ALIVE_TIMEOUT"}
  /\ silence \in 0..(AliveLimit + 1)
  /\ owed \in (Materials \cup {NoMaterial}) \X (Conns \cup {NoConn})

MaterialOf(m) == [tc |-> "1002", of |-> m]

-----------------------------------------------------------------------------
(* _handle_client up to its broadcast: an earlier connection is closed.    *)
Accept(c) ==
  /\ running /\ ends["server"][c] = "backlog"
  /\ ends' = [AfterClose("server", client) EXCEPT !["server"][c] = Accepted(c)]
  /\ queue' = Dropped("server", client) /\ cut' = StillCut(ends')
  /\ client' = c
  /\ connection_state' = "CONNECTED" /\ silence' = 0
  /\ handler' = [handler EXCEPT ![c] = "announcing"]
  /\ UNCHANGED <<running, tasks, known, owed>>

(* It returns: the tasks are replaced, and the receive loop begins.        *)
Announced(c) ==
  /\ handler[c] = "announcing"
  /\ handler' = [handler EXCEPT ![c] = "reading"]
  /\ tasks' = (tasks \ {known}) \cup {c} /\ known' = c
  /\ UNCHANGED <<netVars, running, client, connection_state, silence, owed>>

(* It raises, before there is a finally: the handler ends, the status and  *)
(* self.writer stay.  Whether asyncio closes the connection depends on its *)
(* version.                                                                *)
AnnounceRaises(c) ==
  /\ handler[c] = "announcing"
  /\ handler' = [handler EXCEPT ![c] = "none"]
  /\ Close("server", c) \/ UNCHANGED netVars
  /\ UNCHANGED <<running, client, tasks, known,
                 connection_state, silence, owed>>

(* Fault: a status that the enumeration does not have. *)
DispatchShowsAlive(c) ==
  /\ handler[c] = "reading" /\ CanRead("server", c)
  /\ Consume("server", c)
  /\ connection_state' = "ALIVE" /\ silence' = 0
  /\ UNCHANGED <<ends, cut, running, client, handler, tasks, known, owed>>

(* A winding is stored; an alive clears an alarm; the rest is logged.      *)
Dispatch(c) ==
  /\ handler[c] = "reading" /\ CanRead("server", c)
  /\ Consume("server", c)
  /\ LET telegram == Head(queue["server"][c])
     IN  /\ owed' = IF telegram.tc = "1101" /\ telegram.of = owed[1]
                    THEN <<NoMaterial, NoConn>> ELSE owed
         /\ connection_state' = IF telegram.tc = "1199" THEN "ALIVE_OK" ELSE connection_state
         /\ silence' = IF telegram.tc = "1199" THEN 0 ELSE silence
  /\ UNCHANGED <<ends, cut, running, client, handler, tasks, known>>

(* Fault: the tasks are forgotten, not cancelled. *)
OnClientDisconnectedForgetsTasks(c) ==
  /\ handler' = [handler EXCEPT ![c] = "none"]
  /\ connection_state' = "DISCONNECTED" /\ client' = NoConn
  /\ known' = NoConn
  /\ Close("server", c)
  /\ UNCHANGED <<running, tasks, silence, owed>>

(* The finally of _handle_client: whoever owns the shared state by now.    *)
(* With the last reference to its reader and writer goes the connection.   *)
OnClientDisconnected(c) ==
  /\ handler' = [handler EXCEPT ![c] = "none"]
  /\ connection_state' = "DISCONNECTED" /\ client' = NoConn
  /\ tasks' = tasks \ {known} /\ known' = NoConn
  /\ Close("server", c)
  /\ UNCHANGED <<running, silence, owed>>

(* The read fails, or the loop sees that the server is stopped.            *)
ReceiveEnds(c) ==
  /\ handler[c] = "reading"
  /\ ~running \/ ReadEnds("server", c)
  /\ OnClientDisconnected(c)

(* The broadcast of the telegram's log raises; it is not handled.          *)
DispatchRaises(c) ==
  /\ handler[c] = "reading" /\ CanRead("server", c)
  /\ OnClientDisconnected(c)

-----------------------------------------------------------------------------
(* The watchdog raises the alarm.  Like the sender, whose alives are only  *)
(* printed at the other end, it ends if the broadcast raises: then it      *)
(* takes no more steps, and one made after stop() ends at once.            *)
WatchdogWakes(k) ==
  /\ running /\ k \in tasks
  /\ silence > AliveLimit /\ connection_state # "ALIVE_TIMEOUT"
  /\ connection_state' = "ALIVE_TIMEOUT"
  /\ UNCHANGED <<netVars, running, client, handler, tasks, known, silence, owed>>

Tick == /\ silence <= AliveLimit /\ silence' = silence + 1
        /\ UNCHANGED <<netVars, running, client, handler, tasks, known, connection_state, owed>>

(* send_packet of a 1002. *)
SendMaterial(m) ==
  /\ client # NoConn
  /\ Write("server", client, MaterialOf(m))
  /\ owed' = <<m, client>>
  /\ UNCHANGED <<running, client, handler, tasks, known,
                 connection_state, silence>>

Stop ==
  /\ running /\ running' = FALSE
  /\ tasks' = tasks \ {known}
  /\ Close("server", client)
  /\ UNCHANGED <<client, handler, known, connection_state,
                 silence, owed>>

-----------------------------------------------------------------------------
HandlerStep(c) == \/ Accept(c) \/ Announced(c) \/ AnnounceRaises(c)
                  \/ Dispatch(c) \/ DispatchRaises(c) \/ ReceiveEnds(c)

SrvNext == \/ \E c \in Conns : HandlerStep(c) \/ WatchdogWakes(c)
           \/ \E m \in Materials : SendMaterial(m)
           \/ Tick \/ Stop

(* The shared state is that of the one connection there is, or of none.    *)
OneOwner ==
  /\ \A c \in Conns : handler[c] # "none" => client = c
  /\ client # NoConn => handler[client] # "none"

(* However connections overtake one another and broadcasts fail, there is  *)
(* never more than one sender of alives and one watchdog.                  *)
OneHeartbeat == \A k, l \in tasks : k = l
=============================================================================
