---------------------------- MODULE SPLSimulator ----------------------------
(***************************************************************************)
(* The client of spl_simulator/simulator.py, which stands in for the SPL   *)
(* when it is the server of backend/tcp_server.py that is tried out: a     *)
(* receive loop and an alive loop for each connection, one engine that     *)
(* answers a material with its winding, and an operator at a menu, who is  *)
(* slower than any task of the event loop.                                 *)
(*                                                                         *)
(* A step runs from one await to the next.  A task that is cancelled has   *)
(* nothing left to do here, so cancel() ends it at once.                   *)
(***************************************************************************)
EXTENDS Connections

CONSTANTS Materials, NoMaterial

VARIABLES
  connected,    \* self.connected
  writer,       \* the connection of self.writer, self.reader and the two known tasks
  alive,        \* connections whose _alive_loop runs; it writes to self.writer
  receiving,    \* connections whose _receive_loop runs
  engine        \* material of the winding engine, until its task has run

SimInit == /\ connected = FALSE /\ writer = NoConn
           /\ alive = {} /\ receiving = {} /\ engine = NoMaterial

SimTypeOK == /\ connected \in BOOLEAN
             /\ writer \in Conns \cup {NoConn}
             /\ alive \subseteq Conns /\ receiving \subseteq Conns
             /\ engine \in Materials \cup {NoMaterial}

Alive == [tc |-> "1199", of |-> NoMaterial]
WindingOf(m) == [tc |-> "1101", of |-> m]

-----------------------------------------------------------------------------
(* The menu: connect, disconnect, an alive by hand, and the ways out: 0,   *)
(* and 5 and 6, which use names that no longer exist.                      *)

(* Nothing of an earlier connection is looked at: its alive loop, if it    *)
(* still sleeps, goes on for the new one beside the new loop.              *)
Connect(c) ==
  /\ ~connected
  /\ Open(c)
  /\ connected' = TRUE /\ writer' = c
  /\ alive' = alive \cup {c}
  /\ receiving' = receiving \cup {c}
  /\ UNCHANGED <<engine>>

(* Fault: the receive loop is left running. *)
DisconnectSparesReceiver ==
  /\ connected
  /\ connected' = FALSE
  /\ engine' = NoMaterial
  /\ alive' = alive \ {writer}
  /\ Close("client", writer)
  /\ writer' = NoConn
  /\ UNCHANGED receiving

(* wait_closed() is awaited, by the operator alone. *)
Disconnect ==
  /\ connected
  /\ connected' = FALSE
  /\ engine' = NoMaterial
  /\ alive' = alive \ {writer}
  /\ receiving' = receiving \ {writer}
  /\ Close("client", writer)
  /\ writer' = NoConn

SendAlive == /\ connected /\ Write("client", writer, Alive)
             /\ UNCHANGED <<connected, writer, alive, receiving, engine>>

(* The process ends, the operating system closes what it had open, and a   *)
(* new one may be started.                                                 *)
Quit ==
  /\ connected' = FALSE /\ writer' = NoConn
  /\ alive' = {} /\ receiving' = {} /\ engine' = NoMaterial
  /\ Close("client", writer)

-----------------------------------------------------------------------------
(* Fault: a loop that ends when it wakes. *)
AliveWakesOnce(k) ==
  /\ k \in alive
  /\ alive' = alive \ {k}
  /\ UNCHANGED <<netVars, connected, writer, receiving, engine>>

AliveWakes(k) ==
  /\ k \in alive
  /\ \/ connected /\ Write("client", writer, Alive) /\ UNCHANGED alive
     \/ ~connected /\ alive' = alive \ {k} /\ UNCHANGED netVars
  /\ UNCHANGED <<connected, writer, receiving, engine>>

(* Fault: the engine is cancelled after it has been replaced. *)
ReadTelegramCancelsLate(k) ==
  /\ k \in receiving /\ CanRead("client", writer)
  /\ Consume("client", writer)
  /\ LET telegram == Head(queue["client"][writer])
     IN  engine' = IF telegram.tc = "1002" /\ engine = NoMaterial THEN telegram.of ELSE NoMaterial
  /\ UNCHANGED <<ends, cut, connected, writer, alive, receiving>>

(* _dispatch: a material cancels the engine before it, whose task may not  *)
(* have begun, and makes another; the other telegrams are printed.         *)
ReadTelegram(k) ==
  /\ k \in receiving /\ CanRead("client", writer)
  /\ Consume("client", writer)
  /\ LET telegram == Head(queue["client"][writer])
     IN  engine' = IF telegram.tc = "1002" THEN telegram.of ELSE engine
  /\ UNCHANGED <<ends, cut, connected, writer, alive, receiving>>

ReadFails(k) ==
  /\ k \in receiving /\ ReadEnds("client", writer)
  /\ receiving' = receiving \ {k}
  /\ connected' = FALSE
  /\ UNCHANGED <<netVars, writer, alive, engine>>

(* run() of the engine; _send does nothing without a writer.               *)
RunEngine ==
  /\ engine # NoMaterial
  /\ IF writer = NoConn THEN UNCHANGED netVars ELSE Write("client", writer, WindingOf(engine))
  /\ engine' = NoMaterial
  /\ UNCHANGED <<connected, writer, alive, receiving>>

-----------------------------------------------------------------------------
(* All but Connect, whose connection the composition names. *)
SimNext ==
  \/ Disconnect \/ SendAlive \/ Quit \/ RunEngine
  \/ \E k \in Conns : AliveWakes(k) \/ ReadTelegram(k) \/ ReadFails(k)

(* What there is while the simulator shows itself connected is one receive *)
(* loop, on the current connection: two would make readexactly() raise.    *)
(* And none is left when it does not.                                      *)
OneReader == receiving = (IF connected THEN {writer} ELSE {})
=============================================================================
