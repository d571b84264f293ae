----------------------------- MODULE EarlierLine -----------------------------
(***************************************************************************)
(* The SPL simulator and the server of backend/tcp_server.py on one line.  *)
(***************************************************************************)
EXTENDS Connections

CONSTANTS Materials, NoMaterial, AliveLimit

ASSUME AliveLimitAssumption == AliveLimit \in Nat

VARIABLES
  connected, writer, alive, receiving, engine,
  running, client, handler, tasks, known,
  connection_state, silence, owed

Sim == INSTANCE SPLSimulator
Srv == INSTANCE L2TCPServer

simVars == <<connected, writer, alive, receiving, engine>>
srvVars == <<running, client, handler, tasks, known,
             connection_state, silence, owed>>
vars == <<netVars, simVars, srvVars>>

Init == NetInit /\ Sim!SimInit /\ Srv!SrvInit

(* A name for a new connection: no task remembers an earlier one of the    *)
(* name, and the server listens.                                           *)
Free(c) == /\ running
           /\ c \notin {writer, client} \cup alive \cup receiving \cup tasks
           /\ handler[c] = "none" /\ ends["server"][c] # "backlog"
           /\ owed[2] # c

Network == \E c \in Conns : Cut(c) \/ \E e \in Ends : Notice(e, c)

Next == \/ Sim!SimNext /\ UNCHANGED srvVars
        \/ (\E c \in Conns : Free(c) /\ Sim!Connect(c)) /\ UNCHANGED srvVars
        \/ Srv!SrvNext /\ UNCHANGED simVars
        \/ Network /\ UNCHANGED <<simVars, srvVars>>

Spec == Init /\ [][Next]_vars

-----------------------------------------------------------------------------
(* Both event loops run their tasks, and timers expire; what operators and *)
(* the network do is up to them.  Writes never wait in the programs: their *)
(* fairness is strong, so that MaxQueue cannot hold them back for ever.    *)
SimStep(A) == A /\ UNCHANGED srvVars
SrvStep(A) == A /\ UNCHANGED simVars

FairSpec ==
  /\ Spec
  /\ SF_vars(SimStep(Sim!RunEngine))
  /\ \A c \in Conns : /\ SF_vars(SimStep(Sim!AliveWakes(c)))
                      /\ WF_vars(SimStep(Sim!ReadTelegram(c) \/ Sim!ReadFails(c)))
                      /\ WF_vars(SrvStep(Srv!HandlerStep(c)))

-----------------------------------------------------------------------------
TypeOK == NetTypeOK /\ Sim!SimTypeOK /\ Srv!SrvTypeOK

(* However connections overtake one another and whatever fails: the        *)
(* simulator has one receive loop, of its connection, and the server never *)
(* more than one sender of alives and one watchdog.                        *)
OneOfEach == Sim!OneReader /\ Srv!OneHeartbeat

(* As long as no two connections are mixed up, the server implements the   *)
(* same status machine as the client that has taken its place.             *)
Status == INSTANCE ConnectionStatus WITH connection_state <- connection_state, silence <- silence
StatusSpec == Status!Init /\ [][~Srv!OneOwner \/ ~Srv!OneOwner' \/ Status!Next]_<<connection_state, silence>>

(* The two programs are at work on connection c.                           *)
Lasting(c) == /\ running /\ connected /\ writer = c /\ c \notin cut
              /\ ends["client"][c] = "open" /\ ends["server"][c] \in {"backlog", "open"}
              /\ handler[c] # "none" \/ ends["server"][c] = "backlog"

(* A connection that lasts comes alive: the simulator's heartbeat reaches  *)
(* the status on show, whatever its earlier connections left behind.       *)
ConnectionComesAlive ==
  \A c \in Conns : Lasting(c) ~> connection_state = "ALIVE_OK" \/ ~Lasting(c)

(* A material comes back as a winding in the data store, unless another is *)
(* sent after it or its connection does not last.                          *)
MaterialComesBack ==
  \A c \in Conns, m \in Materials :
    owed = <<m, c>> ~> owed # <<m, c>> \/ ~Lasting(c)
=============================================================================
