-------------------------- MODULE EarlierLineProofs --------------------------
(***************************************************************************)
(* The earlier line, for any number of connections, materials and          *)
(* telegrams under way: one of each task, and a status on show that        *)
(* implements ConnectionStatus as long as connections do not overlap.      *)
(***************************************************************************)
EXTENDS EarlierLine, SequenceTheorems, TLAPS

Telegrams == [tc : {"1002", "1101", "1199"}, of : Materials \cup {NoMaterial}]

NetInv == /\ NetTypeOK
          /\ queue \in [Ends -> [Conns -> Seq(Telegrams)]]

SimInv == /\ Sim!SimTypeOK
          /\ Sim!OneReader
          /\ connected => writer # NoConn

(* The tasks are the known ones; a connection that is yet to be accepted   *)
(* has no handler; and the status follows the shared writer and whoever    *)
(* still reads.                                                            *)
SrvInv == /\ Srv!SrvTypeOK
          /\ tasks \subseteq {known} \ {NoConn}
          /\ \A c \in Conns : ends["server"][c] = "backlog" => handler[c] = "none"
          /\ client # NoConn => connection_state # "DISCONNECTED"
          /\ client = NoConn /\ (\A c \in Conns : handler[c] # "reading") =>
               connection_state = "DISCONNECTED" /\ tasks = {}

IInv == NetInv /\ SimInv /\ SrvInv

(* A step of the network's state that leaves nothing new to be accepted.   *)
NoneWaits == \A c \in Conns : ends'["server"][c] = "backlog" => ends["server"][c] = "backlog"

-----------------------------------------------------------------------------
(* The network's operations, whoever uses them.                            *)

LEMMA WriteLemma ==
  ASSUME NetInv, NEW e \in Ends, NEW c \in Conns, NEW t \in Telegrams, Write(e, c, t)
  PROVE  NetInv' /\ NoneWaits
<1>1. ends' = ends /\ cut' = cut
  BY DEF Write
<1>2. CASE queue' = queue
  BY <1>1, <1>2 DEF NetInv, NetTypeOK, NoneWaits
<1>3. CASE queue' = [queue EXCEPT ![Peer(e)][c] = Append(@, t)]
  <2> DEFINE p == Peer(e)
  <2>1. p \in Ends /\ queue[p][c] \in Seq(Telegrams) /\ Len(queue[p][c]) < MaxQueue
    BY DEF Write, HasRoom, Peer, Ends, NetInv
  <2>2. /\ Append(queue[p][c], t) \in Seq(Telegrams)
        /\ Len(Append(queue[p][c], t)) = Len(queue[p][c]) + 1
        /\ Len(queue[p][c]) \in Nat
    BY <2>1, AppendProperties, LenProperties
  <2>3. Len(Append(queue[p][c], t)) <= MaxQueue
    BY <2>1, <2>2, MaxQueueAssumption
  <2> HIDE DEF p
  <2>4. queue' = [queue EXCEPT ![p] = [queue[p] EXCEPT ![c] = Append(queue[p][c], t)]]
    BY <1>3 DEF p
  <2>5. queue' \in [Ends -> [Conns -> Seq(Telegrams)]]
    BY <2>1, <2>2, <2>4 DEF NetInv
  <2>6. \A d \in Ends, k \in Conns : Len(queue'[d][k]) <= MaxQueue
    BY <2>1, <2>3, <2>4 DEF NetInv, NetTypeOK
  <2> QED BY <1>1, <2>5, <2>6 DEF NetInv, NetTypeOK, NoneWaits
<1> QED BY <1>2, <1>3 DEF Write

LEMMA ConsumeLemma ==
  ASSUME NetInv, NEW e \in Ends, NEW c \in Conns, CanRead(e, c), Consume(e, c),
         UNCHANGED <<ends, cut>>
  PROVE  NetInv' /\ NoneWaits /\ Head(queue[e][c]) \in Telegrams
<1>1. queue[e][c] \in Seq(Telegrams) /\ queue[e][c] # <<>> /\ Len(queue[e][c]) <= MaxQueue
  BY DEF CanRead, NetInv, NetTypeOK
<1>2. /\ Head(queue[e][c]) \in Telegrams /\ Tail(queue[e][c]) \in Seq(Telegrams)
      /\ Len(Tail(queue[e][c])) = Len(queue[e][c]) - 1
      /\ Len(queue[e][c]) \in Nat
  BY <1>1, HeadTailProperties, LenProperties
<1>3. Len(Tail(queue[e][c])) <= MaxQueue
  BY <1>1, <1>2, MaxQueueAssumption
<1>4. queue' = [queue EXCEPT ![e] = [queue[e] EXCEPT ![c] = Tail(queue[e][c])]]
  BY DEF Consume
<1>5. queue' \in [Ends -> [Conns -> Seq(Telegrams)]]
  BY <1>2, <1>4 DEF NetInv
<1>6. \A d \in Ends, k \in Conns : Len(queue'[d][k]) <= MaxQueue
  BY <1>3, <1>4 DEF NetInv, NetTypeOK
<1> QED BY <1>2, <1>5, <1>6 DEF NetInv, NetTypeOK, NoneWaits

(* Queues only lose telegrams. *)
LEMMA EmptiedLemma ==
  ASSUME NetInv, NEW q \in [Ends -> [Conns -> Seq(Telegrams)]],
         \A d \in Ends, k \in Conns : q[d][k] \in {queue[d][k], <<>>}
  PROVE  \A d \in Ends, k \in Conns : Len(q[d][k]) <= MaxQueue
BY MaxQueueAssumption DEF NetInv, NetTypeOK

LEMMA DroppedLemma ==
  ASSUME NetInv, NEW e \in Ends, NEW c \in Conns \cup {NoConn}
  PROVE  /\ Dropped(e, c) \in [Ends -> [Conns -> Seq(Telegrams)]]
         /\ \A d \in Ends, k \in Conns : Len(Dropped(e, c)[d][k]) <= MaxQueue
         /\ AfterClose(e, c) \in [Ends -> [Conns -> {"over", "backlog", "open"}]]
         /\ \A k \in Conns : AfterClose(e, c)["server"][k] = "backlog" =>
                               ends["server"][k] = "backlog"
<1> USE ConnsAssumption
<1>1. CASE c = NoConn
  BY <1>1 DEF Dropped, AfterClose, NetInv, NetTypeOK
<1>2. CASE c \in Conns
  <2>1. c # NoConn
    BY <1>2
  <2>2. Dropped(e, c) = [queue EXCEPT ![e] = [queue[e] EXCEPT ![c] = <<>>]]
    BY <2>1 DEF Dropped
  <2>3. Dropped(e, c) \in [Ends -> [Conns -> Seq(Telegrams)]]
    BY <1>2, <2>2 DEF NetInv
  <2>4. \A d \in Ends, k \in Conns : Dropped(e, c)[d][k] \in {queue[d][k], <<>>}
    BY <1>2, <2>2 DEF NetInv
  <2>5. \A d \in Ends, k \in Conns : Len(Dropped(e, c)[d][k]) <= MaxQueue
    BY <2>3, <2>4, EmptiedLemma
  <2> DEFINE p == Peer(e)
  <2>6. p \in Ends /\ p # e
    BY DEF Peer, Ends
  <2> DEFINE P == IF ends[p][c] = "open" /\ c \notin cut THEN "over" ELSE ends[p][c]
  <2>7. AfterClose(e, c) = [ends EXCEPT ![e] = [ends[e] EXCEPT ![c] = "over"],
                                        ![p] = [ends[p] EXCEPT ![c] = P]]
    BY <2>1, <2>6 DEF AfterClose
  <2>8. P \in {"over", "backlog", "open"} /\ (P = "backlog" => ends[p][c] = "backlog")
    BY <1>2, <2>6 DEF NetInv, NetTypeOK
  <2> HIDE DEF p, P
  <2>9. AfterClose(e, c) \in [Ends -> [Conns -> {"over", "backlog", "open"}]]
    <3>1. /\ [ends[e] EXCEPT ![c] = "over"] \in [Conns -> {"over", "backlog", "open"}]
          /\ [ends[p] EXCEPT ![c] = P] \in [Conns -> {"over", "backlog", "open"}]
      BY <1>2, <2>6, <2>8 DEF NetInv, NetTypeOK
    <3>2. ends \in [Ends -> [Conns -> {"over", "backlog", "open"}]]
      BY DEF NetInv, NetTypeOK
    <3> QED BY <2>6, <2>7, <3>1, <3>2
  <2>10. \A k \in Conns : AfterClose(e, c)["server"][k] = "backlog" =>
                            ends["server"][k] = "backlog"
    BY <1>2, <2>6, <2>7, <2>8 DEF NetInv, NetTypeOK, Ends
  <2> QED BY <2>3, <2>5, <2>9, <2>10
<1> QED BY <1>1, <1>2

LEMMA CloseLemma ==
  ASSUME NetInv, NEW e \in Ends, NEW c \in Conns \cup {NoConn}, Close(e, c)
  PROVE  NetInv' /\ NoneWaits
BY DroppedLemma DEF Close, StillCut, NetInv, NetTypeOK, NoneWaits

LEMMA NetworkLemma ==
  ASSUME NetInv, Network
  PROVE  NetInv' /\ NoneWaits
<1>1. PICK c \in Conns : Cut(c) \/ \E e \in Ends : Notice(e, c)
  BY DEF Network
<1>2. CASE Cut(c)
  <2>1. /\ queue' \in [Ends -> [Conns -> Seq(Telegrams)]]
        /\ \A d \in Ends, k \in Conns : queue'[d][k] \in {queue[d][k], <<>>}
    BY <1>2 DEF Cut, NetInv
  <2>2. \A d \in Ends, k \in Conns : Len(queue'[d][k]) <= MaxQueue
    BY <2>1, EmptiedLemma
  <2> QED BY <1>2, <2>1, <2>2 DEF Cut, NetInv, NetTypeOK, NoneWaits
<1>3. ASSUME NEW e \in Ends, Notice(e, c) PROVE NetInv' /\ NoneWaits
  <2>1. /\ ends' = [ends EXCEPT ![e] = [ends[e] EXCEPT ![c] = "over"]]
        /\ queue' = queue /\ cut' \subseteq cut
    BY <1>3 DEF Notice, StillCut
  <2>2. ends' \in [Ends -> [Conns -> {"over", "backlog", "open"}]] /\ NoneWaits
    BY <2>1 DEF NetInv, NetTypeOK, NoneWaits, Ends
  <2> QED BY <2>1, <2>2 DEF NetInv, NetTypeOK
<1> QED BY <1>1, <1>2, <1>3

(* The two programs use the operations of Connections under their names.   *)
LEMMA SameNetwork ==
  /\ \A e, c, t : Sim!Write(e, c, t) <=> Write(e, c, t)
  /\ \A e, c, t : Srv!Write(e, c, t) <=> Write(e, c, t)
  /\ \A e, c : Sim!Close(e, c) <=> Close(e, c)
  /\ \A e, c : Srv!Close(e, c) <=> Close(e, c)
  /\ \A e, c : Sim!CanRead(e, c) <=> CanRead(e, c)
  /\ \A e, c : Srv!CanRead(e, c) <=> CanRead(e, c)
  /\ \A e, c : Sim!Consume(e, c) <=> Consume(e, c)
  /\ \A e, c : Srv!Consume(e, c) <=> Consume(e, c)
  /\ \A c : Sim!Open(c) <=> Open(c)
  /\ \A e, c : Srv!AfterClose(e, c) = AfterClose(e, c)
  /\ \A e, c : Srv!Dropped(e, c) = Dropped(e, c)
BY DEF Sim!Write, Srv!Write, Write, Sim!HasRoom, Srv!HasRoom, HasRoom,
       Sim!Reaches, Srv!Reaches, Reaches, Sim!Peer, Srv!Peer, Peer,
       Sim!Close, Srv!Close, Close, Sim!AfterClose, Srv!AfterClose, AfterClose,
       Sim!Dropped, Srv!Dropped, Dropped, Sim!StillCut, Srv!StillCut, StillCut,
       Sim!Ends, Srv!Ends, Ends, Sim!CanRead, Srv!CanRead, CanRead,
       Sim!Consume, Srv!Consume, Consume, Sim!Open, Open

LEMMA OpenLemma ==
  ASSUME NetInv, NEW c \in Conns, Open(c)
  PROVE  NetInv' /\ \A k \in Conns \ {c} : ends'["server"][k] = ends["server"][k]
<1>1. /\ queue' \in [Ends -> [Conns -> Seq(Telegrams)]]
      /\ \A d \in Ends, k \in Conns : queue'[d][k] \in {queue[d][k], <<>>}
  BY DEF Open, NetInv
<1>2. \A d \in Ends, k \in Conns : Len(queue'[d][k]) <= MaxQueue
  BY <1>1, EmptiedLemma
<1>3. /\ ends' = [ends EXCEPT !["client"] = [ends["client"] EXCEPT ![c] = "open"],
                              !["server"] = [ends["server"] EXCEPT ![c] = "backlog"]]
      /\ cut' \subseteq cut
  BY DEF Open
<1>4. ends' \in [Ends -> [Conns -> {"over", "backlog", "open"}]]
  BY <1>3 DEF NetInv, NetTypeOK, Ends
<1>5. \A k \in Conns \ {c} : ends'["server"][k] = ends["server"][k]
  BY <1>3 DEF NetInv, NetTypeOK, Ends
<1> QED BY <1>1, <1>2, <1>3, <1>4, <1>5 DEF NetInv, NetTypeOK

-----------------------------------------------------------------------------
(* The simulator's steps.                                                  *)

LEMMA SimFrame ==
  ASSUME SrvInv, NoneWaits, UNCHANGED srvVars
  PROVE  SrvInv'
BY DEF SrvInv, NoneWaits, srvVars, Srv!SrvTypeOK

LEMMA SimStepLemma ==
  ASSUME IInv, Sim!SimNext, UNCHANGED srvVars
  PROVE  IInv'
<1> USE DEF IInv
<1> SUFFICES NetInv' /\ SimInv' /\ NoneWaits
  BY SimFrame
<1> USE ConnsAssumption, SameNetwork
<1>1. "client" \in Ends
  BY DEF Ends
<1>2. CASE Sim!Disconnect \/ Sim!Quit
  <2>1. Close("client", writer) /\ writer \in Conns \cup {NoConn}
    BY <1>2 DEF Sim!Disconnect, Sim!Quit, SimInv, Sim!SimTypeOK
  <2>2. NetInv' /\ NoneWaits
    BY <1>1, <2>1, CloseLemma
  <2>3. SimInv'
    BY <1>2, <2>1 DEF Sim!Disconnect, Sim!Quit, SimInv, Sim!SimTypeOK, Sim!OneReader
  <2> QED BY <2>2, <2>3
<1>3. CASE Sim!SendAlive
  <2>1. writer \in Conns /\ Write("client", writer, Sim!Alive)
    BY <1>3 DEF Sim!SendAlive, SimInv, Sim!SimTypeOK
  <2>2. Sim!Alive \in Telegrams
    BY DEF Sim!Alive, Telegrams
  <2>3. NetInv' /\ NoneWaits
    BY <1>1, <2>1, <2>2, WriteLemma
  <2>4. SimInv'
    BY <1>3 DEF Sim!SendAlive, SimInv, Sim!SimTypeOK, Sim!OneReader
  <2> QED BY <2>3, <2>4
<1>4. CASE Sim!RunEngine
  <2>1. Sim!WindingOf(engine) \in Telegrams
    BY DEF Sim!WindingOf, Telegrams, SimInv, Sim!SimTypeOK
  <2>2. NetInv' /\ NoneWaits
    <3>1. CASE writer = NoConn
      BY <1>4, <3>1 DEF Sim!RunEngine, Sim!netVars, NetInv, NetTypeOK, NoneWaits
    <3>2. CASE writer # NoConn
      <4>1. writer \in Conns /\ Write("client", writer, Sim!WindingOf(engine))
        BY <1>4, <3>2 DEF Sim!RunEngine, SimInv, Sim!SimTypeOK
      <4> QED BY <1>1, <2>1, <4>1, WriteLemma
    <3> QED BY <3>1, <3>2
  <2>3. SimInv'
    BY <1>4 DEF Sim!RunEngine, SimInv, Sim!SimTypeOK, Sim!OneReader
  <2> QED BY <2>2, <2>3
<1>5. ASSUME NEW k \in Conns, Sim!AliveWakes(k) PROVE NetInv' /\ SimInv' /\ NoneWaits
  <2>1. NetInv' /\ NoneWaits
    <3>1. CASE connected
      <4>1. writer \in Conns /\ Write("client", writer, Sim!Alive)
        BY <1>5, <3>1 DEF Sim!AliveWakes, SimInv, Sim!SimTypeOK
      <4>2. Sim!Alive \in Telegrams
        BY DEF Sim!Alive, Telegrams
      <4> QED BY <1>1, <4>1, <4>2, WriteLemma
    <3>2. CASE ~connected
      BY <1>5, <3>2 DEF Sim!AliveWakes, Sim!netVars, NetInv, NetTypeOK, NoneWaits
    <3> QED BY <3>1, <3>2
  <2>2. SimInv'
    BY <1>5 DEF Sim!AliveWakes, SimInv, Sim!SimTypeOK, Sim!OneReader
  <2> QED BY <2>1, <2>2
<1>6. ASSUME NEW k \in Conns, Sim!ReadTelegram(k) PROVE NetInv' /\ SimInv' /\ NoneWaits
  <2>1. /\ connected /\ writer \in Conns
        /\ CanRead("client", writer) /\ Consume("client", writer) /\ UNCHANGED <<ends, cut>>
    BY <1>6 DEF Sim!ReadTelegram, SimInv, Sim!SimTypeOK, Sim!OneReader
  <2>2. NetInv' /\ NoneWaits /\ Head(queue["client"][writer]) \in Telegrams
    BY <1>1, <2>1, ConsumeLemma
  <2>3. Head(queue["client"][writer]).of \in Materials \cup {NoMaterial}
    BY <2>2 DEF Telegrams
  <2>4. SimInv'
    BY <1>6, <2>3 DEF Sim!ReadTelegram, SimInv, Sim!SimTypeOK, Sim!OneReader
  <2> QED BY <2>2, <2>4
<1>7. ASSUME NEW k \in Conns, Sim!ReadFails(k) PROVE NetInv' /\ SimInv' /\ NoneWaits
  <2>1. NetInv' /\ NoneWaits
    BY <1>7 DEF Sim!ReadFails, Sim!netVars, NetInv, NetTypeOK, NoneWaits
  <2>2. SimInv'
    BY <1>7 DEF Sim!ReadFails, SimInv, Sim!SimTypeOK, Sim!OneReader
  <2> QED BY <2>1, <2>2
<1> QED BY <1>2, <1>3, <1>4, <1>5, <1>6, <1>7 DEF Sim!SimNext

LEMMA ConnectLemma ==
  ASSUME IInv, NEW c \in Conns, Free(c), Sim!Connect(c), UNCHANGED srvVars
  PROVE  IInv'
<1> USE DEF IInv
<1>1. NetInv' /\ \A k \in Conns \ {c} : ends'["server"][k] = ends["server"][k]
  BY OpenLemma, SameNetwork DEF Sim!Connect
<1>2. SimInv'
  BY ConnsAssumption DEF Sim!Connect, SimInv, Sim!SimTypeOK, Sim!OneReader
<1>3. SrvInv'
  BY <1>1 DEF Free, SrvInv, srvVars, Srv!SrvTypeOK
<1> QED BY <1>1, <1>2, <1>3

-----------------------------------------------------------------------------
(* The server's steps.                                                     *)

LEMMA SrvFrame ==
  ASSUME SimInv, UNCHANGED simVars
  PROVE  SimInv'
BY DEF SimInv, simVars, Sim!SimTypeOK, Sim!OneReader

(* The finally, whatever ended the handler. *)
LEMMA DisconnectedLemma ==
  ASSUME NetInv, SrvInv, NEW c \in Conns, Srv!OnClientDisconnected(c)
  PROVE  NetInv' /\ SrvInv'
<1>1. NetInv' /\ NoneWaits
  <2>1. Close("server", c) /\ "server" \in Ends
    BY SameNetwork DEF Srv!OnClientDisconnected, Ends
  <2> QED BY <2>1, CloseLemma
<1>2. tasks' = {}
  BY DEF Srv!OnClientDisconnected, SrvInv
<1>3. SrvInv'
  BY <1>1, <1>2 DEF Srv!OnClientDisconnected, SrvInv, Srv!SrvTypeOK, NoneWaits
<1> QED BY <1>1, <1>3

LEMMA AcceptLemma ==
  ASSUME NetInv, SrvInv, NEW c \in Conns, Srv!Accept(c)
  PROVE  NetInv' /\ SrvInv'
<1> USE ConnsAssumption, AliveLimitAssumption
<1>1. /\ ends' = [AfterClose("server", client) EXCEPT
                    !["server"] = [AfterClose("server", client)["server"] EXCEPT ![c] = Srv!Accepted(c)]]
      /\ queue' = Dropped("server", client) /\ cut' \subseteq cut
  BY SameNetwork DEF Srv!Accept, Srv!StillCut
<1>2. Srv!Accepted(c) \in {"open", "over"}
  BY DEF Srv!Accepted
<1>3. /\ "server" \in Ends /\ client \in Conns \cup {NoConn}
  BY DEF Ends, SrvInv, Srv!SrvTypeOK
<1>4. /\ Dropped("server", client) \in [Ends -> [Conns -> Seq(Telegrams)]]
      /\ \A d \in Ends, k \in Conns : Len(Dropped("server", client)[d][k]) <= MaxQueue
      /\ AfterClose("server", client) \in [Ends -> [Conns -> {"over", "backlog", "open"}]]
      /\ \A k \in Conns : AfterClose("server", client)["server"][k] = "backlog" =>
                            ends["server"][k] = "backlog"
  BY <1>3, DroppedLemma
<1>5. ends' \in [Ends -> [Conns -> {"over", "backlog", "open"}]]
  BY <1>1, <1>2, <1>3, <1>4
<1>6. NetInv'
  BY <1>1, <1>4, <1>5 DEF NetInv, NetTypeOK
<1>7. ends'["server"][c] # "backlog" /\ NoneWaits
  BY <1>1, <1>2, <1>3, <1>4 DEF NoneWaits
<1>8. SrvInv'
  BY <1>7 DEF Srv!Accept, SrvInv, Srv!SrvTypeOK, NoneWaits
<1> QED BY <1>6, <1>8

LEMMA SrvStepLemma ==
  ASSUME IInv, Srv!SrvNext, UNCHANGED simVars
  PROVE  IInv'
<1> USE DEF IInv
<1> SUFFICES NetInv' /\ SrvInv'
  BY SrvFrame
<1> USE ConnsAssumption, AliveLimitAssumption, SameNetwork
<1>1. "server" \in Ends
  BY DEF Ends
<1>2. ASSUME NEW c \in Conns, Srv!HandlerStep(c) PROVE NetInv' /\ SrvInv'
  <2>1. CASE Srv!Accept(c)
    BY <2>1, AcceptLemma
  <2>2. CASE Srv!Announced(c)
    <3>1. NetInv' /\ NoneWaits
      BY <2>2 DEF Srv!Announced, Srv!netVars, NetInv, NetTypeOK, NoneWaits
    <3>2. handler[c] # "none" /\ handler' = [handler EXCEPT ![c] = "reading"]
      BY <2>2 DEF Srv!Announced
    <3>3. tasks' = {c}
      BY <2>2 DEF Srv!Announced, SrvInv
    <3> QED BY <2>2, <3>1, <3>2, <3>3 DEF Srv!Announced, SrvInv, Srv!SrvTypeOK, NoneWaits
  <2>3. CASE Srv!AnnounceRaises(c)
    <3>1. NetInv' /\ NoneWaits
      <4>1. CASE Close("server", c)
        BY <1>1, <4>1, CloseLemma
      <4>2. CASE UNCHANGED netVars
        BY <4>2 DEF netVars, NetInv, NetTypeOK, NoneWaits
      <4> QED BY <2>3, <4>1, <4>2 DEF Srv!AnnounceRaises, Srv!netVars, netVars
    <3> QED BY <2>3, <3>1 DEF Srv!AnnounceRaises, SrvInv, Srv!SrvTypeOK, NoneWaits
  <2>4. CASE Srv!Dispatch(c)
    <3>1. /\ CanRead("server", c) /\ Consume("server", c) /\ UNCHANGED <<ends, cut>>
      BY <2>4 DEF Srv!Dispatch
    <3>2. NetInv' /\ NoneWaits
      BY <1>1, <3>1, ConsumeLemma
    <3> QED BY <2>4, <3>2 DEF Srv!Dispatch, SrvInv, Srv!SrvTypeOK, NoneWaits
  <2>5. CASE Srv!DispatchRaises(c) \/ Srv!ReceiveEnds(c)
    BY <2>5, DisconnectedLemma DEF Srv!DispatchRaises, Srv!ReceiveEnds
  <2> QED BY <1>2, <2>1, <2>2, <2>3, <2>4, <2>5 DEF Srv!HandlerStep
<1>3. ASSUME NEW k \in Conns, Srv!WatchdogWakes(k) PROVE NetInv' /\ SrvInv'
  <2>1. NetInv' /\ NoneWaits
    BY <1>3 DEF Srv!WatchdogWakes, Srv!netVars, NetInv, NetTypeOK, NoneWaits
  <2> QED BY <1>3, <2>1 DEF Srv!WatchdogWakes, SrvInv, Srv!SrvTypeOK, NoneWaits
<1>4. ASSUME NEW m \in Materials, Srv!SendMaterial(m) PROVE NetInv' /\ SrvInv'
  <2>1. client \in Conns /\ Write("server", client, Srv!MaterialOf(m))
    BY <1>4 DEF Srv!SendMaterial, SrvInv, Srv!SrvTypeOK
  <2>2. Srv!MaterialOf(m) \in Telegrams
    BY DEF Srv!MaterialOf, Telegrams
  <2>3. NetInv' /\ NoneWaits
    BY <1>1, <2>1, <2>2, WriteLemma
  <2> QED BY <1>4, <2>3 DEF Srv!SendMaterial, SrvInv, Srv!SrvTypeOK, NoneWaits
<1>5. CASE Srv!Tick
  <2>1. NetInv' /\ NoneWaits
    BY <1>5 DEF Srv!Tick, Srv!netVars, NetInv, NetTypeOK, NoneWaits
  <2>2. silence' \in 0 .. AliveLimit + 1
    BY <1>5 DEF Srv!Tick, SrvInv, Srv!SrvTypeOK
  <2> QED BY <1>5, <2>1, <2>2 DEF Srv!Tick, SrvInv, Srv!SrvTypeOK, NoneWaits
<1>6. CASE Srv!Stop
  <2>1. Close("server", client) /\ client \in Conns \cup {NoConn}
    BY <1>6 DEF Srv!Stop, SrvInv, Srv!SrvTypeOK
  <2>2. NetInv' /\ NoneWaits
    BY <1>1, <2>1, CloseLemma
  <2> QED BY <1>6, <2>2 DEF Srv!Stop, SrvInv, Srv!SrvTypeOK, NoneWaits
<1> QED BY <1>2, <1>3, <1>4, <1>5, <1>6 DEF Srv!SrvNext

-----------------------------------------------------------------------------
LEMMA InitIInv == Init => IInv
<1> SUFFICES ASSUME Init PROVE IInv
  OBVIOUS
<1> USE DEF Init
<1>1. NetInv
  <2>1. queue \in [Ends -> [Conns -> Seq(Telegrams)]]
    BY DEF NetInit
  <2>2. \A e \in Ends, c \in Conns : Len(queue[e][c]) <= MaxQueue
    BY MaxQueueAssumption DEF NetInit
  <2> QED BY <2>1, <2>2 DEF NetInit, NetInv, NetTypeOK
<1>2. SimInv
  BY DEF SimInv, Sim!SimInit, Sim!SimTypeOK, Sim!OneReader
<1>3. SrvInv
  BY AliveLimitAssumption DEF NetInit, SrvInv, Srv!SrvInit, Srv!SrvTypeOK, Ends
<1> QED BY <1>1, <1>2, <1>3 DEF IInv

LEMMA NextIInv == IInv /\ [Next]_vars => IInv'
<1> SUFFICES ASSUME IInv, [Next]_vars PROVE IInv'
  OBVIOUS
<1>1. CASE Sim!SimNext /\ UNCHANGED srvVars
  BY <1>1, SimStepLemma
<1>2. CASE (\E c \in Conns : Free(c) /\ Sim!Connect(c)) /\ UNCHANGED srvVars
  BY <1>2, ConnectLemma
<1>3. CASE Srv!SrvNext /\ UNCHANGED simVars
  BY <1>3, SrvStepLemma
<1>4. CASE Network /\ UNCHANGED <<simVars, srvVars>>
  BY <1>4, NetworkLemma, SimFrame, SrvFrame DEF IInv
<1>5. CASE UNCHANGED vars
  <2>1. NetInv' /\ NoneWaits
    BY <1>5 DEF vars, netVars, IInv, NetInv, NetTypeOK, NoneWaits
  <2> QED BY <1>5, <2>1, SimFrame, SrvFrame DEF vars, IInv
<1> QED BY <1>1, <1>2, <1>3, <1>4, <1>5 DEF Next

LEMMA Invariance == Spec => []IInv
<1> QED BY InitIInv, NextIInv, PTL DEF Spec

(* Both programs and the network between them keep their types, for any    *)
(* number of connections and of telegrams under way.                       *)
THEOREM TypeCorrect == Spec => []TypeOK
<1>1. IInv => TypeOK BY DEF IInv, NetInv, SimInv, SrvInv, TypeOK
<1> QED BY <1>1, Invariance, PTL

(* However connections overtake one another: one receive loop, and not     *)
(* more than one sender of alives and one watchdog.                        *)
THEOREM OneCorrect == Spec => []OneOfEach
<1>1. IInv => OneOfEach
  BY DEF IInv, SimInv, SrvInv, OneOfEach, Srv!OneHeartbeat
<1> QED BY <1>1, Invariance, PTL

-----------------------------------------------------------------------------
(* Between states in which the shared state has one owner, every step of   *)
(* the server is one of the status machine.                                *)
LEMMA StatusStep ==
  ASSUME IInv, [Next]_vars
  PROVE  [~Srv!OneOwner \/ ~Srv!OneOwner' \/ Status!Next]_<<connection_state, silence>>
<1> SUFFICES ASSUME Srv!OneOwner, Srv!OneOwner',
                    ~UNCHANGED <<connection_state, silence>>
             PROVE  Status!Next
  OBVIOUS
<1>0. Srv!SrvNext
  BY DEF Next, vars, srvVars
<1> USE DEF IInv, SrvInv, Srv!SrvTypeOK, Status!Next
<1>1. ASSUME NEW c \in Conns, Srv!Accept(c) PROVE Status!Next
  <2>1. /\ handler[c] = "none" /\ client' = c
        /\ handler' = [handler EXCEPT ![c] = "announcing"]
    BY <1>1 DEF Srv!Accept
  <2>2. \A k \in Conns : handler[k] = "none"
    BY <2>1 DEF Srv!OneOwner
  <2>3. client = NoConn
    BY <2>2 DEF Srv!OneOwner
  <2> QED BY <1>1, <2>2, <2>3 DEF Srv!Accept, Status!LinkUp
<1>2. ASSUME NEW c \in Conns, Srv!Dispatch(c) PROVE Status!Next
  <2>1. connection_state # "DISCONNECTED"
    BY <1>2, ConnsAssumption DEF Srv!Dispatch, Srv!OneOwner
  <2> QED BY <1>2, <2>1 DEF Srv!Dispatch, Status!Heard
<1>3. ASSUME NEW c \in Conns, Srv!OnClientDisconnected(c) PROVE Status!Next
  BY <1>3 DEF Srv!OnClientDisconnected, Status!LinkDown
<1>4. ASSUME NEW k \in Conns, Srv!WatchdogWakes(k) PROVE Status!Next
  <2>1. connection_state # "DISCONNECTED"
    BY <1>4, ConnsAssumption DEF Srv!WatchdogWakes, Srv!OneOwner
  <2> QED BY <1>4, <2>1 DEF Srv!WatchdogWakes, Status!Alarm
<1>5. CASE Srv!Tick
  BY <1>5 DEF Srv!Tick, Status!Tick
<1> QED BY <1>0, <1>1, <1>2, <1>3, <1>4, <1>5
        DEF Srv!SrvNext, Srv!HandlerStep, Srv!Announced, Srv!AnnounceRaises, Srv!DispatchRaises,
            Srv!ReceiveEnds, Srv!SendMaterial, Srv!Stop

(* The server implements the status machine of its successor, while        *)
(* connections do not overlap.                                             *)
THEOREM ImplementsStatus == Spec => StatusSpec
<1>1. Init => Status!Init
  BY DEF Init, Srv!SrvInit, Status!Init
<1> QED BY <1>1, Invariance, StatusStep, PTL DEF Spec, StatusSpec
=============================================================================
