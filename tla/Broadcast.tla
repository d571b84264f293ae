------------------------------ MODULE Broadcast ------------------------------
(***************************************************************************)
(* Events for the browsers: WebSocketManager and the /ws endpoint, which   *)
(* sends a new browser a snapshot and then waits for it to go.             *)
(*                                                                         *)
(* The events are the changes of one value of the data store, numbered in  *)
(* order; broadcast number e is made by the task that changes the value to *)
(* e, before its first await.  The set of browsers is a Python set: a      *)
(* table of slots that is iterated by position.  The iterator compares the *)
(* set's size with the one at its start, nothing more: a browser replaced  *)
(* by another goes unnoticed, and the table may have been rebuilt.         *)
(***************************************************************************)
EXTENDS Integers, FiniteSets, SequencesExt

CONSTANTS WebSockets,   \* each is accepted at most once
          NoSocket,     \* an empty slot
          NSlots,       \* slots of the table
          MaxEvents     \* bound: changes of the value

ASSUME NoSocketAssumption == NoSocket \notin WebSockets
ASSUME NSlotsAssumption == NSlots \in Nat /\ NSlots >= Cardinality(WebSockets)
ASSUME MaxEventsAssumption == MaxEvents \in Nat

Slots == 1 .. NSlots
Events == 1 .. MaxEvents
Snapshot == 0           \* stands for the endpoint among the senders to a browser

VARIABLES
  value,               \* the latest change
  active_connections,  \* the table of the set
  open,                \* the WebSockets that both ends hold open
  endpoint,            \* where the endpoint of each is
  senders,             \* who is parked in send_text of each, in order
  bc,                  \* the broadcasts
  view,                \* the last value each browser was sent
  disturbed            \* history: broadcasts cancelled, or during which the set changed

sockets == <<open, endpoint>>
vars == <<value, active_connections, sockets, senders, bc, view, disturbed>>

Members == {active_connections[i] : i \in Slots} \ {NoSocket}
Sending == {e \in Events : bc[e].at = "sending"}

TypeOK ==
  /\ value \in 0 .. MaxEvents
  /\ active_connections \in [Slots -> WebSockets \cup {NoSocket}]
  /\ open \subseteq WebSockets
  /\ endpoint \in [WebSockets -> {"none", "snapshot", "receiving", "done"}]
  /\ senders \in [WebSockets -> Seq({Snapshot} \cup Events)]
  /\ bc \in [Events -> [at : {"idle", "sending", "over", "raised", "cancelled"},
                        pos : 0 .. NSlots, size : 0 .. NSlots, disconnected : SUBSET WebSockets]]
  /\ view \in [WebSockets -> 0 .. MaxEvents]
  /\ disturbed \subseteq Events

(* A broadcast that is not under way: idle, or ended the one way or other. *)
Rest(how) == [at |-> how, pos |-> 0, size |-> 0, disconnected |-> {}]

Init ==
  /\ value = 0
  /\ active_connections = [i \in Slots |-> NoSocket]
  /\ open = {}
  /\ endpoint = [w \in WebSockets |-> "none"]
  /\ senders = [w \in WebSockets |-> <<>>]
  /\ bc = [e \in Events |-> Rest("idle")]
  /\ view = [w \in WebSockets |-> 0]
  /\ disturbed = {}

-----------------------------------------------------------------------------
(* active_connections.discard; `others` are the broadcasts under way. *)
Discard(gone, others) ==
  /\ active_connections' = [i \in Slots |-> IF active_connections[i] \in gone
                                            THEN NoSocket ELSE active_connections[i]]
  /\ disturbed' = IF gone \cap Members = {} THEN disturbed ELSE disturbed \cup others

-----------------------------------------------------------------------------
(* A broadcast.                                                            *)

(* `for` finds the set of another size: RuntimeError, and the failed ones  *)
(* stay in it.                                                             *)
Raises(e, size) ==
  /\ Cardinality(Members) # size
  /\ bc' = [bc EXCEPT ![e] = Rest("raised")]
  /\ UNCHANGED <<active_connections, view, disturbed>>

(* Fault: the browsers that were reached are discarded. *)
EndsDropsReached(e, pos, size, disconnected) ==
  /\ Cardinality(Members) = size
  /\ \A i \in Slots : i > pos => active_connections[i] = NoSocket
  /\ bc' = [bc EXCEPT ![e] = Rest("over")]
  /\ Discard(Members, Sending \ {e})
  /\ UNCHANGED view

(* `for` finds no more: the failed ones are discarded. *)
Ends(e, pos, size, disconnected) ==
  /\ Cardinality(Members) = size
  /\ \A i \in Slots : i > pos => active_connections[i] = NoSocket
  /\ bc' = [bc EXCEPT ![e] = Rest("over")]
  /\ Discard(disconnected, Sending \ {e})
  /\ UNCHANGED view

(* Fault: each browser is sent the value as it is by then. *)
SendsLatest(e, pos, size, disconnected) ==
  LET rest == {i \in Slots : i > pos /\ active_connections[i] # NoSocket}
      w == active_connections[Min(rest)]
  IN  /\ Cardinality(Members) = size /\ rest # {}
      /\ bc' = [bc EXCEPT ![e] = [at |-> "sending", pos |-> Min(rest), size |-> size,
                                  disconnected |-> disconnected]]
      /\ view' = IF w \in open THEN [view EXCEPT ![w] = Max({value, e})] ELSE view
      /\ UNCHANGED <<active_connections, disturbed>>

(* `for` goes on to the next browser, which is sent the value. *)
Sends(e, pos, size, disconnected) ==
  LET rest == {i \in Slots : i > pos /\ active_connections[i] # NoSocket}
      w == active_connections[Min(rest)]
  IN  /\ Cardinality(Members) = size /\ rest # {}
      /\ bc' = [bc EXCEPT ![e] = [at |-> "sending", pos |-> Min(rest), size |-> size,
                                  disconnected |-> disconnected]]
      /\ view' = IF w \in open THEN [view EXCEPT ![w] = e] ELSE view
      /\ UNCHANGED <<active_connections, disturbed>>

(* The loop after position pos, up to the next await or to its end.        *)
Loop(e, pos, size, disconnected) ==
  \/ Raises(e, size)
  \/ Ends(e, pos, size, disconnected)
  \/ Sends(e, pos, size, disconnected)

(* The senders, once `left` and with broadcast e where it is now. *)
Queued(e, left) ==
  senders' = IF bc'[e].at = "sending"
             THEN LET w == active_connections[bc'[e].pos]
                  IN  [left EXCEPT ![w] = Append(@, e)]
             ELSE left

(* A handler changes the value and broadcasts it. *)
Change(e) ==
  /\ e = value + 1
  /\ value' = e
  /\ Loop(e, 0, Cardinality(Members), {})
  /\ Queued(e, senders)
  /\ UNCHANGED sockets

Popped(w) == [senders EXCEPT ![w] = Tail(@)]

(* Fault: the first failure ends the broadcast. *)
SendEndsAtFailure(w) ==
  /\ senders[w] # <<>> /\ Head(senders[w]) # Snapshot
  /\ LET e == Head(senders[w])
     IN  /\ IF w \in open
            THEN Loop(e, bc[e].pos, bc[e].size, bc[e].disconnected)
            ELSE /\ bc' = [bc EXCEPT ![e] = Rest("over")]
                 /\ Discard({w}, Sending \ {e})
                 /\ UNCHANGED view
         /\ Queued(e, Popped(w))
  /\ UNCHANGED <<value, sockets>>

(* send_text is over for the first in line; on a WebSocket that is no      *)
(* longer open it may have failed.                                         *)
SendOver(w) ==
  /\ senders[w] # <<>> /\ Head(senders[w]) # Snapshot
  /\ \E failed \in SUBSET ({w} \ open) :
       LET e == Head(senders[w])
       IN  /\ Loop(e, bc[e].pos, bc[e].size, bc[e].disconnected \cup failed)
           /\ Queued(e, Popped(w))
  /\ UNCHANGED <<value, sockets>>

(* The broadcasting task is cancelled (an alive sender, a watchdog, an     *)
(* automatic send): CancelledError is no Exception, and ends the loop.     *)
CancelDelivered(e) ==
  /\ e \in Sending
  /\ bc' = [bc EXCEPT ![e] = Rest("cancelled")]
  /\ senders' = [w \in WebSockets |-> RemoveFirst(senders[w], e)]
  /\ disturbed' = disturbed \cup {e}
  /\ UNCHANGED <<value, active_connections, sockets, view>>

-----------------------------------------------------------------------------
(* A browser and its endpoint.                                             *)

Placements(S) ==
  {t \in [Slots -> S \cup {NoSocket}] :
     \A w \in S : Cardinality({i \in Slots : t[i] = w}) = 1}

(* accept() is done: from here to the await of send_personal the browser   *)
(* joins the set, which may rebuild the table, and its snapshot is taken.  *)
Join(w) ==
  /\ endpoint[w] = "none"
  /\ open' = open \cup {w}
  /\ active_connections' \in Placements(Members \cup {w})
  /\ disturbed' = disturbed \cup Sending
  /\ view' = [view EXCEPT ![w] = value]
  /\ endpoint' = [endpoint EXCEPT ![w] = "snapshot"]
  /\ senders' = [senders EXCEPT ![w] = <<Snapshot>>]
  /\ UNCHANGED <<value, bc>>

(* send_personal is over; if it failed, it discards the browser. *)
SnapshotSent(w) ==
  /\ senders[w] # <<>> /\ Head(senders[w]) = Snapshot
  /\ \E failed \in SUBSET ({w} \ open) : Discard(failed, Sending)
  /\ endpoint' = [endpoint EXCEPT ![w] = "receiving"]
  /\ senders' = Popped(w)
  /\ UNCHANGED <<value, open, bc, view>>

(* The browser closes, or is lost. *)
Close(w) ==
  /\ w \in open
  /\ open' = open \ {w}
  /\ UNCHANGED <<value, active_connections, endpoint, senders, bc, view, disturbed>>

(* receive_text raises, and the endpoint disconnects the browser. *)
ReceiveEnds(w) ==
  /\ endpoint[w] = "receiving" /\ w \notin open
  /\ endpoint' = [endpoint EXCEPT ![w] = "done"]
  /\ Discard({w}, Sending)
  /\ UNCHANGED <<value, open, senders, bc, view>>

-----------------------------------------------------------------------------
Next == \/ \E e \in Events : Change(e) \/ CancelDelivered(e)
        \/ \E w \in WebSockets : \/ SendOver(w) \/ SnapshotSent(w) \/ ReceiveEnds(w)
                                 \/ Join(w) \/ Close(w)

Spec == Init /\ [][Next]_vars

-----------------------------------------------------------------------------
Quiet == Sending = {}

(* The set is the browsers that are served: an open one is in it, once,    *)
(* whatever fails for another browser; one whose endpoint is over has left *)
(* it, also when a broadcast that met its failure raised before it could   *)
(* clean up.                                                               *)
SetIsServed ==
  /\ \A w \in open : Cardinality({i \in Slots : active_connections[i] = w}) = 1
  /\ \A w \in Members : endpoint[w] # "done"

(* However changes, broadcasts, joins and losses interleave, a browser is  *)
(* behind the data store only if the broadcast of the latest change was    *)
(* disturbed (and may not have reached it), or the one it was sent last    *)
(* was (and may have come late): cancelled, or the set changed during it.  *)
BehindOnlyIfDisturbed ==
  Quiet => \A w \in open : view[w] = value \/ {value, view[w]} \cap disturbed # {}

(* A browser that stays is sent every change, in order: the change it is   *)
(* sent is the one after the last it was sent, or a broadcast was          *)
(* disturbed: this one, the one before it, or the browser's last one.      *)
EventsInOrder ==
  \A w \in open : view'[w] # view[w] =>
    view'[w] = view[w] + 1 \/ {view[w], view'[w], view'[w] - 1} \cap disturbed # {}

InOrder == [][EventsInOrder]_vars
=============================================================================
