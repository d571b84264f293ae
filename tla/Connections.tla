----------------------------- MODULE Connections -----------------------------
(***************************************************************************)
(* TCP connections between a client and a server, as asyncio shows them to *)
(* the two programs: telegrams arrive whole and in order, a write never    *)
(* waits, what is written to a connection that is over is lost without a   *)
(* word, and each end finds out for itself that the link is cut, or never. *)
(***************************************************************************)
EXTENDS Naturals, Sequences

CONSTANTS Conns,      \* names for TCP connections
          NoConn,     \* no connection
          MaxQueue    \* bound: telegrams under way to one end

ASSUME ConnsAssumption == NoConn \notin Conns
ASSUME MaxQueueAssumption == MaxQueue \in Nat \ {0}

VARIABLES ends,       \* a connection at each of its ends: over, as far as the end knows,
                      \* to be accepted, or open
          queue,      \* telegrams that an end has yet to read
          cut         \* connections whose link is cut

netVars == <<ends, queue, cut>>

Ends == {"client", "server"}
Peer(e) == IF e = "client" THEN "server" ELSE "client"

NetInit == /\ ends = [e \in Ends |-> [c \in Conns |-> "over"]]
           /\ queue = [e \in Ends |-> [c \in Conns |-> <<>>]]
           /\ cut = {}

NetTypeOK == /\ ends \in [Ends -> [Conns -> {"over", "backlog", "open"}]]
             /\ cut \subseteq Conns
             /\ \A e \in Ends, c \in Conns : Len(queue[e][c]) <= MaxQueue

(* open_connection() returned; the server has yet to accept.               *)
Open(c) == /\ ends' = [ends EXCEPT !["client"][c] = "open", !["server"][c] = "backlog"]
           /\ queue' = [e \in Ends |-> [queue[e] EXCEPT ![c] = <<>>]]
           /\ cut' = cut \ {c}

Accepted(c) == IF ends["client"][c] = "open" \/ c \in cut THEN "open" ELSE "over"

HasRoom(e, c) == Len(queue[Peer(e)][c]) < MaxQueue
Reaches(e, c) == /\ ends[e][c] = "open" /\ c \notin cut
                 /\ ends[Peer(e)][c] \in {"backlog", "open"}

Write(e, c, telegram) ==
  /\ HasRoom(e, c)
  /\ queue' = IF Reaches(e, c) THEN [queue EXCEPT ![Peer(e)][c] = Append(@, telegram)] ELSE queue
  /\ UNCHANGED <<ends, cut>>

(* readexactly() of the next telegram, and when it ends short or raises.   *)
CanRead(e, c) == queue[e][c] # <<>>
Consume(e, c) == queue' = [queue EXCEPT ![e][c] = Tail(@)]
ReadEnds(e, c) == queue[e][c] = <<>> /\ ends[e][c] = "over"

(* Closing c at one end, or nothing if c is NoConn: what that end has not  *)
(* read is dropped, the peer still reads what was written to it.           *)
AfterClose(e, c) ==
  IF c = NoConn THEN ends
  ELSE [ends EXCEPT ![e][c] = "over",
                    ![Peer(e)][c] = IF @ = "open" /\ c \notin cut THEN "over" ELSE @]
Dropped(e, c) == IF c = NoConn THEN queue ELSE [queue EXCEPT ![e][c] = <<>>]

(* A cut link is of no interest once both ends know. *)
StillCut(after) == {c \in cut : \E e \in Ends : after[e][c] # "over"}

Close(e, c) == /\ ends' = AfterClose(e, c)
               /\ queue' = Dropped(e, c)
               /\ cut' = StillCut(ends')

(* The network: what is under way is lost.                                 *)
Cut(c) == /\ ends["client"][c] = "open" /\ c \notin cut
          /\ cut' = cut \cup {c}
          /\ queue' = [e \in Ends |-> [queue[e] EXCEPT ![c] = <<>>]]
          /\ UNCHANGED ends

Notice(e, c) == /\ c \in cut /\ ends[e][c] = "open"
                /\ ends' = [ends EXCEPT ![e][c] = "over"]
                /\ cut' = StillCut(ends')
                /\ UNCHANGED queue
=============================================================================
