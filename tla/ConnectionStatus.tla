-------------------------- MODULE ConnectionStatus --------------------------
(***************************************************************************)
(* What the monitor promises its operators about the link to the L2        *)
(* server: the status machine behind the ConnectionState enumeration of    *)
(* backend/data_store.py, with the silence clock that justifies an alarm.  *)
(* It knows nothing of tasks, sockets or broadcasts; SPLClient is shown to *)
(* implement it.                                                           *)
(***************************************************************************)
EXTENDS Integers

CONSTANT AliveLimit   \* silence the monitor tolerates, in ticks of the clock

VARIABLES connection_state,   \* the status on show
          silence             \* ticks since the link came up or L2 was last heard

vars == <<connection_state, silence>>

States == {"DISCONNECTED", "CONNECTED", "ALIVE_OK", "ALIVE_TIMEOUT"}

Init == /\ connection_state = "DISCONNECTED"
        /\ silence = 0

(* The link comes up: nothing has been heard on it yet, nothing is late. *)
LinkUp == /\ connection_state = "DISCONNECTED"
          /\ connection_state' = "CONNECTED"
          /\ silence' = 0

(* An L2 alive arrives on a link that is up: it clears an alarm, too. *)
Heard == /\ connection_state # "DISCONNECTED"
         /\ connection_state' = "ALIVE_OK"
         /\ silence' = 0

(* The alarm: only on a link that is up, and only after too long a silence. *)
Alarm == /\ connection_state \in {"CONNECTED", "ALIVE_OK"}
         /\ silence > AliveLimit
         /\ connection_state' = "ALIVE_TIMEOUT"
         /\ UNCHANGED silence

LinkDown == /\ connection_state # "DISCONNECTED"
            /\ connection_state' = "DISCONNECTED"
            /\ UNCHANGED silence

(* Time passes; beyond the limit, how much longer does not matter. *)
Tick == /\ silence <= AliveLimit
        /\ silence' = silence + 1
        /\ UNCHANGED connection_state

Next == LinkUp \/ Heard \/ Alarm \/ LinkDown \/ Tick

Spec == Init /\ [][Next]_vars
=============================================================================
