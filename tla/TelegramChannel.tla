--------------------------- MODULE TelegramChannel ---------------------------
(***************************************************************************)
(* What either end of the connection takes for granted about telegrams:    *)
(* what is sent is delivered once, whole and in order, as long as the      *)
(* connection lasts; nothing is carried over to the next connection.       *)
(* Framing, which has only a stream of characters, is shown to implement   *)
(* it.                                                                     *)
(***************************************************************************)
EXTENDS Integers, Sequences

VARIABLES pending,     \* sent, not yet delivered
          delivered,   \* delivered on this connection
          broken       \* something got on the line that is not a telegram

vars == <<pending, delivered, broken>>

Init == pending = <<>> /\ delivered = <<>> /\ broken = FALSE

Send == /\ Len(pending') = Len(pending) + 1
        /\ SubSeq(pending', 1, Len(pending)) = pending
        /\ UNCHANGED <<delivered, broken>>

Deliver == /\ pending # <<>>
           /\ delivered' = Append(delivered, Head(pending))
           /\ pending' = Tail(pending)
           /\ UNCHANGED broken

(* From here on nothing is promised. *)
Break == /\ ~broken /\ broken'
         /\ pending' = <<>> /\ delivered' = <<>>

Reconnect == pending' = <<>> /\ delivered' = <<>> /\ ~broken'

Next == Send \/ Deliver \/ Break \/ Reconnect

Spec == Init /\ [][Next]_vars
=============================================================================
