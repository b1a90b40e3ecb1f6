--------------------------- MODULE SocketService ---------------------------
(***************************************************************************)
(* What one socket promises FConnection, without streams, frames, queues   *)
(* or timers: the messages of the server arrive whole, in the order they   *)
(* were sent and without a gap; the end of the connection is told at most  *)
(* once, and not to a caller who closed it; after the end nothing arrives. *)
(* PersistentConnection relies on no more: its messages wait in a queue in *)
(* the order of their arrival and the closing of the socket is the last.   *)
(***************************************************************************)
EXTENDS Integers, Sequences

CONSTANT MaxMessages  \* messages of the server, a bound

VARIABLES
    inSent,     \* messages the server sent
    delivered,  \* messages FConnection got, in order
    end         \* "none", "closed" by the caller, or "reported" to it

vars == <<inSent, delivered, end>>

TypeOK ==
    /\ inSent \in 0..MaxMessages
    /\ delivered \in Seq(1..MaxMessages)
    /\ end \in {"none", "closed", "reported"}

Init == inSent = 0 /\ delivered = <<>> /\ end = "none"

ServerSends ==
    /\ inSent < MaxMessages
    /\ inSent' = inSent + 1
    /\ UNCHANGED <<delivered, end>>

Deliver ==
    /\ end = "none"
    /\ Len(delivered) < inSent
    /\ delivered' = Append(delivered, Len(delivered) + 1)
    /\ UNCHANGED <<inSent, end>>

Finish(how) ==
    /\ end = "none"
    /\ end' = how
    /\ UNCHANGED <<inSent, delivered>>

Next == ServerSends \/ Deliver \/ \E how \in {"closed", "reported"} : Finish(how)

Spec == Init /\ [][Next]_vars
=============================================================================
