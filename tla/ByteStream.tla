----------------------------- MODULE ByteStream -----------------------------
(***************************************************************************)
(* What TcpConnection::send promises: the bytes handed over reach the      *)
(* socket in order, each once, and none waits for ever unless the          *)
(* connection is closed.                                                   *)
(***************************************************************************)
EXTENDS Integers, Sequences

VARIABLES sent,    \* number of bytes handed over
          wire,    \* the positions of the bytes written to the socket
          closed   \* is the connection closed?

vars == <<sent, wire, closed>>

Init == sent = 0 /\ wire = <<>> /\ closed = FALSE

(* any number of bytes is handed over at once *)
Send == sent' \in Nat /\ sent' > sent /\ UNCHANGED <<wire, closed>>

(* the oldest bytes that are not on the wire yet *)
Deliver ==
    /\ \E n \in 1 .. sent - Len(wire) :
         wire' = wire \o [i \in 1 .. n |-> Len(wire) + i]
    /\ UNCHANGED <<sent, closed>>

Close == ~closed /\ closed' = TRUE /\ UNCHANGED <<sent, wire>>

Next == Send \/ Deliver \/ Close

Spec == Init /\ [][Next]_vars

FairSpec == Spec /\ WF_vars(~closed /\ Deliver)
=============================================================================
