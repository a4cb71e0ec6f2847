---------------------------- MODULE MCIoUringLoop ----------------------------
(* The event loop with two other threads. *)
EXTENDS IoUringLoop

CONSTANTS t1, t2

=============================================================================
