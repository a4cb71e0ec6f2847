--------------------------- MODULE MCWriteContext ---------------------------
(* WriteContext for TLC: a queue of at most six bytes, two to a writev. *)
EXTENDS WriteContext

=============================================================================
