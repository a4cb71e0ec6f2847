---------------------------- MODULE MCSubmitQueue ----------------------------
(* The submission queue of a loop with five contexts. *)
EXTENDS SubmitQueue

CONSTANTS acceptor, read1, write1, read2, write2, eventfd

=============================================================================
