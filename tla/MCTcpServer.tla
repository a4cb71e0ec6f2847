----------------------------- MODULE MCTcpServer -----------------------------
(* A server with two loop threads. *)
EXTENDS TcpServer

=============================================================================
