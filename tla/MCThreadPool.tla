---------------------------- MODULE MCThreadPool ----------------------------
(* A thread pool with two calling threads and three workers. *)
EXTENDS ThreadPool

CONSTANTS c1, c2, w1, w2, w3

=============================================================================
