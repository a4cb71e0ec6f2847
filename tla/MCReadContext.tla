---------------------------- MODULE MCReadContext ----------------------------
(* ReadContext for TLC: connections and chunks are interchangeable. *)
EXTENDS ReadContext, TLC

CONSTANTS c1, c2, k1, k2

Symmetry == Permutations(Conns) \cup Permutations(Chunks)
=============================================================================
