------------------------------ MODULE Executor ------------------------------
(***************************************************************************)
(* What IoUringLoop::queueInLoop promises (IoUringLoop.h:113-116): the     *)
(* functors handed over by any thread are executed one at a time, each     *)
(* once, in the order in which they were handed over, and none waits       *)
(* for ever unless the loop is stopped.                                    *)
(***************************************************************************)
EXTENDS Integers

VARIABLES queued,   \* number of functors handed over
          ran,      \* number of functors executed, always the oldest ones
          stopped   \* has the loop ended?

vars == <<queued, ran, stopped>>

Init == queued = 0 /\ ran = 0 /\ stopped = FALSE

Queue == queued' = queued + 1 /\ UNCHANGED <<ran, stopped>>

Run == /\ ~stopped
       /\ ran < queued
       /\ ran' = ran + 1
       /\ UNCHANGED <<queued, stopped>>

Stop == ~stopped /\ stopped' = TRUE /\ UNCHANGED <<queued, ran>>

Next == Queue \/ Run \/ Stop

Spec == Init /\ [][Next]_vars

FairSpec == Spec /\ WF_vars(Run)
=============================================================================
