---------------------------- MODULE MCTimerQueue ----------------------------
(* The timers of a loop, used by its own thread and another one. *)
EXTENDS TimerQueue

CONSTANT t1

=============================================================================
