----------------------------- MODULE LoopThread -----------------------------
(***************************************************************************)
(* A thread that creates and runs an event loop                            *)
(* (src/src/IoUringLoopThread.cc): the handshake of startLoop, the start   *)
(* and the end of loop(), and the destructor that quits and joins.  The    *)
(* turn of the loop itself is the one of IoUringLoop.tla, reduced to what  *)
(* its clients see: functors that queueInLoop appends run in order, a turn *)
(* ends whatever the wait waits for (a wakeup or the timeout), and quit_   *)
(* is tested once a turn.                                                  *)
(***************************************************************************)
EXTENDS Integers, Sequences

VARIABLE loop   \* for each loop: its thread, its flags and its functors

NewLoop ==
    [pc |-> "none",         \* where the thread is
     published |-> FALSE,   \* loop_ # nullptr
     exiting |-> FALSE,     \* exiting_
     quit |-> FALSE,        \* quit_
     pending |-> <<>>,      \* pendingFunctors_
     tasks |-> <<>>]        \* those that doingPendingFunctors still has to execute

LoopPcs ==
    {"none", "constructed", "created", "entering", "while", "handle", "run", "left", "ended"}

QueuedFirst(loops, l, f) == [loops EXCEPT ![l].pending = <<f>> \o @]

(* queueInLoop: the loops after f is queued for l *)
QueueInLoop(loops, l, f) == [loops EXCEPT ![l].pending = Append(@, f)]

(* Thread::start, from startLoop *)
ThreadStarts(l) ==
    /\ loop[l].pc = "none"
    /\ loop' = [loop EXCEPT ![l].pc = "constructed"]

(* ThreadFunc after the loop's construction: loop_ is set, unless the object *)
(* is being destroyed already                                                *)
Publish(l) ==
    /\ loop[l].pc = "constructed"
    /\ loop' = [loop EXCEPT ![l].pc = IF loop[l].exiting THEN "ended" ELSE "created",
                            ![l].published = ~loop[l].exiting]

ReadyAtOnce(l) == loop[l].pc # "none"

(* what startLoop waits for *)
LoopReady(l) == loop[l].published

(* loop(): if(quit_) return *)
EnterLoop(l) ==
    /\ loop[l].pc = "created"
    /\ loop' = [loop EXCEPT ![l].pc = IF loop[l].quit THEN "left" ELSE "entering"]

(* loop(): quit_ = false *)
StartLooping(l) ==
    /\ loop[l].pc = "entering"
    /\ loop' = [loop EXCEPT ![l].pc = "while", ![l].quit = FALSE]

NeverTested(l) == loop[l].pc = "while" /\ loop' = [loop EXCEPT ![l].pc = "handle"]

(* while(!quit_), and the wait *)
WhileTest(l) ==
    /\ loop[l].pc = "while"
    /\ loop' = [loop EXCEPT ![l].pc = IF loop[l].quit THEN "left" ELSE "handle"]

RunsOld(l) ==
    /\ loop[l].pc = "handle"
    /\ loop' = [loop EXCEPT ![l].pc = "run", ![l].pending = <<>>]

(* doingPendingFunctors takes the queue *)
BeginFunctors(l) ==
    /\ loop[l].pc = "handle"
    /\ loop' = [loop EXCEPT ![l].pc = "run", ![l].tasks = loop[l].pending, ![l].pending = <<>>]

(* the loops when the first of l's tasks has been executed *)
TaskDone(l) == [loop EXCEPT ![l].tasks = Tail(@)]

EndFunctors(l) ==
    /\ loop[l].pc = "run"
    /\ loop[l].tasks = <<>>
    /\ loop' = [loop EXCEPT ![l].pc = "while"]

(* ThreadFunc after loop(): loop_ = nullptr, and the loop is destroyed with  *)
(* the functors that it has not executed                                     *)
ThreadEnds(l) ==
    /\ loop[l].pc = "left"
    /\ loop' = [loop EXCEPT ![l].pc = "ended", ![l].published = FALSE, ![l].pending = <<>>]

(* quit() *)
QuitLoop(l) == loop' = [loop EXCEPT ![l].quit = TRUE]

(* ~IoUringLoopThread up to the join *)
ExitThread(l) ==
    loop' = [loop EXCEPT ![l].exiting = TRUE, ![l].quit = @ \/ loop[l].published]

(* the steps that a loop's thread takes by itself *)
LoopTurn(l) ==
    \/ EnterLoop(l) \/ StartLooping(l) \/ WhileTest(l) \/ BeginFunctors(l) \/ EndFunctors(l)
=============================================================================
