----------------------------- MODULE IoUringLoop -----------------------------
(***************************************************************************)
(* The event loop of one thread (src/src/IoUringLoop.cc): the functor      *)
(* queue that other threads append to, the eventfd that wakes the loop     *)
(* through an io_uring read, and quit().                                   *)
(*                                                                         *)
(* Functors are numbered 1, 2, ... in the order in which queueInLoop       *)
(* appends them under mtx_; what a functor computes is abstracted, except  *)
(* that it may itself call queueInLoop or quit.  Completions of the other  *)
(* contexts are abstracted to callbacks that may do the same.  The loop's  *)
(* own thread queues nothing before it calls loop(): such a functor has no *)
(* wakeup and waits for the first completion or timeout.                   *)
(***************************************************************************)
EXTENDS Integers, Sequences

CONSTANTS
    Threads,         \* threads other than the loop's own
    MaxFunctors,     \* bound on the calls of queueInLoop
    QuitBeforeLoop   \* may another thread call quit() before the first while test?

ASSUME MaxFunctorsAssumption == MaxFunctors \in Nat
ASSUME QuitBeforeLoopAssumption == QuitBeforeLoop \in BOOLEAN

VARIABLES
    pc,        \* where the loop's thread is
    quit,      \* quit_
    calling,   \* calling_pending_functors_
    pending,   \* pendingFunctors_
    tasks,     \* the local vector of doingPendingFunctors, what is left of it
    efd,       \* counter of the eventfd wakeup_fd_
    rd,        \* the io_uring read of the eventfd
    got,       \* is that read's completion in the batch being processed?
    caller,    \* what each other thread still has to do
    queued,    \* number of functors appended so far
    ran,       \* number of functors executed so far
    quitReq    \* has quit() been called?

vars == <<pc, quit, calling, pending, tasks, efd, rd, got, caller, queued, ran, quitReq>>

LoopPcs == {"created", "entering", "while", "peek", "waiting", "handle", "run", "exited"}

(* the flags as the constructor's initializer list sets them *)
InitFlags == quit = FALSE /\ calling = FALSE

Init ==
    /\ pc = "created"
    /\ InitFlags
    /\ pending = <<>>
    /\ tasks = <<>>
    /\ efd = 0
    /\ rd = "none"
    /\ got = FALSE
    /\ caller = [t \in Threads |-> "idle"]
    /\ queued = 0
    /\ ran = 0
    /\ quitReq = FALSE

-----------------------------------------------------------------------------
(* queueInLoop, the part under the lock *)
PushBack ==
    /\ queued < MaxFunctors
    /\ queued' = queued + 1
    /\ pending' = Append(pending, queued + 1)

WakeNeededForOthersOnly(inLoopThread) == ~inLoopThread

(* the condition after the lock is released *)
WakeNeeded(inLoopThread) == ~inLoopThread \/ calling

(* queueInLoop called by the loop's own thread *)
QueueInOwnLoop ==
    /\ PushBack
    /\ efd' = IF WakeNeeded(TRUE) THEN efd + 1 ELSE efd

(* queueInLoop called by another thread: append, then wakeUp() *)
QueueInLoop(t) ==
    /\ caller[t] = "idle"
    /\ PushBack
    /\ caller' = [caller EXCEPT ![t] = IF WakeNeeded(FALSE) THEN "waking" ELSE "idle"]
    /\ UNCHANGED <<pc, quit, calling, tasks, efd, rd, got, ran, quitReq>>

NoWakeOnQuit(inLoopThread) == FALSE

(* the condition in quit() *)
WakeOnQuit(inLoopThread) == ~inLoopThread

(* quit() called by another thread: the store, then wakeUp() *)
Quit(t) ==
    /\ caller[t] = "idle"
    /\ ~quitReq
    /\ QuitBeforeLoop \/ pc \notin {"created", "entering"}
    /\ quit' = TRUE
    /\ quitReq' = TRUE
    /\ caller' = [caller EXCEPT ![t] = IF WakeOnQuit(FALSE) THEN "waking" ELSE "idle"]
    /\ UNCHANGED <<pc, calling, pending, tasks, efd, rd, got, queued, ran>>

WakeUp(t) ==
    /\ caller[t] = "waking"
    /\ efd' = efd + 1
    /\ caller' = [caller EXCEPT ![t] = "idle"]
    /\ UNCHANGED <<pc, quit, calling, pending, tasks, rd, got, queued, ran, quitReq>>

(* the kernel completes an armed read of a non-zero eventfd, which resets it *)
KernelReadsEventFd ==
    /\ rd = "armed"
    /\ efd > 0
    /\ efd' = 0
    /\ rd' = "cqe"
    /\ UNCHANGED <<pc, quit, calling, pending, tasks, got, caller, queued, ran, quitReq>>

-----------------------------------------------------------------------------
(* loop(): if(quit_) return *)
EnterLoop ==
    /\ pc = "created"
    /\ pc' = IF quit THEN "exited" ELSE "entering"
    /\ UNCHANGED <<quit, calling, pending, tasks, efd, rd, got, caller, queued, ran, quitReq>>

NoPreparedRead == IF pc = "entering" THEN "sq" ELSE "none"

(* on_completion(): a read of the eventfd is placed in the submission queue *)
PreparedRead == "sq"

(* loop(): on_completion() prepares the first read; quit_ = false *)
StartLooping ==
    /\ pc = "entering"
    /\ rd' = PreparedRead
    /\ quit' = FALSE
    /\ pc' = "while"
    /\ UNCHANGED <<calling, pending, tasks, efd, got, caller, queued, ran, quitReq>>

(* io_uring_submit hands every prepared entry to the kernel *)
Submitted == IF rd = "sq" THEN "armed" ELSE rd

(* while(!quit_), io_uring_submit *)
WhileTest ==
    /\ pc = "while"
    /\ \/ quit /\ pc' = "exited" /\ rd' = rd
       \/ ~quit /\ pc' = "peek" /\ rd' = Submitted
    /\ UNCHANGED <<quit, calling, pending, tasks, efd, got, caller, queued, ran, quitReq>>

(* The batch is the oldest completions of the ring, at most cqes_.size() of *)
(* them: a full batch of others may leave out the eventfd's.                *)
Peek ==
    /\ pc = "peek"
    /\ \E others \in BOOLEAN :
         /\ pc' = IF rd = "cqe" \/ others THEN "handle" ELSE "waiting"
         /\ got' \in {g \in BOOLEAN : (g => rd = "cqe") /\ (rd = "cqe" /\ ~others => g)}
    /\ UNCHANGED <<quit, calling, pending, tasks, efd, rd, caller, queued, ran, quitReq>>

(* io_uring_wait_cqe_timeout returns because the eventfd's read completed *)
WaitReturnsWakeup ==
    /\ pc = "waiting"
    /\ rd = "cqe"
    /\ got' = TRUE
    /\ pc' = "handle"
    /\ UNCHANGED <<quit, calling, pending, tasks, efd, rd, caller, queued, ran, quitReq>>

(* it returns for another completion, for the timeout or for a signal *)
WaitReturnsOther ==
    /\ pc = "waiting"
    /\ rd # "cqe"
    /\ pc' = "handle"
    /\ UNCHANGED <<quit, calling, pending, tasks, efd, rd, got, caller, queued, ran, quitReq>>

-----------------------------------------------------------------------------
(* on_completion() of the wakeup context prepares the next read *)
OnWakeup ==
    /\ pc = "handle"
    /\ got
    /\ rd' = PreparedRead
    /\ got' = FALSE
    /\ UNCHANGED <<pc, quit, calling, pending, tasks, efd, caller, queued, ran, quitReq>>

(* a timer or completion callback calls queueInLoop on its own loop *)
CallbackQueues ==
    /\ pc = "handle"
    /\ QueueInOwnLoop
    /\ UNCHANGED <<pc, quit, calling, tasks, rd, got, caller, ran, quitReq>>

(* a callback submits at once: submitCancel, or getIoUringSqe(true) on a full ring *)
CallbackSubmits ==
    /\ pc = "handle"
    /\ rd = "sq"
    /\ rd' = Submitted
    /\ UNCHANGED <<pc, quit, calling, pending, tasks, efd, got, caller, queued, ran, quitReq>>

(* quit() called by a callback or functor of the loop's thread: no wakeUp() *)
QuitInOwnLoop ==
    /\ pc \in {"handle", "run"}
    /\ ~quitReq
    /\ quit' = TRUE
    /\ quitReq' = TRUE
    /\ UNCHANGED <<pc, calling, pending, tasks, efd, rd, got, caller, queued, ran>>

CopyFunctors ==
    /\ tasks' = pending
    /\ UNCHANGED pending

(* tasks.swap(pendingFunctors_) under the lock *)
SwapFunctors ==
    /\ tasks' = pending
    /\ pending' = <<>>

(* doingPendingFunctors up to the swap *)
BeginFunctors ==
    /\ pc = "handle"
    /\ ~got
    /\ calling' = TRUE
    /\ SwapFunctors
    /\ pc' = "run"
    /\ UNCHANGED <<quit, efd, rd, got, caller, queued, ran, quitReq>>

(* task(): the functors run in the order of the vector *)
RunFunctor ==
    /\ pc = "run"
    /\ tasks # <<>>
    /\ ran' = Head(tasks)
    /\ tasks' = Tail(tasks)
    /\ UNCHANGED <<pc, quit, calling, pending, efd, rd, got, caller, queued, quitReq>>

(* a running functor calls queueInLoop on its own loop *)
FunctorQueues ==
    /\ pc = "run"
    /\ QueueInOwnLoop
    /\ UNCHANGED <<pc, quit, calling, tasks, rd, got, caller, ran, quitReq>>

EndFunctors ==
    /\ pc = "run"
    /\ tasks = <<>>
    /\ calling' = FALSE
    /\ pc' = "while"
    /\ UNCHANGED <<quit, pending, tasks, efd, rd, got, caller, queued, ran, quitReq>>

-----------------------------------------------------------------------------
(* The steps the loop's thread takes by itself when it is scheduled. *)
LoopStep ==
    \/ EnterLoop \/ StartLooping \/ WhileTest \/ Peek \/ WaitReturnsWakeup
    \/ OnWakeup \/ BeginFunctors \/ RunFunctor \/ EndFunctors

Next ==
    \/ \E t \in Threads : QueueInLoop(t) \/ Quit(t) \/ WakeUp(t)
    \/ KernelReadsEventFd
    \/ LoopStep
    \/ WaitReturnsOther
    \/ CallbackQueues \/ CallbackSubmits \/ QuitInOwnLoop \/ FunctorQueues

Spec == Init /\ [][Next]_vars

(* Every thread keeps running and the kernel completes a read that is ready. *)
(* Nothing is assumed of the ten second timeout or of other completions.     *)
Fairness ==
    /\ WF_vars(LoopStep)
    /\ WF_vars(KernelReadsEventFd)
    /\ \A t \in Threads : WF_vars(WakeUp(t))

FairSpec == Spec /\ Fairness

-----------------------------------------------------------------------------
TypeOK ==
    /\ pc \in LoopPcs
    /\ quit \in BOOLEAN
    /\ calling \in BOOLEAN
    /\ pending \in Seq(Nat)
    /\ tasks \in Seq(Nat)
    /\ efd \in Nat
    /\ rd \in {"none", "sq", "armed", "cqe"}
    /\ got \in BOOLEAN
    /\ caller \in [Threads -> {"idle", "waking"}]
    /\ queued \in Nat
    /\ ran \in Nat
    /\ quitReq \in BOOLEAN

(* A wakeup is on its way: the completion is in the ring, the counter is    *)
(* non-zero, or a thread is about to add to it.                             *)
Signalled ==
    \/ rd = "cqe"
    \/ efd > 0
    \/ \E t \in Threads : caller[t] = "waking"

(* No wakeup is lost: while the loop blocks in io_uring_wait_cqe_timeout,   *)
(* the eventfd's read is in the kernel, and if the functor queue is not     *)
(* empty a wakeup is on its way, so the functors need not wait for the ten  *)
(* second timeout (queueInLoop, wakeUp, on_completion).                     *)
NoLostWakeup ==
    pc = "waiting" => /\ rd \in {"armed", "cqe"}
                      /\ pending # <<>> => Signalled

(* The same for quit(): once the loop has seen the end of its start-up, a   *)
(* quit_ that the loop sleeps through has a wakeup on its way.              *)
NoLostQuit == pc = "waiting" /\ quit => Signalled

(* Functors run exactly once and in the order of queueInLoop, across the    *)
(* swaps of doingPendingFunctors: what has not run yet is the tail of what  *)
(* was queued, in order.                                                    *)
RunInOrder ==
    tasks \o pending = [i \in 1 .. queued - ran |-> ran + i]

(* The loop is an executor: functors queued by any thread run one by one in *)
(* order, and each of them runs unless the loop ends, with no help from the *)
(* timeout (queueInLoop, doingPendingFunctors).                             *)
Exec == INSTANCE Executor WITH stopped <- (pc = "exited")

ImplementsExecutor == Exec!FairSpec

(* quit() ends the loop: "stop the event loop" (IoUringLoop.h:107).         *)
QuitEndsLoop == quitReq ~> (pc = "exited")
=============================================================================
