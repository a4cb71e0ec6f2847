----------------------------- MODULE ThreadPool -----------------------------
(***************************************************************************)
(* The pool that coroutines move to with co_await pool.switchThread()      *)
(* (src/src/ThreadPool.cc): the queue under mtx_, the condition variable,  *)
(* the workers, and the destructor.                                        *)
(*                                                                         *)
(* Coroutines are numbered in the order in which they are enqueued.  A     *)
(* worker resumes one coroutine and its thread ends.  isFull reads the     *)
(* queue without the lock: while another thread is inside its critical     *)
(* section it sees the size before or after that thread's operation, and   *)
(* any size at all if TornSize.                                            *)
(***************************************************************************)
EXTENDS Integers, Sequences, FiniteSets

CONSTANTS
    Callers,    \* threads whose coroutines call switchThread
    Workers,    \* threads_
    MaxSize,    \* max_size_
    MaxTasks,   \* bound on the coroutines that are enqueued
    TornSize    \* does a size read during an update mix old and new words?

ASSUME PoolThreads ==
    /\ IsFiniteSet(Callers) /\ IsFiniteSet(Workers)
    /\ Callers \cap Workers = {}
    /\ "free" \notin Callers \cup Workers
ASSUME PoolBounds == MaxSize \in Nat \ {0} /\ MaxTasks \in Nat

VARIABLES
    mtx,      \* the thread that holds mtx_, or "free"
    tasks,    \* tasks_
    started,  \* started_
    caller,   \* where each caller is in await_ready and await_suspend
    worker,   \* where each worker is
    handel,   \* the coroutine a worker has taken, or 0
    created,  \* number of coroutines enqueued
    resumed,  \* the coroutines resumed, in that order
    dtor      \* where the thread in ~ThreadPool is

vars == <<mtx, tasks, started, caller, worker, handel, created, resumed, dtor>>

Init ==
    /\ mtx = "free"
    /\ tasks = <<>>
    /\ started = TRUE
    /\ caller = [c \in Callers |-> "running"]
    /\ worker = [w \in Workers |-> "locking"]
    /\ handel = [w \in Workers |-> 0]
    /\ created = 0
    /\ resumed = <<>>
    /\ dtor = "alive"

CallerTo(c, pc) == caller' = [caller EXCEPT ![c] = pc]
WorkerTo(w, pc) == worker' = [worker EXCEPT ![w] = pc]

-----------------------------------------------------------------------------
(* the sizes that an unlocked read can return *)
SizesRead ==
    IF mtx = "free" THEN {Len(tasks)}
    ELSE IF TornSize THEN {0, MaxSize}
    ELSE {Len(tasks)}
           \cup {Len(tasks) + 1 : c \in {d \in Callers : caller[d] = "pushing"}}
           \cup {Len(tasks) - 1 : w \in {v \in Workers : worker[v] = "taking"}}

FullBeyond(size) == size > MaxSize

(* isFull *)
Full(size) == size >= MaxSize

(* await_ready: when the pool is full the coroutine goes on where it is and *)
(* switchThread returns false                                               *)
AwaitReady(c) ==
    /\ dtor = "alive"
    /\ caller[c] = "running"
    /\ created + Cardinality({d \in Callers : caller[d] \in {"locking", "pushing"}}) < MaxTasks
    /\ \E size \in SizesRead : ~Full(size) /\ CallerTo(c, "locking")
    /\ UNCHANGED <<mtx, tasks, started, worker, handel, created, resumed, dtor>>

(* enqueue: lock_guard *)
EnqueueLock(c) ==
    /\ caller[c] = "locking"
    /\ mtx = "free"
    /\ mtx' = c
    /\ CallerTo(c, "pushing")
    /\ UNCHANGED <<tasks, started, worker, handel, created, resumed, dtor>>

(* the coroutine handle h of await_suspend *)
Handle == created + 1

(* tasks_.emplace(h), and the end of the guard's scope *)
EnqueuePush(c) ==
    /\ caller[c] = "pushing"
    /\ created' = created + 1
    /\ tasks' = Append(tasks, Handle)
    /\ mtx' = "free"
    /\ CallerTo(c, "notifying")
    /\ UNCHANGED <<started, worker, handel, resumed, dtor>>

Waiting == {w \in Workers : worker[w] = "waiting"}

NotifiesNobody == worker' = worker

(* notify_one: one waiting thread, if there is one, goes for the lock *)
NotifyOne ==
    \/ Waiting = {} /\ UNCHANGED worker
    \/ \E w \in Waiting : WorkerTo(w, "locking")

EnqueueNotify(c) ==
    /\ caller[c] = "notifying"
    /\ NotifyOne
    /\ CallerTo(c, "running")
    /\ UNCHANGED <<mtx, tasks, started, handel, created, resumed, dtor>>

-----------------------------------------------------------------------------
(* unique_lock, and the lock that wait() takes again *)
WorkerLock(w) ==
    /\ worker[w] = "locking"
    /\ mtx = "free"
    /\ mtx' = w
    /\ WorkerTo(w, "testing")
    /\ UNCHANGED <<tasks, started, caller, handel, created, resumed, dtor>>

(* the predicate of wait() *)
MayGoOn == ~started \/ tasks # <<>>

(* The predicate is evaluated under the lock; started_ is not protected by  *)
(* it and may change before the thread is in the wait set.                  *)
WorkerTests(w) ==
    /\ worker[w] = "testing"
    /\ WorkerTo(w, IF MayGoOn THEN "awake" ELSE "blocking")
    /\ UNCHANGED <<mtx, tasks, started, caller, handel, created, resumed, dtor>>

(* wait() enters the wait set and releases the lock *)
WorkerWaits(w) ==
    /\ worker[w] = "blocking"
    /\ mtx' = "free"
    /\ WorkerTo(w, "waiting")
    /\ UNCHANGED <<tasks, started, caller, handel, created, resumed, dtor>>

SpuriousWakeup(w) ==
    /\ w \in Waiting
    /\ WorkerTo(w, "locking")
    /\ UNCHANGED <<mtx, tasks, started, caller, handel, created, resumed, dtor>>

(* if(!started_ && tasks_.empty()) return *)
WorkerReturns(w) ==
    /\ worker[w] = "awake"
    /\ ~started /\ tasks = <<>>
    /\ mtx' = "free"
    /\ WorkerTo(w, "ended")
    /\ UNCHANGED <<tasks, started, caller, handel, created, resumed, dtor>>

WorkerFront(w) ==
    /\ worker[w] = "awake"
    /\ started \/ tasks # <<>>
    /\ WorkerTo(w, "taking")
    /\ UNCHANGED <<mtx, tasks, started, caller, handel, created, resumed, dtor>>

KeepsFront == tasks' = tasks

(* tasks_.pop() *)
PopFront == tasks' = Tail(tasks)

NoUnlock == mtx' = mtx

(* lock.unlock() *)
Unlock == mtx' = "free"

(* front, pop, unlock *)
WorkerTakes(w) ==
    /\ worker[w] = "taking"
    /\ handel' = [handel EXCEPT ![w] = Head(tasks)]
    /\ PopFront
    /\ Unlock
    /\ WorkerTo(w, "taken")
    /\ UNCHANGED <<started, caller, created, resumed, dtor>>

(* handel.resume(), after which the thread's function returns *)
WorkerResumes(w) ==
    /\ worker[w] = "taken"
    /\ resumed' = Append(resumed, handel[w])
    /\ handel' = [handel EXCEPT ![w] = 0]
    /\ WorkerTo(w, "ended")
    /\ UNCHANGED <<mtx, tasks, started, caller, created, dtor>>

-----------------------------------------------------------------------------
(* stop(), which any thread may call at any time while coroutines still come *)
Stop ==
    /\ dtor = "alive"
    /\ started' = FALSE
    /\ UNCHANGED <<mtx, tasks, caller, worker, handel, created, resumed, dtor>>

(* ~ThreadPool, when no coroutine uses the pool any more: its call of stop() *)
Destruct ==
    /\ dtor = "alive"
    /\ \A c \in Callers : caller[c] = "running"
    /\ started' = FALSE
    /\ dtor' = "stopped"
    /\ UNCHANGED <<mtx, tasks, caller, worker, handel, created, resumed>>

NotifyAll ==
    /\ dtor = "stopped"
    /\ worker' = [w \in Workers |-> IF worker[w] = "waiting" THEN "locking" ELSE worker[w]]
    /\ dtor' = "joining"
    /\ UNCHANGED <<mtx, tasks, started, caller, handel, created, resumed>>

Join ==
    /\ dtor = "joining"
    /\ \A w \in Workers : worker[w] = "ended"
    /\ dtor' = "joined"
    /\ UNCHANGED <<mtx, tasks, started, caller, worker, handel, created, resumed>>

-----------------------------------------------------------------------------
CallerStep(c) == EnqueueLock(c) \/ EnqueuePush(c) \/ EnqueueNotify(c)

WorkerStep(w) ==
    \/ WorkerLock(w) \/ WorkerTests(w) \/ WorkerWaits(w) \/ WorkerReturns(w)
    \/ WorkerFront(w) \/ WorkerTakes(w) \/ WorkerResumes(w)

Next ==
    \/ \E c \in Callers : AwaitReady(c) \/ CallerStep(c)
    \/ \E w \in Workers : WorkerStep(w) \/ SpuriousWakeup(w)
    \/ Stop \/ Destruct \/ NotifyAll \/ Join

Spec == Init /\ [][Next]_vars

(* Threads keep running, and one that keeps finding the mutex free in the   *)
(* end gets it.                                                             *)
Fairness ==
    /\ \A c \in Callers : WF_vars(EnqueuePush(c) \/ EnqueueNotify(c)) /\ SF_vars(EnqueueLock(c))
    /\ \A w \in Workers : WF_vars(WorkerStep(w)) /\ SF_vars(WorkerLock(w))
    /\ WF_vars(NotifyAll \/ Join)

FairSpec == Spec /\ Fairness

-----------------------------------------------------------------------------
TypeOK ==
    /\ mtx \in Callers \cup Workers \cup {"free"}
    /\ tasks \in Seq(1 .. created)
    /\ started \in BOOLEAN
    /\ caller \in [Callers -> {"running", "locking", "pushing", "notifying"}]
    /\ worker \in [Workers -> {"locking", "testing", "blocking", "waiting", "awake", "taking",
                               "taken", "ended"}]
    /\ handel \in [Workers -> 0 .. created]
    /\ created \in 0 .. MaxTasks
    /\ resumed \in Seq(1 .. created)
    /\ dtor \in {"alive", "stopped", "joining", "joined"}

(* A coroutine is in one place: taken by one worker or still queued, and     *)
(* the coroutines leave the queue in the order of enqueue; none is resumed   *)
(* twice (enqueue, the worker's front and pop).                              *)
EachTakenOnce ==
    /\ \A i \in DOMAIN tasks : tasks[i] = created - Len(tasks) + i
    /\ \A v, w \in Workers : handel[v] # 0 /\ handel[v] = handel[w] => v = w
    /\ {resumed[i] : i \in DOMAIN resumed} \cup ({handel[w] : w \in Workers} \ {0})
         = 1 .. created - Len(tasks)
    /\ Len(resumed) + Cardinality({w \in Workers : handel[w] # 0}) = created - Len(tasks)

(* The unlocked test of isFull lets the queue grow past max_size_, but by    *)
(* no more than one coroutine for each other thread that calls switchThread. *)
QueueBounded == Len(tasks) <= MaxSize - 1 + Cardinality(Callers)

(* No notification is lost: if a worker sleeps, each queued coroutine has a  *)
(* worker on its way to it or a caller about to notify one (enqueue          *)
(* notifies after it has released the lock; wait tests the queue first).     *)
NoLostNotify ==
    Waiting # {} =>
      Len(tasks) <= Cardinality({c \in Callers : caller[c] = "notifying"})
                      + Cardinality({w \in Workers :
                                       worker[w] \in {"locking", "testing", "awake", "taking"}})

(* As many coroutines as there are workers are resumed for certain if they   *)
(* come before stop(), whenever stop() and the destructor are called after   *)
(* that (enqueue, the workers, stop).                                        *)
FirstTasksResumed ==
    \A i \in 1 .. Cardinality(Workers) :
        (started /\ created >= i) ~> (i \in {resumed[k] : k \in DOMAIN resumed})

(* "Wake a thread to execute the task" (ThreadPool.cc:9): each coroutine     *)
(* that is enqueued is resumed by a worker, while the pool is not stopped.   *)
EveryTaskResumed ==
    \A i \in 1 .. MaxTasks :
        (created >= i) ~> (i \in {resumed[k] : k \in DOMAIN resumed} \/ ~started)

(* "If the pool has stopped and the queue is empty, exit" (ThreadPool.cc:24):  *)
(* every worker leaves, so the destructor's join returns.                      *)
StopEndsWorkers == (dtor = "stopped") ~> (dtor = "joined")
=============================================================================
