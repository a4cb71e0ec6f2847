-------------------------- MODULE IoUringLoop_proof --------------------------
(***************************************************************************)
(* Proofs about the event loop, for any set of threads and any bound on    *)
(* the number of functors, and about its submission side (SubmitQueue),    *)
(* for any set of contexts and any ring with a low-water mark of at least  *)
(* one: two state machines of one class, each with its own variables.      *)
(*                                                                         *)
(* NoLostWakeup and NoLostQuit speak of the moment the loop blocks; the    *)
(* invariants below say what has to hold at all other points for that: the *)
(* state of the eventfd's read, that calling_pending_functors_ tells if    *)
(* functors are running, and where a non-empty queue or a set quit_ may    *)
(* be without a wakeup on its way.  WaitingReachesKernel is a liveness     *)
(* property and is left to TLC.                                            *)
(***************************************************************************)
EXTENDS IoUringLoop, SubmitQueue, TLAPS, SequenceTheorems

(* the eventfd's read is prepared when loop() starts, and is with the kernel *)
(* or completed whenever the loop looks for completions                      *)
ReadArmed ==
    /\ pc \in {"created", "entering"} => rd = "none"
    /\ pc \notin {"created", "entering", "exited"} => rd # "none"
    /\ pc \in {"peek", "waiting"} => rd \in {"armed", "cqe"}
    /\ got => pc = "handle" /\ rd = "cqe"

CallingIsRunning == calling <=> pc = "run"

(* functors wait without a wakeup only while the loop is on its way to them *)
FunctorsSignalled == pending # <<>> => Signalled \/ pc = "handle"

(* so does quit_ *)
QuitSignalled == quit /\ pc \in {"peek", "waiting"} => Signalled

-----------------------------------------------------------------------------
LEMMA PushBackType ==
    ASSUME TypeOK, PushBack
    PROVE  queued' \in Nat /\ pending' \in Seq(Nat) /\ pending' # <<>>
<1>1. queued' \in Nat /\ pending' = Append(pending, queued + 1) /\ queued + 1 \in Nat
  BY DEF TypeOK, PushBack
<1>2. pending \in Seq(Nat)
  BY DEF TypeOK
<1> QED
  BY <1>1, <1>2

LEMMA QueueInOwnLoopType ==
    ASSUME TypeOK, QueueInOwnLoop
    PROVE  /\ queued' \in Nat /\ pending' \in Seq(Nat) /\ pending' # <<>>
           /\ efd' \in Nat
<1>1. efd' \in Nat
  BY DEF TypeOK, QueueInOwnLoop, WakeNeeded
<1> QED
  BY <1>1, PushBackType DEF QueueInOwnLoop

(* Every variable keeps its type: the flags the constructor sets, the two   *)
(* vectors of functors, the eventfd's counter and the state of its read.    *)
THEOREM LoopTypeOK == Spec => []TypeOK
<1>1. Init => TypeOK
  <2> SUFFICES ASSUME Init PROVE TypeOK
    OBVIOUS
  <2>1. <<>> \in Seq(Nat)
    OBVIOUS
  <2>2. caller \in [Threads -> {"idle", "waking"}]
    BY DEF Init
  <2> QED
    BY <2>1, <2>2 DEF Init, InitFlags, TypeOK, LoopPcs
<1>2. TypeOK /\ [Next]_vars => TypeOK'
  <2> SUFFICES ASSUME TypeOK, [Next]_vars PROVE TypeOK'
    OBVIOUS
  <2> USE DEF TypeOK
  <2>1. ASSUME NEW t \in Threads, QueueInLoop(t) PROVE TypeOK'
    BY <2>1, PushBackType DEF QueueInLoop
  <2>2. ASSUME NEW t \in Threads, Quit(t) PROVE TypeOK'
    BY <2>2 DEF Quit
  <2>3. ASSUME NEW t \in Threads, WakeUp(t) PROVE TypeOK'
    BY <2>3 DEF WakeUp
  <2>4. CASE KernelReadsEventFd
    BY <2>4 DEF KernelReadsEventFd
  <2>5. CASE EnterLoop
    BY <2>5 DEF EnterLoop, LoopPcs
  <2>6. CASE StartLooping
    BY <2>6 DEF StartLooping, PreparedRead, LoopPcs
  <2>7. CASE WhileTest
    BY <2>7 DEF WhileTest, Submitted, LoopPcs
  <2>8. CASE Peek
    BY <2>8 DEF Peek, LoopPcs
  <2>9. CASE WaitReturnsWakeup \/ WaitReturnsOther
    BY <2>9 DEF WaitReturnsWakeup, WaitReturnsOther, LoopPcs
  <2>10. CASE OnWakeup
    BY <2>10 DEF OnWakeup, PreparedRead
  <2>11. CASE BeginFunctors
    BY <2>11 DEF BeginFunctors, SwapFunctors, LoopPcs
  <2>12. CASE RunFunctor
    <3>1. Head(tasks) \in Nat /\ Tail(tasks) \in Seq(Nat)
      BY <2>12, HeadTailProperties DEF RunFunctor
    <3> QED
      BY <2>12, <3>1 DEF RunFunctor
  <2>13. CASE EndFunctors
    BY <2>13 DEF EndFunctors, LoopPcs
  <2>14. CASE CallbackQueues \/ FunctorQueues
    BY <2>14, QueueInOwnLoopType DEF CallbackQueues, FunctorQueues
  <2>15. CASE CallbackSubmits
    BY <2>15 DEF CallbackSubmits, Submitted
  <2>16. CASE QuitInOwnLoop
    BY <2>16 DEF QuitInOwnLoop
  <2>17. CASE UNCHANGED vars
    BY <2>17 DEF vars
  <2> QED
    BY <2>1, <2>2, <2>3, <2>4, <2>5, <2>6, <2>7, <2>8, <2>9, <2>10, <2>11, <2>12, <2>13,
       <2>14, <2>15, <2>16, <2>17 DEF Next, LoopStep
<1> QED
  BY <1>1, <1>2, PTL DEF Spec
-----------------------------------------------------------------------------
(* loop() keeps the eventfd's read going and calling_pending_functors_ up to *)
(* date, in any order of the threads' steps.                                 *)
THEOREM ReadStaysArmed == Spec => [](ReadArmed /\ CallingIsRunning)
<1>1. Init => ReadArmed /\ CallingIsRunning
  BY DEF Init, InitFlags, ReadArmed, CallingIsRunning
<1>2. TypeOK /\ ReadArmed /\ CallingIsRunning /\ [Next]_vars => (ReadArmed /\ CallingIsRunning)'
  <2> SUFFICES ASSUME TypeOK, ReadArmed, CallingIsRunning, [Next]_vars
               PROVE  ReadArmed' /\ CallingIsRunning'
    OBVIOUS
  <2> USE DEF ReadArmed, CallingIsRunning
  <2>1. ASSUME NEW t \in Threads, QueueInLoop(t) \/ Quit(t) \/ WakeUp(t)
        PROVE  ReadArmed' /\ CallingIsRunning'
    BY <2>1 DEF QueueInLoop, Quit, WakeUp, WakeNeeded, WakeOnQuit
  <2>2. CASE KernelReadsEventFd
    BY <2>2 DEF KernelReadsEventFd
  <2>3. CASE EnterLoop \/ StartLooping
    BY <2>3 DEF EnterLoop, StartLooping, PreparedRead
  <2>4. CASE WhileTest
    BY <2>4 DEF WhileTest, Submitted, TypeOK
  <2>5. CASE Peek
    BY <2>5 DEF Peek
  <2>6. CASE WaitReturnsWakeup \/ WaitReturnsOther
    BY <2>6 DEF WaitReturnsWakeup, WaitReturnsOther
  <2>7. CASE OnWakeup \/ CallbackSubmits
    BY <2>7 DEF OnWakeup, CallbackSubmits, PreparedRead, Submitted
  <2>8. CASE BeginFunctors \/ RunFunctor \/ EndFunctors
    BY <2>8 DEF BeginFunctors, RunFunctor, EndFunctors
  <2>9. CASE CallbackQueues \/ FunctorQueues \/ QuitInOwnLoop
    BY <2>9 DEF CallbackQueues, FunctorQueues, QuitInOwnLoop
  <2>10. CASE UNCHANGED vars
    BY <2>10 DEF vars
  <2> QED
    BY <2>1, <2>2, <2>3, <2>4, <2>5, <2>6, <2>7, <2>8, <2>9, <2>10 DEF Next, LoopStep
<1> QED
  BY <1>1, <1>2, LoopTypeOK, PTL DEF Spec

-----------------------------------------------------------------------------
(* A step that leaves the wakeup's three places alone, or puts one there. *)
LEMMA SignalStays ==
    ASSUME UNCHANGED <<rd, efd, caller>>
    PROVE  Signalled' <=> Signalled
BY DEF Signalled

LEMMA WakingSignals ==
    ASSUME TypeOK, NEW t \in Threads, caller' = [caller EXCEPT ![t] = "waking"]
    PROVE  Signalled'
<1>1. caller'[t] = "waking"
  BY DEF TypeOK
<1> QED
  BY <1>1 DEF Signalled

LEMMA OtherThreadSignals ==
    ASSUME TypeOK, NEW t \in Threads, QueueInLoop(t) \/ Quit(t) \/ WakeUp(t)
    PROVE  Signalled'
<1>1. CASE QueueInLoop(t)
  BY <1>1, WakingSignals DEF QueueInLoop, WakeNeeded
<1>2. CASE Quit(t)
  BY <1>2, WakingSignals DEF Quit, WakeOnQuit
<1>3. CASE WakeUp(t)
  BY <1>3 DEF WakeUp, Signalled, TypeOK
<1> QED
  BY <1>1, <1>2, <1>3

(* While the loop blocks in io_uring_wait_cqe_timeout a non-empty functor   *)
(* queue has a wakeup on its way, for any number of threads and any order   *)
(* of their calls of queueInLoop with the loop's steps.                     *)
THEOREM LoopNoLostWakeup == Spec => []NoLostWakeup
<1>1. Init => FunctorsSignalled
  BY DEF Init, FunctorsSignalled
<1>2. ASSUME TypeOK, ReadArmed, CallingIsRunning, FunctorsSignalled, [Next]_vars
      PROVE  FunctorsSignalled'
  <2> USE <1>2 DEF FunctorsSignalled
  <2>1. ASSUME NEW t \in Threads, QueueInLoop(t) \/ Quit(t) \/ WakeUp(t)
        PROVE  FunctorsSignalled'
    BY <2>1, OtherThreadSignals
  <2>2. CASE KernelReadsEventFd
    BY <2>2 DEF KernelReadsEventFd, Signalled
  <2>3. CASE EnterLoop \/ StartLooping
    BY <2>3 DEF EnterLoop, StartLooping, ReadArmed, Signalled
  <2>4. CASE WhileTest
    BY <2>4 DEF WhileTest, Submitted, Signalled
  <2>5. CASE Peek \/ WaitReturnsWakeup \/ WaitReturnsOther
    BY <2>5, SignalStays DEF Peek, WaitReturnsWakeup, WaitReturnsOther
  <2>6. CASE OnWakeup \/ CallbackQueues \/ CallbackSubmits
    BY <2>6 DEF OnWakeup, CallbackQueues, CallbackSubmits
  <2>7. CASE BeginFunctors
    BY <2>7 DEF BeginFunctors, SwapFunctors
  <2>8. CASE RunFunctor \/ EndFunctors \/ QuitInOwnLoop
    BY <2>8, SignalStays DEF RunFunctor, EndFunctors, QuitInOwnLoop
  <2>9. CASE FunctorQueues
    <3>1. calling
      BY <2>9 DEF FunctorQueues, CallingIsRunning
    <3>2. efd' > 0
      BY <2>9, <3>1 DEF FunctorQueues, QueueInOwnLoop, WakeNeeded, TypeOK
    <3> QED
      BY <3>2 DEF Signalled
  <2>10. CASE UNCHANGED vars
    BY <2>10, SignalStays DEF vars
  <2> QED
    BY <2>1, <2>2, <2>3, <2>4, <2>5, <2>6, <2>7, <2>8, <2>9, <2>10 DEF Next, LoopStep
<1>3. ReadArmed /\ FunctorsSignalled => NoLostWakeup
  BY DEF ReadArmed, FunctorsSignalled, NoLostWakeup
<1> QED
  BY <1>1, <1>2, <1>3, LoopTypeOK, ReadStaysArmed, PTL DEF Spec

(* While the loop blocks, a quit() has a wakeup on its way: quit_ cannot be *)
(* slept through, whoever calls it and whenever.                            *)
THEOREM LoopNoLostQuit == Spec => []NoLostQuit
<1>1. Init => QuitSignalled
  BY DEF Init, QuitSignalled
<1>2. ASSUME TypeOK, ReadArmed, QuitSignalled, [Next]_vars
      PROVE  QuitSignalled'
  <2> USE <1>2 DEF QuitSignalled
  <2>1. ASSUME NEW t \in Threads, QueueInLoop(t) \/ Quit(t) \/ WakeUp(t)
        PROVE  QuitSignalled'
    BY <2>1, OtherThreadSignals
  <2>2. CASE KernelReadsEventFd
    BY <2>2 DEF KernelReadsEventFd, Signalled
  <2>3. CASE EnterLoop \/ StartLooping \/ WaitReturnsWakeup \/ WaitReturnsOther \/ EndFunctors
    BY <2>3 DEF EnterLoop, StartLooping, WaitReturnsWakeup, WaitReturnsOther, EndFunctors
  <2>4. CASE WhileTest
    BY <2>4 DEF WhileTest
  <2>5. CASE Peek
    BY <2>5, SignalStays DEF Peek
  <2>6. CASE OnWakeup \/ CallbackQueues \/ CallbackSubmits \/ QuitInOwnLoop
    BY <2>6 DEF OnWakeup, CallbackQueues, CallbackSubmits, QuitInOwnLoop
  <2>7. CASE BeginFunctors \/ RunFunctor \/ FunctorQueues
    BY <2>7 DEF BeginFunctors, RunFunctor, FunctorQueues
  <2>8. CASE UNCHANGED vars
    BY <2>8, SignalStays DEF vars
  <2> QED
    BY <2>1, <2>2, <2>3, <2>4, <2>5, <2>6, <2>7, <2>8 DEF Next, LoopStep
<1>3. QuitSignalled => NoLostQuit
  BY DEF QuitSignalled, NoLostQuit
<1> QED
  BY <1>1, <1>2, <1>3, LoopTypeOK, ReadStaysArmed, PTL DEF Spec
-----------------------------------------------------------------------------
(* RunInOrder element by element; the local vector is empty between the runs *)
InOrder ==
    /\ Len(tasks) + Len(pending) = queued - ran
    /\ \A i \in 1 .. Len(tasks) : tasks[i] = ran + i
    /\ \A i \in 1 .. Len(pending) : pending[i] = ran + Len(tasks) + i
    /\ pc # "run" => tasks = <<>>

LEMMA PushBackInOrder ==
    ASSUME TypeOK, InOrder, PushBack, UNCHANGED <<pc, tasks, ran>>
    PROVE  InOrder'
<1>1. pending \in Seq(Nat) /\ tasks \in Seq(Nat) /\ queued \in Nat /\ ran \in Nat
  BY DEF TypeOK
<1>2. pending' = Append(pending, queued + 1) /\ queued' = queued + 1
  BY DEF PushBack
<1>3. Len(pending') = Len(pending) + 1
  BY <1>1, <1>2
<1>4. Len(tasks) \in Nat /\ Len(pending) \in Nat
  BY <1>1
<1>5. ASSUME NEW i \in 1 .. Len(pending') PROVE pending'[i] = ran + Len(tasks) + i
  <2>1. CASE i = Len(pending) + 1
    <3>1. pending'[i] = queued + 1
      BY <2>1, <1>1, <1>2, AppendProperties
    <3>2. queued = ran + Len(tasks) + Len(pending)
      BY <1>1, <1>4 DEF InOrder
    <3> QED
      BY <2>1, <3>1, <3>2, <1>1, <1>4
  <2>2. CASE i # Len(pending) + 1
    <3>1. i \in 1 .. Len(pending)
      BY <2>2, <1>3, <1>4
    <3> QED
      BY <3>1, <1>1, <1>2 DEF InOrder
  <2> QED
    BY <2>1, <2>2
<1>6. Len(tasks) + Len(pending') = queued' - ran
  <2>1. Len(tasks) + Len(pending) = queued - ran
    BY DEF InOrder
  <2>2. queued' = queued + 1
    BY <1>2
  <2>3. queued \in Nat /\ ran \in Nat
    BY <1>1
  <2> QED
    BY <2>1, <2>2, <2>3, <1>3, <1>4, SMT
<1> QED
  BY <1>5, <1>6 DEF InOrder

LEMMA RunFunctorInOrder ==
    ASSUME TypeOK, InOrder, RunFunctor
    PROVE  InOrder' /\ ran' = ran + 1 /\ ran < queued
<1>1. pending \in Seq(Nat) /\ tasks \in Seq(Nat) /\ queued \in Nat /\ ran \in Nat
  BY DEF TypeOK
<1>2. tasks # <<>> /\ ran' = Head(tasks) /\ tasks' = Tail(tasks)
      /\ UNCHANGED <<pc, pending, queued>>
  BY DEF RunFunctor
<1>3. Len(tasks) \in Nat /\ Len(tasks) >= 1 /\ Len(pending) \in Nat
  BY <1>1, <1>2, EmptySeq, LenProperties
<1>4. ran' = ran + 1
  BY <1>1, <1>2, <1>3, HeadTailProperties DEF InOrder
<1>5. Len(tasks') = Len(tasks) - 1
  BY <1>1, <1>2, HeadTailProperties
<1>6. ASSUME NEW i \in 1 .. Len(tasks') PROVE tasks'[i] = ran' + i
  <2>1. tasks'[i] = tasks[i + 1] /\ i + 1 \in 1 .. Len(tasks)
    BY <1>1, <1>2, <1>3, <1>5, HeadTailProperties
  <2> QED
    BY <2>1, <1>1, <1>3, <1>4 DEF InOrder
<1>7. \A i \in 1 .. Len(pending') : pending'[i] = ran' + Len(tasks') + i
  BY <1>1, <1>2, <1>3, <1>4, <1>5 DEF InOrder
<1>8. pc' = "run" /\ Len(tasks') + Len(pending') = queued' - ran' /\ ran < queued
  BY <1>1, <1>2, <1>3, <1>4, <1>5 DEF InOrder, RunFunctor
<1> QED
  BY <1>4, <1>6, <1>7, <1>8 DEF InOrder

LEMMA NextInOrder ==
    ASSUME TypeOK, InOrder, [Next]_vars
    PROVE  InOrder'
<1>1. ASSUME NEW t \in Threads, QueueInLoop(t) PROVE InOrder'
  BY <1>1, PushBackInOrder DEF QueueInLoop
<1>2. CASE CallbackQueues \/ FunctorQueues
  BY <1>2, PushBackInOrder DEF CallbackQueues, FunctorQueues, QueueInOwnLoop
<1>3. CASE RunFunctor
  BY <1>3, RunFunctorInOrder
<1>4. CASE BeginFunctors
  BY <1>4 DEF BeginFunctors, SwapFunctors, InOrder, TypeOK
<1>5. CASE EndFunctors
  BY <1>5 DEF EndFunctors, InOrder
<1>6. ASSUME NEW t \in Threads, Quit(t) \/ WakeUp(t) PROVE InOrder'
  BY <1>6 DEF Quit, WakeUp, WakeOnQuit, InOrder
<1>7. CASE KernelReadsEventFd \/ EnterLoop \/ StartLooping \/ WhileTest
  BY <1>7 DEF KernelReadsEventFd, EnterLoop, StartLooping, WhileTest, InOrder
<1>8. CASE Peek \/ WaitReturnsWakeup \/ WaitReturnsOther
  BY <1>8 DEF Peek, WaitReturnsWakeup, WaitReturnsOther, InOrder
<1>9. CASE OnWakeup \/ CallbackSubmits \/ QuitInOwnLoop
  BY <1>9 DEF OnWakeup, CallbackSubmits, QuitInOwnLoop, InOrder
<1>10. CASE UNCHANGED vars
  BY <1>10 DEF vars, InOrder
<1> QED
  BY <1>1, <1>2, <1>3, <1>4, <1>5, <1>6, <1>7, <1>8, <1>9, <1>10 DEF Next, LoopStep

LEMMA LoopInOrder == Spec => []InOrder
<1>1. Init => InOrder
  BY DEF Init, InOrder
<1> QED
  BY <1>1, NextInOrder, LoopTypeOK, PTL DEF Spec

(* Functors run exactly once and in the order of queueInLoop, however the   *)
(* threads' calls interleave with the swaps of doingPendingFunctors.        *)
THEOREM LoopRunInOrder == Spec => []RunInOrder
<1>1. ASSUME TypeOK, InOrder PROVE RunInOrder
  <2> DEFINE all == tasks \o pending
  <2>1. tasks \in Seq(Nat) /\ pending \in Seq(Nat) /\ queued \in Nat /\ ran \in Nat
    BY <1>1 DEF TypeOK
  <2>2. Len(tasks) \in Nat /\ Len(pending) \in Nat
    BY <2>1
  <2>3. all \in Seq(Nat) /\ Len(all) = queued - ran
    BY <2>1, <2>2, <1>1, ConcatProperties DEF InOrder
  <2>4. ASSUME NEW i \in 1 .. queued - ran PROVE all[i] = ran + i
    <3> i \in Int
      BY <2>1
    <3>1. CASE i <= Len(tasks)
      BY <3>1, <2>1, <2>2, <1>1, ConcatProperties DEF InOrder
    <3>2. CASE i > Len(tasks)
      <4>1. i - Len(tasks) \in 1 .. Len(pending) /\ i \in 1 .. Len(tasks) + Len(pending)
        BY <3>2, <2>1, <2>2, <1>1 DEF InOrder
      <4>2. all[i] = pending[i - Len(tasks)]
        BY <4>1, <3>2, <2>1, <2>2, ConcatProperties
      <4> QED
        BY <4>1, <4>2, <2>1, <2>2, <1>1 DEF InOrder
    <3>3. i <= Len(tasks) \/ i > Len(tasks)
      BY <2>2
    <3> QED
      BY <3>1, <3>2, <3>3
  <2> HIDE DEF all
  <2>5. all = [i \in 1 .. Len(all) |-> all[i]]
    BY <2>3, LenProperties
  <2> QED
    BY <2>3, <2>4, <2>5 DEF RunInOrder, all
<1> QED
  BY <1>1, LoopTypeOK, LoopInOrder, PTL

(* The loop implements the executor of IoUringLoop.h:113-116: every step of *)
(* it hands one functor over, runs the oldest one, stops, or changes        *)
(* nothing the executor knows of; nothing runs after it stopped.            *)
THEOREM LoopRefinesExecutor == Spec => Exec!Spec
<1>1. Init => Exec!Init
  BY DEF Init, Exec!Init
<1>2. ASSUME TypeOK, InOrder, [Next]_vars PROVE [Exec!Next]_(Exec!vars)
  <2> USE DEF Exec!Next, Exec!vars
  <2>1. ASSUME NEW t \in Threads, QueueInLoop(t) PROVE Exec!Queue
    BY <2>1 DEF QueueInLoop, PushBack, Exec!Queue
  <2>2. CASE CallbackQueues \/ FunctorQueues
    BY <2>2 DEF CallbackQueues, FunctorQueues, QueueInOwnLoop, PushBack, Exec!Queue
  <2>3. CASE RunFunctor
    BY <2>3, <1>2, RunFunctorInOrder DEF RunFunctor, Exec!Run
  <2>4. CASE EnterLoop \/ WhileTest
    BY <2>4 DEF EnterLoop, WhileTest, Exec!Stop
  <2>5. ASSUME NEW t \in Threads, Quit(t) \/ WakeUp(t) PROVE UNCHANGED Exec!vars
    BY <2>5 DEF Quit, WakeUp, WakeOnQuit
  <2>6. CASE KernelReadsEventFd \/ StartLooping \/ Peek \/ WaitReturnsWakeup \/ WaitReturnsOther
    BY <2>6 DEF KernelReadsEventFd, StartLooping, Peek, WaitReturnsWakeup, WaitReturnsOther
  <2>7. CASE OnWakeup \/ CallbackSubmits \/ QuitInOwnLoop \/ BeginFunctors \/ EndFunctors
    BY <2>7 DEF OnWakeup, CallbackSubmits, QuitInOwnLoop, BeginFunctors, EndFunctors
  <2>8. CASE UNCHANGED vars
    BY <2>8 DEF vars
  <2> QED
    BY <1>2, <2>1, <2>2, <2>3, <2>4, <2>5, <2>6, <2>7, <2>8 DEF Next, LoopStep
<1> QED
  BY <1>1, <1>2, LoopTypeOK, LoopInOrder, PTL DEF Spec, Exec!Spec

-----------------------------------------------------------------------------
(* the submission side *)
USE RingAssumption, TurnAssumption, WakeupAssumption

(* Taken, the effect of io_uring_submit on the contexts, keeps the requests  *)
(* that wait and makes none wait.                                            *)
LEMMA TakenFacts ==
    ASSUME SqTypeOK
    PROVE  /\ Taken \in [AllContexts -> {"idle", "waiting", "prepared", "kernel"}]
           /\ \A c \in AllContexts : Taken[c] = "waiting" <=> ctx[c] = "waiting"
  BY DEF SqTypeOK, Taken, AllContexts

(* Both ways to an entry leave one: a direct request is made at or above the *)
(* low-water mark and a drained one above it.                                *)
LEMMA EntryLeft ==
    ASSUME SqTypeOK, ~BelowMark(RemainedSqe) \/ MayDrain
    PROVE  used < RingSize
  BY DEF SqTypeOK, BelowMark, MayDrain, RemainedSqe

(* What preparing an entry does when there is one left. *)
LEMMA PrepareFacts ==
    ASSUME SqTypeOK, NEW c \in Contexts, used < RingSize, Prepare(c)
    PROVE  /\ used' \in 0 .. RingSize
           /\ noSqe' = noSqe
           /\ ctx' \in [AllContexts -> {"idle", "waiting", "prepared", "kernel"}]
           /\ ctx'[c] = "prepared"
           /\ \A d \in AllContexts \ {c} : ctx'[d] = ctx[d]
  <1>1. used' \in 0 .. RingSize
    BY DEF SqTypeOK, Prepare
  <1>2. noSqe' = noSqe
    <2>1. used # RingSize
      BY DEF SqTypeOK
    <2>2. QED
      BY <2>1 DEF SqTypeOK, Prepare
  <1>3. QED
    BY <1>1, <1>2 DEF SqTypeOK, Prepare, AllContexts

-----------------------------------------------------------------------------
(* The state keeps its type: in particular never more entries are prepared   *)
(* than the ring has (getIoUringSqe, submitCancel, doingSubmitWaitingTask).  *)
THEOREM SqTypeCorrect == SqSpec => []SqTypeOK
  <1>1. SqInit => SqTypeOK
    <2> SUFFICES ASSUME SqInit PROVE SqTypeOK
      OBVIOUS
    <2>1. ctx \in [AllContexts -> {"idle", "waiting", "prepared", "kernel"}]
      BY DEF SqInit
    <2>2. waiting \in Seq(Contexts) /\ used \in 0 .. RingSize
      BY DEF SqInit
    <2>3. QED
      BY <2>1, <2>2 DEF SqInit, SqTypeOK
  <1>2. SqTypeOK /\ [SqNext]_sqVars => SqTypeOK'
    <2> SUFFICES ASSUME SqTypeOK, [SqNext]_sqVars PROVE SqTypeOK'
      OBVIOUS
    <2>1. ASSUME NEW c \in Contexts, SubmitRequest(c), UNCHANGED phase, count' \in Nat
          PROVE  SqTypeOK'
      <3>1. CASE BelowMark(RemainedSqe)
        <4>1. /\ waiting' = Append(waiting, c)
              /\ ctx' = [ctx EXCEPT ![c] = "waiting"]
              /\ UNCHANGED <<used, noSqe>>
          BY <2>1, <3>1 DEF SubmitRequest, Queued
        <4>2. waiting' \in Seq(Contexts)
          BY <4>1 DEF SqTypeOK
        <4>3. QED
          BY <2>1, <4>1, <4>2 DEF SqTypeOK, AllContexts
      <3>2. CASE ~BelowMark(RemainedSqe)
        <4>1. Prepare(c) /\ UNCHANGED waiting
          BY <2>1, <3>2 DEF SubmitRequest
        <4>2. QED
          BY <2>1, <3>2, <4>1, EntryLeft, PrepareFacts DEF SqTypeOK
      <3>3. QED
        BY <3>1, <3>2
    <2>2. ASSUME NEW c \in Contexts, HandlerSubmits(c) PROVE SqTypeOK'
      BY <2>1, <2>2 DEF HandlerSubmits, SqTypeOK
    <2>3. ASSUME NEW c \in Contexts, FunctorSubmits(c) PROVE SqTypeOK'
      BY <2>1, <2>3 DEF FunctorSubmits, SqTypeOK
    <2>4. ASSUME NEW c \in Contexts, SubmitCancel(c) PROVE SqTypeOK'
      BY <2>4, TakenFacts DEF SubmitCancel, SqTypeOK
    <2>5. ASSUME NEW c \in Contexts, Complete(c) PROVE SqTypeOK'
      BY <2>5 DEF Complete, SqTypeOK, AllContexts
    <2>6. CASE Rearm
      BY <2>6, TakenFacts DEF Rearm, UsedForced, SqTypeOK, AllContexts
    <2>7. CASE BeginDrain
      BY <2>7 DEF BeginDrain, SqTypeOK
    <2>8. CASE DrainOne
      <3>1. /\ Head(waiting) \in Contexts
            /\ Tail(waiting) \in Seq(Contexts)
        BY <2>8 DEF DrainOne, MayDrain, SqTypeOK
      <3>2. used < RingSize
        BY <2>8, EntryLeft DEF DrainOne
      <3>3. Prepare(Head(waiting))
        BY <2>8 DEF DrainOne
      <3>4. /\ used' \in 0 .. RingSize
            /\ noSqe' = noSqe
            /\ ctx' \in [AllContexts -> {"idle", "waiting", "prepared", "kernel"}]
        BY <3>1, <3>2, <3>3, PrepareFacts
      <3>5. QED
        BY <2>8, <3>1, <3>4 DEF DrainOne, WithoutFront, SqTypeOK
    <2>9. CASE EndDrain
      BY <2>9 DEF EndDrain, SqTypeOK
    <2>10. CASE NextTurn
      BY <2>10, TakenFacts DEF NextTurn, SqTypeOK
    <2>11. CASE UNCHANGED sqVars
      BY <2>11 DEF sqVars, SqTypeOK
    <2>12. QED
      BY <2>2, <2>3, <2>4, <2>5, <2>6, <2>7, <2>8, <2>9, <2>10, <2>11 DEF SqNext, TurnStep
  <1>3. QED
    BY <1>1, <1>2, PTL DEF SqSpec

(* The assertion "the sqe should not be nullptr" of the three _submit        *)
(* functions never fails, for any ring and any low-water mark of at least    *)
(* one: the two tests in front of them leave an entry.                       *)
THEOREM SqeAlwaysAvailable == SqSpec => []SqeAvailable
  <1>1. SqInit => SqeAvailable
    BY DEF SqInit, SqeAvailable
  <1>2. SqTypeOK /\ SqeAvailable /\ [SqNext]_sqVars => SqeAvailable'
    <2> SUFFICES ASSUME SqTypeOK, SqeAvailable, [SqNext]_sqVars PROVE noSqe' = noSqe
      BY DEF SqeAvailable
    <2>1. ASSUME NEW c \in Contexts, SubmitRequest(c) PROVE noSqe' = noSqe
      <3>1. CASE BelowMark(RemainedSqe)
        BY <2>1, <3>1 DEF SubmitRequest
      <3>2. CASE ~BelowMark(RemainedSqe)
        <4>1. Prepare(c)
          BY <2>1, <3>2 DEF SubmitRequest
        <4>2. QED
          BY <3>2, <4>1, EntryLeft, PrepareFacts
      <3>3. QED
        BY <3>1, <3>2
    <2>2. CASE DrainOne
      <3>1. Head(waiting) \in Contexts
        BY <2>2 DEF DrainOne, MayDrain, SqTypeOK
      <3>2. Prepare(Head(waiting)) /\ MayDrain
        BY <2>2 DEF DrainOne
      <3>3. QED
        BY <3>1, <3>2, EntryLeft, PrepareFacts
    <2>3. QED
      BY <2>1, <2>2 DEF SqNext, TurnStep, HandlerSubmits, FunctorSubmits, SubmitCancel, Complete,
                        Rearm, BeginDrain, EndDrain, NextTurn, sqVars
  <1>3. QED
    BY <1>1, <1>2, SqTypeCorrect, PTL DEF SqSpec

-----------------------------------------------------------------------------
(* The detour through waiting_submit_queue_ neither loses a request nor      *)
(* submits one twice: a context is in the queue exactly while its request    *)
(* waits, and once.                                                          *)
THEOREM AlwaysQueuedOnce == SqSpec => []QueuedOnce
  <1>1. SqInit => QueuedOnce
    BY DEF SqInit, QueuedOnce, AllContexts
  <1>2. SqTypeOK /\ QueuedOnce /\ [SqNext]_sqVars => QueuedOnce'
    <2> SUFFICES ASSUME SqTypeOK, QueuedOnce, [SqNext]_sqVars PROVE QueuedOnce'
      OBVIOUS
    <2>1. ASSUME UNCHANGED waiting,
                 \A c \in Contexts : ctx'[c] = "waiting" <=> ctx[c] = "waiting"
          PROVE  QueuedOnce'
      BY <2>1 DEF QueuedOnce
    <2>2. ASSUME NEW c \in Contexts, SubmitRequest(c) PROVE QueuedOnce'
      <3>1. ctx[c] = "idle"
        BY <2>2 DEF SubmitRequest
      <3>2. CASE BelowMark(RemainedSqe)
        <4>1. /\ waiting' = Append(waiting, c)
              /\ ctx' = [ctx EXCEPT ![c] = "waiting"]
          BY <2>2, <3>2 DEF SubmitRequest, Queued
        <4>2. \A i \in DOMAIN waiting : waiting[i] # c
          BY <3>1 DEF QueuedOnce
        <4>3. /\ Len(waiting) \in Nat
              /\ DOMAIN waiting = 1 .. Len(waiting)
              /\ DOMAIN waiting' = 1 .. Len(waiting) + 1
              /\ \A i \in 1 .. Len(waiting) : waiting'[i] = waiting[i]
              /\ waiting'[Len(waiting) + 1] = c
          BY <4>1 DEF SqTypeOK
        <4>4. ASSUME NEW i \in DOMAIN waiting', NEW j \in DOMAIN waiting', waiting'[i] = waiting'[j]
              PROVE  i = j
          BY <4>2, <4>3, <4>4 DEF QueuedOnce
        <4>5. ASSUME NEW d \in Contexts
              PROVE  ctx'[d] = "waiting" <=> \E i \in DOMAIN waiting' : waiting'[i] = d
          <5>1. CASE d = c
            BY <4>1, <4>3, <5>1 DEF SqTypeOK, AllContexts
          <5>2. CASE d # c
            <6>1. ctx'[d] = ctx[d]
              BY <4>1, <5>2 DEF SqTypeOK, AllContexts
            <6>2. (\E i \in DOMAIN waiting' : waiting'[i] = d)
                    <=> (\E i \in DOMAIN waiting : waiting[i] = d)
              BY <4>3, <5>2
            <6>3. QED
              BY <6>1, <6>2 DEF QueuedOnce
          <5>3. QED
            BY <5>1, <5>2
        <4>6. QED
          BY <4>4, <4>5 DEF QueuedOnce
      <3>3. CASE ~BelowMark(RemainedSqe)
        <4>1. Prepare(c) /\ UNCHANGED waiting
          BY <2>2, <3>3 DEF SubmitRequest
        <4>2. \A d \in Contexts : ctx'[d] = "waiting" <=> ctx[d] = "waiting"
          BY <3>1, <4>1 DEF Prepare, SqTypeOK, AllContexts
        <4>3. QED
          BY <2>1, <4>1, <4>2
      <3>4. QED
        BY <3>2, <3>3
    <2>3. CASE DrainOne
      <3> DEFINE c == Head(waiting)
      <3>1. /\ waiting # <<>>
            /\ waiting' = Tail(waiting)
            /\ ctx' = [ctx EXCEPT ![c] = "prepared"]
        BY <2>3 DEF DrainOne, MayDrain, WithoutFront, Prepare
      <3>2. /\ Len(waiting) \in Nat \ {0}
            /\ DOMAIN waiting = 1 .. Len(waiting)
            /\ c = waiting[1]
            /\ c \in Contexts
            /\ DOMAIN waiting' = 1 .. Len(waiting) - 1
            /\ \A i \in 1 .. Len(waiting) - 1 : waiting'[i] = waiting[i + 1]
        BY <3>1 DEF SqTypeOK
      <3>3. \A i \in DOMAIN waiting' : i + 1 \in DOMAIN waiting /\ i + 1 # 1
        BY <3>2
      <3>4. ASSUME NEW i \in DOMAIN waiting', NEW j \in DOMAIN waiting', waiting'[i] = waiting'[j]
            PROVE  i = j
        <4>1. i + 1 = j + 1
          BY <3>2, <3>3, <3>4 DEF QueuedOnce
        <4>2. QED
          BY <4>1, <3>2
      <3>5. \A i \in DOMAIN waiting' : waiting'[i] # c
        BY <3>2, <3>3 DEF QueuedOnce
      <3>6. ASSUME NEW d \in Contexts
            PROVE  ctx'[d] = "waiting" <=> \E i \in DOMAIN waiting' : waiting'[i] = d
        <4>1. CASE d = c
          BY <3>1, <3>2, <3>5, <4>1 DEF SqTypeOK, AllContexts
        <4>2. CASE d # c
          <5>1. ctx'[d] = ctx[d]
            BY <3>1, <4>2 DEF SqTypeOK, AllContexts
          <5>2. ASSUME NEW i \in DOMAIN waiting, waiting[i] = d
                PROVE  \E k \in DOMAIN waiting' : waiting'[k] = d
            <6>1. i # 1
              BY <3>2, <4>2, <5>2
            <6>2. i - 1 \in DOMAIN waiting' /\ waiting'[i - 1] = d
              BY <3>2, <5>2, <6>1
            <6>3. QED
              BY <6>2
          <5>3. ASSUME NEW k \in DOMAIN waiting', waiting'[k] = d
                PROVE  \E i \in DOMAIN waiting : waiting[i] = d
            BY <3>2, <3>3, <5>3
          <5>4. QED
            BY <5>1, <5>2, <5>3 DEF QueuedOnce
        <4>3. QED
          BY <4>1, <4>2
      <3>7. QED
        BY <3>4, <3>6 DEF QueuedOnce
    <2>4. ASSUME NEW c \in Contexts, SubmitCancel(c) \/ Complete(c) PROVE QueuedOnce'
      BY <2>1, <2>4, TakenFacts DEF SubmitCancel, Complete, SqTypeOK, AllContexts
    <2>5. CASE Rearm
      BY <2>1, <2>5, TakenFacts DEF Rearm, SqTypeOK, AllContexts
    <2>6. CASE NextTurn
      BY <2>1, <2>6, TakenFacts DEF NextTurn, AllContexts
    <2>7. CASE BeginDrain \/ EndDrain \/ UNCHANGED sqVars
      BY <2>1, <2>7 DEF BeginDrain, EndDrain, sqVars
    <2>8. QED
      BY <2>2, <2>3, <2>4, <2>5, <2>6, <2>7 DEF SqNext, TurnStep, HandlerSubmits, FunctorSubmits
  <1>3. QED
    BY <1>1, <1>2, SqTypeCorrect, PTL DEF SqSpec

(* The waiting requests keep their order: no step does anything to the queue *)
(* but take its oldest element or append a new one.                          *)
THEOREM AlwaysFirstCome == SqSpec => FirstComeFirstServed
  <1> DEFINE Fifo == waiting' # waiting => \/ waiting # <<>> /\ waiting' = Tail(waiting)
                                           \/ \E c \in Contexts : waiting' = Append(waiting, c)
  <1>1. [SqNext]_sqVars => [Fifo]_sqVars
    <2> SUFFICES ASSUME SqNext PROVE Fifo
      BY DEF sqVars
    <2>1. ASSUME NEW c \in Contexts, SubmitRequest(c) PROVE Fifo
      BY <2>1 DEF SubmitRequest, Queued
    <2>2. CASE DrainOne
      BY <2>2 DEF DrainOne, MayDrain, WithoutFront
    <2>3. QED
      BY <2>1, <2>2 DEF SqNext, TurnStep, HandlerSubmits, FunctorSubmits, SubmitCancel, Complete,
                        Rearm, BeginDrain, EndDrain, NextTurn
  <1>2. QED
    BY <1>1, PTL DEF SqSpec, FirstComeFirstServed
=============================================================================
