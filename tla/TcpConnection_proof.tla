------------------------- MODULE TcpConnection_proof -------------------------
(***************************************************************************)
(* Proofs about the life of a connection, whatever its coroutine does      *)
(* about errors: with or without worker threads, reuse of descriptors, and *)
(* for any length of the functor queue.  What is said of destroying the    *)
(* coroutine and of releasing the connection is for a coroutine that stays *)
(* on the loop's thread.                                                   *)
(***************************************************************************)
EXTENDS TcpConnection, TLAPS

ReadErrorPath == {"co_rclose", "rclose", "rdrop", "rstatus"}
WriteErrorPath == {"co_wclose", "wclose", "wdrop", "wsending"}

(* The strengthening of RequestsHeld and OneRequestEach: the loop's thread   *)
(* is inside the coroutine exactly when the coroutine runs there; a read     *)
(* that has failed is not replaced before its error path has ended, as       *)
(* status_ is reset last; a coroutine that sends on the error path of a      *)
(* write has its handle stored, so that handleClose() destroys it; and a     *)
(* holder outlives its request only until the error path drops it.           *)
RequestInv ==
    /\ RequestsHeld
    /\ OneRequestEach
    /\ fd \in {"open", "closed", "reused"}
    /\ co = "loop" <=> pc \in CoPcs
    /\ pc \in ReadErrorPath => r_sqe = "none" /\ status # "STOPED"
    /\ pc \in ReadErrorPath => r_error
    /\ pc \in WriteErrorPath => w_error
    /\ pc = "co_wclose" => write_handle
    /\ pc = "wclose" => w_sqe = "none" \/ write_handle
    /\ pc \in {"wdrop", "wsending"} => w_sqe = "none" \/ AbandonedWrite
    /\ r_holder => r_sqe # "none" \/ pc \in {"co_rclose", "rclose", "rdrop"}
    /\ w_holder => w_sqe # "none" \/ pc \in {"co_wclose", "wclose", "wdrop"}

Kinds == {"recv", "send", "destroyed"}

(* Is a functor of this kind in the queue q? *)
InQueue(q, f) == \E i \in 1 .. Len(q) : q[i] = f

(* A functor that resumes the coroutine is in the queue q once at most. *)
ResumesOnce(q) == \A i, j \in 1 .. Len(q) : q[i] = q[j] /\ q[i] # "destroyed" => i = j

(* The strengthening of NoStuckCoroutine, while the coroutine exists: a      *)
(* handle is stored exactly while the coroutine waits in that context, up to *)
(* the error path that resumed it; a functor that resumes the coroutine is   *)
(* queued at most once and only while the coroutine waits for it.            *)
WaitInv ==
    /\ functors \in Seq(Kinds)
    /\ frame = "alive" =>
        /\ co = "read" => read_handle /\ (r_sqe # "none" \/ pc \in {"rtail", "rclose"})
        /\ co = "write" => write_handle /\ (w_sqe # "none" \/ (pc = "wtail" /\ out = 0))
        /\ read_handle => co = "read" \/ pc \in {"co_rclose", "rclose"}
        /\ write_handle => co = "write" \/ pc \in {"co_wclose", "wclose"}
        /\ co = "q_recv" <=> InQueue(functors, "recv")
        /\ co = "q_send" <=> InQueue(functors, "send")
        /\ ResumesOnce(functors)

-----------------------------------------------------------------------------
(* The strengthened invariant of the two requests, step by step. *)
LEMMA RequestsInvariant == Spec => []RequestInv
  <1>1. Init => RequestInv
    BY DEF Init, RequestInv, RequestsHeld, OneRequestEach, CoPcs, ReadErrorPath, WriteErrorPath
  <1>2. RequestInv /\ [Next]_vars => RequestInv'
    <2> SUFFICES ASSUME RequestInv, [Next]_vars PROVE RequestInv'
      OBVIOUS
    <2> USE DEF RequestInv, RequestsHeld, OneRequestEach, AbandonedWrite, CoPcs, ReadErrorPath, WriteErrorPath
    <2>1. CASE RecvReady
      BY <2>1 DEF RecvReady, RecvResult, Continues, rvars, wvars, covars, server
    <2>2. CASE RecvSuspends
      BY <2>2 DEF RecvSuspends, SuspendReader, SubmitRead, AfterCo, Continues, rvars, wvars, covars, server
    <2>3. CASE ReadAll
      BY <2>3 DEF ReadAll, rvars, wvars, covars, server
    <2>4. CASE SendSuspends
      BY <2>4 DEF SendSuspends, SendInLoop, AfterCo, Continues, rvars, wvars, covars, server
    <2>5. CASE SwitchThread
      BY <2>5 DEF SwitchThread, AfterCo, Continues, rvars, wvars, covars, server
    <2>6. CASE Finish
      BY <2>6 DEF Finish, AfterCo, rvars, wvars, covars, server
    <2>7. ASSUME NEW level \in Levels, SendReady(level) PROVE RequestInv'
      BY <2>7 DEF SendReady, SendInLoop, SendResult, Continues, rvars, wvars, covars, server
    <2>8. CASE WorkerRecv
      BY <2>8 DEF WorkerRecv, RecvResult, Continues, rvars, wvars, covars, server
    <2>9. CASE WorkerSend
      BY <2>9 DEF WorkerSend, SendResult, Continues, rvars, wvars, covars, server
    <2>10. CASE WorkerFinish
      BY <2>10 DEF WorkerFinish, rvars, wvars, covars, server
    <2>11. CASE RunRecv
      BY <2>11 DEF RunRecv, SuspendReader, SubmitRead, RecvResult, rvars, wvars, covars, server
    <2>12. CASE RunDestroyed
      BY <2>12 DEF RunDestroyed, HandleClose, CloseDestroys, CloseSocket, DestroyTask, rvars, wvars, covars, server
    <2>13. ASSUME NEW level \in Levels, RunSend(level) PROVE RequestInv'
      BY <2>13 DEF RunSend, SendInLoop, SendResult, rvars, wvars, covars, server
    <2>14. CASE Submit
      BY <2>14 DEF Submit, LookedUp, rvars, wvars, covars, server
    <2>15. CASE OnReadData
      BY <2>15 DEF OnReadData, ResumeReader, RecvResult, rvars, wvars, covars, server
    <2>16. CASE OnReadAgain
      BY <2>16 DEF OnReadAgain, SubmitRead, ResumeReader, RecvResult, rvars, wvars, covars, server
    <2>17. CASE OnReadStops
      BY <2>17 DEF OnReadStops, rvars, wvars, covars, server
    <2>18. CASE OnReadFatal
      BY <2>18 DEF OnReadFatal, RecvResult, rvars, wvars, covars, server
    <2>19. CASE OnWriteIdle
      BY <2>19 DEF OnWriteIdle, rvars, wvars, covars, server
    <2>20. CASE OnWriteFatal
      BY <2>20 DEF OnWriteFatal, SendResult, rvars, wvars, covars, server
    <2>21. ASSUME NEW level \in 1 .. 2, OnWriteMore(level) PROVE RequestInv'
      BY <2>21 DEF OnWriteMore, ResumeWriter, SendResult, rvars, wvars, covars, server
    <2>22. CASE ReadTail
      BY <2>22 DEF ReadTail, ResumeReader, RecvResult, rvars, wvars, covars, server
    <2>23. CASE ReadCloses
      BY <2>23 DEF ReadCloses, HandleClose, CloseDestroys, CloseSocket, DestroyTask, rvars, wvars, covars, server
    <2>24. CASE ReadDrops
      BY <2>24 DEF ReadDrops, rvars, wvars, covars, server
    <2>25. CASE ReadStatus
      BY <2>25 DEF ReadStatus, rvars, wvars, covars, server
    <2>26. CASE WriteTail
      BY <2>26 DEF WriteTail, ResumeWriter, SendResult, rvars, wvars, covars, server
    <2>27. CASE WriteCloses
      BY <2>27 DEF WriteCloses, HandleClose, CloseDestroys, CloseSocket, DestroyTask, rvars, wvars, covars, server
    <2>28. CASE WriteDrops
      BY <2>28 DEF WriteDrops, rvars, wvars, covars, server
    <2>29. CASE WriteSending
      BY <2>29 DEF WriteSending, rvars, wvars, covars, server
    <2>30. CASE ServerStops
      BY <2>30 DEF ServerStops, rvars, wvars, covars, server
    <2>31. CASE BaseRemoves
      BY <2>31 DEF BaseRemoves, rvars, wvars, covars, server
    <2>32. CASE FdReused
      BY <2>32 DEF FdReused, rvars, wvars, covars, server
    <2>33. CASE UNCHANGED vars
      BY <2>33 DEF vars, rvars, wvars, covars, server
    <2> QED
      BY <2>1, <2>2, <2>3, <2>4, <2>5, <2>6, <2>7, <2>8, <2>9, <2>10, <2>11, <2>12, <2>13,
         <2>14, <2>15, <2>16, <2>17, <2>18, <2>19, <2>20, <2>21, <2>22, <2>23, <2>24,
         <2>25, <2>26, <2>27, <2>28, <2>29, <2>30, <2>31, <2>32, <2>33
      DEF Next, CoStep, RunFunctor, OnRead, OnWrite, HandlerRest
  <1> QED
    BY <1>1, <1>2, PTL DEF Spec

(* Whoever closes the connection and whichever thread the coroutine is on, a *)
(* context with a request outstanding holds the connection, so that the      *)
(* assertions on holder_ in on_completion do not fail; up to a write that a  *)
(* destroyed coroutine had sent when it was resumed by the failure of        *)
(* another one, for which the assertion does fail (WriteContext.cc:106-110). *)
THEOREM AlwaysRequestsHeld == Spec => []RequestsHeld
  <1>1. RequestInv => RequestsHeld
    BY DEF RequestInv
  <1> QED
    BY <1>1, RequestsInvariant, PTL

(* status_ and is_sending_ say whether a request is outstanding, so that     *)
(* there is never a second one of its kind while the coroutine exists.       *)
THEOREM AlwaysOneRequestEach == Spec => []OneRequestEach
  <1>1. RequestInv => OneRequestEach
    BY DEF RequestInv
  <1> QED
    BY <1>1, RequestsInvariant, PTL

-----------------------------------------------------------------------------
(* The queue after a functor is appended to it. *)
LEMMA Appended ==
  ASSUME NEW q \in Seq(Kinds), NEW f \in Kinds
  PROVE  /\ Append(q, f) \in Seq(Kinds)
         /\ \A g \in Kinds : InQueue(Append(q, f), g) <=> InQueue(q, g) \/ g = f
         /\ ResumesOnce(q) /\ (f = "destroyed" \/ ~InQueue(q, f)) => ResumesOnce(Append(q, f))
  <1>1. Append(q, f) \in Seq(Kinds) /\ Len(Append(q, f)) = Len(q) + 1 /\ Len(q) \in Nat
    OBVIOUS
  <1>2. Append(q, f)[Len(q) + 1] = f /\ \A i \in 1 .. Len(q) : Append(q, f)[i] = q[i]
    OBVIOUS
  <1>3. \A i : i \in 1 .. Len(q) + 1 <=> i \in 1 .. Len(q) \/ i = Len(q) + 1
    BY <1>1
  <1>4. \A g \in Kinds : InQueue(Append(q, f), g) <=> InQueue(q, g) \/ g = f
    BY <1>1, <1>2, <1>3, Zenon DEF InQueue
  <1>5. ASSUME ResumesOnce(q), f = "destroyed" \/ ~InQueue(q, f) PROVE ResumesOnce(Append(q, f))
    BY <1>1, <1>2, <1>3, <1>5 DEF InQueue, ResumesOnce
  <1> QED
    BY <1>1, <1>4, <1>5

(* The queue after its first functor is taken. *)
LEMMA Taken ==
  ASSUME NEW q \in Seq(Kinds), q # <<>>
  PROVE  /\ Tail(q) \in Seq(Kinds)
         /\ \A g \in Kinds : g # Head(q) => (InQueue(Tail(q), g) <=> InQueue(q, g))
         /\ InQueue(q, Head(q))
         /\ ResumesOnce(q) => /\ ResumesOnce(Tail(q))
                              /\ Head(q) # "destroyed" => ~InQueue(Tail(q), Head(q))
  <1>1. /\ Tail(q) \in Seq(Kinds) /\ Len(q) \in Nat /\ Len(q) >= 1
        /\ Len(Tail(q)) = Len(q) - 1 /\ Head(q) = q[1]
    OBVIOUS
  <1>2. \A i \in 1 .. Len(Tail(q)) : i + 1 \in 1 .. Len(q) /\ Tail(q)[i] = q[i + 1]
    OBVIOUS
  <1>3. \A i \in 1 .. Len(q) : i # 1 => i - 1 \in 1 .. Len(Tail(q)) /\ Tail(q)[i - 1] = q[i]
    BY <1>1, <1>2
  <1>4. ASSUME NEW g \in Kinds, g # Head(q) PROVE InQueue(Tail(q), g) <=> InQueue(q, g)
    BY <1>1, <1>2, <1>3, <1>4 DEF InQueue
  <1>5. InQueue(q, Head(q))
    BY <1>1 DEF InQueue
  <1>6. ASSUME ResumesOnce(q) PROVE ResumesOnce(Tail(q))
    BY <1>1, <1>2, <1>6 DEF ResumesOnce
  <1>7. ASSUME ResumesOnce(q), Head(q) # "destroyed" PROVE ~InQueue(Tail(q), Head(q))
    <2> SUFFICES ASSUME NEW i \in 1 .. Len(Tail(q)), Tail(q)[i] = Head(q) PROVE FALSE
      BY DEF InQueue
    <2>1. i + 1 \in 1 .. Len(q) /\ 1 \in 1 .. Len(q) /\ q[i + 1] = q[1] /\ i + 1 # 1
      BY <1>1, <1>2
    <2> QED
      BY <1>1, <1>7, <2>1 DEF ResumesOnce
  <1> QED
    BY <1>1, <1>4, <1>5, <1>6, <1>7

(* The strengthened invariant of the waiting coroutine, step by step. *)
LEMMA WaitInvariant == Spec => []WaitInv
  <1>1. Init => WaitInv
    BY DEF Init, WaitInv, InQueue, ResumesOnce
  <1>2. RequestInv /\ WaitInv /\ [Next]_vars => WaitInv'
    <2> SUFFICES ASSUME RequestInv, WaitInv, [Next]_vars PROVE WaitInv'
      OBVIOUS
    <2> DEFINE SameWaits(p, q) == \A g \in {"recv", "send"} : InQueue(p, g) <=> InQueue(q, g)
    <2>q. functors \in Seq(Kinds)
      BY DEF WaitInv
    <2>a. LET q == Append(functors, "destroyed") IN
          q \in Seq(Kinds) /\ SameWaits(q, functors) /\ (ResumesOnce(functors) => ResumesOnce(q))
      BY <2>q, Appended DEF Kinds
    <2>b. ASSUME NEW f \in {"recv", "send"}
          PROVE  LET q == Append(functors, f) IN
                 /\ q \in Seq(Kinds)
                 /\ InQueue(q, f)
                 /\ \A g \in {"recv", "send"} : g # f => (InQueue(q, g) <=> InQueue(functors, g))
                 /\ ResumesOnce(functors) /\ ~InQueue(functors, f) => ResumesOnce(q)
      BY <2>q, Appended DEF Kinds
    <2>c. ASSUME functors # <<>>
          PROVE  /\ Tail(functors) \in Seq(Kinds)
                 /\ \A g \in {"recv", "send"} : g # Head(functors) =>
                      (InQueue(Tail(functors), g) <=> InQueue(functors, g))
                 /\ InQueue(functors, Head(functors))
                 /\ ResumesOnce(functors) =>
                      /\ ResumesOnce(Tail(functors))
                      /\ Head(functors) # "destroyed" => ~InQueue(Tail(functors), Head(functors))
      BY <2>q, <2>c, Taken DEF Kinds
    <2>d. ASSUME functors # <<>>
          PROVE  LET q == Append(Tail(functors), "destroyed") IN
                 /\ q \in Seq(Kinds) /\ SameWaits(q, Tail(functors))
                 /\ ResumesOnce(Tail(functors)) => ResumesOnce(q)
      <3>1. Tail(functors) \in Seq(Kinds)
        BY <2>c, <2>d
      <3>2. LET q == Append(Tail(functors), "destroyed") IN
            /\ q \in Seq(Kinds)
            /\ \A g \in Kinds : InQueue(q, g) <=> InQueue(Tail(functors), g) \/ g = "destroyed"
            /\ ResumesOnce(Tail(functors)) => ResumesOnce(q)
        <4>1. "destroyed" \in Kinds
          BY DEF Kinds
        <4> QED
          BY <3>1, <4>1, Appended
      <3> QED
        BY <3>2 DEF Kinds
    <2> USE DEF RequestInv, OneRequestEach, CoPcs, WaitInv
    <2>1. CASE RecvReady
      BY <2>1, <2>a DEF RecvReady, RecvResult, Continues, rvars, wvars, covars, server
    <2>2. CASE RecvSuspends
      BY <2>2 DEF RecvSuspends, SuspendReader, SubmitRead, AfterCo, Continues, rvars, wvars, covars, server
    <2>3. CASE ReadAll
      BY <2>3 DEF ReadAll, rvars, wvars, covars, server
    <2>4. CASE SendSuspends
      BY <2>4 DEF SendSuspends, SendInLoop, AfterCo, Continues, rvars, wvars, covars, server
    <2>5. CASE SwitchThread
      BY <2>5 DEF SwitchThread, AfterCo, Continues, rvars, wvars, covars, server
    <2>6. CASE Finish
      BY <2>6 DEF Finish, AfterCo, rvars, wvars, covars, server
    <2>7. ASSUME NEW level \in Levels, SendReady(level) PROVE WaitInv'
      BY <2>7, <2>a DEF SendReady, SendInLoop, SendResult, Continues, rvars, wvars, covars, server
    <2>8. CASE WorkerRecv
      BY <2>8, <2>a, <2>b DEF WorkerRecv, RecvResult, Continues, rvars, wvars, covars, server
    <2>9. CASE WorkerSend
      BY <2>9, <2>a, <2>b DEF WorkerSend, SendResult, Continues, rvars, wvars, covars, server
    <2>10. CASE WorkerFinish
      BY <2>10 DEF WorkerFinish, rvars, wvars, covars, server
    <2>11. CASE RunRecv
      BY <2>11, <2>c, <2>d DEF RunRecv, SuspendReader, SubmitRead, RecvResult, rvars, wvars, covars, server
    <2>12. CASE RunDestroyed
      BY <2>12, <2>c DEF RunDestroyed, HandleClose, CloseDestroys, DestroyTask, rvars, wvars, covars, server
    <2>13. ASSUME NEW level \in Levels, RunSend(level) PROVE WaitInv'
      BY <2>13, <2>c, <2>d DEF RunSend, SendInLoop, SendResult, rvars, wvars, covars, server
    <2>14. CASE Submit
      BY <2>14 DEF Submit, LookedUp, rvars, wvars, covars, server
    <2>15. CASE OnReadData
      BY <2>15, <2>a DEF OnReadData, ResumeReader, RecvResult, rvars, wvars, covars, server
    <2>16. CASE OnReadAgain
      BY <2>16, <2>a DEF OnReadAgain, SubmitRead, ResumeReader, RecvResult, rvars, wvars, covars, server
    <2>17. CASE OnReadStops
      BY <2>17 DEF OnReadStops, rvars, wvars, covars, server
    <2>18. CASE OnReadFatal
      BY <2>18, <2>a DEF OnReadFatal, RecvResult, rvars, wvars, covars, server
    <2>19. CASE OnWriteIdle
      BY <2>19 DEF OnWriteIdle, rvars, wvars, covars, server
    <2>20. CASE OnWriteFatal
      BY <2>20, <2>a DEF OnWriteFatal, SendResult, rvars, wvars, covars, server
    <2>21. ASSUME NEW level \in 1 .. 2, OnWriteMore(level) PROVE WaitInv'
      BY <2>21, <2>a DEF OnWriteMore, ResumeWriter, SendResult, rvars, wvars, covars, server
    <2>22. CASE ReadTail
      BY <2>22, <2>a DEF ReadTail, ResumeReader, RecvResult, rvars, wvars, covars, server
    <2>23. CASE ReadCloses
      BY <2>23 DEF ReadCloses, HandleClose, CloseDestroys, DestroyTask, rvars, wvars, covars, server
    <2>24. CASE ReadDrops
      BY <2>24 DEF ReadDrops, rvars, wvars, covars, server
    <2>25. CASE ReadStatus
      BY <2>25 DEF ReadStatus, rvars, wvars, covars, server
    <2>26. CASE WriteTail
      <3>1. 0 < 2
        OBVIOUS
      <3>2. CASE write_handle /\ out < 2
        BY <2>26, <2>a, <3>2 DEF WriteTail, ResumeWriter, SendResult, rvars, wvars, covars, server
      <3>3. CASE ~(write_handle /\ out < 2)
        BY <2>26, <3>1, <3>3 DEF WriteTail, ResumeWriter, rvars, wvars, covars, server
      <3> QED
        BY <3>2, <3>3
    <2>27. CASE WriteCloses
      BY <2>27 DEF WriteCloses, HandleClose, CloseDestroys, DestroyTask, rvars, wvars, covars, server
    <2>28. CASE WriteDrops
      BY <2>28 DEF WriteDrops, rvars, wvars, covars, server
    <2>29. CASE WriteSending
      BY <2>29 DEF WriteSending, rvars, wvars, covars, server
    <2>30. CASE ServerStops
      BY <2>30, <2>a DEF ServerStops, rvars, wvars, covars, server
    <2>31. CASE BaseRemoves
      BY <2>31 DEF BaseRemoves, rvars, wvars, covars, server
    <2>32. CASE FdReused
      BY <2>32 DEF FdReused, rvars, wvars, covars, server
    <2>33. CASE UNCHANGED vars
      BY <2>33 DEF vars, rvars, wvars, covars, server
    <2> QED
      BY <2>1, <2>2, <2>3, <2>4, <2>5, <2>6, <2>7, <2>8, <2>9, <2>10, <2>11, <2>12, <2>13,
         <2>14, <2>15, <2>16, <2>17, <2>18, <2>19, <2>20, <2>21, <2>22, <2>23, <2>24,
         <2>25, <2>26, <2>27, <2>28, <2>29, <2>30, <2>31, <2>32, <2>33
      DEF Next, CoStep, RunFunctor, OnRead, OnWrite, HandlerRest
  <1> QED
    BY <1>1, <1>2, RequestsInvariant, PTL DEF Spec

(* A suspended coroutine is never forgotten: the context that it waits in    *)
(* has its handle and a request, or the functor that resumes it is queued.   *)
THEOREM AlwaysResumable == Spec => []NoStuckCoroutine
  <1>1. WaitInv => NoStuckCoroutine
    BY DEF WaitInv, NoStuckCoroutine, InQueue
  <1> QED
    BY <1>1, WaitInvariant, PTL

-----------------------------------------------------------------------------
(* Without worker threads: the coroutine is in the loop's thread, waits in a *)
(* context that has its handle, or has ended; and handleClose() has taken    *)
(* both handles, so that nobody resumes the coroutine of a closed connection.*)
LoopInv ==
    /\ functors \in Seq({"destroyed"})
    /\ co \in {"loop", "read", "write", "done"}
    /\ co = "loop" <=> pc \in CoPcs
    /\ frame = "destroyed" => closing
    /\ closing => co # "loop" /\ ~read_handle /\ ~write_handle
    /\ ~closing => (co = "read" => read_handle) /\ (co = "write" => write_handle)

(* The same for closing: the connection that is closed has destroyed its     *)
(* coroutine, unless that had ended without being told of an error; up to    *)
(* the close an error is known on its own error path only, and the coroutine *)
(* that was told of one still has its handle there.                          *)
EndInv ==
    /\ closing => frame = "destroyed" \/ (co = "done" /\ ~told)
    /\ ~closing =>
        /\ r_error => pc \in {"co_rclose", "rclose"}
        /\ w_error => pc \in {"co_wclose", "wclose"}
        /\ pc = "co_rclose" => read_handle
        /\ pc = "co_wclose" => write_handle
        /\ told => \/ pc \in {"co_rclose", "rclose"} /\ read_handle
                   \/ pc \in {"co_wclose", "wclose"} /\ write_handle

(* handleClose() runs while the coroutine is suspended *)
LEMMA CloseKeepsLoop ==
  ASSUME LoopInv, HandleClose, pc \notin CoPcs, pc' \notin CoPcs, functors' \in Seq({"destroyed"})
  PROVE  LoopInv'
  BY DEF LoopInv, HandleClose, CloseDestroys, DestroyTask

LEMMA LoopInvariant == ASSUME ~Workers PROVE Spec => []LoopInv
  <1>1. Init => LoopInv
    BY DEF Init, LoopInv, CoPcs
  <1>2. LoopInv /\ [Next]_vars => LoopInv'
    <2> SUFFICES ASSUME LoopInv, [Next]_vars PROVE LoopInv'
      OBVIOUS
    <2>a. functors \in Seq({"destroyed"}) /\ Append(functors, "destroyed") \in Seq({"destroyed"})
      BY DEF LoopInv
    <2>b. functors # <<>> => Tail(functors) \in Seq({"destroyed"}) /\ Head(functors) = "destroyed"
      BY <2>a
    <2>1. CASE RunDestroyed
      BY <2>1, <2>b, CloseKeepsLoop DEF RunDestroyed, CoPcs
    <2>2. CASE ReadCloses
      BY <2>2, <2>a, CloseKeepsLoop DEF ReadCloses, CoPcs
    <2>3. CASE WriteCloses
      BY <2>3, <2>a, CloseKeepsLoop DEF WriteCloses, CoPcs
    <2>4. CASE RunRecv \/ (\E level \in Levels : RunSend(level))
      BY <2>4, <2>b DEF RunRecv, RunSend
    <2>5. CASE SwitchThread \/ WorkerRecv \/ WorkerSend \/ WorkerFinish
      BY <2>5 DEF LoopInv, SwitchThread, WorkerRecv, WorkerSend, WorkerFinish
    <2> USE DEF LoopInv, CoPcs
    <2>6. CASE RecvReady
      BY <2>6, <2>a DEF RecvReady, RecvResult, rvars, wvars, server
    <2>7. CASE RecvSuspends
      BY <2>7 DEF RecvSuspends, SuspendReader, AfterCo, wvars
    <2>8. CASE SendSuspends
      BY <2>8 DEF SendSuspends, AfterCo, rvars
    <2>9. CASE Finish
      BY <2>9 DEF Finish, AfterCo, rvars, wvars
    <2>10. CASE \E level \in Levels : SendReady(level)
      BY <2>10, <2>a DEF SendReady, SendResult, rvars
    <2>11. CASE OnReadData \/ OnReadAgain \/ ReadTail
      <3>1. /\ ResumeReader /\ UNCHANGED <<closing, write_handle, frame>> /\ pc \notin CoPcs
        BY <2>11 DEF OnReadData, OnReadAgain, ReadTail, wvars
      <3>2. CASE read_handle
        BY <2>a, <3>1, <3>2 DEF ResumeReader, RecvResult
      <3>3. CASE ~read_handle
        BY <2>a, <3>1, <3>3 DEF ResumeReader
      <3> QED
        BY <3>2, <3>3
    <2>12. CASE OnReadFatal
      BY <2>12, <2>a DEF OnReadFatal, RecvResult, wvars
    <2>13. CASE WriteTail \/ \E level \in 1 .. 2 : OnWriteMore(level)
      BY <2>13, <2>a DEF WriteTail, OnWriteMore, ResumeWriter, SendResult, rvars
    <2>14. CASE OnWriteFatal
      BY <2>14, <2>a DEF OnWriteFatal, SendResult, rvars
    <2>15. CASE ServerStops
      BY <2>15, <2>a DEF ServerStops, rvars, wvars, covars
    <2>16. CASE ReadAll \/ Submit \/ BaseRemoves \/ FdReused \/ UNCHANGED vars
      BY <2>16 DEF ReadAll, Submit, BaseRemoves, FdReused, vars, rvars, wvars, covars, server
    <2>17. CASE OnReadStops \/ ReadDrops \/ ReadStatus
      <3>1. /\ UNCHANGED <<closing, read_handle, write_handle, co, frame, functors>>
            /\ pc \notin CoPcs /\ pc' \notin CoPcs
        BY <2>17 DEF OnReadStops, ReadDrops, ReadStatus, wvars, covars
      <3> QED
        BY <3>1
    <2>18. CASE OnWriteIdle \/ WriteDrops \/ WriteSending
      BY <2>18 DEF OnWriteIdle, WriteDrops, WriteSending, rvars, covars
    <2> QED
      BY <2>1, <2>2, <2>3, <2>4, <2>5, <2>6, <2>7, <2>8, <2>9, <2>10, <2>11, <2>12, <2>13,
         <2>14, <2>15, <2>16, <2>17, <2>18
      DEF Next, CoStep, RunFunctor, OnRead, OnWrite, HandlerRest
  <1> QED
    BY <1>1, <1>2, PTL DEF Spec

(* As long as the coroutine stays on the loop's thread, handleClose() never  *)
(* destroys a coroutine that runs, and a destroyed one is never resumed      *)
(* (TcpConnection.cc:16-18), whatever the coroutine does about errors.       *)
THEOREM AlwaysDestroyedWhenSuspended ==
  ASSUME ~Workers
  PROVE  Spec => []DestroyedOnlyWhenSuspended
  <1>1. LoopInv => DestroyedOnlyWhenSuspended
    BY DEF LoopInv, DestroyedOnlyWhenSuspended
  <1> QED
    BY <1>1, LoopInvariant, PTL

(* handleClose() finds the coroutine suspended with its handle stored *)
LEMMA CloseKeepsEnd ==
  ASSUME LoopInv, EndInv, HandleClose, pc \notin CoPcs
  PROVE  EndInv'
  <1>1. CASE closing
    BY <1>1 DEF EndInv, HandleClose, CloseDestroys, DestroyTask
  <1>2. CASE ~closing
    <2>1. read_handle \/ write_handle \/ (co = "done" /\ ~told)
      BY <1>2 DEF LoopInv, EndInv
    <2> QED
      BY <1>2, <2>1 DEF EndInv, HandleClose, CloseDestroys, DestroyTask
  <1> QED
    BY <1>1, <1>2

LEMMA EndInvariant == ASSUME ~Workers PROVE Spec => []EndInv
  <1>1. Init => EndInv
    BY DEF Init, EndInv
  <1>2. LoopInv /\ EndInv /\ [Next]_vars => EndInv'
    <2> SUFFICES ASSUME LoopInv, EndInv, [Next]_vars PROVE EndInv'
      OBVIOUS
    <2>a. pc \in CoPcs <=> co = "loop"
      BY DEF LoopInv
    <2>b. functors # <<>> => Head(functors) = "destroyed"
      BY DEF LoopInv
    <2>c. closing => ~read_handle /\ ~write_handle /\ co # "loop"
      BY DEF LoopInv
    <2>1. CASE RunDestroyed \/ ReadCloses \/ WriteCloses
      BY <2>1, CloseKeepsEnd DEF RunDestroyed, ReadCloses, WriteCloses, CoPcs
    <2>2. CASE RunRecv \/ (\E level \in Levels : RunSend(level))
      BY <2>2, <2>b DEF RunRecv, RunSend
    <2>3. CASE SwitchThread \/ WorkerRecv \/ WorkerSend \/ WorkerFinish
      BY <2>3 DEF LoopInv, SwitchThread, WorkerRecv, WorkerSend, WorkerFinish
    <2> USE DEF EndInv, CoPcs
    <2>4. CASE RecvReady
      BY <2>4, <2>a, <2>c DEF RecvReady, RecvResult, rvars, wvars
    <2>5. CASE RecvSuspends
      BY <2>5, <2>a, <2>c DEF RecvSuspends, SuspendReader, AfterCo, wvars
    <2>6. CASE SendSuspends
      BY <2>6, <2>a, <2>c DEF SendSuspends, AfterCo, rvars
    <2>7. CASE Finish
      BY <2>7, <2>a, <2>c DEF Finish, AfterCo, rvars, wvars
    <2>8. CASE \E level \in Levels : SendReady(level)
      <3>1. /\ co = "loop" /\ told' = (w_error \/ closing)
            /\ UNCHANGED <<closing, read_handle, write_handle, r_error, w_error, co, frame, pc>>
        BY <2>8 DEF SendReady, SendResult, rvars
      <3> QED
        BY <2>a, <2>c, <3>1
    <2>9. CASE OnReadData \/ OnReadAgain \/ ReadTail
      <3>1. /\ ResumeReader /\ UNCHANGED <<closing, write_handle, frame, r_error, w_error>>
            /\ pc \in {"loop", "rtail"}
        BY <2>9 DEF OnReadData, OnReadAgain, ReadTail, wvars
      <3>2. CASE read_handle
        BY <2>c, <3>1, <3>2 DEF ResumeReader, RecvResult
      <3>3. CASE ~read_handle
        BY <3>1, <3>3 DEF ResumeReader
      <3> QED
        BY <3>2, <3>3
    <2>10. CASE OnReadFatal
      BY <2>10, <2>c DEF OnReadFatal, RecvResult, wvars
    <2>11. CASE WriteTail \/ \E level \in 1 .. 2 : OnWriteMore(level)
      <3>1. /\ UNCHANGED <<closing, read_handle, frame, r_error, w_error>>
            /\ pc \in {"loop", "wtail"} /\ \E level : ResumeWriter(level)
        BY <2>11 DEF WriteTail, OnWriteMore, rvars
      <3>2. PICK level : ResumeWriter(level)
        BY <3>1
      <3>3. CASE write_handle /\ level < 2
        BY <2>c, <3>1, <3>2, <3>3 DEF ResumeWriter, SendResult
      <3>4. CASE ~(write_handle /\ level < 2)
        BY <3>1, <3>2, <3>4 DEF ResumeWriter
      <3> QED
        BY <3>3, <3>4
    <2>12. CASE OnWriteFatal
      BY <2>12, <2>c DEF OnWriteFatal, SendResult, rvars
    <2>13. CASE ServerStops \/ ReadAll \/ Submit \/ BaseRemoves \/ FdReused \/ UNCHANGED vars
      BY <2>13 DEF ServerStops, ReadAll, Submit, BaseRemoves, FdReused, vars, rvars, wvars, covars, server
    <2>14. CASE OnReadStops \/ ReadDrops \/ ReadStatus
      <3>1. /\ UNCHANGED <<closing, read_handle, write_handle, r_error, w_error, co, frame, told>>
            /\ pc \in {"loop", "rdrop", "rstatus"} /\ pc' \in {"rtail", "rstatus", "loop"}
        BY <2>14 DEF OnReadStops, ReadDrops, ReadStatus, wvars, covars
      <3> QED
        BY <3>1
    <2>15. CASE OnWriteIdle \/ WriteDrops \/ WriteSending
      <3>1. /\ UNCHANGED <<closing, read_handle, write_handle, r_error, w_error, co, frame, told>>
            /\ pc \in {"loop", "wdrop", "wsending"} /\ pc' \in {"wtail", "wsending", "loop"}
        BY <2>15 DEF OnWriteIdle, WriteDrops, WriteSending, rvars, covars
      <3> QED
        BY <3>1
    <2> QED
      BY <2>1, <2>2, <2>3, <2>4, <2>5, <2>6, <2>7, <2>8, <2>9, <2>10, <2>11, <2>12, <2>13,
         <2>14, <2>15
      DEF Next, CoStep, RunFunctor, OnRead, OnWrite, HandlerRest
  <1> QED
    BY <1>1, <1>2, LoopInvariant, PTL DEF Spec

(* The safety that ClosedIsReleased rests on, for a coroutine that stays on  *)
(* the loop's thread: the very handleClose() that closes the connection      *)
(* destroys the coroutine, unless that had ended before without an error,    *)
(* and once the requests of the connection have completed no holder is left, *)
(* so no reference cycle keeps it alive (TcpConnection.cc:7-36).             *)
THEOREM ClosedAndIdleIsReleased ==
  ASSUME ~Workers
  PROVE  Spec => []/\ closing => frame = "destroyed" \/ (co = "done" /\ ~told)
                   /\ pc = "loop" /\ r_sqe = "none" /\ w_sqe = "none" => ~r_holder /\ ~w_holder
  <1>1. EndInv /\ RequestInv =>
            /\ closing => frame = "destroyed" \/ (co = "done" /\ ~told)
            /\ pc = "loop" /\ r_sqe = "none" /\ w_sqe = "none" => ~r_holder /\ ~w_holder
    BY DEF EndInv, RequestInv
  <1> QED
    BY <1>1, EndInvariant, RequestsInvariant, PTL

(* With worker threads as well, Destroyed() as the first to close destroys   *)
(* only a coroutine that waits in a context, the intent stated in            *)
(* TcpConnection.cc:16-18; what hits a coroutine elsewhere is a later call,  *)
(* or the error path of the request whose failure resumed the coroutine.     *)
THEOREM DestroyedFindsSuspended ==
  Spec => [][frame = "alive" /\ frame' = "destroyed" /\ ~closing =>
                \/ co \in {"read", "write"}
                \/ pc \in {"rclose", "wclose"} /\ (r_error \/ w_error)]_vars
  <1> DEFINE Safe == frame = "alive" /\ frame' = "destroyed" /\ ~closing =>
                         \/ co \in {"read", "write"}
                         \/ pc \in {"rclose", "wclose"} /\ (r_error \/ w_error)
  <1>1. RequestInv /\ WaitInv /\ [Next]_vars => [Safe]_vars
    <2> SUFFICES ASSUME RequestInv, WaitInv, Next, frame = "alive", frame' = "destroyed", ~closing
                 PROVE  \/ co \in {"read", "write"}
                        \/ pc \in {"rclose", "wclose"} /\ (r_error \/ w_error)
      OBVIOUS
    <2>1. HandleClose /\ pc \in {"loop", "rclose", "wclose"}
      BY DEF Next, CoStep, RunFunctor, OnRead, OnWrite, HandlerRest, RecvReady, RecvSuspends, ReadAll,
             SendSuspends, SwitchThread, Finish, SendReady, WorkerRecv, WorkerSend, WorkerFinish,
             RunRecv, RunDestroyed, RunSend, Submit, OnReadData, OnReadAgain, OnReadStops, OnReadFatal,
             OnWriteIdle, OnWriteFatal, OnWriteMore, ReadTail, ReadCloses, ReadDrops, ReadStatus,
             WriteTail, WriteCloses, WriteDrops, WriteSending, ServerStops, BaseRemoves, FdReused, covars
    <2>2. read_handle \/ write_handle
      BY <2>1 DEF HandleClose, CloseDestroys
    <2> QED
      BY <2>1, <2>2 DEF WaitInv, RequestInv, ReadErrorPath, WriteErrorPath
  <1> QED
    BY <1>1, RequestsInvariant, WaitInvariant, PTL DEF Spec

=============================================================================
