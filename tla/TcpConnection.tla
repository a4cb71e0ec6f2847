---------------------------- MODULE TcpConnection ----------------------------
(***************************************************************************)
(* The life of one connection (src/src/TcpConnection.cc with the control   *)
(* of ReadContext.cc and WriteContext.cc): the two kinds of requests and   *)
(* the references that keep the connection alive, the awaiters used from   *)
(* the loop's thread and from a worker thread, closing, and destroying the *)
(* business coroutine.                                                     *)
(*                                                                         *)
(* The data are abstracted: the input buffer is empty or not, the output   *)
(* buffer is empty (0), below (1) or above (2) its high water mark, and a  *)
(* completion is chosen when it is handled; ReadContext and WriteContext   *)
(* model them in detail.                                                   *)
(***************************************************************************)
EXTENDS Integers, Sequences

CONSTANTS
    Workers,      \* may the coroutine move to a thread of a ThreadPool?
    SingleLoop,   \* does the server's own loop run the connection?
    KeepRef,      \* does the user keep a reference outside of the coroutine?
    ReuseFd,      \* may the system give the number of a closed descriptor away?
    MaxFunctors   \* bound on the length of the loop's functor queue

ASSUME OptionsAssumption ==
    {Workers, SingleLoop, KeepRef, ReuseFd} \subseteq BOOLEAN
ASSUME MaxFunctorsAssumption == MaxFunctors \in Nat

VARIABLES
    closing,       \* closing_
    fd,            \* the descriptor's number: open, closed, reused
    status,        \* read_context_.status_
    r_holder, read_handle, r_error,
    r_sqe,         \* the read request: none, prepared, own, bad, foreign
    in_empty,      \* read_context_.isEmpty()
    is_sending, w_holder, write_handle, w_error,
    w_sqe,         \* the write request
    out,           \* level of the output buffer
    co,            \* where the business coroutine is
    frame,         \* the frame task_handle_ owns: alive or destroyed
    told,          \* did the coroutine's last await report an error?
    pc,            \* what the loop's thread is doing
    functors,      \* this connection's entries of the loop's functor queue
    in_map,        \* is the connection in TcpServer::connection_map_?
    base_q         \* is its removal queued in the server's loop?

rvars == <<status, r_holder, read_handle, r_error, r_sqe, in_empty>>
wvars == <<is_sending, w_holder, write_handle, w_error, w_sqe, out>>
covars == <<co, frame, told>>
server == <<in_map, base_q>>
vars == <<closing, fd, rvars, wvars, covars, pc, functors, server>>

CoPcs == {"co", "co_rclose", "co_wclose"}

(* newConnection put the connection in the map; Established() runs the coroutine *)
Init ==
    /\ closing = FALSE
    /\ fd = "open"
    /\ status = "STOPED"
    /\ r_holder = FALSE /\ read_handle = FALSE /\ r_error = FALSE
    /\ r_sqe = "none"
    /\ in_empty = TRUE
    /\ is_sending = FALSE
    /\ w_holder = FALSE /\ write_handle = FALSE /\ w_error = FALSE
    /\ w_sqe = "none"
    /\ out = 0
    /\ co = "loop"
    /\ frame = "alive"
    /\ told = FALSE
    /\ pc = "co"
    /\ functors = <<>>
    /\ in_map = TRUE
    /\ base_q = FALSE

-----------------------------------------------------------------------------
SubmitReadNoStatus ==
    /\ r_holder' = TRUE
    /\ r_sqe' = "prepared"
    /\ UNCHANGED status

(* submitRead *)
SubmitRead ==
    /\ r_holder' = TRUE
    /\ r_sqe' = "prepared"
    /\ status' = "READING"

(* await_suspend of RecvDataAwaiter on the loop's thread *)
SuspendReader ==
    /\ read_handle' = TRUE
    /\ co' = "read"
    /\ IF status = "STOPED" THEN SubmitRead ELSE UNCHANGED <<r_holder, r_sqe, status>>

SendsUnheld(level) ==
    /\ out' = level
    /\ IF is_sending THEN UNCHANGED <<is_sending, w_sqe>>
       ELSE is_sending' = TRUE /\ w_sqe' = "prepared"
    /\ UNCHANGED w_holder

(* sendInLoop: append, and flush unless a request is outstanding *)
SendInLoop(level) ==
    /\ out' = level
    /\ IF is_sending THEN UNCHANGED <<is_sending, w_sqe, w_holder>>
       ELSE is_sending' = TRUE /\ w_sqe' = "prepared" /\ w_holder' = TRUE

(* RecvDataAwaiter::await_resume with fs the functor queue: an error, or a   *)
(* closed connection, for which Destroyed() is queued                        *)
RecvResult(error, fs) ==
    /\ told' = (error \/ closing)
    /\ functors' = IF ~error /\ closing THEN Append(fs, "destroyed") ELSE fs

(* SendDataAwaiter::await_resume *)
SendResult(error, fs) ==
    /\ told' = (error \/ closing)
    /\ functors' = IF closing THEN Append(fs, "destroyed") ELSE fs

(* where the loop's thread continues when the coroutine stops running on it *)
AfterCo == CASE pc = "co" -> "loop" [] pc = "co_wclose" -> "wclose" [] pc = "co_rclose" -> "rclose"

(* it may go on after an error too: README.md:115 ignores what send returns  *)
Continues == frame = "alive" /\ Len(functors) < MaxFunctors

-----------------------------------------------------------------------------
(* The coroutine on the loop's thread: co_await PrepareToRead() ...          *)
RecvReady ==
    /\ co = "loop" /\ Continues
    /\ closing \/ ~in_empty
    /\ RecvResult(r_error, functors)
    /\ UNCHANGED <<closing, fd, rvars, wvars, co, frame, pc, server>>

RecvSuspends ==
    /\ co = "loop" /\ Continues
    /\ ~closing /\ in_empty
    /\ SuspendReader
    /\ pc' = AfterCo
    /\ UNCHANGED <<closing, fd, r_error, in_empty, wvars, frame, told, functors, server>>

(* ... read() of all there is ... *)
ReadAll ==
    /\ co = "loop" /\ frame = "alive"
    /\ ~in_empty
    /\ in_empty' = TRUE
    /\ UNCHANGED <<closing, fd, status, r_holder, read_handle, r_error, r_sqe, wvars, covars,
                   pc, functors, server>>

(* ... co_await send() ... *)
SendReady(level) ==
    /\ co = "loop" /\ Continues
    /\ level < 2
    /\ IF closing THEN UNCHANGED <<out, is_sending, w_sqe, w_holder>> ELSE SendInLoop(level)
    /\ SendResult(w_error, functors)
    /\ UNCHANGED <<closing, fd, rvars, write_handle, w_error, co, frame, pc, server>>

SendSuspends ==
    /\ co = "loop" /\ Continues
    /\ ~closing
    /\ SendInLoop(2)
    /\ write_handle' = TRUE
    /\ co' = "write"
    /\ pc' = AfterCo
    /\ UNCHANGED <<closing, fd, rvars, w_error, frame, told, functors, server>>

(* ... co_await pool.switchThread() ... *)
SwitchThread ==
    /\ Workers
    /\ co = "loop" /\ Continues
    /\ co' = "worker"
    /\ pc' = AfterCo
    /\ UNCHANGED <<closing, fd, rvars, wvars, frame, told, functors, server>>

(* ... the end of its body *)
Finish ==
    /\ co = "loop" /\ frame = "alive"
    /\ co' = "done"
    /\ pc' = AfterCo
    /\ UNCHANGED <<closing, fd, rvars, wvars, frame, told, functors, server>>

(* The coroutine on a worker thread: an await that finds the connection      *)
(* closed returns at once, another one suspends and queues a functor.        *)
WorkerRecv ==
    /\ co = "worker" /\ Continues
    /\ IF closing
       THEN RecvResult(r_error, functors) /\ UNCHANGED co
       ELSE functors' = Append(functors, "recv") /\ co' = "q_recv" /\ UNCHANGED told
    /\ UNCHANGED <<closing, fd, rvars, wvars, frame, pc, server>>

WorkerSend ==
    /\ co = "worker" /\ Continues
    /\ IF closing
       THEN SendResult(w_error, functors) /\ UNCHANGED co
       ELSE functors' = Append(functors, "send") /\ co' = "q_send" /\ UNCHANGED told
    /\ UNCHANGED <<closing, fd, rvars, wvars, frame, pc, server>>

WorkerFinish ==
    /\ co = "worker" /\ frame = "alive"
    /\ co' = "done"
    /\ UNCHANGED <<closing, fd, rvars, wvars, frame, told, pc, functors, server>>

-----------------------------------------------------------------------------
CloseLeavesWaiting == closing

(* handleClose() destroys the coroutine: the test of line 19, or the else branch *)
CloseDestroys == closing \/ read_handle \/ write_handle

(* Socket::close(), once *)
CloseSocket == fd' = IF fd = "open" THEN "closed" ELSE fd

(* Task::destroy(): nothing happens to a frame that is gone already *)
DestroyTask == frame' = "destroyed"

(* handleClose(); the close callback erases the map entry at once or queues  *)
(* that in the server's loop (removeConnection)                              *)
HandleClose ==
    /\ closing' = TRUE
    /\ IF CloseDestroys THEN DestroyTask ELSE UNCHANGED frame
    /\ UNCHANGED <<co, told>>
    /\ IF closing THEN UNCHANGED <<fd, read_handle, write_handle, server>>
       ELSE /\ CloseSocket
            /\ read_handle' = FALSE
            /\ write_handle' = FALSE
            /\ in_map' = (in_map /\ ~SingleLoop)
            /\ base_q' = ~SingleLoop

(* doingPendingFunctors runs the functors queued by the awaiters *)
RunRecv ==
    /\ pc = "loop" /\ functors # <<>> /\ frame = "alive"
    /\ Head(functors) = "recv"
    /\ IF in_empty
       THEN SuspendReader /\ functors' = Tail(functors) /\ UNCHANGED <<told, pc>>
       ELSE /\ RecvResult(r_error, Tail(functors))
            /\ co' = "loop" /\ pc' = "co"
            /\ UNCHANGED <<read_handle, r_holder, r_sqe, status>>
    /\ UNCHANGED <<closing, fd, r_error, in_empty, wvars, frame, server>>

RunSend(level) ==
    /\ pc = "loop" /\ functors # <<>> /\ frame = "alive"
    /\ Head(functors) = "send"
    /\ SendInLoop(level)
    /\ IF level < 2
       THEN SendResult(w_error, Tail(functors)) /\ co' = "loop" /\ pc' = "co" /\ UNCHANGED write_handle
       ELSE write_handle' = TRUE /\ co' = "write" /\ functors' = Tail(functors) /\ UNCHANGED <<told, pc>>
    /\ UNCHANGED <<closing, fd, rvars, w_error, frame, server>>

RunDestroyed ==
    /\ pc = "loop" /\ functors # <<>>
    /\ Head(functors) = "destroyed"
    /\ HandleClose
    /\ functors' = Tail(functors)
    /\ UNCHANGED <<status, r_holder, r_error, r_sqe, in_empty, is_sending, w_holder, w_error,
                   w_sqe, out, pc>>

(* ~TcpServer: forget the connection and queue Destroyed() in its loop *)
ServerStops ==
    /\ in_map /\ Len(functors) < MaxFunctors
    /\ in_map' = FALSE
    /\ functors' = Append(functors, "destroyed")
    /\ UNCHANGED <<closing, fd, rvars, wvars, covars, pc, base_q>>

(* removeConnectionInLoop in the server's loop, then its functor goes away *)
BaseRemoves ==
    /\ base_q
    /\ IF in_map THEN in_map' = FALSE /\ UNCHANGED base_q ELSE base_q' = FALSE /\ UNCHANGED in_map
    /\ UNCHANGED <<closing, fd, rvars, wvars, covars, pc, functors>>

(* the system gives the number of the closed descriptor to something else *)
FdReused ==
    /\ ReuseFd /\ fd = "closed"
    /\ fd' = "reused"
    /\ UNCHANGED <<closing, rvars, wvars, covars, pc, functors, server>>

-----------------------------------------------------------------------------
(* what a prepared request refers to when the kernel looks its descriptor up *)
LookedUp(sqe) ==
    IF sqe # "prepared" THEN sqe
    ELSE CASE fd = "open" -> "own" [] fd = "closed" -> "bad" [] fd = "reused" -> "foreign"

Submit ==
    /\ pc = "loop"
    /\ "prepared" \in {r_sqe, w_sqe}
    /\ r_sqe' = LookedUp(r_sqe)
    /\ w_sqe' = LookedUp(w_sqe)
    /\ UNCHANGED <<closing, fd, status, r_holder, read_handle, r_error, in_empty, is_sending,
                   w_holder, write_handle, w_error, out, covars, pc, functors, server>>

ResumeReader ==
    IF read_handle
    THEN /\ read_handle' = FALSE /\ co' = "loop" /\ pc' = "co"
         /\ RecvResult(r_error, functors)
    ELSE pc' = "loop" /\ UNCHANGED <<read_handle, co, told, functors>>

(* ReadContext::on_completion with data and F_MORE; above the high water     *)
(* mark the request is cancelled                                             *)
OnReadData ==
    /\ pc = "loop" /\ r_sqe \in {"own", "foreign"}
    /\ in_empty' = FALSE
    /\ status' \in {status, "CANCELING"}
    /\ ResumeReader
    /\ UNCHANGED <<closing, fd, r_holder, r_error, r_sqe, wvars, frame, server>>

(* the last completion of a request that ends without a fatal error while    *)
(* reading: submit again                                                     *)
OnReadAgain ==
    /\ pc = "loop" /\ r_sqe \in {"own", "foreign"} /\ status = "READING"
    /\ in_empty' \in {in_empty, FALSE}
    /\ SubmitRead
    /\ ResumeReader
    /\ UNCHANGED <<closing, fd, r_error, wvars, frame, server>>

(* the same while cancelling, or with the data that reach the mark: stop and *)
(* drop the holder ...                                                       *)
OnReadStops ==
    /\ pc = "loop" /\ r_sqe \in {"own", "foreign"}
    /\ in_empty' \in {in_empty, FALSE}
    /\ status = "CANCELING" \/ ~in_empty'
    /\ status' = "STOPED"
    /\ r_sqe' = "none"
    /\ r_holder' = FALSE
    /\ pc' = "rtail"
    /\ UNCHANGED <<closing, fd, read_handle, r_error, wvars, covars, functors, server>>

(* ... then look at read_handle_ *)
ReadTail ==
    /\ pc = "rtail"
    /\ ResumeReader
    /\ UNCHANGED <<closing, fd, status, r_holder, r_error, r_sqe, in_empty, wvars, frame, server>>

(* ReadContext::on_completion with a fatal error: resume a waiting coroutine, ... *)
OnReadFatal ==
    /\ pc = "loop" /\ r_sqe \in {"own", "bad", "foreign"}
    /\ r_error' = TRUE
    /\ r_sqe' = "none"
    /\ IF read_handle
       THEN co' = "loop" /\ pc' = "co_rclose" /\ RecvResult(TRUE, functors)
       ELSE pc' = "rclose" /\ UNCHANGED <<co, told, functors>>
    /\ UNCHANGED <<closing, fd, status, r_holder, read_handle, in_empty, wvars, frame, server>>

(* ... handleClose(), ... *)
ReadCloses ==
    /\ pc = "rclose"
    /\ HandleClose
    /\ pc' = "rdrop"
    /\ UNCHANGED <<status, r_holder, r_error, r_sqe, in_empty, is_sending, w_holder, w_error,
                   w_sqe, out, functors>>

(* ... holder_.reset(), ... *)
ReadDrops ==
    /\ pc = "rdrop"
    /\ r_holder' = FALSE
    /\ pc' = "rstatus"
    /\ UNCHANGED <<closing, fd, status, read_handle, r_error, r_sqe, in_empty, wvars, covars,
                   functors, server>>

(* ... status_ = STOPED *)
ReadStatus ==
    /\ pc = "rstatus"
    /\ status' = "STOPED"
    /\ pc' = "loop"
    /\ UNCHANGED <<closing, fd, r_holder, read_handle, r_error, r_sqe, in_empty, wvars, covars,
                   functors, server>>

-----------------------------------------------------------------------------
NeverResumesWriter(level) ==
    pc' = "loop" /\ UNCHANGED <<write_handle, co, told, functors>>

ResumeWriter(level) ==
    IF write_handle /\ level < 2
    THEN /\ write_handle' = FALSE /\ co' = "loop" /\ pc' = "co"
         /\ SendResult(w_error, functors)
    ELSE pc' = "loop" /\ UNCHANGED <<write_handle, co, told, functors>>

(* WriteContext::on_completion (line 97 asserts that there is a holder)      *)
(* without a fatal error, data left: flush                                   *)
OnWriteMore(level) ==
    /\ pc = "loop" /\ w_sqe \in {"own", "foreign"} /\ w_holder
    /\ level \in 1 .. out
    /\ out' = level
    /\ w_sqe' = "prepared"
    /\ ResumeWriter(level)
    /\ UNCHANGED <<closing, fd, rvars, is_sending, w_holder, w_error, frame, server>>

(* nothing left: drop the holder ... *)
OnWriteIdle ==
    /\ pc = "loop" /\ w_sqe \in {"own", "foreign"} /\ w_holder
    /\ out' = 0
    /\ is_sending' = FALSE
    /\ w_sqe' = "none"
    /\ w_holder' = FALSE
    /\ pc' = "wtail"
    /\ UNCHANGED <<closing, fd, rvars, write_handle, w_error, covars, functors, server>>

(* ... then look at write_handle_ *)
WriteTail ==
    /\ pc = "wtail"
    /\ ResumeWriter(out)
    /\ UNCHANGED <<closing, fd, rvars, is_sending, w_holder, w_error, w_sqe, out, frame, server>>

(* with a fatal error: resume a waiting coroutine, ... *)
OnWriteFatal ==
    /\ pc = "loop" /\ w_sqe \in {"own", "bad", "foreign"} /\ w_holder
    /\ w_error' = TRUE
    /\ is_sending' = FALSE
    /\ w_sqe' = "none"
    /\ IF write_handle
       THEN co' = "loop" /\ pc' = "co_wclose" /\ SendResult(TRUE, functors)
       ELSE pc' = "wclose" /\ UNCHANGED <<co, told, functors>>
    /\ UNCHANGED <<closing, fd, rvars, w_holder, write_handle, out, frame, server>>

(* ... handleClose(), ... *)
WriteCloses ==
    /\ pc = "wclose"
    /\ HandleClose
    /\ pc' = "wdrop"
    /\ UNCHANGED <<status, r_holder, r_error, r_sqe, in_empty, is_sending, w_holder, w_error,
                   w_sqe, out, functors>>

(* ... holder_.reset(), ... *)
WriteDrops ==
    /\ pc = "wdrop"
    /\ w_holder' = FALSE
    /\ pc' = "wsending"
    /\ UNCHANGED <<closing, fd, rvars, is_sending, write_handle, w_error, w_sqe, out, covars,
                   functors, server>>

(* ... is_sending_ = false *)
WriteSending ==
    /\ pc = "wsending"
    /\ is_sending' = FALSE
    /\ pc' = "loop"
    /\ UNCHANGED <<closing, fd, rvars, w_holder, write_handle, w_error, w_sqe, out, covars,
                   functors, server>>

-----------------------------------------------------------------------------
Levels == out .. 2

CoStep ==
    \/ RecvReady \/ RecvSuspends \/ ReadAll \/ SendSuspends \/ SwitchThread \/ Finish
    \/ \E level \in Levels : SendReady(level)
    \/ WorkerRecv \/ WorkerSend \/ WorkerFinish

RunFunctor == RunRecv \/ RunDestroyed \/ \E level \in Levels : RunSend(level)

OnRead == OnReadData \/ OnReadAgain \/ OnReadStops \/ OnReadFatal

OnWrite == OnWriteIdle \/ OnWriteFatal \/ \E level \in 1 .. 2 : OnWriteMore(level)

(* the rest of a handler that has begun *)
HandlerRest ==
    \/ ReadTail \/ ReadCloses \/ ReadDrops \/ ReadStatus
    \/ WriteTail \/ WriteCloses \/ WriteDrops \/ WriteSending

Next ==
    \/ CoStep \/ RunFunctor \/ Submit \/ OnRead \/ OnWrite \/ HandlerRest
    \/ ServerStops \/ BaseRemoves \/ FdReused

Spec == Init /\ [][Next]_vars

(* The loop runs its functors, submits, and handles completions in order    *)
(* (strong fairness: it does none of it while a coroutine runs); a request  *)
(* on a closed descriptor fails at once, while nothing ends a request that  *)
(* was submitted before the close (Socket::close only closes); a handler    *)
(* goes on to its end; a coroutine neither runs for ever without waiting    *)
(* nor stays on a worker for ever.                                          *)
Fairness ==
    /\ SF_vars(RunFunctor)
    /\ SF_vars(Submit)
    /\ SF_vars(r_sqe = "bad" /\ OnReadFatal)
    /\ SF_vars(w_sqe = "bad" /\ OnWriteFatal)
    /\ WF_vars(HandlerRest \/ RecvSuspends \/ Finish)
    /\ WF_vars(WorkerFinish)

FairSpec == Spec /\ Fairness

-----------------------------------------------------------------------------
TypeOK ==
    /\ closing \in BOOLEAN
    /\ fd \in {"open", "closed", "reused"}
    /\ status \in {"STOPED", "READING", "CANCELING"}
    /\ r_holder \in BOOLEAN /\ read_handle \in BOOLEAN /\ r_error \in BOOLEAN
    /\ r_sqe \in {"none", "prepared", "own", "bad", "foreign"}
    /\ in_empty \in BOOLEAN
    /\ is_sending \in BOOLEAN
    /\ w_holder \in BOOLEAN /\ write_handle \in BOOLEAN /\ w_error \in BOOLEAN
    /\ w_sqe \in {"none", "prepared", "own", "bad", "foreign"}
    /\ out \in 0 .. 2
    /\ co \in {"loop", "worker", "read", "write", "q_recv", "q_send", "done"}
    /\ frame \in {"alive", "destroyed"}
    /\ told \in BOOLEAN
    /\ pc \in CoPcs \cup {"loop", "rtail", "rclose", "rdrop", "rstatus",
                          "wtail", "wclose", "wdrop", "wsending"}
    /\ functors \in Seq({"recv", "send", "destroyed"})
    /\ in_map \in BOOLEAN /\ base_q \in BOOLEAN

(* a write submitted by a coroutine that handles the failure of the one     *)
(* before it, abandoned by the handleClose() that follows                   *)
AbandonedWrite == closing /\ w_error /\ frame = "destroyed"

(* Both contexts keep the connection alive while they have a request        *)
(* outstanding: the assertions on holder_ in ReadContext.cc:84 and          *)
(* WriteContext.cc:97, whatever closes the connection and whichever thread  *)
(* the coroutine is on.  The one exception: what a coroutine sends when it  *)
(* is resumed by a failed write (WriteContext.cc:106) loses the holder to   *)
(* the reset at line 110, once the coroutine is destroyed.                  *)
RequestsHeld ==
    /\ r_sqe # "none" => r_holder
    /\ w_sqe # "none" => w_holder \/ AbandonedWrite

(* A request of each kind is submitted only when none is outstanding:       *)
(* status_ and is_sending_ say so, outside of the read's error path and for *)
(* every write but an abandoned one.                                        *)
OneRequestEach ==
    /\ pc \notin {"co_rclose", "rclose", "rdrop", "rstatus"} =>
         (status # "STOPED" <=> r_sqe # "none")
    /\ is_sending => w_sqe # "none"
    /\ w_sqe # "none" => is_sending \/ AbandonedWrite

(* A suspended coroutine can always be resumed: it waits in a context with  *)
(* a request outstanding, or a functor that knows it is in the queue.       *)
NoStuckCoroutine ==
    pc = "loop" /\ frame = "alive" =>
        /\ co = "read" => read_handle /\ r_sqe # "none"
        /\ co = "write" => write_handle /\ w_sqe # "none"
        /\ co = "q_recv" => \E i \in 1 .. Len(functors) : functors[i] = "recv"
        /\ co = "q_send" => \E i \in 1 .. Len(functors) : functors[i] = "send"

(* TcpConnection.cc:16-18: a coroutine that is not suspended in a context   *)
(* may be running in another thread and must not be destroyed.              *)
DestroyedOnlyWhenSuspended == frame = "destroyed" => co \in {"read", "write", "done"}

Released == frame = "destroyed" /\ ~r_holder /\ ~w_holder

(* submitted, and the kernel or the peer has not ended it *)
Outstanding(sqe) == sqe \in {"prepared", "own", "foreign"}

(* a coroutine that has ended without an await that found the connection    *)
(* closed, or after one that returned because of is_error_                  *)
(* (TcpConnection.cc:177) and so queued no Destroyed()                      *)
LeftBehind == co = "done" /\ frame = "alive" /\ (r_error \/ ~told)

(* the loop runs a coroutine that is gone: anything may follow *)
ResumedDestroyed == co = "loop" /\ frame = "destroyed"

(* A closed connection lets go of everything in the end: its coroutine is   *)
(* destroyed and both holders are reset, so the connection can be freed,    *)
(* whichever of an error, Destroyed() and the end of the coroutine is first *)
(* and whichever thread the coroutine is on (handleClose,                   *)
(* TcpConnection.cc:7-36).  It is kept only by a request that never         *)
(* completes, as closing cancels none, or by a coroutine left behind; and a *)
(* second handleClose() leaves the handle of what it destroys to be resumed.*)
ClosedIsReleased ==
    closing ~> \/ Released
               \/ [](Outstanding(r_sqe) \/ Outstanding(w_sqe) \/ LeftBehind)
               \/ ResumedDestroyed

(* who refers to the connection; the frame has it as the coroutine's argument *)
Alive ==
    \/ in_map \/ base_q \/ KeepRef
    \/ frame = "alive"
    \/ r_holder \/ w_holder
    \/ \E i \in 1 .. Len(functors) : functors[i] = "destroyed"

(* A completion handler uses its context only while the connection exists:  *)
(* "the holder keeps the connection alive" (ReadContext.h:12,               *)
(* WriteContext.h:16).                                                      *)
HandlerOutlived == pc # "loop" => Alive

(* Requests are made only on the connection's own socket: a request on a    *)
(* descriptor that was closed fails with EBADF (WriteContext.cc:61).        *)
OwnDescriptor == r_sqe # "foreign" /\ w_sqe # "foreign"
=============================================================================
