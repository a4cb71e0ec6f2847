---------------------------- MODULE WriteContext ----------------------------
(***************************************************************************)
(* The sending half of a connection (src/src/WriteContext.cc, sendInLoop   *)
(* and SendDataAwaiter in src/src/TcpConnection.cc) with its business      *)
(* coroutine on the loop's thread and one writev request at a time in the  *)
(* kernel.                                                                 *)
(*                                                                         *)
(* The coroutine is any program that sends, waits to read and finishes.    *)
(* It may go on sending after a send that failed (README.md:115 does).     *)
(* The steps it takes run on the stack of the handler that resumed it:     *)
(* while it runs no completion is handled, and when it stops, the handler  *)
(* goes on (pc "wclose" and "rclose" are the rest of the error paths).     *)
(***************************************************************************)
EXTENDS SendQueue

CONSTANTS
    MaxSlices,    \* max_slices_
    HighWater,    \* high_water_mark_
    SendLens,     \* the lengths of the strings that are sent
    MaxBytes,     \* bound on the number of bytes sent
    MaxSends,     \* bound on the number of calls of send
    EmptyRuns,    \* may a string of length 0 be sent right after another one?
    RetryErrors   \* may writev fail with EAGAIN, ENOBUFS or EINTR?

ASSUME SlicesAssumption == MaxSlices \in Nat \ {0}
ASSUME HighWaterAssumption == HighWater \in Nat
ASSUME SendLensAssumption == SendLens \subseteq Nat
ASSUME BoundsAssumption == MaxBytes \in Nat /\ MaxSends \in Nat
ASSUME OptionsAssumption == {EmptyRuns, RetryErrors} \subseteq BOOLEAN

VARIABLES
    output_buffer, temp_data, is_sending, is_error, write_handle,
    holder,       \* is holder_ set?
    read_handle,  \* is the coroutine's handle in the read context?
    closing,      \* TcpConnection::closing_
    sqe,          \* the write request: none, prepared, inflight, cqe
    sqe_open,     \* was the socket open when the request reached the kernel?
    res,          \* its result res_
    pc,           \* what the loop's thread is doing
    co,           \* the business coroutine
    sends,        \* number of calls of send
    appended,     \* number of bytes appended to the output buffer
    wire          \* positions of the bytes the kernel wrote to the socket

ctx == <<output_buffer, temp_data, is_sending, is_error, write_handle, holder>>
kernel == <<sqe, sqe_open, res, wire>>
client == <<sends, appended>>
vars == <<ctx, kernel, client, read_handle, closing, pc, co>>

CoPcs == {"co", "co_wclose", "co_rclose"}

(* res_: a number of bytes, or the negated errno, of which handleError()    *)
(* tells two kinds apart                                                    *)
Fatal == -1   \* EPIPE, ECONNRESET, EBADF, ENOTCONN and the unknown ones
Retry == -2   \* EAGAIN, ENOBUFS, EINTR

(* constructor, then Established() starts the coroutine *)
Init ==
    /\ output_buffer = EmptyQueue
    /\ temp_data = <<>>
    /\ is_sending = FALSE
    /\ is_error = FALSE
    /\ write_handle = FALSE
    /\ holder = FALSE
    /\ read_handle = FALSE
    /\ closing = FALSE
    /\ sqe = "none"
    /\ sqe_open = TRUE
    /\ res = 0
    /\ pc = "co"
    /\ co = "running"
    /\ sends = 0
    /\ appended = 0
    /\ wire = <<>>

-----------------------------------------------------------------------------
OverLoad(q) == q.total_len > HighWater

(* flush() on the buffer q *)
Flush(q) ==
    /\ temp_data' = Batch(q, MaxSlices)
    /\ output_buffer' = AfterBatch(q, MaxSlices)
    /\ sqe' = "prepared"
    /\ is_sending' = TRUE

AlwaysFlushes == TRUE

(* the test in sendInLoop: no request is outstanding *)
MayFlush == ~is_sending

(* sendInLoop(data) with data of length n *)
SendInLoop(n) ==
    LET q == AppendData(output_buffer, appended + 1, n)
    IN  /\ appended' = appended + n
        /\ IF MayFlush
           THEN Flush(q) /\ holder' = TRUE
           ELSE output_buffer' = q /\ UNCHANGED <<temp_data, sqe, is_sending, holder>>

(* where the loop's thread continues when the coroutine stops running *)
AfterCo == CASE pc = "co" -> "loop" [] pc = "co_wclose" -> "wclose" [] pc = "co_rclose" -> "rclose"

LastIsEmpty(frags) == frags # <<>> /\ frags[Len(frags)].pos = frags[Len(frags)].end

(* the coroutine calls send(data) with data of length n *)
Sends(n) ==
    /\ co = "running"
    /\ sends < MaxSends /\ appended + n <= MaxBytes
    /\ n = 0 /\ LastIsEmpty(output_buffer.frags) => EmptyRuns
    /\ sends' = sends + 1
    /\ SendInLoop(n)

(* co_await send(data) that does not suspend: await_ready, await_resume *)
SendReady(n) ==
    /\ Sends(n)
    /\ ~OverLoad(output_buffer')
    /\ UNCHANGED <<is_error, write_handle, sqe_open, res, wire, read_handle, closing, pc, co>>

(* co_await send(data) above the high water mark: await_suspend keeps the handle *)
SendSuspends(n) ==
    /\ Sends(n)
    /\ OverLoad(output_buffer')
    /\ write_handle' = TRUE
    /\ co' = "write"
    /\ pc' = AfterCo
    /\ UNCHANGED <<is_error, sqe_open, res, wire, read_handle, closing>>

(* co_await PrepareToRead() with no data: the handle goes to the read context *)
AwaitRead ==
    /\ co = "running"
    /\ read_handle' = TRUE
    /\ co' = "read"
    /\ pc' = AfterCo
    /\ UNCHANGED <<ctx, kernel, client, closing>>

(* the coroutine reaches its final suspension point *)
Finish ==
    /\ co = "running"
    /\ co' = "done"
    /\ pc' = AfterCo
    /\ UNCHANGED <<ctx, kernel, client, read_handle, closing>>

-----------------------------------------------------------------------------
(* io_uring_submit: the kernel looks the descriptor up *)
Submit ==
    /\ pc = "loop"
    /\ sqe = "prepared"
    /\ sqe' = "inflight"
    /\ sqe_open' = ~closing
    /\ UNCHANGED <<ctx, client, res, wire, read_handle, closing, pc, co>>

(* writev sends a prefix of the iovecs: at least a byte if there is one *)
KernelWrites(n) ==
    /\ sqe = "inflight"
    /\ sqe_open
    /\ n \in 0 .. Bytes(temp_data)
    /\ n = 0 => Bytes(temp_data) = 0
    /\ wire' = wire \o [i \in 1 .. n |-> temp_data[1].pos + i - 1]
    /\ res' = n
    /\ sqe' = "cqe"
    /\ UNCHANGED <<ctx, client, sqe_open, read_handle, closing, pc, co>>

(* EPIPE, ECONNRESET, ..., EBADF for a descriptor that was closed, and       *)
(* possibly the errors after which the write may be repeated                 *)
KernelFails ==
    /\ sqe = "inflight"
    /\ res' \in {Fatal} \cup {r \in {Retry} : RetryErrors /\ sqe_open}
    /\ sqe' = "cqe"
    /\ UNCHANGED <<ctx, client, sqe_open, wire, read_handle, closing, pc, co>>

-----------------------------------------------------------------------------
(* handleClose() *)
HandleClose ==
    /\ closing' = TRUE
    /\ IF closing
       THEN co' = "destroyed" /\ UNCHANGED <<read_handle, write_handle>>
       ELSE /\ co' = IF read_handle \/ write_handle THEN "destroyed" ELSE co
            /\ read_handle' = FALSE
            /\ write_handle' = FALSE

(* on_completion() asserts holder_: the program ends when it is not set.     *)
(* With res_ < 0 and need_close it resumes a waiting coroutine ...           *)
OnFatal ==
    /\ pc = "loop"
    /\ sqe = "cqe" /\ holder
    /\ res = Fatal
    /\ is_error' = TRUE
    /\ is_sending' = FALSE
    /\ sqe' = "none"
    /\ IF write_handle
       THEN pc' = "co_wclose" /\ co' = "running"
       ELSE pc' = "wclose" /\ UNCHANGED co
    /\ UNCHANGED <<output_buffer, temp_data, write_handle, holder, client, sqe_open,
                   res, wire, read_handle, closing>>

(* ... and once that returns, closes the connection and drops the holder *)
OnFatalCloses ==
    /\ pc = "wclose"
    /\ HandleClose
    /\ holder' = FALSE
    /\ is_sending' = FALSE
    /\ pc' = "loop"
    /\ UNCHANGED <<output_buffer, temp_data, is_error, client, kernel>>

NeverResumes(q) == FALSE

(* the test at the end of on_completion() *)
ResumesWriter(q) == write_handle /\ ~OverLoad(q)

GoesIdleStillSending == UNCHANGED <<temp_data, is_sending>> /\ holder' = FALSE /\ sqe' = "none"

(* nothing is left to send: the request and its holder are given up *)
GoesIdle == UNCHANGED temp_data /\ holder' = FALSE /\ is_sending' = FALSE /\ sqe' = "none"

(* on_completion() otherwise: retrieve, flush again or go idle, resume *)
OnCompletion ==
    /\ pc = "loop"
    /\ sqe = "cqe" /\ holder
    /\ res # Fatal
    /\ LET q == IF res = Retry THEN output_buffer ELSE Retrieve(output_buffer, res)
       IN  /\ IF q.total_len > 0
              THEN Flush(q) /\ UNCHANGED holder
              ELSE GoesIdle /\ output_buffer' = q
           /\ IF ResumesWriter(q)
              THEN write_handle' = FALSE /\ co' = "running" /\ pc' = "co"
              ELSE UNCHANGED <<write_handle, co, pc>>
    /\ UNCHANGED <<is_error, client, sqe_open, res, wire, read_handle, closing>>

-----------------------------------------------------------------------------
(* ReadContext::on_completion() with data resumes the coroutine *)
ReadCompletes ==
    /\ pc = "loop"
    /\ read_handle
    /\ read_handle' = FALSE
    /\ co' = "running"
    /\ pc' = "co"
    /\ UNCHANGED <<ctx, kernel, client, closing>>

(* ReadContext::on_completion() with a fatal error: resumes a waiting coroutine ... *)
ReadFails ==
    /\ pc = "loop"
    /\ ~closing
    /\ IF read_handle
       THEN pc' = "co_rclose" /\ co' = "running"
       ELSE pc' = "rclose" /\ UNCHANGED co
    /\ UNCHANGED <<ctx, kernel, client, read_handle, closing>>

(* ... and closes *)
ReadFailsCloses ==
    /\ pc = "rclose"
    /\ HandleClose
    /\ pc' = "loop"
    /\ UNCHANGED <<output_buffer, temp_data, is_sending, is_error, holder, kernel, client>>

-----------------------------------------------------------------------------
Kernel == KernelFails \/ \E n \in 0 .. MaxBytes : KernelWrites(n)

Next ==
    \/ \E n \in SendLens : SendReady(n) \/ SendSuspends(n)
    \/ AwaitRead \/ Finish
    \/ Kernel
    \/ Submit \/ OnCompletion \/ OnFatal \/ OnFatalCloses
    \/ ReadCompletes \/ ReadFails \/ ReadFailsCloses

Spec == Init /\ [][Next]_vars

(* The kernel goes on; a coroutine does not run for ever without waiting;   *)
(* and the loop handles completions in the order of the ring and submits in *)
(* every turn, so that other completions cannot keep it from this one       *)
(* (strong fairness: it cannot while a coroutine runs).  Nothing is assumed *)
(* of the peer.                                                             *)
Fairness ==
    /\ SF_vars(Submit)
    /\ SF_vars(OnFatal \/ OnCompletion)
    /\ WF_vars(OnFatalCloses \/ ReadFailsCloses)
    /\ WF_vars(Kernel)
    /\ WF_vars(AwaitRead \/ Finish)

FairSpec == Spec /\ Fairness

-----------------------------------------------------------------------------
TypeOK ==
    /\ output_buffer \in [frags : Seq(Fragments), curr : Nat \ {0}, total_len : Nat]
    /\ temp_data \in Seq(Fragments)
    /\ is_sending \in BOOLEAN /\ is_error \in BOOLEAN
    /\ write_handle \in BOOLEAN /\ read_handle \in BOOLEAN
    /\ holder \in BOOLEAN /\ closing \in BOOLEAN
    /\ sqe \in {"none", "prepared", "inflight", "cqe"}
    /\ sqe_open \in BOOLEAN
    /\ res \in Int
    /\ pc \in CoPcs \cup {"loop", "wclose", "rclose"}
    /\ co \in {"running", "read", "write", "done", "destroyed"}
    /\ sends \in Nat /\ appended \in Nat
    /\ wire \in Seq(Nat)

(* A request that is prepared, in the kernel or completed keeps its         *)
(* connection alive through holder_, and is_sending_ says so: on_completion *)
(* asserts holder_ (WriteContext.cc:97), and sendInLoop relies on           *)
(* is_sending_ to issue one request at a time.  The one way out of it is a  *)
(* fatal error whose handler closes the connection: a coroutine that it     *)
(* resumes and that sends again makes a request which that handler then     *)
(* forgets (WriteContext.cc:106-111).                                       *)
SqeHeld ==
    /\ is_sending => sqe # "none" /\ holder
    /\ sqe # "none" => (is_sending /\ holder) \/ (closing /\ is_error)

(* flush() always has something to hand over: the assertion of              *)
(* WriteContext.cc:30.                                                      *)
NonEmptyBatch == sqe # "none" => temp_data # <<>>

(* While a request is outstanding its iovecs are the oldest fragments of    *)
(* the queue, still unsent and still owned by it (guard_), and curr_ is     *)
(* just behind them; so retrieve(res_) removes exactly what was written.    *)
(* After a fatal error there is nothing to retrieve any more.               *)
BatchIsFront ==
    sqe # "none" /\ ~is_error =>
        /\ temp_data = SubSeq(output_buffer.frags, 1, Len(temp_data))
        /\ output_buffer.curr = Len(temp_data) + 1

(* The loop of retrieve (SendQueue.hpp:148-163) ends after an iteration per  *)
(* fragment at the latest and computes the closed form that the model uses,  *)
(* on every reachable buffer and for every length, empty fragments included. *)
RetrieveIsLoop ==
    \A len \in 0 .. MaxBytes + 1 :
        LET q == output_buffer
            r == RetrieveLoop(q.frags, len)[Len(q.frags)]
        IN  /\ RetrieveStep(r, len) = r
            /\ Retrieve(q, len) = [frags |-> r.frags,
                                   curr |-> IF q.frags = <<>> THEN q.curr ELSE 1,
                                   total_len |-> q.total_len - r.written]

(* A suspended sender is resumed or destroyed in the end. *)
WriterResumes == (co = "write") ~> (co # "write")

(* The connection is a byte stream: in order, nothing lost or repeated, and *)
(* everything is written unless the connection closes.                      *)
Stream == INSTANCE ByteStream WITH sent <- appended, closed <- closing

ImplementsByteStream == Stream!FairSpec
=============================================================================
