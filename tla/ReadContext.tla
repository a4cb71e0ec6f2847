----------------------------- MODULE ReadContext -----------------------------
(***************************************************************************)
(* The receiving half of the connections of one loop                       *)
(* (src/src/ReadContext.cc, submitRead and RecvDataAwaiter in              *)
(* src/src/TcpConnection.cc): multishot receive requests that share the    *)
(* loop's buffer ring (src/src/ChunkPoolManagerInput.cc), cancelled above  *)
(* the high water mark and armed again when the business coroutine has     *)
(* emptied the input buffer.  The coroutines run on the loop's thread.     *)
(*                                                                         *)
(* Each coroutine is any program that reads, waits for data, for room in   *)
(* the output buffer ("write") or for something else ("other": a timer),   *)
(* and finishes; it runs on the stack of the handler that resumed it.      *)
(***************************************************************************)
EXTENDS InputChainBuffer, FiniteSets

CONSTANTS
    Conns,           \* connections
    Chunks,          \* chunks of the buffer ring
    ChunkSize,       \* CHUNK_SIZE
    HighWater,       \* high_water_mark_
    HighWaterChunk,  \* high_water_mark_chunk_
    MaxArrive        \* bound on the bytes that arrive at a connection

ASSUME ChunkSizeAssumption == ChunkSize \in Nat \ {0}
ASSUME MarksAssumption == HighWater \in Nat /\ HighWaterChunk \in Nat
ASSUME MaxArriveAssumption == MaxArrive \in Nat

VARIABLES
    status,       \* status_ of each read context
    holder,       \* is holder_ set?
    read_handle,  \* is read_handle_ set?
    input_buffer,
    closing,      \* TcpConnection::closing_
    freed,        \* has the connection been destroyed?
    sqe,          \* the read request: none, prepared, armed
    sqe_open,     \* was the socket open when the request reached the kernel?
    cancel,       \* has the kernel been asked to cancel it?
    cqes,         \* its completions that have not been handled
    ring,         \* chunks the kernel may receive into
    arrived,      \* bytes received by the kernel
    taken,        \* bytes consumed by the coroutine
    co,           \* the business coroutine
    pc,           \* what the loop's thread is doing
    cur           \* for which connection

ctx == <<status, holder, read_handle, input_buffer>>
request == <<sqe, sqe_open, cancel, cqes>>
thread == <<co, pc, cur>>
vars == <<ctx, closing, freed, request, ring, arrived, taken, thread>>

(* res_ other than a number of bytes, as handleError() tells them apart *)
Fatal == 0        \* end of stream, ECONNRESET, EBADF, ...
NoBufs == -1      \* ENOBUFS
Canceled == -2    \* ECANCELED
Again == -3       \* EAGAIN

Completion == [res : Int, id : Chunks \cup {0}, pos : Nat, more : BOOLEAN]

(* the chunks that ChunkPoolManagerInput puts in the new ring *)
FilledRing == Chunks

(* constructor; Established() will start the coroutine *)
Init ==
    /\ status = [c \in Conns |-> "STOPED"]
    /\ holder = [c \in Conns |-> FALSE]
    /\ read_handle = [c \in Conns |-> FALSE]
    /\ input_buffer = [c \in Conns |-> EmptyBuffer]
    /\ closing = [c \in Conns |-> FALSE]
    /\ freed = [c \in Conns |-> FALSE]
    /\ sqe = [c \in Conns |-> "none"]
    /\ sqe_open = [c \in Conns |-> TRUE]
    /\ cancel = [c \in Conns |-> FALSE]
    /\ cqes = [c \in Conns |-> <<>>]
    /\ ring = FilledRing
    /\ arrived = [c \in Conns |-> 0]
    /\ taken = [c \in Conns |-> 0]
    /\ co = [c \in Conns |-> "other"]
    /\ pc = "loop"
    /\ cur \in Conns

-----------------------------------------------------------------------------
OverLoad(b) == b.total_len > HighWater \/ Len(b.chain) > HighWaterChunk

IsEmpty(c) == input_buffer[c].total_len = 0

Runs(c) == cur = c /\ co[c] = "running"

(* where the loop's thread continues when the coroutine stops running *)
AfterCo == IF pc = "co_close" THEN "close" ELSE "loop"

(* TcpConnection::submitRead *)
SubmitRead(c) ==
    /\ holder' = [holder EXCEPT ![c] = TRUE]
    /\ sqe' = [sqe EXCEPT ![c] = "prepared"]
    /\ status' = [status EXCEPT ![c] = "READING"]

(* read(len) or retrieve(len): chunks that become empty go back to the ring *)
Read(c, len) ==
    /\ Runs(c)
    /\ len <= input_buffer[c].total_len
    /\ input_buffer' = [input_buffer EXCEPT ![c] = Remove(@, len)]
    /\ ring' = ring \cup ReturnedChunks(input_buffer[c], len)
    /\ taken' = [taken EXCEPT ![c] = @ + len]
    /\ UNCHANGED <<status, holder, read_handle, closing, freed, request, arrived, thread>>

(* the test in await_suspend *)
SubmitsWhenSuspended(c) == status[c] = "STOPED"

(* co_await PrepareToRead() on an empty buffer; on a closed connection, and  *)
(* when there is data, it returns at once                                    *)
PrepareToRead(c) ==
    /\ Runs(c)
    /\ ~closing[c]
    /\ IsEmpty(c)
    /\ read_handle' = [read_handle EXCEPT ![c] = TRUE]
    /\ IF SubmitsWhenSuspended(c) THEN SubmitRead(c) ELSE UNCHANGED <<holder, sqe, status>>
    /\ co' = [co EXCEPT ![c] = "read"]
    /\ pc' = AfterCo
    /\ UNCHANGED <<input_buffer, closing, freed, sqe_open, cancel, cqes, ring, arrived, taken, cur>>

(* the coroutine waits for room in the output buffer (not on a closed        *)
(* connection), for something else, or reaches its final suspension point    *)
AwaitOther(c) ==
    /\ Runs(c)
    /\ \E state \in {"write", "other", "done"} :
         /\ state = "write" => ~closing[c]
         /\ co' = [co EXCEPT ![c] = state]
    /\ pc' = AfterCo
    /\ UNCHANGED <<ctx, closing, freed, request, ring, arrived, taken, cur>>

(* what it waited for happens, or Established() *)
ResumeOther(c) ==
    /\ pc = "loop"
    /\ co[c] \in {"other", "write"}
    /\ co' = [co EXCEPT ![c] = "running"]
    /\ pc' = "co"
    /\ cur' = c
    /\ UNCHANGED <<ctx, closing, freed, request, ring, arrived, taken>>

-----------------------------------------------------------------------------
(* io_uring_submit: the kernel looks the descriptor up *)
Submit(c) ==
    /\ pc = "loop"
    /\ sqe[c] = "prepared"
    /\ sqe' = [sqe EXCEPT ![c] = "armed"]
    /\ sqe_open' = [sqe_open EXCEPT ![c] = ~closing[c]]
    /\ UNCHANGED <<ctx, closing, freed, cancel, cqes, ring, arrived, taken, thread>>

(* the kernel posts a completion; without IORING_CQE_F_MORE it is the last one *)
Post(c, cqe) ==
    /\ cqes' = [cqes EXCEPT ![c] = Append(@, cqe)]
    /\ sqe' = [sqe EXCEPT ![c] = IF cqe.more THEN @ ELSE "none"]
    /\ cancel' = [cancel EXCEPT ![c] = @ /\ cqe.more]

KernelReceives(c, id, len, more) ==
    /\ sqe[c] = "armed" /\ sqe_open[c]
    /\ id \in ring
    /\ arrived[c] + len <= MaxArrive
    /\ Post(c, [res |-> len, id |-> id, pos |-> arrived[c] + 1, more |-> more])
    /\ ring' = ring \ {id}
    /\ arrived' = [arrived EXCEPT ![c] = @ + len]
    /\ UNCHANGED <<ctx, closing, freed, sqe_open, taken, thread>>

KernelEnds(c, why) ==
    /\ sqe[c] = "armed"
    /\ \/ why = Fatal
       \/ why = NoBufs /\ ring = {} /\ sqe_open[c] /\ arrived[c] < MaxArrive
       \/ why = Canceled /\ cancel[c]
       \/ why = Again /\ sqe_open[c]
    /\ Post(c, [res |-> why, id |-> 0, pos |-> 0, more |-> FALSE])
    /\ UNCHANGED <<ctx, closing, freed, sqe_open, ring, arrived, taken, thread>>

-----------------------------------------------------------------------------

(* handleClose(): a coroutine whose handle is in a context is destroyed; the *)
(* second call destroys it wherever it waits                                 *)
HandleClose(c) ==
    /\ closing' = [closing EXCEPT ![c] = TRUE]
    /\ co' = [co EXCEPT ![c] = IF closing[c] \/ read_handle[c] \/ @ = "write"
                               THEN "destroyed" ELSE @]
    /\ read_handle' = [read_handle EXCEPT ![c] = closing[c] /\ @]

(* the test before submitCancel *)
CancelsRead(c, b) == OverLoad(b) /\ status[c] # "CANCELING"

(* the end of on_completion(): a waiting coroutine is resumed *)
ResumeReader(c) ==
    IF read_handle[c]
    THEN /\ read_handle' = [read_handle EXCEPT ![c] = FALSE]
         /\ co' = [co EXCEPT ![c] = "running"]
         /\ pc' = "co"
         /\ cur' = c
    ELSE UNCHANGED <<read_handle, thread>>

(* on_completion() with F_MORE, data appended; submitCancel reaches the      *)
(* kernel before it returns                                                  *)
OnData(c) ==
    LET cqe == Head(cqes[c])
        b == AppendChunk(input_buffer[c], cqe.id, cqe.pos, cqe.res)
    IN  /\ pc = "loop"
        /\ cqes[c] # <<>>
        /\ cqe.res > 0 /\ cqe.more
        /\ cqes' = [cqes EXCEPT ![c] = Tail(@)]
        /\ input_buffer' = [input_buffer EXCEPT ![c] = b]
        /\ IF CancelsRead(c, b)
           THEN /\ status' = [status EXCEPT ![c] = "CANCELING"]
                /\ cancel' = [cancel EXCEPT ![c] = sqe[c] = "armed"]
           ELSE UNCHANGED <<status, cancel>>
        /\ ResumeReader(c)
        /\ UNCHANGED <<holder, closing, freed, sqe, sqe_open, ring, arrived, taken>>

StopsUnlessReading(c, b) == status[c] = "CANCELING"

(* does the last completion leave the context stopped?  It does when a       *)
(* cancel was submitted, be it for this very completion                      *)
StopsReading(c, b) == status[c] = "CANCELING" \/ CancelsRead(c, b)

StopReadKeepsStatus(c) ==
    /\ holder' = [holder EXCEPT ![c] = FALSE]
    /\ UNCHANGED <<status, sqe>>

StopRead(c) ==
    /\ status' = [status EXCEPT ![c] = "STOPED"]
    /\ holder' = [holder EXCEPT ![c] = FALSE]
    /\ UNCHANGED sqe

(* on_completion() without F_MORE and without a fatal error: stop, or submit *)
(* the request again                                                         *)
OnLast(c) ==
    LET cqe == Head(cqes[c])
        b == IF cqe.res > 0 THEN AppendChunk(input_buffer[c], cqe.id, cqe.pos, cqe.res)
             ELSE input_buffer[c]
    IN  /\ pc = "loop"
        /\ cqes[c] # <<>>
        /\ cqe.res # Fatal /\ ~cqe.more
        /\ cqes' = [cqes EXCEPT ![c] = Tail(@)]
        /\ input_buffer' = [input_buffer EXCEPT ![c] = b]
        /\ IF StopsReading(c, b) THEN StopRead(c) ELSE SubmitRead(c)
        /\ ResumeReader(c)
        /\ UNCHANGED <<closing, freed, sqe_open, cancel, ring, arrived, taken>>

(* on_completion() with a fatal error: a waiting coroutine is resumed first ... *)
OnFatal(c) ==
    /\ pc = "loop"
    /\ cqes[c] # <<>>
    /\ Head(cqes[c]).res = Fatal
    /\ cqes' = [cqes EXCEPT ![c] = Tail(@)]
    /\ cur' = c
    /\ IF read_handle[c]
       THEN co' = [co EXCEPT ![c] = "running"] /\ pc' = "co_close"
       ELSE UNCHANGED co /\ pc' = "close"
    /\ UNCHANGED <<ctx, closing, freed, sqe, sqe_open, cancel, ring, arrived, taken>>

(* ... then the connection is closed and the holder dropped *)
OnFatalCloses(c) ==
    /\ pc = "close"
    /\ cur = c
    /\ HandleClose(c)
    /\ holder' = [holder EXCEPT ![c] = FALSE]
    /\ status' = [status EXCEPT ![c] = "STOPED"]
    /\ pc' = "loop"
    /\ UNCHANGED <<input_buffer, freed, request, ring, arrived, taken, cur>>

(* handleClose() from the write context or from a queued Destroyed() (of the *)
(* server's destructor, or of an awaiter that has found the connection       *)
(* closed)                                                                   *)
CloseElsewhere(c) ==
    /\ pc = "loop"
    /\ HandleClose(c)
    /\ UNCHANGED <<status, holder, input_buffer, freed, request, ring, arrived, taken, pc, cur>>

(* the last reference is dropped: ~TcpConnection, ~InputChainBuffer *)
Free(c) ==
    /\ pc = "loop"
    /\ closing[c] /\ ~holder[c] /\ co[c] = "destroyed" /\ ~freed[c]
    /\ freed' = [freed EXCEPT ![c] = TRUE]
    /\ ring' = ring \cup AllChunks(input_buffer[c])
    /\ input_buffer' = [input_buffer EXCEPT ![c] = EmptyBuffer]
    /\ UNCHANGED <<status, holder, read_handle, closing, request, arrived, taken, thread>>

-----------------------------------------------------------------------------
KernelStep(c) ==
    \/ \E id \in Chunks, len \in 1 .. ChunkSize, more \in BOOLEAN : KernelReceives(c, id, len, more)
    \/ \E why \in {Fatal, NoBufs, Canceled, Again} : KernelEnds(c, why)

CoStops(c) == PrepareToRead(c) \/ AwaitOther(c)

Next ==
    \E c \in Conns :
        \/ \E len \in 1 .. MaxArrive : Read(c, len)
        \/ CoStops(c) \/ ResumeOther(c)
        \/ Submit(c) \/ KernelStep(c)
        \/ OnData(c) \/ OnLast(c) \/ OnFatal(c) \/ OnFatalCloses(c)
        \/ CloseElsewhere(c) \/ Free(c)

Spec == Init /\ [][Next]_vars

(* The loop submits and handles the completions of the ring in order (other *)
(* connections cannot starve one: strong fairness), the kernel carries out  *)
(* a cancel and fails a request made on a closed descriptor (EBADF), a      *)
(* coroutine does not run for ever without waiting.  A request in the       *)
(* kernel when its socket is closed need not end: handleClose only closes   *)
(* the descriptor.                                                          *)
Fairness ==
    \A c \in Conns :
        /\ SF_vars(Submit(c))
        /\ SF_vars(OnData(c) \/ OnLast(c) \/ OnFatal(c))
        /\ WF_vars(OnFatalCloses(c))
        /\ WF_vars(cancel[c] /\ KernelEnds(c, Canceled))
        /\ WF_vars(~sqe_open[c] /\ KernelEnds(c, Fatal))
        /\ WF_vars(CoStops(c))
        /\ SF_vars(Free(c))

FairSpec == Spec /\ Fairness

-----------------------------------------------------------------------------
TypeOK ==
    /\ status \in [Conns -> {"STOPED", "READING", "CANCELING"}]
    /\ holder \in [Conns -> BOOLEAN]
    /\ read_handle \in [Conns -> BOOLEAN]
    /\ input_buffer \in [Conns -> [chain : Seq([id : Chunks, pos : Nat, end : Nat]),
                                   total_len : Nat]]
    /\ closing \in [Conns -> BOOLEAN]
    /\ freed \in [Conns -> BOOLEAN]
    /\ sqe \in [Conns -> {"none", "prepared", "armed"}]
    /\ sqe_open \in [Conns -> BOOLEAN]
    /\ cancel \in [Conns -> BOOLEAN]
    /\ cqes \in [Conns -> Seq(Completion)]
    /\ ring \subseteq Chunks
    /\ arrived \in [Conns -> Nat]
    /\ taken \in [Conns -> Nat]
    /\ co \in [Conns -> {"running", "read", "write", "other", "done", "destroyed"}]
    /\ pc \in {"loop", "co", "co_close", "close"}
    /\ cur \in Conns

(* is a request of c on its way, in the kernel, or completed and not handled? *)
Outstanding(c) == sqe[c] # "none" \/ cqes[c] # <<>>

(* is the thread inside the error path of c's completion? *)
InErrorPath(c) == pc \in {"co_close", "close"} /\ cur = c

(* A coroutine, a completion or a cancel never makes a second receive       *)
(* request while one is outstanding, and a context that is not STOPED has   *)
(* one: status_ tells exactly that, which on_completion asserts             *)
(* (ReadContext.cc:87) and await_suspend relies on.                         *)
StatusMatchesRequest ==
    \A c \in Conns : ~InErrorPath(c) => (status[c] # "STOPED" <=> Outstanding(c))

(* As long as a request is outstanding holder_ keeps the connection alive   *)
(* (the assertion of ReadContext.cc:84), so it is never destroyed under it. *)
RequestHeld == \A c \in Conns : Outstanding(c) => holder[c] /\ ~freed[c]

(* The last completion of a request, and only that one, lacks F_MORE: a new *)
(* request is never submitted before the old one's completions are handled. *)
OneRequest ==
    \A c \in Conns : \A i \in 1 .. Len(cqes[c]) :
        cqes[c][i].more <=> (i < Len(cqes[c]) \/ sqe[c] = "armed")

(* the completions of q with data, as they will be appended to the buffer:  *)
(* all of them but a last one that only ends the request                    *)
Received(q) == IF q # <<>> /\ q[Len(q)].res <= 0 THEN Len(q) - 1 ELSE Len(q)

Data(q) ==
    [i \in 1 .. Received(q) |-> [id |-> q[i].id, pos |-> q[i].pos, end |-> q[i].pos + q[i].res]]

Ids(chunks) == {chunks[i].id : i \in DOMAIN chunks}

Distinct(chunks) == \A i, j \in DOMAIN chunks : chunks[i].id = chunks[j].id => i = j

(* the chunks that wait for connection c, in its buffer or in completions *)
Owned(c) == Ids(input_buffer[c].chain) \cup Ids(Data(cqes[c]))

(* No chunk is lost or shared: each is in the kernel's ring, or once in one *)
(* completion, or once in one connection's input buffer (append, pop_front, *)
(* returnOneChunk, ~InputChainBuffer).                                      *)
ChunksConserved ==
    /\ ring \cup UNION {Owned(c) : c \in Conns} = Chunks
    /\ \A c \in Conns :
         /\ Owned(c) \cap ring = {}
         /\ \A d \in Conns : d # c => Owned(c) \cap Owned(d) = {}
         /\ Distinct(input_buffer[c].chain) /\ Distinct(Data(cqes[c]))
         /\ Ids(input_buffer[c].chain) \cap Ids(Data(cqes[c])) = {}

(* the chunks hold the positions from lo up to hi - 1, in order *)
InSequence(chunks, lo, hi) ==
    /\ \A i \in DOMAIN chunks :
         /\ chunks[i].pos = (IF i = 1 THEN lo ELSE chunks[i - 1].end)
         /\ chunks[i].pos < chunks[i].end
    /\ hi = (IF chunks = <<>> THEN lo ELSE chunks[Len(chunks)].end)

(* Bytes are consumed in the order in which they arrived, none twice and    *)
(* none lost, across cancels, resubmissions and partial reads: the buffer   *)
(* has the total_len_ oldest bytes that the coroutine has not consumed, and *)
(* the completions have the others.                                         *)
BytesInOrder ==
    \A c \in Conns : ~freed[c] =>
        LET next == taken[c] + 1 + input_buffer[c].total_len
        IN  /\ InSequence(input_buffer[c].chain, taken[c] + 1, next)
            /\ InSequence(Data(cqes[c]), next, arrived[c] + 1)

(* Backpressure: a connection above one of its high water marks is not      *)
(* being read, or its read is being cancelled.                              *)
OverLoadStopsReading ==
    \A c \in Conns : OverLoad(input_buffer[c]) => status[c] # "READING"

(* A coroutine waiting in PrepareToRead() is never forgotten: a request is  *)
(* outstanding whose completion will look at read_handle_.                  *)
NoStuckReader ==
    \A c \in Conns : read_handle[c] /\ ~InErrorPath(c) => co[c] = "read" /\ Outstanding(c)

(* ReadContext.cc:121-122: a read that ended with ENOBUFS is not submitted  *)
(* again until the user has consumed data.                                  *)
NoBufsPauses ==
    [][\A c \in Conns :
         /\ cqes[c] # <<>>
         /\ Head(cqes[c]).res = NoBufs
         /\ cqes'[c] = Tail(cqes[c])
         => status'[c] = "STOPED"]_vars

(* A cancel submitted above the high water mark comes to an end.            *)
CancelEnds == \A c \in Conns : (status[c] = "CANCELING") ~> (status[c] # "CANCELING")

=============================================================================
