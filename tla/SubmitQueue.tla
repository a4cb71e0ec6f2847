----------------------------- MODULE SubmitQueue -----------------------------
(***************************************************************************)
(* The submission side of a loop (src/src/IoUringLoop.cc): the entries of  *)
(* the submission ring, the low-water mark below which requests go to      *)
(* waiting_submit_queue_, and doingSubmitWaitingTask, which takes them     *)
(* out again once per turn of the loop.                                    *)
(*                                                                         *)
(* Read, write and accept contexts differ only in the entry they prepare;  *)
(* each has at most one request under way (is_reading_, is_writing_,       *)
(* is_accepting_).  io_uring_submit empties the ring: the kernel takes     *)
(* every entry.                                                            *)
(***************************************************************************)
EXTENDS Integers, Sequences

CONSTANTS
    Contexts,    \* the I/O contexts of the loop's connections and acceptor
    Wakeup,      \* the loop's own context, for the read of the eventfd
    RingSize,    \* entries of the submission ring
    LowWater,    \* sqe_low_water_mark_
    PerTurn,     \* most requests that the handlers of one turn make
    MaxDrain     \* max_process_per_loop

ASSUME RingAssumption == RingSize \in Nat /\ LowWater \in 1 .. RingSize
ASSUME WakeupAssumption == Wakeup \notin Contexts
ASSUME TurnAssumption == PerTurn \in Nat /\ MaxDrain \in Nat \ {0}

VARIABLES
    phase,     \* where the loop is in its turn
    used,      \* prepared entries of the ring
    ctx,       \* the state of each context's request
    waiting,   \* waiting_submit_queue_
    count,     \* requests of this turn's handlers, or processed in the drain
    noSqe      \* has _submitReadMultishut, ... found no entry?

sqVars == <<phase, used, ctx, waiting, count, noSqe>>

AllContexts == Contexts \cup {Wakeup}

(* loop() has prepared the first read of the eventfd and submitted it *)
SqInit ==
    /\ phase = "handlers"
    /\ used = 0
    /\ ctx = [c \in AllContexts |-> IF c = Wakeup THEN "kernel" ELSE "idle"]
    /\ waiting = <<>>
    /\ count = 0
    /\ noSqe = FALSE

RemainedSqe == RingSize - used

(* the kernel takes the prepared requests *)
Taken == [c \in AllContexts |-> IF ctx[c] = "prepared" THEN "kernel" ELSE ctx[c]]

-----------------------------------------------------------------------------
(* _submitReadMultishut, _submitWriteMsg, _submitAcceptMultishut *)
Prepare(c) ==
    /\ ctx' = [ctx EXCEPT ![c] = "prepared"]
    /\ used' = IF used < RingSize THEN used + 1 ELSE used
    /\ noSqe' = (noSqe \/ used = RingSize)

NeverBelow(remained) == FALSE

(* the test of submitReadMultishut, submitWriteMsg and submitAcceptMultishut *)
BelowMark(remained) == remained < LowWater

(* waiting_submit_queue_.emplace *)
Queued(c) == Append(waiting, c)

(* the three of them *)
SubmitRequest(c) ==
    /\ ctx[c] = "idle"
    /\ \/ /\ BelowMark(RemainedSqe)
          /\ waiting' = Queued(c)
          /\ ctx' = [ctx EXCEPT ![c] = "waiting"]
          /\ UNCHANGED <<used, noSqe>>
       \/ /\ ~BelowMark(RemainedSqe)
          /\ Prepare(c)
          /\ UNCHANGED waiting

(* a completion handler or timer makes a request *)
HandlerSubmits(c) ==
    /\ phase = "handlers"
    /\ count < PerTurn
    /\ count' = count + 1
    /\ SubmitRequest(c)
    /\ UNCHANGED phase

(* a functor makes one: resumed coroutines, new connections *)
FunctorSubmits(c) ==
    /\ phase = "functors"
    /\ SubmitRequest(c)
    /\ UNCHANGED <<phase, count>>

(* submitCancel: a forced entry, and io_uring_submit at once *)
SubmitCancel(c) ==
    /\ phase = "handlers"
    /\ ctx[c] = "kernel"
    /\ used' = 0
    /\ ctx' = Taken
    /\ UNCHANGED <<phase, waiting, count, noSqe>>

(* getIoUringSqe(true) submits a full ring before it takes an entry *)
UsedForced == IF used = RingSize THEN 1 ELSE used + 1

(* on_completion of the eventfd's read prepares the next one *)
Rearm ==
    /\ phase = "handlers"
    /\ ctx[Wakeup] = "kernel"
    /\ used' = UsedForced
    /\ ctx' = [(IF used = RingSize THEN Taken ELSE ctx) EXCEPT ![Wakeup] = "prepared"]
    /\ UNCHANGED <<phase, waiting, count, noSqe>>

(* the handler of a final completion *)
Complete(c) ==
    /\ phase = "handlers"
    /\ ctx[c] = "kernel"
    /\ ctx' = [ctx EXCEPT ![c] = "idle"]
    /\ UNCHANGED <<phase, used, waiting, count, noSqe>>

-----------------------------------------------------------------------------
BeginDrain ==
    /\ phase = "handlers"
    /\ phase' = "drain"
    /\ count' = 0
    /\ UNCHANGED <<used, ctx, waiting, noSqe>>

DrainsEmptyRing == waiting # <<>> /\ used = 0 /\ count < MaxDrain

(* the while condition of doingSubmitWaitingTask *)
MayDrain == waiting # <<>> /\ RemainedSqe > LowWater /\ count < MaxDrain

KeepsFront == waiting

(* waiting_submit_queue_.pop() *)
WithoutFront == Tail(waiting)

DrainOne ==
    /\ phase = "drain"
    /\ MayDrain
    /\ Prepare(Head(waiting))
    /\ waiting' = WithoutFront
    /\ count' = count + 1
    /\ UNCHANGED phase

EndDrain ==
    /\ phase = "drain"
    /\ ~MayDrain
    /\ phase' = "functors"
    /\ count' = 0
    /\ UNCHANGED <<used, ctx, waiting, noSqe>>

(* the next turn: io_uring_submit, then the completions, or the wait for one *)
(* and its timeout                                                           *)
NextTurn ==
    /\ phase = "functors"
    /\ phase' = "handlers"
    /\ used' = 0
    /\ ctx' = Taken
    /\ UNCHANGED <<waiting, count, noSqe>>

-----------------------------------------------------------------------------
TurnStep == BeginDrain \/ DrainOne \/ EndDrain \/ NextTurn

SqNext ==
    \/ \E c \in Contexts : HandlerSubmits(c) \/ FunctorSubmits(c) \/ SubmitCancel(c) \/ Complete(c)
    \/ Rearm
    \/ TurnStep

SqSpec == SqInit /\ [][SqNext]_sqVars

(* The loop keeps turning: its wait ends after kPollTimeS at the latest, and *)
(* a turn's handlers and functors come to an end.                            *)
SqFairSpec == SqSpec /\ WF_sqVars(TurnStep)

-----------------------------------------------------------------------------
SqTypeOK ==
    /\ phase \in {"handlers", "drain", "functors"}
    /\ used \in 0 .. RingSize
    /\ ctx \in [AllContexts -> {"idle", "waiting", "prepared", "kernel"}]
    /\ waiting \in Seq(Contexts)
    /\ count \in Nat
    /\ noSqe \in BOOLEAN

(* "the sqe should not be nullptr" (IoUringLoop.cc:90, 112, 124): with a     *)
(* low-water mark of at least one, a direct request and a drained one always *)
(* find a free entry, however requests, cancels, wakeups and drains mix.     *)
SqeAvailable == ~noSqe

(* A context is in waiting_submit_queue_ exactly while its request waits,    *)
(* and once: no request is lost or submitted twice by the detour.            *)
QueuedOnce ==
    /\ \A c \in Contexts : ctx[c] = "waiting" <=> \E i \in DOMAIN waiting : waiting[i] = c
    /\ \A i, j \in DOMAIN waiting : waiting[i] = waiting[j] => i = j

(* The waiting requests keep their order: a step takes the oldest away or    *)
(* adds a new youngest (submitReadMultishut, doingSubmitWaitingTask).        *)
FirstComeFirstServed ==
    [][waiting' # waiting => \/ waiting # <<>> /\ waiting' = Tail(waiting)
                             \/ \E c \in Contexts : waiting' = Append(waiting, c)]_sqVars

(* A waiting request reaches the kernel, although direct requests may        *)
(* overtake it and although the drain comes before the functors, provided    *)
(* that again and again the handlers leave the ring above the mark.          *)
WaitingReachesKernel ==
    []<>(phase = "drain" /\ count = 0 /\ RemainedSqe > LowWater)
      => \A c \in Contexts : (ctx[c] = "waiting") ~> (ctx[c] = "kernel")
=============================================================================
