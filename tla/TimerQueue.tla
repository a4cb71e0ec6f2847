----------------------------- MODULE TimerQueue -----------------------------
(***************************************************************************)
(* The timers of one loop (src/src/TimerQueue.cc, Timer.cc): addTimer and  *)
(* cancelTimer from the loop's thread and from others, the batch of        *)
(* expired timers that handleRead runs and restarts, and the timeout of    *)
(* the loop's wait.                                                        *)
(*                                                                         *)
(* A timer is its sequence number, 1, 2, ... (the key of the sets is the   *)
(* pair of pointer and number, and a number is never used twice).  One     *)
(* unit of time is the 100 microseconds of howMuchTimeFromNow.  What a     *)
(* callback computes is abstracted, except that it may add and cancel      *)
(* timers; so may completion handlers and functors.                        *)
(***************************************************************************)
EXTENDS Integers, Sequences, FiniteSetsExt, Functions

CONSTANTS
    Threads,       \* threads other than the loop's own
    MaxTimers,     \* bound on the calls of addTimer
    MaxCancels,    \* bound on the calls of cancelTimer
    MaxTime,       \* the clock stops here
    Delays,        \* delays of one-shot timers (0: already due)
    Intervals,     \* intervals of repeating timers
    PollTime       \* kPollTimeS

ASSUME TimerBounds == MaxTimers \in Nat /\ MaxTime \in Nat /\ PollTime \in Nat \ {0}
ASSUME TimerKinds == Delays \subseteq Nat /\ Intervals \subseteq Nat \ {0}

VARIABLES
    now,         \* the monotonic clock
    pc,          \* where the loop's thread is
    wakeAt,      \* when the loop's wait times out
    timer,       \* expiration_ and interval_ (0: one-shot) of the timers created so far
    timer_list,  \* the keys of timer_list_: <<expiration, sequence>>
    active,      \* active_timer_set_
    canceling,   \* canceling_timer_set_
    running,     \* is_running_callback_
    expired,     \* expired_timers of handleRead, in order
    done,        \* how many of them have run
    readAt,      \* the parameter now of handleRead
    pending,     \* queued addTimerInLoop and cancelTimerInLoop
    tasks,       \* those that doingPendingFunctors has still to execute
    inAdd,       \* the timer whose sequence() a thread has yet to read, or 0
    ids,         \* the TimerIds the program holds
    cancels,     \* calls of cancelTimer so far
    canceled,    \* the timers cancelled after they were added
    fired        \* the timers that have run

queue == <<timer_list, active, canceling, running, expired, done, readAt>>
vars == <<now, pc, wakeAt, timer, queue, pending, tasks, inAdd, ids, cancels, canceled, fired>>

Timers == 1 .. Len(timer)
Op(name, t) == [op |-> name, timer |-> t]

Init ==
    /\ now = 0 /\ pc = "poll" /\ wakeAt = 0
    /\ timer = <<>>
    /\ timer_list = {} /\ active = {} /\ canceling = {}
    /\ running = FALSE
    /\ expired = <<>> /\ done = 0 /\ readAt = 0
    /\ pending = <<>> /\ tasks = <<>>
    /\ inAdd = [c \in Threads |-> 0]
    /\ ids = {} /\ cancels = 0 /\ canceled = {} /\ fired = {}

(* addTimerInLoop(t) is still queued *)
AddQueued(t) == Op("add", t) \in Range(pending \o tasks)

(* the Timer object exists *)
Alive(t) == AddQueued(t) \/ t \in active \/ t \in Range(expired)

-----------------------------------------------------------------------------
(* the constructor of Timer: runAt and runAfter give a time and no interval, *)
(* runEveny gives its interval for both                                      *)
NewTimers ==
    {[exp |-> now + d, interval |-> 0] : d \in Delays}
      \cup {[exp |-> now + i, interval |-> i] : i \in Intervals}

Construct(new) == Len(timer) < MaxTimers /\ timer' = Append(timer, new)

(* insert *)
Insert(exp, t) ==
    /\ timer_list' = timer_list \cup {<<exp, t>>}
    /\ active' = active \cup {t}

EraseKeepsEntry(t) == active' = active \ {t} /\ UNCHANGED timer_list

(* erase: nothing changes when the timer is not in active_timer_set_ *)
Erase(t) ==
    /\ active' = active \ {t}
    /\ timer_list' = IF t \in active THEN timer_list \ {<<timer[t].exp, t>>} ELSE timer_list

NeverCanceling(t) == canceling

(* a timer that cannot be erased may be one that handleRead is running *)
CancelingWith(t) == IF t \notin active /\ running THEN canceling \cup {t} ELSE canceling

(* cancelTimerInLoop *)
CancelTimerInLoop(t) ==
    /\ Erase(t)
    /\ canceling' = CancelingWith(t)
    /\ canceled' = IF AddQueued(t) THEN canceled ELSE canceled \cup {t}

InLoopThread == pc \in {"callbacks", "handle", "functors"}

(* addTimer on the loop's thread: runInLoop executes addTimerInLoop at once *)
LoopAdds ==
    /\ InLoopThread
    /\ \E new \in NewTimers : Construct(new) /\ Insert(new.exp, Len(timer'))
    /\ ids' = ids \cup {Len(timer')}
    /\ UNCHANGED <<now, pc, wakeAt, canceling, running, expired, done, readAt, pending, tasks,
                   inAdd, cancels, canceled, fired>>

(* cancelTimer on the loop's thread *)
LoopCancels ==
    /\ InLoopThread
    /\ cancels < MaxCancels
    /\ cancels' = cancels + 1
    /\ \E t \in ids : CancelTimerInLoop(t)
    /\ UNCHANGED <<now, pc, wakeAt, timer, running, expired, done, readAt, pending, tasks,
                   inAdd, ids, fired>>

-----------------------------------------------------------------------------
(* addTimer on another thread up to the queueing; the caller reads the       *)
(* sequence number for the TimerId after that                                *)
AddTimer(c) ==
    /\ inAdd[c] = 0
    /\ \E new \in NewTimers : Construct(new)
    /\ inAdd' = [inAdd EXCEPT ![c] = Len(timer')]
    /\ pending' = Append(pending, Op("add", Len(timer')))
    /\ UNCHANGED <<now, pc, wakeAt, queue, tasks, ids, cancels, canceled, fired>>

(* TimerId(raw_timer_ptr, raw_timer_ptr->sequence()): a timer that is gone   *)
(* may still be read as it was, or its storage is by now another timer's     *)
ReadSequence(c) ==
    /\ inAdd[c] # 0
    /\ \E t \in IF Alive(inAdd[c]) THEN {inAdd[c]} ELSE Timers : ids' = ids \cup {t}
    /\ inAdd' = [inAdd EXCEPT ![c] = 0]
    /\ UNCHANGED <<now, pc, wakeAt, timer, queue, pending, tasks, cancels, canceled, fired>>

(* cancelTimer on another thread *)
CancelTimer(c) ==
    /\ inAdd[c] = 0
    /\ cancels < MaxCancels
    /\ cancels' = cancels + 1
    /\ \E t \in ids : pending' = Append(pending, Op("cancel", t))
    /\ UNCHANGED <<now, pc, wakeAt, timer, queue, tasks, inAdd, ids, canceled, fired>>

Tick ==
    /\ now < MaxTime
    /\ now' = now + 1
    /\ UNCHANGED <<pc, wakeAt, timer, queue, pending, tasks, inAdd, ids, cancels, canceled, fired>>

-----------------------------------------------------------------------------
Earliest == Min({e[1] : e \in timer_list})

SleepsPollTime == PollTime

(* getTimeOutPeriod: the time to the first expiration, at least one unit,   *)
(* but never more than kPollTimeS                                           *)
TimeOutPeriod ==
    IF timer_list = {} THEN PollTime
    ELSE Min({PollTime, Max({1, Earliest - now})})

(* the loop peeks at the completions; it waits when there are none *)
Poll ==
    /\ pc = "poll"
    /\ \/ pc' = "timers" /\ UNCHANGED wakeAt
       \/ pc' = "waiting" /\ wakeAt' = now + TimeOutPeriod
    /\ UNCHANGED <<now, timer, queue, pending, tasks, inAdd, ids, cancels, canceled, fired>>

WaitReturns ==
    /\ pc' = "timers"
    /\ wakeAt' = 0
    /\ UNCHANGED <<now, timer, queue, pending, tasks, inAdd, ids, cancels, canceled, fired>>

(* by ETIME, by the wakeup of a queued functor, or for another completion or *)
(* a signal; a wait that would outlast the modelled time ends with it        *)
WaitTimesOut == pc = "waiting" /\ (now >= wakeAt \/ now = MaxTime) /\ WaitReturns
WaitWoken == pc = "waiting" /\ pending # <<>> /\ WaitReturns
WaitReturnsOther == pc = "waiting" /\ WaitReturns

(* handleRead returns at once when no timer has expired *)
NoneExpired ==
    /\ pc = "timers"
    /\ \A e \in timer_list : e[1] > now
    /\ pc' = "handle"
    /\ UNCHANGED <<now, wakeAt, timer, queue, pending, tasks, inAdd, ids, cancels, canceled, fired>>

(* the order of the keys of timer_list_ *)
Before(d, e) == d[1] < e[1] \/ (d[1] = e[1] /\ d[2] < e[2])

InOrder(entries) == \A i, j \in DOMAIN entries : i < j => Before(entries[i], entries[j])

(* getExpiredTimers: the entries up to upper_bound({now, LLONG_MAX}), in order *)
GetExpiredTimers(due) ==
    /\ timer_list' = timer_list \ due
    /\ \E entries \in [1 .. Cardinality(due) -> due] :
         /\ InOrder(entries)
         /\ expired' = [i \in 1 .. Cardinality(due) |-> entries[i][2]]
    /\ active' = active \ {e[2] : e \in due}

(* handleRead up to the callbacks *)
BeginHandleRead ==
    /\ pc = "timers"
    /\ LET due == {e \in timer_list : e[1] <= now} IN due # {} /\ GetExpiredTimers(due)
    /\ canceling' = {}
    /\ running' = TRUE
    /\ done' = 0
    /\ readAt' = now
    /\ pc' = "callbacks"
    /\ UNCHANGED <<now, wakeAt, timer, pending, tasks, inAdd, ids, cancels, canceled, fired>>

RunsFirstOnly == Len(expired)

(* the loop over expired_timers advances *)
NextExpired == done + 1

(* timers->run() *)
RunTimer ==
    /\ pc = "callbacks"
    /\ done < Len(expired)
    /\ done' = NextExpired
    /\ fired' = fired \cup {expired[done + 1]}
    /\ UNCHANGED <<now, pc, wakeAt, timer, timer_list, active, canceling, running, expired, readAt,
                   pending, tasks, inAdd, ids, cancels, canceled>>

NoTimerRestarts == {}

(* the timers that reset inserts again *)
Restarted == {t \in Range(expired) : timer[t].interval > 0 /\ t \notin canceling}

(* reset, with Timer::restart *)
Reset ==
    /\ timer' = [t \in Timers |-> IF t \in Restarted
                                  THEN [timer[t] EXCEPT !.exp = readAt + timer[t].interval]
                                  ELSE timer[t]]
    /\ timer_list' = timer_list \cup {<<timer'[t].exp, t>> : t \in Restarted}
    /\ active' = active \cup Restarted

(* is_running_callback_ after the callbacks *)
RunningAfter == FALSE

(* the end of handleRead; the timers that were not restarted are destroyed *)
EndHandleRead ==
    /\ pc = "callbacks"
    /\ done = Len(expired)
    /\ Reset
    /\ running' = RunningAfter
    /\ expired' = <<>>
    /\ done' = 0
    /\ readAt' = 0
    /\ pc' = "handle"
    /\ UNCHANGED <<now, wakeAt, canceling, pending, tasks, inAdd, ids, cancels, canceled, fired>>

CopyFunctors == tasks' = pending /\ UNCHANGED pending

(* tasks.swap(pendingFunctors_) *)
SwapFunctors == tasks' = pending /\ pending' = <<>>

(* the completions are handled; doingPendingFunctors takes the queue *)
BeginFunctors ==
    /\ pc = "handle"
    /\ SwapFunctors
    /\ pc' = "functors"
    /\ UNCHANGED <<now, wakeAt, timer, queue, inAdd, ids, cancels, canceled, fired>>

(* addTimerInLoop or cancelTimerInLoop as a functor *)
RunFunctor ==
    /\ pc = "functors"
    /\ tasks # <<>>
    /\ tasks' = Tail(tasks)
    /\ LET t == Head(tasks).timer IN
         IF Head(tasks).op = "add"
           THEN Insert(timer[t].exp, t) /\ UNCHANGED <<canceling, canceled>>
           ELSE CancelTimerInLoop(t)
    /\ UNCHANGED <<now, pc, wakeAt, timer, running, expired, done, readAt, pending, inAdd, ids,
                   cancels, fired>>

EndFunctors ==
    /\ pc = "functors"
    /\ tasks = <<>>
    /\ pc' = "poll"
    /\ UNCHANGED <<now, wakeAt, timer, queue, pending, tasks, inAdd, ids, cancels, canceled, fired>>

-----------------------------------------------------------------------------
LoopStep ==
    \/ Poll \/ WaitTimesOut \/ WaitWoken
    \/ NoneExpired \/ BeginHandleRead \/ RunTimer \/ EndHandleRead
    \/ BeginFunctors \/ RunFunctor \/ EndFunctors

Next ==
    \/ LoopStep \/ WaitReturnsOther
    \/ LoopAdds \/ LoopCancels
    \/ \E c \in Threads : AddTimer(c) \/ ReadSequence(c) \/ CancelTimer(c)
    \/ Tick

Spec == Init /\ [][Next]_vars

(* The loop's thread runs and time passes; nothing is assumed of the other  *)
(* threads.  That a queued functor wakes the loop is shown of IoUringLoop.  *)
FairSpec == Spec /\ WF_vars(LoopStep) /\ WF_vars(Tick)

-----------------------------------------------------------------------------
TypeOK ==
    /\ now \in 0 .. MaxTime
    /\ pc \in {"poll", "waiting", "timers", "callbacks", "handle", "functors"}
    /\ wakeAt \in Nat
    /\ timer \in Seq([exp : Nat, interval : Intervals \cup {0}])
    /\ timer_list \subseteq Nat \X Timers
    /\ active \subseteq Timers /\ canceling \subseteq Timers
    /\ running = (pc = "callbacks")
    /\ expired \in Seq(Timers) /\ done \in 0 .. Len(expired)
    /\ readAt \in 0 .. now
    /\ pending \in Seq([op : {"add", "cancel"}, timer : Timers])
    /\ tasks \in Seq([op : {"add", "cancel"}, timer : Timers])
    /\ inAdd \in [Threads -> Timers \cup {0}]
    /\ ids \subseteq Timers /\ canceled \subseteq Timers /\ fired \subseteq Timers
    /\ cancels \in 0 .. MaxCancels

(* The two indexes agree (the size assertions of TimerQueue.cc, and more):   *)
(* each active timer has one entry in timer_list_, under its own expiration, *)
(* whatever callbacks add and cancel while a batch runs.                     *)
IndexesAgree == timer_list = {<<timer[t].exp, t>> : t \in active}

(* Every timer has one owner: a queued addTimerInLoop, timer_list_ or the    *)
(* batch being run, so the success assertion in insert holds and no          *)
(* callback destroys a timer that is running (addTimer, reset).              *)
OneOwner ==
    /\ \A t \in active : ~AddQueued(t) /\ t \notin Range(expired)
    /\ \A t \in Range(expired) : ~AddQueued(t)
    /\ \A i, j \in 1 .. Len(expired) : expired[i] = expired[j] => i = j

(* cancelTimerInLoop is final for a timer that was added: once the batch     *)
(* that is running, if it is in it, is over, the timer is in no index and    *)
(* never runs again, not even when it cancels itself (canceling_timer_set_). *)
CancelIsFinal ==
    \A t \in canceled : t \notin active /\ (t \in Range(expired) => t \in canceling)

(* No timer is lost: each has an owner until it has run, a repeating one for *)
(* ever, unless it was cancelled, through the hand-overs from the functor to *)
(* timer_list_, to the batch and back (addTimerInLoop, getExpiredTimers,     *)
(* reset).  So what addTimer reads last is there, unless it is a one-shot    *)
(* that has run or a timer that has been cancelled.                          *)
NoTimerLost ==
    \A t \in Timers : Alive(t) \/ t \in canceled \/ (timer[t].interval = 0 /\ t \in fired)

(* "The unique number of the timer, to tell timers apart" (Timer.h:16): the  *)
(* TimerId that addTimer returns has the number of the timer it created.     *)
OwnNumber ==
    [][\A c \in Threads :
         inAdd[c] # 0 /\ inAdd'[c] = 0 => ids' = ids \cup {inAdd[c]}]_vars

(* The loop never sleeps past a timer: when it starts to wait, it does so    *)
(* until the first expiration or for the minimum of one unit, and no timer   *)
(* is added while it sleeps (getTimeOutPeriod, addTimer).                    *)
NoOversleep ==
    [][pc' = "waiting" =>
         /\ pc = "waiting" => timer_list' = timer_list
         /\ pc # "waiting" => \A e \in timer_list' : wakeAt' <= Max({e[1], now + 1})]_vars

(* Every timer runs or is cancelled, also one that another thread adds while *)
(* the loop sleeps (addTimer, getTimeOutPeriod, handleRead).                 *)
EveryTimerRuns ==
    \A t \in 1 .. MaxTimers :
        (t <= Len(timer) /\ timer[t].exp <= MaxTime) ~> (t \in fired \cup canceled)
=============================================================================
